--------------------------- MODULE MCPaperOrders ---------------------------
\* Two previews, two submit calls of up to two orders, one tick to live, one restart.
EXTENDS PaperOrders
=============================================================================
