--------------------------- MODULE MCPointInTime ---------------------------
EXTENDS PointInTime

Days == 1 .. 3
Periods == {1, 2}
=============================================================================
