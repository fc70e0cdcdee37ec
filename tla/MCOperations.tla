---------------------------- MODULE MCOperations ----------------------------
\* Any two workflows at once, for either of two cutoffs, over a line of
\* portfolios long enough to leave the monthly cap behind.
EXTENDS Operations
Points == 0..3
Dates  == 1..2
DeployedBefore == {<<1, 0>>}
=============================================================================
