---------------------------- MODULE MCRebalance ----------------------------
EXTENDS Rebalance, TLC
CONSTANTS a, b, c
Sectors == (a :> "energy") @@ (b :> "energy") @@ (c :> "health")
Values == {-1, 0, 3, 7}
=============================================================================
