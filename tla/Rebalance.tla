------------------------------ MODULE Rebalance ------------------------------
(***************************************************************************)
(* build_rebalance_advice and _allocate_notional (rebalance.py): a broker  *)
(* snapshot and a fresh model target become a staged plan.  A holding is   *)
(* reduced when its own risk gate fires, a target name is bought, and the  *)
(* changes are fitted, one after the other, into the monthly budget.       *)
(*                                                                         *)
(* Values are integers in a unit of account equity.                        *)
(***************************************************************************)
EXTENDS Integers, FiniteSets, FiniteSetsExt

CONSTANTS
    Ticker, Sector,
    NameLimit, HalfLimit,  \* MAX_NAME_WEIGHT and the half of it
    Budget,                \* MONTHLY_TURNOVER_BUDGET
    Band,                  \* SECTOR_ACTIVE_LIMIT
    MinTrade,              \* changes below it are left out of the plan
    Holding,               \* values a position may have; a short's is negative
    MaxRounds              \* bound: plans that are followed

ASSUME RebalanceAssumption ==
    /\ IsFiniteSet(Ticker) /\ Sector \in [Ticker -> STRING] /\ Holding \subseteq Int
    /\ {NameLimit, HalfLimit, Budget, Band, MinTrade, MaxRounds} \subseteq Nat
    /\ HalfLimit <= NameLimit /\ MinTrade > 0

VARIABLES
    held,      \* the broker's positions
    target,    \* the model target
    weak,      \* names in the lowest quarter of ranks or with a weak ML score
    score,     \* order of (operational_score, rank); equal for equal keys
    desired, proposed,  \* desired_delta_value, proposed_delta_value
    todo,      \* names of the loop's list that are still to come
    remaining, \* what is left of the budget, then of the sale proceeds
    phase,
    plan,      \* the actions that are advised
    rounds,    \* plans followed so far
    bought     \* history: names the last plan followed has bought

inputs == <<held, target, weak, score>>
rebvars == <<inputs, desired, proposed, todo, remaining, phase, plan, rounds, bought>>

Least(a, b) == IF a <= b THEN a ELSE b
Abs(n) == IF n < 0 THEN -n ELSE n
Total(value, names) == MapThenSumSet(LAMBDA t : value[t], names)

-----------------------------------------------------------------------------
(* Risk gates.                                                             *)

Held == {t \in Ticker : held[t] # 0}
InSector(t, names) == {u \in names : Sector[u] = Sector[t]}
SectorOverage(t) == Total(held, InSector(t, Held)) - (Total(target, InSector(t, Ticker)) + Band)

RiskLimitUnfloored(t) ==
    LET concentrated == IF held[t] > NameLimit THEN NameLimit ELSE held[t]
        share    == held[t] - SectorOverage(t) \div Cardinality(InSector(t, Held))
        crowded  == IF SectorOverage(t) <= 0 THEN concentrated ELSE Least(concentrated, share)
    IN IF t \in weak THEN Least(crowded, HalfLimit) ELSE crowded
\* A concentrated position is limited to the name limit; one in a sector above its
\* band gives up an equal share of the excess (in whole units); a weak one is
\* limited to half size.
RiskLimit(t) ==
    LET concentrated == IF held[t] > NameLimit THEN NameLimit ELSE held[t]
        share    == held[t] - SectorOverage(t) \div Cardinality(InSector(t, Held))
        crowded  == IF SectorOverage(t) <= 0 THEN concentrated
                    ELSE Least(concentrated, IF share > 0 THEN share ELSE 0)
    IN IF t \in weak THEN Least(crowded, HalfLimit) ELSE crowded

DesiredOnTop(t) ==
    IF held[t] <= 0 THEN target[t] - held[t]
    ELSE IF RiskLimit(t) < held[t] THEN RiskLimit(t) - held[t]
    ELSE target[t]
\* What is not held, or is held short, goes to its target; a holding goes down to
\* its risk limit or, when that asks for nothing, up to its target.
DesiredDelta(t) ==
    IF held[t] <= 0 THEN target[t] - held[t]
    ELSE IF RiskLimit(t) < held[t] THEN RiskLimit(t) - held[t]
    ELSE IF target[t] > held[t] THEN target[t] - held[t]
    ELSE 0

Sells == {t \in Ticker : desired[t] < 0}
Buys == {t \in Ticker : desired[t] > 0}

-----------------------------------------------------------------------------
\* The target comes from the optimizer or, when that fails, gives twenty names the
\* name limit: no name has more.
RebalanceInit ==
    /\ held \in [Ticker -> Holding]
    /\ target \in [Ticker -> {0, HalfLimit, NameLimit}]
    /\ weak \in SUBSET Ticker
    /\ score \in [Ticker -> 0 .. 1]
    /\ desired = [t \in Ticker |-> 0] /\ proposed = [t \in Ticker |-> 0]
    /\ todo = {} /\ remaining = 0 /\ plan = {}
    /\ phase = "gates" /\ rounds = 0 /\ bought = {}

Gate ==
    /\ phase = "gates"
    /\ desired' = [t \in Ticker |-> DesiredDelta(t)]
    /\ todo' = {t \in Ticker : DesiredDelta(t) < 0}
    /\ remaining' = Budget
    /\ phase' = "selling"
    /\ UNCHANGED <<inputs, proposed, plan, rounds, bought>>

\* The largest reduction first.
SellNext(t) ==
    /\ phase = "selling" /\ t \in todo
    /\ \A u \in todo : Abs(desired[u]) <= Abs(desired[t])
    /\ LET amount == Least(Abs(desired[t]), remaining) IN
       /\ proposed' = [proposed EXCEPT ![t] = -amount]
       /\ remaining' = remaining - amount
    /\ todo' = todo \ {t}
    /\ UNCHANGED <<inputs, desired, phase, plan, rounds, bought>>
KeepBudget ==
    /\ phase = "selling" /\ todo = {}
    /\ todo' = Buys
    /\ phase' = "buying"
    /\ UNCHANGED <<inputs, desired, proposed, remaining, plan, rounds, bought>>
\* Only the proceeds of the staged reductions are spent.
CountProceeds ==
    /\ phase = "selling" /\ todo = {}
    /\ remaining' = Budget - remaining
    /\ todo' = Buys
    /\ phase' = "buying"
    /\ UNCHANGED <<inputs, desired, proposed, plan, rounds, bought>>

\* The best score first.
BuyNext(t) ==
    /\ phase = "buying" /\ t \in todo
    /\ \A u \in todo : score[u] <= score[t]
    /\ LET amount == Least(desired[t], remaining) IN
       /\ proposed' = [proposed EXCEPT ![t] = amount]
       /\ remaining' = remaining - amount
    /\ todo' = todo \ {t}
    /\ UNCHANGED <<inputs, desired, phase, plan, rounds, bought>>

Advise ==
    /\ phase = "buying" /\ todo = {}
    /\ plan' = {t \in Ticker : Abs(proposed[t]) >= MinTrade}
    /\ phase' = "done"
    /\ UNCHANGED <<inputs, desired, proposed, todo, remaining, rounds, bought>>

\* No order leaves this module: its reader may follow the plan at the broker, and
\* ask again with the same model snapshot.
Follow ==
    /\ phase = "done" /\ rounds < MaxRounds
    /\ rounds' = rounds + 1
    /\ held' = [t \in Ticker |-> IF t \in plan THEN held[t] + proposed[t] ELSE held[t]]
    /\ bought' = {t \in plan : proposed[t] > 0}
    /\ desired' = [t \in Ticker |-> 0] /\ proposed' = desired'
    /\ plan' = {} /\ remaining' = 0
    /\ phase' = "gates"
    /\ UNCHANGED <<target, weak, score, todo>>

RebalanceNext ==
    \/ Gate \/ CountProceeds \/ Advise \/ Follow
    \/ \E t \in Ticker : SellNext(t) \/ BuyNext(t)
RebalanceSpec == RebalanceInit /\ [][RebalanceNext]_rebvars

-----------------------------------------------------------------------------
Reduced == {t \in Ticker : proposed[t] < 0}
Bought == {t \in Ticker : proposed[t] > 0}

\* One-way turnover stays within the budget and the purchases within the reductions
\* it stages.  In the plan, which leaves small changes out, purchases may exceed
\* reductions, but by no more than the reductions left out.
PlanFitsBudget ==
    phase = "done" =>
      LET dust == Reduced \ plan IN
      /\ -Total(proposed, Reduced) <= Budget
      /\ Total(proposed, Bought) <= -Total(proposed, Reduced)
      /\ Total(proposed, plan) <= Cardinality(dust) * (MinTrade - 1)

\* No reduction takes a holding below its risk limit, let alone short, none is made
\* without a risk gate, and no purchase goes beyond the target.
LimitsAreKept ==
    \A t \in Ticker : phase \in {"selling", "buying", "done"} =>
      /\ t \in Reduced => held[t] + proposed[t] >= RiskLimit(t) /\ held[t] + proposed[t] >= 0
                          /\ RiskLimit(t) < held[t]
      /\ t \in Bought => held[t] + proposed[t] <= target[t]

\* A name bought by one plan is reduced by the next only if it is weak or its sector
\* is above its band: what a purchase brings never fires the name limit.
ReversalNeedsAReason ==
    \A t \in bought : t \in Reduced => t \in weak \/ SectorOverage(t) > 0
=============================================================================
