--------------------------- MODULE ResearchGraph ---------------------------
(***************************************************************************)
(* The committee on one company and cutoff (agents.py, ResearchGraph):     *)
(* independent analysts, two rounds of bull and bear, a judge.  Every call *)
(* of the model goes through agent_cache, a table shared by all the runs   *)
(* of the process.  A call yields to other runs while the model answers;   *)
(* what it does before and after that wait it does in one go.              *)
(***************************************************************************)
EXTENDS Naturals

CONSTANTS Run,              \* runs of the graph for one EvidencePacket
          Analyst,          \* the independent analyst roles
          SupportingModel,  \* models the benchmark may route the analysts to
          Variants,         \* how the runs may be configured: debate or not, which route
          MaxFingerprint,   \* bound on the provider's silent model changes
          None

Stage == {"new", "analysts", "round_1", "round_2", "judge", "done", "failed"}
Judges == {"consensus_with_debate", "consensus_without_debate"}
Debater == {"bull_1", "bear_1", "bull_2", "bear_2"}
Role == Analyst \cup Debater \cup Judges
Key == (Analyst \X SupportingModel) \cup ((Debater \cup Judges) \X {"decision"})
Answers == [by : Run, fp : 0..MaxFingerprint, wild : BOOLEAN]

ASSUME ResearchAssumption ==
    /\ MaxFingerprint \in Nat /\ None \notin Answers
    /\ Analyst \cap (Debater \cup Judges) = {}
    /\ Variants \subseteq [Run -> [debate : BOOLEAN, route : SupportingModel]]
    /\ "decision" \notin SupportingModel

VARIABLES backend,   \* "duckdb" or "postgres"
          config,    \* with_debate and the analysts' model of each run, fixed at its start
          stage,     \* the node of the graph each run is in
          waiting,   \* the calls each run has at the model
          got,       \* the answers each run works with
          cache,     \* agent_cache
          decision,  \* the consensus_decisions row of this company and cutoff
          fp,        \* the fingerprint the provider serves now
          raced      \* keys two runs asked the model for at the same time

rgvars == <<backend, config, stage, waiting, got, cache, decision, fp, raced>>

Judge(r) == IF config[r].debate THEN "consensus_with_debate" ELSE "consensus_without_debate"
RolesOf(r, s) ==
    CASE s = "analysts" -> Analyst
      [] s = "round_1"  -> {"bull_1", "bear_1"}
      [] s = "round_2"  -> {"bull_2", "bear_2"}
      [] s = "judge"    -> {Judge(r)}
      [] OTHER          -> {}

\* _cache_key: the role, its model and the packet; neither the model's
\* fingerprint nor what the analysts and the debaters said is part of it.
KeyOf(r, role) == <<role, IF role \in Analyst THEN config[r].route ELSE "decision">>

ResearchInit ==
    /\ backend \in {"duckdb", "postgres"}
    /\ config \in Variants
    /\ stage = [r \in Run |-> "new"]
    /\ waiting = [r \in Run |-> {}]
    /\ got = [r \in Run |-> [role \in Role |-> None]]
    /\ cache = [k \in Key |-> None]
    /\ decision = None
    /\ fp = 0
    /\ raced = {}

-----------------------------------------------------------------------------
\* cache_put: INSERT OR REPLACE in DuckDB, ON CONFLICT DO NOTHING in Postgres.
PutFirstWins(k, answer) == IF cache[k] # None THEN cache ELSE [cache EXCEPT ![k] = answer]
Put(k, answer) ==
    IF backend = "postgres" /\ cache[k] # None THEN cache
    ELSE [cache EXCEPT ![k] = answer]

\* A run that raises drops what it had; gather() leaves its other calls running.
FailRun(r) ==
    /\ stage' = [stage EXCEPT ![r] = "failed"]
    /\ got' = [got EXCEPT ![r] = [role \in Role |-> None]]
    /\ UNCHANGED decision

\* Once it has its draft the judge's node runs on to the end: ConsensusDecision
\* refuses a median outside its range, and the run raises; otherwise the
\* decision is saved with the model version the cache holds under the key.
Accepts(draft)  == ~draft.wild
Verdict(r, draft, entry) ==
    IF Accepts(draft)
    THEN /\ stage' = [stage EXCEPT ![r] = "done"]
         /\ got' = [got EXCEPT ![r][Judge(r)] = draft]
         /\ decision' = [by |-> r, draft |-> draft, meta |-> entry]
    ELSE FailRun(r)

NextStage(r) ==
    CASE stage[r] = "new"      -> "analysts"
      [] stage[r] = "analysts" -> IF config[r].debate THEN "round_1" ELSE "judge"
      [] stage[r] = "round_1"  -> "round_2"
      [] stage[r] = "round_2"  -> "judge"

\* The graph enters its next node when gather() has every answer of the last
\* one.  All calls of a stage look into the cache before any of them waits: a
\* hit is the answer, a miss goes to the model.
GatheredAny(r) == stage[r] \in {"new", "analysts", "round_1", "round_2"}
Gathered(r)    == stage[r] \in {"new", "analysts", "round_1", "round_2"} /\ waiting[r] = {}
NoHits(r, roles)  == {}
Hits(r, roles)    == {role \in roles : cache[KeyOf(r, role)] # None}

Enter(r) ==
    /\ Gathered(r)
    /\ LET next   == NextStage(r)
           roles  == RolesOf(r, next)
           hits   == Hits(r, roles)
           misses == roles \ hits
       IN  /\ waiting' = [waiting EXCEPT ![r] = @ \cup misses]
           /\ raced' = raced \cup {KeyOf(r, role) : role \in {m \in misses :
                \E q \in Run \ {r} : m \in waiting[q] /\ KeyOf(q, m) = KeyOf(r, m)}}
           /\ IF next = "judge" /\ hits # {}
              THEN LET entry == cache[KeyOf(r, Judge(r))] IN Verdict(r, entry, entry)
              ELSE /\ stage' = [stage EXCEPT ![r] = next]
                   /\ got' = [got EXCEPT ![r] = [role \in Role |->
                                IF role \in hits THEN cache[KeyOf(r, role)] ELSE @[role]]]
                   /\ UNCHANGED decision
    /\ UNCHANGED <<backend, config, cache, fp>>

\* A valid answer arrives: it is cached, also when the run has failed meanwhile.
Answer(r, role) ==
    /\ role \in waiting[r]
    /\ waiting' = [waiting EXCEPT ![r] = @ \ {role}]
    /\ \E wild \in IF role \in Judges THEN BOOLEAN ELSE {FALSE} :
         LET answer == [by |-> r, fp |-> fp, wild |-> wild]
             k == KeyOf(r, role)
         IN  /\ cache' = Put(k, answer)
             /\ IF stage[r] = "failed" THEN UNCHANGED <<stage, got, decision>>
                ELSE IF role \in Judges THEN Verdict(r, answer, cache'[k])
                ELSE got' = [got EXCEPT ![r][role] = answer] /\ UNCHANGED <<stage, decision>>
    /\ UNCHANGED <<backend, config, fp, raced>>

\* An HTTP error, or a second invalid answer after the one retry inside the
\* wait, raises in the node and fails the run.
CallRaises(r, role) ==
    /\ role \in waiting[r]
    /\ waiting' = [waiting EXCEPT ![r] = @ \ {role}]
    /\ FailRun(r)
    /\ UNCHANGED <<backend, config, cache, fp, raced>>

\* The provider puts another build behind the same model name.
FingerprintChanges ==
    /\ fp < MaxFingerprint /\ fp' = fp + 1
    /\ UNCHANGED <<backend, config, stage, waiting, got, cache, decision, raced>>

RunStep(r) == Enter(r) \/ \E role \in Role : Answer(r, role) \/ CallRaises(r, role)

ResearchNext == (\E r \in Run : RunStep(r)) \/ FingerprintChanges

ResearchSpec == ResearchInit /\ [][ResearchNext]_rgvars

-----------------------------------------------------------------------------
ResearchTypeOK ==
    /\ backend \in {"duckdb", "postgres"} /\ config \in Variants
    /\ stage \in [Run -> Stage]
    /\ waiting \in [Run -> SUBSET Role]
    /\ got \in [Run -> [Role -> Answers \cup {None}]]
    /\ cache \in [Key -> Answers \cup {None}]
    /\ decision \in [by : Run, draft : Answers, meta : Answers] \cup {None}
    /\ fp \in 0..MaxFingerprint
    /\ raced \subseteq Key

\* What a run works with is what the cache would give the next run, unless two
\* runs asked the model for the same thing at the same time.
DivergenceNeedsRace ==
    \A r \in Run, role \in Role :
        got[r][role] # None => \/ got[r][role] = cache[KeyOf(r, role)]
                               \/ KeyOf(r, role) \in raced

\* The model version and fingerprint saved with a decision are those of the
\* answer it was drawn from, unless Postgres kept the other answer of a race.
ProvenanceUnlessRaced ==
    decision # None =>
        \/ decision.meta = decision.draft
        \/ backend = "postgres" /\ KeyOf(decision.by, Judge(decision.by)) \in raced

\* A verdict is reached only on every analyst's view and, with debate, on both
\* rounds; and an answer out of range never becomes a decision.
VerdictIsComplete ==
    /\ \A r \in Run : stage[r] \in {"judge", "done"} =>
         \A s \in {"analysts"} \cup IF config[r].debate THEN {"round_1", "round_2"} ELSE {} :
           \A role \in RolesOf(r, s) : got[r][role] # None
    /\ decision # None => ~decision.draft.wild /\ stage[decision.by] = "done"
=============================================================================
