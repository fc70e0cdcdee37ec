------------------------ MODULE ResearchGraphProofs ------------------------
(***************************************************************************)
(* Proofs about ResearchGraph, for any runs, analysts, models and ways to  *)
(* configure them.  The cache is shared and two of its backends disagree   *)
(* on who wins; what keeps the runs honest is that a call only ever waits  *)
(* on an empty entry, so that an entry can change under a waiting call     *)
(* only when two runs asked for the same thing, and that is recorded.      *)
(***************************************************************************)
EXTENDS ResearchGraph, TLAPS

\* A run waits only for roles of the node it is in, and for its own judge.
WaitInv ==
    \A r \in Run : /\ waiting[r] \cap Judges \subseteq {Judge(r)}
                   /\ stage[r] # "failed" => waiting[r] \subseteq RolesOf(r, stage[r])

\* A call waits on an empty entry, or on one that is raced for.
MissInv == \A r \in Run : \A role \in waiting[r] :
    cache[KeyOf(r, role)] = None \/ KeyOf(r, role) \in raced

\* Two runs that wait for one entry race for it.
RaceInv == \A r, q \in Run : \A role \in waiting[r] \cap waiting[q] :
    r # q /\ KeyOf(r, role) = KeyOf(q, role) => KeyOf(r, role) \in raced

\* The answers a run has when it enters a stage: those of the stages before.
Answered(g, roles) == \A role \in roles : g[role] # None
Passed(r, s, g) ==
    /\ s \in {"round_1", "round_2", "judge", "done"} => Answered(g, Analyst)
    /\ s = "round_1" => config[r].debate
    /\ s \in {"round_2", "judge", "done"} /\ config[r].debate => Answered(g, {"bull_1", "bear_1"})
    /\ s = "round_2" => config[r].debate
    /\ s \in {"judge", "done"} /\ config[r].debate => Answered(g, {"bull_2", "bear_2"})
StageInv ==
    \A r \in Run :
        /\ Passed(r, stage[r], got[r])
        /\ stage[r] # "failed" =>
             \A role \in RolesOf(r, stage[r]) : got[r][role] # None \/ role \in waiting[r]

DecisionInv == decision # None => ~decision.draft.wild /\ stage[decision.by] = "done"

RInv == /\ ResearchTypeOK /\ WaitInv /\ MissInv /\ RaceInv /\ StageInv
        /\ DivergenceNeedsRace /\ ProvenanceUnlessRaced /\ DecisionInv

LEMMA ConfigFields ==
    ASSUME config \in Variants, NEW r \in Run
    PROVE  config[r].debate \in BOOLEAN /\ config[r].route \in SupportingModel
  BY ResearchAssumption

\* The role is part of the key.
LEMMA Keys ==
    ASSUME config \in Variants, NEW r \in Run, NEW role \in Role
    PROVE  /\ KeyOf(r, role) \in Key
           /\ \A q \in Run, other \in Role : KeyOf(r, role) = KeyOf(q, other) => role = other
  BY ConfigFields DEF KeyOf, Key, Role

LEMMA RolesAreRoles ==
    ASSUME NEW r \in Run, NEW s
    PROVE  RolesOf(r, s) \subseteq Role /\ Judge(r) \in Judges
  BY DEF RolesOf, Role, Judge, Judges, Debater

LEMMA InitRInv == ResearchInit => RInv
<1> SUFFICES ASSUME ResearchInit PROVE RInv
  OBVIOUS
<1>1. ResearchTypeOK
  BY ResearchAssumption DEF ResearchInit, ResearchTypeOK, Stage
<1>2. WaitInv /\ MissInv /\ RaceInv
  BY DEF ResearchInit, WaitInv, MissInv, RaceInv
<1>3. StageInv
  BY DEF ResearchInit, StageInv, Passed, RolesOf
<1>4. DivergenceNeedsRace /\ ProvenanceUnlessRaced /\ DecisionInv
  BY DEF ResearchInit, DivergenceNeedsRace, ProvenanceUnlessRaced, DecisionInv
<1> QED BY <1>1, <1>2, <1>3, <1>4 DEF RInv

-----------------------------------------------------------------------------
(* What every step does to the cache, seen from the runs.                  *)

\* Whatever the runs work with is in the cache of the next state, or raced for.
Matches(g) == \A r \in Run, role \in Role :
    g[r][role] # None => g[r][role] = cache'[KeyOf(r, role)] \/ KeyOf(r, role) \in raced'

\* A run that raises: it has nothing left to agree or disagree with.
LEMMA FailKeeps ==
    ASSUME RInv, NEW r \in Run, FailRun(r), config' = config, raced \subseteq raced',
           backend' = backend, stage[r] # "done", Matches(got),
           \A q \in Run \ {r} : waiting'[q] = waiting[q]
    PROVE  /\ stage' \in [Run -> Stage] /\ got' \in [Run -> [Role -> Answers \cup {None}]]
           /\ decision' = decision
           /\ StageInv' /\ DivergenceNeedsRace' /\ ProvenanceUnlessRaced' /\ DecisionInv'
<1>1. /\ stage' = [stage EXCEPT ![r] = "failed"]
      /\ got' = [got EXCEPT ![r] = [role \in Role |-> None]] /\ decision' = decision
  BY DEF FailRun
<1>2. stage' \in [Run -> Stage] /\ got' \in [Run -> [Role -> Answers \cup {None}]]
  BY <1>1 DEF RInv, ResearchTypeOK, Stage
<1>3. StageInv'
  BY <1>1 DEF RInv, ResearchTypeOK, StageInv, Passed, Answered, RolesOf, Judge
<1>4. DivergenceNeedsRace'
  BY <1>1 DEF RInv, ResearchTypeOK, DivergenceNeedsRace, Matches, KeyOf
<1>5. ProvenanceUnlessRaced' /\ DecisionInv'
  BY <1>1 DEF RInv, ResearchTypeOK, ProvenanceUnlessRaced, DecisionInv, KeyOf, Judge
<1> QED BY <1>1, <1>2, <1>3, <1>4, <1>5

\* The judge's node to its end.
LEMMA VerdictKeeps ==
    ASSUME RInv, NEW r \in Run, NEW draft \in Answers, NEW entry \in Answers,
           Verdict(r, draft, entry), config' = config, raced \subseteq raced',
           backend' = backend, stage[r] # "done", Passed(r, "judge", got[r]), Matches(got),
           \A q \in Run \ {r} : waiting'[q] = waiting[q],
           draft = cache'[KeyOf(r, Judge(r))] \/ KeyOf(r, Judge(r)) \in raced',
           entry = draft \/ (backend = "postgres" /\ KeyOf(r, Judge(r)) \in raced')
    PROVE  /\ stage' \in [Run -> Stage] /\ stage'[r] \in {"done", "failed"}
           /\ \A q \in Run \ {r} : stage'[q] = stage[q]
           /\ got' \in [Run -> [Role -> Answers \cup {None}]]
           /\ decision' \in [by : Run, draft : Answers, meta : Answers] \cup {None}
           /\ StageInv' /\ DivergenceNeedsRace' /\ ProvenanceUnlessRaced' /\ DecisionInv'
<1>1. CASE FailRun(r)
  BY <1>1, FailKeeps DEF RInv, ResearchTypeOK, FailRun
<1>2. CASE /\ Accepts(draft)
           /\ stage' = [stage EXCEPT ![r] = "done"]
           /\ got' = [got EXCEPT ![r][Judge(r)] = draft]
           /\ decision' = [by |-> r, draft |-> draft, meta |-> entry]
  <2>1. Judge(r) \in Role /\ Judge(r) \notin Analyst \cup Debater
    BY ResearchAssumption DEF Judge, Role, Judges, Debater
  <2>2. stage' \in [Run -> Stage] /\ got' \in [Run -> [Role -> Answers \cup {None}]]
    BY <1>2, <2>1 DEF RInv, ResearchTypeOK, Stage
  <2>3. decision' \in [by : Run, draft : Answers, meta : Answers] /\ decision'.by = r
        /\ decision'.draft = draft /\ decision'.meta = entry
    BY <1>2
  <2>4. \A q \in Run, role \in Role : got'[q][role] =
          IF q = r /\ role = Judge(r) THEN draft ELSE got[q][role]
    BY <1>2, <2>1 DEF RInv, ResearchTypeOK
  <2>5. \A q \in Run : stage'[q] = IF q = r THEN "done" ELSE stage[q]
    BY <1>2 DEF RInv, ResearchTypeOK
  <2>6. StageInv'
    <3> SUFFICES ASSUME NEW q \in Run
                 PROVE  /\ Passed(q, stage[q], got[q])'
                        /\ stage'[q] # "failed" =>
                             \A role \in RolesOf(q, stage[q])' :
                               got'[q][role] # None \/ role \in waiting'[q]
      BY DEF StageInv
    <3>1. CASE q = r
      BY <3>1, <2>1, <2>4, <2>5 DEF Passed, Answered, RolesOf, Role, Debater
    <3>2. CASE q # r
      <4>1. got'[q] = got[q]
        BY <1>2, <3>2 DEF RInv, ResearchTypeOK
      <4> QED BY <3>2, <4>1, <2>5 DEF RInv, StageInv, Passed, Answered, RolesOf, Judge
    <3> QED BY <3>1, <3>2
  <2>7. DivergenceNeedsRace'
    BY <2>1, <2>4 DEF DivergenceNeedsRace, Matches, KeyOf
  <2>8. ProvenanceUnlessRaced'
    BY <2>3 DEF ProvenanceUnlessRaced, KeyOf, Judge
  <2>9. DecisionInv'
    BY <1>2, <2>3, <2>5 DEF DecisionInv, Accepts
  <2> QED BY <2>2, <2>3, <2>5, <2>6, <2>7, <2>8, <2>9
<1> QED BY <1>1, <1>2 DEF Verdict

-----------------------------------------------------------------------------
(* The steps, one lemma for each action.                                   *)

LEMMA EnterKeeps == ASSUME RInv, NEW r \in Run, Enter(r) PROVE RInv'
<1> DEFINE next   == NextStage(r)
           roles  == RolesOf(r, next)
           hits   == Hits(r, roles)
           misses == roles \ hits
           entry  == cache[KeyOf(r, Judge(r))]
<1>1. /\ stage[r] \in {"new", "analysts", "round_1", "round_2"} /\ waiting[r] = {}
      /\ UNCHANGED <<backend, config, cache, fp>> /\ config \in Variants
  BY DEF Enter, Gathered, RInv, ResearchTypeOK
<1>2. /\ next \in {"analysts", "round_1", "round_2", "judge"}
      /\ next = "analysts" <=> stage[r] = "new"
      /\ next = "round_1" <=> stage[r] = "analysts" /\ config[r].debate
      /\ next = "round_2" <=> stage[r] = "round_1"
      /\ next = "judge" <=> stage[r] = "round_2" \/ (stage[r] = "analysts" /\ ~config[r].debate)
  BY <1>1 DEF NextStage
<1>3. /\ roles \subseteq Role /\ hits \subseteq roles /\ misses \subseteq Role
      /\ \A role \in roles : role \in hits <=> cache[KeyOf(r, role)] # None
      /\ roles \cap Judges \subseteq {Judge(r)}
      /\ next = "judge" => roles = {Judge(r)}
  BY RolesAreRoles, ResearchAssumption, <1>2 DEF Hits, RolesOf, Judges, Debater
<1>4. /\ waiting' = [waiting EXCEPT ![r] = misses] /\ raced \subseteq raced'
      /\ \A q \in Run \ {r}, m \in misses :
           m \in waiting[q] /\ KeyOf(q, m) = KeyOf(r, m) => KeyOf(r, m) \in raced'
  <2>1. waiting' = [waiting EXCEPT ![r] = waiting[r] \cup misses]
    BY DEF Enter
  <2>2. raced' = raced \cup {KeyOf(r, role) : role \in {m \in misses :
           \E q \in Run \ {r} : m \in waiting[q] /\ KeyOf(q, m) = KeyOf(r, m)}}
    BY DEF Enter
  <2> HIDE DEF misses
  <2> QED BY <1>1, <2>1, <2>2
<1>5. raced' \subseteq Key
  <2>1. raced' \subseteq raced \cup {KeyOf(r, role) : role \in misses}
    BY DEF Enter
  <2> HIDE DEF misses
  <2> QED BY <1>1, <1>3, <2>1, Keys DEF RInv, ResearchTypeOK
<1>6. IF next = "judge" /\ hits # {}
      THEN Verdict(r, entry, entry)
      ELSE /\ stage' = [stage EXCEPT ![r] = next]
           /\ got' = [got EXCEPT ![r] = [role \in Role |->
                        IF role \in hits THEN cache[KeyOf(r, role)] ELSE got[r][role]]]
           /\ UNCHANGED decision
  BY DEF Enter
<1> HIDE DEF next, roles, hits, misses
<1>7. /\ waiting' \in [Run -> SUBSET Role] /\ waiting'[r] = misses
      /\ \A q \in Run \ {r} : waiting'[q] = waiting[q]
  BY <1>3, <1>4 DEF RInv, ResearchTypeOK
<1>8. \A q \in Run, role \in Role : KeyOf(q, role)' = KeyOf(q, role)
  BY <1>1 DEF KeyOf
<1>9. MissInv'
  <2> SUFFICES ASSUME NEW q \in Run, NEW role \in waiting'[q]
               PROVE  cache[KeyOf(q, role)] = None \/ KeyOf(q, role) \in raced'
    BY <1>1 DEF MissInv, KeyOf
  <2>1. CASE q = r
    BY <1>3, <1>7, <2>1 DEF misses
  <2>2. CASE q # r
    BY <1>4, <1>7, <2>2 DEF RInv, MissInv
  <2> QED BY <2>1, <2>2
<1>10. RaceInv'
  <2> SUFFICES ASSUME NEW q \in Run, NEW p \in Run, NEW role \in waiting'[q] \cap waiting'[p],
                      q # p, KeyOf(q, role) = KeyOf(p, role)
               PROVE  KeyOf(q, role) \in raced'
    BY <1>1 DEF RaceInv, KeyOf
  <2> QED BY <1>4, <1>7 DEF RInv, RaceInv
<1>11. Matches(got)
  BY <1>1, <1>4 DEF Matches, RInv, DivergenceNeedsRace
<1>12. Passed(r, next, got[r])
  <2>1. stage[r] # "failed" /\ Passed(r, stage[r], got[r])
    BY <1>1 DEF RInv, StageInv
  <2>2. Answered(got[r], RolesOf(r, stage[r]))
    BY <1>1, <2>1 DEF RInv, StageInv, Answered
  <2> QED BY <1>1, <1>2, <2>1, <2>2 DEF Passed, Answered, RolesOf
<1>13. CASE next = "judge" /\ hits # {}
  <2>1. hits = {Judge(r)} /\ misses = {} /\ Judge(r) \in Role
    BY <1>3, <1>13, RolesAreRoles DEF misses, Role
  <2>2. entry \in Answers
    BY <1>1, <1>3, <2>1, Keys DEF RInv, ResearchTypeOK
  <2>3. /\ stage' \in [Run -> Stage] /\ stage'[r] \in {"done", "failed"}
        /\ \A q \in Run \ {r} : stage'[q] = stage[q]
        /\ got' \in [Run -> [Role -> Answers \cup {None}]]
        /\ decision' \in [by : Run, draft : Answers, meta : Answers] \cup {None}
        /\ StageInv' /\ DivergenceNeedsRace' /\ ProvenanceUnlessRaced' /\ DecisionInv'
    <3> HIDE DEF entry
    <3>1. entry = cache'[KeyOf(r, Judge(r))]
      BY <1>1 DEF entry
    <3> QED BY <1>1, <1>4, <1>6, <1>7, <1>11, <1>12, <1>13, <2>2, <3>1, VerdictKeeps
  <2>4. ResearchTypeOK'
    BY <1>1, <1>5, <1>7, <2>3 DEF RInv, ResearchTypeOK
  <2>5. WaitInv'
    BY <1>1, <1>7, <2>1, <2>3 DEF RInv, WaitInv, RolesOf, Judge
  <2> QED BY <1>9, <1>10, <2>3, <2>4, <2>5 DEF RInv
<1>14. CASE ~(next = "judge" /\ hits # {})
  <2>1. /\ stage' = [stage EXCEPT ![r] = next] /\ decision' = decision
        /\ \A q \in Run : stage'[q] = IF q = r THEN next ELSE stage[q]
    BY <1>6, <1>14 DEF RInv, ResearchTypeOK
  <2>2. /\ got' \in [Run -> [Role -> Answers \cup {None}]]
        /\ \A q \in Run \ {r} : got'[q] = got[q]
        /\ \A role \in Role : got'[r][role] =
             IF role \in hits THEN cache[KeyOf(r, role)] ELSE got[r][role]
    <3>1. got' = [got EXCEPT ![r] = [role \in Role |->
                    IF role \in hits THEN cache[KeyOf(r, role)] ELSE got[r][role]]]
      BY <1>6, <1>14
    <3>2. \A role \in Role : cache[KeyOf(r, role)] \in Answers \cup {None}
      BY <1>1, Keys DEF RInv, ResearchTypeOK
    <3>3. got \in [Run -> [Role -> Answers \cup {None}]]
      BY DEF RInv, ResearchTypeOK
    <3> QED BY <3>1, <3>2, <3>3
  <2>3. ResearchTypeOK'
    BY <1>1, <1>2, <1>5, <1>7, <2>1, <2>2 DEF RInv, ResearchTypeOK, Stage
  <2>4. WaitInv'
    <3>1. misses \subseteq RolesOf(r, next) /\ misses \cap Judges \subseteq {Judge(r)}
      BY <1>3 DEF misses, roles
    <3> QED BY <1>1, <1>7, <2>1, <3>1 DEF RInv, WaitInv, RolesOf, Judge
  <2>5. DivergenceNeedsRace'
    BY <1>1, <1>3, <1>11, <2>2 DEF DivergenceNeedsRace, Matches, KeyOf
  <2>6. ProvenanceUnlessRaced' /\ DecisionInv'
    BY <1>1, <1>2, <1>4, <2>1 DEF RInv, ResearchTypeOK, ProvenanceUnlessRaced, DecisionInv, KeyOf, Judge
  <2>7. StageInv'
    <3> SUFFICES ASSUME NEW q \in Run
                 PROVE  /\ Passed(q, stage[q], got[q])'
                        /\ stage'[q] # "failed" =>
                             \A role \in RolesOf(q, stage[q])' :
                               got'[q][role] # None \/ role \in waiting'[q]
      BY DEF StageInv
    <3>1. CASE q = r
      <4>1. \A role \in Role : got[r][role] # None => got'[r][role] # None
        BY <1>3, <2>2
      <4>2. Passed(r, next, got'[r])
        BY <1>12, <4>1 DEF Passed, Answered, Role, Debater
      <4>3. \A role \in RolesOf(r, next) : got'[r][role] # None \/ role \in waiting'[r]
        BY <1>3, <1>7, <2>2 DEF misses, roles
      <4> QED BY <1>1, <2>1, <3>1, <4>2, <4>3 DEF Passed, RolesOf, Judge
    <3>2. CASE q # r
      BY <1>1, <1>7, <2>1, <2>2, <3>2 DEF RInv, StageInv, Passed, Answered, RolesOf, Judge
    <3> QED BY <3>1, <3>2
  <2> QED BY <1>9, <1>10, <2>3, <2>4, <2>5, <2>6, <2>7 DEF RInv
<1> QED BY <1>13, <1>14

LEMMA AnswerKeeps == ASSUME RInv, NEW r \in Run, NEW role \in Role, Answer(r, role) PROVE RInv'
<1> DEFINE k == KeyOf(r, role)
<1>1. PICK wild \in IF role \in Judges THEN BOOLEAN ELSE {FALSE} :
        LET answer == [by |-> r, fp |-> fp, wild |-> wild]
        IN  /\ cache' = Put(k, answer)
            /\ IF stage[r] = "failed" THEN UNCHANGED <<stage, got, decision>>
               ELSE IF role \in Judges THEN Verdict(r, answer, cache'[k])
               ELSE got' = [got EXCEPT ![r][role] = answer] /\ UNCHANGED <<stage, decision>>
  BY DEF Answer
<1> DEFINE answer == [by |-> r, fp |-> fp, wild |-> wild]
<1>2. answer \in Answers /\ answer # None
  <2>1. wild \in BOOLEAN
    OBVIOUS
  <2> QED BY <2>1, ResearchAssumption DEF Answers, RInv, ResearchTypeOK
<1>3. /\ role \in waiting[r] /\ waiting' = [waiting EXCEPT ![r] = waiting[r] \ {role}]
      /\ UNCHANGED <<backend, config, fp, raced>> /\ config \in Variants /\ k \in Key
  BY Keys DEF Answer, RInv, ResearchTypeOK
<1>4. cache' = Put(k, answer) /\
      IF stage[r] = "failed" THEN UNCHANGED <<stage, got, decision>>
      ELSE IF role \in Judges THEN Verdict(r, answer, cache'[k])
      ELSE got' = [got EXCEPT ![r][role] = answer] /\ UNCHANGED <<stage, decision>>
  BY <1>1
<1> HIDE DEF k, answer
<1>5. /\ cache' \in [Key -> Answers \cup {None}]
      /\ \A x \in Key \ {k} : cache'[x] = cache[x]
      /\ \/ cache'[k] = answer
         \/ backend = "postgres" /\ cache[k] # None /\ cache'[k] = cache[k]
      /\ cache'[k] \in Answers
  BY <1>2, <1>3, <1>4 DEF Put, RInv, ResearchTypeOK
<1>6. cache[k] = None \/ k \in raced
  BY <1>3 DEF RInv, MissInv, k
<1>7. /\ waiting' \in [Run -> SUBSET Role] /\ waiting'[r] = waiting[r] \ {role}
      /\ \A q \in Run \ {r} : waiting'[q] = waiting[q]
  BY <1>3 DEF RInv, ResearchTypeOK
<1>8. \A q \in Run, other \in Role : KeyOf(q, other) = k => other = role
  BY <1>3, Keys DEF k
<1>9. MissInv'
  <2> SUFFICES ASSUME NEW q \in Run, NEW other \in waiting'[q]
               PROVE  cache'[KeyOf(q, other)] = None \/ KeyOf(q, other) \in raced
    BY <1>3 DEF MissInv, KeyOf
  <2>1. other \in waiting[q] /\ other \in Role /\ KeyOf(q, other) \in Key
    BY <1>3, <1>7, Keys DEF RInv, ResearchTypeOK
  <2>2. CASE KeyOf(q, other) # k
    BY <1>5, <2>1, <2>2 DEF RInv, MissInv
  <2>3. CASE KeyOf(q, other) = k
    <3>1. other = role /\ q # r
      BY <1>7, <1>8, <2>1, <2>3
    <3> QED BY <1>3, <2>1, <2>3, <3>1 DEF RInv, RaceInv, k
  <2> QED BY <2>2, <2>3
<1>10. RaceInv'
  <2> SUFFICES ASSUME NEW q \in Run, NEW p \in Run, NEW other \in waiting'[q] \cap waiting'[p],
                      q # p, KeyOf(q, other) = KeyOf(p, other)
               PROVE  KeyOf(q, other) \in raced
    BY <1>3 DEF RaceInv, KeyOf
  <2> QED BY <1>7 DEF RInv, RaceInv
<1>11. Matches(got)
  <2> SUFFICES ASSUME NEW q \in Run, NEW other \in Role, got[q][other] # None
               PROVE  got[q][other] = cache'[KeyOf(q, other)] \/ KeyOf(q, other) \in raced
    BY <1>3 DEF Matches
  <2>1. KeyOf(q, other) \in Key
    BY <1>3, Keys
  <2> QED BY <1>5, <1>6, <2>1 DEF RInv, DivergenceNeedsRace
<1>12. answer = cache'[k] \/ (backend = "postgres" /\ k \in raced)
  BY <1>5, <1>6
<1>13. CASE stage[r] = "failed"
  <2>1. UNCHANGED <<stage, got, decision>>
    BY <1>4, <1>13
  <2>2. ResearchTypeOK'
    BY <1>3, <1>5, <1>7, <2>1 DEF RInv, ResearchTypeOK
  <2>3. WaitInv'
    BY <1>3, <1>7, <2>1 DEF RInv, WaitInv, RolesOf, Judge
  <2>4. StageInv'
    BY <1>3, <1>7, <1>13, <2>1 DEF RInv, StageInv, Passed, Answered, RolesOf, Judge
  <2>5. DivergenceNeedsRace' /\ ProvenanceUnlessRaced' /\ DecisionInv'
    BY <1>3, <1>11, <2>1 DEF RInv, DivergenceNeedsRace, Matches, ProvenanceUnlessRaced, DecisionInv, KeyOf, Judge
  <2> QED BY <1>9, <1>10, <2>2, <2>3, <2>4, <2>5 DEF RInv
<1>14. CASE stage[r] # "failed" /\ role \in Judges
  <2>1. role = Judge(r) /\ role \in RolesOf(r, stage[r])
    BY <1>3, <1>14 DEF RInv, WaitInv
  <2>2. stage[r] = "judge" /\ waiting[r] \subseteq {Judge(r)}
    BY <1>14, <2>1, ResearchAssumption DEF RInv, WaitInv, RolesOf, Judges
  <2>3. Passed(r, "judge", got[r])
    BY <2>2 DEF RInv, StageInv
  <2>4. /\ stage' \in [Run -> Stage] /\ stage'[r] \in {"done", "failed"}
        /\ \A q \in Run \ {r} : stage'[q] = stage[q]
        /\ got' \in [Run -> [Role -> Answers \cup {None}]]
        /\ decision' \in [by : Run, draft : Answers, meta : Answers] \cup {None}
        /\ StageInv' /\ DivergenceNeedsRace' /\ ProvenanceUnlessRaced' /\ DecisionInv'
    BY <1>2, <1>3, <1>4, <1>5, <1>7, <1>11, <1>12, <1>14, <2>1, <2>2, <2>3, VerdictKeeps DEF k
  <2>5. ResearchTypeOK'
    BY <1>3, <1>5, <1>7, <2>4 DEF RInv, ResearchTypeOK
  <2>6. WaitInv'
    BY <1>3, <1>7, <2>1, <2>2, <2>4 DEF RInv, WaitInv, RolesOf, Judge
  <2> QED BY <1>9, <1>10, <2>4, <2>5, <2>6 DEF RInv
<1>15. CASE stage[r] # "failed" /\ role \notin Judges
  <2>1. got' = [got EXCEPT ![r][role] = answer] /\ UNCHANGED <<stage, decision>>
    BY <1>4, <1>15
  <2>2. /\ got' \in [Run -> [Role -> Answers \cup {None}]]
        /\ \A q \in Run, other \in Role : got'[q][other] =
             IF q = r /\ other = role THEN answer ELSE got[q][other]
    BY <1>2, <2>1 DEF RInv, ResearchTypeOK
  <2>3. ResearchTypeOK'
    BY <1>3, <1>5, <1>7, <2>1, <2>2 DEF RInv, ResearchTypeOK
  <2>4. WaitInv'
    BY <1>3, <1>7, <2>1 DEF RInv, WaitInv, RolesOf, Judge
  <2>5. DivergenceNeedsRace'
    BY <1>3, <1>11, <1>12, <2>2 DEF DivergenceNeedsRace, Matches, KeyOf, k
  <2>6. ProvenanceUnlessRaced' /\ DecisionInv'
    BY <1>3, <2>1 DEF RInv, ProvenanceUnlessRaced, DecisionInv, KeyOf, Judge
  <2>7. StageInv'
    <3>1. \A q \in Run, other \in Role : got[q][other] # None => got'[q][other] # None
      BY <1>2, <2>2
    <3> SUFFICES ASSUME NEW q \in Run
                 PROVE  /\ Passed(q, stage[q], got'[q])
                        /\ stage[q] # "failed" =>
                             \A other \in RolesOf(q, stage[q]) :
                               got'[q][other] # None \/ other \in waiting'[q]
      BY <1>3, <2>1 DEF StageInv, Passed, RolesOf, Judge
    <3>2. Passed(q, stage[q], got'[q])
      BY <3>1 DEF RInv, StageInv, Passed, Answered, Role, Debater
    <3>3. ASSUME stage[q] # "failed", NEW other \in RolesOf(q, stage[q])
          PROVE  got'[q][other] # None \/ other \in waiting'[q]
      <4>1. other \in Role /\ (got[q][other] # None \/ other \in waiting[q])
        BY <3>3, RolesAreRoles DEF RInv, StageInv
      <4> QED BY <1>2, <1>7, <2>2, <3>1, <4>1
    <3> QED BY <3>2, <3>3
  <2> QED BY <1>9, <1>10, <2>3, <2>4, <2>5, <2>6, <2>7 DEF RInv
<1> QED BY <1>13, <1>14, <1>15

LEMMA CallRaisesKeeps ==
    ASSUME RInv, NEW r \in Run, NEW role \in Role, CallRaises(r, role) PROVE RInv'
<1>1. /\ role \in waiting[r] /\ waiting' = [waiting EXCEPT ![r] = waiting[r] \ {role}]
      /\ FailRun(r) /\ UNCHANGED <<backend, config, cache, fp, raced>>
  BY DEF CallRaises
<1>2. /\ waiting' \in [Run -> SUBSET Role] /\ waiting'[r] = waiting[r] \ {role}
      /\ \A q \in Run \ {r} : waiting'[q] = waiting[q]
  BY <1>1 DEF RInv, ResearchTypeOK
<1>3. stage[r] # "done" /\ Matches(got)
  BY <1>1 DEF RInv, WaitInv, RolesOf, Matches, DivergenceNeedsRace
<1>4. /\ stage' \in [Run -> Stage] /\ got' \in [Run -> [Role -> Answers \cup {None}]]
      /\ decision' = decision
      /\ StageInv' /\ DivergenceNeedsRace' /\ ProvenanceUnlessRaced' /\ DecisionInv'
  BY <1>1, <1>2, <1>3, FailKeeps
<1>5. ResearchTypeOK'
  BY <1>1, <1>2, <1>4 DEF RInv, ResearchTypeOK
<1>6. WaitInv'
  BY <1>1, <1>2 DEF RInv, ResearchTypeOK, WaitInv, RolesOf, Judge, FailRun
<1>7. MissInv' /\ RaceInv'
  BY <1>1, <1>2 DEF RInv, MissInv, RaceInv, KeyOf
<1> QED BY <1>4, <1>5, <1>6, <1>7 DEF RInv

LEMMA QuietKeeps ==
    ASSUME RInv, UNCHANGED <<backend, config, stage, waiting, got, cache, decision, raced>>,
           fp' \in 0..MaxFingerprint
    PROVE  RInv'
  BY DEF RInv, ResearchTypeOK, WaitInv, MissInv, RaceInv, StageInv, Passed, Answered, RolesOf,
     DivergenceNeedsRace, ProvenanceUnlessRaced, DecisionInv, KeyOf, Judge

LEMMA RInvariant == ResearchSpec => []RInv
<1>1. ASSUME RInv, ResearchNext PROVE RInv'
  <2>1. ASSUME NEW r \in Run, RunStep(r) PROVE RInv'
    BY <1>1, <2>1, EnterKeeps, AnswerKeeps, CallRaisesKeeps DEF RunStep
  <2>2. CASE FingerprintChanges
    <3>1. fp' \in 0..MaxFingerprint
      BY <1>1, <2>2, ResearchAssumption DEF FingerprintChanges, RInv, ResearchTypeOK
    <3> QED BY <1>1, <2>2, <3>1, QuietKeeps DEF FingerprintChanges
  <2> QED BY <1>1, <2>1, <2>2 DEF ResearchNext
<1>2. ASSUME RInv, UNCHANGED rgvars PROVE RInv'
  BY <1>2, QuietKeeps DEF rgvars, RInv, ResearchTypeOK
<1> QED BY <1>1, <1>2, InitRInv, PTL DEF ResearchSpec

-----------------------------------------------------------------------------
\* Every variable keeps its type.
THEOREM ResearchTypeCorrect == ResearchSpec => []ResearchTypeOK
  BY RInvariant, PTL DEF RInv

\* Runs over one packet work with the same answers as the cache serves, whatever
\* fails, unless two asked for one at the same time.
THEOREM RunsAgreeUnlessRaced == ResearchSpec => []DivergenceNeedsRace
  BY RInvariant, PTL DEF RInv

\* A saved decision carries the model version of its own answer, a race on
\* Postgres apart.
THEOREM ProvenanceHolds == ResearchSpec => []ProvenanceUnlessRaced
  BY RInvariant, PTL DEF RInv

\* No verdict without every view before it, and none out of range.
THEOREM VerdictsAreComplete == ResearchSpec => []VerdictIsComplete
<1>1. RInv => VerdictIsComplete
  BY DEF RInv, StageInv, DecisionInv, VerdictIsComplete, Passed, Answered, RolesOf
<1> QED BY <1>1, RInvariant, PTL
=============================================================================
