------------------------- MODULE TradingRunsProofs -------------------------
(***************************************************************************)
(* Proofs about TradingRuns, for any processes, tickers, configurations,   *)
(* logs, deaths and resumptions: the agents speak in the order the         *)
(* configuration promises, no run is given a lesson from its future, and   *)
(* the log loses no decision unless a stale reading is acted upon.         *)
(***************************************************************************)
EXTENDS TradingRuns, FiniteSetTheorems, SequenceTheorems, WellFoundedInduction, TLAPS

-----------------------------------------------------------------------------
(* The agenda by position: the analysts, 2 * debate turns of the debaters, *)
(* two managers, 3 * risk turns of the risk team, the portfolio manager.   *)

Speaker ==
    AnalystKey \cup {"Bull Researcher", "Bear Researcher", "Research Manager", "Trader",
      "Aggressive Analyst", "Conservative Analyst", "Neutral Analyst", "Portfolio Manager"}

LEMMA Tuples ==
    ASSUME NEW S, NEW x \in S, NEW y \in S, NEW z \in S
    PROVE  /\ <<x>> \in Seq(S) /\ Len(<<x>>) = 1 /\ <<x>>[1] = x
           /\ <<x, y>> \in Seq(S) /\ Len(<<x, y>>) = 2 /\ <<x, y>>[1] = x /\ <<x, y>>[2] = y
           /\ <<x, y, z>> \in Seq(S) /\ Len(<<x, y, z>>) = 3
           /\ <<x, y, z>>[1] = x /\ <<x, y, z>>[2] = y /\ <<x, y, z>>[3] = z
OBVIOUS

LEMMA Teams ==
    /\ Debaters \in Seq(Speaker) /\ Len(Debaters) = 2
    /\ Debaters[1] = "Bull Researcher" /\ Debaters[2] = "Bear Researcher"
    /\ RiskTeam \in Seq(Speaker) /\ Len(RiskTeam) = 3
    /\ RiskTeam[1] = "Aggressive Analyst" /\ RiskTeam[2] = "Conservative Analyst"
    /\ RiskTeam[3] = "Neutral Analyst"
<1>1. /\ {"Bull Researcher", "Bear Researcher", "Aggressive Analyst"} \subseteq Speaker
      /\ {"Conservative Analyst", "Neutral Analyst"} \subseteq Speaker
  BY DEF Speaker
<1>2. /\ Debaters \in Seq(Speaker) /\ Len(Debaters) = 2
      /\ Debaters[1] = "Bull Researcher" /\ Debaters[2] = "Bear Researcher"
  BY <1>1, Tuples DEF Debaters
<1>3. /\ RiskTeam \in Seq(Speaker) /\ Len(RiskTeam) = 3
      /\ RiskTeam[1] = "Aggressive Analyst" /\ RiskTeam[2] = "Conservative Analyst"
      /\ RiskTeam[3] = "Neutral Analyst"
  BY <1>1, Tuples DEF RiskTeam
<1> QED BY <1>2, <1>3

LEMMA TurnsAt ==
    ASSUME NEW team \in Seq(Speaker), Len(team) \in Nat \ {0}, NEW n \in Nat
    PROVE  /\ Turns(team, n) \in Seq(Speaker) /\ Len(Turns(team, n)) = n
           /\ \A i \in 1 .. n : Turns(team, n)[i] = team[((i - 1) % Len(team)) + 1]
<1>1. \A i \in 1 .. n : ((i - 1) % Len(team)) + 1 \in 1 .. Len(team)
  OBVIOUS
<1>2. \A i \in 1 .. n : team[((i - 1) % Len(team)) + 1] \in Speaker
  BY <1>1
<1>3. Turns(team, n) \in [1 .. n -> Speaker]
  BY <1>2 DEF Turns
<1> QED BY <1>3 DEF Turns

LEMMA TurnsOf2 ==
    ASSUME NEW team \in Seq(Speaker), Len(team) = 2, NEW n \in Nat
    PROVE  /\ Turns(team, n) \in Seq(Speaker) /\ Len(Turns(team, n)) = n
           /\ \A i \in 1 .. n : Turns(team, n)[i] = team[((i - 1) % 2) + 1]
<1>1. Len(team) \in Nat \ {0}
  OBVIOUS
<1>2. /\ Turns(team, n) \in Seq(Speaker) /\ Len(Turns(team, n)) = n
      /\ \A i \in 1 .. n : Turns(team, n)[i] = team[((i - 1) % Len(team)) + 1]
  BY <1>1, TurnsAt, Zenon
<1> QED BY <1>2

LEMMA TurnsOf3 ==
    ASSUME NEW team \in Seq(Speaker), Len(team) = 3, NEW n \in Nat
    PROVE  /\ Turns(team, n) \in Seq(Speaker) /\ Len(Turns(team, n)) = n
           /\ \A i \in 1 .. n : Turns(team, n)[i] = team[((i - 1) % 3) + 1]
<1>1. Len(team) \in Nat \ {0}
  OBVIOUS
<1>2. /\ Turns(team, n) \in Seq(Speaker) /\ Len(Turns(team, n)) = n
      /\ \A i \in 1 .. n : Turns(team, n)[i] = team[((i - 1) % Len(team)) + 1]
  BY <1>1, TurnsAt, Zenon
<1> QED BY <1>2

LEMMA Thrice == \A n \in Nat \ {0} : 2 * n \in Nat /\ 3 * n \in Nat
OBVIOUS

Analysts(cfg) == Len(cfg.analysts)
DebateEnd(cfg) == Analysts(cfg) + 2 * cfg.debate
RiskStart(cfg) == DebateEnd(cfg) + 2
RiskEnd(cfg) == RiskStart(cfg) + 3 * cfg.risk

LEMMA Sums ==
    ASSUME NEW a \in Nat \ {0}, NEW d \in Nat \ {0}, NEW r \in Nat \ {0}
    PROVE  /\ a + 2 * d \in Nat /\ (a + 2 * d) + 2 \in Nat
           /\ ((a + 2 * d) + 2) + 3 * r \in Nat
           /\ a < a + 2 * d /\ (a + 2 * d) + 2 < ((a + 2 * d) + 2) + 3 * r
OBVIOUS

LEMMA Sizes ==
    ASSUME NEW cfg \in Config
    PROVE  /\ cfg.analysts \in Seq(Speaker) /\ cfg.debate \in Nat \ {0} /\ cfg.risk \in Nat \ {0}
           /\ Analysts(cfg) \in Nat \ {0} /\ DebateEnd(cfg) \in Nat
           /\ RiskStart(cfg) \in Nat /\ RiskEnd(cfg) \in Nat
           /\ Analysts(cfg) < DebateEnd(cfg) /\ RiskStart(cfg) < RiskEnd(cfg)
           /\ DebateEnd(cfg) = Analysts(cfg) + 2 * cfg.debate /\ RiskStart(cfg) = DebateEnd(cfg) + 2
           /\ RiskEnd(cfg) = RiskStart(cfg) + 3 * cfg.risk
<1>1. /\ cfg.analysts \in Seq(AnalystKey) /\ cfg.analysts # <<>>
      /\ cfg.debate \in Nat \ {0} /\ cfg.risk \in Nat \ {0}
  BY ConfigAssumption
<1>2. cfg.analysts \in Seq(Speaker)
  <2>1. \A i \in 1 .. Len(cfg.analysts) : cfg.analysts[i] \in Speaker
    <3>1. \A i \in 1 .. Len(cfg.analysts) : cfg.analysts[i] \in AnalystKey
      BY <1>1
    <3>2. AnalystKey \subseteq Speaker
      BY DEF Speaker
    <3> QED BY <3>1, <3>2
  <2> QED BY <1>1, <2>1
<1>3. Analysts(cfg) \in Nat \ {0}
  BY <1>1, EmptySeq DEF Analysts
<1>4. /\ DebateEnd(cfg) \in Nat /\ RiskStart(cfg) \in Nat /\ RiskEnd(cfg) \in Nat
      /\ Analysts(cfg) < DebateEnd(cfg) /\ RiskStart(cfg) < RiskEnd(cfg)
  BY <1>1, <1>3, Sums, Zenon DEF DebateEnd, RiskStart, RiskEnd
<1>5. /\ DebateEnd(cfg) = Analysts(cfg) + 2 * cfg.debate /\ RiskStart(cfg) = DebateEnd(cfg) + 2
      /\ RiskEnd(cfg) = RiskStart(cfg) + 3 * cfg.risk
  BY Zenon DEF DebateEnd, RiskStart, RiskEnd
<1> QED BY <1>1, <1>2, <1>3, <1>4, <1>5, Zenon

LEMMA TwoParts ==
    ASSUME NEW S, NEW a \in Seq(S), NEW b \in Seq(S)
    PROVE  /\ a \o b \in Seq(S) /\ Len(a \o b) = Len(a) + Len(b)
           /\ \A k \in 1 .. Len(a) : (a \o b)[k] = a[k]
           /\ \A k \in 1 .. Len(b) : (a \o b)[Len(a) + k] = b[k]
OBVIOUS
LEMMA AgendaAt ==
    ASSUME NEW cfg \in Config
    PROVE  /\ Agenda(cfg) \in Seq(Speaker) /\ Len(Agenda(cfg)) = RiskEnd(cfg) + 1
           /\ \A k \in 1 .. Analysts(cfg) : Agenda(cfg)[k] = cfg.analysts[k]
           /\ \A k \in 1 .. 2 * cfg.debate :
                Agenda(cfg)[Analysts(cfg) + k] = Debaters[((k - 1) % 2) + 1]
           /\ Agenda(cfg)[DebateEnd(cfg) + 1] = "Research Manager"
           /\ Agenda(cfg)[DebateEnd(cfg) + 2] = "Trader"
           /\ \A k \in 1 .. 3 * cfg.risk :
                Agenda(cfg)[RiskStart(cfg) + k] = RiskTeam[((k - 1) % 3) + 1]
           /\ Agenda(cfg)[RiskEnd(cfg) + 1] = "Portfolio Manager"
<1> DEFINE a == cfg.analysts
           d == Turns(Debaters, 2 * cfg.debate)
           m == <<"Research Manager", "Trader">>
           t == Turns(RiskTeam, 3 * cfg.risk)
           e == <<"Portfolio Manager">>
           s == Agenda(cfg)
<1>1. a \in Seq(Speaker) /\ Len(a) = Analysts(cfg)
  BY Sizes DEF Analysts
<1>2. 2 * cfg.debate \in Nat /\ 3 * cfg.risk \in Nat
  BY Sizes, Thrice, Zenon
<1>3. /\ d \in Seq(Speaker) /\ Len(d) = 2 * cfg.debate
      /\ \A i \in 1 .. 2 * cfg.debate : d[i] = Debaters[((i - 1) % 2) + 1]
  BY <1>2, Teams, TurnsOf2, Zenon
<1>4. m \in Seq(Speaker) /\ Len(m) = 2 /\ m[1] = "Research Manager" /\ m[2] = "Trader"
  <2>1. "Research Manager" \in Speaker /\ "Trader" \in Speaker
    BY DEF Speaker
  <2> QED BY <2>1, Tuples
<1>5. /\ t \in Seq(Speaker) /\ Len(t) = 3 * cfg.risk
      /\ \A i \in 1 .. 3 * cfg.risk : t[i] = RiskTeam[((i - 1) % 3) + 1]
  BY <1>2, Teams, TurnsOf3, Zenon
<1>6. e \in Seq(Speaker) /\ Len(e) = 1 /\ e[1] = "Portfolio Manager"
  <2>1. "Portfolio Manager" \in Speaker
    BY DEF Speaker
  <2> QED BY <2>1, Tuples
<1>7. s = a \o d \o m \o t \o e
  BY Zenon DEF Agenda
<1>8. /\ Len(a) + Len(d) = DebateEnd(cfg) /\ DebateEnd(cfg) + Len(m) = RiskStart(cfg)
      /\ RiskStart(cfg) + Len(t) = RiskEnd(cfg)
  BY <1>1, <1>3, <1>4, <1>5, Sizes, Zenon
<1> HIDE DEF a, d, m, t, e, s
<1>9. /\ s \in Seq(Speaker) /\ Len(s) = RiskEnd(cfg) + Len(e)
      /\ \A k \in 1 .. Len(a) : s[k] = a[k]
      /\ \A k \in 1 .. Len(d) : s[Len(a) + k] = d[k]
      /\ \A k \in 1 .. Len(m) : s[DebateEnd(cfg) + k] = m[k]
      /\ \A k \in 1 .. Len(t) : s[RiskStart(cfg) + k] = t[k]
      /\ \A k \in 1 .. Len(e) : s[RiskEnd(cfg) + k] = e[k]
  <2> DEFINE b == a \o d
             c == b \o m
             f == c \o t
             v == f \o e
             n2 == Len(a) + Len(d)
             n3 == n2 + Len(m)
             n4 == n3 + Len(t)
  <2>0. a \in Seq(Speaker) /\ d \in Seq(Speaker) /\ m \in Seq(Speaker)
        /\ t \in Seq(Speaker) /\ e \in Seq(Speaker)
    BY <1>1, <1>3, <1>4, <1>5, <1>6
  <2>1. /\ b \in Seq(Speaker) /\ Len(b) = n2
        /\ \A k \in 1 .. Len(a) : b[k] = a[k]
        /\ \A k \in 1 .. Len(d) : b[Len(a) + k] = d[k]
    BY <2>0, TwoParts
  <2> HIDE DEF b
  <2>2. /\ c \in Seq(Speaker) /\ Len(c) = n3
        /\ \A k \in 1 .. Len(b) : c[k] = b[k]
        /\ \A k \in 1 .. Len(m) : c[Len(b) + k] = m[k]
    <3>1. c \in Seq(Speaker) /\ Len(c) = Len(b) + Len(m)
      BY <2>1, <2>0, TwoParts
    <3>2. \A k \in 1 .. Len(b) : c[k] = b[k]
      BY <2>1, <2>0, TwoParts
    <3>3. \A k \in 1 .. Len(m) : c[Len(b) + k] = m[k]
      BY <2>1, <2>0, TwoParts
    <3> QED BY <2>1, <3>1, <3>2, <3>3
  <2> HIDE DEF c
  <2>3. /\ f \in Seq(Speaker) /\ Len(f) = n4
        /\ \A k \in 1 .. Len(c) : f[k] = c[k]
        /\ \A k \in 1 .. Len(t) : f[Len(c) + k] = t[k]
    <3>1. f \in Seq(Speaker) /\ Len(f) = Len(c) + Len(t)
      BY <2>2, <2>0, TwoParts
    <3>2. \A k \in 1 .. Len(c) : f[k] = c[k]
      BY <2>2, <2>0, TwoParts
    <3>3. \A k \in 1 .. Len(t) : f[Len(c) + k] = t[k]
      BY <2>2, <2>0, TwoParts
    <3> QED BY <2>2, <3>1, <3>2, <3>3
  <2> HIDE DEF f
  <2>4. /\ v \in Seq(Speaker) /\ Len(v) = n4 + Len(e)
        /\ \A k \in 1 .. Len(f) : v[k] = f[k]
        /\ \A k \in 1 .. Len(e) : v[Len(f) + k] = e[k]
    <3>1. v \in Seq(Speaker) /\ Len(v) = Len(f) + Len(e)
      BY <2>3, <2>0, TwoParts
    <3>2. \A k \in 1 .. Len(f) : v[k] = f[k]
      BY <2>3, <2>0, TwoParts
    <3>3. \A k \in 1 .. Len(e) : v[Len(f) + k] = e[k]
      BY <2>3, <2>0, TwoParts
    <3> QED BY <2>3, <3>1, <3>2, <3>3
  <2> HIDE DEF v
  <2>5. Len(a) \in Nat /\ Len(d) \in Nat /\ Len(m) \in Nat /\ Len(t) \in Nat
    BY <2>0
  <2> HIDE DEF n2, n3, n4
  <2>6. /\ n2 \in Nat /\ n3 \in Nat /\ n4 \in Nat
        /\ n2 = Len(a) + Len(d) /\ n3 = n2 + Len(m) /\ n4 = n3 + Len(t)
    BY <2>5 DEF n2, n3, n4
  <2>7. \A k \in 1 .. n3 : v[k] = c[k]
    BY <2>2, <2>3, <2>4, <2>5, <2>6
  <2>8. \A k \in 1 .. n2 : v[k] = b[k]
    BY <2>1, <2>2, <2>7, <2>5, <2>6
  <2>9. \A k \in 1 .. Len(a) : v[k] = a[k]
    BY <2>1, <2>8, <2>5, <2>6
  <2>10. \A k \in 1 .. Len(d) : v[Len(a) + k] = d[k]
    <3>1. \A k \in 1 .. Len(d) : Len(a) + k \in 1 .. n2
      BY <2>5, <2>6
    <3> QED BY <2>1, <2>8, <3>1
  <2>11. \A k \in 1 .. Len(m) : v[n2 + k] = m[k]
    <3>1. \A k \in 1 .. Len(m) : n2 + k \in 1 .. n3
      BY <2>5, <2>6
    <3> QED BY <2>1, <2>2, <2>7, <3>1
  <2>12. \A k \in 1 .. Len(t) : v[n3 + k] = t[k]
    <3>1. \A k \in 1 .. Len(t) : n3 + k \in 1 .. n4
      BY <2>5, <2>6
    <3> QED BY <2>2, <2>3, <2>4, <3>1
  <2>13. \A k \in 1 .. Len(e) : v[n4 + k] = e[k]
    BY <2>3, <2>4
  <2>14. s = v
    BY <1>7 DEF b, c, f, v
  <2>15. n2 = DebateEnd(cfg) /\ n3 = RiskStart(cfg) /\ n4 = RiskEnd(cfg)
    BY <1>8 DEF n2, n3, n4
  <2> QED BY <2>4, <2>9, <2>10, <2>11, <2>12, <2>13, <2>14, <2>15
<1>10. \A k \in 1 .. 2 * cfg.debate :
         s[Analysts(cfg) + k] = Debaters[((k - 1) % 2) + 1]
  BY <1>1, <1>3, <1>9
<1>11. \A k \in 1 .. 3 * cfg.risk : s[RiskStart(cfg) + k] = RiskTeam[((k - 1) % 3) + 1]
  BY <1>5, <1>9
<1>12. /\ s[DebateEnd(cfg) + 1] = "Research Manager" /\ s[DebateEnd(cfg) + 2] = "Trader"
       /\ s[RiskEnd(cfg) + 1] = "Portfolio Manager"
  <2>1. 1 \in 1 .. 2 /\ 2 \in 1 .. 2 /\ 1 \in 1 .. 1
    OBVIOUS
  <2> QED BY <1>4, <1>6, <1>9, <2>1, Zenon
<1>13. Len(s) = RiskEnd(cfg) + 1 /\ \A k \in 1 .. Analysts(cfg) : s[k] = a[k]
  BY <1>1, <1>6, <1>9, Zenon
<1> QED BY <1>9, <1>10, <1>11, <1>12, <1>13, Zenon DEF a, s

-----------------------------------------------------------------------------
(* The nodes keep to the agenda: with n turns taken, the next node is the  *)
(* one whose turn is the n-th plus one, and the counters say how many of   *)
(* them were turns of the debate and of the risk team.                     *)

Nodes ==
    ({"analyst", "tools", "clear"} \X AnalystKey) \cup ({"agent"} \X (Speaker \cup {"END"}))
GraphState ==
    [node : Nodes, spoken : Seq(Speaker), debates : Nat, risks : Nat,
     last : Speaker \cup {""}, lessons : SUBSET LogEntry]

Follows(cfg, s) ==
    Len(s) <= Len(Agenda(cfg)) /\ \A k \in 1 .. Len(s) : s[k] = Agenda(cfg)[k]
Turn(cfg, g) == g.node = <<"agent", Agenda(cfg)[Len(g.spoken) + 1]>>

AtAnalyst(cfg, g) ==
    /\ Len(g.spoken) < Analysts(cfg)
    /\ \E kind \in {"analyst", "tools"} :
         g.node = <<kind, cfg.analysts[Len(g.spoken) + 1]>>
    /\ g.debates = 0 /\ g.risks = 0
AtClear(cfg, g) ==
    /\ Len(g.spoken) \in 1 .. Analysts(cfg)
    /\ g.node = <<"clear", cfg.analysts[Len(g.spoken)]>>
    /\ g.debates = 0 /\ g.risks = 0
AtDebate(cfg, g) ==
    /\ Analysts(cfg) <= Len(g.spoken) /\ Len(g.spoken) < DebateEnd(cfg)
    /\ Turn(cfg, g) /\ g.debates = Len(g.spoken) - Analysts(cfg) /\ g.risks = 0
AtTrade(cfg, g) ==
    /\ Len(g.spoken) \in DebateEnd(cfg) .. DebateEnd(cfg) + 1
    /\ Turn(cfg, g) /\ g.risks = 0
AtRisk(cfg, g) ==
    /\ RiskStart(cfg) <= Len(g.spoken) /\ Len(g.spoken) < RiskEnd(cfg)
    /\ Turn(cfg, g) /\ g.risks = Len(g.spoken) - RiskStart(cfg)
AtPortfolio(cfg, g) == Len(g.spoken) = RiskEnd(cfg) /\ Turn(cfg, g)
AtEnd(cfg, g) == Len(g.spoken) = RiskEnd(cfg) + 1 /\ g.node = <<"agent", "END">>

OnAgenda(cfg, g) ==
    /\ g \in GraphState
    /\ Follows(cfg, g.spoken)
    /\ \/ AtAnalyst(cfg, g) \/ AtClear(cfg, g) \/ AtDebate(cfg, g) \/ AtTrade(cfg, g)
       \/ AtRisk(cfg, g) \/ AtPortfolio(cfg, g) \/ AtEnd(cfg, g)

LEMMA Spoken ==
    ASSUME NEW cfg \in Config, NEW s \in Seq(Speaker), Follows(cfg, s),
           Len(s) < Len(Agenda(cfg)), NEW name, name = Agenda(cfg)[Len(s) + 1]
    PROVE  /\ name \in Speaker
           /\ Append(s, name) \in Seq(Speaker) /\ Len(Append(s, name)) = Len(s) + 1
           /\ Follows(cfg, Append(s, name))
<1>1. Agenda(cfg) \in Seq(Speaker) /\ Len(s) \in Nat /\ Len(Agenda(cfg)) \in Nat
  <2>1. Agenda(cfg) \in Seq(Speaker)
    BY AgendaAt, Zenon
  <2> QED BY <2>1
<1>2. Len(s) + 1 \in 1 .. Len(Agenda(cfg))
  BY <1>1
<1>3. name \in Speaker
  BY <1>1, <1>2
<1>4. /\ Append(s, name) \in Seq(Speaker) /\ Len(Append(s, name)) = Len(s) + 1
      /\ \A k \in 1 .. Len(s) : Append(s, name)[k] = s[k]
      /\ Append(s, name)[Len(s) + 1] = name
  BY <1>1, <1>3
<1>5. \A k \in 1 .. Len(s) + 1 : k \in 1 .. Len(s) \/ k = Len(s) + 1
  BY <1>1
<1> QED BY <1>1, <1>2, <1>3, <1>4, <1>5 DEF Follows

\* What an agent's turn leaves behind.
Left(g, h, name, next) ==
    /\ h \in GraphState /\ h.node = <<"agent", next>>
    /\ h.spoken = Append(g.spoken, name) /\ h.lessons = g.lessons

LEMMA SpeakFields ==
    ASSUME NEW g \in GraphState, NEW name \in Speaker, Append(g.spoken, name) \in Seq(Speaker)
    PROVE  LET y == Speak(g, name)
           IN  /\ y \in GraphState /\ y.spoken = Append(g.spoken, name) /\ y.last = name
               /\ y.debates = g.debates /\ y.risks = g.risks /\ y.lessons = g.lessons
BY DEF GraphState, Speak

LEMMA ManagerFields ==
    ASSUME NEW g \in GraphState, NEW name \in Speaker, NEW next \in Speaker \cup {"END"},
           Append(g.spoken, name) \in Seq(Speaker)
    PROVE  LET h == Goto(Speak(g, name), next)
           IN  Left(g, h, name, next) /\ h.debates = g.debates /\ h.risks = g.risks
<1>1. <<"agent", next>> \in Nodes
  BY DEF Nodes
<1> QED BY <1>1 DEF GraphState, Speak, Goto, Left

DebateNext(cfg, d, name) ==
    IF d >= 2 * cfg.debate THEN "Research Manager"
    ELSE IF name = "Bull Researcher" THEN "Bear Researcher" ELSE "Bull Researcher"

LEMMA DebateFields ==
    ASSUME NEW cfg, NEW g \in GraphState, NEW name \in Speaker,
           Append(g.spoken, name) \in Seq(Speaker)
    PROVE  LET h == DebateStep(cfg, g, name)
           IN  /\ Left(g, h, name, DebateNext(cfg, g.debates + 1, name))
               /\ h.debates = g.debates + 1 /\ h.risks = g.risks
<1> DEFINE next == DebateNext(cfg, g.debates + 1, name)
           x == [Speak(g, name) EXCEPT !.debates = @ + 1]
           h == DebateStep(cfg, g, name)
<1>1. next \in Speaker
  BY DEF DebateNext, Speaker
<1>2. <<"agent", next>> \in Nodes
  <2> HIDE DEF next
  <2> QED BY <1>1 DEF Nodes
<1>3. /\ x \in GraphState /\ x.spoken = Append(g.spoken, name) /\ x.last = name
      /\ x.debates = g.debates + 1 /\ x.risks = g.risks /\ x.lessons = g.lessons
  <2> DEFINE y == Speak(g, name)
  <2>1. /\ y \in GraphState /\ y.spoken = Append(g.spoken, name) /\ y.last = name
        /\ y.debates = g.debates /\ y.risks = g.risks /\ y.lessons = g.lessons
    BY SpeakFields
  <2>2. g.debates + 1 \in Nat
    <3>1. g.debates \in Nat
      BY DEF GraphState
    <3> QED BY <3>1
  <2>3. x = [y EXCEPT !.debates = y.debates + 1]
    OBVIOUS
  <2> HIDE DEF x, y
  <2> QED BY <2>1, <2>2, <2>3 DEF GraphState
<1>4. DebateRoute(cfg, x) = next
  <2> HIDE DEF x
  <2> QED BY <1>3 DEF DebateRoute, DebateNext
<1>5. h = [x EXCEPT !.node = <<"agent", next>>]
  <2> HIDE DEF next
  <2> QED BY <1>4, Zenon DEF DebateStep, Goto
<1> HIDE DEF x, next, h
<1>6. /\ h \in GraphState /\ h.node = <<"agent", next>> /\ h.spoken = x.spoken
      /\ h.lessons = x.lessons /\ h.debates = x.debates /\ h.risks = x.risks
  BY <1>2, <1>3, <1>5 DEF GraphState
<1> QED BY <1>3, <1>6 DEF next, h, Left

RiskNext(cfg, r, name) ==
    IF r >= 3 * cfg.risk THEN "Portfolio Manager"
    ELSE IF name = "Aggressive Analyst" THEN "Conservative Analyst"
    ELSE IF name = "Conservative Analyst" THEN "Neutral Analyst" ELSE "Aggressive Analyst"

LEMMA RiskFields ==
    ASSUME NEW cfg, NEW g \in GraphState, NEW name \in Speaker,
           Append(g.spoken, name) \in Seq(Speaker)
    PROVE  LET h == RiskStep(cfg, g, name)
           IN  Left(g, h, name, RiskNext(cfg, g.risks + 1, name)) /\ h.risks = g.risks + 1
<1> DEFINE next == RiskNext(cfg, g.risks + 1, name)
           x == [Speak(g, name) EXCEPT !.risks = @ + 1]
           h == RiskStep(cfg, g, name)
<1>1. next \in Speaker
  BY DEF RiskNext, Speaker
<1>2. <<"agent", next>> \in Nodes
  <2> HIDE DEF next
  <2> QED BY <1>1 DEF Nodes
<1>3. /\ x \in GraphState /\ x.spoken = Append(g.spoken, name) /\ x.last = name
      /\ x.risks = g.risks + 1 /\ x.lessons = g.lessons
  <2> DEFINE y == Speak(g, name)
  <2>1. /\ y \in GraphState /\ y.spoken = Append(g.spoken, name) /\ y.last = name
        /\ y.risks = g.risks /\ y.lessons = g.lessons
    BY SpeakFields
  <2>2. g.risks + 1 \in Nat
    <3>1. g.risks \in Nat
      BY DEF GraphState
    <3> QED BY <3>1
  <2>3. x = [y EXCEPT !.risks = y.risks + 1]
    OBVIOUS
  <2> HIDE DEF x, y
  <2> QED BY <2>1, <2>2, <2>3 DEF GraphState
<1>4. RiskRoute(cfg, x) = next
  <2> HIDE DEF x
  <2> QED BY <1>3 DEF RiskRoute, RiskNext
<1>5. h = [x EXCEPT !.node = <<"agent", next>>]
  <2> HIDE DEF next
  <2> QED BY <1>4, Zenon DEF RiskStep, Goto
<1> HIDE DEF x, next, h
<1>6. /\ h \in GraphState /\ h.node = <<"agent", next>> /\ h.spoken = x.spoken
      /\ h.lessons = x.lessons /\ h.risks = x.risks
  BY <1>2, <1>3, <1>5 DEF GraphState
<1> QED BY <1>3, <1>6 DEF next, h, Left

LEMMA Steps ==
    ASSUME NEW cfg, NEW g \in GraphState
    PROVE  /\ \A x \in {"Bull Researcher", "Bear Researcher"} :
                AgentStep(cfg, g, x) = DebateStep(cfg, g, x)
           /\ \A x \in {"Aggressive Analyst", "Conservative Analyst", "Neutral Analyst"} :
                AgentStep(cfg, g, x) = RiskStep(cfg, g, x)
           /\ AgentStep(cfg, g, "Research Manager") = Goto(Speak(g, "Research Manager"), "Trader")
           /\ AgentStep(cfg, g, "Trader") = Goto(Speak(g, "Trader"), "Aggressive Analyst")
           /\ AgentStep(cfg, g, "Portfolio Manager") = Goto(Speak(g, "Portfolio Manager"), "END")
<1>1. Range(Debaters) = {"Bull Researcher", "Bear Researcher"}
  <2>1. DOMAIN Debaters = {1, 2}
    BY DEF Debaters
  <2> QED BY <2>1, Teams DEF Range
<1>2. Range(RiskTeam) = {"Aggressive Analyst", "Conservative Analyst", "Neutral Analyst"}
  <2>1. DOMAIN RiskTeam = {1, 2, 3}
    BY DEF RiskTeam
  <2> QED BY <2>1, Teams DEF Range
<1> QED BY <1>1, <1>2 DEF AgentStep

LEMMA Alternate ==
    \A j \in Nat : \/ j % 2 = 0 /\ (j + 1) % 2 = 1
                   \/ j % 2 = 1 /\ (j + 1) % 2 = 0
OBVIOUS

LEMMA InTurn ==
    \A j \in Nat : \/ j % 3 = 0 /\ (j + 1) % 3 = 1
                   \/ j % 3 = 1 /\ (j + 1) % 3 = 2
                   \/ j % 3 = 2 /\ (j + 1) % 3 = 0
OBVIOUS

LEMMA DebatePhase ==
    ASSUME NEW cfg \in Config, NEW g, OnAgenda(cfg, g), AtDebate(cfg, g)
    PROVE  LET h == AgentStep(cfg, g, Agenda(cfg)[Len(g.spoken) + 1])
           IN  OnAgenda(cfg, h) /\ h.lessons = g.lessons
<1> DEFINE n == Len(g.spoken)
           j == n - Analysts(cfg)
           name == Agenda(cfg)[n + 1]
           next == DebateNext(cfg, j + 1, name)
           h == AgentStep(cfg, g, name)
<1>1. /\ g \in GraphState /\ g.spoken \in Seq(Speaker) /\ n \in Nat /\ Follows(cfg, g.spoken)
      /\ g.debates = j /\ g.risks = 0 /\ Analysts(cfg) <= n /\ n < DebateEnd(cfg)
  <2>1. g \in GraphState /\ Follows(cfg, g.spoken)
    BY Zenon DEF OnAgenda
  <2>2. g.spoken \in Seq(Speaker)
    BY <2>1 DEF GraphState
  <2> QED BY <2>1, <2>2 DEF AtDebate
<1> HIDE DEF n
<1>2. /\ j \in Nat /\ j + 1 \in Nat /\ j + 1 \in 1 .. 2 * cfg.debate
      /\ Analysts(cfg) + (j + 1) = n + 1 /\ n < Len(Agenda(cfg))
      /\ Analysts(cfg) + 2 * cfg.debate = DebateEnd(cfg)
  <2>1. /\ Analysts(cfg) \in Nat /\ 2 * cfg.debate \in Nat
        /\ DebateEnd(cfg) = Analysts(cfg) + 2 * cfg.debate
        /\ DebateEnd(cfg) \in Nat /\ RiskEnd(cfg) \in Nat /\ DebateEnd(cfg) < RiskEnd(cfg)
    BY Sizes
  <2>2. Len(Agenda(cfg)) = RiskEnd(cfg) + 1
    BY AgendaAt, Zenon
  <2> DEFINE p == 2 * cfg.debate
  <2>3. /\ p \in Nat /\ Analysts(cfg) \in Nat /\ DebateEnd(cfg) = Analysts(cfg) + p
        /\ RiskEnd(cfg) \in Nat /\ DebateEnd(cfg) < RiskEnd(cfg)
    BY <2>1
  <2> HIDE DEF p
  <2>4. /\ j \in Nat /\ j + 1 \in Nat /\ j + 1 \in 1 .. p /\ Analysts(cfg) + (j + 1) = n + 1
        /\ n < Len(Agenda(cfg)) /\ Analysts(cfg) + p = DebateEnd(cfg)
    BY <1>1, <2>2, <2>3
  <2> QED BY <2>4 DEF p
<1>3. name = Debaters[(j % 2) + 1]
  <2>1. Agenda(cfg)[Analysts(cfg) + (j + 1)] = Debaters[(((j + 1) - 1) % 2) + 1]
    BY <1>2, AgendaAt, Zenon
  <2>2. (j + 1) - 1 = j
    BY <1>2
  <2> QED BY <1>2, <2>1, <2>2
<1>4. /\ name \in Speaker /\ Append(g.spoken, name) \in Seq(Speaker)
      /\ Len(Append(g.spoken, name)) = n + 1 /\ Follows(cfg, Append(g.spoken, name))
  BY <1>1, <1>2, Spoken DEF n
<1> HIDE DEF j, name
<1>5. /\ name \in {"Bull Researcher", "Bear Researcher"}
      /\ name = "Bull Researcher" => j % 2 = 0
      /\ name = "Bear Researcher" => j % 2 = 1
  <2>1. CASE j % 2 = 0
    <3>1. name = Debaters[1]
      BY <1>3, <2>1
    <3> QED BY <2>1, <3>1, Teams
  <2>2. CASE j % 2 = 1
    <3>1. name = Debaters[2]
      BY <1>3, <2>2
    <3> QED BY <2>2, <3>1, Teams
  <2> QED BY <1>2, <2>1, <2>2, Alternate
<1>6. h = DebateStep(cfg, g, name)
  BY <1>1, <1>5, Steps
<1>7. Left(g, h, name, next) /\ h.debates = j + 1 /\ h.risks = 0
  BY <1>1, <1>4, <1>6, DebateFields
<1> HIDE DEF h, next
<1>8. h \in GraphState /\ Len(h.spoken) = n + 1 /\ Follows(cfg, h.spoken)
  BY <1>4, <1>7 DEF Left
<1>9. next = Agenda(cfg)[(n + 1) + 1]
  <2>1. CASE j + 1 = 2 * cfg.debate
    <3>1. next = "Research Manager"
      BY <1>2, <2>1 DEF next, DebateNext
    <3>2. n + 1 = DebateEnd(cfg)
      BY <1>2, <2>1
    <3> QED BY <3>1, <3>2, AgendaAt
  <2>2. CASE j + 1 # 2 * cfg.debate
    <3>1. j + 2 \in 1 .. 2 * cfg.debate /\ ~(j + 1 >= 2 * cfg.debate)
      BY <1>2, <2>2, Sizes
    <3>2. Agenda(cfg)[Analysts(cfg) + (j + 2)] = Debaters[(((j + 2) - 1) % 2) + 1]
      BY <3>1, AgendaAt, Zenon
    <3>3. (j + 2) - 1 = j + 1 /\ Analysts(cfg) + (j + 2) = (n + 1) + 1
      BY <1>2, Sizes
    <3>4. Agenda(cfg)[(n + 1) + 1] = Debaters[((j + 1) % 2) + 1]
      BY <3>2, <3>3
    <3>5. next = IF name = "Bull Researcher" THEN "Bear Researcher" ELSE "Bull Researcher"
      BY <3>1 DEF next, DebateNext
    <3>6. CASE j % 2 = 0
      <4>1. (j + 1) % 2 = 1
        BY <1>2, <3>6, Alternate
      <4>2. Agenda(cfg)[(n + 1) + 1] = Debaters[2]
        BY <3>4, <4>1
      <4> QED BY <1>5, <3>5, <3>6, <4>2, Teams
    <3>7. CASE j % 2 = 1
      <4>1. (j + 1) % 2 = 0
        BY <1>2, <3>7, Alternate
      <4>2. Agenda(cfg)[(n + 1) + 1] = Debaters[1]
        BY <3>4, <4>1
      <4> QED BY <1>5, <3>5, <3>7, <4>2, Teams
    <3> QED BY <1>2, <3>6, <3>7, Alternate
  <2> QED BY <2>1, <2>2
<1>10. Turn(cfg, h)
  BY <1>7, <1>8, <1>9 DEF Turn, Left
<1>11. AtDebate(cfg, h) \/ AtTrade(cfg, h)
  <2>1. CASE j + 1 = 2 * cfg.debate
    BY <1>1, <1>2, <1>7, <1>8, <1>10, <2>1, Sizes DEF AtTrade
  <2>2. CASE j + 1 # 2 * cfg.debate
    <3>1. /\ Analysts(cfg) <= n + 1 /\ n + 1 < DebateEnd(cfg)
          /\ j + 1 = (n + 1) - Analysts(cfg)
      <4>1. Analysts(cfg) \in Nat /\ 2 * cfg.debate \in Nat
        BY Sizes
      <4> QED BY <1>1, <1>2, <2>2, <4>1
    <3> QED BY <1>7, <1>8, <1>10, <3>1 DEF AtDebate
  <2> QED BY <2>1, <2>2
<1> QED BY <1>7, <1>8, <1>11 DEF OnAgenda, Left, h, name, n

LEMMA RiskPhase ==
    ASSUME NEW cfg \in Config, NEW g, OnAgenda(cfg, g), AtRisk(cfg, g)
    PROVE  LET h == AgentStep(cfg, g, Agenda(cfg)[Len(g.spoken) + 1])
           IN  OnAgenda(cfg, h) /\ h.lessons = g.lessons
<1> DEFINE n == Len(g.spoken)
           j == n - RiskStart(cfg)
           name == Agenda(cfg)[n + 1]
           next == RiskNext(cfg, j + 1, name)
           h == AgentStep(cfg, g, name)
<1>1. /\ g \in GraphState /\ g.spoken \in Seq(Speaker) /\ n \in Nat /\ Follows(cfg, g.spoken)
      /\ g.risks = j /\ RiskStart(cfg) <= n /\ n < RiskEnd(cfg)
  <2>1. g \in GraphState /\ Follows(cfg, g.spoken)
    BY Zenon DEF OnAgenda
  <2>2. g.spoken \in Seq(Speaker)
    BY <2>1 DEF GraphState
  <2> QED BY <2>1, <2>2 DEF AtRisk
<1> HIDE DEF n
<1>2. /\ j \in Nat /\ j + 1 \in Nat /\ j + 1 \in 1 .. 3 * cfg.risk
      /\ RiskStart(cfg) + (j + 1) = n + 1 /\ n < Len(Agenda(cfg))
      /\ RiskStart(cfg) + 3 * cfg.risk = RiskEnd(cfg)
  <2>1. /\ RiskStart(cfg) \in Nat /\ 3 * cfg.risk \in Nat /\ RiskEnd(cfg) \in Nat
        /\ RiskEnd(cfg) = RiskStart(cfg) + 3 * cfg.risk
    BY Sizes
  <2>2. Len(Agenda(cfg)) = RiskEnd(cfg) + 1
    BY AgendaAt, Zenon
  <2> DEFINE p == 3 * cfg.risk
  <2>3. /\ p \in Nat /\ RiskStart(cfg) \in Nat /\ RiskEnd(cfg) = RiskStart(cfg) + p
    BY <2>1
  <2> HIDE DEF p
  <2>4. /\ j \in Nat /\ j + 1 \in Nat /\ j + 1 \in 1 .. p /\ RiskStart(cfg) + (j + 1) = n + 1
        /\ n < Len(Agenda(cfg)) /\ RiskStart(cfg) + p = RiskEnd(cfg)
    BY <1>1, <2>2, <2>3
  <2> QED BY <2>4 DEF p
<1>3. name = RiskTeam[(j % 3) + 1]
  <2>1. Agenda(cfg)[RiskStart(cfg) + (j + 1)] = RiskTeam[(((j + 1) - 1) % 3) + 1]
    BY <1>2, AgendaAt, Zenon
  <2>2. (j + 1) - 1 = j
    BY <1>2
  <2> QED BY <1>2, <2>1, <2>2
<1>4. /\ name \in Speaker /\ Append(g.spoken, name) \in Seq(Speaker)
      /\ Len(Append(g.spoken, name)) = n + 1 /\ Follows(cfg, Append(g.spoken, name))
  BY <1>1, <1>2, Spoken DEF n
<1> HIDE DEF j, name
<1>5. \/ j % 3 = 0 /\ (j + 1) % 3 = 1 /\ name = "Aggressive Analyst"
      \/ j % 3 = 1 /\ (j + 1) % 3 = 2 /\ name = "Conservative Analyst"
      \/ j % 3 = 2 /\ (j + 1) % 3 = 0 /\ name = "Neutral Analyst"
  <2>1. CASE j % 3 = 0 /\ (j + 1) % 3 = 1
    <3>1. name = RiskTeam[1]
      BY <1>3, <2>1
    <3> QED BY <2>1, <3>1, Teams
  <2>2. CASE j % 3 = 1 /\ (j + 1) % 3 = 2
    <3>1. name = RiskTeam[2]
      BY <1>3, <2>2
    <3> QED BY <2>2, <3>1, Teams
  <2>3. CASE j % 3 = 2 /\ (j + 1) % 3 = 0
    <3>1. name = RiskTeam[3]
      BY <1>3, <2>3
    <3> QED BY <2>3, <3>1, Teams
  <2> QED BY <1>2, <2>1, <2>2, <2>3, InTurn
<1>6. h = RiskStep(cfg, g, name)
  BY <1>1, <1>5, Steps
<1>7. Left(g, h, name, next) /\ h.risks = j + 1
  BY <1>1, <1>4, <1>6, RiskFields
<1> HIDE DEF h, next
<1>8. h \in GraphState /\ Len(h.spoken) = n + 1 /\ Follows(cfg, h.spoken)
  BY <1>4, <1>7 DEF Left
<1>9. next = Agenda(cfg)[(n + 1) + 1]
  <2>1. CASE j + 1 = 3 * cfg.risk
    <3>1. next = "Portfolio Manager"
      BY <1>2, <2>1 DEF next, RiskNext
    <3>2. n + 1 = RiskEnd(cfg)
      BY <1>2, <2>1
    <3> QED BY <3>1, <3>2, AgendaAt
  <2>2. CASE j + 1 # 3 * cfg.risk
    <3>1. j + 2 \in 1 .. 3 * cfg.risk /\ ~(j + 1 >= 3 * cfg.risk)
      <4> DEFINE p == 3 * cfg.risk
      <4>1. p \in Nat
        BY Sizes, Thrice, Zenon
      <4>2. j + 1 \in 1 .. p /\ j + 1 # p /\ j \in Nat
        BY <1>2, <2>2
      <4> HIDE DEF p
      <4>3. j + 2 \in 1 .. p /\ ~(j + 1 >= p)
        BY <4>1, <4>2
      <4> QED BY <4>3 DEF p
    <3>2. Agenda(cfg)[RiskStart(cfg) + (j + 2)] = RiskTeam[(((j + 2) - 1) % 3) + 1]
      BY <3>1, AgendaAt, Zenon
    <3>3. (j + 2) - 1 = j + 1 /\ RiskStart(cfg) + (j + 2) = (n + 1) + 1
      <4>1. RiskStart(cfg) \in Nat
        BY Sizes, Zenon
      <4> QED BY <1>1, <1>2, <4>1
    <3>4. Agenda(cfg)[(n + 1) + 1] = RiskTeam[((j + 1) % 3) + 1]
      BY <3>2, <3>3
    <3>5. next = IF name = "Aggressive Analyst" THEN "Conservative Analyst"
                 ELSE IF name = "Conservative Analyst" THEN "Neutral Analyst"
                 ELSE "Aggressive Analyst"
      BY <3>1 DEF next, RiskNext
    <3>6. CASE (j + 1) % 3 = 1 /\ name = "Aggressive Analyst"
      <4>1. Agenda(cfg)[(n + 1) + 1] = RiskTeam[2]
        <5>1. ((j + 1) % 3) + 1 = 2
          <6>1. (j + 1) % 3 = 1
            BY <3>6, Zenon
          <6> QED BY <6>1
        <5> QED BY <3>4, <5>1
      <4> QED BY <3>5, <3>6, <4>1, Teams
    <3>7. CASE (j + 1) % 3 = 2 /\ name = "Conservative Analyst"
      <4>1. Agenda(cfg)[(n + 1) + 1] = RiskTeam[3]
        <5>1. ((j + 1) % 3) + 1 = 3
          <6>1. (j + 1) % 3 = 2
            BY <3>7, Zenon
          <6> QED BY <6>1
        <5> QED BY <3>4, <5>1
      <4> QED BY <3>5, <3>7, <4>1, Teams
    <3>8. CASE (j + 1) % 3 = 0 /\ name = "Neutral Analyst"
      <4>1. Agenda(cfg)[(n + 1) + 1] = RiskTeam[1]
        <5>1. ((j + 1) % 3) + 1 = 1
          <6>1. (j + 1) % 3 = 0
            BY <3>8, Zenon
          <6> QED BY <6>1
        <5> QED BY <3>4, <5>1
      <4> QED BY <3>5, <3>8, <4>1, Teams
    <3> QED BY <1>5, <3>6, <3>7, <3>8
  <2> QED BY <2>1, <2>2
<1>10. Turn(cfg, h)
  BY <1>7, <1>8, <1>9 DEF Turn, Left
<1>11. AtRisk(cfg, h) \/ AtPortfolio(cfg, h)
  <2>1. CASE j + 1 = 3 * cfg.risk
    BY <1>1, <1>2, <1>7, <1>8, <1>10, <2>1, Sizes DEF AtPortfolio
  <2>2. CASE j + 1 # 3 * cfg.risk
    <3>1. RiskStart(cfg) <= n + 1 /\ n + 1 < RiskEnd(cfg) /\ j + 1 = (n + 1) - RiskStart(cfg)
      <4>1. RiskStart(cfg) \in Nat /\ 3 * cfg.risk \in Nat
        BY Sizes
      <4> QED BY <1>1, <1>2, <2>2, <4>1
    <3> QED BY <1>7, <1>8, <1>10, <3>1 DEF AtRisk
  <2> QED BY <2>1, <2>2
<1> QED BY <1>7, <1>8, <1>11 DEF OnAgenda, Left, h, name, n

LEMMA ManagerPhase ==
    ASSUME NEW cfg \in Config, NEW g, OnAgenda(cfg, g),
           AtTrade(cfg, g) \/ AtPortfolio(cfg, g)
    PROVE  LET h == AgentStep(cfg, g, Agenda(cfg)[Len(g.spoken) + 1])
           IN  OnAgenda(cfg, h) /\ h.lessons = g.lessons
<1> DEFINE n == Len(g.spoken)
           name == Agenda(cfg)[n + 1]
           h == AgentStep(cfg, g, name)
<1>1. g \in GraphState /\ g.spoken \in Seq(Speaker) /\ n \in Nat /\ Follows(cfg, g.spoken)
  <2>1. g \in GraphState /\ Follows(cfg, g.spoken)
    BY Zenon DEF OnAgenda
  <2>2. g.spoken \in Seq(Speaker)
    BY <2>1 DEF GraphState
  <2> QED BY <2>1, <2>2
<1>2. \/ n = DebateEnd(cfg) /\ g.risks = 0
      \/ n = DebateEnd(cfg) + 1 /\ g.risks = 0
      \/ n = RiskEnd(cfg)
  <2>1. DebateEnd(cfg) \in Nat
    BY Sizes, Zenon
  <2> QED BY <1>1, <2>1 DEF AtTrade, AtPortfolio
<1> HIDE DEF n
<1>3. /\ DebateEnd(cfg) \in Nat /\ RiskEnd(cfg) \in Nat /\ RiskStart(cfg) = DebateEnd(cfg) + 2
      /\ RiskStart(cfg) < RiskEnd(cfg) /\ Len(Agenda(cfg)) = RiskEnd(cfg) + 1
  BY Sizes, AgendaAt, Zenon
<1>4. /\ name \in Speaker /\ Append(g.spoken, name) \in Seq(Speaker)
      /\ Len(Append(g.spoken, name)) = n + 1 /\ Follows(cfg, Append(g.spoken, name))
  <2>1. n < Len(Agenda(cfg))
    BY <1>2, <1>3
  <2> QED BY <1>1, <2>1, Spoken DEF n
<1>5. \A next \in Speaker \cup {"END"} :
        h = Goto(Speak(g, name), next) => Left(g, h, name, next) /\ h.risks = g.risks
  BY <1>1, <1>4, ManagerFields
<1>6. {"Trader", "Aggressive Analyst", "END"} \subseteq Speaker \cup {"END"}
  BY DEF Speaker
<1>7. CASE n = DebateEnd(cfg) /\ g.risks = 0
  <2>1. name = "Research Manager" /\ Agenda(cfg)[(n + 1) + 1] = "Trader"
    <3>1. (n + 1) + 1 = DebateEnd(cfg) + 2
      BY <1>3, <1>7
    <3> QED BY <1>7, <3>1, AgendaAt
  <2>2. h = Goto(Speak(g, name), "Trader")
    BY <1>1, <2>1, Steps
  <2>3. Left(g, h, name, "Trader") /\ h.risks = 0
    BY <1>5, <1>6, <1>7, <2>2
  <2> HIDE DEF h, name
  <2>4. AtTrade(cfg, h)
    <3>1. n + 1 \in DebateEnd(cfg) .. DebateEnd(cfg) + 1
      BY <1>3, <1>7
    <3> QED BY <1>4, <2>1, <2>3, <3>1 DEF AtTrade, Turn, Left
  <2> QED BY <1>4, <2>3, <2>4 DEF OnAgenda, Left, h, name, n
<1>8. CASE n = DebateEnd(cfg) + 1 /\ g.risks = 0
  <2>1. name = "Trader" /\ Agenda(cfg)[(n + 1) + 1] = "Aggressive Analyst"
    <3>1. n + 1 = DebateEnd(cfg) + 2 /\ (n + 1) + 1 = RiskStart(cfg) + 1
      BY <1>3, <1>8
    <3>2. 1 \in 1 .. 3 * cfg.risk
      BY Sizes
    <3>3. Agenda(cfg)[RiskStart(cfg) + 1] = RiskTeam[((1 - 1) % 3) + 1]
      BY <3>2, AgendaAt, Zenon
    <3>4. ((1 - 1) % 3) + 1 = 1
      OBVIOUS
    <3>5. Agenda(cfg)[DebateEnd(cfg) + 2] = "Trader"
      BY AgendaAt, Zenon
    <3> QED BY <3>1, <3>3, <3>4, <3>5, Teams
  <2>2. h = Goto(Speak(g, name), "Aggressive Analyst")
    BY <1>1, <2>1, Steps
  <2>3. Left(g, h, name, "Aggressive Analyst") /\ h.risks = 0
    BY <1>5, <1>6, <1>8, <2>2
  <2> HIDE DEF h, name
  <2>4. AtRisk(cfg, h)
    <3>1. RiskStart(cfg) <= n + 1 /\ n + 1 < RiskEnd(cfg) /\ 0 = (n + 1) - RiskStart(cfg)
      BY <1>3, <1>8
    <3> QED BY <1>4, <2>1, <2>3, <3>1 DEF AtRisk, Turn, Left
  <2> QED BY <1>4, <2>3, <2>4 DEF OnAgenda, Left, h, name, n
<1>9. CASE n = RiskEnd(cfg)
  <2>1. name = "Portfolio Manager"
    BY <1>9, AgendaAt
  <2>2. h = Goto(Speak(g, name), "END")
    BY <1>1, <2>1, Steps
  <2>3. Left(g, h, name, "END")
    BY <1>5, <1>6, <2>2
  <2> HIDE DEF h, name
  <2>4. AtEnd(cfg, h)
    BY <1>4, <1>9, <2>3 DEF AtEnd, Left
  <2> QED BY <1>4, <2>3, <2>4 DEF OnAgenda, Left, h, name, n
<1> QED BY <1>2, <1>7, <1>8, <1>9

LEMMA AnalystsOf ==
    ASSUME NEW cfg \in Config
    PROVE  /\ cfg.analysts \in Seq(AnalystKey) /\ Len(cfg.analysts) = Analysts(cfg)
           /\ DOMAIN cfg.analysts = 1 .. Analysts(cfg)
           /\ \A i, j \in 1 .. Analysts(cfg) : cfg.analysts[i] = cfg.analysts[j] => i = j
<1>1. /\ cfg.analysts \in Seq(AnalystKey)
      /\ \A i, j \in DOMAIN cfg.analysts : cfg.analysts[i] = cfg.analysts[j] => i = j
  BY ConfigAssumption
<1>2. DOMAIN cfg.analysts = 1 .. Analysts(cfg)
  BY <1>1 DEF Analysts
<1> QED BY <1>1, <1>2 DEF Analysts

LEMMA AnalystPhase ==
    ASSUME NEW cfg \in Config, NEW g, OnAgenda(cfg, g), AtAnalyst(cfg, g),
           NEW h \in GraphSteps(cfg, g)
    PROVE  OnAgenda(cfg, h) /\ h.lessons = g.lessons
<1> DEFINE n == Len(g.spoken)
           a == cfg.analysts[n + 1]
<1>1. g \in GraphState /\ g.spoken \in Seq(Speaker) /\ n \in Nat /\ Follows(cfg, g.spoken)
  <2>1. g \in GraphState /\ Follows(cfg, g.spoken)
    BY Zenon DEF OnAgenda
  <2>2. g.spoken \in Seq(Speaker)
    BY <2>1 DEF GraphState
  <2> QED BY <2>1, <2>2
<1>2. /\ n < Analysts(cfg) /\ g.debates = 0 /\ g.risks = 0
      /\ g.node = <<"analyst", a>> \/ g.node = <<"tools", a>>
  BY DEF AtAnalyst
<1> HIDE DEF n
<1>3. n + 1 \in 1 .. Analysts(cfg) /\ n < Len(Agenda(cfg))
  <2>1. /\ Analysts(cfg) \in Nat /\ DebateEnd(cfg) \in Nat /\ RiskEnd(cfg) \in Nat
        /\ Analysts(cfg) < DebateEnd(cfg) /\ RiskStart(cfg) = DebateEnd(cfg) + 2
        /\ RiskStart(cfg) < RiskEnd(cfg) /\ Len(Agenda(cfg)) = RiskEnd(cfg) + 1
    BY Sizes, AgendaAt, Zenon
  <2> QED BY <1>1, <1>2, <2>1
<1>4. a \in AnalystKey /\ a = Agenda(cfg)[n + 1]
  <2>1. a \in AnalystKey
    BY <1>3, AnalystsOf
  <2>2. a = Agenda(cfg)[n + 1]
    BY <1>3, AgendaAt, Zenon
  <2> QED BY <2>1, <2>2
<1>5. /\ a \in Speaker /\ Append(g.spoken, a) \in Seq(Speaker)
      /\ Len(Append(g.spoken, a)) = n + 1 /\ Follows(cfg, Append(g.spoken, a))
  BY <1>1, <1>3, <1>4, Spoken DEF n
<1>6. {<<"analyst", a>>, <<"tools", a>>, <<"clear", a>>} \subseteq Nodes
  <2> HIDE DEF a
  <2> QED BY <1>4 DEF Nodes
<1>7. CASE h = Report(g, a)
  <2> DEFINE y == Speak(g, a)
  <2>1. /\ y \in GraphState /\ y.spoken = Append(g.spoken, a)
        /\ y.debates = 0 /\ y.risks = 0 /\ y.lessons = g.lessons
    BY <1>1, <1>2, <1>5, SpeakFields
  <2>2. h = [y EXCEPT !.node = <<"clear", a>>]
    BY <1>7, Zenon DEF Report
  <2> HIDE DEF y, a
  <2>3. /\ h \in GraphState /\ h.node = <<"clear", a>> /\ h.spoken = y.spoken
        /\ h.debates = 0 /\ h.risks = 0 /\ h.lessons = g.lessons
    BY <1>6, <2>1, <2>2 DEF GraphState
  <2>4. AtClear(cfg, h)
    BY <1>3, <1>5, <2>1, <2>3 DEF AtClear, a
  <2> QED BY <1>5, <2>1, <2>3, <2>4 DEF OnAgenda
<1>8. CASE h = [g EXCEPT !.node = <<"analyst", a>>] \/ h = [g EXCEPT !.node = <<"tools", a>>]
  <2> HIDE DEF a
  <2>1. /\ h \in GraphState
        /\ h.node = <<"analyst", a>> \/ h.node = <<"tools", a>>
        /\ h.spoken = g.spoken /\ h.debates = 0 /\ h.risks = 0 /\ h.lessons = g.lessons
    BY <1>1, <1>2, <1>6, <1>8 DEF GraphState
  <2>2. AtAnalyst(cfg, h)
    BY <1>2, <2>1 DEF AtAnalyst, a, n
  <2>3. Follows(cfg, h.spoken)
    BY <1>1, <2>1
  <2> QED BY <2>1, <2>2, <2>3 DEF OnAgenda
<1>9. h = Report(g, a) \/ h = [g EXCEPT !.node = <<"analyst", a>>]
        \/ h = [g EXCEPT !.node = <<"tools", a>>]
  <2> HIDE DEF a
  <2>1. CASE g.node = <<"analyst", a>>
    <3>1. g.node[1] = "analyst" /\ g.node[2] = a
      BY <2>1
    <3>2. h \in AnalystSteps(g, a)
      BY <3>1 DEF GraphSteps
    <3> QED BY <3>2 DEF AnalystSteps, AskTools
  <2>2. CASE g.node = <<"tools", a>>
    <3>1. g.node[1] = "tools" /\ g.node[2] = a
      BY <2>2
    <3> QED BY <3>1 DEF GraphSteps
  <2> QED BY <1>2, <2>1, <2>2
<1> QED BY <1>7, <1>8, <1>9

LEMMA ClearPhase ==
    ASSUME NEW cfg \in Config, NEW g, OnAgenda(cfg, g), AtClear(cfg, g),
           NEW h \in GraphSteps(cfg, g)
    PROVE  OnAgenda(cfg, h) /\ h.lessons = g.lessons
<1> DEFINE n == Len(g.spoken)
           a == cfg.analysts[n]
           next == AfterClear(cfg, a)
<1>1. g \in GraphState /\ g.spoken \in Seq(Speaker) /\ n \in Nat /\ Follows(cfg, g.spoken)
  <2>1. g \in GraphState /\ Follows(cfg, g.spoken)
    BY Zenon DEF OnAgenda
  <2>2. g.spoken \in Seq(Speaker)
    BY <2>1 DEF GraphState
  <2> QED BY <2>1, <2>2
<1>2. /\ n \in 1 .. Analysts(cfg) /\ g.debates = 0 /\ g.risks = 0 /\ g.node = <<"clear", a>>
  BY DEF AtClear
<1> HIDE DEF n
<1>3. h = [g EXCEPT !.node = next]
  <2> HIDE DEF a
  <2>1. g.node[1] = "clear" /\ g.node[2] = a
    BY <1>2
  <2> QED BY <2>1 DEF GraphSteps
<1>4. (CHOOSE j \in DOMAIN cfg.analysts : cfg.analysts[j] = a) = n
  BY <1>2, AnalystsOf
<1>5. CASE n < Analysts(cfg)
  <2>1. next = <<"analyst", cfg.analysts[n + 1]>>
    BY <1>4, <1>5, AnalystsOf DEF AfterClear
  <2>2. next \in Nodes
    <3>1. n + 1 \in 1 .. Analysts(cfg)
      <4>1. Analysts(cfg) \in Nat
        BY Sizes, Zenon
      <4> QED BY <1>2, <1>5, <4>1
    <3>2. cfg.analysts[n + 1] \in AnalystKey
      BY <3>1, AnalystsOf
    <3> HIDE DEF next
    <3> QED BY <2>1, <3>2 DEF Nodes
  <2> HIDE DEF next
  <2>3. /\ h \in GraphState /\ h.node = next /\ h.spoken = g.spoken
        /\ h.debates = 0 /\ h.risks = 0 /\ h.lessons = g.lessons
    BY <1>1, <1>2, <1>3, <2>2 DEF GraphState
  <2>4. AtAnalyst(cfg, h)
    BY <1>5, <2>1, <2>3 DEF AtAnalyst, n
  <2> QED BY <1>1, <2>3, <2>4 DEF OnAgenda
<1>6. CASE n = Analysts(cfg)
  <2>1. next = <<"agent", "Bull Researcher">>
    <3>1. ~(n < Len(cfg.analysts))
      <4>1. Analysts(cfg) \in Nat /\ Len(cfg.analysts) = Analysts(cfg)
        BY Sizes, AnalystsOf, Zenon
      <4> QED BY <1>6, <4>1
    <3> HIDE DEF a
    <3> QED BY <1>4, <3>1, Zenon DEF AfterClear
  <2>2. next \in Nodes
    <3>1. "Bull Researcher" \in Speaker
      BY DEF Speaker
    <3> HIDE DEF next
    <3> QED BY <2>1, <3>1 DEF Nodes
  <2> HIDE DEF next
  <2>3. /\ h \in GraphState /\ h.node = next /\ h.spoken = g.spoken
        /\ h.debates = 0 /\ h.risks = 0 /\ h.lessons = g.lessons
    BY <1>1, <1>2, <1>3, <2>2 DEF GraphState
  <2>4. Agenda(cfg)[n + 1] = "Bull Researcher"
    <3>1. 1 \in 1 .. 2 * cfg.debate
      BY Sizes
    <3>2. Agenda(cfg)[Analysts(cfg) + 1] = Debaters[((1 - 1) % 2) + 1]
      BY <3>1, AgendaAt, Zenon
    <3>3. ((1 - 1) % 2) + 1 = 1
      OBVIOUS
    <3> QED BY <1>6, <3>2, <3>3, Teams
  <2>5. AtDebate(cfg, h)
    <3>1. Analysts(cfg) <= n /\ n < DebateEnd(cfg) /\ 0 = n - Analysts(cfg)
      <4>1. Analysts(cfg) \in Nat /\ Analysts(cfg) < DebateEnd(cfg)
        BY Sizes, Zenon
      <4> QED BY <1>6, <4>1
    <3> QED BY <2>1, <2>3, <2>4, <3>1 DEF AtDebate, Turn, n
  <2> QED BY <1>1, <2>3, <2>5 DEF OnAgenda
<1>7. n < Analysts(cfg) \/ n = Analysts(cfg)
  <2>1. Analysts(cfg) \in Nat
    BY Sizes, Zenon
  <2> QED BY <1>2, <2>1
<1> QED BY <1>5, <1>6, <1>7

LEMMA StepsKeepTheAgenda ==
    ASSUME NEW cfg \in Config, NEW g, OnAgenda(cfg, g), ~Finished(g),
           NEW h \in GraphSteps(cfg, g)
    PROVE  OnAgenda(cfg, h) /\ h.lessons = g.lessons
<1> DEFINE name == Agenda(cfg)[Len(g.spoken) + 1]
<1>1. CASE AtAnalyst(cfg, g)
  BY <1>1, AnalystPhase
<1>2. CASE AtClear(cfg, g)
  BY <1>2, ClearPhase
<1>3. ASSUME Turn(cfg, g) PROVE h = AgentStep(cfg, g, name)
  <2> HIDE DEF name
  <2>1. g.node = <<"agent", name>>
    BY <1>3 DEF Turn, name
  <2>2. g.node[1] = "agent" /\ g.node[2] = name
    BY <2>1
  <2> QED BY <2>2 DEF GraphSteps
<1>4. CASE AtDebate(cfg, g)
  <2>1. h = AgentStep(cfg, g, name)
    BY <1>3, <1>4, Zenon DEF AtDebate
  <2> QED BY <1>4, <2>1, DebatePhase
<1>5. CASE AtRisk(cfg, g)
  <2>1. h = AgentStep(cfg, g, name)
    BY <1>3, <1>5, Zenon DEF AtRisk
  <2> QED BY <1>5, <2>1, RiskPhase
<1>6. CASE AtTrade(cfg, g) \/ AtPortfolio(cfg, g)
  <2>1. h = AgentStep(cfg, g, name)
    BY <1>3, <1>6, Zenon DEF AtTrade, AtPortfolio
  <2> QED BY <1>6, <2>1, ManagerPhase
<1>7. ~AtEnd(cfg, g)
  BY DEF AtEnd, Finished
<1> QED BY <1>1, <1>2, <1>4, <1>5, <1>6, <1>7, Zenon DEF OnAgenda

\* Only the portfolio manager ends the graph: no agent is called END.
LEMMA EndIsLast ==
    ASSUME NEW cfg \in Config, NEW g, OnAgenda(cfg, g), Finished(g)
    PROVE  AtEnd(cfg, g)
<1>1. g.node = <<"agent", "END">>
  BY DEF Finished
<1>2. ~AtAnalyst(cfg, g) /\ ~AtClear(cfg, g)
  BY <1>1 DEF AtAnalyst, AtClear
<1>3. ASSUME Len(g.spoken) < Len(Agenda(cfg)) PROVE ~Turn(cfg, g)
  <2>1. g.spoken \in Seq(Speaker) /\ Follows(cfg, g.spoken)
    <3>1. g \in GraphState /\ Follows(cfg, g.spoken)
      BY Zenon DEF OnAgenda
    <3>2. g.spoken \in Seq(Speaker)
      BY <3>1 DEF GraphState
    <3> QED BY <3>1, <3>2
  <2>2. Agenda(cfg)[Len(g.spoken) + 1] \in Speaker
    BY <1>3, <2>1, Spoken
  <2>3. "END" \notin Speaker
    BY DEF Speaker, AnalystKey
  <2> QED BY <1>1, <2>2, <2>3 DEF Turn
<1>4. \/ Len(g.spoken) < Len(Agenda(cfg))
      \/ ~AtDebate(cfg, g) /\ ~AtTrade(cfg, g) /\ ~AtRisk(cfg, g) /\ ~AtPortfolio(cfg, g)
  <2>1. /\ DebateEnd(cfg) \in Nat /\ RiskEnd(cfg) \in Nat /\ RiskStart(cfg) = DebateEnd(cfg) + 2
        /\ RiskStart(cfg) < RiskEnd(cfg) /\ Len(Agenda(cfg)) = RiskEnd(cfg) + 1
    BY Sizes, AgendaAt, Zenon
  <2>2. Len(g.spoken) \in Nat
    <3>1. g \in GraphState
      BY Zenon DEF OnAgenda
    <3>2. g.spoken \in Seq(Speaker)
      BY <3>1 DEF GraphState
    <3> QED BY <3>2
  <2> QED BY <2>1, <2>2 DEF AtDebate, AtTrade, AtRisk, AtPortfolio
<1>5. \/ Turn(cfg, g)
      \/ ~AtDebate(cfg, g) /\ ~AtTrade(cfg, g) /\ ~AtRisk(cfg, g) /\ ~AtPortfolio(cfg, g)
  BY DEF AtDebate, AtTrade, AtRisk, AtPortfolio
<1> QED BY <1>2, <1>3, <1>4, <1>5, Zenon DEF OnAgenda

LEMMA StartIsOnTheAgenda ==
    ASSUME NEW cfg \in Config, NEW lessons \in SUBSET LogEntry
    PROVE  OnAgenda(cfg, StartGraph(cfg, lessons)) /\ StartGraph(cfg, lessons).lessons = lessons
<1> DEFINE g == StartGraph(cfg, lessons)
           a == cfg.analysts[1]
<1>1. Analysts(cfg) \in Nat /\ 0 < Analysts(cfg)
  BY Sizes
<1>2. 1 \in 1 .. Analysts(cfg) /\ a \in AnalystKey
  BY <1>1, AnalystsOf
<1>3. <<"analyst", a>> \in Nodes
  <2> HIDE DEF a
  <2> QED BY <1>2 DEF Nodes
<1>4. /\ g.node = <<"analyst", a>> /\ g.spoken = <<>> /\ g.debates = 0 /\ g.risks = 0
      /\ g.lessons = lessons
  BY DEF StartGraph
<1>5. g \in GraphState
  <2>1. <<>> \in Seq(Speaker)
    OBVIOUS
  <2>2. g = [node |-> <<"analyst", a>>, spoken |-> <<>>, debates |-> 0,
             risks |-> 0, last |-> "", lessons |-> lessons]
    BY Zenon DEF StartGraph
  <2> HIDE DEF a, g
  <2> QED BY <1>3, <2>1, <2>2 DEF GraphState
<1> HIDE DEF g
<1>6. Len(g.spoken) = 0
  BY <1>4
<1>7. Follows(cfg, g.spoken)
  <2>1. Len(Agenda(cfg)) \in Nat
    <3>1. Agenda(cfg) \in Seq(Speaker)
      BY AgendaAt, Zenon
    <3> QED BY <3>1
  <2> QED BY <1>6, <2>1 DEF Follows
<1>8. AtAnalyst(cfg, g)
  BY <1>1, <1>4, <1>6 DEF AtAnalyst
<1> QED BY <1>4, <1>5, <1>7, <1>8 DEF OnAgenda, g

-----------------------------------------------------------------------------
(* The decision log: what rotation and a rewrite keep.                     *)

\* The n-th of a finite set of numbers, for every n, is each of them once.
LEMMA NthIsABijection ==
    ASSUME NEW S \in SUBSET Nat, IsFiniteSet(S)
    PROVE  /\ Cardinality(S) \in Nat
           /\ \A n \in 1 .. Cardinality(S) : Nth(S, n) \in S
           /\ \A n, m \in 1 .. Cardinality(S) : Nth(S, n) = Nth(S, m) => n = m
           /\ \A i \in S : \E n \in 1 .. Cardinality(S) : Nth(S, n) = i
<1> DEFINE below(i) == {j \in S : j <= i}
           c == Cardinality(S)
           rank == [i \in S |-> Cardinality(below(i))]
<1>1. c \in Nat
  BY FS_CardinalityType
<1>2. \A i \in S : /\ below(i) \in SUBSET S /\ IsFiniteSet(below(i))
                   /\ Cardinality(below(i)) \in Nat /\ Cardinality(below(i)) <= c
  BY FS_Subset, FS_CardinalityType
<1>3. \A i \in S : Cardinality(below(i)) \in 1 .. c
  <2> TAKE i \in S
  <2>1. i \in below(i)
    <3>1. \A n \in Nat : n <= n
      OBVIOUS
    <3> QED BY <3>1
  <2> HIDE DEF below
  <2>2. Cardinality(below(i)) # 0
    BY <1>2, <2>1, FS_EmptySet
  <2> QED BY <1>1, <1>2, <2>2
<1>4. \A i, j \in S : i < j => Cardinality(below(i)) # Cardinality(below(j))
  <2> SUFFICES ASSUME NEW i \in S, NEW j \in S, i < j
               PROVE  Cardinality(below(i)) # Cardinality(below(j))
    OBVIOUS
  <2>1. below(i) \in SUBSET below(j) /\ j \in below(j) /\ j \notin below(i)
    <3>1. \A m, n, k \in Nat : (m <= n /\ n < k => m <= k) /\ m <= m /\ ~(n < k /\ k <= n)
      OBVIOUS
    <3>2. i \in Nat /\ j \in Nat /\ \A k \in S : k \in Nat
      OBVIOUS
    <3>3. \A k \in S : k <= i => k <= j
      BY <3>1, <3>2
    <3>4. j <= j /\ ~(j <= i)
      BY <3>1, <3>2
    <3> QED BY <3>3, <3>4
  <2> HIDE DEF below
  <2> QED BY <1>2, <2>1, FS_Subset
<1>5. rank \in Injection(S, 1 .. c)
  <2>1. rank \in [S -> 1 .. c]
    BY <1>3
  <2>2. \A i, j \in S : rank[i] = rank[j] => i = j
    <3> SUFFICES ASSUME NEW i \in S, NEW j \in S, rank[i] = rank[j], i # j PROVE FALSE
      OBVIOUS
    <3>1. i < j \/ j < i
      OBVIOUS
    <3> QED BY <1>4, <3>1
  <2> HIDE DEF rank
  <2>3. DOMAIN rank = S
    BY <2>1
  <2> QED BY <2>1, <2>2, <2>3 DEF Injection, IsInjective
<1>6. rank \in Surjection(S, 1 .. c)
  <2>1. IsFiniteSet(1 .. c) /\ Cardinality(1 .. c) = c
    BY <1>1, FS_Interval
  <2> HIDE DEF rank
  <2> QED BY <1>5, <2>1, FS_Injection
<1>7. \A i \in S : rank[i] = Cardinality({j \in S : j <= i})
  OBVIOUS
<1>8. \A n \in 1 .. c : Nth(S, n) \in S /\ rank[Nth(S, n)] = n
  <2> TAKE n \in 1 .. c
  <2>1. \E i \in S : rank[i] = n
    <3> HIDE DEF rank
    <3> QED BY <1>6 DEF Surjection
  <2>2. \E i \in S : Cardinality({j \in S : j <= i}) = n
    BY <1>7, <2>1
  <2>3. Nth(S, n) \in S /\ Cardinality({j \in S : j <= Nth(S, n)}) = n
    BY <2>2, Zenon DEF Nth
  <2> HIDE DEF rank
  <2> QED BY <1>7, <2>3
<1>9. \A i \in S : rank[i] \in 1 .. c /\ Nth(S, rank[i]) = i
  <2> TAKE i \in S
  <2>1. rank[i] \in 1 .. c
    BY <1>3
  <2> HIDE DEF rank
  <2>2. \A j, k \in S : rank[j] = rank[k] => j = k
    BY <1>5 DEF Injection, IsInjective
  <2> QED BY <1>8, <2>1, <2>2
<1> HIDE DEF rank
<1> QED BY <1>1, <1>8, <1>9

OncePending(l) == \A i, j \in DOMAIN l : IsPending(l[i]) /\ l[i] = l[j] => i = j
Known(l, day) == \A i \in DOMAIN l : ~IsPending(l[i]) => l[i].resolved <= day

LEMMA PendingKeysAre ==
    ASSUME NEW l \in Seq(LogEntry)
    PROVE  /\ PendingKeys(l) \subseteq Key
           /\ \A k : k \in PendingKeys(l) <=>
                     \E i \in 1 .. Len(l) : IsPending(l[i]) /\ KeyOf(l[i]) = k
<1>1. DOMAIN l = 1 .. Len(l) /\ \A i \in 1 .. Len(l) : l[i] \in LogEntry
  OBVIOUS
<1>2. \A k : k \in PendingKeys(l) <=>
              \E i \in 1 .. Len(l) : IsPending(l[i]) /\ KeyOf(l[i]) = k
  BY <1>1 DEF PendingKeys, Range
<1>3. \A i \in 1 .. Len(l) : KeyOf(l[i]) \in Key
  BY <1>1 DEF LogEntry, KeyOf, Key
<1> QED BY <1>2, <1>3

\* Pending entries with one key are one entry.
LEMMA SameKeySameEntry ==
    ASSUME NEW e \in LogEntry, NEW f \in LogEntry, IsPending(e), IsPending(f),
           KeyOf(e) = KeyOf(f)
    PROVE  e = f
BY DEF LogEntry, IsPending, KeyOf

LEMMA RotateKeepsPending ==
    ASSUME NEW l \in Seq(LogEntry)
    PROVE  /\ Rotate(l) \in Seq(LogEntry)
           /\ PendingKeys(Rotate(l)) = PendingKeys(l)
           /\ OncePending(l) => OncePending(Rotate(l))
           /\ \A day : Known(l, day) => Known(Rotate(l), day)
<1>1. CASE MaxEntries = 0
  BY <1>1 DEF Rotate
<1>2. CASE MaxEntries # 0
  <2> DEFINE excess == ResolvedUpTo(l, Len(l)) - MaxEntries
             kept == {i \in DOMAIN l : IsPending(l[i]) \/ ResolvedUpTo(l, i) > excess}
             c == Cardinality(kept)
             r == Rotate(l)
  <2>1. r = [n \in 1 .. c |-> l[Nth(kept, n)]]
    BY <1>2, Zenon DEF Rotate
  <2>2. /\ DOMAIN l = 1 .. Len(l) /\ Len(l) \in Nat /\ kept \subseteq 1 .. Len(l)
        /\ \A i \in 1 .. Len(l) : IsPending(l[i]) => i \in kept
    OBVIOUS
  <2> HIDE DEF kept, r
  <2>3. IsFiniteSet(kept) /\ kept \in SUBSET Nat
    <3>1. IsFiniteSet(1 .. Len(l))
      BY <2>2, FS_Interval
    <3>2. kept \in SUBSET (1 .. Len(l))
      BY <2>2
    <3>3. IsFiniteSet(kept)
      BY <3>1, <3>2, FS_Subset
    <3> QED BY <3>2, <3>3
  <2>4. /\ c \in Nat /\ \A n \in 1 .. c : Nth(kept, n) \in kept
        /\ \A n, m \in 1 .. c : Nth(kept, n) = Nth(kept, m) => n = m
        /\ \A i \in kept : \E n \in 1 .. c : Nth(kept, n) = i
    BY <2>3, NthIsABijection
  <2> HIDE DEF c
  <2>5. \A n \in 1 .. c : Nth(kept, n) \in 1 .. Len(l) /\ l[Nth(kept, n)] \in LogEntry
    <3>1. \A i \in 1 .. Len(l) : l[i] \in LogEntry
      OBVIOUS
    <3> QED BY <2>2, <2>4, <3>1
  <2>6. r \in Seq(LogEntry) /\ Len(r) = c /\ DOMAIN r = 1 .. c
        /\ \A n \in 1 .. c : r[n] = l[Nth(kept, n)]
    <3>1. r \in [1 .. c -> LogEntry]
      BY <2>1, <2>5
    <3> QED BY <2>1, <2>4, <3>1
  <2>7. PendingKeys(r) = PendingKeys(l)
    <3>1. ASSUME NEW k \in PendingKeys(r) PROVE k \in PendingKeys(l)
      <4>1. PICK n \in 1 .. c : IsPending(r[n]) /\ KeyOf(r[n]) = k
        BY <2>6, PendingKeysAre
      <4> QED BY <2>5, <2>6, <4>1, PendingKeysAre
    <3>2. ASSUME NEW k \in PendingKeys(l) PROVE k \in PendingKeys(r)
      <4>1. PICK i \in 1 .. Len(l) : IsPending(l[i]) /\ KeyOf(l[i]) = k
        BY PendingKeysAre
      <4>2. PICK n \in 1 .. c : Nth(kept, n) = i
        BY <2>2, <2>4, <4>1
      <4> QED BY <2>6, <4>1, <4>2, PendingKeysAre
    <3> QED BY <3>1, <3>2
  <2>8. OncePending(l) => OncePending(r)
    BY <2>2, <2>4, <2>5, <2>6 DEF OncePending
  <2>9. \A day : Known(l, day) => Known(r, day)
    BY <2>2, <2>5, <2>6 DEF Known
  <2> QED BY <2>6, <2>7, <2>8, <2>9 DEF r
<1> QED BY <1>1, <1>2

LEMMA OutcomesSettle ==
    ASSUME NEW l \in Seq(LogEntry), NEW keys \in SUBSET Key, today \in Day,
           \A k \in keys : k.date + HoldingDays <= today
    PROVE  LET w == WithOutcomes(l, keys)
           IN  /\ w \in Seq(LogEntry)
               /\ Known(l, today) => Known(w, today)
               /\ OncePending(l) => OncePending(w) /\ PendingKeys(w) = PendingKeys(l) \ keys
<1> DEFINE w == WithOutcomes(l, keys)
           Settles(i) == /\ IsPending(l[i]) /\ KeyOf(l[i]) \in keys
                         /\ \A j \in 1 .. i - 1 : l[j] # l[i]
           settled(i) == Entry(KeyOf(l[i]), l[i].date + HoldingDays)
<1>1. DOMAIN l = 1 .. Len(l) /\ \A i \in 1 .. Len(l) : l[i] \in LogEntry
  OBVIOUS
<1>2. w = [i \in 1 .. Len(l) |-> IF Settles(i) THEN settled(i) ELSE l[i]]
  BY <1>1, Zenon DEF WithOutcomes
<1>3. \A i \in 1 .. Len(l) : Settles(i) =>
        /\ settled(i) \in LogEntry /\ ~IsPending(settled(i))
        /\ settled(i).resolved <= today
  <2> SUFFICES ASSUME NEW i \in 1 .. Len(l), Settles(i)
               PROVE  /\ settled(i) \in LogEntry /\ ~IsPending(settled(i))
                      /\ settled(i).resolved <= today
    OBVIOUS
  <2>1. /\ l[i].ticker \in Ticker /\ l[i].date \in Day
    BY <1>1 DEF LogEntry
  <2>2. /\ KeyOf(l[i]).ticker = l[i].ticker /\ KeyOf(l[i]).date = l[i].date
    BY DEF KeyOf
  <2> DEFINE d == l[i].date
  <2>3. d + HoldingDays <= today
    BY <2>2
  <2>4. d + HoldingDays \in Day
    <3>1. HoldingDays \in Nat /\ LastDay \in Nat
      BY RunLimitsAreNat
    <3> HIDE DEF d
    <3> QED BY <2>1, <2>3, <3>1 DEF Day, d
  <2>5. /\ settled(i).ticker = l[i].ticker /\ settled(i).date = d
        /\ settled(i).resolved = d + HoldingDays
        /\ settled(i) = [ticker |-> l[i].ticker, date |-> d, resolved |-> d + HoldingDays]
    BY <2>2 DEF Entry
  <2> HIDE DEF d, settled
  <2>6. settled(i) \in LogEntry
    BY <2>1, <2>4, <2>5 DEF LogEntry, d
  <2> QED BY <2>3, <2>4, <2>5, <2>6, LogAssumption DEF IsPending
<1> HIDE DEF w, Settles, settled
<1>4. /\ w \in Seq(LogEntry) /\ Len(w) = Len(l) /\ DOMAIN w = 1 .. Len(l)
      /\ \A i \in 1 .. Len(l) : w[i] = IF Settles(i) THEN settled(i) ELSE l[i]
  <2>1. w \in [1 .. Len(l) -> LogEntry]
    BY <1>1, <1>2, <1>3
  <2>2. Len(l) \in Nat
    OBVIOUS
  <2> QED BY <1>2, <2>1, <2>2
<1>5. Known(l, today) => Known(w, today)
  BY <1>1, <1>3, <1>4 DEF Known
<1>6. ASSUME OncePending(l)
      PROVE  OncePending(w) /\ PendingKeys(w) = PendingKeys(l) \ keys
  <2>1. \A i \in 1 .. Len(l) : IsPending(w[i]) <=> IsPending(l[i]) /\ KeyOf(l[i]) \notin keys
    <3> TAKE i \in 1 .. Len(l)
    <3>1. IsPending(l[i]) => \A j \in 1 .. i - 1 : l[j] # l[i]
      BY <1>1, <1>6 DEF OncePending
    <3>2. Settles(i) <=> IsPending(l[i]) /\ KeyOf(l[i]) \in keys
      BY <3>1 DEF Settles
    <3> QED BY <1>3, <1>4, <3>2
  <2>2. \A i \in 1 .. Len(l) : IsPending(w[i]) => w[i] = l[i]
    BY <1>3, <1>4
  <2>3. OncePending(w)
    BY <1>1, <1>4, <1>6, <2>1, <2>2 DEF OncePending
  <2>4. PendingKeys(w) = PendingKeys(l) \ keys
    <3>1. ASSUME NEW k \in PendingKeys(w) PROVE k \in PendingKeys(l) \ keys
      <4>1. PICK i \in 1 .. Len(l) : IsPending(w[i]) /\ KeyOf(w[i]) = k
        BY <1>4, PendingKeysAre
      <4> QED BY <2>1, <2>2, <4>1, PendingKeysAre
    <3>2. ASSUME NEW k \in PendingKeys(l) \ keys PROVE k \in PendingKeys(w)
      <4>1. PICK i \in 1 .. Len(l) : IsPending(l[i]) /\ KeyOf(l[i]) = k
        BY PendingKeysAre
      <4>2. IsPending(w[i]) /\ w[i] = l[i]
        BY <2>1, <2>2, <4>1
      <4> QED BY <1>4, <4>1, <4>2, PendingKeysAre
    <3> QED BY <3>1, <3>2
  <2> QED BY <2>3, <2>4
<1> QED BY <1>4, <1>5, <1>6 DEF w

-----------------------------------------------------------------------------
(* The invariant.  A run's graph is where its agenda says, also when it is *)
(* only kept in a checkpoint; what it read from the log and was injected   *)
(* was known; what it will settle has matured; and a run about to append   *)
(* has seen no pending entry of its key.                                   *)

RunState ==
    [pc : Pcs, key : Key \cup {None}, cfg : Config \cup {None}, read : Seq(LogEntry),
     updates : SUBSET Key, graph : GraphState \cup {None}, steps : Nat]

GraphOK(k, cfg, g) == OnAgenda(cfg, g) /\ \A e \in g.lessons : e.resolved <= k.date
CheckOK(t, g) == g = None \/ GraphOK(t[1], t[2], g)

InGraph == {"graph", "append", "clear"}
Window == {"write", "replace"}
RunOK(r, day) ==
    /\ r.pc # "idle" => r.key \in Key /\ r.cfg \in Config /\ r.key.date <= day
    /\ \A k \in r.updates : k.date + HoldingDays <= day
    /\ Known(r.read, day)
    /\ r.pc \in InGraph => GraphOK(r.key, r.cfg, r.graph)
    /\ r.pc \notin InGraph => r.graph = None
    /\ r.pc = "append" => r.key \notin PendingKeys(r.read)

RunsOK ==
    run \in [Runner -> RunState] /\ \A p \in Runner : RunOK(run[p], today)
ChecksOK ==
    /\ checkpoints \in [Thread -> GraphState \cup {None}]
    /\ \A t \in Thread : CheckOK(t, checkpoints[t])
LogOK == today \in Day /\ log \in Seq(LogEntry) /\ Known(log, today)

TmpOK ==
    tmp \in [there : BOOLEAN, text : Seq(LogEntry)] /\ Known(tmp.text, today)

\* Without a race one process at most is rewriting the log, and the temporary file
\* is its own.
WindowOK ==
    ~raced => \A p \in Runner : run[p].pc \in Window =>
      /\ \A q \in Runner : run[q].pc \in Window => q = p
      /\ tmp = Holding(IF run[p].pc = "write" THEN <<>> ELSE Rewritten(p))

TInv == RunsOK /\ ChecksOK /\ LogOK /\ TmpOK /\ WindowOK /\ LogKeepsDecisions

LEMMA IdleIsOK == Idle \in RunState /\ \A day : RunOK(Idle, day)
<1>1. /\ Idle.pc = "idle" /\ Idle.read = <<>> /\ Idle.updates = {} /\ Idle.graph = None
  BY DEF Idle
<1>2. <<>> \in Seq(LogEntry) /\ DOMAIN <<>> = {}
  OBVIOUS
<1>3. Idle \in RunState
  BY <1>2 DEF Idle, RunState, Pcs
<1>4. \A day : RunOK(Idle, day)
  BY <1>1, <1>2 DEF RunOK, Known, InGraph
<1> QED BY <1>3, <1>4

LEMMA RunStep ==
    ASSUME RunsOK, NEW p \in Runner, NEW r \in RunState, RunOK(r, today),
           run' = [run EXCEPT ![p] = r], today' = today
    PROVE  RunsOK'
<1>1. run' \in [Runner -> RunState] /\ \A q \in Runner : run'[q] = IF q = p THEN r ELSE run[q]
  BY DEF RunsOK
<1>2. \A q \in Runner : RunOK(run'[q], today')
  BY <1>1 DEF RunsOK
<1> QED BY <1>1, <1>2 DEF RunsOK

LEMMA CheckStep ==
    ASSUME ChecksOK, NEW t \in Thread, NEW g \in GraphState \cup {None}, CheckOK(t, g),
           checkpoints' = [checkpoints EXCEPT ![t] = g]
    PROVE  ChecksOK'
<1>1. /\ checkpoints' \in [Thread -> GraphState \cup {None}]
      /\ \A u \in Thread : checkpoints'[u] = IF u = t THEN g ELSE checkpoints[u]
  BY DEF ChecksOK
<1>2. \A u \in Thread : CheckOK(u, checkpoints'[u])
  BY <1>1 DEF ChecksOK
<1> QED BY <1>1, <1>2 DEF ChecksOK

\* A step that leaves the temporary file alone, of a process that is then not at it.
LEMMA SameWindow ==
    ASSUME RunsOK, WindowOK, NEW p \in Runner, NEW s, run' = [run EXCEPT ![p] = s],
           s.pc \notin Window, raced => raced', UNCHANGED tmp
    PROVE  WindowOK'
<1>1. \A q \in Runner : run'[q] = IF q = p THEN s ELSE run[q]
  BY DEF RunsOK
<1>2. \A q \in Runner : run'[q].pc \in Window =>
        q # p /\ run'[q] = run[q] /\ Rewritten(q)' = Rewritten(q)
  BY <1>1 DEF Rewritten
<1> QED BY <1>2 DEF WindowOK

LEMMA SameTmp == ASSUME TmpOK, UNCHANGED <<today, tmp>> PROVE TmpOK'
  BY DEF TmpOK, Known, IsPending

LEMMA SameLog ==
    ASSUME LogOK, LogKeepsDecisions, UNCHANGED <<today, log, owed, raced>>
    PROVE  LogOK' /\ LogKeepsDecisions'
<1>1. LogOK'
  BY DEF LogOK, Known, IsPending
<1>2. LogKeepsDecisions'
  BY DEF LogKeepsDecisions, PendingKeys, IsPending
<1> QED BY <1>1, <1>2

LEMMA InitTInv == RunsInit => TInv
<1> SUFFICES ASSUME RunsInit PROVE TInv
  OBVIOUS
<1>1. RunsOK
  <2>1. run = [p \in Runner |-> Idle]
    BY DEF RunsInit
  <2> QED BY <2>1, IdleIsOK DEF RunsOK
<1>2. ChecksOK
  BY DEF RunsInit, ChecksOK, CheckOK
<1>3. today \in Day /\ log \in Seq(LogEntry) /\ OncePending(log)
  BY LogAssumption DEF RunsInit, OncePending, IsPending
<1>4. Known(log, today)
  <2>1. \A e \in {f \in Range(log) : ~IsPending(f)} : e.resolved <= today
    BY DEF RunsInit
  <2>2. \A i \in DOMAIN log : log[i] \in Range(log)
    BY DEF Range
  <2> QED BY <2>1, <2>2 DEF Known
<1>5. LogKeepsDecisions
  BY <1>3 DEF RunsInit, LogKeepsDecisions, OncePending
<1>6. TmpOK
  <2>1. tmp = NoFile /\ <<>> \in Seq(LogEntry)
    BY DEF RunsInit
  <2> QED BY <2>1 DEF TmpOK, NoFile, Known
<1>7. WindowOK
  BY IdleIsOK DEF RunsInit, WindowOK, Window, Idle
<1> QED BY <1>1, <1>2, <1>3, <1>4, <1>5, <1>6, <1>7 DEF TInv, LogOK

LEMMA TickKeeps ==
    ASSUME TInv, Tick
    PROVE  TInv'
<1>1. today \in Nat /\ today' = today + 1 /\ today' \in Day /\ LastDay \in Nat
  BY RunLimitsAreNat DEF TInv, LogOK, Tick, Day
<1>2. \A l \in Seq(LogEntry) : Known(l, today) => Known(l, today')
  <2> SUFFICES ASSUME NEW l \in Seq(LogEntry), Known(l, today), NEW i \in DOMAIN l,
                      ~IsPending(l[i])
               PROVE  l[i].resolved <= today'
    BY Zenon DEF Known
  <2>1. l[i] \in LogEntry
    OBVIOUS
  <2>2. l[i].resolved \in Nat
    BY <2>1 DEF LogEntry, IsPending, Day
  <2>3. l[i].resolved <= today
    BY DEF Known
  <2> DEFINE x == l[i].resolved
  <2> HIDE DEF x
  <2>4. x \in Nat /\ x <= today
    BY <2>2, <2>3 DEF x
  <2>5. x <= today'
    BY <1>1, <2>4
  <2> QED BY <2>5 DEF x
<1>3. \A r \in RunState : RunOK(r, today) => RunOK(r, today')
  <2> SUFFICES ASSUME NEW r \in RunState, RunOK(r, today) PROVE RunOK(r, today')
    OBVIOUS
  <2>1. \A d \in Nat : d <= today => d <= today'
    BY <1>1
  <2>2. \A k \in Key : k.date \in Nat /\ k.date + HoldingDays \in Nat
    <3> TAKE k \in Key
    <3>1. k.date \in Nat
      BY DEF Key, Day
    <3>2. HoldingDays \in Nat
      BY RunLimitsAreNat
    <3> QED BY <3>1, <3>2
  <2>3. r.updates \subseteq Key /\ r.read \in Seq(LogEntry)
    BY DEF RunState
  <2>4. r.pc # "idle" => r.key \in Key /\ r.cfg \in Config /\ r.key.date <= today'
    BY <2>1, <2>2 DEF RunOK
  <2>5. \A k \in r.updates : k.date + HoldingDays <= today'
    BY <2>1, <2>2, <2>3 DEF RunOK
  <2>6. Known(r.read, today')
    BY <1>2, <2>3 DEF RunOK
  <2> QED BY <2>4, <2>5, <2>6 DEF RunOK
<1>4. UNCHANGED <<log, tmp, checkpoints, run, owed, raced>>
  BY DEF Tick
<1>5. RunsOK'
  BY <1>3, <1>4 DEF TInv, RunsOK
<1>6. ChecksOK'
  BY <1>4 DEF TInv, ChecksOK
<1>7. LogOK'
  BY <1>1, <1>2, <1>4 DEF TInv, LogOK
<1>8. LogKeepsDecisions'
  BY <1>4 DEF TInv, LogKeepsDecisions, PendingKeys, IsPending
<1>9. TmpOK'
  BY <1>2, <1>4 DEF TInv, TmpOK
<1>10. WindowOK'
  BY <1>4 DEF TInv, WindowOK, Rewritten
<1> QED BY <1>5, <1>6, <1>7, <1>8, <1>9, <1>10 DEF TInv

\* The fields of a run, and what the invariant says of them.
LEMMA RunFields ==
    ASSUME TInv, NEW p \in Runner
    PROVE  /\ run[p] \in RunState /\ RunOK(run[p], today)
           /\ run[p].pc \in Pcs /\ run[p].key \in Key \cup {None}
           /\ run[p].cfg \in Config \cup {None} /\ run[p].read \in Seq(LogEntry)
           /\ run[p].updates \in SUBSET Key /\ run[p].graph \in GraphState \cup {None}
           /\ run[p].steps \in Nat
           /\ run[p].pc # "idle" => ThreadOf(p) \in Thread /\ ThreadOf(p)[1] = run[p].key
                                      /\ ThreadOf(p)[2] = run[p].cfg
<1>1. run[p] \in RunState /\ RunOK(run[p], today)
  BY DEF TInv, RunsOK
<1>2. /\ run[p].pc \in Pcs /\ run[p].key \in Key \cup {None}
      /\ run[p].cfg \in Config \cup {None} /\ run[p].read \in Seq(LogEntry)
      /\ run[p].updates \in SUBSET Key /\ run[p].graph \in GraphState \cup {None}
      /\ run[p].steps \in Nat
  BY <1>1 DEF RunState
<1>3. ASSUME run[p].pc # "idle"
      PROVE  /\ ThreadOf(p) \in Thread /\ ThreadOf(p)[1] = run[p].key
             /\ ThreadOf(p)[2] = run[p].cfg
  <2>1. run[p].key \in Key /\ run[p].cfg \in Config
    BY <1>1, <1>3 DEF RunOK
  <2> QED BY <2>1 DEF ThreadOf, Thread
<1> QED BY <1>1, <1>2, <1>3

\* Steps that end a run, and leave the log alone.
LEMMA EndsKeep ==
    ASSUME TInv, NEW p \in Runner, run' = [run EXCEPT ![p] = Idle], ChecksOK',
           UNCHANGED <<today, log, tmp, owed, raced>>
    PROVE  TInv'
<1>1. RunsOK'
  BY IdleIsOK, RunStep DEF TInv
<1>2. WindowOK'
  BY SameWindow DEF TInv, Idle, Window
<1> QED BY <1>1, <1>2, SameLog, SameTmp DEF TInv

LEMMA BeginKeeps ==
    ASSUME TInv, NEW p \in Runner, NEW k \in Key, NEW cfg \in Config, Begin(p, k, cfg)
    PROVE  TInv'
<1>1. PICK updates \in SUBSET Matured(log, k.ticker) :
        run' = [run EXCEPT ![p] = [Idle EXCEPT
                  !.pc = IF updates = {} THEN "open" ELSE "settle",
                  !.key = k, !.cfg = cfg, !.updates = updates]]
  BY DEF Begin
<1> DEFINE r == [Idle EXCEPT !.pc = IF updates = {} THEN "open" ELSE "settle",
                             !.key = k, !.cfg = cfg, !.updates = updates]
<1>2. updates \subseteq Key /\ \A x \in updates : x.date + HoldingDays <= today
  <2>1. PendingKeys(log) \subseteq Key
    BY PendingKeysAre DEF TInv, LogOK
  <2> QED BY <2>1 DEF Matured
<1>3. /\ r \in RunState /\ r.pc \in {"open", "settle"} /\ r.key = k /\ r.cfg = cfg
      /\ r.updates = updates /\ r.read = <<>> /\ r.graph = None
  <2>1. Idle \in RunState /\ Idle.read = <<>> /\ Idle.graph = None
    BY IdleIsOK DEF Idle
  <2> QED BY <1>2, <2>1 DEF RunState, Pcs
<1>4. k.date <= today
  BY DEF Begin
<1> HIDE DEF r
<1>5. RunOK(r, today)
  <2>1. Known(r.read, today)
    BY <1>3, IdleIsOK DEF RunOK, Idle
  <2> QED BY <1>2, <1>3, <1>4, <2>1 DEF RunOK, InGraph
<1>6. UNCHANGED <<today, log, tmp, checkpoints, owed, raced>>
  BY DEF Begin
<1>7. RunsOK'
  BY <1>1, <1>3, <1>5, <1>6, RunStep DEF TInv, r
<1>8. ChecksOK'
  BY <1>6 DEF TInv, ChecksOK
<1>20. WindowOK'
  BY <1>1, <1>3, <1>6, SameWindow DEF TInv, Window, r
<1> QED BY <1>6, <1>7, <1>8, <1>20, SameLog, SameTmp DEF TInv

LEMMA ReadKeeps ==
    ASSUME TInv, NEW p \in Runner, ReadForUpdate(p)
    PROVE  TInv'
<1> DEFINE r == run[p]
           s == [r EXCEPT !.pc = "rewrite", !.read = log]
<1>1. /\ r.pc = "settle" /\ UNCHANGED <<today, log, tmp, checkpoints, owed, raced>>
      /\ run' = [run EXCEPT ![p] = s]
  BY DEF ReadForUpdate
<1>2. log \in Seq(LogEntry) /\ Known(log, today)
  BY DEF TInv, LogOK
<1>3. r \in RunState /\ RunOK(r, today)
  BY RunFields
<1> HIDE DEF r
<1>4. /\ s \in RunState /\ s.pc = "rewrite" /\ s.key = r.key /\ s.cfg = r.cfg
      /\ s.updates = r.updates /\ s.read = log /\ s.graph = r.graph
  BY <1>2, <1>3 DEF RunState, Pcs
<1> HIDE DEF s
<1>5. RunOK(s, today)
  BY <1>1, <1>2, <1>3, <1>4 DEF RunOK, InGraph
<1>6. RunsOK'
  BY <1>1, <1>4, <1>5, RunStep DEF TInv
<1>7. ChecksOK'
  BY <1>1 DEF TInv, ChecksOK
<1>20. WindowOK'
  BY <1>1, <1>4, SameWindow DEF TInv, Window
<1> QED BY <1>1, <1>6, <1>7, <1>20, SameLog, SameTmp DEF TInv

LEMMA OpenKeeps ==
    ASSUME TInv, NEW p \in Runner, Open(p)
    PROVE  TInv'
<1> DEFINE r == run[p]
           pc == IF checkpoints[ThreadOf(p)] = None THEN "start" ELSE "resume"
           s == [r EXCEPT !.pc = pc]
<1>1. /\ r.pc = "open" /\ UNCHANGED <<today, log, tmp, checkpoints, owed, raced>>
      /\ run' = [run EXCEPT ![p] = s]
  BY DEF Open
<1>2. pc \in {"start", "resume"}
  OBVIOUS
<1>3. r \in RunState /\ RunOK(r, today)
  BY RunFields
<1> HIDE DEF r, pc
<1>4. /\ s \in RunState /\ s.pc = pc /\ s.key = r.key /\ s.cfg = r.cfg
      /\ s.updates = r.updates /\ s.read = r.read /\ s.graph = r.graph
  BY <1>2, <1>3 DEF RunState, Pcs
<1> HIDE DEF s
<1>5. RunOK(s, today)
  BY <1>1, <1>2, <1>3, <1>4 DEF RunOK, InGraph
<1>6. RunsOK'
  BY <1>1, <1>4, <1>5, RunStep DEF TInv
<1>7. ChecksOK'
  BY <1>1 DEF TInv, ChecksOK
<1>20. WindowOK'
  BY <1>1, <1>2, <1>4, SameWindow DEF TInv, Window
<1> QED BY <1>1, <1>6, <1>7, <1>20, SameLog, SameTmp DEF TInv

LEMMA EnterKeeps ==
    ASSUME TInv, NEW p \in Runner, EnterGraph(p)
    PROVE  TInv'
<1> DEFINE r == run[p]
           t == ThreadOf(p)
           g == Input(p)
           s == [r EXCEPT !.pc = "graph", !.graph = g]
<1>1. /\ r.pc \in {"start", "resume"}
      /\ r.pc = "resume" => checkpoints[t] # None
      /\ UNCHANGED <<today, log, tmp, owed, raced>>
      /\ run' = [run EXCEPT ![p] = s] /\ checkpoints' = [checkpoints EXCEPT ![t] = g]
  BY DEF EnterGraph
<1>2. /\ r \in RunState /\ RunOK(r, today) /\ t \in Thread /\ t[1] = r.key /\ t[2] = r.cfg
  BY <1>1, RunFields
<1>3. r.key \in Key /\ r.cfg \in Config /\ r.key.date <= today
  BY <1>1, <1>2 DEF RunOK
<1>4. g \in GraphState /\ GraphOK(r.key, r.cfg, g)
  <2>1. CASE r.pc = "start"
    <3> DEFINE lessons == Lessons(r.key.date)
    <3>1. g = StartGraph(r.cfg, lessons)
      BY <2>1 DEF Input
    <3>2. lessons \in SUBSET LogEntry /\ \A e \in lessons : e.resolved <= r.key.date
      <4>1. \A e \in Range(log) : e \in LogEntry /\ (~IsPending(e) => e.resolved <= today)
        <5>1. \A i \in DOMAIN log : log[i] \in LogEntry
          BY DEF TInv, LogOK
        <5> QED BY <5>1 DEF TInv, LogOK, Known, Range
      <4>2. r.key.date < today \/ r.key.date = today
        <5>1. r.key.date \in Nat /\ today \in Nat
          BY <1>3 DEF Key, Day, TInv, LogOK
        <5> QED BY <1>3, <5>1
      <4> QED BY <4>1, <4>2 DEF Lessons
    <3> HIDE DEF lessons
    <3>3. OnAgenda(r.cfg, g) /\ g.lessons = lessons
      BY <1>3, <3>1, <3>2, StartIsOnTheAgenda
    <3> QED BY <3>2, <3>3 DEF GraphOK, OnAgenda
  <2>2. CASE r.pc = "resume"
    <3>1. g = checkpoints[t] /\ checkpoints[t] # None
      BY <1>1, <2>2 DEF Input
    <3>2. CheckOK(t, checkpoints[t])
      BY <1>2 DEF TInv, ChecksOK
    <3> QED BY <1>2, <3>1, <3>2 DEF CheckOK, GraphOK, OnAgenda
  <2> QED BY <1>1, <2>1, <2>2
<1> HIDE DEF r, t, g
<1>5. /\ s \in RunState /\ s.pc = "graph" /\ s.key = r.key /\ s.cfg = r.cfg
      /\ s.updates = r.updates /\ s.read = r.read /\ s.graph = g
  BY <1>2, <1>4 DEF RunState, Pcs
<1> HIDE DEF s
<1>6. RunOK(s, today)
  BY <1>1, <1>2, <1>3, <1>4, <1>5 DEF RunOK, InGraph
<1>7. RunsOK'
  BY <1>1, <1>5, <1>6, RunStep DEF TInv
<1>8. ChecksOK'
  <2>1. CheckOK(t, g)
    BY <1>2, <1>4 DEF CheckOK
  <2> QED BY <1>1, <1>2, <1>4, <2>1, CheckStep DEF TInv
<1>20. WindowOK'
  BY <1>1, <1>5, SameWindow DEF TInv, Window
<1> QED BY <1>1, <1>7, <1>8, <1>20, SameLog, SameTmp DEF TInv

LEMMA NodeKeeps ==
    ASSUME TInv, NEW p \in Runner, Node(p)
    PROVE  TInv'
<1> DEFINE r == run[p]
           t == ThreadOf(p)
<1>1. PICK g \in GraphSteps(r.cfg, r.graph) :
        /\ run' = [run EXCEPT ![p].graph = g, ![p].steps = @ + 1]
        /\ checkpoints' = [checkpoints EXCEPT ![t] = g]
  BY DEF Node
<1> DEFINE s == [r EXCEPT !.graph = g, !.steps = r.steps + 1]
<1>2. /\ r.pc = "graph" /\ ~Finished(r.graph) /\ UNCHANGED <<today, log, tmp, owed, raced>>
  BY DEF Node
<1>3. /\ r \in RunState /\ RunOK(r, today) /\ t \in Thread /\ t[1] = r.key /\ t[2] = r.cfg
      /\ r.steps \in Nat
  BY <1>2, RunFields
<1>4. run' = [run EXCEPT ![p] = s]
  BY <1>1 DEF TInv, RunsOK
<1>5. r.key \in Key /\ r.cfg \in Config /\ GraphOK(r.key, r.cfg, r.graph)
  BY <1>2, <1>3 DEF RunOK, InGraph
<1>6. g \in GraphState /\ GraphOK(r.key, r.cfg, g)
  <2>1. OnAgenda(r.cfg, g) /\ g.lessons = r.graph.lessons
    BY <1>2, <1>5, StepsKeepTheAgenda DEF GraphOK
  <2> QED BY <1>5, <2>1 DEF GraphOK, OnAgenda
<1> HIDE DEF r, t
<1>7. /\ s \in RunState /\ s.pc = r.pc /\ s.key = r.key /\ s.cfg = r.cfg
      /\ s.updates = r.updates /\ s.read = r.read /\ s.graph = g
  <2>1. r.steps + 1 \in Nat
    BY <1>3
  <2> QED BY <1>3, <1>6, <2>1 DEF RunState
<1> HIDE DEF s
<1>8. RunOK(s, today)
  BY <1>2, <1>3, <1>5, <1>6, <1>7 DEF RunOK, InGraph
<1>9. RunsOK'
  BY <1>2, <1>4, <1>7, <1>8, RunStep DEF TInv
<1>10. ChecksOK'
  <2>1. CheckOK(t, g)
    BY <1>3, <1>6 DEF CheckOK
  <2> QED BY <1>1, <1>3, <1>6, <2>1, CheckStep DEF TInv
<1>20. WindowOK'
  BY <1>2, <1>4, <1>7, SameWindow DEF TInv, Window
<1> QED BY <1>2, <1>9, <1>10, <1>20, SameLog, SameTmp DEF TInv

LEMMA ScanKeeps ==
    ASSUME TInv, NEW p \in Runner, ScanLog(p)
    PROVE  TInv'
<1> DEFINE r == run[p]
           pc == IF r.key \in PendingKeys(log) THEN "clear" ELSE "append"
           s == [r EXCEPT !.read = log, !.pc = pc]
<1>1. /\ r.pc = "graph" /\ UNCHANGED <<today, log, tmp, checkpoints, owed, raced>>
      /\ run' = [run EXCEPT ![p] = s]
  BY DEF ScanLog
<1>2. log \in Seq(LogEntry) /\ Known(log, today)
  BY DEF TInv, LogOK
<1>3. pc \in {"clear", "append"} /\ (pc = "append" => r.key \notin PendingKeys(log))
  OBVIOUS
<1>4. r \in RunState /\ RunOK(r, today)
  BY RunFields
<1> HIDE DEF r, pc
<1>5. /\ s \in RunState /\ s.pc = pc /\ s.key = r.key /\ s.cfg = r.cfg
      /\ s.updates = r.updates /\ s.read = log /\ s.graph = r.graph
  BY <1>2, <1>3, <1>4 DEF RunState, Pcs
<1> HIDE DEF s
<1>6. RunOK(s, today)
  BY <1>1, <1>2, <1>3, <1>4, <1>5 DEF RunOK, InGraph
<1>7. RunsOK'
  BY <1>1, <1>5, <1>6, RunStep DEF TInv
<1>8. ChecksOK'
  BY <1>1 DEF TInv, ChecksOK
<1>20. WindowOK'
  BY <1>1, <1>3, <1>5, SameWindow DEF TInv, Window
<1> QED BY <1>1, <1>7, <1>8, <1>20, SameLog, SameTmp DEF TInv

LEMMA ClearKeeps ==
    ASSUME TInv, NEW p \in Runner, ClearCheckpoint(p)
    PROVE  TInv'
<1>1. ThreadOf(p) \in Thread
  BY RunFields DEF ClearCheckpoint
<1>2. ChecksOK'
  <2>1. CASE checkpoints' = checkpoints
    BY <2>1 DEF TInv, ChecksOK
  <2>2. CASE checkpoints' = [checkpoints EXCEPT ![ThreadOf(p)] = None]
    <3>1. CheckOK(ThreadOf(p), None)
      BY DEF CheckOK
    <3> QED BY <1>1, <2>2, <3>1, CheckStep DEF TInv
  <2> QED BY <2>1, <2>2 DEF ClearCheckpoint
<1> QED BY <1>2, EndsKeep DEF ClearCheckpoint

LEMMA EndingsKeep ==
    ASSUME TInv, NEW p \in Runner, ReplaceNothing(p) \/ ResumeNothing(p) \/ Die(p) \/ HitLimit(p)
    PROVE  TInv'
<1>1. /\ run' = [run EXCEPT ![p] = Idle]
      /\ UNCHANGED <<today, log, tmp, checkpoints, owed, raced>>
  BY DEF ReplaceNothing, ResumeNothing, Die, HitLimit
<1>2. ChecksOK'
  BY <1>1 DEF TInv, ChecksOK
<1> QED BY <1>1, <1>2, EndsKeep

\* Opening the temporary file, and writing what was read to it.
LEMMA OpenTmpKeeps ==
    ASSUME TInv, NEW p \in Runner, OpenTmp(p)
    PROVE  TInv'
<1> DEFINE r == run[p]
           s == [r EXCEPT !.pc = "write"]
<1>1. /\ r.pc = "rewrite" /\ UNCHANGED <<today, log, checkpoints, owed>>
      /\ tmp' = Holding(<<>>) /\ raced' = (raced \/ Rewriting # {})
      /\ run' = [run EXCEPT ![p] = s]
  BY DEF OpenTmp
<1>2. r \in RunState /\ RunOK(r, today)
  BY RunFields
<1> HIDE DEF r
<1>3. /\ s \in RunState /\ s.pc = "write" /\ s.key = r.key /\ s.cfg = r.cfg
      /\ s.updates = r.updates /\ s.read = r.read /\ s.graph = r.graph
  BY <1>2 DEF RunState, Pcs
<1> HIDE DEF s
<1>4. RunOK(s, today)
  BY <1>1, <1>2, <1>3 DEF RunOK, InGraph
<1>5. RunsOK'
  BY <1>1, <1>3, <1>4, RunStep DEF TInv
<1>6. ChecksOK' /\ LogOK'
  BY <1>1 DEF TInv, ChecksOK, LogOK, Known, IsPending
<1>7. TmpOK'
  <2>1. <<>> \in Seq(LogEntry) /\ Known(<<>>, today)
    BY IdleIsOK DEF RunOK, Idle
  <2> QED BY <1>1, <2>1 DEF TmpOK, Holding, Known, IsPending
<1>8. WindowOK'
  <2> SUFFICES ASSUME ~raced', NEW q \in Runner, run'[q].pc \in Window
               PROVE  q = p
    BY <1>1, <1>3 DEF WindowOK, Window, TInv, RunsOK
  <2> QED BY <1>1 DEF TInv, RunsOK, Rewriting, Window
<1>9. LogKeepsDecisions'
  BY <1>1 DEF TInv, LogKeepsDecisions, PendingKeys, IsPending
<1> QED BY <1>5, <1>6, <1>7, <1>8, <1>9 DEF TInv

LEMMA OverlayIsKnown ==
    ASSUME NEW a \in Seq(LogEntry), NEW b \in Seq(LogEntry), Known(a, today), Known(b, today)
    PROVE  Overlay(a, b) \in Seq(LogEntry) /\ Known(Overlay(a, b), today)
<1> DEFINE c == SubSeq(b, Len(a) + 1, Len(b))
           l == a \o c
<1>1. /\ Len(a) \in Nat /\ Len(b) \in Nat /\ DOMAIN a = 1 .. Len(a) /\ DOMAIN b = 1 .. Len(b)
  OBVIOUS
<1>2. /\ c \in Seq(LogEntry) /\ DOMAIN c = 1 .. Len(c) /\ Len(c) \in Nat
      /\ \A i \in 1 .. Len(c) : Len(a) + i \in 1 .. Len(b) /\ c[i] = b[Len(a) + i]
  <2>1. CASE Len(a) + 1 > Len(b)
    <3>1. c = <<>>
      BY <1>1, <2>1
    <3> QED BY <3>1
  <2>2. CASE Len(a) + 1 <= Len(b)
    <3>1. Len(c) = Len(b) - Len(a) /\ DOMAIN c = 1 .. Len(c)
      BY <1>1, <2>2
    <3>2. \A i \in 1 .. Len(b) - Len(a) : c[i] = b[(Len(a) + 1) + i - 1]
      BY <1>1, <2>2
    <3>3. \A i \in 1 .. Len(b) - Len(a) :
            (Len(a) + 1) + i - 1 = Len(a) + i /\ Len(a) + i \in 1 .. Len(b)
      BY <1>1
    <3>4. c \in Seq(LogEntry)
      BY <1>1, <2>2
    <3>5. Len(b) - Len(a) \in Nat
      BY <1>1, <2>2
    <3> HIDE DEF c
    <3> QED BY <3>1, <3>2, <3>3, <3>4, <3>5
  <2>3. Len(a) + 1 > Len(b) \/ Len(a) + 1 <= Len(b)
    BY <1>1
  <2> HIDE DEF c
  <2> QED BY <2>1, <2>2, <2>3
<1> HIDE DEF c
<1>3. /\ l \in Seq(LogEntry) /\ DOMAIN l = 1 .. Len(a) + Len(c)
      /\ \A i \in 1 .. Len(a) + Len(c) : l[i] = IF i <= Len(a) THEN a[i] ELSE c[i - Len(a)]
  BY <1>1, <1>2
<1>4. \A i \in 1 .. Len(a) + Len(c) :
        i \in 1 .. Len(a) \/ (i > Len(a) /\ i - Len(a) \in 1 .. Len(c))
  BY <1>1, <1>2
<1> HIDE DEF l
<1>5. Known(l, today)
  <2> SUFFICES ASSUME NEW i \in 1 .. Len(a) + Len(c), ~IsPending(l[i]) PROVE l[i].resolved <= today
    BY <1>3 DEF Known
  <2>1. CASE i \in 1 .. Len(a)
    <3>1. l[i] = a[i]
      BY <1>1, <1>3, <2>1
    <3> QED BY <1>1, <2>1, <3>1 DEF Known
  <2>2. CASE i > Len(a) /\ i - Len(a) \in 1 .. Len(c)
    <3>1. PICK k \in 1 .. Len(b) : l[i] = b[k]
      <4>1. ~(i <= Len(a))
        BY <1>1, <2>2
      <4> QED BY <1>2, <1>3, <2>2, <4>1
    <3> QED BY <1>1, <3>1 DEF Known
  <2> QED BY <1>4, <2>1, <2>2
<1> QED BY <1>3, <1>5 DEF l, c, Overlay

\* What the outcomes and the rotation make of a text that was read.
LEMMA RewrittenIs ==
    ASSUME TInv, NEW p \in Runner
    PROVE  /\ Rewritten(p) \in Seq(LogEntry) /\ Known(Rewritten(p), today)
           /\ OncePending(run[p].read) =>
                /\ OncePending(Rewritten(p))
                /\ PendingKeys(Rewritten(p)) = PendingKeys(run[p].read) \ run[p].updates
<1> DEFINE r == run[p]
           w == WithOutcomes(r.read, r.updates)
<1>1. /\ r \in RunState /\ RunOK(r, today) /\ r.read \in Seq(LogEntry)
      /\ r.updates \in SUBSET Key
  BY RunFields
<1>2. Rewritten(p) = Rotate(w)
  BY DEF Rewritten
<1> HIDE DEF r, w
<1>3. /\ Known(r.read, today) /\ \A k \in r.updates : k.date + HoldingDays <= today
  BY <1>1 DEF RunOK
<1>4. /\ w \in Seq(LogEntry) /\ Known(w, today)
      /\ OncePending(r.read) =>
           OncePending(w) /\ PendingKeys(w) = PendingKeys(r.read) \ r.updates
  <2>1. today \in Day
    BY DEF TInv, LogOK
  <2> QED BY <1>1, <1>3, <2>1, OutcomesSettle DEF w
<1>5. /\ Rotate(w) \in Seq(LogEntry) /\ Known(Rotate(w), today)
      /\ PendingKeys(Rotate(w)) = PendingKeys(w) /\ (OncePending(w) => OncePending(Rotate(w)))
  BY <1>4, RotateKeepsPending
<1> QED BY <1>2, <1>4, <1>5 DEF r

LEMMA WriteTmpKeeps ==
    ASSUME TInv, NEW p \in Runner, WriteTmp(p)
    PROVE  TInv'
<1> DEFINE r == run[p]
           s == [r EXCEPT !.pc = "replace"]
           text == Rewritten(p)
<1>1. /\ r.pc = "write" /\ UNCHANGED <<today, checkpoints, owed, raced>>
      /\ run' = [run EXCEPT ![p] = s]
      /\ \/ tmp.there /\ tmp' = Holding(Overlay(text, tmp.text)) /\ log' = log
         \/ ~tmp.there /\ log' = Overlay(text, log) /\ tmp' = tmp
  BY DEF WriteTmp
<1>2. r \in RunState /\ RunOK(r, today)
  BY RunFields
<1>3. text \in Seq(LogEntry) /\ Known(text, today)
  BY RewrittenIs
<1> HIDE DEF r, text
<1>4. /\ s \in RunState /\ s.pc = "replace" /\ s.key = r.key /\ s.cfg = r.cfg
      /\ s.updates = r.updates /\ s.read = r.read /\ s.graph = r.graph
  BY <1>2 DEF RunState, Pcs
<1> HIDE DEF s
<1>5. RunOK(s, today)
  BY <1>1, <1>2, <1>4 DEF RunOK, InGraph
<1>6. RunsOK'
  BY <1>1, <1>4, <1>5, RunStep DEF TInv
<1>7. ChecksOK'
  BY <1>1 DEF TInv, ChecksOK
<1>8. /\ log \in Seq(LogEntry) /\ Known(log, today)
      /\ tmp.text \in Seq(LogEntry) /\ Known(tmp.text, today)
  BY DEF TInv, LogOK, TmpOK
<1>9. LogOK'
  <2>1. log' \in Seq(LogEntry) /\ Known(log', today)
    BY <1>1, <1>3, <1>8, OverlayIsKnown
  <2> QED BY <1>1, <2>1 DEF TInv, LogOK
<1>10. TmpOK'
  <2>1. CASE tmp' = tmp
    BY <1>1, <2>1, SameTmp DEF TInv
  <2>2. CASE tmp' = Holding(Overlay(text, tmp.text))
    <3>1. Overlay(text, tmp.text) \in Seq(LogEntry) /\ Known(Overlay(text, tmp.text), today)
      BY <1>3, <1>8, OverlayIsKnown
    <3>2. tmp'.text = Overlay(text, tmp.text) /\ tmp' \in [there : BOOLEAN, text : Seq(LogEntry)]
      BY <2>2, <3>1 DEF Holding
    <3> QED BY <1>1, <3>1, <3>2 DEF TmpOK
  <2> QED BY <1>1, <2>1, <2>2
<1>11. ASSUME ~raced
       PROVE  /\ \A q \in Runner : run[q].pc \in Window => q = p
              /\ tmp' = Holding(text) /\ log' = log
  <2>1. /\ \A q \in Runner : run[q].pc \in Window => q = p
        /\ tmp = Holding(<<>>)
    BY <1>1, <1>11 DEF TInv, WindowOK, Window, r
  <2>2. tmp.there /\ tmp.text = <<>>
    BY <2>1 DEF Holding
  <2>3. Overlay(text, <<>>) = text
    BY <1>3 DEF Overlay
  <2> QED BY <1>1, <2>1, <2>2, <2>3
<1>12. WindowOK'
  <2> SUFFICES ASSUME ~raced PROVE WindowOK'
    BY <1>1 DEF WindowOK
  <2>1. Rewritten(p)' = text
    <3>1. run'[p] = s
      BY <1>1 DEF TInv, RunsOK
    <3> QED BY <1>4, <3>1 DEF Rewritten, text, r
  <2>2. \A q \in Runner : run'[q].pc \in Window => q = p
    BY <1>1, <1>11 DEF TInv, RunsOK
  <2>3. run'[p].pc = "replace"
    BY <1>1, <1>4 DEF TInv, RunsOK
  <2> QED BY <1>11, <2>1, <2>2, <2>3 DEF WindowOK
<1>13. LogKeepsDecisions'
  BY <1>1, <1>11 DEF TInv, LogKeepsDecisions, PendingKeys, IsPending
<1> QED BY <1>6, <1>7, <1>9, <1>10, <1>12, <1>13 DEF TInv

\* The rewrite: without a race the text in the temporary file is the log with the
\* outcomes, and the entries it settles are the ones owed.
LEMMA ReplaceKeeps ==
    ASSUME TInv, NEW p \in Runner, ReplaceLog(p)
    PROVE  TInv'
<1> DEFINE r == run[p]
           s == [r EXCEPT !.pc = "open", !.read = <<>>, !.updates = {}]
<1>1. /\ r.pc = "replace" /\ UNCHANGED <<today, checkpoints>>
      /\ log' = tmp.text /\ tmp' = NoFile /\ owed' = owed \ r.updates
      /\ raced' = (raced \/ log # r.read)
  BY DEF ReplaceLog
<1>2. run' = [run EXCEPT ![p] = s]
  BY DEF ReplaceLog, TInv, RunsOK
<1>3. r \in RunState /\ RunOK(r, today)
  BY RunFields
<1>4. ~raced => tmp.text = Rewritten(p)
  BY <1>1 DEF TInv, WindowOK, Window, Holding
<1>5. OncePending(r.read) =>
        /\ OncePending(Rewritten(p))
        /\ PendingKeys(Rewritten(p)) = PendingKeys(r.read) \ r.updates
  BY RewrittenIs
<1> HIDE DEF r, s
<1>6. /\ s \in RunState /\ s.pc = "open" /\ s.key = r.key /\ s.cfg = r.cfg
      /\ s.updates = {} /\ s.read = <<>> /\ s.graph = r.graph
  <2>1. <<>> \in Seq(LogEntry) /\ {} \in SUBSET Key
    OBVIOUS
  <2> QED BY <1>3, <2>1 DEF RunState, Pcs, s
<1>7. Known(<<>>, today)
  BY IdleIsOK DEF RunOK, Idle
<1>8. RunOK(s, today)
  BY <1>1, <1>3, <1>6, <1>7 DEF RunOK, InGraph
<1>9. RunsOK'
  BY <1>1, <1>2, <1>6, <1>8, RunStep DEF TInv
<1>10. ChecksOK'
  BY <1>1 DEF TInv, ChecksOK
<1>11. LogOK'
  BY <1>1 DEF TInv, LogOK, TmpOK
<1>12. TmpOK'
  <2>1. <<>> \in Seq(LogEntry)
    OBVIOUS
  <2> QED BY <1>1, <1>7, <2>1 DEF TmpOK, NoFile
<1>13. WindowOK'
  <2> SUFFICES ASSUME ~raced', NEW q \in Runner, run'[q].pc \in Window PROVE FALSE
    BY DEF WindowOK
  <2>1. q # p /\ run[q].pc \in Window
    BY <1>2, <1>6 DEF TInv, RunsOK, Window
  <2>2. ~raced /\ run[p].pc \in Window
    BY <1>1 DEF r, Window
  <2> QED BY <2>1, <2>2 DEF TInv, WindowOK
<1>14. ASSUME ~raced' PROVE owed' = PendingKeys(log') /\ OncePending(log')
  <2>1. ~raced /\ log = r.read /\ log' = Rewritten(p)
    BY <1>1, <1>4, <1>14
  <2>2. owed = PendingKeys(log) /\ OncePending(log)
    BY <2>1 DEF TInv, LogKeepsDecisions, OncePending
  <2> QED BY <1>1, <1>5, <2>1, <2>2
<1>15. LogKeepsDecisions'
  BY <1>14 DEF LogKeepsDecisions, OncePending, PendingKeys, IsPending
<1> QED BY <1>9, <1>10, <1>11, <1>12, <1>13, <1>15 DEF TInv

LEMMA AppendKeeps ==
    ASSUME TInv, NEW p \in Runner, AppendDecision(p)
    PROVE  TInv'
<1> DEFINE r == run[p]
           e == Entry(r.key, None)
           l == Append(log, e)
           s == [r EXCEPT !.pc = "clear"]
<1>1. /\ r.pc = "append" /\ UNCHANGED <<today, tmp, checkpoints>>
      /\ log' = l /\ owed' = owed \cup {r.key}
      /\ raced' = (raced \/ log # r.read) /\ run' = [run EXCEPT ![p] = s]
  BY DEF AppendDecision
<1>2. r \in RunState /\ RunOK(r, today)
  BY RunFields
<1>3. log \in Seq(LogEntry) /\ Known(log, today)
  BY DEF TInv, LogOK
<1> HIDE DEF r, s
<1>4. r.key \in Key /\ r.key \notin PendingKeys(r.read)
  BY <1>1, <1>2 DEF RunOK
<1>5. e \in LogEntry /\ IsPending(e) /\ KeyOf(e) = r.key
  BY <1>4 DEF Entry, LogEntry, IsPending, KeyOf, Key
<1> HIDE DEF e
<1>6. /\ l \in Seq(LogEntry) /\ Len(l) = Len(log) + 1 /\ DOMAIN l = 1 .. Len(log) + 1
      /\ \A i \in 1 .. Len(log) : l[i] = log[i]
      /\ l[Len(log) + 1] = e /\ Len(log) \in Nat /\ DOMAIN log = 1 .. Len(log)
  BY <1>3, <1>5
<1> HIDE DEF l
<1>7. \A i \in 1 .. Len(log) + 1 : i \in 1 .. Len(log) \/ i = Len(log) + 1
  BY <1>6
<1>8. Known(l, today)
  BY <1>3, <1>5, <1>6, <1>7 DEF Known
<1>9. PendingKeys(l) = PendingKeys(log) \cup {r.key}
  <2>1. \A i \in 1 .. Len(log) : i \in 1 .. Len(log) + 1
    BY <1>6
  <2>2. Len(log) + 1 \in 1 .. Len(log) + 1
    BY <1>6
  <2>3. ASSUME NEW k \in PendingKeys(l) PROVE k \in PendingKeys(log) \cup {r.key}
    <3>1. PICK i \in 1 .. Len(log) + 1 : IsPending(l[i]) /\ KeyOf(l[i]) = k
      BY <1>6, PendingKeysAre
    <3>2. CASE i \in 1 .. Len(log)
      BY <1>3, <1>6, <3>1, <3>2, PendingKeysAre
    <3>3. CASE i = Len(log) + 1
      BY <1>5, <1>6, <3>1, <3>3
    <3> QED BY <1>7, <3>2, <3>3
  <2>4. ASSUME NEW k \in PendingKeys(log) PROVE k \in PendingKeys(l)
    <3>1. PICK i \in 1 .. Len(log) : IsPending(log[i]) /\ KeyOf(log[i]) = k
      BY <1>3, PendingKeysAre
    <3> QED BY <1>6, <2>1, <3>1, PendingKeysAre
  <2>5. r.key \in PendingKeys(l)
    BY <1>5, <1>6, <2>2, PendingKeysAre
  <2> QED BY <2>3, <2>4, <2>5
<1>10. ASSUME OncePending(log), r.key \notin PendingKeys(log)
       PROVE  OncePending(l)
  <2>1. \A i \in 1 .. Len(log) : IsPending(log[i]) => log[i] # e
    BY <1>3, <1>5, <1>10, PendingKeysAre
  <2> QED BY <1>6, <1>7, <1>10, <2>1 DEF OncePending
<1>11. ASSUME ~raced' PROVE owed' = PendingKeys(log') /\ OncePending(log')
  <2>1. ~raced /\ log = r.read
    BY <1>1, <1>11
  <2>2. owed = PendingKeys(log) /\ OncePending(log)
    BY <2>1 DEF TInv, LogKeepsDecisions, OncePending
  <2> QED BY <1>1, <1>4, <1>9, <1>10, <2>1, <2>2
<1>12. LogKeepsDecisions'
  BY <1>11 DEF LogKeepsDecisions, OncePending, PendingKeys, IsPending
<1>13. LogOK'
  BY <1>1, <1>6, <1>8 DEF TInv, LogOK
<1>14. /\ s \in RunState /\ s.pc = "clear" /\ s.key = r.key /\ s.cfg = r.cfg
       /\ s.updates = r.updates /\ s.read = r.read /\ s.graph = r.graph
  BY <1>2 DEF RunState, Pcs, s
<1>15. RunOK(s, today)
  BY <1>1, <1>2, <1>14 DEF RunOK, InGraph
<1>16. RunsOK'
  BY <1>1, <1>14, <1>15, RunStep DEF TInv
<1>17. ChecksOK'
  BY <1>1 DEF TInv, ChecksOK
<1>18. WindowOK'
  BY <1>1, <1>14, SameWindow DEF TInv, Window
<1> QED BY <1>1, <1>12, <1>13, <1>16, <1>17, <1>18, SameTmp DEF TInv

LEMMA NextTInv == TInv /\ [RunsNext]_runVars => TInv'
<1> SUFFICES ASSUME TInv, [RunsNext]_runVars PROVE TInv'
  OBVIOUS
<1>1. CASE Tick
  BY <1>1, TickKeeps
<1>2. CASE \E p \in Runner, k \in Key, cfg \in Config : Begin(p, k, cfg)
  BY <1>2, BeginKeeps
<1>3. CASE \E p \in Runner : ReadForUpdate(p) \/ OpenTmp(p) \/ WriteTmp(p) \/ ReplaceLog(p)
  BY <1>3, ReadKeeps, OpenTmpKeeps, WriteTmpKeeps, ReplaceKeeps
<1>4. CASE \E p \in Runner : Open(p) \/ EnterGraph(p) \/ Node(p)
  BY <1>4, OpenKeeps, EnterKeeps, NodeKeeps
<1>5. CASE \E p \in Runner : ScanLog(p) \/ AppendDecision(p) \/ ClearCheckpoint(p)
  BY <1>5, ScanKeeps, AppendKeeps, ClearKeeps
<1>6. CASE \E p \in Runner : ReplaceNothing(p) \/ ResumeNothing(p) \/ Die(p) \/ HitLimit(p)
  BY <1>6, EndingsKeep
<1>7. CASE UNCHANGED runVars
  BY <1>7 DEF runVars, TInv, RunsOK, ChecksOK, LogOK, TmpOK, WindowOK, Rewritten, LogKeepsDecisions,
     PendingKeys, IsPending
<1> QED BY <1>1, <1>2, <1>3, <1>4, <1>5, <1>6, <1>7 DEF RunsNext

THEOREM RunsKeepTInv == RunsSpec => []TInv
BY InitTInv, NextTInv, PTL DEF RunsSpec

-----------------------------------------------------------------------------
LEMMA TInvImpliesAgenda == TInv => AgendaIsFollowed
<1> SUFFICES ASSUME TInv PROVE AgendaIsFollowed
  OBVIOUS
<1>1. ASSUME NEW cfg, NEW g, cfg \in Config, OnAgenda(cfg, g)
      PROVE  /\ IsPrefix(g.spoken, Agenda(cfg))
             /\ Finished(g) => g.spoken = Agenda(cfg)
  <2>1. /\ g.spoken \in Seq(Speaker) /\ Follows(cfg, g.spoken)
        /\ Agenda(cfg) \in Seq(Speaker) /\ Len(Agenda(cfg)) = RiskEnd(cfg) + 1
    <3>1. g \in GraphState /\ Follows(cfg, g.spoken)
      BY <1>1, Zenon DEF OnAgenda
    <3>2. g.spoken \in Seq(Speaker)
      BY <3>1 DEF GraphState
    <3>3. Agenda(cfg) \in Seq(Speaker) /\ Len(Agenda(cfg)) = RiskEnd(cfg) + 1
      BY <1>1, AgendaAt, Zenon
    <3> QED BY <3>1, <3>2, <3>3
  <2>2. IsPrefix(g.spoken, Agenda(cfg))
    <3> DEFINE m == Len(g.spoken)
               u == SubSeq(Agenda(cfg), 1, m)
    <3>1. m \in Nat /\ m <= Len(Agenda(cfg))
      BY <2>1 DEF Follows
    <3>2. u = g.spoken
      <4>1. u \in Seq(Speaker) /\ Len(u) = m /\ \A k \in 1 .. m : u[k] = Agenda(cfg)[k]
        BY <2>1, <3>1
      <4> HIDE DEF u
      <4> QED BY <2>1, <4>1, SeqEqual DEF Follows
    <3> QED BY <2>1, <3>1, <3>2 DEF IsPrefix
  <2>3. ASSUME Finished(g) PROVE g.spoken = Agenda(cfg)
    <3>1. AtEnd(cfg, g)
      BY <1>1, <2>3, EndIsLast
    <3>2. Len(g.spoken) = Len(Agenda(cfg))
      BY <2>1, <3>1 DEF AtEnd
    <3> QED BY <2>1, <3>2, SeqEqual DEF Follows
  <2> QED BY <2>2, <2>3
<1>2. ASSUME NEW p \in Runner, run[p].graph # None
      PROVE  /\ IsPrefix(run[p].graph.spoken, Agenda(run[p].cfg))
             /\ Finished(run[p].graph) => run[p].graph.spoken = Agenda(run[p].cfg)
  <2>1. RunOK(run[p], today)
    BY RunFields
  <2>2. run[p].cfg \in Config /\ OnAgenda(run[p].cfg, run[p].graph)
    BY <1>2, <2>1 DEF RunOK, InGraph, GraphOK
  <2> QED BY <1>1, <2>2
<1>3. ASSUME NEW t \in Thread, checkpoints[t] # None
      PROVE  IsPrefix(checkpoints[t].spoken, Agenda(t[2]))
  <2>1. t[2] \in Config
    BY DEF Thread
  <2>2. OnAgenda(t[2], checkpoints[t])
    BY <1>3 DEF TInv, ChecksOK, CheckOK, GraphOK
  <2> QED BY <1>1, <2>1, <2>2
<1> QED BY <1>2, <1>3 DEF AgendaIsFollowed

\* Whatever runs, dies and is resumed, each run speaks its own agenda in
\* order, and has spoken all of it when it ends (AgendaIsFollowed;
\* conditional_logic.py, trading_graph.py:460-468).
THEOREM RunsFollowTheAgenda == RunsSpec => []AgendaIsFollowed
BY RunsKeepTInv, TInvImpliesAgenda, PTL

\* No run holds a lesson whose outcome came after its trade date
\* (LessonsAreKnown; memory.py:70-90).
THEOREM RunsLearnFromThePast == RunsSpec => []LessonsAreKnown
<1>1. TInv => LessonsAreKnown
  <2> SUFFICES ASSUME TInv, NEW p \in Runner, run[p].graph # None,
                      NEW e \in run[p].graph.lessons
               PROVE  e.resolved <= run[p].key.date
    BY DEF LessonsAreKnown
  <2>1. RunOK(run[p], today)
    BY RunFields
  <2> QED BY <2>1 DEF RunOK, InGraph, GraphOK
<1> QED BY <1>1, RunsKeepTInv, PTL

\* Without a race on the log or on its temporary file no decision leaves the log
\* before it is settled, and none is logged twice, wherever processes die
\* (LogKeepsDecisions; memory.py:30-49, 177-283).
THEOREM RunsKeepDecisions == RunsSpec => []LogKeepsDecisions
<1>1. TInv => LogKeepsDecisions
  BY DEF TInv
<1> QED BY <1>1, RunsKeepTInv, PTL
=============================================================================
