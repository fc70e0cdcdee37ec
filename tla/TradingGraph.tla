---------------------------- MODULE TradingGraph ----------------------------
(***************************************************************************)
(* The agent graph of tradingagents: which node follows which              *)
(* (graph/setup.py, graph/conditional_logic.py) and what each node leaves  *)
(* in the state (agents/).  What an agent writes is left out; a graph      *)
(* state keeps who has spoken, the last of them, the two debate counters   *)
(* and the lessons injected at the start.                                  *)
(*                                                                         *)
(* A run's configuration is a record [analysts, debate, risk]: the analyst *)
(* keys in the order chosen and the two round limits.                      *)
(***************************************************************************)
EXTENDS Naturals, Sequences, SequencesExt

Debaters == <<"Bull Researcher", "Bear Researcher">>
RiskTeam == <<"Aggressive Analyst", "Conservative Analyst", "Neutral Analyst">>

AnalystKey == {"market", "social", "news", "fundamentals"}

\* Analysts that ask for tools; the sentiment analyst never does.
ToolUsers == {"market", "news", "fundamentals"}

\* create_initial_state, at the edge from START.
StartGraph(cfg, lessons) ==
    [node |-> <<"analyst", cfg.analysts[1]>>, spoken |-> <<>>, debates |-> 0,
     risks |-> 0, last |-> "", lessons |-> lessons]

Finished(g) == g.node = <<"agent", "END">>

-----------------------------------------------------------------------------
(* The routes, each on the state its node leaves.                          *)

\* The edge from an analyst's clear node.
AfterClear(cfg, a) ==
    LET i == CHOOSE j \in DOMAIN cfg.analysts : cfg.analysts[j] = a
    IN  IF i < Len(cfg.analysts) THEN <<"analyst", cfg.analysts[i + 1]>>
        ELSE <<"agent", "Bull Researcher">>

\* should_continue_debate: twice the rounds, then alternate.
DebateRoute(cfg, g) ==
    IF g.debates >= 2 * cfg.debate THEN "Research Manager"
    ELSE IF g.last = "Bull Researcher" THEN "Bear Researcher" ELSE "Bull Researcher"

\* should_continue_risk_analysis: three times the rounds, then in turn.
RiskRoute(cfg, g) ==
    IF g.risks >= 3 * cfg.risk THEN "Portfolio Manager"
    ELSE CASE g.last = "Aggressive Analyst" -> "Conservative Analyst"
           [] g.last = "Conservative Analyst" -> "Neutral Analyst"
           [] OTHER -> "Aggressive Analyst"

Speak(g, name) == [g EXCEPT !.spoken = Append(@, name), !.last = name]
Goto(g, name) == [g EXCEPT !.node = <<"agent", name>>]

\* An analyst either asks for tools, which bring it back, or writes its
\* report and goes to its clear node.
Report(g, a) == [Speak(g, a) EXCEPT !.node = <<"clear", a>>]
AskTools(g, a) == [g EXCEPT !.node = <<"tools", a>>]
AnalystSteps(g, a) ==
    {Report(g, a)} \cup (IF a \in ToolUsers THEN {AskTools(g, a)} ELSE {})

DebateStep(cfg, g, name) ==
    LET h == [Speak(g, name) EXCEPT !.debates = @ + 1]
    IN  Goto(h, DebateRoute(cfg, h))

RiskStep(cfg, g, name) ==
    LET h == [Speak(g, name) EXCEPT !.risks = @ + 1]
    IN  Goto(h, RiskRoute(cfg, h))

AgentStep(cfg, g, name) ==
    CASE name \in Range(Debaters) -> DebateStep(cfg, g, name)
      [] name \in Range(RiskTeam) -> RiskStep(cfg, g, name)
      [] name = "Research Manager" -> Goto(Speak(g, name), "Trader")
      [] name = "Trader" -> Goto(Speak(g, name), "Aggressive Analyst")
      [] name = "Portfolio Manager" -> Goto(Speak(g, name), "END")

\* The states the next node may leave.
GraphSteps(cfg, g) ==
    LET kind == g.node[1]
        name == g.node[2]
    IN  CASE kind = "analyst" -> AnalystSteps(g, name)
          [] kind = "tools" -> {[g EXCEPT !.node = <<"analyst", name>>]}
          [] kind = "clear" -> {[g EXCEPT !.node = AfterClear(cfg, name)]}
          [] kind = "agent" -> {AgentStep(cfg, g, name)}

-----------------------------------------------------------------------------
(* What a configuration promises, independently of the routes: each analyst*)
(* once, the debate in strict alternation, the risk team in turn.          *)

Turns(team, n) == [i \in 1 .. n |-> team[((i - 1) % Len(team)) + 1]]

Agenda(cfg) ==
    cfg.analysts \o Turns(Debaters, 2 * cfg.debate) \o <<"Research Manager", "Trader">>
      \o Turns(RiskTeam, 3 * cfg.risk) \o <<"Portfolio Manager">>
=============================================================================
