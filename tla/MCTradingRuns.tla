--------------------------- MODULE MCTradingRuns ---------------------------
EXTENDS TradingRuns, TLC

CONSTANTS a, b, p, q

Quick == [analysts |-> <<"social">>, debate |-> 1, risk |-> 1]
Wide == [analysts |-> <<"news", "social">>, debate |-> 1, risk |-> 1]
Configs == {Quick, Wide}

Waiting(t, d) == [ticker |-> t, date |-> d, resolved |-> None]
Settled(t, d) == [ticker |-> t, date |-> d, resolved |-> d + 1]
Logs == {<<>>, <<Waiting(a, 1)>>, <<Settled(b, 1), Waiting(a, 1), Settled(b, 1)>>}
Alike == Permutations({p, q})
=============================================================================
