----------------------------- MODULE MCDataSync -----------------------------
\* Three workbooks, the first of which may be called what it is not, and an index in
\* which one company leaves (d) and its ticker is used again by another (Z), one joins
\* (f), one gets a second share class that becomes its canonical one (a, e) and one
\* changes its ticker (b, c).  The instruments name b but not its canonical ticker c.
EXTENDS MarketData, TLC
CONSTANTS book, licensed, closes, a, b, c, d, e, f, X, Y, Z
Asked == {<<book, "instruments">>, <<book, "estimates">>, <<licensed, "index_membership">>, <<closes, "prices">>}
Fitting == Asked \ {<<book, "estimates">>}
Naming == [p \in Fitting |-> IF p[1] # book THEN {} ELSE
    {[ticker |-> b, company |-> X, at |-> 0], [ticker |-> d, company |-> Y, at |-> 0],
     [ticker |-> d, company |-> Z, at |-> 2]}]
Membership == [p \in Fitting |-> IF p[1] # licensed THEN {} ELSE
    {[company |-> X, ticker |-> b, from |-> 0, to |-> Forever, source |-> Licensed]}]
Closing == [p \in Fitting |-> IF p[1] # closes THEN {} ELSE
    {[company |-> X, ticker |-> b, symbol |-> b, day |-> 1, source |-> "capital_iq"]}]
Group == [t \in Ticker |-> IF t = a THEN e ELSE IF t = b THEN c ELSE t]
Alphabet == (a :> 1) @@ (b :> 2) @@ (c :> 3) @@ (d :> 4) @@ (e :> 5) @@ (f :> 6)
IdOrder == [k \in Entity \cup {Public(t) : t \in Ticker} |->
    IF k = X THEN 1 ELSE IF k = Y THEN 2 ELSE IF k = Z THEN 3 ELSE 3 + Alphabet[k[2]]]
None == [removed |-> {}, added |-> {}]
Log == [x \in 0 .. Horizon |-> IF x = 1 THEN [removed |-> {d}, added |-> {e, f}] ELSE None]
Official == [x \in 0 .. Horizon |-> IF x = 2 THEN [removed |-> {b}, added |-> {c}] ELSE None]
Feed == (<<a, 0>> :> 1) @@ (<<b, 1>> :> 1) @@ (<<b, 2>> :> 6) @@ (<<c, 1>> :> 1) @@ (<<c, 2>> :> 6)
        @@ (<<d, 0>> :> 1) @@ (<<d, 2>> :> 9) @@ (<<e, 0>> :> 1) @@ (<<e, 1>> :> 7)
ImportersAlike == Permutations(Importer) \cup Permutations(Syncer)
=============================================================================
