---------------------------- MODULE PaperOrders ----------------------------
(***************************************************************************)
(* The Alpaca paper-order adapter (alpaca.py) behind its HTTP endpoints:   *)
(* previews held in memory, submission of an approved batch one POST at a  *)
(* time, and the broker at the other end of a network that loses requests  *)
(* and answers.                                                            *)
(***************************************************************************)
EXTENDS Naturals, Sequences

CONSTANTS PreviewId,    \* uuid4 identifiers a preview can draw
          Call,         \* the submit requests the API receives
          MaxBatch,     \* longest list of orders of one submit request
          TTL,          \* minutes a preview stays valid (five in the code)
          MaxClock,     \* bound on the clock
          MaxRestarts   \* bound on process restarts

ASSUME BoundsAssumption ==
    MaxBatch \in Nat /\ TTL \in Nat /\ MaxClock \in Nat /\ MaxRestarts \in Nat

VARIABLES
    previews,   \* keys of AlpacaPaperClient._previews
    minted,     \* every preview id drawn so far
    shown,      \* the ids that a preview response returned to the user
    expires,    \* expires_at of each preview
    clock,
    restarts,   \* process restarts so far
    phase,      \* where each submit call stands
    orders,     \* the list of orders a submit call carries
    at,         \* the index of the order it is posting
    reply,      \* the broker's answer to its outstanding POST, if it arrived
    wire,       \* POST /v2/orders requests on their way to the broker
    booked,     \* client_order_ids the broker has accepted
    placed,     \* how many orders the broker booked for each preview
    approved    \* previews that passed submit's checks with approved = True

desk   == <<previews, minted, shown, expires>>
calls  == <<phase, orders, at, reply>>
broker == <<wire, booked, placed>>
vars   == <<desk, clock, restarts, calls, broker, approved>>

Phase == {"new", "posting", "waiting", "done", "failed"}

\* An order as the client sends it back: intact when it equals the stored preview.
Order == [id : PreviewId, intact : BOOLEAN]
Batch == UNION {[1..n -> Order] : n \in 1..MaxBatch}

\* client_order_id = f"iq-{preview_id[:24]}": the first 24 characters of a uuid4
\* still tell previews apart, and do not depend on the call.
ClientOrderIdPerCall(c, p) == [iq |-> p, call |-> c]
ClientOrderId(c, p) == [iq |-> p]

Request == [call : Call, id : PreviewId, ref : {ClientOrderId(c, p) : c \in Call, p \in PreviewId}]

Current(c) == orders[c][at[c]].id
Ids(b) == {b[i].id : i \in DOMAIN b}

Init == /\ previews = {} /\ minted = {} /\ shown = {}
        /\ expires = [p \in PreviewId |-> 0]
        /\ clock = 0 /\ restarts = 0
        /\ phase = [c \in Call |-> "new"]
        /\ orders = [c \in Call |-> <<>>]
        /\ at = [c \in Call |-> 0]
        /\ reply = [c \in Call |-> "none"]
        /\ wire = {} /\ booked = {}
        /\ placed = [p \in PreviewId |-> 0]
        /\ approved = {}

-----------------------------------------------------------------------------
\* preview(): once the account, positions and prices are in, one preview per
\* target that is worth trading is stored, all with the same expiration.  A
\* target without a price raises after the earlier targets' previews were
\* stored: they stay in memory but are never shown.
Expiration == clock + TTL

CreatePreviews(S, returned) ==
    /\ S # {} /\ S \cap minted = {}
    /\ previews' = previews \cup S
    /\ minted' = minted \cup S
    /\ shown' = IF returned THEN shown \cup S ELSE shown
    /\ expires' = [p \in PreviewId |-> IF p \in S THEN Expiration ELSE expires[p]]
    /\ UNCHANGED <<clock, restarts, calls, broker, approved>>

\* The check submit() makes of each order before it posts any.
ValidNoExpiry(o) == o.id \in previews /\ o.intact
Valid(o) == o.id \in previews /\ o.intact /\ ~(expires[o.id] < clock)

\* submit() raises before the first POST: HTTP 422, nothing changed.
SubmitRefused(c, b, ok) ==
    /\ phase[c] = "new"
    /\ ~ok \/ \E i \in DOMAIN b : ~Valid(b[i])
    /\ phase' = [phase EXCEPT ![c] = "failed"]
    /\ UNCHANGED <<desk, clock, restarts, orders, at, reply, broker, approved>>

SubmitPopsFirst(c, b) ==
    /\ phase[c] = "new"
    /\ \A i \in DOMAIN b : Valid(b[i])
    /\ phase' = [phase EXCEPT ![c] = "posting"]
    /\ orders' = [orders EXCEPT ![c] = b]
    /\ at' = [at EXCEPT ![c] = 1]
    /\ approved' = approved \cup Ids(b)
    /\ previews' = previews \ Ids(b)
    /\ UNCHANGED <<minted, shown, expires, clock, restarts, reply, broker>>

SubmitAccepted(c, b) ==
    /\ phase[c] = "new"
    /\ \A i \in DOMAIN b : Valid(b[i])
    /\ phase' = [phase EXCEPT ![c] = "posting"]
    /\ orders' = [orders EXCEPT ![c] = b]
    /\ at' = [at EXCEPT ![c] = 1]
    /\ approved' = approved \cup Ids(b)
    /\ UNCHANGED <<desk, clock, restarts, reply, broker>>

\* One turn of the posting loop starts: the POST leaves for the broker.
PostOrder(c) ==
    /\ phase[c] = "posting"
    /\ phase' = [phase EXCEPT ![c] = "waiting"]
    /\ wire' = wire \cup {[call |-> c, id |-> Current(c), ref |-> ClientOrderId(c, Current(c))]}
    /\ reply' = [reply EXCEPT ![c] = "none"]
    /\ UNCHANGED <<desk, clock, restarts, orders, at, booked, placed, approved>>

\* A 2xx answer: the result is appended, the preview popped, the loop goes on.
PopIgnoringStatus(c) ==
    /\ phase[c] = "waiting" /\ reply[c] # "none"
    /\ previews' = previews \ {Current(c)}
    /\ at' = [at EXCEPT ![c] = @ + 1]
    /\ phase' = [phase EXCEPT ![c] = IF at[c] = Len(orders[c]) THEN "done" ELSE "posting"]
    /\ UNCHANGED <<minted, shown, expires, clock, restarts, orders, reply, broker, approved>>

OrderConfirmed(c) ==
    /\ phase[c] = "waiting" /\ reply[c] = "ok"
    /\ previews' = previews \ {Current(c)}
    /\ at' = [at EXCEPT ![c] = @ + 1]
    /\ phase' = [phase EXCEPT ![c] = IF at[c] = Len(orders[c]) THEN "done" ELSE "posting"]
    /\ UNCHANGED <<minted, shown, expires, clock, restarts, orders, reply, broker, approved>>

\* raise_for_status, or the client's eight-second timeout: the call ends with a
\* 422, the orders confirmed so far stay placed, the others stay previewed.
NeverFails(c) == FALSE /\ UNCHANGED vars
OrderFailed(c) ==
    /\ phase[c] = "waiting" /\ reply[c] \in {"error", "none"}
    /\ phase' = [phase EXCEPT ![c] = "failed"]
    /\ UNCHANGED <<desk, clock, restarts, orders, at, reply, broker, approved>>

-----------------------------------------------------------------------------
\* The broker (external).  It books an order unless its client_order_id was
\* used before; whatever it did, the answer can be an error or get lost.
BrokerBooks(m, answer) ==
    /\ m \in wire /\ m.ref \notin booked
    /\ wire' = wire \ {m}
    /\ booked' = booked \cup {m.ref}
    /\ placed' = [placed EXCEPT ![m.id] = @ + 1]
    /\ reply' = [reply EXCEPT ![m.call] = answer]
    /\ UNCHANGED <<desk, clock, restarts, phase, orders, at, approved>>

\* It refuses a reused client_order_id, or an order it cannot take.
BrokerRefuses(m) ==
    /\ m \in wire
    /\ wire' = wire \ {m}
    /\ reply' = [reply EXCEPT ![m.call] = "error"]
    /\ UNCHANGED <<desk, clock, restarts, phase, orders, at, booked, placed, approved>>

RequestLost(m) ==
    /\ m \in wire
    /\ wire' = wire \ {m}
    /\ UNCHANGED <<desk, clock, restarts, calls, booked, placed, approved>>

\* The API process stops and starts again: previews and open calls are gone,
\* what the broker was sent is not.
Restart ==
    /\ restarts < MaxRestarts
    /\ restarts' = restarts + 1
    /\ previews' = {}
    /\ phase' = [c \in Call |-> IF phase[c] \in {"posting", "waiting"} THEN "failed" ELSE phase[c]]
    /\ UNCHANGED <<minted, shown, expires, clock, orders, at, reply, broker, approved>>

Tick ==
    /\ clock < MaxClock
    /\ clock' = clock + 1
    /\ UNCHANGED <<desk, restarts, calls, broker, approved>>

\* The orders a client can send back: previews it was shown, edited or not.
Sendable == {b \in Batch : Ids(b) \subseteq shown}

Next ==
    \/ \E S \in SUBSET PreviewId, returned \in BOOLEAN : CreatePreviews(S, returned)
    \/ \E c \in Call, b \in Sendable, ok \in BOOLEAN : SubmitRefused(c, b, ok)
    \/ \E c \in Call, b \in Sendable : SubmitAccepted(c, b)
    \/ \E c \in Call : PostOrder(c) \/ OrderConfirmed(c) \/ OrderFailed(c)
    \/ \E m \in wire, answer \in {"ok", "error", "none"} : BrokerBooks(m, answer)
    \/ \E m \in wire : BrokerRefuses(m) \/ RequestLost(m)
    \/ Restart
    \/ Tick

\* The event loop keeps running a call it started, and a POST that stays
\* unanswered ends in a timeout.
Spec == Init /\ [][Next]_vars
FairSpec == Spec /\ \A c \in Call : WF_vars(PostOrder(c)) /\ WF_vars(OrderConfirmed(c) \/ OrderFailed(c))

-----------------------------------------------------------------------------
TypeOK ==
    /\ previews \subseteq minted /\ shown \subseteq minted /\ minted \subseteq PreviewId
    /\ expires \in [PreviewId -> Nat]
    /\ clock \in Nat /\ restarts \in Nat
    /\ phase \in [Call -> Phase]
    /\ orders \in [Call -> Seq(Order)]
    /\ at \in [Call -> Nat]
    /\ reply \in [Call -> {"none", "ok", "error"}]
    /\ wire \subseteq Request
    /\ placed \in [PreviewId -> Nat]
    /\ approved \subseteq PreviewId

\* However often an approved preview is submitted, by calls that overlap, that
\* time out after the broker took the order or that repeat after a restart, the
\* broker books at most one order for it (alpaca.py:116).
AtMostOnce == \A p \in PreviewId : placed[p] <= 1

\* The orders a call counts as confirmed (its results list) are orders the
\* broker booked, and no order is confirmed twice, within a batch or by two
\* calls racing over the same preview (alpaca.py:107-122).
Confirmed(c) == {i \in DOMAIN orders[c] : i < at[c]}
ReceiptsTruthful ==
    \A c \in Call : \A i \in Confirmed(c) :
        /\ placed[orders[c][i].id] = 1
        /\ \A d \in Call : \A j \in Confirmed(d) :
              orders[d][j].id = orders[c][i].id => d = c /\ j = i

\* While the process lives, a preview leaves memory only when its order is at
\* the broker: a batch that fails half-way leaves every order that was not
\* placed ready to be submitted again (alpaca.py:121).
PreviewKeptUntilPlaced ==
    [][restarts' = restarts => \A p \in previews \ previews' : placed[p] = 1]_vars

\* Every submit call returns: the POST it waits for is answered or times out.
CallReturns == \A c \in Call : phase[c] = "posting" ~> phase[c] \in {"done", "failed"}

\* The workflow implements OrderApproval: no order without the approval of the
\* unmodified preview before it expired, and no order twice.
StatusOf(p) ==
    IF placed[p] > 0 THEN "placed"
    ELSE IF p \in approved THEN "approved"
    ELSE IF p \in minted THEN "quoted" ELSE "absent"

Approval == INSTANCE OrderApproval WITH
                status <- [p \in PreviewId |-> StatusOf(p)], deadline <- expires
ImplementsOrderApproval == Approval!Spec
=============================================================================
