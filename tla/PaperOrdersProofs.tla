------------------------- MODULE PaperOrdersProofs -------------------------
(***************************************************************************)
(* Proofs about PaperOrders for any number of previews, submit calls,      *)
(* ticks and restarts: the types, at-most-once placement, truthful         *)
(* receipts, no preview lost, and the implementation of OrderApproval.     *)
(***************************************************************************)
EXTENDS PaperOrders, TLAPS

\* Every submit call that is under way points at an order of its list, and the
\* orders it carries were approved.
CallsInv ==
    \A c \in Call :
        /\ phase[c] \in {"posting", "waiting"} =>
              /\ at[c] \in DOMAIN orders[c]
              /\ \A i \in DOMAIN orders[c] : orders[c][i].id \in approved
        /\ phase[c] = "new" => orders[c] = <<>>

\* A POST on the wire carries an approved order, under its preview's reference;
\* while its call waits for it, it is the call's only one and unanswered.
WireInv ==
    \A m \in wire :
        /\ m.id \in approved
        /\ m.ref = [iq |-> m.id]
        /\ phase[m.call] \in {"waiting", "failed"}
        /\ phase[m.call] = "waiting" => m.id = Current(m.call) /\ reply[m.call] = "none"

\* The broker booked exactly the references of the orders it placed.
BookInv ==
    \A p \in PreviewId :
        \/ placed[p] = 0 /\ [iq |-> p] \notin booked
        \/ placed[p] = 1 /\ [iq |-> p] \in booked

\* A receipt of call c for its order i: confirmed, or answered and not yet read.
Receipt(c, i) ==
    /\ i \in DOMAIN orders[c]
    /\ \/ i < at[c]
       \/ i = at[c] /\ phase[c] = "waiting" /\ reply[c] = "ok"

ReceiptInv ==
    \A c \in Call : \A i \in Nat : Receipt(c, i) =>
        /\ placed[orders[c][i].id] = 1
        /\ \A d \in Call : \A j \in Nat :
              Receipt(d, j) /\ orders[d][j].id = orders[c][i].id => d = c /\ j = i

\* Approval comes after the preview and before the order.
ApprovedInv ==
    /\ approved \subseteq minted
    /\ \A p \in PreviewId : placed[p] > 0 => p \in approved

IInv == TypeOK /\ CallsInv /\ WireInv /\ BookInv /\ ReceiptInv /\ ApprovedInv

-----------------------------------------------------------------------------
LEMMA BatchIsSeq ==
    ASSUME NEW b \in Batch
    PROVE  /\ b \in Seq(Order)
           /\ Len(b) \in Nat /\ DOMAIN b = 1..Len(b)
           /\ Len(b) >= 1
<1>1. PICK n \in 1..MaxBatch : b \in [1..n -> Order]
  BY DEF Batch
<1>2. n \in Nat /\ n >= 1
  BY BoundsAssumption
<1>3. b \in Seq(Order) /\ Len(b) = n
  BY <1>1, <1>2
<1> QED
  BY <1>1, <1>2, <1>3

\* Two requests of one call for the same order are the same request.
LEMMA RequestUnique ==
    ASSUME NEW m \in Request, NEW n \in Request, m.call = n.call, m.id = n.id, m.ref = n.ref
    PROVE  m = n
BY DEF Request

\* The orders of a call name previews.
LEMMA OrderIdType ==
    ASSUME TypeOK, NEW c \in Call, NEW i \in DOMAIN orders[c]
    PROVE  orders[c][i].id \in PreviewId
<1>1. orders[c] \in Seq(Order)
  BY DEF TypeOK
<1>2. orders[c][i] \in Order
  BY <1>1
<1> QED
  BY <1>2 DEF Order

\* Initially all parts of the invariant hold.
LEMMA InitIInv == Init => IInv
<1> SUFFICES ASSUME Init PROVE IInv
  OBVIOUS
<1>1. TypeOK
  BY DEF Init, TypeOK, Phase
<1>2. CallsInv /\ WireInv /\ BookInv /\ ApprovedInv
  BY DEF Init, CallsInv, WireInv, BookInv, ApprovedInv
<1>3. ReceiptInv
  BY DEF Init, ReceiptInv, Receipt
<1> QED
  BY <1>1, <1>2, <1>3 DEF IInv

-----------------------------------------------------------------------------
\* Type correctness is preserved by every step of the adapter and of the broker.
LEMMA NextTypeOK == TypeOK /\ CallsInv /\ [Next]_vars => TypeOK'
<1> SUFFICES ASSUME TypeOK, CallsInv, [Next]_vars PROVE TypeOK'
  OBVIOUS
<1> USE DEF TypeOK, Phase
<1>1. ASSUME NEW S \in SUBSET PreviewId, NEW returned \in BOOLEAN, CreatePreviews(S, returned)
      PROVE  TypeOK'
  <2>1. TTL \in Nat
    BY BoundsAssumption
  <2> QED
    BY <1>1, <2>1 DEF CreatePreviews, Expiration, calls, broker
<1>2. ASSUME NEW c \in Call, NEW b \in Sendable, NEW ok \in BOOLEAN, SubmitRefused(c, b, ok)
      PROVE  TypeOK'
  BY <1>2 DEF SubmitRefused, desk, broker
<1>3. ASSUME NEW c \in Call, NEW b \in Sendable, SubmitAccepted(c, b)
      PROVE  TypeOK'
  <2>1. b \in Seq(Order)
    BY BatchIsSeq DEF Sendable
  <2>2. Ids(b) \subseteq PreviewId
    BY <1>3 DEF Sendable, Ids
  <2> QED
    BY <1>3, <2>1, <2>2 DEF SubmitAccepted, desk, broker
<1>4. ASSUME NEW c \in Call, PostOrder(c)
      PROVE  TypeOK'
  <2>1. Current(c) \in PreviewId
    BY <1>4 DEF PostOrder, CallsInv, Current, Order
  <2>2. [call |-> c, id |-> Current(c), ref |-> ClientOrderId(c, Current(c))] \in Request
    BY <2>1 DEF Request
  <2> QED
    BY <1>4, <2>2 DEF PostOrder, desk
<1>5. ASSUME NEW c \in Call, OrderConfirmed(c)
      PROVE  TypeOK'
  BY <1>5 DEF OrderConfirmed, broker
<1>6. ASSUME NEW c \in Call, OrderFailed(c)
      PROVE  TypeOK'
  BY <1>6 DEF OrderFailed, desk, broker
<1>7. ASSUME NEW m \in wire, NEW answer \in {"ok", "error", "none"}, BrokerBooks(m, answer)
      PROVE  TypeOK'
  BY <1>7 DEF BrokerBooks, desk, Request
<1>8. ASSUME NEW m \in wire, BrokerRefuses(m) \/ RequestLost(m)
      PROVE  TypeOK'
  BY <1>8 DEF BrokerRefuses, RequestLost, desk, calls, Request
<1>9. CASE Restart
  BY <1>9 DEF Restart, broker
<1>10. CASE Tick
  BY <1>10 DEF Tick, desk, calls, broker
<1>11. CASE UNCHANGED vars
  BY <1>11 DEF vars, desk, calls, broker
<1> QED
  BY <1>1, <1>2, <1>3, <1>4, <1>5, <1>6, <1>7, <1>8, <1>9, <1>10, <1>11 DEF Next

-----------------------------------------------------------------------------
\* The parts of the invariant other than the types.
StepInv == CallsInv /\ WireInv /\ BookInv /\ ReceiptInv /\ ApprovedInv

LEMMA CreatePreviewsInv ==
    ASSUME IInv, NEW S \in SUBSET PreviewId, NEW returned \in BOOLEAN, CreatePreviews(S, returned)
    PROVE  StepInv'
<1> USE DEF IInv, CreatePreviews, calls, broker
<1>1. CallsInv' /\ WireInv' /\ BookInv' /\ ApprovedInv'
  BY DEF CallsInv, WireInv, BookInv, ApprovedInv, Current
<1>2. ReceiptInv'
  BY DEF ReceiptInv, Receipt
<1> QED
  BY <1>1, <1>2 DEF StepInv

LEMMA SubmitRefusedInv ==
    ASSUME IInv, NEW c \in Call, NEW b \in Sendable, NEW ok \in BOOLEAN, SubmitRefused(c, b, ok)
    PROVE  StepInv'
<1> USE DEF IInv, SubmitRefused, desk, broker
<1>1. CallsInv' /\ WireInv' /\ BookInv' /\ ApprovedInv'
  BY DEF CallsInv, WireInv, BookInv, ApprovedInv, Current, TypeOK, Request
<1>2. \A d \in Call, i \in Nat : Receipt(d, i)' => Receipt(d, i)
  BY DEF Receipt, TypeOK
<1>3. ReceiptInv'
  BY <1>2 DEF ReceiptInv
<1> QED
  BY <1>1, <1>3 DEF StepInv

LEMMA SubmitAcceptedInv ==
    ASSUME IInv, NEW c \in Call, NEW b \in Sendable, SubmitAccepted(c, b)
    PROVE  StepInv'
<1> USE DEF IInv, SubmitAccepted, desk, broker
<1>1. b \in Seq(Order) /\ Len(b) \in Nat /\ DOMAIN b = 1..Len(b) /\ Len(b) >= 1
  BY BatchIsSeq DEF Sendable
<1>2. Ids(b) \subseteq previews /\ \A i \in DOMAIN b : b[i].id \in Ids(b)
  BY DEF Ids, Valid
<1>3. CallsInv'
  BY <1>1, <1>2 DEF CallsInv, TypeOK
<1>4. WireInv' /\ BookInv' /\ ApprovedInv'
  BY <1>2 DEF WireInv, BookInv, ApprovedInv, Current, TypeOK, Request
\* Call c restarts its index at 1, so it has no receipt yet.
<1>5. \A d \in Call, i \in Nat : Receipt(d, i)' => Receipt(d, i) /\ orders'[d] = orders[d]
  BY <1>1 DEF Receipt, TypeOK
<1>6. ReceiptInv'
  BY <1>5 DEF ReceiptInv
<1> QED
  BY <1>3, <1>4, <1>6 DEF StepInv

LEMMA PostOrderInv ==
    ASSUME IInv, NEW c \in Call, PostOrder(c)
    PROVE  StepInv'
<1> USE DEF IInv, PostOrder, desk
<1>1. CallsInv' /\ BookInv' /\ ApprovedInv'
  BY DEF CallsInv, BookInv, ApprovedInv, TypeOK
<1>2. Current(c) \in approved /\ Current(c)' = Current(c)
  BY DEF CallsInv, Current
<1>3. \A m \in wire : m.call # c
  BY DEF WireInv
<1>4. WireInv'
  <2> SUFFICES ASSUME NEW m \in wire'
               PROVE  /\ m.id \in approved /\ m.ref = [iq |-> m.id]
                      /\ phase'[m.call] \in {"waiting", "failed"}
                      /\ phase'[m.call] = "waiting" => m.id = Current(m.call)' /\ reply'[m.call] = "none"
    BY DEF WireInv
  <2>1. CASE m \in wire
    <3>1. m.call # c /\ m.call \in Call
      BY <1>3, <2>1 DEF TypeOK, Request
    <3>2. phase'[m.call] = phase[m.call] /\ reply'[m.call] = reply[m.call] /\ Current(m.call)' = Current(m.call)
      BY <3>1 DEF TypeOK, Current
    <3> QED
      BY <2>1, <3>2 DEF WireInv
  <2>2. CASE m = [call |-> c, id |-> Current(c), ref |-> ClientOrderId(c, Current(c))]
    BY <1>2, <2>2 DEF TypeOK, ClientOrderId
  <2> QED
    BY <2>1, <2>2
<1>5. \A d \in Call, i \in Nat : Receipt(d, i)' => Receipt(d, i)
  BY DEF Receipt, TypeOK
<1>6. ReceiptInv'
  BY <1>5 DEF ReceiptInv
<1> QED
  BY <1>1, <1>4, <1>6 DEF StepInv

LEMMA OrderConfirmedInv ==
    ASSUME IInv, NEW c \in Call, OrderConfirmed(c)
    PROVE  StepInv'
<1> USE DEF IInv, OrderConfirmed, broker
<1>1. at[c] \in Nat /\ at[c] \in DOMAIN orders[c] /\ DOMAIN orders[c] = 1..Len(orders[c])
  BY DEF CallsInv, TypeOK
<1>2. CallsInv' /\ BookInv' /\ ApprovedInv'
  BY <1>1 DEF CallsInv, BookInv, ApprovedInv, TypeOK
<1>3. \A m \in wire : m.call # c
  BY DEF WireInv
<1>4. WireInv'
  <2>1. \A m \in wire : m.call \in Call /\ phase'[m.call] = phase[m.call] /\ Current(m.call)' = Current(m.call)
    BY <1>3 DEF TypeOK, Request, Current
  <2> QED
    BY <2>1 DEF WireInv
\* The receipt that was read becomes a confirmed order; there is no new one.
<1>5. \A d \in Call, i \in Nat : Receipt(d, i)' => Receipt(d, i)
  BY <1>1 DEF Receipt, TypeOK
<1>6. ReceiptInv'
  BY <1>5 DEF ReceiptInv
<1> QED
  BY <1>2, <1>4, <1>6 DEF StepInv

LEMMA OrderFailedInv ==
    ASSUME IInv, NEW c \in Call, OrderFailed(c)
    PROVE  StepInv'
<1> USE DEF IInv, OrderFailed, desk, broker
<1>1. CallsInv' /\ WireInv' /\ BookInv' /\ ApprovedInv'
  BY DEF CallsInv, WireInv, BookInv, ApprovedInv, Current, TypeOK, Request
<1>2. \A d \in Call, i \in Nat : Receipt(d, i)' => Receipt(d, i)
  BY DEF Receipt, TypeOK
<1>3. ReceiptInv'
  BY <1>2 DEF ReceiptInv
<1> QED
  BY <1>1, <1>3 DEF StepInv

LEMMA BrokerBooksInv ==
    ASSUME IInv, NEW m \in wire, NEW answer \in {"ok", "error", "none"}, BrokerBooks(m, answer)
    PROVE  StepInv'
<1> USE DEF IInv, BrokerBooks, desk
<1>1. m.call \in Call /\ m.id \in PreviewId /\ m.ref = [iq |-> m.id] /\ m.id \in approved
  BY DEF TypeOK, Request, WireInv
<1>2. placed[m.id] = 0
  BY <1>1 DEF BookInv
<1>3. CallsInv' /\ ApprovedInv'
  BY <1>1 DEF CallsInv, ApprovedInv, TypeOK
<1>4. BookInv'
  <2>1. placed'[m.id] = 1 /\ [iq |-> m.id] \in booked'
    BY <1>1, <1>2 DEF TypeOK
  <2>2. ASSUME NEW p \in PreviewId, p # m.id
        PROVE  placed'[p] = placed[p] /\ ([iq |-> p] \in booked' <=> [iq |-> p] \in booked)
    <3>1. [iq |-> p] # [iq |-> m.id]
      BY <2>2
    <3> QED
      BY <1>1, <2>2, <3>1 DEF TypeOK
  <2> QED
    BY <2>1, <2>2, Zenon DEF BookInv, IInv
<1>5. WireInv'
  <2>1. ASSUME NEW n \in wire', phase[n.call] = "waiting"
        PROVE  n.call # m.call
    \* two requests of one waiting call would be the same request
    <3>1. n \in wire /\ n # m /\ n \in Request /\ m \in Request
      BY DEF TypeOK
    <3>2. n.call = m.call => n.id = m.id /\ n.ref = m.ref
      <4>1. n.ref = [iq |-> n.id] /\ m.ref = [iq |-> m.id] /\ n.id = Current(n.call)
            /\ (n.call = m.call => m.id = Current(m.call))
        BY <2>1, <3>1, Zenon DEF WireInv, IInv
      <4> QED
        BY <4>1, Zenon
    <3> QED
      BY <3>1, <3>2, RequestUnique
  <2> QED
    <3>1. wire' \subseteq wire /\ \A n \in wire' : n.call \in Call /\ Current(n.call)' = Current(n.call)
      BY DEF TypeOK, Request, Current
    <3>2. \A n \in wire' : n.call # m.call => reply'[n.call] = reply[n.call]
      BY <3>1 DEF TypeOK
    <3> QED
      BY <2>1, <3>1, <3>2 DEF WireInv
<1>6. ReceiptInv'
  \* no receipt names m.id before this step, and at most call m.call's does after
  <2>1. \A d \in Call, i \in Nat : Receipt(d, i) => orders[d][i].id # m.id
    BY <1>2 DEF ReceiptInv
  <2>2. ASSUME NEW d \in Call, NEW i \in Nat, Receipt(d, i)', ~Receipt(d, i)
        PROVE  d = m.call /\ i = at[d] /\ orders[d][i].id = m.id
    BY <1>1, <2>2 DEF Receipt, WireInv, Current, TypeOK
  <2>3. ASSUME NEW d \in Call, NEW i \in Nat, Receipt(d, i)'
        PROVE  orders[d][i].id \in PreviewId
    BY <2>3, OrderIdType DEF Receipt
  <2>4. placed'[m.id] = 1 /\ \A p \in PreviewId \ {m.id} : placed'[p] = placed[p]
    BY <1>1, <1>2 DEF TypeOK
  <2> QED
    BY <2>1, <2>2, <2>3, <2>4 DEF ReceiptInv
<1> QED
  BY <1>3, <1>4, <1>5, <1>6 DEF StepInv

LEMMA BrokerOtherInv ==
    ASSUME IInv, NEW m \in wire, BrokerRefuses(m) \/ RequestLost(m)
    PROVE  StepInv'
<1> USE DEF IInv, BrokerRefuses, RequestLost, desk, calls
<1>1. m.call \in Call
  BY DEF TypeOK, Request
<1>2. CallsInv' /\ BookInv' /\ ApprovedInv'
  BY DEF CallsInv, BookInv, ApprovedInv, TypeOK
<1>3. ASSUME NEW n \in wire', phase[n.call] = "waiting"
      PROVE  n.call # m.call
  <2>1. n \in wire /\ n # m /\ n \in Request /\ m \in Request
    BY DEF TypeOK
  <2>2. n.call = m.call => n.id = m.id /\ n.ref = m.ref
    <3>1. n.ref = [iq |-> n.id] /\ m.ref = [iq |-> m.id] /\ n.id = Current(n.call)
          /\ (n.call = m.call => m.id = Current(m.call))
      BY <1>3, <2>1, Zenon DEF WireInv, IInv
    <3> QED
      BY <3>1, Zenon
  <2> QED
    BY <2>1, <2>2, RequestUnique
<1>4. WireInv'
  <2>1. wire' \subseteq wire /\ \A n \in wire' : n.call \in Call /\ Current(n.call)' = Current(n.call)
    <3>1. wire' \subseteq wire /\ orders' = orders /\ at' = at
      OBVIOUS
    <3> QED
      BY <3>1 DEF TypeOK, Request, Current
  <2>2. \A n \in wire' : n.call # m.call => reply'[n.call] = reply[n.call]
    BY <2>1 DEF TypeOK
  <2> QED
    BY <1>3, <2>1, <2>2 DEF WireInv
<1>5. \A d \in Call, i \in Nat : Receipt(d, i)' => Receipt(d, i)
  BY <1>1 DEF Receipt, TypeOK
<1>6. ReceiptInv'
  BY <1>5 DEF ReceiptInv
<1> QED
  BY <1>2, <1>4, <1>6 DEF StepInv

LEMMA RestartInv == ASSUME IInv, Restart PROVE StepInv'
<1> USE DEF IInv, Restart, broker
<1>1. CallsInv' /\ WireInv' /\ BookInv' /\ ApprovedInv'
  BY DEF CallsInv, WireInv, BookInv, ApprovedInv, Current, TypeOK, Request
<1>2. \A d \in Call, i \in Nat : Receipt(d, i)' => Receipt(d, i)
  BY DEF Receipt, TypeOK
<1>3. ReceiptInv'
  BY <1>2 DEF ReceiptInv
<1> QED
  BY <1>1, <1>3 DEF StepInv

\* A step that leaves the calls, the broker and the approvals alone keeps them consistent.
LEMMA IdleInv ==
    ASSUME IInv, UNCHANGED <<desk, calls, broker, approved>>
    PROVE  StepInv'
BY DEF IInv, StepInv, CallsInv, WireInv, BookInv, ReceiptInv, Receipt, ApprovedInv, Current,
       desk, calls, broker

LEMMA NextIInv == IInv /\ [Next]_vars => IInv'
<1> SUFFICES ASSUME IInv, [Next]_vars PROVE IInv'
  OBVIOUS
<1>1. TypeOK'
  BY NextTypeOK DEF IInv
<1>2. StepInv'
  <2>1. CASE Tick
    BY <2>1, IdleInv DEF Tick
  <2>2. CASE UNCHANGED vars
    BY <2>2, IdleInv DEF vars
  <2> QED
    BY <2>1, <2>2, CreatePreviewsInv, SubmitRefusedInv, SubmitAcceptedInv, PostOrderInv,
       OrderConfirmedInv, OrderFailedInv, BrokerBooksInv, BrokerOtherInv, RestartInv DEF Next
<1> QED
  BY <1>1, <1>2 DEF IInv, StepInv

\* The inductive invariant holds throughout every behaviour.
LEMMA SpecIInv == Spec => []IInv
BY InitIInv, NextIInv, PTL DEF Spec

-----------------------------------------------------------------------------
\* Every variable of the adapter and of the broker keeps its type.
THEOREM TypeCorrect == Spec => []TypeOK
<1>1. IInv => TypeOK
  BY DEF IInv
<1> QED
  BY <1>1, SpecIInv, PTL

\* However calls overlap, time out, repeat and restart, the broker books at
\* most one order for an approved preview.
THEOREM PlacedAtMostOnce == Spec => []AtMostOnce
<1>1. ASSUME IInv, NEW p \in PreviewId
      PROVE  placed[p] <= 1
  <2>1. placed[p] = 0 \/ placed[p] = 1
    BY <1>1, Zenon DEF IInv, BookInv
  <2> QED
    BY <2>1
<1>2. IInv => AtMostOnce
  BY <1>1 DEF AtMostOnce
<1> QED
  BY <1>2, SpecIInv, PTL

\* What a submit call reports as confirmed was booked, and is reported once.
THEOREM ReceiptsAreTruthful == Spec => []ReceiptsTruthful
<1>1. IInv => ReceiptsTruthful
  <2> SUFFICES ASSUME IInv, NEW c \in Call, NEW i \in Confirmed(c)
               PROVE  /\ placed[orders[c][i].id] = 1
                      /\ \A d \in Call : \A j \in Confirmed(d) :
                            orders[d][j].id = orders[c][i].id => d = c /\ j = i
    BY DEF ReceiptsTruthful
  <2>1. \A d \in Call : \A j \in Confirmed(d) : j \in Nat /\ Receipt(d, j)
    BY DEF IInv, TypeOK, Confirmed, Receipt
  <2> QED
    BY <2>1 DEF IInv, ReceiptInv
<1> QED
  BY <1>1, SpecIInv, PTL

\* No preview leaves the memory of a live process before its order is booked.
THEOREM PreviewsKept == Spec => PreviewKeptUntilPlaced
<1>1. ASSUME IInv, [Next]_vars, restarts' = restarts
      PROVE  \A p \in previews \ previews' : placed[p] = 1
  <2>1. ASSUME NEW c \in Call, OrderConfirmed(c)
        PROVE  placed[Current(c)] = 1
    <3>1. Receipt(c, at[c]) /\ at[c] \in Nat
      BY <1>1, <2>1 DEF OrderConfirmed, Receipt, IInv, CallsInv, TypeOK
    <3> QED
      BY <1>1, <3>1 DEF IInv, ReceiptInv, Current
  <2>2. CASE \E c \in Call : OrderConfirmed(c)
    BY <2>1, <2>2 DEF OrderConfirmed
  <2>3. CASE Restart
    BY <1>1, <2>3 DEF Restart, IInv, TypeOK
  <2>4. CASE ~Restart /\ ~\E c \in Call : OrderConfirmed(c)
    <3>1. previews \subseteq previews'
      BY <1>1, <2>4 DEF Next, vars, desk, CreatePreviews, SubmitRefused, SubmitAccepted, PostOrder,
         OrderFailed, BrokerBooks, BrokerRefuses, RequestLost, Tick
    <3> QED
      BY <3>1
  <2> QED
    BY <2>2, <2>3, <2>4
<1>2. IInv /\ [Next]_vars => [restarts' = restarts => \A p \in previews \ previews' : placed[p] = 1]_vars
  BY <1>1
<1> QED
  BY <1>2, SpecIInv, PTL DEF Spec, PreviewKeptUntilPlaced

-----------------------------------------------------------------------------
\* The refinement: every step of the adapter and of the broker is a step of
\* OrderApproval, or leaves the standing of every preview as it was.
LEMMA SameStanding ==
    ASSUME UNCHANGED <<minted, approved, placed, expires, clock>>
    PROVE  UNCHANGED Approval!avars
BY DEF Approval!avars, StatusOf

LEMMA QuoteStep ==
    ASSUME IInv, NEW S \in SUBSET PreviewId, NEW returned \in BOOLEAN, CreatePreviews(S, returned)
    PROVE  Approval!Quote(S)
<1> USE DEF CreatePreviews, broker
<1>1. placed' = placed /\ approved' = approved /\ clock' = clock
  OBVIOUS
<1>2. \A p \in S : p \notin minted /\ p \notin approved /\ ~(placed[p] > 0)
  BY DEF IInv, ApprovedInv
<1>3. \A p \in S : StatusOf(p) = "absent" /\ StatusOf(p)' = "quoted"
  BY <1>1, <1>2 DEF StatusOf
<1>4. \A p \in PreviewId \ S : StatusOf(p)' = StatusOf(p)
  BY <1>1 DEF StatusOf
<1> QED
  BY <1>1, <1>3, <1>4 DEF Approval!Quote, Expiration

LEMMA ApproveStep ==
    ASSUME IInv, NEW c \in Call, NEW b \in Sendable, SubmitAccepted(c, b)
    PROVE  Approval!Approve(Ids(b))
<1> USE DEF SubmitAccepted, desk, broker
<1>1. placed' = placed /\ minted' = minted /\ expires' = expires /\ clock' = clock
  OBVIOUS
<1>2. \A p \in Ids(b) : p \in PreviewId /\ p \in minted /\ ~(expires[p] < clock)
  BY DEF Ids, Valid, IInv, TypeOK
<1>3. \A p \in Ids(b) : clock <= expires[p]
  BY <1>2 DEF IInv, TypeOK
<1>4. \A p \in Ids(b) : StatusOf(p) # "absent"
  BY <1>2 DEF StatusOf
<1>5. \A p \in PreviewId :
        StatusOf(p)' = IF p \in Ids(b) /\ StatusOf(p) = "quoted" THEN "approved" ELSE StatusOf(p)
  BY <1>1, <1>2 DEF StatusOf
<1> QED
  BY <1>1, <1>2, <1>3, <1>4, <1>5 DEF Approval!Approve

LEMMA PlaceStep ==
    ASSUME IInv, NEW m \in wire, NEW answer \in {"ok", "error", "none"}, BrokerBooks(m, answer)
    PROVE  m.id \in PreviewId /\ Approval!Place(m.id)
<1> USE DEF BrokerBooks, desk
<1>1. m.id \in PreviewId /\ m.id \in approved
  BY Zenon DEF IInv, TypeOK, WireInv
<1>2. placed[m.id] = 0
  <2>1. m.ref = [iq |-> m.id] /\ m.ref \notin booked
    BY Zenon DEF IInv, WireInv
  <2>2. placed[m.id] = 0 \/ [iq |-> m.id] \in booked
    BY <1>1, Zenon DEF IInv, BookInv
  <2> QED
    BY <2>1, <2>2, Zenon
<1>3. placed'[m.id] = 1 /\ \A p \in PreviewId \ {m.id} : placed'[p] = placed[p]
  BY <1>1, <1>2 DEF IInv, TypeOK
<1>4. StatusOf(m.id) = "approved" /\ StatusOf(m.id)' = "placed"
  BY <1>1, <1>2, <1>3 DEF StatusOf
<1>5. \A p \in PreviewId \ {m.id} : StatusOf(p)' = StatusOf(p)
  BY <1>3 DEF StatusOf
<1> QED
  BY <1>1, <1>4, <1>5 DEF Approval!Place

LEMMA StepRefines == IInv /\ [Next]_vars => [Approval!Next]_Approval!avars
<1> SUFFICES ASSUME IInv, [Next]_vars PROVE Approval!Next \/ UNCHANGED Approval!avars
  OBVIOUS
<1>1. ASSUME NEW S \in SUBSET PreviewId, NEW returned \in BOOLEAN, CreatePreviews(S, returned)
      PROVE  Approval!Next
  BY <1>1, QuoteStep DEF Approval!Next
<1>2. ASSUME NEW c \in Call, NEW b \in Sendable, SubmitAccepted(c, b)
      PROVE  Approval!Next
  <2>1. Ids(b) \in SUBSET PreviewId
    BY <1>2 DEF Ids, Valid, SubmitAccepted, IInv, TypeOK
  <2> QED
    BY <1>2, <2>1, ApproveStep DEF Approval!Next
<1>3. ASSUME NEW m \in wire, NEW answer \in {"ok", "error", "none"}, BrokerBooks(m, answer)
      PROVE  Approval!Next
  BY <1>3, PlaceStep DEF Approval!Next
<1>4. CASE Tick
  <2>1. Approval!Tick
    BY <1>4, Zenon DEF Tick, Approval!Tick, desk, calls, broker, StatusOf
  <2> QED
    BY <2>1 DEF Approval!Next
<1>5. ASSUME \/ UNCHANGED vars \/ Restart
             \/ \E c \in Call, b \in Sendable, ok \in BOOLEAN : SubmitRefused(c, b, ok)
             \/ \E c \in Call : PostOrder(c) \/ OrderConfirmed(c) \/ OrderFailed(c)
             \/ \E m \in wire : BrokerRefuses(m) \/ RequestLost(m)
      PROVE  UNCHANGED Approval!avars
  <2>1. UNCHANGED <<minted, approved, placed, expires, clock>>
    BY <1>5 DEF vars, desk, calls, broker, Restart, SubmitRefused, PostOrder, OrderConfirmed,
       OrderFailed, BrokerRefuses, RequestLost
  <2> QED
    BY <2>1, SameStanding
<1> QED
  BY <1>1, <1>2, <1>3, <1>4, <1>5 DEF Next

LEMMA InitRefines == Init => Approval!Init
BY DEF Init, Approval!Init, StatusOf

\* The paper-order workflow implements the approval contract: an order reaches
\* the broker's book only after the unmodified preview was approved within its
\* deadline, and never twice.
THEOREM ImplementsContract == Spec => ImplementsOrderApproval
BY SpecIInv, InitRefines, StepRefines, PTL DEF Spec, ImplementsOrderApproval, Approval!Spec
=============================================================================
