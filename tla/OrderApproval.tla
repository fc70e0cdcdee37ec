--------------------------- MODULE OrderApproval ---------------------------
(***************************************************************************)
(* What the paper-order workflow promises its user, independently of HTTP, *)
(* retries and restarts: a quoted order can be approved until its          *)
(* deadline, and only an approved order is ever placed, at most once.      *)
(***************************************************************************)
EXTENDS Naturals

CONSTANTS PreviewId,  \* identifiers of order previews
          TTL         \* life of a preview, in ticks of the clock

VARIABLES status,     \* where each preview stands with the user and the broker
          deadline,   \* the last tick at which a preview may be approved
          clock

avars == <<status, deadline, clock>>

Init == /\ status = [p \in PreviewId |-> "absent"]
        /\ deadline = [p \in PreviewId |-> 0]
        /\ clock = 0

\* A batch of new order previews is drawn up; all share one deadline.
Quote(S) ==
    /\ \A p \in S : status[p] = "absent"
    /\ status' = [p \in PreviewId |-> IF p \in S THEN "quoted" ELSE status[p]]
    /\ deadline' = [p \in PreviewId |-> IF p \in S THEN clock + TTL ELSE deadline[p]]
    /\ UNCHANGED clock

\* The user approves previews that are still within their deadline.  Approving
\* one that is approved or placed already changes nothing.
Approve(S) ==
    /\ \A p \in S : status[p] # "absent" /\ clock <= deadline[p]
    /\ status' = [p \in PreviewId |->
                    IF p \in S /\ status[p] = "quoted" THEN "approved" ELSE status[p]]
    /\ UNCHANGED <<deadline, clock>>

\* The broker books an approved order.
Place(p) ==
    /\ status[p] = "approved"
    /\ status' = [status EXCEPT ![p] = "placed"]
    /\ UNCHANGED <<deadline, clock>>

Tick == clock' = clock + 1 /\ UNCHANGED <<status, deadline>>

Next == \/ \E S \in SUBSET PreviewId : Quote(S) \/ Approve(S)
        \/ \E p \in PreviewId : Place(p)
        \/ Tick

Spec == Init /\ [][Next]_avars
=============================================================================
