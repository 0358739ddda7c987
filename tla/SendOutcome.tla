---------------------------- MODULE SendOutcome ----------------------------
(* What a send receipt promises, without callers, databases or callbacks.   *)
(* A request is opened once, at most one copy of its text is ever with the  *)
(* buyer, and a receipt that has settled on "confirmed" or "rejected" does  *)
(* not change again.                                                        *)
EXTENDS Naturals

CONSTANT Requests

VARIABLES
    receipt,    \* the receipt of every request, as a reader of it sees it
    copies      \* how many copies of its text Qianniu has accepted and kept

vars == <<receipt, copies>>

Init ==
    /\ receipt = [r \in Requests |-> "none"]
    /\ copies = [r \in Requests |-> 0]

Open(r) ==
    /\ receipt[r] = "none"
    /\ receipt' = [receipt EXCEPT ![r] = "open"]
    /\ UNCHANGED copies

\* A copy leaves only while none is out, and only for an opened request.
Deliver(r) ==
    /\ receipt[r] # "none"
    /\ copies[r] = 0
    /\ copies' = [copies EXCEPT ![r] = 1]
    /\ UNCHANGED receipt

\* Qianniu proves that the accepted copy was not sent.
Recall(r) ==
    /\ copies[r] = 1
    /\ copies' = [copies EXCEPT ![r] = 0]
    /\ UNCHANGED receipt

Reject(r) ==
    /\ receipt[r] = "open"
    /\ receipt' = [receipt EXCEPT ![r] = "rejected"]
    /\ UNCHANGED copies

\* One time-out sweep may give up on several requests at once.
GiveUp(S) ==
    /\ S # {}
    /\ \A r \in S : receipt[r] = "open"
    /\ receipt' = [r \in Requests |-> IF r \in S THEN "unknown" ELSE receipt[r]]
    /\ UNCHANGED copies

Confirm(r) ==
    /\ receipt[r] \in {"open", "unknown"}
    /\ receipt' = [receipt EXCEPT ![r] = "confirmed"]
    /\ UNCHANGED copies

Next ==
    \/ \E r \in Requests :
          Open(r) \/ Deliver(r) \/ Recall(r) \/ Reject(r) \/ Confirm(r)
    \/ \E S \in SUBSET Requests : GiveUp(S)

Spec == Init /\ [][Next]_vars
=============================================================================
