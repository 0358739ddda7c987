---------------------------- MODULE SendReceipts ----------------------------
(* The outbound text path: StandaloneBridge.send_text, the AppBiz adapter   *)
(* it calls, and the receipts table "sends" of StateDB with its four other  *)
(* writers (expiry sweep, seller echo, MessageSDK callback, restart).       *)
(*                                                                          *)
(* Every StateDB method is one transaction under one lock, so it is one     *)
(* step; the native call, the wait for its callback and the write of the    *)
(* receipt are separate steps and anything may happen between them.         *)
(* Wall-clock time appears only as the order of the claims (created_at) and *)
(* as a free choice of the age limit that a sweep or an echo applies.       *)
EXTENDS Naturals

CONSTANTS
    Requests,     \* request ids, derived from command ids
    Central,      \* the requests of the centrally guarded (Tmall) accounts
    Callers,      \* threads that run send_text: sender workers, WS, poller
    Payloads,     \* (buyer_cid, content) pairs
    Manual,       \* messages an operator types into Qianniu by hand
    MaxAttempts,  \* native attempts of a Central request: 3 in the code
    MaxCrashes,   \* bound: process crashes in a behaviour
    NoRow,        \* no row of "sends" for this request
    NoRequest,    \* what an idle caller works on
    NoEvent,      \* confirmation_event_id = ''
    NotSaid       \* the message has not appeared in a conversation

ASSUME CentralAssumption == Central \subseteq Requests
ASSUME AttemptsAssumption == MaxAttempts \in Nat \ {0}
ASSUME CrashAssumption == MaxCrashes \in Nat
Statuses == {"in_flight", "submitted", "confirmed", "unknown", "rejected"}

\* The messages that can come back as a seller's event.  A request's own
\* message carries the request as its event id.
Messages == Requests \cup Manual

Row == [status : Statuses, payload : Payloads, created : Nat,
        event : Messages \cup {NoEvent}]

Final == {"confirmed", "rejected"}

ASSUME DistinctAssumption ==
    /\ Requests \cap Manual = {}
    /\ NoEvent \notin Messages
    /\ NoRequest \notin Requests
    /\ NoRow \notin Row
    /\ NotSaid \notin [payload : Payloads, at : Nat]

VARIABLES
    sends,    \* the table: request -> row or NoRow
    claims,   \* how many rows were ever inserted; orders created_at
    pc,       \* where each caller stands in send_text
    req,      \* the request a caller works on
    tries,    \* native attempts that ended in a proven rejection
    called,   \* the caller saw callback_received with result_code 0
    told,     \* the final receipts some call of send_text has returned
    copies,   \* texts Qianniu accepted for a request and did not reject
    doubt,    \* requests whose accepted text Qianniu has not decided yet
    said,     \* messages that appeared in a conversation, with payload and time
    crashes

db      == <<sends, claims>>
callers == <<pc, req, tries, called, told>>
native  == <<copies, doubt, said>>
vars    == <<sends, claims, pc, req, tries, called, told,
             copies, doubt, said, crashes>>

TypeOK ==
    /\ sends \in [Requests -> Row \cup {NoRow}]
    /\ claims \in Nat
    /\ pc \in [Callers -> {"idle", "native", "wait", "submit", "confirm",
                           "reject", "fault"}]
    /\ req \in [Callers -> Requests \cup {NoRequest}]
    /\ tries \in [Callers -> Nat]
    /\ called \in [Callers -> BOOLEAN]
    /\ told \in SUBSET (Requests \X Final)
    /\ copies \in [Requests -> Nat]
    /\ doubt \in SUBSET Requests
    /\ said \in [Messages -> [payload : Payloads, at : Nat] \cup {NotSaid}]
    /\ crashes \in Nat

Init ==
    /\ sends = [r \in Requests |-> NoRow]
    /\ claims = 0
    /\ pc = [c \in Callers |-> "idle"]
    /\ req = [c \in Callers |-> NoRequest]
    /\ tries = [c \in Callers |-> 0]
    /\ called = [c \in Callers |-> FALSE]
    /\ told = {}
    /\ copies = [r \in Requests |-> 0]
    /\ doubt = {}
    /\ said = [m \in Messages |-> NotSaid]
    /\ crashes = 0

-----------------------------------------------------------------------------
(* Helpers over the table. *)

Has(r) == sends[r] # NoRow
StatusIn(r, S) == Has(r) /\ sends[r].status \in S

\* UPDATE sends SET status=to WHERE request_id=r AND status IN from
Move(r, from, to) ==
    sends' = IF StatusIn(r, from) THEN [sends EXCEPT ![r].status = to] ELSE sends

\* The caller is answered with the receipt of r as the row now holds it.
Tell(r) ==
    told' = told \cup {<<r, s>> : s \in Final \cap {sends'[r].status}}

\* send_text returns or raises.
Return(c) ==
    /\ pc' = [pc EXCEPT ![c] = "idle"]
    /\ req' = [req EXCEPT ![c] = NoRequest]
    /\ tries' = [tries EXCEPT ![c] = 0]
    /\ called' = [called EXCEPT ![c] = FALSE]

-----------------------------------------------------------------------------
(* send_text: claim. *)

\* claim_send inserts the in_flight row before anything native is called.
Claim(c, r, p) ==
    /\ pc[c] = "idle"
    /\ ~Has(r)
    /\ sends' = [sends EXCEPT ![r] =
          [status |-> "in_flight", payload |-> p, created |-> claims + 1,
           event |-> NoEvent]]
    /\ claims' = claims + 1
    /\ pc' = [pc EXCEPT ![c] = "native"]
    /\ req' = [req EXCEPT ![c] = r]
    /\ UNCHANGED <<tries, called, told, native, crashes>>

\* The id is known: the stored receipt is the answer, or the payload differs
\* and the call is refused.  Nothing native is called and nothing is written.
Repeat(c, r, p) ==
    /\ pc[c] = "idle"
    /\ Has(r)
    /\ UNCHANGED <<db, pc, req, tries, called, native, crashes>>
    /\ IF sends[r].payload = p THEN Tell(r) ELSE UNCHANGED told

-----------------------------------------------------------------------------
(* send_text: the native attempts. *)

\* Slip: attempts are not counted.
AfterRejectionUncounted(c, retryable) ==
    /\ pc' = [pc EXCEPT ![c] = IF req[c] \in Central /\ retryable
                               THEN "native" ELSE "reject"]
    /\ UNCHANGED tries

\* A ConfirmedSendRejection: a Central request tries again while the rejection
\* is retryable and attempts remain, any other goes on to mark_send_rejected.
AfterRejection(c, retryable) ==
    IF req[c] \in Central /\ retryable /\ tries[c] + 1 < MaxAttempts
    THEN /\ pc' = [pc EXCEPT ![c] = "native"]
         /\ tries' = [tries EXCEPT ![c] = @ + 1]
    ELSE /\ pc' = [pc EXCEPT ![c] = "reject"]
         /\ UNCHANGED tries

HandOver(r) ==
    /\ copies' = [copies EXCEPT ![r] = @ + 1]
    /\ doubt' = doubt \cup {r}

\* Refused without a call (cold route, no service, ABI not validated: only the
\* last is not retryable), or sendtext returned a non-zero code.
NativeRefuses(c) ==
    /\ pc[c] = "native"
    /\ \E retryable \in BOOLEAN : AfterRejection(c, retryable)
    /\ UNCHANGED <<db, req, called, told, native, crashes>>

\* The RPC into the client raises, before the text was handed over or after it
\* (the agent found no route; the client went away during the call).
NativeRaises(c) ==
    /\ pc[c] = "native"
    /\ pc' = [pc EXCEPT ![c] = "fault"]
    /\ \/ UNCHANGED <<copies, doubt>>
       \/ HandOver(req[c])
    /\ UNCHANGED <<db, req, tries, called, told, said, crashes>>

\* sendtext returned 0: Qianniu owns the text now.
NativeAccepts(c) ==
    /\ pc[c] = "native"
    /\ pc' = [pc EXCEPT ![c] = "wait"]
    /\ HandOver(req[c])
    /\ UNCHANGED <<db, req, tries, called, told, said, crashes>>

\* pollsend returns the callback with result_code 0.
CallbackOk(c) ==
    /\ pc[c] = "wait"
    /\ pc' = [pc EXCEPT ![c] = "submit"]
    /\ called' = [called EXCEPT ![c] = TRUE]
    /\ doubt' = doubt \ {req[c]}
    /\ UNCHANGED <<db, req, tries, told, copies, said, crashes>>

\* pollsend returns a failure code: MessageSDK did not send the text.
CallbackRejects(c) ==
    /\ pc[c] = "wait"
    /\ req[c] \in doubt
    /\ AfterRejection(c, TRUE)
    /\ copies' = [copies EXCEPT ![req[c]] = @ - 1]
    /\ doubt' = doubt \ {req[c]}
    /\ UNCHANGED <<db, req, called, told, said, crashes>>

\* Slip: silence is taken for a rejection and the text is sent again.
CallbackMissingRetried(c) ==
    /\ pc[c] = "wait"
    /\ AfterRejection(c, TRUE)
    /\ UNCHANGED <<db, req, called, told, native, crashes>>

\* Slip: silence is recorded as a rejection.
CallbackMissingRejected(c) ==
    /\ pc[c] = "wait"
    /\ pc' = [pc EXCEPT ![c] = "reject"]
    /\ UNCHANGED <<db, req, tries, called, told, native, crashes>>

\* The deadline passes, the script detaches, the code is the unreadable one, or
\* (Central) a poll fails: the receipt is cancelled and the text is "submitted".
CallbackMissing(c) ==
    /\ pc[c] = "wait"
    /\ pc' = [pc EXCEPT ![c] = "submit"]
    /\ UNCHANGED <<db, req, tries, called, told, native, crashes>>

\* refresh_status or pollsend raises; only a Central request swallows that.
WaitRaises(c) ==
    /\ pc[c] = "wait"
    /\ req[c] \notin Central
    /\ pc' = [pc EXCEPT ![c] = "fault"]
    /\ UNCHANGED <<db, req, tries, called, told, native, crashes>>

-----------------------------------------------------------------------------
(* send_text: the receipt is written. *)

AfterSubmitted(c) ==
    IF called[c]
    THEN pc' = [pc EXCEPT ![c] = "confirm"] /\ UNCHANGED <<req, tries, called>>
    ELSE Return(c)

\* Slip: the update forgets AND status='in_flight'.
MarkSubmittedBlindly(c) ==
    /\ pc[c] = "submit"
    /\ Move(req[c], Statuses, "submitted")
    /\ AfterSubmitted(c)
    /\ UNCHANGED <<claims, told, native, crashes>>

\* mark_send_submitted answers with "submitted" or, when the row is no longer
\* in_flight, with what it holds; confirm_send_from_callback follows a code 0.
MarkSubmitted(c) ==
    /\ pc[c] = "submit"
    /\ Move(req[c], {"in_flight"}, "submitted")
    /\ IF called[c] THEN UNCHANGED told ELSE Tell(req[c])
    /\ AfterSubmitted(c)
    /\ UNCHANGED <<claims, native, crashes>>

ConfirmFromCallback(c) ==
    /\ pc[c] = "confirm"
    /\ Move(req[c], {"in_flight", "submitted", "unknown"}, "confirmed")
    /\ Tell(req[c])
    /\ Return(c)
    /\ UNCHANGED <<claims, native, crashes>>

\* mark_send_rejected after a proven rejection.  A Central caller gets the
\* stored receipt, any other the exception.
MarkRejected(c) ==
    /\ pc[c] = "reject"
    /\ Move(req[c], {"in_flight"}, "rejected")
    /\ IF req[c] \in Central THEN Tell(req[c]) ELSE UNCHANGED told
    /\ Return(c)
    /\ UNCHANGED <<claims, native, crashes>>

\* Slip: a status that no reader of the table knows.
MarkFaultIndeterminate(c) ==
    /\ pc[c] = "fault"
    /\ Move(req[c], {"in_flight"},
            IF req[c] \in Central THEN "indeterminate" ELSE "rejected")
    /\ Return(c)
    /\ UNCHANGED <<claims, told, native, crashes>>

\* Any other exception: mark_send_unknown for a Central request,
\* mark_send_rejected for every other one, and the exception goes on.
MarkFault(c) ==
    /\ pc[c] = "fault"
    /\ Move(req[c], {"in_flight"},
            IF req[c] \in Central THEN "unknown" ELSE "rejected")
    /\ Return(c)
    /\ UNCHANGED <<claims, told, native, crashes>>

-----------------------------------------------------------------------------
(* The other writers of the table. *)

\* Slips: the sweep forgets its status condition, or the in_flight rows.
ExpireAnything(cutoff) ==
    /\ \E r \in Requests : Has(r) /\ sends[r].created <= cutoff
    /\ sends' = [r \in Requests |->
          IF Has(r) /\ sends[r].created <= cutoff
          THEN [sends[r] EXCEPT !.status = "unknown"] ELSE sends[r]]
    /\ UNCHANGED <<claims, callers, native, crashes>>

ExpireSubmitted(cutoff) ==
    LET old == {r \in Requests : /\ StatusIn(r, {"submitted"})
                                 /\ sends[r].created <= cutoff}
    IN /\ old # {}
       /\ sends' = [r \in Requests |->
             IF r \in old THEN [sends[r] EXCEPT !.status = "unknown"] ELSE sends[r]]
       /\ UNCHANGED <<claims, callers, native, crashes>>

\* expire_unconfirmed_sends: every open row created up to the cutoff.
Expire(cutoff) ==
    LET old == {r \in Requests : /\ StatusIn(r, {"in_flight", "submitted"})
                                 /\ sends[r].created <= cutoff}
    IN /\ old # {}
       /\ sends' = [r \in Requests |->
             IF r \in old THEN [sends[r] EXCEPT !.status = "unknown"] ELSE sends[r]]
       /\ UNCHANGED <<claims, callers, native, crashes>>

\* Slip: the content of the message is not compared.
CandidatesAnyText(m, low, high) ==
    {r \in Requests :
        /\ \/ StatusIn(r, {"in_flight", "submitted", "unknown"})
           \/ StatusIn(r, {"confirmed"}) /\ sends[r].event = NoEvent
        /\ low <= sends[r].created /\ sends[r].created <= high}

\* The rows confirm_send_from_event may confirm with message m: created
\* within [low, high], where 5 seconds of slack let high exceed m's own time.
Candidates(m, low, high) ==
    {r \in Requests :
        /\ \/ StatusIn(r, {"in_flight", "submitted", "unknown"})
           \/ StatusIn(r, {"confirmed"}) /\ sends[r].event = NoEvent
        /\ sends[r].payload = said[m].payload
        /\ low <= sends[r].created /\ sends[r].created <= high}

\* ingest_event of a seller's message, at any later time and any number of
\* times: the oldest candidate is confirmed, whoever sent the message.
ConfirmFromEvent(m) ==
    /\ said[m] # NotSaid
    /\ \E low \in 1..(said[m].at + 1), high \in said[m].at..claims :
         \E r \in Candidates(m, low, high) :
           /\ \A q \in Candidates(m, low, high) : sends[r].created <= sends[q].created
           /\ sends' = [sends EXCEPT ![r].status = "confirmed", ![r].event = m]
    /\ UNCHANGED <<claims, callers, native, crashes>>

\* The process dies: the callers are gone, the table and Qianniu are not.
Crash ==
    /\ crashes < MaxCrashes
    /\ crashes' = crashes + 1
    /\ pc' = [c \in Callers |-> "idle"]
    /\ req' = [c \in Callers |-> NoRequest]
    /\ tries' = [c \in Callers |-> 0]
    /\ called' = [c \in Callers |-> FALSE]
    /\ UNCHANGED <<db, told, native>>

-----------------------------------------------------------------------------
(* Qianniu and its operator. *)

\* An accepted text appears in the conversation; it cannot be rejected any more.
Appear(r) ==
    /\ copies[r] > 0
    /\ said[r] = NotSaid
    /\ said' = [said EXCEPT ![r] = [payload |-> sends[r].payload, at |-> claims]]
    /\ doubt' = doubt \ {r}
    /\ UNCHANGED <<db, callers, copies, crashes>>

\* The operator sends a text by hand, possibly the same one.
TypeByHand(m, p) ==
    /\ said[m] = NotSaid
    /\ said' = [said EXCEPT ![m] = [payload |-> p, at |-> claims]]
    /\ UNCHANGED <<db, callers, copies, doubt, crashes>>

\* MessageSDK rejects a text after its receipt was cancelled: nobody hears it.
RejectUnheard(r) ==
    /\ r \in doubt
    /\ \A c \in Callers : ~(pc[c] = "wait" /\ req[c] = r)
    /\ copies' = [copies EXCEPT ![r] = @ - 1]
    /\ doubt' = doubt \ {r}
    /\ UNCHANGED <<db, callers, said, crashes>>

-----------------------------------------------------------------------------
Attempt(c) == NativeRefuses(c) \/ NativeRaises(c) \/ NativeAccepts(c)

Await(c) ==
    CallbackOk(c) \/ CallbackRejects(c) \/ CallbackMissing(c) \/ WaitRaises(c)

Record(c) ==
    MarkSubmitted(c) \/ ConfirmFromCallback(c) \/ MarkRejected(c) \/ MarkFault(c)

Caller(c) == Attempt(c) \/ Await(c) \/ Record(c)

Sweep == \E cutoff \in 1..claims : Expire(cutoff)

Next ==
    \/ \E c \in Callers, r \in Requests, p \in Payloads : Claim(c, r, p) \/ Repeat(c, r, p)
    \/ \E c \in Callers : Caller(c)
    \/ Sweep
    \/ \E m \in Messages : ConfirmFromEvent(m)
    \/ \E r \in Requests : Appear(r) \/ RejectUnheard(r)
    \/ \E m \in Manual, p \in Payloads : TypeByHand(m, p)
    \/ Crash

Spec == Init /\ [][Next]_vars

(* Every attempt, wait and write of a caller ends: the RPCs return or raise  *)
(* and the wait has a deadline.  The sweep runs on every /status request and *)
(* before every send.                                                        *)
FairSpec == Spec /\ WF_vars(Sweep) /\ \A c \in Callers : WF_vars(Caller(c))

-----------------------------------------------------------------------------
(* What must hold. *)

\* However often a command is delivered, retried, crashed under or swept, the
\* buyer never has two copies of the text of one request (send_text, claim_send).
AtMostOneCopy == \A r \in Requests : copies[r] <= 1

\* A Central request whose receipt says "rejected" has no copy with Qianniu: a
\* new request may be made for it (send_text's two except branches).
CentralRejectionHonest ==
    \A r \in Central : StatusIn(r, {"rejected"}) => copies[r] = 0

\* A caller that was answered "confirmed" or "rejected" was told the last word:
\* no sweep, echo or slower caller rewrites that receipt afterwards.
AnswerIsFinal == \A t \in told : StatusIn(t[1], {t[2]})

\* A receipt is "confirmed" only if MessageSDK took the text for good or a
\* message with the same buyer and content really appeared.
ConfirmedHasEvidence ==
    \A r \in Requests : StatusIn(r, {"confirmed"}) =>
        \/ copies[r] = 1 /\ r \notin doubt
        \/ /\ sends[r].event # NoEvent
           /\ said[sends[r].event] # NotSaid
           /\ said[sends[r].event].payload = sends[r].payload

\* The receipt of a request as SendOutcome sees it.
Receipt == [r \in Requests |->
    IF ~Has(r) THEN "none"
    ELSE IF sends[r].status \in {"in_flight", "submitted"} THEN "open"
    ELSE sends[r].status]

Outcome == INSTANCE SendOutcome WITH receipt <- Receipt

\* The table, its writers and the native calls implement the promise: one copy
\* at a time, and settled receipts stay as they are.
ImplementsOutcome == Outcome!Spec

\* A receipt does not stay open: the sweep settles what nothing else settles,
\* also after the process died under the call.
OpenSettles ==
    \A r \in Requests :
        StatusIn(r, {"in_flight", "submitted"})
            ~> ~StatusIn(r, {"in_flight", "submitted"})

\* send_text returns or raises: its retries are bounded and its wait ends.
CallReturns == \A c \in Callers : pc[c] # "idle" ~> pc[c] = "idle"

\* Together: neither a call nor its receipt waits for ever.
SendsSettle == OpenSettles /\ CallReturns
=============================================================================
