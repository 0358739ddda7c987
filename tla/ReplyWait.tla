----------------------------- MODULE ReplyWait ------------------------------
(* Since when the buyer of a conversation waits for an answer, by the local  *)
(* copy of it (reception_wait).  Messages are said in one order and captured *)
(* in another, live or out of a history, the text of a reply before or after *)
(* it is known to have been delivered; receipts tell of replies whose text   *)
(* may never be captured.                                                    *)
EXTENDS Naturals, Sequences, FiniteSets, FiniteSetsExt, SequencesExt

CONSTANTS
    MaxSaid         \* bound: messages of the conversation

Classes == {"buyer", "staff"}

VARIABLES
    said,       \* the conversation: class and time of each message
    events,     \* the local copy: messages in the order of their first capture
    confirmed,  \* staff messages in it whose status lets them count as replies
    receipt     \* session_reply_receipts, or a confirmed send: time of a reply

vars == <<said, events, confirmed, receipt>>

TypeOK ==
    /\ said \in Seq([class : Classes, ts : Nat])
    /\ events \in Seq(1 .. MaxSaid)
    /\ confirmed \in SUBSET (1 .. MaxSaid)
    /\ receipt \in Nat

Init == said = <<>> /\ events = <<>> /\ confirmed = {} /\ receipt = 0

Captured == {events[i] : i \in DOMAIN events}
At(m) == CHOOSE i \in DOMAIN events : events[i] = m
Stamp(m) == said[m].ts
Is(m, class) == said[m].class = class

-----------------------------------------------------------------------------
(* waiting_state.  A message is ordered by its time, then by its capture. *)

Later(m, n) == Stamp(m) > Stamp(n) \/ (Stamp(m) = Stamp(n) /\ At(m) > At(n))

\* message_direction: a draft, or a reply not known to have gone out, is none.
Replies == {m \in Captured : Is(m, "staff") /\ m \in confirmed}

\* A receipt without a message has no place in the order of capture: it answers
\* all of its own second.
ReceiptIsLast == \A r \in Replies : Stamp(r) < receipt

\* Slip: a buyer who writes again starts to wait again.
SinceLast(S) == IF S = {} THEN 0 ELSE Max({At(m) : m \in S})

SinceFirst(S) == IF S = {} THEN 0 ELSE Min({At(m) : m \in S})

\* Slip: the order of capture tells who spoke last.
UnansweredByCapture ==
    {m \in Captured : Is(m, "buyer") /\ (\A r \in Replies : At(m) > At(r))
                        /\ Stamp(m) > receipt}

\* Slip: with a receipt, what was captured of the replies is left aside.
UnansweredByReceipt ==
    {m \in Captured : Is(m, "buyer") /\ IF receipt > 0 THEN Stamp(m) > receipt
                                        ELSE \A r \in Replies : Later(m, r)}

Unanswered ==
    {m \in Captured : /\ Is(m, "buyer")
                      /\ \A r \in Replies : Later(m, r)
                      /\ ReceiptIsLast => Stamp(m) > receipt}

\* reply_wait_started_at: when the first message without an answer came.
StartedAt == SinceFirst(Unanswered)

-----------------------------------------------------------------------------

\* Two messages may have the same second.
Say(class, later) ==
    LET now == IF said = <<>> THEN 1 ELSE said[Len(said)].ts IN
    /\ Len(said) < MaxSaid
    /\ said' = Append(said, [class |-> class, ts |-> IF later THEN now + 1 ELSE now])
    /\ UNCHANGED <<events, confirmed, receipt>>

\* Slip: a message that is captured again counts as new.
CaptureAnew(m, counts) ==
    /\ counts => Is(m, "staff")
    /\ events' = Append(Remove(events, m), m)
    /\ confirmed' = IF counts THEN confirmed \cup {m} ELSE confirmed
    /\ UNCHANGED <<said, receipt>>

\* upsert_event and upsert_local_projection: a message that is known keeps the
\* time it first came, and may now be known to have been delivered.
Capture(m, counts) ==
    /\ counts => Is(m, "staff")
    /\ events' = IF m \in Captured THEN events ELSE Append(events, m)
    /\ confirmed' = IF counts THEN confirmed \cup {m} ELSE confirmed
    /\ UNCHANGED <<said, receipt>>

\* A send was confirmed or the client's log tells of a reply; the time of a send
\* is that of its call, before the message's own.  The latest one is kept.
Receipt(m, t) ==
    /\ Is(m, "staff") /\ t <= Stamp(m)
    /\ t > receipt
    /\ receipt' = t
    /\ UNCHANGED <<said, events, confirmed>>

Next ==
    \/ \E class \in Classes, later \in BOOLEAN : Say(class, later)
    \/ \E m \in DOMAIN said :
          \/ \E counts \in BOOLEAN : Capture(m, counts)
          \/ \E t \in 1 .. MaxSaid + 1 : Receipt(m, t)

Spec == Init /\ [][Next]_vars

-----------------------------------------------------------------------------
(* Properties. *)

\* "Further buyer messages do not extend the deadline" (reception_wait.py:36),
\* nor does a history or a message captured again: only a reply that becomes known
\* moves or ends it.
DeadlineStands ==
    [][StartedAt # 0 /\ Replies' = Replies /\ receipt' = receipt =>
          StartedAt' = StartedAt]_vars

\* A reply counts from its own time: one captured late, or told of by a receipt,
\* does not answer what the buyer wrote in a later second.
LaterIsUnanswered ==
    \A m \in Captured :
        Is(m, "buyer") /\ (\A r \in Replies : Stamp(r) < Stamp(m)) /\ receipt < Stamp(m)
            => StartedAt # 0

\* The reception list does not wait for an answer that has been given: neither a
\* reply nor a receipt is overlooked because something came in after it.
AnsweredIsKnown ==
    \A m \in Captured :
        (\E r \in Replies : Stamp(r) > Stamp(m)) \/ receipt > Stamp(m) => m \notin Unanswered

\* What has been answered is not waited for again, whatever is captured, confirmed
\* or told of later.  Only in the second of a receipt it may be: the reply itself,
\* once it is known, tells who wrote last in that second.
AnsweredStays ==
    [][\A m \in Captured : m \notin Unanswered /\ m \in Unanswered' => Stamp(m) = receipt]_vars
=============================================================================
