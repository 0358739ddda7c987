------------------------- MODULE SendReceiptsProofs -------------------------
(* Proofs about SendReceipts, for any requests, callers, payloads, attempts  *)
(* and crashes.                                                              *)
EXTENDS SendReceipts, TLAPS

\* A caller that is not idle works on a request whose row exists, and no two
\* callers work on the same request: the insert of claim_send admits one.
Frames ==
    /\ \A c \in Callers : pc[c] = "idle" <=> req[c] = NoRequest
    /\ \A c \in Callers : req[c] \in Requests => Has(req[c])
    /\ \A c, d \in Callers : req[c] = req[d] /\ req[c] # NoRequest => c = d

\* No text leaves before its claim, and none is out while a caller is about to
\* call again or has given up on a proven rejection; one is while it waits.
CopiesFollow ==
    /\ \A r \in Requests : ~Has(r) => copies[r] = 0
    /\ \A c \in Callers : pc[c] \in {"native", "reject"} => copies[req[c]] = 0
    /\ \A c \in Callers : pc[c] = "wait" => copies[req[c]] = 1
    /\ \A r \in doubt : copies[r] = 1

\* A receipt becomes "rejected" only as the last act of the caller that owns it.
NoCallAfterRejection ==
    \A c \in Callers : req[c] \in Requests => ~StatusIn(req[c], {"rejected"})

\* A caller that saw the callback owns a text that Qianniu took for good.
CalledMeansTaken ==
    \A c \in Callers :
        /\ pc[c] = "confirm" => called[c]
        /\ called[c] => /\ pc[c] \in {"submit", "confirm"}
                        /\ copies[req[c]] = 1 /\ req[c] \notin doubt

\* "confirmed" without an event id is the callback's doing, and the caller that
\* wrote it has returned.
CallbackConfirmed ==
    \A r \in Requests :
        StatusIn(r, {"confirmed"}) /\ sends[r].event = NoEvent =>
            /\ copies[r] = 1 /\ r \notin doubt
            /\ \A c \in Callers : req[c] # r

\* An event id in a row is a message that appeared with the row's payload.
EventAppeared ==
    \A r \in Requests :
        Has(r) /\ sends[r].event # NoEvent =>
            /\ said[sends[r].event] # NotSaid
            /\ said[sends[r].event].payload = sends[r].payload

IInv ==
    /\ TypeOK
    /\ Frames
    /\ CopiesFollow
    /\ AtMostOneCopy
    /\ NoCallAfterRejection
    /\ CentralRejectionHonest
    /\ AnswerIsFinal
    /\ CalledMeansTaken
    /\ CallbackConfirmed
    /\ EventAppeared

\* The table starts empty, no call runs and Qianniu holds nothing.
LEMMA InitHolds == Init => IInv
  <1> SUFFICES ASSUME Init PROVE IInv
    OBVIOUS
  <1>1. TypeOK
    BY DEF Init, TypeOK
  <1>2. \A r \in Requests : ~Has(r)
    BY DEF Init, Has
  <1>3. Frames /\ CopiesFollow /\ AtMostOneCopy /\ CalledMeansTaken
    BY <1>2, DistinctAssumption
    DEF Init, Frames, CopiesFollow, AtMostOneCopy, CalledMeansTaken
  <1>4. NoCallAfterRejection /\ AnswerIsFinal /\ CallbackConfirmed /\ EventAppeared
    BY <1>2 DEF Init, NoCallAfterRejection, AnswerIsFinal, CallbackConfirmed,
      EventAppeared, StatusIn
  <1>5. CentralRejectionHonest
    BY <1>2, CentralAssumption DEF CentralRejectionHonest, StatusIn
  <1> QED
    BY <1>1, <1>3, <1>4, <1>5 DEF IInv

\* An UPDATE of the status column loses no row and keeps the other columns.
LEMMA MoveKeepsRows ==
    ASSUME TypeOK, NEW r \in Requests, NEW from, NEW to \in Statuses,
           Move(r, from, to)
    PROVE  /\ sends' \in [Requests -> Row \cup {NoRow}]
           /\ \A q \in Requests : Has(q)' <=> Has(q)
  BY DistinctAssumption DEF TypeOK, Move, StatusIn, Has, Row

\* Whatever the row holds, only final receipts are remembered as told.
LEMMA TellTyped ==
    ASSUME TypeOK, NEW r \in Requests, Tell(r)
    PROVE  told' \in SUBSET (Requests \X Final)
  BY DEF TypeOK, Tell

\* Every step of a caller, of another writer or of Qianniu keeps the invariant.
LEMMA StepHolds == IInv /\ [Next]_vars => IInv'
  <1> SUFFICES ASSUME IInv, [Next]_vars PROVE IInv'
    OBVIOUS
  <1> USE DEF IInv, db, callers, native
  <1>1. ASSUME NEW c \in Callers, NEW r \in Requests, NEW p \in Payloads,
         Claim(c, r, p) PROVE IInv'
    <2>1. TypeOK'
      BY <1>1 DEF Claim, TypeOK, Statuses, Messages, Row
    <2>2. Frames'
      <3>1. \A d \in Callers : req[d] # r
        BY <1>1 DEF Claim, Frames
      <3>2. [status |-> "in_flight", payload |-> p, created |-> claims + 1,
             event |-> NoEvent] \in Row
        BY DEF Row, Statuses, TypeOK
      <3>3. \A q \in Requests : Has(q)' <=> Has(q) \/ q = r
        BY <1>1, <3>2, DistinctAssumption DEF Claim, Has, TypeOK
      <3> QED
        BY <1>1, <3>1, <3>3, DistinctAssumption DEF Claim, Frames, TypeOK
    <2>3. CopiesFollow'
      BY <1>1, DistinctAssumption DEF Claim, CopiesFollow, Frames,
        AtMostOneCopy, Has, Row, TypeOK
    <2>4. NoCallAfterRejection'
      BY <1>1, DistinctAssumption DEF Claim, NoCallAfterRejection, Frames,
        Has, StatusIn, Row, TypeOK
    <2>5. CentralRejectionHonest'
      BY <1>1, DistinctAssumption, CentralAssumption DEF Claim,
        CentralRejectionHonest, NoCallAfterRejection, CopiesFollow, Frames,
        Has, StatusIn, Row, TypeOK
    <2>6. AnswerIsFinal'
      BY <1>1, DistinctAssumption DEF Claim, AnswerIsFinal, Final, Frames,
        Has, StatusIn, Row, TypeOK
    <2>7. CalledMeansTaken'
      BY <1>1, DistinctAssumption DEF Claim, CalledMeansTaken, CopiesFollow,
        Frames, TypeOK
    <2>8. CallbackConfirmed'
      BY <1>1, DistinctAssumption DEF Claim, CallbackConfirmed,
        CalledMeansTaken, CopiesFollow, Frames, Has, StatusIn, Row, TypeOK
    <2>9. EventAppeared'
      BY <1>1, DistinctAssumption DEF Claim, EventAppeared, Frames, Messages,
        Has, StatusIn, Row, TypeOK
    <2>10. AtMostOneCopy'
      BY <1>1 DEF Claim, AtMostOneCopy
    <2> QED
      BY <2>1, <2>2, <2>3, <2>4, <2>5, <2>6, <2>7, <2>8, <2>9, <2>10
  <1>2. ASSUME NEW c \in Callers, NEW r \in Requests, NEW p \in Payloads,
         Repeat(c, r, p) PROVE IInv'
    <2>1. TypeOK'
      BY <1>2 DEF Repeat, Tell, TypeOK, Final
    <2>2. AnswerIsFinal'
      BY <1>2, DistinctAssumption DEF Repeat, Tell, AnswerIsFinal, Final,
        Frames, Has, StatusIn, Row, TypeOK
    <2>3. /\ Frames' /\ CopiesFollow' /\ AtMostOneCopy'
          /\ NoCallAfterRejection' /\ CentralRejectionHonest'
          /\ CalledMeansTaken' /\ CallbackConfirmed' /\ EventAppeared'
      BY <1>2 DEF Repeat, Frames, Has, CopiesFollow, AtMostOneCopy,
        NoCallAfterRejection, StatusIn, CentralRejectionHonest,
        CalledMeansTaken, CallbackConfirmed, EventAppeared
    <2> QED
      BY <2>1, <2>2, <2>3
  <1>3. ASSUME NEW c \in Callers, NativeRefuses(c) PROVE IInv'
    <2>1. TypeOK'
      BY <1>3 DEF NativeRefuses, AfterRejection, TypeOK
    <2>2. Frames'
      BY <1>3, DistinctAssumption DEF NativeRefuses, AfterRejection, Frames,
        Has, Row, TypeOK
    <2>3. CopiesFollow'
      BY <1>3, DistinctAssumption DEF NativeRefuses, AfterRejection,
        CopiesFollow, Frames, AtMostOneCopy, Has, Row, TypeOK
    <2>4. CalledMeansTaken'
      BY <1>3, DistinctAssumption DEF NativeRefuses, AfterRejection,
        CalledMeansTaken, CopiesFollow, Frames, TypeOK
    <2>5. /\ AtMostOneCopy' /\ NoCallAfterRejection'
          /\ CentralRejectionHonest' /\ AnswerIsFinal' /\ CallbackConfirmed'
          /\ EventAppeared'
      BY <1>3 DEF NativeRefuses, AtMostOneCopy, NoCallAfterRejection, Has,
        StatusIn, CentralRejectionHonest, AnswerIsFinal, CallbackConfirmed,
        EventAppeared
    <2> QED
      BY <2>1, <2>2, <2>3, <2>4, <2>5
  <1>4. ASSUME NEW c \in Callers, NativeRaises(c) PROVE IInv'
    <2>1. TypeOK'
      BY <1>4 DEF NativeRaises, HandOver, TypeOK, Frames, CopiesFollow
    <2>2. Frames'
      BY <1>4, DistinctAssumption DEF NativeRaises, HandOver, Frames, Has,
        Row, TypeOK
    <2>3. CopiesFollow'
      BY <1>4, DistinctAssumption DEF NativeRaises, HandOver, CopiesFollow,
        Frames, AtMostOneCopy, Has, Row, TypeOK
    <2>4. AtMostOneCopy'
      BY <1>4, DistinctAssumption DEF NativeRaises, HandOver, AtMostOneCopy,
        CopiesFollow, Frames, TypeOK
    <2>5. CentralRejectionHonest'
      BY <1>4, DistinctAssumption, CentralAssumption DEF NativeRaises,
        HandOver, CentralRejectionHonest, NoCallAfterRejection, CopiesFollow,
        Frames, Has, StatusIn, Row, TypeOK
    <2>6. CalledMeansTaken'
      BY <1>4, DistinctAssumption DEF NativeRaises, HandOver,
        CalledMeansTaken, CopiesFollow, Frames, TypeOK
    <2>7. CallbackConfirmed'
      BY <1>4, DistinctAssumption DEF NativeRaises, HandOver,
        CallbackConfirmed, CalledMeansTaken, CopiesFollow, Frames, Has,
        StatusIn, Row, TypeOK
    <2>8. /\ NoCallAfterRejection' /\ AnswerIsFinal' /\ EventAppeared'
      BY <1>4 DEF NativeRaises, NoCallAfterRejection, Has, StatusIn,
        AnswerIsFinal, EventAppeared
    <2> QED
      BY <2>1, <2>2, <2>3, <2>4, <2>5, <2>6, <2>7, <2>8
  <1>5. ASSUME NEW c \in Callers, NativeAccepts(c) PROVE IInv'
    <2>1. TypeOK'
      BY <1>5 DEF NativeAccepts, HandOver, TypeOK, Frames, CopiesFollow
    <2>2. Frames'
      BY <1>5, DistinctAssumption DEF NativeAccepts, HandOver, Frames, Has,
        Row, TypeOK
    <2>3. CopiesFollow'
      BY <1>5, DistinctAssumption DEF NativeAccepts, HandOver, CopiesFollow,
        Frames, AtMostOneCopy, Has, Row, TypeOK
    <2>4. AtMostOneCopy'
      BY <1>5, DistinctAssumption DEF NativeAccepts, HandOver, AtMostOneCopy,
        CopiesFollow, Frames, TypeOK
    <2>5. CentralRejectionHonest'
      BY <1>5, DistinctAssumption, CentralAssumption DEF NativeAccepts,
        HandOver, CentralRejectionHonest, NoCallAfterRejection, CopiesFollow,
        Frames, Has, StatusIn, Row, TypeOK
    <2>6. CalledMeansTaken'
      BY <1>5, DistinctAssumption DEF NativeAccepts, HandOver,
        CalledMeansTaken, CopiesFollow, Frames, TypeOK
    <2>7. CallbackConfirmed'
      BY <1>5, DistinctAssumption DEF NativeAccepts, HandOver,
        CallbackConfirmed, CalledMeansTaken, CopiesFollow, Frames, Has,
        StatusIn, Row, TypeOK
    <2>8. /\ NoCallAfterRejection' /\ AnswerIsFinal' /\ EventAppeared'
      BY <1>5 DEF NativeAccepts, NoCallAfterRejection, Has, StatusIn,
        AnswerIsFinal, EventAppeared
    <2> QED
      BY <2>1, <2>2, <2>3, <2>4, <2>5, <2>6, <2>7, <2>8
  <1>6. ASSUME NEW c \in Callers, CallbackOk(c) PROVE IInv'
    <2>1. TypeOK'
      BY <1>6 DEF CallbackOk, TypeOK
    <2>2. Frames'
      BY <1>6, DistinctAssumption DEF CallbackOk, Frames, Has, Row, TypeOK
    <2>3. CopiesFollow'
      BY <1>6, DistinctAssumption DEF CallbackOk, CopiesFollow, Frames,
        AtMostOneCopy, Has, Row, TypeOK
    <2>4. CalledMeansTaken'
      BY <1>6, DistinctAssumption DEF CallbackOk, CalledMeansTaken,
        CopiesFollow, Frames, TypeOK
    <2>5. CallbackConfirmed'
      BY <1>6, DistinctAssumption DEF CallbackOk, CallbackConfirmed,
        CalledMeansTaken, CopiesFollow, Frames, Has, StatusIn, Row, TypeOK
    <2>6. /\ AtMostOneCopy' /\ NoCallAfterRejection'
          /\ CentralRejectionHonest' /\ AnswerIsFinal' /\ EventAppeared'
      BY <1>6 DEF CallbackOk, AtMostOneCopy, NoCallAfterRejection, Has,
        StatusIn, CentralRejectionHonest, AnswerIsFinal, EventAppeared
    <2> QED
      BY <2>1, <2>2, <2>3, <2>4, <2>5, <2>6
  <1>7. ASSUME NEW c \in Callers, CallbackRejects(c) PROVE IInv'
    <2>1. TypeOK'
      BY <1>7 DEF CallbackRejects, AfterRejection, TypeOK, Frames,
        CopiesFollow
    <2>2. Frames'
      BY <1>7, DistinctAssumption DEF CallbackRejects, AfterRejection,
        Frames, Has, Row, TypeOK
    <2>3. CopiesFollow'
      BY <1>7, DistinctAssumption DEF CallbackRejects, AfterRejection,
        CopiesFollow, Frames, AtMostOneCopy, Has, Row, TypeOK
    <2>4. AtMostOneCopy'
      BY <1>7, DistinctAssumption DEF CallbackRejects, AfterRejection,
        AtMostOneCopy, CopiesFollow, Frames, TypeOK
    <2>5. CentralRejectionHonest'
      BY <1>7, DistinctAssumption, CentralAssumption DEF CallbackRejects,
        AfterRejection, CentralRejectionHonest, NoCallAfterRejection,
        CopiesFollow, Frames, Has, StatusIn, Row, TypeOK
    <2>6. CalledMeansTaken'
      BY <1>7, DistinctAssumption DEF CallbackRejects, AfterRejection,
        CalledMeansTaken, CopiesFollow, Frames, TypeOK
    <2>7. CallbackConfirmed'
      BY <1>7, DistinctAssumption DEF CallbackRejects, AfterRejection,
        CallbackConfirmed, CalledMeansTaken, CopiesFollow, Frames, Has,
        StatusIn, Row, TypeOK
    <2>8. /\ NoCallAfterRejection' /\ AnswerIsFinal' /\ EventAppeared'
      BY <1>7 DEF CallbackRejects, NoCallAfterRejection, Has, StatusIn,
        AnswerIsFinal, EventAppeared
    <2> QED
      BY <2>1, <2>2, <2>3, <2>4, <2>5, <2>6, <2>7, <2>8
  <1>8. ASSUME NEW c \in Callers, CallbackMissing(c) PROVE IInv'
    <2>1. TypeOK'
      BY <1>8 DEF CallbackMissing, TypeOK
    <2>2. Frames'
      BY <1>8, DistinctAssumption DEF CallbackMissing, Frames, Has, Row,
        TypeOK
    <2>3. CopiesFollow'
      BY <1>8, DistinctAssumption DEF CallbackMissing, CopiesFollow, Frames,
        AtMostOneCopy, Has, Row, TypeOK
    <2>4. CalledMeansTaken'
      BY <1>8, DistinctAssumption DEF CallbackMissing, CalledMeansTaken,
        CopiesFollow, Frames, TypeOK
    <2>5. /\ AtMostOneCopy' /\ NoCallAfterRejection'
          /\ CentralRejectionHonest' /\ AnswerIsFinal' /\ CallbackConfirmed'
          /\ EventAppeared'
      BY <1>8 DEF CallbackMissing, AtMostOneCopy, NoCallAfterRejection, Has,
        StatusIn, CentralRejectionHonest, AnswerIsFinal, CallbackConfirmed,
        EventAppeared
    <2> QED
      BY <2>1, <2>2, <2>3, <2>4, <2>5
  <1>9. ASSUME NEW c \in Callers, WaitRaises(c) PROVE IInv'
    <2>1. TypeOK'
      BY <1>9 DEF WaitRaises, TypeOK
    <2>2. Frames'
      BY <1>9, DistinctAssumption DEF WaitRaises, Frames, Has, Row, TypeOK
    <2>3. CopiesFollow'
      BY <1>9, DistinctAssumption DEF WaitRaises, CopiesFollow, Frames,
        AtMostOneCopy, Has, Row, TypeOK
    <2>4. CalledMeansTaken'
      BY <1>9, DistinctAssumption DEF WaitRaises, CalledMeansTaken,
        CopiesFollow, Frames, TypeOK
    <2>5. /\ AtMostOneCopy' /\ NoCallAfterRejection'
          /\ CentralRejectionHonest' /\ AnswerIsFinal' /\ CallbackConfirmed'
          /\ EventAppeared'
      BY <1>9 DEF WaitRaises, AtMostOneCopy, NoCallAfterRejection, Has,
        StatusIn, CentralRejectionHonest, AnswerIsFinal, CallbackConfirmed,
        EventAppeared
    <2> QED
      BY <2>1, <2>2, <2>3, <2>4, <2>5
  <1>10. ASSUME NEW c \in Callers, MarkSubmitted(c) PROVE IInv'
    <2>1. /\ req[c] \in Requests /\ Has(req[c])
          /\ sends' \in [Requests -> Row \cup {NoRow}]
          /\ \A q \in Requests : Has(q)' <=> Has(q)
      BY <1>10, MoveKeepsRows DEF MarkSubmitted, Frames, TypeOK, Statuses
    <2>2. TypeOK'
      <3>1. told' \in SUBSET (Requests \X Final)
        BY <1>10, <2>1, TellTyped DEF MarkSubmitted, TypeOK
      <3>2. CASE called[c]
        BY <1>10, <2>1, <3>1, <3>2 DEF MarkSubmitted, AfterSubmitted, TypeOK
      <3>3. CASE ~called[c]
        <4>1. Return(c)
          BY <1>10, <3>3 DEF MarkSubmitted, AfterSubmitted
        <4>2. UNCHANGED <<claims, copies, doubt, said, crashes>>
          BY <1>10 DEF MarkSubmitted
        <4> QED
          BY <2>1, <3>1, <4>1, <4>2 DEF Return, TypeOK
      <3> QED
        BY <3>2, <3>3
    <2>3. Frames'
      BY <1>10, <2>1, DistinctAssumption DEF MarkSubmitted, Move, Tell,
        AfterSubmitted, Return, Frames, TypeOK
    <2>4. CopiesFollow'
      BY <1>10, <2>1, DistinctAssumption DEF MarkSubmitted, Move, Tell,
        AfterSubmitted, Return, CopiesFollow, Frames, AtMostOneCopy, TypeOK
    <2>5. NoCallAfterRejection'
      BY <1>10, <2>1, DistinctAssumption DEF MarkSubmitted, Move, Tell,
        AfterSubmitted, Return, NoCallAfterRejection, Frames, Has, StatusIn,
        Row, TypeOK
    <2>6. CentralRejectionHonest'
      BY <1>10, <2>1, DistinctAssumption, CentralAssumption DEF
        MarkSubmitted, Move, Tell, AfterSubmitted, Return,
        CentralRejectionHonest, NoCallAfterRejection, CopiesFollow, Frames,
        Has, StatusIn, Row, TypeOK
    <2>7. AnswerIsFinal'
      BY <1>10, <2>1, DistinctAssumption DEF MarkSubmitted, Move, Tell,
        AfterSubmitted, Return, AnswerIsFinal, Final, Frames, Has, StatusIn,
        Row, TypeOK
    <2>8. CalledMeansTaken'
      BY <1>10, <2>1, DistinctAssumption DEF MarkSubmitted, Move, Tell,
        AfterSubmitted, Return, CalledMeansTaken, CopiesFollow, Frames,
        TypeOK
    <2>9. CallbackConfirmed'
      BY <1>10, <2>1, DistinctAssumption DEF MarkSubmitted, Move, Tell,
        AfterSubmitted, Return, CallbackConfirmed, CalledMeansTaken,
        CopiesFollow, Frames, Has, StatusIn, Row, TypeOK
    <2>10. EventAppeared'
      BY <1>10, <2>1, DistinctAssumption DEF MarkSubmitted, Move, Tell,
        AfterSubmitted, Return, EventAppeared, Frames, Messages, Has,
        StatusIn, Row, TypeOK
    <2>11. AtMostOneCopy'
      BY <1>10 DEF MarkSubmitted, AtMostOneCopy
    <2> QED
      BY <2>2, <2>3, <2>4, <2>5, <2>6, <2>7, <2>8, <2>9, <2>10, <2>11
  <1>11. ASSUME NEW c \in Callers, ConfirmFromCallback(c) PROVE IInv'
    <2>1. /\ req[c] \in Requests /\ Has(req[c])
          /\ sends' \in [Requests -> Row \cup {NoRow}]
          /\ \A q \in Requests : Has(q)' <=> Has(q)
      BY <1>11, MoveKeepsRows DEF ConfirmFromCallback, Frames, TypeOK,
        Statuses
    <2>2. TypeOK'
      BY <1>11, <2>1 DEF ConfirmFromCallback, Move, Tell, Return, TypeOK,
        Final
    <2>3. Frames'
      BY <1>11, <2>1, DistinctAssumption DEF ConfirmFromCallback, Move, Tell,
        Return, Frames, TypeOK
    <2>4. CopiesFollow'
      BY <1>11, <2>1, DistinctAssumption DEF ConfirmFromCallback, Move, Tell,
        Return, CopiesFollow, Frames, AtMostOneCopy, TypeOK
    <2>5. NoCallAfterRejection'
      BY <1>11, <2>1, DistinctAssumption DEF ConfirmFromCallback, Move, Tell,
        Return, NoCallAfterRejection, Frames, Has, StatusIn, Row, TypeOK
    <2>6. CentralRejectionHonest'
      BY <1>11, <2>1, DistinctAssumption, CentralAssumption DEF
        ConfirmFromCallback, Move, Tell, Return, CentralRejectionHonest,
        NoCallAfterRejection, CopiesFollow, Frames, Has, StatusIn, Row,
        TypeOK
    <2>7. AnswerIsFinal'
      BY <1>11, <2>1, DistinctAssumption DEF ConfirmFromCallback, Move, Tell,
        Return, AnswerIsFinal, Final, Frames, Has, StatusIn, Row, TypeOK
    <2>8. CalledMeansTaken'
      BY <1>11, <2>1, DistinctAssumption DEF ConfirmFromCallback, Move, Tell,
        Return, CalledMeansTaken, CopiesFollow, Frames, TypeOK
    <2>9. CallbackConfirmed'
      BY <1>11, <2>1, DistinctAssumption DEF ConfirmFromCallback, Move, Tell,
        Return, CallbackConfirmed, CalledMeansTaken, CopiesFollow, Frames,
        Has, StatusIn, Row, TypeOK
    <2>10. EventAppeared'
      BY <1>11, <2>1, DistinctAssumption DEF ConfirmFromCallback, Move, Tell,
        Return, EventAppeared, Frames, Messages, Has, StatusIn, Row, TypeOK
    <2>11. AtMostOneCopy'
      BY <1>11 DEF ConfirmFromCallback, AtMostOneCopy
    <2> QED
      BY <2>2, <2>3, <2>4, <2>5, <2>6, <2>7, <2>8, <2>9, <2>10, <2>11
  <1>12. ASSUME NEW c \in Callers, MarkRejected(c) PROVE IInv'
    <2>1. /\ req[c] \in Requests /\ Has(req[c])
          /\ sends' \in [Requests -> Row \cup {NoRow}]
          /\ \A q \in Requests : Has(q)' <=> Has(q)
      BY <1>12, MoveKeepsRows DEF MarkRejected, Frames, TypeOK, Statuses
    <2>2. TypeOK'
      BY <1>12, <2>1 DEF MarkRejected, Move, Tell, Return, TypeOK, Final
    <2>3. Frames'
      BY <1>12, <2>1, DistinctAssumption DEF MarkRejected, Move, Tell,
        Return, Frames, TypeOK
    <2>4. CopiesFollow'
      BY <1>12, <2>1, DistinctAssumption DEF MarkRejected, Move, Tell,
        Return, CopiesFollow, Frames, AtMostOneCopy, TypeOK
    <2>5. NoCallAfterRejection'
      BY <1>12, <2>1, DistinctAssumption DEF MarkRejected, Move, Tell,
        Return, NoCallAfterRejection, Frames, Has, StatusIn, Row, TypeOK
    <2>6. CentralRejectionHonest'
      BY <1>12, <2>1, DistinctAssumption, CentralAssumption DEF MarkRejected,
        Move, Tell, Return, CentralRejectionHonest, NoCallAfterRejection,
        CopiesFollow, Frames, Has, StatusIn, Row, TypeOK
    <2>7. AnswerIsFinal'
      BY <1>12, <2>1, DistinctAssumption DEF MarkRejected, Move, Tell,
        Return, AnswerIsFinal, Final, Frames, Has, StatusIn, Row, TypeOK
    <2>8. CalledMeansTaken'
      BY <1>12, <2>1, DistinctAssumption DEF MarkRejected, Move, Tell,
        Return, CalledMeansTaken, CopiesFollow, Frames, TypeOK
    <2>9. CallbackConfirmed'
      BY <1>12, <2>1, DistinctAssumption DEF MarkRejected, Move, Tell,
        Return, CallbackConfirmed, CalledMeansTaken, CopiesFollow, Frames,
        Has, StatusIn, Row, TypeOK
    <2>10. EventAppeared'
      BY <1>12, <2>1, DistinctAssumption DEF MarkRejected, Move, Tell,
        Return, EventAppeared, Frames, Messages, Has, StatusIn, Row, TypeOK
    <2>11. AtMostOneCopy'
      BY <1>12 DEF MarkRejected, AtMostOneCopy
    <2> QED
      BY <2>2, <2>3, <2>4, <2>5, <2>6, <2>7, <2>8, <2>9, <2>10, <2>11
  <1>13. ASSUME NEW c \in Callers, MarkFault(c) PROVE IInv'
    <2>1. /\ req[c] \in Requests /\ Has(req[c])
          /\ sends' \in [Requests -> Row \cup {NoRow}]
          /\ \A q \in Requests : Has(q)' <=> Has(q)
      BY <1>13, MoveKeepsRows DEF MarkFault, Frames, TypeOK, Statuses
    <2>2. TypeOK'
      BY <1>13, <2>1 DEF MarkFault, Move, Return, TypeOK, Final
    <2>3. Frames'
      BY <1>13, <2>1, DistinctAssumption DEF MarkFault, Move, Return, Frames,
        TypeOK
    <2>4. CopiesFollow'
      BY <1>13, <2>1, DistinctAssumption DEF MarkFault, Move, Return,
        CopiesFollow, Frames, AtMostOneCopy, TypeOK
    <2>5. NoCallAfterRejection'
      BY <1>13, <2>1, DistinctAssumption DEF MarkFault, Move, Return,
        NoCallAfterRejection, Frames, Has, StatusIn, Row, TypeOK
    <2>6. CentralRejectionHonest'
      BY <1>13, <2>1, DistinctAssumption, CentralAssumption DEF MarkFault,
        Move, Return, CentralRejectionHonest, NoCallAfterRejection,
        CopiesFollow, Frames, Has, StatusIn, Row, TypeOK
    <2>7. AnswerIsFinal'
      BY <1>13, <2>1, DistinctAssumption DEF MarkFault, Move, Return,
        AnswerIsFinal, Final, Frames, Has, StatusIn, Row, TypeOK
    <2>8. CalledMeansTaken'
      BY <1>13, <2>1, DistinctAssumption DEF MarkFault, Move, Return,
        CalledMeansTaken, CopiesFollow, Frames, TypeOK
    <2>9. CallbackConfirmed'
      BY <1>13, <2>1, DistinctAssumption DEF MarkFault, Move, Return,
        CallbackConfirmed, CalledMeansTaken, CopiesFollow, Frames, Has,
        StatusIn, Row, TypeOK
    <2>10. EventAppeared'
      BY <1>13, <2>1, DistinctAssumption DEF MarkFault, Move, Return,
        EventAppeared, Frames, Messages, Has, StatusIn, Row, TypeOK
    <2>11. AtMostOneCopy'
      BY <1>13 DEF MarkFault, AtMostOneCopy
    <2> QED
      BY <2>2, <2>3, <2>4, <2>5, <2>6, <2>7, <2>8, <2>9, <2>10, <2>11
  <1>14. ASSUME NEW cutoff \in 1..claims, Expire(cutoff) PROVE IInv'
    <2>1. /\ sends' \in [Requests -> Row \cup {NoRow}]
          /\ \A q \in Requests : Has(q)' <=> Has(q)
      BY <1>14, DistinctAssumption DEF Expire, TypeOK, Has, StatusIn, Row,
        Statuses
    <2>2. TypeOK'
      BY <1>14, <2>1 DEF Expire, TypeOK, Final
    <2>3. Frames'
      BY <1>14, <2>1, DistinctAssumption DEF Expire, Frames, TypeOK
    <2>4. CopiesFollow'
      BY <1>14, <2>1, DistinctAssumption DEF Expire, CopiesFollow, Frames,
        AtMostOneCopy, TypeOK
    <2>5. NoCallAfterRejection'
      BY <1>14, <2>1, DistinctAssumption DEF Expire, NoCallAfterRejection,
        Frames, Has, StatusIn, Row, TypeOK
    <2>6. CentralRejectionHonest'
      BY <1>14, <2>1, DistinctAssumption, CentralAssumption DEF Expire,
        CentralRejectionHonest, NoCallAfterRejection, CopiesFollow, Frames,
        Has, StatusIn, Row, TypeOK
    <2>7. AnswerIsFinal'
      BY <1>14, <2>1, DistinctAssumption DEF Expire, AnswerIsFinal, Final,
        Frames, Has, StatusIn, Row, TypeOK
    <2>8. CallbackConfirmed'
      BY <1>14, <2>1, DistinctAssumption DEF Expire, CallbackConfirmed,
        CalledMeansTaken, CopiesFollow, Frames, Has, StatusIn, Row, TypeOK
    <2>9. EventAppeared'
      BY <1>14, <2>1, DistinctAssumption DEF Expire, EventAppeared, Frames,
        Messages, Has, StatusIn, Row, TypeOK
    <2>10. /\ AtMostOneCopy' /\ CalledMeansTaken'
      BY <1>14 DEF Expire, AtMostOneCopy, CalledMeansTaken
    <2> QED
      BY <2>2, <2>3, <2>4, <2>5, <2>6, <2>7, <2>8, <2>9, <2>10
  <1>15. ASSUME NEW m \in Messages, ConfirmFromEvent(m) PROVE IInv'
    <2>1. PICK q \in Requests :
            /\ \/ StatusIn(q, {"in_flight", "submitted", "unknown"})
               \/ StatusIn(q, {"confirmed"}) /\ sends[q].event = NoEvent
            /\ sends[q].payload = said[m].payload
            /\ sends' = [sends EXCEPT ![q].status = "confirmed", ![q].event = m]
      BY <1>15 DEF ConfirmFromEvent, Candidates
    <2>2. /\ sends' \in [Requests -> Row \cup {NoRow}]
          /\ \A x \in Requests : Has(x)' <=> Has(x)
      <3>1. sends[q] \in Row /\ Has(q)
        BY <2>1 DEF TypeOK, StatusIn, Has
      <3>2. [sends[q] EXCEPT !.status = "confirmed", !.event = m] \in Row
        BY <3>1 DEF Row, Statuses
      <3>3. sends' = [sends EXCEPT ![q] =
                [sends[q] EXCEPT !.status = "confirmed", !.event = m]]
        BY <2>1, <3>1 DEF TypeOK
      <3> QED
        BY <3>1, <3>2, <3>3, DistinctAssumption DEF TypeOK, Has
    <2>3. TypeOK'
      BY <1>15, <2>1, <2>2 DEF ConfirmFromEvent, TypeOK, Final
    <2>4. Frames'
      BY <1>15, <2>1, <2>2, DistinctAssumption DEF ConfirmFromEvent, Frames,
        TypeOK
    <2>5. CopiesFollow'
      BY <1>15, <2>1, <2>2, DistinctAssumption DEF ConfirmFromEvent,
        CopiesFollow, Frames, AtMostOneCopy, TypeOK
    <2>6. NoCallAfterRejection'
      BY <1>15, <2>1, <2>2, DistinctAssumption DEF ConfirmFromEvent,
        NoCallAfterRejection, Frames, Has, StatusIn, Row, TypeOK
    <2>7. CentralRejectionHonest'
      BY <1>15, <2>1, <2>2, DistinctAssumption, CentralAssumption DEF
        ConfirmFromEvent, CentralRejectionHonest, NoCallAfterRejection,
        CopiesFollow, Frames, Has, StatusIn, Row, TypeOK
    <2>8. AnswerIsFinal'
      BY <1>15, <2>1, <2>2, DistinctAssumption DEF ConfirmFromEvent,
        AnswerIsFinal, Final, Frames, Has, StatusIn, Row, TypeOK
    <2>9. CallbackConfirmed'
      BY <1>15, <2>1, <2>2, DistinctAssumption DEF ConfirmFromEvent,
        CallbackConfirmed, CalledMeansTaken, CopiesFollow, Frames, Has,
        StatusIn, Row, TypeOK
    <2>10. EventAppeared'
      BY <1>15, <2>1, <2>2, DistinctAssumption DEF ConfirmFromEvent,
        EventAppeared, Frames, Messages, Has, StatusIn, Row, TypeOK
    <2>11. /\ AtMostOneCopy' /\ CalledMeansTaken'
      BY <1>15 DEF ConfirmFromEvent, AtMostOneCopy, CalledMeansTaken
    <2> QED
      BY <2>3, <2>4, <2>5, <2>6, <2>7, <2>8, <2>9, <2>10, <2>11
  <1>16. ASSUME NEW r \in Requests, Appear(r) PROVE IInv'
    <2>1. TypeOK'
      BY <1>16 DEF Appear, TypeOK, CopiesFollow, Has, Row, Messages
    <2>2. CopiesFollow'
      BY <1>16, DistinctAssumption DEF Appear, CopiesFollow, Frames,
        AtMostOneCopy, Has, Row, TypeOK
    <2>3. CalledMeansTaken'
      BY <1>16, DistinctAssumption DEF Appear, CalledMeansTaken,
        CopiesFollow, Frames, TypeOK
    <2>4. CallbackConfirmed'
      BY <1>16, DistinctAssumption DEF Appear, CallbackConfirmed,
        CalledMeansTaken, CopiesFollow, Frames, Has, StatusIn, Row, TypeOK
    <2>5. EventAppeared'
      BY <1>16, DistinctAssumption DEF Appear, EventAppeared, Frames,
        Messages, Has, StatusIn, Row, TypeOK
    <2>6. /\ Frames' /\ AtMostOneCopy' /\ NoCallAfterRejection'
          /\ CentralRejectionHonest' /\ AnswerIsFinal'
      BY <1>16 DEF Appear, Frames, Has, AtMostOneCopy, NoCallAfterRejection,
        StatusIn, CentralRejectionHonest, AnswerIsFinal
    <2> QED
      BY <2>1, <2>2, <2>3, <2>4, <2>5, <2>6
  <1>17. ASSUME NEW r \in Requests, RejectUnheard(r) PROVE IInv'
    <2>1. TypeOK'
      BY <1>17 DEF RejectUnheard, TypeOK, Frames, CopiesFollow
    <2>2. CopiesFollow'
      BY <1>17, DistinctAssumption DEF RejectUnheard, CopiesFollow, Frames,
        AtMostOneCopy, Has, Row, TypeOK
    <2>3. AtMostOneCopy'
      BY <1>17, DistinctAssumption DEF RejectUnheard, AtMostOneCopy,
        CopiesFollow, Frames, TypeOK
    <2>4. CentralRejectionHonest'
      BY <1>17, DistinctAssumption, CentralAssumption DEF RejectUnheard,
        CentralRejectionHonest, NoCallAfterRejection, CopiesFollow, Frames,
        Has, StatusIn, Row, TypeOK
    <2>5. CalledMeansTaken'
      BY <1>17, DistinctAssumption DEF RejectUnheard, CalledMeansTaken,
        CopiesFollow, Frames, TypeOK
    <2>6. CallbackConfirmed'
      BY <1>17, DistinctAssumption DEF RejectUnheard, CallbackConfirmed,
        CalledMeansTaken, CopiesFollow, Frames, Has, StatusIn, Row, TypeOK
    <2>7. /\ Frames' /\ NoCallAfterRejection' /\ AnswerIsFinal'
          /\ EventAppeared'
      BY <1>17 DEF RejectUnheard, Frames, Has, NoCallAfterRejection,
        StatusIn, AnswerIsFinal, EventAppeared
    <2> QED
      BY <2>1, <2>2, <2>3, <2>4, <2>5, <2>6, <2>7
  <1>18. ASSUME NEW m \in Manual, NEW p \in Payloads,
         TypeByHand(m, p) PROVE IInv'
    <2>1. TypeOK'
      BY <1>18 DEF TypeByHand, TypeOK, Messages
    <2>2. EventAppeared'
      BY <1>18, DistinctAssumption DEF TypeByHand, EventAppeared, Frames,
        Messages, Has, StatusIn, Row, TypeOK
    <2>3. /\ Frames' /\ CopiesFollow' /\ AtMostOneCopy'
          /\ NoCallAfterRejection' /\ CentralRejectionHonest'
          /\ AnswerIsFinal' /\ CalledMeansTaken' /\ CallbackConfirmed'
      BY <1>18 DEF TypeByHand, Frames, Has, CopiesFollow, AtMostOneCopy,
        NoCallAfterRejection, StatusIn, CentralRejectionHonest,
        AnswerIsFinal, CalledMeansTaken, CallbackConfirmed
    <2> QED
      BY <2>1, <2>2, <2>3
  <1>19. CASE Crash
    <2>1. TypeOK'
      BY <1>19 DEF Crash, TypeOK
    <2>2. Frames'
      BY <1>19, DistinctAssumption DEF Crash, Frames, Has, Row, TypeOK
    <2>3. CopiesFollow'
      BY <1>19, DistinctAssumption DEF Crash, CopiesFollow, Frames,
        AtMostOneCopy, Has, Row, TypeOK
    <2>4. NoCallAfterRejection'
      BY <1>19, DistinctAssumption DEF Crash, NoCallAfterRejection, Frames,
        Has, StatusIn, Row, TypeOK
    <2>5. CalledMeansTaken'
      BY <1>19, DistinctAssumption DEF Crash, CalledMeansTaken, CopiesFollow,
        Frames, TypeOK
    <2>6. CallbackConfirmed'
      BY <1>19, DistinctAssumption DEF Crash, CallbackConfirmed,
        CalledMeansTaken, CopiesFollow, Frames, Has, StatusIn, Row, TypeOK
    <2>7. /\ AtMostOneCopy' /\ CentralRejectionHonest' /\ AnswerIsFinal'
          /\ EventAppeared'
      BY <1>19 DEF Crash, AtMostOneCopy, CentralRejectionHonest, Has,
        StatusIn, AnswerIsFinal, EventAppeared
    <2> QED
      BY <2>1, <2>2, <2>3, <2>4, <2>5, <2>6, <2>7
  <1>20. CASE UNCHANGED vars
    BY <1>20 DEF vars, TypeOK, Frames, CopiesFollow, AtMostOneCopy,
      NoCallAfterRejection, CentralRejectionHonest, AnswerIsFinal,
      CalledMeansTaken, CallbackConfirmed, EventAppeared, Has, StatusIn
  <1> QED
    BY <1>1, <1>2, <1>3, <1>4, <1>5, <1>6, <1>7, <1>8, <1>9, <1>10, <1>11,
      <1>12, <1>13, <1>14, <1>15, <1>16, <1>17, <1>18, <1>19, <1>20 DEF Next,
      Caller, Attempt, Await, Record, Sweep

\* The inductive invariant holds in every reachable state.
THEOREM Invariance == Spec => []IInv
  BY InitHolds, StepHolds, PTL DEF Spec

\* Every variable keeps its type: no counter of copies, for one, goes negative
\* when a rejection arrives late.
THEOREM TypeCorrect == Spec => []TypeOK
  BY Invariance, PTL DEF IInv

\* send_text never leaves a buyer with two copies of the text of one request,
\* for any number of callers, retries and crashes.
THEOREM CopiesBounded == Spec => []AtMostOneCopy
  BY Invariance, PTL DEF IInv

\* A Tmall receipt that says "rejected" is proof that nothing was sent.
THEOREM CentralHonest == Spec => []CentralRejectionHonest
  BY Invariance, PTL DEF IInv

\* A caller that was told "confirmed" or "rejected" is never contradicted.
THEOREM AnswersHold == Spec => []AnswerIsFinal
  BY Invariance, PTL DEF IInv

\* A receipt says "confirmed" on the word of MessageSDK or of an equal message
\* that appeared: the two ways a row gets the status leave different traces.
THEOREM ConfirmedSound == Spec => []ConfirmedHasEvidence
  <1>1. IInv => ConfirmedHasEvidence
    BY DEF IInv, CallbackConfirmed, EventAppeared, ConfirmedHasEvidence, StatusIn
  <1> QED
    BY <1>1, Invariance, PTL

-----------------------------------------------------------------------------
(* SendReceipts implements SendOutcome: initial states map to initial states *)
(* and steps to steps or stutters.                                           *)

\* What a reader of the receipt of r sees, when the table is t.
SeenIn(t, r) ==
    IF t[r] = NoRow THEN "none"
    ELSE IF t[r].status \in {"in_flight", "submitted"} THEN "open"
    ELSE t[r].status

\* The refinement mapping, now and in the next state, row by row.
LEMMA ReceiptSeen ==
    /\ Receipt = [r \in Requests |-> SeenIn(sends, r)]
    /\ Receipt' = [r \in Requests |-> SeenIn(sends', r)]
  BY DEF Receipt, SeenIn, Has

\* A step that leaves the table and the copies alone is a stutter.
LEMMA Stutters ==
    ASSUME UNCHANGED <<sends, copies>>
    PROVE  UNCHANGED Outcome!vars
  BY ReceiptSeen DEF Outcome!vars, SeenIn

\* Handing over a text is Deliver: the request has a row and no copy is out.
LEMMA HandOverDelivers ==
    ASSUME IInv, NEW r \in Requests, Has(r), copies[r] = 0, HandOver(r),
           UNCHANGED sends
    PROVE  Outcome!Deliver(r)
  <1>1. Receipt[r] # "none"
    BY ReceiptSeen, DistinctAssumption
    DEF SeenIn, Has, IInv, TypeOK, Row, Statuses
  <1>2. UNCHANGED Receipt
    BY ReceiptSeen DEF SeenIn
  <1>3. copies' = [copies EXCEPT ![r] = 1]
    BY DEF HandOver, IInv, TypeOK
  <1> QED
    BY <1>1, <1>2, <1>3 DEF Outcome!Deliver

\* A rejection after acceptance is Recall.
LEMMA RejectionRecalls ==
    ASSUME IInv, NEW r \in doubt, copies' = [copies EXCEPT ![r] = @ - 1],
           UNCHANGED sends
    PROVE  Outcome!Recall(r)
  <1>1. r \in Requests /\ copies[r] = 1
    BY DEF IInv, TypeOK, CopiesFollow
  <1>2. UNCHANGED Receipt
    BY ReceiptSeen DEF SeenIn
  <1> QED
    BY <1>1, <1>2 DEF Outcome!Recall, IInv, TypeOK

\* An UPDATE of one row either finds it in "from" and changes it alone, or
\* changes nothing.
LEMMA MoveSeen ==
    ASSUME TypeOK, NEW r \in Requests, NEW from, NEW to \in Statuses,
           Move(r, from, to)
    PROVE  \/ UNCHANGED Receipt
           \/ /\ StatusIn(r, from)
              /\ Receipt' = [Receipt EXCEPT ![r] =
                    IF to \in {"in_flight", "submitted"} THEN "open" ELSE to]
  <1>1. CASE ~StatusIn(r, from)
    BY <1>1, ReceiptSeen DEF Move, SeenIn
  <1>2. CASE StatusIn(r, from)
    <2>1. sends[r] \in Row /\ sends' = [sends EXCEPT ![r].status = to]
      BY <1>2 DEF Move, StatusIn, Has, TypeOK
    <2>2. sends'[r] \in Row /\ sends'[r].status = to
      BY <2>1 DEF Row, TypeOK
    <2>3. \A q \in Requests \ {r} : sends'[q] = sends[q]
      BY <2>1 DEF TypeOK
    <2>4. SeenIn(sends', r) =
            IF to \in {"in_flight", "submitted"} THEN "open" ELSE to
      BY <2>2, DistinctAssumption DEF SeenIn
    <2>5. \A q \in Requests \ {r} : SeenIn(sends', q) = SeenIn(sends, q)
      BY <2>3 DEF SeenIn
    <2> QED
      BY <1>2, <2>4, <2>5, ReceiptSeen
  <1> QED
    BY <1>1, <1>2

\* The empty table maps to "none" everywhere.
LEMMA InitRefines == Init => Outcome!Init
  BY ReceiptSeen DEF Init, Outcome!Init, SeenIn

\* Every step of the detailed system is a step of the promise, or a stutter.
LEMMA StepRefines == IInv /\ [Next]_vars => [Outcome!Next]_(Outcome!vars)
  <1> SUFFICES ASSUME IInv, [Next]_vars
               PROVE  Outcome!Next \/ UNCHANGED Outcome!vars
    OBVIOUS
  <1> USE DEF db, callers, native
  <1>a. TypeOK
    BY DEF IInv
  <1>b. \A c \in Callers : pc[c] # "idle" => req[c] \in Requests /\ Has(req[c])
    BY DEF IInv, Frames, TypeOK
  <1>1. ASSUME NEW c \in Callers, NEW r \in Requests, NEW p \in Payloads,
               Claim(c, r, p)
        PROVE  Outcome!Next
    <2> DEFINE new == [status |-> "in_flight", payload |-> p,
                       created |-> claims + 1, event |-> NoEvent]
    <2>1. new \in Row /\ new.status = "in_flight"
      BY <1>a DEF TypeOK, Row, Statuses
    <2>2. sends[r] = NoRow /\ sends' = [sends EXCEPT ![r] = new]
      BY <1>1 DEF Claim, Has
    <2> HIDE DEF new
    <2>3. SeenIn(sends, r) = "none" /\ SeenIn(sends', r) = "open"
      BY <1>a, <2>1, <2>2, DistinctAssumption DEF SeenIn, TypeOK
    <2>4. \A q \in Requests \ {r} : SeenIn(sends', q) = SeenIn(sends, q)
      BY <1>a, <2>2 DEF SeenIn, TypeOK
    <2>5. Outcome!Open(r)
      BY <1>1, <2>3, <2>4, ReceiptSeen DEF Claim, Outcome!Open
    <2> QED
      BY <2>5 DEF Outcome!Next
  <1>2. ASSUME NEW c \in Callers, NativeRaises(c) \/ NativeAccepts(c)
        PROVE  Outcome!Next \/ UNCHANGED Outcome!vars
    <2>1. copies[req[c]] = 0 /\ UNCHANGED sends
      BY <1>2 DEF NativeRaises, NativeAccepts, IInv, CopiesFollow
    <2>2. CASE HandOver(req[c])
      BY <1>2, <1>b, <2>1, <2>2, HandOverDelivers
      DEF NativeRaises, NativeAccepts, Outcome!Next
    <2>3. CASE UNCHANGED copies
      BY <2>1, <2>3, Stutters
    <2> QED
      BY <1>2, <2>2, <2>3 DEF NativeRaises, NativeAccepts
  <1>3. ASSUME NEW c \in Callers, CallbackRejects(c)
        PROVE  Outcome!Next
    <2>1. Outcome!Recall(req[c])
      BY <1>3, RejectionRecalls DEF CallbackRejects
    <2> QED
      BY <1>3, <1>b, <2>1 DEF CallbackRejects, Outcome!Next
  <1>4. ASSUME NEW r \in Requests, RejectUnheard(r)
        PROVE  Outcome!Next
    BY <1>4, RejectionRecalls DEF RejectUnheard, Outcome!Next
  <1>5. ASSUME NEW c \in Callers, MarkSubmitted(c)
        PROVE  UNCHANGED Outcome!vars
    <2>1. /\ req[c] \in Requests /\ UNCHANGED copies
          /\ Move(req[c], {"in_flight"}, "submitted")
      BY <1>5, <1>b DEF MarkSubmitted
    <2>2. StatusIn(req[c], {"in_flight"}) => Receipt[req[c]] = "open"
      BY <2>1, ReceiptSeen DEF SeenIn, StatusIn, Has
    <2>3. UNCHANGED Receipt
      BY <1>a, <2>1, <2>2, MoveSeen, ReceiptSeen DEF Statuses
    <2> QED
      BY <2>1, <2>3 DEF Outcome!vars
  <1>6. ASSUME NEW c \in Callers, ConfirmFromCallback(c)
        PROVE  Outcome!Next \/ UNCHANGED Outcome!vars
    <2> DEFINE from == {"in_flight", "submitted", "unknown"}
    <2>1. /\ req[c] \in Requests /\ UNCHANGED copies
          /\ Move(req[c], from, "confirmed")
      BY <1>6, <1>b DEF ConfirmFromCallback
    <2>2. StatusIn(req[c], from) => Receipt[req[c]] \in {"open", "unknown"}
      BY <2>1, ReceiptSeen DEF SeenIn, StatusIn, Has
    <2>3. \/ UNCHANGED Receipt
          \/ /\ StatusIn(req[c], from)
             /\ Receipt' = [Receipt EXCEPT ![req[c]] = "confirmed"]
      BY <1>a, <2>1, MoveSeen DEF Statuses
    <2> QED
      BY <2>1, <2>2, <2>3 DEF Outcome!vars, Outcome!Confirm, Outcome!Next
  <1>7. ASSUME NEW c \in Callers, MarkRejected(c) \/ MarkFault(c)
        PROVE  Outcome!Next \/ UNCHANGED Outcome!vars
    <2>1. PICK to \in {"rejected", "unknown"} :
            /\ req[c] \in Requests /\ UNCHANGED copies
            /\ Move(req[c], {"in_flight"}, to)
      BY <1>7, <1>b DEF MarkRejected, MarkFault
    <2>2. StatusIn(req[c], {"in_flight"}) => Receipt[req[c]] = "open"
      BY <2>1, ReceiptSeen DEF SeenIn, StatusIn, Has
    <2>3. \/ UNCHANGED Receipt
          \/ /\ StatusIn(req[c], {"in_flight"})
             /\ Receipt' = [Receipt EXCEPT ![req[c]] = to]
      BY <1>a, <2>1, MoveSeen DEF Statuses
    <2>4. CASE UNCHANGED Receipt
      BY <2>1, <2>4 DEF Outcome!vars
    <2>5. CASE /\ StatusIn(req[c], {"in_flight"})
               /\ Receipt' = [Receipt EXCEPT ![req[c]] = "rejected"]
      BY <2>1, <2>2, <2>5 DEF Outcome!Reject, Outcome!Next
    <2>6. CASE /\ StatusIn(req[c], {"in_flight"})
               /\ Receipt' = [Receipt EXCEPT ![req[c]] = "unknown"]
      <3>1. Receipt' = [q \in Requests |->
              IF q \in {req[c]} THEN "unknown" ELSE Receipt[q]]
        BY <2>6, ReceiptSeen
      <3>2. Outcome!GiveUp({req[c]})
        BY <2>1, <2>2, <2>6, <3>1 DEF Outcome!GiveUp
      <3> QED
        BY <2>1, <3>2 DEF Outcome!Next
    <2> QED
      BY <2>3, <2>4, <2>5, <2>6
  <1>8. ASSUME NEW cutoff \in 1..claims, Expire(cutoff)
        PROVE  Outcome!Next
    <2> DEFINE old == {r \in Requests : /\ StatusIn(r, {"in_flight", "submitted"})
                                        /\ sends[r].created <= cutoff}
    <2>1. /\ old # {} /\ UNCHANGED copies
          /\ sends' = [r \in Requests |->
                IF r \in old THEN [sends[r] EXCEPT !.status = "unknown"]
                ELSE sends[r]]
      BY <1>8 DEF Expire
    <2>2. \A r \in old : /\ r \in Requests /\ sends[r] \in Row
                         /\ SeenIn(sends, r) = "open"
      BY <1>a DEF StatusIn, Has, SeenIn, TypeOK
    <2> HIDE DEF old
    <2>3. \A r \in old : sends'[r] \in Row /\ sends'[r].status = "unknown"
      BY <2>1, <2>2 DEF Row, Statuses
    <2>4. \A r \in old : SeenIn(sends', r) = "unknown"
      BY <2>3, DistinctAssumption DEF SeenIn
    <2>5. \A r \in Requests \ old : SeenIn(sends', r) = SeenIn(sends, r)
      BY <2>1 DEF SeenIn
    <2>6. old \in SUBSET Requests
      BY <2>2
    <2>7. Receipt' = [r \in Requests |->
            IF r \in old THEN "unknown" ELSE Receipt[r]]
      BY <2>4, <2>5, ReceiptSeen
    <2>8. Outcome!GiveUp(old)
      BY <2>1, <2>2, <2>7, ReceiptSeen DEF Outcome!GiveUp
    <2> QED
      BY <2>6, <2>8 DEF Outcome!Next
  <1>9. ASSUME NEW m \in Messages, ConfirmFromEvent(m)
        PROVE  Outcome!Next \/ UNCHANGED Outcome!vars
    <2>1. PICK r \in Requests :
            /\ Has(r)
            /\ sends[r].status \in {"in_flight", "submitted", "unknown", "confirmed"}
            /\ sends' = [sends EXCEPT ![r].status = "confirmed", ![r].event = m]
      BY <1>9 DEF ConfirmFromEvent, Candidates, StatusIn
    <2>2. sends[r] \in Row
      BY <1>a, <2>1 DEF Has, TypeOK
    <2>3. sends'[r] \in Row /\ sends'[r].status = "confirmed"
      BY <1>a, <2>1, <2>2 DEF Row, Statuses, TypeOK
    <2>4. SeenIn(sends', r) = "confirmed"
      BY <2>3, DistinctAssumption DEF SeenIn
    <2>5. SeenIn(sends, r) \in {"open", "unknown", "confirmed"}
      BY <2>1 DEF SeenIn, Has
    <2>6. \A q \in Requests \ {r} : SeenIn(sends', q) = SeenIn(sends, q)
      BY <1>a, <2>1 DEF SeenIn, TypeOK
    <2>7. /\ Receipt' = [Receipt EXCEPT ![r] = "confirmed"]
          /\ Receipt[r] = "confirmed" => UNCHANGED Receipt
      BY <2>4, <2>6, ReceiptSeen
    <2>8. UNCHANGED copies
      BY <1>9 DEF ConfirmFromEvent
    <2> QED
      BY <2>5, <2>7, <2>8, ReceiptSeen
      DEF Outcome!vars, Outcome!Confirm, Outcome!Next
  <1>10. ASSUME NEW c \in Callers, NEW r \in Requests, NEW p \in Payloads,
                Repeat(c, r, p)
         PROVE  UNCHANGED Outcome!vars
    BY <1>10, Stutters DEF Repeat
  <1>11. ASSUME NEW c \in Callers,
                \/ NativeRefuses(c) \/ CallbackOk(c)
                \/ CallbackMissing(c) \/ WaitRaises(c)
         PROVE  UNCHANGED Outcome!vars
    BY <1>11, Stutters DEF NativeRefuses, CallbackOk, CallbackMissing, WaitRaises
  <1>12. ASSUME NEW r \in Requests, Appear(r)
         PROVE  UNCHANGED Outcome!vars
    BY <1>12, Stutters DEF Appear
  <1>13. ASSUME NEW m \in Manual, NEW p \in Payloads, TypeByHand(m, p)
         PROVE  UNCHANGED Outcome!vars
    BY <1>13, Stutters DEF TypeByHand
  <1>14. CASE Crash \/ UNCHANGED vars
    BY <1>14, Stutters DEF Crash, vars
  <1> QED
    BY <1>1, <1>2, <1>3, <1>4, <1>5, <1>6, <1>7, <1>8, <1>9, <1>10, <1>11,
      <1>12, <1>13, <1>14
    DEF Next, Caller, Attempt, Await, Record, Sweep

\* The receipts table, its writers and the native calls implement the promise
\* of SendOutcome: one copy at a time, and settled receipts stay.
THEOREM Refines == Spec => ImplementsOutcome
  BY InitRefines, StepRefines, Invariance, PTL
  DEF Spec, ImplementsOutcome, Outcome!Spec
=============================================================================
