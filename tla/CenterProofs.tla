---------------------------- MODULE CenterProofs -----------------------------
(* Proofs about what a seat and the center agree on, as MCCenter puts it      *)
(* together: each part is an instance of a module that is proved about, for   *)
(* any conversations, requests, payloads and bounds.                          *)
EXTENDS MCCenter, SessionControlProofs

Shopping == INSTANCE SessionControlProofs WITH
    Ordinary <- {}, Guarded <- {"g"}, Executors <- {}, MaxKeywords <- 0,
    MaxAnswers <- 0, MaxFailures <- 0,
    Nothing <- None, ctl <- gCtl, brain <- gBrain, pushed <- gPushed,
    hand <- gHand, pc <- gPc, remote <- gRemote, todo <- gTodo,
    ingest <- gIngest, op <- gOp, checked <- gChecked, late <- gLate,
    changes <- gChanges, switches <- gSwitches, keywords <- gKeywords,
    answers <- gAnswers, failures <- gFailures

Sending == INSTANCE SendReceiptsProofs WITH
    Callers <- {"c1", "c2"}, Manual <- {},
    NoRow <- None, NoRequest <- None, NoEvent <- None, NotSaid <- None,
    sends <- mSends, claims <- mClaims, pc <- mPc, req <- mReq,
    tries <- mTries, called <- mCalled, told <- mTold, copies <- mCopies,
    doubt <- mDoubt, said <- mSaid, crashes <- mCrashes

\* A step is one of the part at work, and all else stays.
LEMMA StepOfPart ==
    ASSUME [PartsNext]_all
    PROVE  /\ part' = part
           /\ [Next]_vars
           /\ [Shop!Next]_guarded
           /\ [Sends!Next]_sends
  BY DEF PartsNext, Rest, all

\* The parts begin as the instances do.
LEMMA PartsBegin == PartsInit => Init /\ Shopping!Init /\ Sending!Init
  BY DEF PartsInit, Shop!Init, Shopping!Init, Sends!Init, Sending!Init,
         Shop!Sessions, Shopping!Sessions, Shop!Default, Shopping!Default,
         Shop!Appliers, Shopping!Appliers, Shop!Free, Shopping!Free,
         Sends!Messages, Sending!Messages

\* A step of the guarded account, or of the sends, is one of the instance.
LEMMA ShopSteps == Shop!Next => Shopping!Next
  BY
  DEF Shop!Next, Shopping!Next, Shop!BrainDecides, Shopping!BrainDecides,
      Shop!Tell, Shopping!Tell, Shop!SwitchAsked, Shopping!SwitchAsked,
      Shop!KeywordSeen, Shopping!KeywordSeen, Shop!Expire, Shopping!Expire,
      Shop!StateCommand, Shopping!StateCommand, Shop!Resume, Shopping!Resume,
      Shop!Pause, Shopping!Pause, Shop!FetchPage, Shopping!FetchPage,
      Shop!PollTells, Shopping!PollTells, Shop!DraftSync, Shopping!DraftSync,
      Shop!Check, Shopping!Check, Shop!SwitchConfirmed,
      Shopping!SwitchConfirmed, Shop!SwitchRefused, Shopping!SwitchRefused,
      Shop!KeywordHolds, Shopping!KeywordHolds, Shop!Look, Shopping!Look,
      Shop!Apply, Shopping!Apply, Shop!PollBegins, Shopping!PollBegins,
      Shop!PollFails, Shopping!PollFails, Shop!PollAnswered,
      Shopping!PollAnswered, Shop!PollCompares, Shopping!PollCompares,
      Shop!PollEnds, Shopping!PollEnds, Shop!Answer, Shopping!Answer,
      Shop!SetControl, Shopping!SetControl, Shop!Human, Shopping!Human,
      Shop!Held, Shopping!Held, Shop!Told, Shopping!Told, Shop!MayHold,
      Shopping!MayHold, Shop!MayRelease, Shopping!MayRelease, Shop!PollFree,
      Shopping!PollFree, Shop!HandoffControls, Shopping!HandoffControls,
      Shop!Sessions, Shopping!Sessions, Shop!Sources, Shopping!Sources,
      Shop!Controls, Shopping!Controls, Shop!Default, Shopping!Default,
      Shop!Appliers, Shopping!Appliers, Shop!Hands, Shopping!Hands, Shop!Free,
      Shopping!Free, Shop!polling, Shopping!polling, Shop!counts,
      Shopping!counts

LEMMA SendSteps == Sends!Next => Sending!Next
  BY
  DEF Sends!Next, Sending!Next, Sends!Claim, Sending!Claim, Sends!Repeat,
      Sending!Repeat, Sends!Caller, Sending!Caller, Sends!Attempt,
      Sending!Attempt, Sends!Await, Sending!Await, Sends!Record,
      Sending!Record, Sends!NativeRefuses, Sending!NativeRefuses,
      Sends!NativeRaises, Sending!NativeRaises, Sends!NativeAccepts,
      Sending!NativeAccepts, Sends!CallbackOk, Sending!CallbackOk,
      Sends!CallbackRejects, Sending!CallbackRejects, Sends!CallbackMissing,
      Sending!CallbackMissing, Sends!WaitRaises, Sending!WaitRaises,
      Sends!MarkSubmitted, Sending!MarkSubmitted, Sends!ConfirmFromCallback,
      Sending!ConfirmFromCallback, Sends!MarkRejected, Sending!MarkRejected,
      Sends!MarkFault, Sending!MarkFault, Sends!AfterSubmitted,
      Sending!AfterSubmitted, Sends!AfterRejection, Sending!AfterRejection,
      Sends!HandOver, Sending!HandOver, Sends!Sweep, Sending!Sweep,
      Sends!Expire, Sending!Expire, Sends!ConfirmFromEvent,
      Sending!ConfirmFromEvent, Sends!Candidates, Sending!Candidates,
      Sends!Appear, Sending!Appear, Sends!RejectUnheard,
      Sending!RejectUnheard, Sends!TypeByHand, Sending!TypeByHand,
      Sends!Crash, Sending!Crash, Sends!Has, Sending!Has, Sends!StatusIn,
      Sending!StatusIn, Sends!Move, Sending!Move, Sends!Tell, Sending!Tell,
      Sends!Return, Sending!Return, Sends!Statuses, Sending!Statuses,
      Sends!Messages, Sending!Messages, Sends!Row, Sending!Row, Sends!Final,
      Sending!Final, Sends!db, Sending!db, Sends!callers, Sending!callers,
      Sends!native, Sending!native

LEMMA ShopTyped == Shopping!Spec => []Shopping!TypeOK
  <1>1. Shopping!SessionAssumption
    BY CenterAssumption DEF Shopping!SessionAssumption, Shopping!Sessions
  <1> QED
    BY <1>1, Shopping!TypeCorrect

LEMMA SendsAssumed ==
    /\ Sending!CentralAssumption /\ Sending!AttemptsAssumption
    /\ Sending!CrashAssumption /\ Sending!DistinctAssumption
  BY CenterAssumption
  DEF Sending!CentralAssumption, Sending!AttemptsAssumption,
      Sending!CrashAssumption, Sending!DistinctAssumption, Sending!Messages,
      Sending!Row, Sending!Statuses, Sends!Row, Sends!Messages, Sends!Statuses

LEMMA SendsTyped == Sending!Spec => []Sending!TypeOK
  BY SendsAssumed, Sending!TypeCorrect

\* Who answers a conversation, of an ordinary and of a guarded account, and
\* what became of a send the center asked for is always well typed: a control
\* names who holds it and why, and every counter of copies stays a number.
THEOREM CenterTypes == PartsSpec => []TypesOK
  <1>1. [PartsNext]_all => [Shopping!Next]_(Shopping!vars)
    BY StepOfPart, ShopSteps DEF guarded, Shopping!vars, Shopping!polling,
       Shopping!counts
  <1>2. [PartsNext]_all => [Sending!Next]_(Sending!vars)
    BY StepOfPart, SendSteps DEF sends, Sending!vars
  <1>3. Shopping!TypeOK => Shop!TypeOK
    BY DEF Shopping!TypeOK, Shop!TypeOK, Shopping!Sessions, Shop!Sessions,
       Shopping!Sources, Shop!Sources, Shopping!Controls, Shop!Controls,
       Shopping!Appliers, Shop!Appliers, Shopping!Hands, Shop!Hands
  <1>4. Sending!TypeOK => Sends!TypeOK
    BY DEF Sending!TypeOK, Sends!TypeOK, Sending!Row, Sends!Row,
       Sending!Statuses, Sends!Statuses, Sending!Messages, Sends!Messages,
       Sending!Final, Sends!Final
  <1>5. [PartsNext]_all => [Next]_vars
    BY StepOfPart
  <1>6. TypeOK /\ Shop!TypeOK /\ Sends!TypeOK => TypesOK
    BY DEF TypesOK
  <1>7. PartsSpec => []TypeOK
    BY <1>5, PartsBegin, TypeCorrect, PTL DEF PartsSpec, Spec
  <1>8. PartsSpec => []Shop!TypeOK
    BY <1>1, <1>3, PartsBegin, ShopTyped, PTL DEF PartsSpec, Shopping!Spec
  <1>9. PartsSpec => []Sends!TypeOK
    BY <1>2, <1>4, PartsBegin, SendsTyped, PTL DEF PartsSpec, Sending!Spec
  <1> QED
    BY <1>6, <1>7, <1>8, <1>9, PTL

\* What SendOutcome says of the sends is the same, seen from either instance.
LEMMA PromiseBegins == Sending!Outcome!Init => Sends!Outcome!Init
  BY DEF Sending!Outcome!Init, Sends!Outcome!Init, Sending!Receipt, Sends!Receipt,
         Sending!Has, Sends!Has

LEMMA PromiseSteps ==
    [Sending!Outcome!Next]_(Sending!Outcome!vars) => [Sends!Outcome!Next]_(Sends!Outcome!vars)
  BY DEF Sending!Outcome!Next, Sends!Outcome!Next, Sending!Outcome!vars, Sends!Outcome!vars,
         Sending!Outcome!Open, Sends!Outcome!Open, Sending!Outcome!Deliver,
         Sends!Outcome!Deliver, Sending!Outcome!Recall, Sends!Outcome!Recall,
         Sending!Outcome!Reject, Sends!Outcome!Reject, Sending!Outcome!GiveUp,
         Sends!Outcome!GiveUp, Sending!Outcome!Confirm, Sends!Outcome!Confirm,
         Sending!Receipt, Sends!Receipt, Sending!Has, Sends!Has

LEMMA SendsPromise == Sending!Spec => Sending!ImplementsOutcome
  BY SendsAssumed, Sending!Refines

\* Whatever callers, callbacks, echoes, sweeps and a crash do to the table of sends,
\* a reader of it sees what SendOutcome promises: a request is opened once, has one
\* copy at most, and what has settled stays (StateDB, send_text).
THEOREM SendsImplement == PartsSpec => ImplementsOutcome
  <1>1. [PartsNext]_all => [Sending!Next]_(Sending!vars)
    BY StepOfPart, SendSteps DEF sends, Sending!vars
  <1> QED
    BY <1>1, PartsBegin, PromiseBegins, PromiseSteps, SendsPromise, PTL
    DEF PartsSpec, Sending!Spec, ImplementsOutcome, Sends!ImplementsOutcome,
        Sending!ImplementsOutcome, Sending!Outcome!Spec, Sends!Outcome!Spec
==============================================================================
