------------------------------ MODULE MCBridge -------------------------------
(* Instances for TLC, for safety only: the uploads to the brain, and beside   *)
(* them the other parts of the bridge.  They share no state here, so a        *)
(* behaviour picks one part and stays with it.                                *)
EXTENDS MCBrainQueue, FiniteSets

CONSTANTS
    None,
    GatewayEvents, Drafts,              \* rows of the gateway's queue
    InlineSends,                        \* commands of one conversation
    Pages, Requests, MaxDrops,          \* expressions the pages evaluate
    Chats, MaxUnread, MaxCalls,         \* conversations to switch to
    Texts, MaxDetaches,                 \* native sends
    Tabs, Guarded, Ordinary, Malformed,
    MaxOutbox, FlushLimit, MaxReloads,  \* the outbox of a page
    MaxSaid,                            \* messages of a conversation
    Paths, Merged, MaxFailures          \* an upgrade of the program

ASSUME RowsAssumption ==
    GatewayEvents \cap Drafts = {} /\ None \notin Rows
ASSUME InlineAssumption == None \notin InlineSends
ASSUME PagesAssumption == IsFiniteSet(Pages) /\ None \notin Pages
ASSUME ChatsAssumption == None \notin Chats
ASSUME TextsAssumption ==
    IsFiniteSet(Texts) /\ None \notin Texts /\ "pending" \notin Texts
ASSUME OutboxAssumption == MaxOutbox \in Nat /\ FlushLimit \in Nat
ASSUME UpgradeAssumption == MaxFailures \in Nat
ASSUME ClientAssumption ==
    /\ MaxUnread \in Nat \ {0} /\ MaxCalls \in Nat
    /\ MaxDetaches \in Nat /\ MaxSaid \in Nat

VARIABLES
    part,
    gRow, gMade, gPc, gBatch, gLeft, gAcked, gContext, gGateway, gShown,
    gRestarts, gPrunes,
    iRow, iResult, iAge, iQueue, iPc, iCmd, iRes, iTodo, iReceipt, iCopies,
    iOpened, iCenter, iArrived, iCrashes,
    jRow, jResult, jAge, jQueue, jPc, jCmd, jRes, jTodo, jReceipt, jCopies,
    jOpened, jCenter, jArrived, jCrashes,
    cUp, cWork, cPending, cPc, cSent, cQueue, cLeft, cAsked, cValues, cUnfit,
    cKind, cOutcome, cSaid, cDrops,
    oPc, oExpecting, oShown, oSeen,
    wPc, wExpected, wUnread, wSelected, wFresh, wShown, wSwitched, wCommands,
    wCalls,
    kCounter, kToken, kState, kResult, kReceipts, kDue, kDetaches, kRestarts,
    pOutbox, pDisk, pTimer, pSeen, pOpen, pWire, pAcks, pStored, pDrops,
    pReloads,
    tSaid, tEvents, tConfirmed, tReceipt,
    uOld, uRoot, uSaved, uMoved, uCreated, uRunning, uConfig, uPc, uAt,
    uFailures

gateway == <<gRow, gMade, gPc, gBatch, gLeft, gAcked, gContext, gGateway,
             gShown, gRestarts, gPrunes>>
alone == <<iRow, iResult, iAge, iQueue, iPc, iCmd, iRes, iTodo, iReceipt,
           iCopies, iOpened, iCenter, iArrived, iCrashes>>
beside == <<jRow, jResult, jAge, jQueue, jPc, jCmd, jRes, jTodo, jReceipt,
            jCopies, jOpened, jCenter, jArrived, jCrashes>>
calls == <<cUp, cWork, cPending, cPc, cSent, cQueue, cLeft, cAsked, cValues,
           cUnfit, cKind, cOutcome, cSaid, cDrops>>
opening == <<oPc, oExpecting, oShown, oSeen>>
switching == <<wPc, wExpected, wUnread, wSelected, wFresh, wShown, wSwitched,
               wCommands, wCalls>>
tokens == <<kCounter, kToken, kState, kResult, kReceipts, kDue, kDetaches,
            kRestarts>>
page == <<pOutbox, pDisk, pTimer, pSeen, pOpen, pWire, pAcks, pStored, pDrops,
          pReloads>>
waiting == <<tSaid, tEvents, tConfirmed, tReceipt>>
upgrade == <<uOld, uRoot, uSaved, uMoved, uCreated, uRunning, uConfig, uPc,
             uAt, uFailures>>

Gateway == INSTANCE GatewayQueue WITH
    Events <- GatewayEvents, Enriching <- TRUE, PartialAnswers <- TRUE,
    RejectsDuplicates <- TRUE, MaxRev <- MaxRev + 1, NoRow <- None, row <- gRow,
    made <- gMade, pc <- gPc, batch <- gBatch, left <- gLeft, acked <- gAcked,
    context <- gContext, gateway <- gGateway, shown <- gShown,
    restarts <- gRestarts, prunes <- gPrunes

\* Commands without the pool, from both receivers.
Alone == INSTANCE CommandPool WITH
    Sends <- InlineSends, Chats <- {}, Refused <- {}, Convs <- {"k"},
    ConvOf <- [c \in InlineSends |-> "k"], Workers <- {}, Poller <- "poller",
    Receivers <- {"poller", "pusher"}, QueueMax <- 0, MaxWaiting <- 0,
    MaxCrashes <- 1, NoCommand <- None, row <- iRow, result <- iResult,
    age <- iAge, queue <- iQueue, pc <- iPc, cmd <- iCmd, res <- iRes,
    todo <- iTodo, receipt <- iReceipt, copies <- iCopies, opened <- iOpened,
    center <- iCenter, arrived <- iArrived, crashes <- iCrashes

\* Commands that the poller executes beside the pool.
Beside == INSTANCE CommandPool WITH
    Sends <- InlineSends, Chats <- {}, Refused <- {}, Convs <- {"k"},
    ConvOf <- [c \in InlineSends |-> "k"], Workers <- {"w"}, Poller <- "poller",
    Receivers <- {"poller"}, QueueMax <- 1, MaxWaiting <- 1, MaxCrashes <- 1,
    NoCommand <- None, row <- jRow, result <- jResult, age <- jAge,
    queue <- jQueue, pc <- jPc, cmd <- jCmd, res <- jRes, todo <- jTodo,
    receipt <- jReceipt, copies <- jCopies, opened <- jOpened,
    center <- jCenter, arrived <- jArrived, crashes <- jCrashes

Calls == INSTANCE PageCalls WITH
    Calls <- Requests, Any <- None,
    up <- cUp, work <- cWork, pending <- cPending, pc <- cPc, sent <- cSent,
    queue <- cQueue, left <- cLeft, asked <- cAsked, values <- cValues,
    unfit <- cUnfit, kind <- cKind, outcome <- cOutcome, said <- cSaid,
    drops <- cDrops

Opening == INSTANCE OpenChat WITH
    pc <- oPc, expecting <- oExpecting, shown <- oShown, seen <- oSeen

Switching == INSTANCE ChatSwitch WITH
    Nothing <- None, pc <- wPc, expected <- wExpected, unread <- wUnread,
    selected <- wSelected, fresh <- wFresh, shown <- wShown,
    switched <- wSwitched, commands <- wCommands, calls <- wCalls

Tokens == INSTANCE SendTokens WITH
    Sends <- Texts, counter <- kCounter, token <- kToken, state <- kState, result <- kResult,
    receipts <- kReceipts, due <- kDue, detaches <- kDetaches,
    restarts <- kRestarts

Page == INSTANCE PageOutbox WITH
    Pages <- Tabs, outbox <- pOutbox, disk <- pDisk, timer <- pTimer,
    seen <- pSeen, open <- pOpen, wire <- pWire, acks <- pAcks,
    stored <- pStored, drops <- pDrops, reloads <- pReloads

Waiting == INSTANCE ReplyWait WITH
    said <- tSaid, events <- tEvents, confirmed <- tConfirmed,
    receipt <- tReceipt

Upgrading == INSTANCE Upgrade WITH
    Names <- Paths, old <- uOld, root <- uRoot, saved <- uSaved, moved <- uMoved,
    created <- uCreated, running <- uRunning, config <- uConfig, pc <- uPc,
    at <- uAt, failures <- uFailures

Parts == {"uploads", "gateway", "alone", "beside", "calls", "opening",
          "switching", "tokens", "page", "waiting", "upgrade"}

\* Whatever is not the part at work stays as it is.
Rest ==
    /\ IF part = "uploads" THEN TRUE ELSE UNCHANGED vars
    /\ IF part = "gateway" THEN TRUE ELSE UNCHANGED gateway
    /\ IF part = "alone" THEN TRUE ELSE UNCHANGED alone
    /\ IF part = "beside" THEN TRUE ELSE UNCHANGED beside
    /\ IF part = "calls" THEN TRUE ELSE UNCHANGED calls
    /\ IF part = "opening" THEN TRUE ELSE UNCHANGED opening
    /\ IF part = "switching" THEN TRUE ELSE UNCHANGED switching
    /\ IF part = "tokens" THEN TRUE ELSE UNCHANGED tokens
    /\ IF part = "page" THEN TRUE ELSE UNCHANGED page
    /\ IF part = "waiting" THEN TRUE ELSE UNCHANGED waiting
    /\ IF part = "upgrade" THEN TRUE ELSE UNCHANGED upgrade
    /\ UNCHANGED part

\* The parts that are not at work begin in one of their initial states.
PartsInit ==
    /\ part \in Parts
    /\ Init
    /\ Gateway!Init
    /\ Alone!Init
    /\ Beside!Init
    /\ Calls!Init
    /\ Opening!Init
    /\ Switching!Init
    /\ Tokens!Init
    /\ Page!Init
    /\ Waiting!Init
    /\ Upgrading!Init
    /\ part = "uploads" \/ ~configured
    /\ part = "calls" \/ cKind = [c \in Requests |-> "any"]
    /\ part = "opening" \/ (oShown = "none" /\ ~oExpecting)
    /\ part = "switching" \/ (wShown = None /\ wUnread = <<>>)
    /\ part = "upgrade" \/ uOld = Merged

PartsNext ==
    \/ part = "uploads" /\ Next /\ Rest
    \/ part = "gateway" /\ Gateway!Next /\ Rest
    \/ part = "alone" /\ Alone!Next /\ Rest
    \/ part = "beside" /\ Beside!Next /\ Rest
    \/ part = "calls" /\ Calls!Next /\ Rest
    \/ part = "opening" /\ Opening!Next /\ Rest
    \/ part = "switching" /\ Switching!Next /\ Rest
    \/ part = "tokens" /\ Tokens!Next /\ Rest
    \/ part = "page" /\ Page!Next /\ Rest
    \/ part = "waiting" /\ Waiting!Next /\ Rest
    \/ part = "upgrade" /\ Upgrading!Next /\ Rest

all == <<part, vars, gateway, alone, beside, calls, opening, switching,
         tokens, page, waiting, upgrade>>

PartsSpec == PartsInit /\ [][PartsNext]_all

------------------------------------------------------------------------------
(* The properties are stated in the modules of the parts. *)

\* Every part keeps its types.
TypesOK ==
    /\ part = "uploads" => TypeOK
    /\ part = "gateway" => Gateway!TypeOK
    /\ part = "alone" => Alone!TypeOK
    /\ part = "beside" => Beside!TypeOK
    /\ part = "calls" => Calls!TypeOK
    /\ part = "opening" => Opening!TypeOK
    /\ part = "switching" => Switching!TypeOK
    /\ part = "tokens" => Tokens!TypeOK
    /\ part = "page" => Page!TypeOK
    /\ part = "waiting" => Waiting!TypeOK
    /\ part = "upgrade" => Upgrading!TypeOK

\* Both queues send a content once: a delivered row is not sent again, to the
\* brain only for a newer content, and a draft is never sent at all.
SentAsMeant ==
    /\ RequeuedOnlyNewer
    /\ Gateway!DeliveredStays
    /\ [](part = "gateway" => Gateway!DraftsStayLocal)

\* Executed inline or by the pool, a result is stored before the center is
\* told, and acknowledged only after.
ResultsAreTold ==
    /\ part = "alone" => Alone!ReportedIsDurable /\ Alone!AcknowledgedIsKnown
    /\ part = "beside" => Beside!ReportedIsDurable /\ Beside!AcknowledgedIsKnown

\* Of several pages that answer, late or not at all, none hides another's
\* answer or is counted for another.
AnswersCount ==
    part = "calls" => Calls!FailureIsUnanimous /\ Calls!AnswersMatch

\* Opened through a page or through the client's protocol, a conversation is
\* reported as open only if the client showed it since the call began.
OpenedWasShown ==
    /\ part = "opening" => Opening!VerifiedWasShown
    /\ part = "switching" => Switching!JumpIsNew

ReceiptIsOwn == part = "tokens" => Tokens!ReceiptIsOwn

GuardedLeavesStored == Page!GuardedLeavesStored

\* Whatever order the messages and the receipts of a conversation come in, the
\* deadline runs from the first message without an answer, and neither an answer
\* that is known nor a message that has none is overlooked.
WaitsAreTold ==
    /\ [](part = "waiting" => Waiting!LaterIsUnanswered /\ Waiting!AnsweredIsKnown)
    /\ Waiting!DeadlineStands
    /\ Waiting!AnsweredStays

\* An upgrade that fails or is killed anywhere keeps the old program, says what
\* became of it, and once it has been stopped puts it back if no second call fails.
UpgradeIsSafe == part = "upgrade" => Upgrading!UpgradeIsSafe
==============================================================================
