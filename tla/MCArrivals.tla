----------------------------- MODULE MCArrivals -----------------------------
(* Instances for TLC of what is told again and again until it has arrived:    *)
(* the results of commands to the center, the contents of events to the brain *)
(* over HTTP, and the messages of a page to the bridge.  They share no state  *)
(* here, so a behaviour picks one part and stays with it.                     *)
EXTENDS BrainQueue, CommandSetting

CONSTANTS
    e1, e2, u1, u2,         \* Events and Uploaders
    c1, c2, k, worker       \* Commands, Convs and Workers

\* For the cfg: the commands are of one conversation.
OneConversation == [c \in Commands |-> k]

ASSUME ArrivalsAssumption ==
    /\ Events = {e1, e2} /\ Uploaders = {u1, u2}
    /\ Commands = {c1, c2} /\ Workers = {worker} /\ Receivers = {Poller}

VARIABLES
    part,
    rRow, rResult, rAge, rQueue, rPc, rCmd, rRes, rTodo, rReceipt, rCopies,
    rOpened, rCenter, rArrived, rCrashes,
    pOutbox, pDisk, pTimer, pSeen, pOpen, pWire, pAcks, pStored, pDrops,
    pReloads

commands == <<rRow, rResult, rAge, rQueue, rPc, rCmd, rRes, rTodo, rReceipt,
              rCopies, rOpened, rCenter, rArrived, rCrashes>>
page == <<pOutbox, pDisk, pTimer, pSeen, pOpen, pWire, pAcks, pStored, pDrops,
          pReloads>>

Pool == INSTANCE CommandPool WITH
    row <- rRow, result <- rResult, age <- rAge, queue <- rQueue, pc <- rPc,
    cmd <- rCmd, res <- rRes, todo <- rTodo, receipt <- rReceipt,
    copies <- rCopies, opened <- rOpened, center <- rCenter,
    arrived <- rArrived, crashes <- rCrashes

Page == INSTANCE PageOutbox WITH
    Pages <- {"p"}, Guarded <- {"g"}, Ordinary <- {"o"}, Malformed <- {"o"},
    MaxOutbox <- 1, FlushLimit <- 2, MaxDrops <- 1, MaxReloads <- 1,
    outbox <- pOutbox, disk <- pDisk, timer <- pTimer, seen <- pSeen,
    open <- pOpen, wire <- pWire, acks <- pAcks, stored <- pStored,
    drops <- pDrops, reloads <- pReloads

Parts == {"uploads", "commands", "page"}

\* Whatever is not the part at work stays as it is.
Rest ==
    /\ IF part = "uploads" THEN TRUE ELSE UNCHANGED vars
    /\ IF part = "commands" THEN TRUE ELSE UNCHANGED commands
    /\ IF part = "page" THEN TRUE ELSE UNCHANGED page
    /\ UNCHANGED part

PartsInit ==
    /\ part \in Parts
    /\ Init
    /\ Pool!Init
    /\ Page!Init
    /\ part = "uploads" \/ ~configured

PartsNext ==
    \/ part = "uploads" /\ HttpNext /\ Rest
    \/ part = "commands" /\ Pool!Next /\ Rest
    \/ part = "page" /\ Page!Next /\ Rest

PartsSpec == PartsInit /\ [][PartsNext]_<<part, vars, commands, page>>

\* A behaviour stays with the part it begins with, so one condition serves
\* several parts, each with an action of its own.
In(p, A) == part = p /\ A /\ UNCHANGED part
working == CASE part = "uploads" -> vars
           [] part = "commands" -> commands
           [] part = "page" -> page

Claims(e) == \E u \in Uploaders, S \in SUBSET Events : e \in S /\ ClaimBrain(u, S)

WeaklyFair ==
    /\ WF_working(\/ In("uploads", Register)
                  \/ In("commands", Pool!Take(worker))
                  \/ In("page", Page!Persist("p")))
    /\ WF_working(\/ In("uploads", EnqueueBrain(e1))
                  \/ In("commands", Pool!Handle(worker))
                  \/ In("page", Page!Flush("p")))
    /\ WF_working(\/ In("uploads", EnqueueBrain(e2))
                  \/ In("commands", Pool!Handle(Poller))
                  \/ In("page", Page!Connect("p")))
    /\ WF_working(\/ In("uploads", OverHttp(u1))
                  \/ In("page", Page!Named("p", "g")))
    /\ WF_working(\/ In("uploads", OverHttp(u2))
                  \/ In("page", Page!Ingest("p", "g")))
    /\ WF_working(\/ In("uploads", FinishBrain(u1))
                  \/ In("page", Page!AcknowledgeEvent("p", "g")))
    /\ WF_working(\/ In("uploads", FinishBrain(u2))
                  \/ In("page", Page!Named("p", "o")))
    /\ WF_working(In("page", Page!Ingest("p", "o")))
    /\ WF_working(In("page", Page!AcknowledgeEvent("p", "o")))

StronglyFair ==
    /\ SF_working(In("uploads", Claims(e1)) \/ In("commands", Pool!Retry))
    /\ SF_working(In("uploads", Claims(e2)) \/ In("commands", Pool!Lock(worker)))
    /\ SF_working(In("uploads", Answers(u1)) \/ In("commands", Pool!Report(worker)))
    /\ SF_working(In("uploads", Answers(u2)) \/ In("commands", Pool!Report(Poller)))

PartsFairSpec == PartsSpec /\ WeaklyFair /\ StronglyFair

------------------------------------------------------------------------------
(* The properties are stated in the modules of the parts. *)

ResultsArrive == part = "commands" => Pool!ResultsArrive

OutboxDrains == part = "page" => Page!OutboxDrains
==============================================================================
