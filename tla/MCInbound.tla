------------------------------ MODULE MCInbound ------------------------------
(* Instances for TLC of the way of a message to the gateway and of what is    *)
(* added to it: the gateway's queue, the look-up of orders, the client's log  *)
(* and the nicknames found there, and the goods of a shop.  They share no     *)
(* state, so a behaviour picks one part and stays with it.                    *)
EXTENDS GatewayQueue, FiniteSets

CONSTANTS
    None,
    Guarded, Ordinary, Anonymous, MaxWaiting, Retries,  \* messages to look up
    Backfill, MaxSize, MaxRotations, MaxCuts, MaxLost,  \* the client's log
    b1, b2, Buyers, Renaming, MaxLookups, MaxNames, MaxFailures,  \* nicknames
    OpenShops, Goods, Unnumbered, PageSize, MaxPages, MaxChanges, MaxFaults

ASSUME OrdersAssumption ==
    None \notin Guarded \cup Ordinary /\ MaxWaiting \in Nat /\ Retries \in Nat
\* The lines of the log have two bytes here; what is read of it at the start is
\* a line at least.
ASSUME LogAssumption ==
    /\ Backfill \in Nat \ {0, 1} /\ MaxSize \in Nat
    /\ MaxRotations \in Nat /\ MaxCuts \in Nat /\ MaxLost \in Nat
ASSUME BuyersAssumption ==
    /\ IsFiniteSet(Buyers) /\ MaxLookups \in Nat
    /\ MaxNames \in Nat \ {0} /\ MaxFailures \in Nat
ASSUME GoodsAssumption ==
    /\ IsFiniteSet(Goods) /\ PageSize \in Nat \ {0} /\ MaxPages \in Nat \ {0}
    /\ MaxChanges \in Nat /\ MaxFaults \in Nat

VARIABLES
    part,
    oBuys, oLogged, oHand, oPending, oQueued, oCur, oReplies, oOrderCache,
    oSnapshot, oResult, oTold,
    lSize, lCuts, lAttached, lOffset, lLastSize, lBackfilled, lFirstDone,
    lRead, lStart, lTurned, lStrayed, lMissed, lRotations, lFailures,
    nReal, nUnread, nNames, nMeta, nPending, nDb, nRecent, nPc, nTodo,
    nFailures,
    cListing, cStored, cPc, cPage, cWritten, cTotal, cWakeup, cAsked,
    cChanges, cFaults

orders == <<oBuys, oLogged, oHand, oPending, oQueued, oCur, oReplies,
            oOrderCache, oSnapshot, oResult, oTold>>
log == <<lSize, lCuts, lAttached, lOffset, lLastSize, lBackfilled, lFirstDone,
         lRead, lStart, lTurned, lStrayed, lMissed, lRotations, lFailures>>
nicknames == <<nReal, nUnread, nNames, nMeta, nPending, nDb, nRecent, nPc,
               nTodo, nFailures>>
catalog == <<cListing, cStored, cPc, cPage, cWritten, cTotal, cWakeup, cAsked,
             cChanges, cFaults>>

Orders == INSTANCE OrderLookup WITH
    Nameless <- Anonymous, MaxPending <- MaxWaiting, SlowPages <- TRUE,
    Nobody <- None,
    buys <- oBuys, logged <- oLogged, hand <- oHand, pending <- oPending,
    queued <- oQueued, cur <- oCur, replies <- oReplies,
    orderCache <- oOrderCache, snapshot <- oSnapshot, result <- oResult,
    told <- oTold

Log == INSTANCE LogTail WITH
    Width <- 2, MaxFailures <- MaxLost,
    size <- lSize, cuts <- lCuts, attached <- lAttached, offset <- lOffset,
    lastSize <- lLastSize, backfilled <- lBackfilled, firstDone <- lFirstDone,
    read <- lRead, start <- lStart, turned <- lTurned, strayed <- lStrayed,
    missed <- lMissed, rotations <- lRotations, failures <- lFailures

Nicks == INSTANCE Nicknames WITH
    MaxPending <- MaxLookups,
    real <- nReal, unread <- nUnread, names <- nNames, meta <- nMeta,
    pending <- nPending, db <- nDb, recent <- nRecent, pc <- nPc,
    todo <- nTodo, failures <- nFailures

Catalog == INSTANCE CatalogSync WITH
    Shops <- OpenShops, Nameless <- Unnumbered,
    listing <- cListing, stored <- cStored, pc <- cPc, page <- cPage,
    written <- cWritten, total <- cTotal, wakeup <- cWakeup, asked <- cAsked,
    changes <- cChanges, faults <- cFaults

Parts == {"queue", "orders", "log", "nicknames", "catalog"}

\* Whatever is not the part at work stays as it is.
Rest ==
    /\ IF part = "queue" THEN TRUE ELSE UNCHANGED vars
    /\ IF part = "orders" THEN TRUE ELSE UNCHANGED orders
    /\ IF part = "log" THEN TRUE ELSE UNCHANGED log
    /\ IF part = "nicknames" THEN TRUE ELSE UNCHANGED nicknames
    /\ IF part = "catalog" THEN TRUE ELSE UNCHANGED catalog
    /\ UNCHANGED part

\* The parts that are not at work begin in one of their initial states.
PartsInit ==
    /\ part \in Parts
    /\ Init
    /\ Orders!Init
    /\ Log!Init
    /\ Nicks!Init
    /\ Catalog!Init
    /\ part = "orders" \/ oBuys = {}
    /\ part = "log" \/ lSize = 0
    /\ part = "catalog" \/ cListing = [s \in OpenShops |-> <<>>]

PartsNext ==
    \/ part = "queue" /\ Next /\ Rest
    \/ part = "orders" /\ Orders!Next /\ Rest
    \/ part = "log" /\ Log!Next /\ Rest
    \/ part = "nicknames" /\ Nicks!Next /\ Rest
    \/ part = "catalog" /\ Catalog!Next /\ Rest

all == <<part, vars, orders, log, nicknames, catalog>>

PartsSpec == PartsInit /\ [][PartsNext]_all

\* A behaviour stays with the part it begins with, so one condition serves
\* several parts, each with an action of its own.
In(p, A) == part = p /\ A /\ UNCHANGED part
working == CASE part = "queue" -> vars
           [] part = "orders" -> orders
           [] part = "log" -> log
           [] part = "nicknames" -> nicknames
           [] part = "catalog" -> catalog

WeaklyFair ==
    /\ WF_working(\/ In("queue", Claim)
                  \/ In("orders", Orders!Put)
                  \/ In("log", Log!Attach(TRUE))
                  \/ In("nicknames", Nicks!Polls)
                  \/ In("catalog", Catalog!Advance))
    /\ WF_working(\/ In("queue", Mark)
                  \/ In("orders", Orders!Get)
                  \/ In("log", Log!Idle \/ \E split \in BOOLEAN : Log!Consume(split))
                  \/ In("nicknames", Nicks!Refreshed))
    /\ WF_working(\/ In("queue", Post)
                  \/ In("orders", Orders!Conclude)
                  \/ In("nicknames", Nicks!Ends))
    /\ WF_working(\/ In("orders", \E s \in Orders!Shops, r \in Orders!Replies :
                                    Orders!Attempt(s, r))
                  \/ In("nicknames", Nicks!Refresh(b1)))
    /\ WF_working(In("nicknames", Nicks!Resolve(b1)))
    /\ WF_working(In("nicknames", Nicks!Refresh(b2)))
    /\ WF_working(In("nicknames", Nicks!Resolve(b2)))

StronglyFair ==
    /\ SF_working(\/ In("queue", left # {} /\ PostAccepted(left, left))
                  \/ In("nicknames", Nicks!Scans))

PartsFairSpec == PartsSpec /\ WeaklyFair /\ StronglyFair

------------------------------------------------------------------------------
(* The properties are stated in the modules of the parts. *)

\* Every part keeps its types.
TypesOK ==
    /\ part = "orders" => Orders!TypeOK
    /\ part = "log" => Log!TypeOK
    /\ part = "nicknames" => Nicks!TypeOK
    /\ part = "catalog" => Catalog!TypeOK

\* Every message is looked up in the end, and what is then said of its buyer's
\* orders is what a page, asked on behalf of its account, said.
OrdersAreTold ==
    /\ [](part = "orders" => Orders!AbsenceWasTold /\ Orders!FoundWereTold)
    /\ part = "orders" => Orders!LookedUp

\* What is read in pieces while it changes is read in the end: the client's
\* log line by line, the goods of a shop page by page, whenever requested.
SourcesAreRead ==
    /\ [](part = "log" => Log!WholeLines)
    /\ part = "log" => Log!LinesAreRead
    /\ [](part = "catalog" => Catalog!RequestIsKept)
    /\ part = "catalog" => Catalog!GoodsAreStored

\* A buyer the worker looks for and the log names has a nickname in the end, and
\* keeps one.
NicknamesAreFound ==
    /\ Nicks!NicknameStays
    /\ part = "nicknames" => Nicks!NicknameFound
==============================================================================
