---------------------------- MODULE GatewayQueue ----------------------------
(* The local event table "events" of StateDB and the DeliveryWorker that     *)
(* posts its pending rows to the gateway (by default the bundled workbench). *)
(*                                                                           *)
(* A row is written by captures, by the context enricher, by the native      *)
(* message store and by center drafts, while the worker holds a batch it     *)
(* claimed earlier.  A revision is the hash of a row's content; every write  *)
(* that changes the content makes a revision the row never had, so revisions *)
(* are numbered.  Statuses and revisions are all the worker looks at.        *)
EXTENDS Naturals

CONSTANTS
    Events,             \* messages of Qianniu, captured live or from history
    Drafts,             \* replies the center only drafted, shown locally
    Enriching,          \* context_enrich_enabled
    PartialAnswers,     \* the gateway may acknowledge a part of a chunk
    RejectsDuplicates,  \* the gateway may answer 400 to an event it has
    MaxRev,             \* bound: contents a row may take
    MaxRestarts,        \* bound: restarts in a behaviour
    MaxPrunes,          \* bound: retention sweeps in a behaviour
    NoRow

ASSUME FlagsAssumption ==
    /\ Enriching \in BOOLEAN
    /\ PartialAnswers \in BOOLEAN
    /\ RejectsDuplicates \in BOOLEAN
ASSUME BoundsAssumption ==
    MaxRev \in Nat /\ MaxRestarts \in Nat /\ MaxPrunes \in Nat
ASSUME DraftsAssumption == Events \cap Drafts = {}

Rows == [status : {"pending", "sending", "delivered"}, rev : Nat]

ASSUME NoRowAssumption == NoRow \notin Rows

Ids == Events \cup Drafts

VARIABLES
    row,        \* the table
    made,       \* how many contents each row has had
    pc,         \* the worker: between claims, posting, marking, after an error
    batch,      \* the revision of each row the worker claimed, 0 for the others
    left,       \* claimed rows that are in no chunk posted so far
    acked,      \* rows the worker is about to mark delivered
    context,    \* events queued at the context enricher
    gateway,    \* events the gateway has stored
    shown,      \* events first stored from the native history, for display
    restarts, prunes

vars == <<row, made, pc, batch, left, acked, context, gateway, shown,
          restarts, prunes>>
worker == <<pc, batch, left, acked>>
counts == <<restarts, prunes>>

Claimed == {e \in Ids : batch[e] > 0}

TypeOK ==
    /\ row \in [Ids -> Rows \cup {NoRow}]
    /\ made \in [Ids -> Nat]
    /\ pc \in {"idle", "posting", "marking", "failed"}
    /\ batch \in [Ids -> Nat]
    /\ left \in SUBSET Claimed
    /\ acked \in SUBSET Claimed
    /\ context \in SUBSET Ids
    /\ gateway \in SUBSET Ids
    /\ shown \in SUBSET Ids
    /\ restarts \in Nat
    /\ prunes \in Nat

Init ==
    /\ row = [e \in Ids |-> NoRow]
    /\ made = [e \in Ids |-> 0]
    /\ pc = "idle"
    /\ batch = [e \in Ids |-> 0]
    /\ left = {}
    /\ acked = {}
    /\ context = {}
    /\ gateway = {}
    /\ shown = {}
    /\ restarts = 0
    /\ prunes = 0

-----------------------------------------------------------------------------
(* Helpers. *)

Has(e) == row[e] # NoRow
StatusIs(e, s) == Has(e) /\ row[e].status = s

\* The row of e takes a content it never had.
Write(e, status) ==
    /\ made[e] < MaxRev
    /\ made' = [made EXCEPT ![e] = @ + 1]
    /\ row' = [row EXCEPT ![e] = [status |-> status, rev |-> made[e] + 1]]

\* UPDATE events ... WHERE event_id=e AND revision=batch[e] AND status='sending'
Mine(e) == StatusIs(e, "sending") /\ row[e].rev = batch[e]

-----------------------------------------------------------------------------
(* The writers of the table. *)

\* Slip: a replayed capture requeues whatever status the row has.
CaptureAnyStatus(e) ==
    /\ Write(e, "pending")
    /\ context' \in {context, IF Enriching THEN context \cup {e} ELSE context}
    /\ UNCHANGED <<worker, gateway, shown, counts>>

\* upsert_event with new content: a new row or a pending one.  A row that is
\* sending or delivered is left alone.  ingest_event then queues the event for
\* context, unless the enricher has no use for it.
Capture(e) ==
    /\ ~Has(e) \/ StatusIs(e, "pending")
    /\ Write(e, "pending")
    /\ context' \in {context, IF Enriching THEN context \cup {e} ELSE context}
    /\ UNCHANGED <<worker, gateway, shown, counts>>

\* upsert_event on a delivered row, with the authoritative loginid: only the
\* identity fields are repaired.
RepairIdentity(e) ==
    /\ StatusIs(e, "delivered")
    /\ Write(e, "delivered")
    /\ UNCHANGED <<worker, context, gateway, shown, counts>>

\* enrich_event, once per queued event, whatever status the row has.
Enrich(e) ==
    /\ e \in context
    /\ context' = context \ {e}
    /\ IF Has(e) THEN Write(e, row[e].status) ELSE UNCHANGED <<row, made>>
    /\ UNCHANGED <<worker, gateway, shown, counts>>

\* The lookup raises and the event leaves the enricher as it was.
EnrichFails(e) ==
    /\ e \in context
    /\ context' = context \ {e}
    /\ UNCHANGED <<row, made, worker, gateway, shown, counts>>

\* remember_native_context: a history row is stored as delivered; media are
\* added to a row that is not sending.
RememberNative(e) ==
    /\ ~StatusIs(e, "sending")
    /\ Write(e, IF Has(e) THEN row[e].status ELSE "delivered")
    /\ shown' = IF Has(e) THEN shown ELSE shown \cup {e}
    /\ UNCHANGED <<worker, context, gateway, counts>>

\* Slip: a draft is queued like a captured message.
ProjectPending(d) ==
    /\ Write(d, "pending")
    /\ UNCHANGED <<worker, context, gateway, shown, counts>>

\* upsert_local_projection: shown here, never queued.
Project(d) ==
    /\ Write(d, "delivered")
    /\ UNCHANGED <<worker, context, gateway, shown, counts>>

\* prune_old_events: the delivered rows older than the retention.
Prune(S) ==
    /\ prunes < MaxPrunes
    /\ S # {} /\ \A e \in S : StatusIs(e, "delivered")
    /\ row' = [e \in Ids |-> IF e \in S THEN NoRow ELSE row[e]]
    /\ prunes' = prunes + 1
    /\ UNCHANGED <<made, worker, context, gateway, shown, restarts>>

-----------------------------------------------------------------------------
(* The worker. *)

\* claim_pending.  The limit of 100 rows is not reached by these instances.
Claim ==
    LET due == {e \in Ids : StatusIs(e, "pending")} IN
    /\ pc = "idle"
    /\ due # {}
    /\ row' = [e \in Ids |->
          IF e \in due THEN [row[e] EXCEPT !.status = "sending"] ELSE row[e]]
    /\ batch' = [e \in Ids |-> IF e \in due THEN row[e].rev ELSE 0]
    /\ left' = due
    /\ acked' = {}
    /\ pc' = "posting"
    /\ UNCHANGED <<made, context, gateway, shown, counts>>

\* A chunk is answered with the acknowledged events.
PostAccepted(chunk, committed) ==
    /\ pc = "posting"
    /\ committed # {} /\ committed \subseteq chunk
    /\ committed # chunk => PartialAnswers
    /\ gateway' = gateway \cup committed
    /\ left' = left \ chunk
    /\ acked' = committed
    /\ pc' = "marking"
    /\ UNCHANGED <<row, made, batch, context, shown, counts>>

\* Slip: every refusal counts as a duplicate.
PostFailsAsDuplicate(chunk, stored) ==
    /\ pc = "posting"
    /\ left' = {}
    /\ acked' = Claimed
    /\ pc' = "marking"
    /\ UNCHANGED <<row, made, batch, context, gateway, shown, counts>>

\* The post raises: refused, timed out, or stored and the answer lost.
PostFails(chunk, stored) ==
    /\ pc = "posting"
    /\ stored \subseteq chunk
    /\ gateway' = gateway \cup stored
    /\ pc' = "failed"
    /\ UNCHANGED <<row, made, batch, left, acked, context, shown, counts>>

\* 400 with "duplicate": every row that was claimed counts as delivered.
PostDuplicate(chunk) ==
    /\ pc = "posting"
    /\ RejectsDuplicates
    /\ chunk \cap gateway # {}
    /\ left' = {}
    /\ acked' = Claimed
    /\ pc' = "marking"
    /\ UNCHANGED <<row, made, batch, context, gateway, shown, counts>>

\* The worker is done with its rows.
Drop ==
    /\ pc' = "idle"
    /\ batch' = [e \in Ids |-> 0]
    /\ left' = {}
    /\ acked' = {}

\* mark_delivered, one transaction a row; after the last one the next chunk is
\* posted or the worker returns to its claim.
MarkDelivered(e) ==
    /\ pc = "marking"
    /\ e \in acked
    /\ row' = IF Mine(e) THEN [row EXCEPT ![e].status = "delivered"] ELSE row
    /\ IF acked = {e} /\ left = {} THEN Drop
       ELSE /\ acked' = acked \ {e}
            /\ pc' = IF acked = {e} THEN "posting" ELSE "marking"
            /\ UNCHANGED <<batch, left>>
    /\ UNCHANGED <<made, context, gateway, shown, counts>>

\* Slips: one row of the claim is not requeued, or the unposted chunks are
\* carried over to the next claim.
MarkFailedAllButOne ==
    /\ pc = "failed"
    /\ \E kept \in Claimed :
         row' = [e \in Ids |->
             IF e \in Claimed \ {kept} /\ Mine(e)
             THEN [row[e] EXCEPT !.status = "pending"] ELSE row[e]]
    /\ Drop
    /\ UNCHANGED <<made, context, gateway, shown, counts>>

MarkFailedKeepsChunks ==
    /\ pc = "failed"
    /\ row' = [e \in Ids |->
          IF e \in Claimed /\ Mine(e) THEN [row[e] EXCEPT !.status = "pending"]
          ELSE row[e]]
    /\ pc' = "idle"
    /\ batch' = [e \in Ids |-> 0]
    /\ acked' = {}
    /\ UNCHANGED <<left, made, context, gateway, shown, counts>>

\* mark_failed over the whole claim: what was marked delivered stays so.
MarkFailed ==
    /\ pc = "failed"
    /\ row' = [e \in Ids |->
          IF e \in Claimed /\ Mine(e) THEN [row[e] EXCEPT !.status = "pending"]
          ELSE row[e]]
    /\ Drop
    /\ UNCHANGED <<made, context, gateway, shown, counts>>

\* Slip: rows that were being sent stay so.
RestartForgets ==
    /\ restarts < MaxRestarts
    /\ restarts' = restarts + 1
    /\ Drop
    /\ context' = {}
    /\ UNCHANGED <<row, made, gateway, shown, prunes>>

\* The process ends and starts again: _initialize requeues what was being sent.
Restart ==
    /\ restarts < MaxRestarts
    /\ restarts' = restarts + 1
    /\ row' = [e \in Ids |->
          IF StatusIs(e, "sending") THEN [row[e] EXCEPT !.status = "pending"]
          ELSE row[e]]
    /\ Drop
    /\ context' = {}
    /\ UNCHANGED <<made, gateway, shown, prunes>>

-----------------------------------------------------------------------------
Post ==
    \E chunk \in (SUBSET left) \ {{}} :
        \/ \E S \in SUBSET chunk : PostAccepted(chunk, S) \/ PostFails(chunk, S)
        \/ PostDuplicate(chunk)

Mark == (\E e \in Ids : MarkDelivered(e)) \/ MarkFailed

Next ==
    \/ \E e \in Events :
          \/ Capture(e) \/ RepairIdentity(e) \/ RememberNative(e)
          \/ Enrich(e) \/ EnrichFails(e)
    \/ \E d \in Drafts : Project(d)
    \/ \E S \in SUBSET Ids : Prune(S)
    \/ Claim \/ Post \/ Mark \/ Restart

Spec == Init /\ [][Next]_vars

(* The worker thread runs whenever it can, and a gateway that is posted to    *)
(* again and again answers a whole claim in the end.                          *)
FairSpec ==
    /\ Spec
    /\ WF_vars(Claim) /\ WF_vars(Mark) /\ WF_vars(Post)
    /\ SF_vars(left # {} /\ PostAccepted(left, left))

-----------------------------------------------------------------------------
(* What must hold. *)

\* A row that was delivered is not queued again by replays, enrichment, media,
\* drafts or a restart: the buyer's message is not processed twice.
DeliveredStays ==
    [][\A e \in Ids : StatusIs(e, "delivered") =>
          row'[e] = NoRow \/ row'[e].status = "delivered"]_row

\* While rows change only between claims and answers are whole, a row that is
\* "sending" is in the hands of the worker with the content it has now, so the
\* worker will mark it or requeue it: nothing waits for a restart.
SendingIsHeld ==
    \A e \in Ids : StatusIs(e, "sending") => Mine(e) /\ pc # "idle"

\* README.md:27: "delivered" follows the durable ACK of the gateway.  A message
\* that counts as delivered is with the gateway, unless it came from the native
\* history for display only; a gateway that rejects duplicates breaks this.
DeliveredIsStored ==
    \A e \in Events : StatusIs(e, "delivered") => e \in gateway \cup shown

\* A draft of the center is never posted to the gateway, claimed or queued.
DraftsStayLocal ==
    \A d \in Drafts : d \notin gateway /\ batch[d] = 0 /\ ~StatusIs(d, "pending")

\* A captured message reaches the gateway and its row says so in the end.
QueuedIsDelivered ==
    \A e \in Events : StatusIs(e, "pending") ~> StatusIs(e, "delivered") \/ ~Has(e)

-----------------------------------------------------------------------------
(* What the documentation says and the code does not keep. *)

\* README.md:27: an event is confirmed by the workbench and marked delivered
\* once its durable ACK is received.
AcknowledgedIsMarked ==
    \A e \in Events : e \in acked ~> StatusIs(e, "delivered") \/ ~Has(e)
=============================================================================
