----------------------------- MODULE BrainQueue -----------------------------
(* The upload queue "brain_events" of StateDB, the ingestion and enrichment  *)
(* that fill it, and BrainConnector's pool of uploaders with its two         *)
(* transports: an HTTP request per batch, or frames and acks on one          *)
(* WebSocket (brain_ws.py).                                                  *)
(*                                                                           *)
(* Of the row of "events" only the revision is kept: a write the code makes  *)
(* only in some gateway status may happen in any.  Contents are numbered per *)
(* event, as in GatewayQueue.  The rows here are those that                  *)
(* brain_event_suppression_reason lets pass and that are no center drafts.   *)
EXTENDS Naturals

CONSTANTS
    Events,
    Blocked,        \* events of accounts outside the seat's allowed shops
    Uploaders,      \* threads of event_upload_loop: 4 by default
    MaxRev,         \* bound: contents an event may take
    MaxRestarts, MaxPrunes, MaxToggles,    \* bounds on rare events
    NoRow, NoHold, Nobody

ASSUME BlockedAssumption == Blocked \subseteq Events
ASSUME BoundsAssumption ==
    /\ MaxRev \in Nat /\ MaxRestarts \in Nat
    /\ MaxPrunes \in Nat /\ MaxToggles \in Nat

Rows == [status : {"pending", "sending", "delivered"}, rev : Nat]

\* What an uploader claimed: the revision of the queue's row and the content of
\* the event, which may be newer.
Holds == [rev : Nat, body : Nat]

ASSUME DistinctAssumption ==
    NoRow \notin Rows /\ NoHold \notin Holds /\ Nobody \notin Uploaders

VARIABLES
    rev,        \* revision of the row of "events", 0 without a row
    made,       \* how many contents each event has had
    brain,      \* the table "brain_events"
    fresh,      \* rows of "events" inserted since the process started
    ingesting,  \* events stored by ingest_event and not yet queued by it
    context,    \* events queued at the context enricher
    configured, registered,
    pc,         \* uploaders: idle, claimed, waiting for acks, answered
    hold,       \* what each uploader claimed
    got,        \* the events whose acknowledgement an uploader has
    owner,      \* whom the channel gives the next ack of an event to
    wire, acks, \* frames on their way to the center, acks on their way back
    seen,       \* the newest content of an event the center has answered for
    restarts, prunes, toggles

store   == <<rev, made, brain, fresh>>
seat    == <<ingesting, context>>
link    == <<configured, registered>>
pool    == <<pc, hold, got>>
channel == <<owner, wire, acks>>
counts  == <<restarts, prunes, toggles>>
vars    == <<rev, made, brain, fresh, ingesting, context, configured,
             registered, pc, hold, got, owner, wire, acks, seen,
             restarts, prunes, toggles>>

Batch(u) == {e \in Events : hold[u][e] # NoHold}

TypeOK ==
    /\ rev \in [Events -> Nat]
    /\ made \in [Events -> Nat]
    /\ brain \in [Events -> Rows \cup {NoRow}]
    /\ fresh \in SUBSET Events
    /\ ingesting \in SUBSET Events
    /\ context \in SUBSET Events
    /\ configured \in BOOLEAN /\ registered \in BOOLEAN
    /\ pc \in [Uploaders -> {"idle", "claimed", "waiting", "answered"}]
    /\ hold \in [Uploaders -> [Events -> Holds \cup {NoHold}]]
    /\ got \in [Uploaders -> SUBSET Events]
    /\ \A u \in Uploaders : got[u] \subseteq Batch(u)
    /\ owner \in [Events -> Uploaders \cup {Nobody}]
    /\ wire \in SUBSET (Events \X Nat)
    /\ acks \in SUBSET (Events \X Nat)
    /\ seen \in [Events -> Nat]
    /\ restarts \in Nat /\ prunes \in Nat /\ toggles \in Nat

Nothing == [e \in Events |-> NoHold]

Init ==
    /\ rev = [e \in Events |-> 0]
    /\ made = [e \in Events |-> 0]
    /\ brain = [e \in Events |-> NoRow]
    /\ fresh = {}
    /\ ingesting = {}
    /\ context = {}
    /\ configured \in BOOLEAN
    /\ registered = FALSE
    /\ pc = [u \in Uploaders |-> "idle"]
    /\ hold = [u \in Uploaders |-> Nothing]
    /\ got = [u \in Uploaders |-> {}]
    /\ owner = [e \in Events |-> Nobody]
    /\ wire = {}
    /\ acks = {}
    /\ seen = [e \in Events |-> 0]
    /\ restarts = 0
    /\ prunes = 0
    /\ toggles = 0

-----------------------------------------------------------------------------
(* Helpers. *)

Has(e) == brain[e] # NoRow
StatusIs(e, s) == Has(e) /\ brain[e].status = s

Pending(r) == [status |-> "pending", rev |-> r]

\* The row of e in "events" takes a content it never had.
NewContent(e) ==
    /\ made[e] < MaxRev
    /\ made' = [made EXCEPT ![e] = @ + 1]
    /\ rev' = [rev EXCEPT ![e] = made[e] + 1]

Newer(s, e, b) == [s EXCEPT ![e] = IF b > @ THEN b ELSE @]

-----------------------------------------------------------------------------
(* The seat: what fills the queue. *)

\* ingest_event up to the return of upsert_event with new content; the event is
\* queued for context unless the enricher has no use for it.
Capture(e) ==
    /\ NewContent(e)
    /\ fresh' = IF rev[e] = 0 THEN fresh \cup {e} ELSE fresh
    /\ ingesting' = ingesting \cup {e}
    /\ context' \in {context, context \cup {e}}
    /\ UNCHANGED <<brain, link, pool, channel, seen, counts>>

\* Slip: rows that are being sent or were delivered are queued again.
EnqueueAlways(e) ==
    /\ e \in ingesting
    /\ ingesting' = ingesting \ {e}
    /\ brain' = IF configured /\ rev[e] # 0
                THEN [brain EXCEPT ![e] = Pending(rev[e])] ELSE brain
    /\ UNCHANGED <<rev, made, fresh, context, link, pool, channel, seen, counts>>

\* The end of ingest_event: enqueue_brain_event, if the brain is configured.  A
\* row that is being sent or was delivered is left alone.
EnqueueBrain(e) ==
    /\ e \in ingesting
    /\ ingesting' = ingesting \ {e}
    /\ brain' = IF configured /\ rev[e] # 0 /\ (~Has(e) \/ StatusIs(e, "pending"))
                THEN [brain EXCEPT ![e] = Pending(rev[e])] ELSE brain
    /\ UNCHANGED <<rev, made, fresh, context, link, pool, channel, seen, counts>>

\* upsert_event on a delivered row and remember_native_context: the event gets
\* another content, or a history row is inserted; the queue is not told.
Rewrite(e) ==
    /\ NewContent(e)
    /\ fresh' = IF rev[e] = 0 THEN fresh \cup {e} ELSE fresh
    /\ UNCHANGED <<brain, seat, link, pool, channel, seen, counts>>

\* Slip: the row of the queue takes the new revision and keeps its status.
EnrichInPlace(e) ==
    /\ e \in context
    /\ context' = context \ {e}
    /\ IF rev[e] = 0 THEN UNCHANGED <<rev, made, brain>>
       ELSE /\ NewContent(e)
            /\ brain' = IF Has(e) THEN [brain EXCEPT ![e].rev = made[e] + 1]
                        ELSE brain
    /\ UNCHANGED <<fresh, ingesting, link, pool, channel, seen, counts>>

\* enrich_event, once per queued event: the row of the queue, if there is one,
\* is pending again with the new revision, whatever status it had.
Enrich(e) ==
    /\ e \in context
    /\ context' = context \ {e}
    /\ IF rev[e] = 0 THEN UNCHANGED <<rev, made, brain>>
       ELSE /\ NewContent(e)
            /\ brain' = IF Has(e) THEN [brain EXCEPT ![e] = Pending(made[e] + 1)]
                        ELSE brain
    /\ UNCHANGED <<fresh, ingesting, link, pool, channel, seen, counts>>

\* The lookup raises.
EnrichFails(e) ==
    /\ e \in context
    /\ context' = context \ {e}
    /\ UNCHANGED <<store, ingesting, link, pool, channel, seen, counts>>

\* The operator enables or disables the brain, or saves other settings for it.
Configure ==
    /\ toggles < MaxToggles
    /\ toggles' = toggles + 1
    /\ configured' \in BOOLEAN
    /\ registered' = FALSE
    /\ UNCHANGED <<store, seat, pool, channel, seen, restarts, prunes>>

\* register, then enqueue_untracked_brain_events_after_rowid for the rows that
\* were inserted since the process started.
Register ==
    /\ configured /\ ~registered
    /\ registered' = TRUE
    /\ brain' = [e \in Events |->
          IF e \in fresh /\ rev[e] # 0 /\ ~Has(e) THEN Pending(rev[e]) ELSE brain[e]]
    /\ UNCHANGED <<rev, made, fresh, seat, configured, pool, channel, seen, counts>>

\* prune_old_events: rows of either table that were delivered long ago.
Prune(S, T) ==
    /\ prunes < MaxPrunes
    /\ prunes' = prunes + 1
    /\ S \cup T # {}
    /\ \A e \in T : StatusIs(e, "delivered")
    /\ rev' = [e \in Events |-> IF e \in S THEN 0 ELSE rev[e]]
    /\ fresh' = fresh \ S
    /\ brain' = [e \in Events |-> IF e \in T THEN NoRow ELSE brain[e]]
    /\ UNCHANGED <<made, seat, link, pool, channel, seen, restarts, toggles>>

-----------------------------------------------------------------------------
(* The uploaders. *)

\* Slip: rows that another uploader is sending are claimed too.
ClaimBrainSending(u, S) ==
    /\ pc[u] = "idle"
    /\ configured /\ registered
    /\ S # {}
    /\ \A e \in S : ~StatusIs(e, "delivered") /\ Has(e) /\ rev[e] # 0
    /\ brain' = [e \in Events |->
          IF e \in S THEN [brain[e] EXCEPT !.status = "sending"] ELSE brain[e]]
    /\ hold' = [hold EXCEPT ![u] = [e \in Events |->
          IF e \in S THEN [rev |-> brain[e].rev, body |-> rev[e]] ELSE NoHold]]
    /\ pc' = [pc EXCEPT ![u] = "claimed"]
    /\ UNCHANGED <<rev, made, fresh, seat, link, got, channel, seen, counts>>

\* claim_brain_events: pending rows that are old enough and whose event exists.
ClaimBrain(u, S) ==
    /\ pc[u] = "idle"
    /\ configured /\ registered
    /\ S # {}
    /\ \A e \in S : StatusIs(e, "pending") /\ rev[e] # 0
    /\ brain' = [e \in Events |->
          IF e \in S THEN [brain[e] EXCEPT !.status = "sending"] ELSE brain[e]]
    /\ hold' = [hold EXCEPT ![u] = [e \in Events |->
          IF e \in S THEN [rev |-> brain[e].rev, body |-> rev[e]] ELSE NoHold]]
    /\ pc' = [pc EXCEPT ![u] = "claimed"]
    /\ UNCHANGED <<rev, made, fresh, seat, link, got, channel, seen, counts>>

\* upload_events over HTTP: the center takes some events of the batch and the
\* answer names some of those, or is lost.  Blocked events are never sent and
\* count as settled, unless the request raises.
UploadHttp(u, taken, named) ==
    /\ pc[u] = "claimed"
    /\ taken \subseteq Batch(u) \ Blocked
    /\ named \subseteq taken
    /\ seen' = [e \in Events |->
          IF e \in taken /\ hold[u][e].body > seen[e] THEN hold[u][e].body
          ELSE seen[e]]
    /\ got' \in {[got EXCEPT ![u] = named \cup (Batch(u) \cap Blocked)],
                 [got EXCEPT ![u] = {}]}
    /\ pc' = [pc EXCEPT ![u] = "answered"]
    /\ UNCHANGED <<store, seat, link, hold, channel, counts>>

\* send_events: one frame per event, and the batch becomes the owner of the
\* acks of its events, in place of any other batch.
SendFrames(u) ==
    /\ pc[u] = "claimed"
    /\ Batch(u) \ Blocked # {}
    /\ wire' = wire \cup {<<e, hold[u][e].body>> : e \in Batch(u) \ Blocked}
    /\ owner' = [e \in Events |->
          IF e \in Batch(u) \ Blocked THEN u ELSE owner[e]]
    /\ got' = [got EXCEPT ![u] = Batch(u) \cap Blocked]
    /\ pc' = [pc EXCEPT ![u] = "waiting"]
    /\ UNCHANGED <<store, seat, link, hold, acks, seen, counts>>

\* The center stores the event of a frame and acknowledges it by its id.
CenterTakes(f) ==
    /\ f \in wire
    /\ wire' = wire \ {f}
    /\ acks' = acks \cup {f}
    /\ seen' = Newer(seen, f[1], f[2])
    /\ UNCHANGED <<store, seat, link, pool, owner, counts>>

\* _on_ack: whatever frame it answers, the ack goes to the event's owner.
AckArrives(f) ==
    /\ f \in acks
    /\ acks' = acks \ {f}
    /\ got' = IF owner[f[1]] = Nobody THEN got
              ELSE [got EXCEPT ![owner[f[1]]] = @ \cup {f[1]}]
    /\ UNCHANGED <<store, seat, link, pc, hold, owner, wire, seen, counts>>

\* Slip: the batch stays the owner of its acks.
WaitEndsKeepsOwner(u) ==
    /\ pc[u] = "waiting"
    /\ pc' = [pc EXCEPT ![u] = "answered"]
    /\ UNCHANGED <<store, seat, link, hold, got, channel, seen, counts>>

\* send_events returns, with every ack or at its time-out.
WaitEnds(u) ==
    /\ pc[u] = "waiting"
    /\ pc' = [pc EXCEPT ![u] = "answered"]
    /\ owner' = [e \in Events |-> IF e \in Batch(u) THEN Nobody ELSE owner[e]]
    /\ UNCHANGED <<store, seat, link, hold, got, wire, acks, seen, counts>>

\* The connection is lost with what is on it.
LinkDrops ==
    /\ wire \cup acks # {}
    /\ wire' = {}
    /\ acks' = {}
    /\ UNCHANGED <<store, seat, link, pool, owner, seen, counts>>

Release(u) ==
    /\ pc' = [pc EXCEPT ![u] = "idle"]
    /\ hold' = [hold EXCEPT ![u] = Nothing]
    /\ got' = [got EXCEPT ![u] = {}]

\* Slip: the revision is not compared.
FinishBrainAnyRevision(u) ==
    /\ pc[u] = "answered"
    /\ brain' = [e \in Events |->
          IF e \in Batch(u) /\ StatusIs(e, "sending")
          THEN [brain[e] EXCEPT !.status =
                   IF e \in got[u] THEN "delivered" ELSE "pending"]
          ELSE brain[e]]
    /\ Release(u)
    /\ UNCHANGED <<rev, made, fresh, seat, link, channel, seen, counts>>

\* Slip: what was not acknowledged is not requeued.
FinishBrainAckedOnly(u) ==
    /\ pc[u] = "answered"
    /\ brain' = [e \in Events |->
          IF /\ e \in got[u] /\ StatusIs(e, "sending")
             /\ brain[e].rev = hold[u][e].rev
          THEN [brain[e] EXCEPT !.status = "delivered"] ELSE brain[e]]
    /\ Release(u)
    /\ UNCHANGED <<rev, made, fresh, seat, link, channel, seen, counts>>

\* finish_brain_events, for the rows that are still as they were claimed.
FinishBrain(u) ==
    /\ pc[u] = "answered"
    /\ brain' = [e \in Events |->
          IF /\ e \in Batch(u) /\ StatusIs(e, "sending")
             /\ brain[e].rev = hold[u][e].rev
          THEN [brain[e] EXCEPT !.status =
                   IF e \in got[u] THEN "delivered" ELSE "pending"]
          ELSE brain[e]]
    /\ Release(u)
    /\ UNCHANGED <<rev, made, fresh, seat, link, channel, seen, counts>>

\* The process ends and starts again: _initialize requeues what was being sent,
\* and the watermark of the new session excludes every row there is.
Restart ==
    /\ restarts < MaxRestarts
    /\ restarts' = restarts + 1
    /\ brain' = [e \in Events |->
          IF StatusIs(e, "sending") THEN [brain[e] EXCEPT !.status = "pending"]
          ELSE brain[e]]
    /\ fresh' = {}
    /\ ingesting' = {}
    /\ context' = {}
    /\ registered' = FALSE
    /\ pc' = [u \in Uploaders |-> "idle"]
    /\ hold' = [u \in Uploaders |-> Nothing]
    /\ got' = [u \in Uploaders |-> {}]
    /\ owner' = [e \in Events |-> Nobody]
    /\ wire' = {}
    /\ acks' = {}
    /\ UNCHANGED <<rev, made, configured, seen, prunes, toggles>>

-----------------------------------------------------------------------------
OverHttp(u) ==
    \E taken \in SUBSET Batch(u) : \E named \in SUBSET taken :
        UploadHttp(u, taken, named)
Upload(u) == OverHttp(u) \/ SendFrames(u)

\* While there is no WebSocket, nothing is old enough to be pruned and the
\* configuration stays.
HttpNext ==
    \/ \E e \in Events :
          \/ Capture(e) \/ EnqueueBrain(e) \/ Rewrite(e)
          \/ Enrich(e) \/ EnrichFails(e)
    \/ Register \/ Restart
    \/ \E u \in Uploaders :
          \/ \E S \in SUBSET Events : ClaimBrain(u, S)
          \/ OverHttp(u) \/ FinishBrain(u)

Next ==
    \/ HttpNext
    \/ Configure \/ LinkDrops
    \/ \E S, T \in SUBSET Events : Prune(S, T)
    \/ \E u \in Uploaders : SendFrames(u) \/ WaitEnds(u)
    \/ \E f \in wire : CenterTakes(f)
    \/ \E f \in acks : AckArrives(f)

Spec == Init /\ [][Next]_vars

\* The center answers for all of a batch.
Answers(u) ==
    /\ Batch(u) # {} /\ got' = [got EXCEPT ![u] = Batch(u)]
    /\ UploadHttp(u, Batch(u) \ Blocked, Batch(u) \ Blocked)

(* The threads run; a row that stays pending gets old enough to be in every   *)
(* claim; and a center that is asked again and again answers for an event in  *)
(* the end.                                                                   *)
FairSpec ==
    /\ Init /\ [][HttpNext]_vars
    /\ WF_vars(Register)
    /\ \A e \in Events :
          /\ WF_vars(EnqueueBrain(e))
          /\ SF_vars(\E u \in Uploaders, S \in SUBSET Events :
                        e \in S /\ ClaimBrain(u, S))
    /\ \A u \in Uploaders :
          /\ WF_vars(OverHttp(u))
          /\ WF_vars(FinishBrain(u))
          /\ SF_vars(Answers(u))

-----------------------------------------------------------------------------
(* What must hold. *)

\* A row is "sending" only while some uploader holds it with this revision, so
\* it will be settled or requeued without a restart (comment at
\* event_upload_loop: claims are atomic, results are matched by revision).
SendingIsHeld ==
    \A e \in Events : StatusIs(e, "sending") =>
        \E u \in Uploaders : hold[u][e] # NoHold /\ hold[u][e].rev = brain[e].rev

\* Two uploaders may hold the same event, but never the same revision of it.
OneHolder ==
    \A u, v \in Uploaders : \A e \in Events :
        u # v /\ hold[u][e] # NoHold /\ hold[v][e] # NoHold =>
            hold[u][e].rev # hold[v][e].rev

\* A row that counts as delivered at a revision means that the center answered
\* for a content at least as new, or has it on the wire: no enrichment is
\* settled by the answer to what came before it.  Holds over HTTP; comment at
\* event_upload_loop: updates by event_id+revision+status are safe.
DeliveredIsCurrent ==
    \A e \in Events \ Blocked : StatusIs(e, "delivered") =>
        \/ seen[e] >= brain[e].rev
        \/ \E b \in brain[e].rev..MaxRev : <<e, b>> \in wire

\* A delivered row is queued again only for a content that came later.
RequeuedOnlyNewer ==
    [][\A e \in Events :
          StatusIs(e, "delivered") /\ StatusIs(e, "pending")' =>
              brain'[e].rev > brain[e].rev]_brain

\* A revision that entered the queue reaches the center, or a newer one does,
\* however many uploaders, failures and enrichments come between.
RevisionArrives ==
    \A e \in Events \ Blocked : \A n \in 1..MaxRev :
        (Has(e) /\ brain[e].rev = n) ~> seen[e] >= n
=============================================================================
