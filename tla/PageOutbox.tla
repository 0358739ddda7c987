----------------------------- MODULE PageOutbox -----------------------------
(* Messages on their way from the pages of Qianniu to the local database:    *)
(* the outbox of browser_bridge.js, its copy in localStorage, the WebSocket  *)
(* and the handler of BrowserServer, which ingests and acknowledges.         *)
(*                                                                           *)
(* The pages here have one origin and hence one localStorage: whoever writes *)
(* last replaces the batch of the other.  Messages are numbered by their     *)
(* event id; what they say does not matter here, only whether the handler    *)
(* finds the fields it requires.                                             *)
EXTENDS Naturals, Sequences, SequencesExt

CONSTANTS
    Pages,
    Guarded,        \* messages of the guarded accounts (tmallGuardScope)
    Ordinary,       \* messages of the other accounts
    Malformed,      \* messages that lack a required field
    MaxOutbox,      \* MAX_OUTBOX, for ordinary accounts only
    FlushLimit,     \* envelopes one flush looks at
    MaxDrops,       \* bound: lost connections in a behaviour
    MaxReloads      \* bound: page loads in a behaviour

Messages == Guarded \cup Ordinary
Envelopes == [id : Messages, unnamed : BOOLEAN]

VARIABLES
    outbox,     \* the envelopes of each page, in order
    disk,       \* localStorage
    timer,      \* pages whose write to localStorage is due
    seen,       \* message ids each page remembers
    open,       \* pages with an open connection
    wire,       \* messages on the connection, to the handler
    acks,       \* acknowledgements on the connection, to the page
    stored,     \* messages ingest_event has written to the database
    drops, reloads

vars == <<outbox, disk, timer, seen, open, wire, acks, stored, drops, reloads>>
link == <<open, wire, acks>>

IdsOf(q) == {q[i].id : i \in DOMAIN q}

TypeOK ==
    /\ outbox \in [Pages -> Seq(Envelopes)]
    /\ disk \in Seq(Envelopes)
    /\ timer \in SUBSET Pages
    /\ seen \in [Pages -> SUBSET Messages]
    /\ open \in SUBSET Pages
    /\ wire \in [Pages -> SUBSET Messages]
    /\ acks \in [Pages -> SUBSET Messages]
    /\ stored \in SUBSET Messages
    /\ drops \in Nat /\ reloads \in Nat

Init ==
    /\ outbox = [p \in Pages |-> <<>>]
    /\ disk = <<>>
    /\ timer = {}
    /\ seen = [p \in Pages |-> {}]
    /\ open = {}
    /\ wire = [p \in Pages |-> {}]
    /\ acks = [p \in Pages |-> {}]
    /\ stored = {}
    /\ drops = 0 /\ reloads = 0

-----------------------------------------------------------------------------
(* The page. *)

\* Slip: the bound counts the envelopes of all accounts.
OverflowAll(q) ==
    IF Len(q) > MaxOutbox THEN SubSeq(q, Len(q) - MaxOutbox + 1, Len(q)) ELSE q

\* filter, splice: the envelopes of q that are not of D, in their order.
Without(q, D) ==
    LET kept[n \in 0 .. Len(q)] ==
            IF n = 0 THEN <<>>
            ELSE IF q[n].id \in D THEN kept[n - 1]
            ELSE Append(kept[n - 1], q[n])
    IN kept[Len(q)]

\* queueEnvelope: the oldest ordinary envelopes over the bound are dropped, the
\* guarded ones are all kept.
Overflow(q) ==
    LET others == Without(q, Guarded)
        dropped == IF Len(others) > MaxOutbox
                   THEN IdsOf(SubSeq(others, 1, Len(others) - MaxOutbox))
                   ELSE {}
    IN Without(q, dropped)

\* emitChatPayload: an ordinary message may wait for the buyer's nickname.
Capture(p, m, unnamed) ==
    /\ m \notin seen[p]
    /\ unnamed => m \in Ordinary
    /\ seen' = [seen EXCEPT ![p] = @ \cup {m}]
    /\ IF m \in IdsOf(outbox[p])
       THEN UNCHANGED <<outbox, timer>>
       ELSE /\ outbox' = [outbox EXCEPT ![p] =
                             Overflow(Append(@, [id |-> m, unnamed |-> unnamed]))]
            /\ timer' = timer \cup {p}
    /\ UNCHANGED <<disk, link, stored, drops, reloads>>

\* enqueueResolved: found or not, the nickname no longer holds the envelope.
Named(p, m) ==
    /\ \E i \in DOMAIN outbox[p] : outbox[p][i] = [id |-> m, unnamed |-> TRUE]
    /\ outbox' = [outbox EXCEPT ![p] =
          [i \in DOMAIN @ |-> IF @[i].id = m THEN [@[i] EXCEPT !.unnamed = FALSE]
                                             ELSE @[i]]]
    /\ timer' = timer \cup {p}
    /\ UNCHANGED <<disk, seen, link, stored, drops, reloads>>

\* persistOutbox's timer, OUTBOX_PERSIST_DELAY_MS after the first change.
Persist(p) ==
    /\ p \in timer
    /\ disk' = outbox[p]
    /\ timer' = timer \ {p}
    /\ UNCHANGED <<outbox, seen, link, stored, drops, reloads>>

Flush(p) ==
    LET head == SubSeq(outbox[p], 1,
                       IF Len(outbox[p]) < FlushLimit THEN Len(outbox[p])
                                                      ELSE FlushLimit)
        ready == {e.id : e \in {x \in Range(head) : ~x.unnamed}}
    IN
    /\ p \in open
    /\ ready \ wire[p] # {}
    /\ wire' = [wire EXCEPT ![p] = @ \cup ready]
    /\ UNCHANGED <<outbox, disk, timer, seen, open, acks, stored, drops, reloads>>

AcknowledgeEvent(p, m) ==
    /\ m \in acks[p]
    /\ acks' = [acks EXCEPT ![p] = @ \ {m}]
    /\ IF m \in IdsOf(outbox[p])
       THEN /\ outbox' = [outbox EXCEPT ![p] = Without(@, {m})]
            /\ timer' = timer \cup {p}
       ELSE UNCHANGED <<outbox, timer>>
    /\ UNCHANGED <<disk, seen, open, wire, stored, drops, reloads>>

Connect(p) ==
    /\ p \notin open
    /\ open' = open \cup {p}
    /\ UNCHANGED <<outbox, disk, timer, seen, wire, acks, stored, drops, reloads>>

Closed(p) ==
    /\ open' = open \ {p}
    /\ wire' = [wire EXCEPT ![p] = {}]
    /\ acks' = [acks EXCEPT ![p] = {}]

\* The page loads again: a fresh script, and what localStorage holds.
Reload(p) ==
    /\ reloads < MaxReloads
    /\ reloads' = reloads + 1
    /\ outbox' = [outbox EXCEPT ![p] = disk]
    /\ seen' = [seen EXCEPT ![p] = IdsOf(disk)]
    /\ timer' = timer \ {p}
    /\ Closed(p)
    /\ UNCHANGED <<disk, stored, drops>>

-----------------------------------------------------------------------------
(* BrowserServer.handler. *)

\* Slip: an event that is known already is not acknowledged again.
IngestAcksNew(p, m) ==
    /\ m \in wire[p]
    /\ wire' = [wire EXCEPT ![p] = @ \ {m}]
    /\ stored' = IF m \in Malformed THEN stored ELSE stored \cup {m}
    /\ acks' = IF m \in Malformed \cup stored THEN acks
               ELSE [acks EXCEPT ![p] = @ \cup {m}]
    /\ UNCHANGED <<outbox, disk, timer, seen, open, drops, reloads>>

Ingest(p, m) ==
    /\ m \in wire[p]
    /\ wire' = [wire EXCEPT ![p] = @ \ {m}]
    /\ IF m \in Malformed
       THEN UNCHANGED <<stored, acks>>
       ELSE /\ stored' = stored \cup {m}
            /\ acks' = [acks EXCEPT ![p] = @ \cup {m}]
    /\ UNCHANGED <<outbox, disk, timer, seen, open, drops, reloads>>

\* ingest_event raises, or the acknowledgement cannot be sent: the connection
\* ends, with everything on it, whether or not the message was stored.
IngestFails(p, m) ==
    /\ drops < MaxDrops
    /\ m \in wire[p]
    /\ stored' \in {stored} \cup (IF m \in Malformed THEN {}
                                  ELSE {stored \cup {m}})
    /\ Closed(p)
    /\ drops' = drops + 1
    /\ UNCHANGED <<outbox, disk, timer, seen, reloads>>

Disconnect(p) ==
    /\ drops < MaxDrops
    /\ p \in open
    /\ Closed(p)
    /\ drops' = drops + 1
    /\ UNCHANGED <<outbox, disk, timer, seen, stored, reloads>>

-----------------------------------------------------------------------------

Next ==
    \E p \in Pages :
        \/ Persist(p) \/ Flush(p) \/ Connect(p) \/ Reload(p) \/ Disconnect(p)
        \/ \E m \in Messages :
              \/ \E unnamed \in BOOLEAN : Capture(p, m, unnamed)
              \/ Named(p, m) \/ AcknowledgeEvent(p, m)
              \/ Ingest(p, m) \/ IngestFails(p, m)

Spec == Init /\ [][Next]_vars

\* The page reconnects and flushes with every heartbeat, nickname look-ups end
\* with an answer or a time-out, and the handler reads its connection.
Fairness ==
    \A p \in Pages :
        /\ WF_vars(Persist(p)) /\ WF_vars(Flush(p)) /\ WF_vars(Connect(p))
        /\ \A m \in Messages :
              WF_vars(Named(p, m)) /\ WF_vars(Ingest(p, m))
                 /\ WF_vars(AcknowledgeEvent(p, m))
FairSpec == Spec /\ Fairness

-----------------------------------------------------------------------------
(* Properties. *)

\* "Keep every unacknowledged Tmall envelope" (browser_bridge.js:309): as long
\* as the page is not loaded anew, a message of a guarded account leaves its
\* outbox only when the database has it, whatever connections and bursts do.
GuardedLeavesStored ==
    [][\A p \in Pages, m \in Guarded :
          m \in IdsOf(outbox[p]) /\ m \notin IdsOf(outbox'[p]) =>
              m \in stored \/ reloads' # reloads]_vars

\* A message the handler takes, captured by a page that is not loaded anew and
\* does not overflow, leaves the outbox in the end: what was stored before a
\* lost acknowledgement is acknowledged when it is sent again.
OutboxDrains ==
    \A p \in Pages, m \in Guarded \ Malformed :
        [](m \in IdsOf(outbox[p]) => <>(m \notin IdsOf(outbox[p])))
=============================================================================
