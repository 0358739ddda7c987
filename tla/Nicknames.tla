----------------------------- MODULE Nicknames ------------------------------
(* How a buyer whose messages carry no nickname gets one: from the database, *)
(* from what a page says later, or from the client's own log, which          *)
(* NicknameResolver reads every second.  Notes of the log, look-ups and the  *)
(* conversations searched for buyers without a name all expire after a day.  *)
(* Nicknames are numbered in the order the buyer took them; 0 is none.       *)
EXTENDS Naturals, FiniteSets

CONSTANTS
    Buyers,
    MaxPending,     \* look-ups remembered at a time
    Renaming,       \* bound: buyers who take another nickname
    MaxNames,       \* bound: nicknames of a buyer
    MaxFailures     \* bound: ingest_event raising

VARIABLES
    real,       \* the nickname each buyer has
    unread,     \* log notes not read yet
    names,      \* QianniuNicknameLog.names
    meta,       \* metadata_pending
    pending,    \* NicknameResolver.pending
    db,         \* buyer_nicknames
    recent,     \* buyers scan_recent sees: of a session with a message of the last day
    pc,         \* the worker: "scan", "refresh", "resolve"
    todo,       \* keys it has still to go through
    failures

vars == <<real, unread, names, meta, pending, db, recent, pc, todo, failures>>
log == <<unread, names>>

Nicks == 0 .. MaxNames

TypeOK ==
    /\ real \in [Buyers -> 1 .. MaxNames]
    /\ unread \in [Buyers -> Nicks] /\ names \in [Buyers -> Nicks]
    /\ meta \in [Buyers -> Nicks] /\ db \in [Buyers -> Nicks]
    /\ pending \in SUBSET Buyers /\ Cardinality(pending) <= MaxPending
    /\ recent \in SUBSET Buyers /\ todo \in SUBSET Buyers
    /\ pc \in {"scan", "refresh", "resolve"}
    /\ failures \in 0 .. MaxFailures

Init ==
    /\ real = [b \in Buyers |-> 1]
    /\ unread = [b \in Buyers |-> 0] /\ names = [b \in Buyers |-> 0]
    /\ meta = [b \in Buyers |-> 0] /\ db = [b \in Buyers |-> 0]
    /\ pending = {} /\ recent = {} /\ pc = "scan" /\ todo = {}
    /\ failures = 0

-----------------------------------------------------------------------------
(* Buyers and what is captured of them. *)

Rename(b) ==
    /\ b \in Renaming /\ real[b] < MaxNames
    /\ real' = [real EXCEPT ![b] = @ + 1]
    /\ UNCHANGED <<log, meta, pending, db, recent, pc, todo, failures>>

\* The client notes an event of the conversation in its log.
Note(b) ==
    /\ unread[b] # real[b]
    /\ unread' = [unread EXCEPT ![b] = real[b]]
    /\ UNCHANGED <<real, names, meta, pending, db, recent, pc, todo, failures>>

\* NicknameResolver.enqueue of a set, in some order until the table is full.
Enqueued(S, p) ==
    LET wanted == {b \in S : db[b] = 0} IN
    /\ pending \subseteq p /\ p \subseteq pending \cup wanted
    /\ Cardinality(p) <= MaxPending
    /\ p # pending \cup wanted => Cardinality(p) = MaxPending

\* A message without a nickname takes the one that is known, if any.  Out of a
\* history it may be older than a day.
Capture(b) ==
    LET nick == IF db[b] # 0 THEN db[b] ELSE names[b] IN
    /\ recent' \in {recent, recent \cup {b}}
    /\ db' = [db EXCEPT ![b] = nick]
    /\ IF nick = 0 THEN \E p \in SUBSET Buyers : Enqueued({b}, p) /\ pending' = p
                   ELSE UNCHANGED pending
    /\ UNCHANGED <<real, log, meta, pc, todo, failures>>

\* A message or a nickname_update of a page.
CaptureNamed(b) ==
    /\ recent' \in {recent, recent \cup {b}}
    /\ db' = [db EXCEPT ![b] = real[b]]
    /\ UNCHANGED <<real, log, meta, pending, pc, todo, failures>>

\* The last message of the conversation gets older than a day.
Quiet(b) ==
    /\ b \in recent /\ recent' = recent \ {b}
    /\ UNCHANGED <<real, log, meta, pending, db, pc, todo, failures>>

-----------------------------------------------------------------------------
(* The worker. *)

\* Whom the log names.
Noted == {b \in Buyers : unread[b] # 0 \/ names[b] # 0}

\* QianniuNicknameLog.poll: what is new in the log, less the names of S, whose
\* notes are older than a day or over the limit of 5000.
Reads(S) ==
    /\ pc = "scan" /\ pc' = "refresh"
    /\ names' = [b \in Buyers |-> IF b \in S THEN 0
                                  ELSE IF unread[b] # 0 THEN unread[b] ELSE names[b]]
    /\ meta' = [b \in Buyers |-> IF unread[b] \notin {0, names[b]} THEN unread[b]
                                                                  ELSE meta[b]]
    /\ unread' = [b \in Buyers |-> 0]
    /\ todo' = {b \in Buyers : meta'[b] # 0}
    /\ UNCHANGED <<real, db, recent, failures>>

\* Slip: what had no place in the table once is not looked at again.
ScanNothing(S) == Reads(S) /\ UNCHANGED pending

\* scan_recent, once a minute.
ScanAndPoll(S) ==
    /\ Reads(S)
    /\ \E p \in SUBSET Buyers : Enqueued(recent, p) /\ pending' = p

Poll(S) == Reads(S) /\ UNCHANGED pending

\* ingest_event raises: the pass ends, what is left is kept for the next.
Fails ==
    /\ failures < MaxFailures /\ todo # {}
    /\ failures' = failures + 1
    /\ pc' = "scan" /\ todo' = {}
    /\ UNCHANGED <<real, log, meta, pending, db, recent>>

\* A name the database already has for the buyer is replaced.
Refresh(b) ==
    /\ pc = "refresh" /\ b \in todo
    /\ todo' = todo \ {b}
    /\ db' = [db EXCEPT ![b] = IF @ = 0 THEN 0 ELSE meta[b]]
    /\ meta' = [meta EXCEPT ![b] = 0]
    /\ UNCHANGED <<real, log, pending, recent, pc, failures>>

Refreshed ==
    /\ pc = "refresh" /\ todo = {}
    /\ pc' = "resolve" /\ todo' = pending
    /\ UNCHANGED <<real, log, meta, pending, db, recent, failures>>

\* Slip: the log's name is taken although the database has one by now.
ResolveOver(b) ==
    /\ pc = "resolve" /\ b \in todo
    /\ todo' = todo \ {b}
    /\ db' = [db EXCEPT ![b] = names[b]]
    /\ pending' = IF names[b] # 0 THEN pending \ {b} ELSE pending
    /\ UNCHANGED <<real, log, meta, recent, pc, failures>>

Resolve(b) ==
    LET nick == IF db[b] # 0 THEN db[b] ELSE names[b] IN
    /\ pc = "resolve" /\ b \in todo
    /\ todo' = todo \ {b}
    /\ db' = [db EXCEPT ![b] = nick]
    /\ pending' = IF nick # 0 THEN pending \ {b} ELSE pending
    /\ UNCHANGED <<real, log, meta, recent, pc, failures>>

\* Look-ups of S were begun more than a day ago.
Resolved(S) ==
    /\ pc = "resolve" /\ todo = {}
    /\ pc' = "scan"
    /\ pending' = pending \ S
    /\ UNCHANGED <<real, log, meta, db, recent, todo, failures>>

-----------------------------------------------------------------------------

Next ==
    \/ \E b \in Buyers :
          \/ Rename(b) \/ Note(b) \/ Capture(b) \/ CaptureNamed(b) \/ Quiet(b)
          \/ Refresh(b) \/ Resolve(b)
    \/ \E S \in SUBSET Noted : ScanAndPoll(S) \/ Poll(S)
    \/ \E S \in SUBSET pending : Resolved(S)
    \/ Fails \/ Refreshed

Spec == Init /\ [][Next]_vars

\* The worker's loop, which scans every minute; what it fails at it comes back to.
Scans == \E S \in SUBSET Noted : ScanAndPoll(S)
Polls == \E S \in SUBSET Noted : ScanAndPoll(S) \/ Poll(S)
Ends == \E S \in SUBSET pending : Resolved(S)
Fairness ==
    /\ SF_vars(Scans)
    /\ WF_vars(Polls) /\ WF_vars(Refreshed) /\ WF_vars(Ends)
    /\ \A b \in Buyers : WF_vars(Refresh(b)) /\ WF_vars(Resolve(b))
FairSpec == Spec /\ Fairness

-----------------------------------------------------------------------------
(* Properties. *)

\* A buyer the worker looks for and whom the log names gets a nickname, also one
\* who came while the table of look-ups was full or while ingest_event failed, as
\* long as fewer buyers than the table holds have no name to be found.  It ceases
\* to look when neither the last message nor the look-up is of the last day, and
\* the log's name is forgotten a day after its note.
Findable(b) == b \in Noted
LookedFor(b) == b \in recent \cup pending
NicknameFound ==
    <>[](Cardinality({b \in Buyers : LookedFor(b) /\ db[b] = 0 /\ ~Findable(b)})
            < MaxPending) =>
        \A b \in Buyers :
            [](LookedFor(b) /\ Findable(b) =>
                  <>(db[b] # 0 \/ ~LookedFor(b) \/ ~Findable(b)))

\* A nickname is never lost again, whichever of its three writers is late.
NicknameStays == [][\A b \in Buyers : db[b] # 0 => db'[b] # 0]_vars
=============================================================================
