---------------------------- MODULE CatalogSync -----------------------------
(* CatalogSyncer: one thread asks the pages for the goods on sale, a page of *)
(* the listing at a time, and stores what they answer.  It does so after the *)
(* start, at intervals and when the workbench requests it.  The request is   *)
(* an Event that the thread waits for and clears; the listing changes while  *)
(* it is being read; any page of any shop may answer, for the call goes to   *)
(* all of them.                                                              *)
EXTENDS Naturals, Sequences, SequencesExt, FiniteSets

CONSTANTS
    Shops,          \* shops with an open page
    Goods,
    Nameless,       \* those of Goods that are listed without an id
    PageSize,       \* catalog_sync_page_size
    MaxPages,       \* catalog_sync_max_pages
    MaxChanges,     \* bound: changes of the listings
    MaxFaults       \* bound: failures of calls and restarts

VARIABLES
    listing,    \* what each shop has on sale, in the order it is told
    stored,     \* catalog_goods
    pc,         \* run: "startup", "wait", "woken", "begin", "fetch"
    page,       \* page_no
    written,    \* written
    total,      \* total, once a page told it: a set of at most one number
    wakeup,     \* wakeup
    asked,      \* whether a sync is requested and none has begun since
    changes, faults

vars == <<listing, stored, pc, page, written, total, wakeup, asked, changes,
          faults>>
sweep == <<page, written, total>>

Listings == {l \in UNION {[1 .. n -> Goods] : n \in 0 .. Cardinality(Goods)} :
                IsInjective(l)}
OnSale(s) == Range(listing[s])

TypeOK ==
    /\ listing \in [Shops -> Listings]
    /\ stored \in SUBSET (Goods \ Nameless)
    /\ pc \in {"startup", "wait", "woken", "begin", "fetch"}
    /\ page \in 1 .. MaxPages
    /\ written \in Nat
    /\ \A n \in total : n \in 0 .. Cardinality(Goods)
    /\ Cardinality(total) <= 1
    /\ wakeup \in BOOLEAN /\ asked \in BOOLEAN
    /\ changes \in 0 .. MaxChanges /\ faults \in 0 .. MaxFaults

Init ==
    /\ listing \in [Shops -> Listings]
    /\ stored = {} /\ pc = "startup"
    /\ page = 1 /\ written = 0 /\ total = {}
    /\ wakeup = FALSE /\ asked = FALSE
    /\ changes = 0 /\ faults = 0

-----------------------------------------------------------------------------
(* The shop and the workbench. *)

\* Goods are taken off sale; others come on at the head of the listing.
Change(s) ==
    /\ changes < MaxChanges
    /\ \/ \E i \in DOMAIN listing[s] :
            listing' = [listing EXCEPT ![s] = RemoveAt(@, i)]
       \/ \E g \in Goods \ OnSale(s) :
            listing' = [listing EXCEPT ![s] = <<g>> \o @]
    /\ changes' = changes + 1
    /\ UNCHANGED <<stored, pc, sweep, wakeup, asked, faults>>

\* POST /api/v1/catalog/sync: request_sync.
RequestSync ==
    /\ wakeup' = TRUE /\ asked' = TRUE
    /\ UNCHANGED <<listing, stored, pc, sweep, changes, faults>>

-----------------------------------------------------------------------------
(* CatalogSyncer.run. *)

Started ==
    /\ pc = "startup" /\ pc' = "begin"
    /\ UNCHANGED <<listing, stored, sweep, wakeup, asked, changes, faults>>

\* The wait ends, with the interval or before it with a request.
WaitEnds ==
    /\ pc = "wait" /\ pc' = "woken"
    /\ UNCHANGED <<listing, stored, sweep, wakeup, asked, changes, faults>>

Clear ==
    /\ pc = "woken" /\ pc' = "begin"
    /\ wakeup' = FALSE
    /\ UNCHANGED <<listing, stored, sweep, asked, changes, faults>>

\* Slip: a sync goes on behind the page the one before it ended with.
BeginBehind ==
    /\ pc = "begin"
    /\ total' = {} /\ asked' = FALSE
    /\ \/ pc' = "fetch" /\ UNCHANGED faults
       \/ faults < MaxFaults /\ pc' = "wait" /\ faults' = faults + 1
    /\ UNCHANGED <<listing, stored, page, written, wakeup, changes>>

\* sync_once begins: nothing is done while no page is connected.
Begin ==
    /\ pc = "begin"
    /\ page' = 1 /\ written' = 0 /\ total' = {}
    /\ asked' = FALSE
    /\ \/ pc' = "fetch" /\ UNCHANGED faults
       \/ faults < MaxFaults /\ pc' = "wait" /\ faults' = faults + 1
    /\ UNCHANGED <<listing, stored, wakeup, changes>>

\* goods_page(page): the part of the listing of the shop whose page answers.
Batch(s) == SubSeq(listing[s], (page - 1) * PageSize + 1,
                   IF page * PageSize < Len(listing[s]) THEN page * PageSize
                                                      ELSE Len(listing[s]))

\* Whether a page of the listing was the last one to ask for; some answers
\* tell how many goods there are.
LastPage(b, w, t) ==
    \/ b = <<>> \/ Len(b) < PageSize \/ page = MaxPages
    \/ \E n \in t : w >= n

\* Slip: the event is cleared when the sync has ended.
FetchThenClear(s, tells) ==
    LET b == Batch(s)
        named == Range(b) \ Nameless
        t == IF tells THEN {Len(listing[s])} ELSE total
        w == written + Cardinality(named)
    IN
    /\ pc = "fetch"
    /\ stored' = stored \cup named
    /\ written' = w /\ total' = t
    /\ IF LastPage(b, w, t) THEN pc' = "wait" /\ wakeup' = FALSE /\ UNCHANGED page
                            ELSE page' = page + 1 /\ UNCHANGED <<pc, wakeup>>
    /\ UNCHANGED <<listing, asked, changes, faults>>

\* A page answers and its goods are stored: catalog_upsert_goods leaves out
\* what has no id and tells how many it wrote.
Fetch(s, tells) ==
    LET b == Batch(s)
        named == Range(b) \ Nameless
        t == IF tells THEN {Len(listing[s])} ELSE total
        w == written + Cardinality(named)
    IN
    /\ pc = "fetch"
    /\ stored' = stored \cup named
    /\ written' = w /\ total' = t
    /\ IF LastPage(b, w, t) THEN pc' = "wait" /\ UNCHANGED page
                            ELSE page' = page + 1 /\ UNCHANGED pc
    /\ UNCHANGED <<listing, wakeup, asked, changes, faults>>

FetchAny == \E s \in Shops, tells \in BOOLEAN : Fetch(s, tells)

\* The call fails: run notes the error and waits; what is stored stays.
FetchFails ==
    /\ pc = "fetch" /\ faults < MaxFaults
    /\ pc' = "wait" /\ faults' = faults + 1
    /\ UNCHANGED <<listing, stored, sweep, wakeup, asked, changes>>

\* The bridge ends and is started again.
Restart ==
    /\ faults < MaxFaults
    /\ pc' = "startup" /\ wakeup' = FALSE /\ faults' = faults + 1
    /\ UNCHANGED <<listing, stored, sweep, asked, changes>>

Advance == Started \/ WaitEnds \/ Clear \/ Begin \/ FetchAny

Next ==
    \/ \E s \in Shops : Change(s)
    \/ RequestSync
    \/ Advance
    \/ FetchFails
    \/ Restart

Spec == Init /\ [][Next]_vars

\* The thread runs on and its waits end; pages that are connected answer.
Fairness == WF_vars(Advance)

FairSpec == Spec /\ Fairness

-----------------------------------------------------------------------------
(* A request is not lost: until a sync begins after it the event stands, or  *)
(* the thread is past its wait.  run clears the event only before sync_once, *)
(* so a request made while the pages are read is not cleared with the one    *)
(* that is being served; a restart forgets the event, and begins with a sync.*)
RequestIsKept == asked => wakeup \/ pc \in {"startup", "begin"}

(* What stays on sale is found in the store in the end, however the listing  *)
(* shifted under the sweeps before: a sweep that missed goods because others *)
(* left the pages it had read, or that failed halfway, is followed by one    *)
(* that reads them.  It holds with one shop, and a listing that fits into    *)
(* MaxPages pages.                                                           *)
GoodsAreStored ==
    \A s \in Shops, g \in Goods \ Nameless :
        g \in OnSale(s) ~> (g \in stored \/ g \notin OnSale(s))

=============================================================================
