---------------------------- MODULE OrderLookup -----------------------------
(* ContextEnricher: messages wait in a bounded queue until one thread asks   *)
(* the pages for the orders of their buyer, tries again where the answer has *)
(* none, and falls back on a cache of answers and on what the client itself  *)
(* has logged (NativeOrderLog).  The thread that reads the page's connection *)
(* is the one that puts messages in the queue, so that a full queue also     *)
(* holds back the pages' answers.  A call goes to every page, and the first  *)
(* answer counts.  All messages here are of one buyer.                       *)
EXTENDS Naturals, Sequences, SequencesExt

CONSTANTS
    Guarded,        \* messages of the guarded accounts (tmall_guard_scope)
    Ordinary,       \* messages of one other account
    Nameless,       \* messages without a buyer_encrypt_id
    MaxPending,     \* MAX_PENDING
    Retries,        \* EMPTY_ORDER_RETRIES
    SlowPages,      \* whether a page may answer too late of itself
    Nobody          \* no message

Asked == Guarded \cup Ordinary
\* The shops, each with a page; a page tells the orders of its own shop.
Shops == {"guarded", "ordinary"}
Shop(e) == IF e \in Guarded THEN "guarded" ELSE "ordinary"

\* What _fetch_once makes of a page's answer: orders; none; a business error or
\* nothing it understands; the call rejected; no page with the SDK; time is up.
Replies == {"orders", "empty", "refused", "rejected", "unavailable", "timeout"}
Statuses == {"found", "confirmed_empty", "error_unknown"}

VARIABLES
    buys,       \* the buyer has orders at the shop
    logged,     \* NativeOrderLog on the buyer: "unknown", "known", "orders"
    hand,       \* the message the connection's thread is putting in the queue
    pending,    \* the queue
    queued,     \* messages in it or being looked up
    cur,        \* the message being looked up
    replies,    \* what its attempts gave
    orderCache, \* shops with remembered orders (order_cache)
    snapshot,   \* the last result for the guarded shop (context_cache)
    result,     \* what enrich_event has been told of each message
    told        \* the shop an answer counts for, the page that gave it, the answer

vars == <<buys, logged, hand, pending, queued, cur, replies, orderCache,
          snapshot, result, told>>
world == <<buys, logged>>
queue == <<hand, pending, queued>>
lookup == <<cur, replies, orderCache, snapshot>>

TypeOK ==
    /\ buys \in SUBSET Shops
    /\ logged \in {"unknown", "known", "orders"}
    /\ hand \in Asked \cup {Nobody} /\ cur \in Asked \cup {Nobody}
    /\ pending \in Seq(Asked) /\ Len(pending) <= MaxPending
    /\ queued \in SUBSET Asked
    /\ replies \in Seq(Replies) /\ Len(replies) <= Retries + 1
    /\ orderCache \in SUBSET Shops
    /\ snapshot \in Statuses \cup {""}
    /\ result \in [Asked -> Statuses \cup {""}]
    /\ told \in SUBSET [about : Shops, page : Shops, said : {"orders", "empty"}]

Init ==
    /\ buys \in SUBSET Shops
    /\ logged = "unknown"
    /\ hand = Nobody /\ cur = Nobody
    /\ pending = <<>> /\ queued = {} /\ replies = <<>>
    /\ orderCache = {} /\ snapshot = ""
    /\ result = [e \in Asked |-> ""]
    /\ told = {}

-----------------------------------------------------------------------------
(* The shop, and what the client logs of it. *)

Buys(s) ==
    /\ s \notin buys /\ buys' = buys \cup {s}
    /\ UNCHANGED <<logged, queue, lookup, result, told>>

\* NativeOrderLog reads a reception.detail.get of the buyer; the log tells
\* neither which shop it is about nor how old it is.
Logs ==
    /\ logged' = IF buys # {} THEN "orders" ELSE "known"
    /\ logged' # logged
    /\ UNCHANGED <<buys, queue, lookup, result, told>>

-----------------------------------------------------------------------------
(* enqueue, on the thread that reads the page's connection. *)

Enqueue(e) ==
    /\ hand = Nobody
    /\ e \notin queued /\ result[e] = ""
    /\ IF e \in Nameless
       THEN /\ result' = [result EXCEPT ![e] = "error_unknown"]
            /\ UNCHANGED <<hand, queued>>
       ELSE /\ hand' = e /\ queued' = queued \cup {e}
            /\ UNCHANGED result
    /\ UNCHANGED <<world, pending, lookup, told>>

\* Slip: with a full queue the message is left out and stays in queued.
PutOrDrop ==
    /\ hand # Nobody
    /\ pending' = IF Len(pending) < MaxPending THEN Append(pending, hand) ELSE pending
    /\ hand' = Nobody
    /\ UNCHANGED <<world, queued, lookup, result, told>>

Put ==
    /\ hand # Nobody /\ Len(pending) < MaxPending
    /\ pending' = Append(pending, hand)
    /\ hand' = Nobody
    /\ UNCHANGED <<world, queued, lookup, result, told>>

-----------------------------------------------------------------------------
(* run and fetch. *)

Finish(e, status) ==
    /\ result' = [result EXCEPT ![e] = status]
    /\ queued' = queued \ {e}

\* A guarded message may be answered from context_cache.
Get ==
    /\ cur = Nobody /\ pending # <<>>
    /\ pending' = Tail(pending)
    /\ IF Head(pending) \in Guarded /\ snapshot # ""
       THEN Finish(Head(pending), snapshot) /\ UNCHANGED cur
       ELSE cur' = Head(pending) /\ UNCHANGED <<queued, result>>
    /\ UNCHANGED <<world, hand, replies, orderCache, snapshot, told>>

\* Slip: one attempt more than EMPTY_ORDER_RETRIES allows.
EndedLate ==
    /\ replies # <<>>
    /\ \/ Last(replies) \in {"orders", "unavailable"}
       \/ Len(replies) = Retries + 2

Ended ==
    /\ replies # <<>>
    /\ \/ Last(replies) \in {"orders", "unavailable"}
       \/ Len(replies) = Retries + 1

\* BrowserHub.execute: the first page whose answer has an orders part is taken,
\* whichever shop it is of.
Says(s, r) ==
    /\ r = "orders" => s \in buys
    /\ r = "empty" => s \notin buys

\* One _fetch_once.  The answer comes through the thread that enqueues.
Attempt(s, r) ==
    /\ cur # Nobody /\ ~Ended
    /\ Says(s, r)
    /\ hand # Nobody => r = "timeout"
    /\ r = "timeout" => SlowPages \/ hand # Nobody
    /\ replies' = Append(replies, r)
    /\ told' = IF r \in {"orders", "empty"}
               THEN told \cup {[about |-> Shop(cur), page |-> s, said |-> r]}
               ELSE told
    /\ UNCHANGED <<world, queue, cur, orderCache, snapshot, result>>

\* Slip: what the page passed on counts, whatever the shop has said.
OrdersOkPassed(e, r) == r \in {"orders", "empty", "refused"}

\* For a guarded account a call that went through is not yet an answer.
OrdersOk(e, r) ==
    r \in {"orders", "empty"} \cup (IF e \in Guarded THEN {} ELSE {"refused"})

\* Slip: the fallback is the cache of any shop.
CachedAnywhere(s) == orderCache # {}

Cached(s) == s \in orderCache

Conclusion ==
    LET page == CASE Last(replies) = "orders" -> "found"
                  [] ~OrdersOk(cur, Last(replies)) -> "error_unknown"
                  [] Cached(Shop(cur)) -> "found"
                  [] OTHER -> "confirmed_empty"
    IN CASE page = "found" \/ logged = "unknown" -> page
         [] logged = "orders" -> "found"
         [] OTHER -> "confirmed_empty"

Conclude ==
    /\ cur # Nobody /\ Ended
    /\ Finish(cur, Conclusion)
    /\ orderCache' = IF Last(replies) = "orders" THEN orderCache \cup {Shop(cur)}
                                                 ELSE orderCache
    /\ snapshot' = IF cur \in Guarded THEN Conclusion ELSE snapshot
    /\ cur' = Nobody /\ replies' = <<>>
    /\ UNCHANGED <<world, hand, pending, told>>

\* ORDER_CACHE_TTL_SECONDS, and the two or ten seconds of a snapshot.
Expires ==
    \/ /\ orderCache # {} /\ orderCache' = {}
       /\ UNCHANGED <<world, queue, cur, replies, snapshot, result, told>>
    \/ /\ snapshot # "" /\ snapshot' = ""
       /\ UNCHANGED <<world, queue, cur, replies, orderCache, result, told>>

-----------------------------------------------------------------------------

Next ==
    \/ \E s \in Shops : Buys(s)
    \/ \E e \in Asked : Enqueue(e)
    \/ \E s \in Shops, r \in Replies : Attempt(s, r)
    \/ Logs \/ Put \/ Get \/ Conclude \/ Expires

Spec == Init /\ [][Next]_vars

\* The two threads run; a page that answers nothing is given up in time.
Fairness ==
    /\ WF_vars(Put) /\ WF_vars(Get) /\ WF_vars(Conclude)
    /\ WF_vars(\E s \in Shops, r \in Replies : Attempt(s, r))
FairSpec == Spec /\ Fairness

-----------------------------------------------------------------------------
(* Properties. *)

\* Every message taken into the queue is looked up in the end, however many
\* come while it is full ("Bound memory without dropping enrichment",
\* standalone_bridge.py:4578), and can be enqueued again then.
LookedUp == \A e \in Asked : [](e \in queued => <>(e \notin queued /\ result[e] # ""))

Told(s, r) == \E t \in told : t.about = s /\ t.said = r

\* A guarded message is said to have no orders only after a page, asked on
\* behalf of its account, said so, or the client's log names the buyer: errors,
\* refusals, time-outs and what was answered for another account never turn into
\* an absence of orders.  Which shop the page is of does not enter into it (see
\* OwnPageSaidSo).
AbsenceWasTold ==
    \A e \in Guarded :
        result[e] = "confirmed_empty" => Told("guarded", "empty") \/ logged # "unknown"

\* Orders are found for a message only if a page answered with some when asked
\* on behalf of its account, be it that they are answered, cached or shared, as
\* long as the client's log is not used: it does not tell shops apart.
FoundWereTold ==
    logged = "unknown" => \A e \in Asked : result[e] = "found" => Told(Shop(e), "orders")

\* standalone_bridge.py:4147-4149 has every page asked for orders, lest "an empty
\* result that is answered first covers the page with orders": a guarded message
\* whose shop has orders is told there are none only if the shop's own page said
\* so before they were placed.  The look-up calls execute, not execute_all
\* (standalone_bridge.py:5088): the page of another shop may answer first.
OwnPageSaidSo ==
    \A e \in Guarded :
        "guarded" \in buys /\ result[e] = "confirmed_empty" =>
            \/ logged # "unknown"
            \/ \E t \in told : t.about = "guarded" /\ t.page = "guarded" /\ t.said = "empty"
=============================================================================
