----------------------------- MODULE PageCalls ------------------------------
(* Expressions the bridge has the pages of Qianniu evaluate: execute asks    *)
(* every page at once and takes the first answer that fits, execute_all asks *)
(* one page after the other and keeps every success.                         *)
(*                                                                           *)
(* A request is known by its id: one id for all pages in execute, one id for *)
(* each page in execute_all.  Answers are "fit", "other" (a success the      *)
(* result_filter refuses) and "error".                                       *)
EXTENDS Naturals, Sequences, FiniteSets

CONSTANTS Pages, Calls, MaxDrops, Any

Answers == {"fit", "other", "error"}
Ids == Calls \X (Pages \cup {Any})
Outcomes == {"", "value", "values", "none", "failed", "timeout", "unsent"}
Kinds == {"any", "filtered", "required"}
NoPage == Any

VARIABLES
    up,         \* connections of the handler
    work,       \* the requests each page has still to answer
    pending,    \* the table of the requests whose answer is awaited
    pc,         \* each call: "idle", "one", "all", "done"
    sent,       \* pages the call was sent to
    queue,      \* answers handed to the call, not yet looked at
    left,       \* execute_all: pages still to ask
    asked,      \* execute_all: the page whose answer it awaits
    values,     \* answers taken: <<page asked, page that answered>>
    unfit,      \* answers of execute that did not fit
    kind,       \* no result_filter, one, or one with raise_on_no_match
    outcome,
    said,       \* what each page answered to each call
    drops

vars == <<up, work, pending, pc, sent, queue, left, asked, values, unfit,
          kind, outcome, said, drops>>
rpc == <<work, pending, pc, sent, queue, left, asked, values, unfit, kind,
         outcome, said>>

TypeOK ==
    /\ up \in SUBSET Pages
    /\ work \in [Pages -> SUBSET Ids]
    /\ pending \in SUBSET Ids
    /\ pc \in [Calls -> {"idle", "one", "all", "done"}]
    /\ sent \in [Calls -> SUBSET Pages]
    /\ queue \in [Calls -> Seq([page : Pages, answer : Answers])]
    /\ left \in [Calls -> SUBSET Pages]
    /\ asked \in [Calls -> Pages \cup {NoPage}]
    /\ values \in [Calls -> SUBSET (Pages \X Pages)]
    /\ unfit \in [Calls -> Nat]
    /\ kind \in [Calls -> Kinds]
    /\ outcome \in [Calls -> Outcomes]
    /\ said \in [Calls -> [Pages -> Answers \cup {""}]]
    /\ drops \in Nat

Init ==
    /\ up = {}
    /\ work = [p \in Pages |-> {}]
    /\ pending = {}
    /\ pc = [c \in Calls |-> "idle"]
    /\ sent = [c \in Calls |-> {}]
    /\ queue = [c \in Calls |-> <<>>]
    /\ left = [c \in Calls |-> {}]
    /\ asked = [c \in Calls |-> NoPage]
    /\ values = [c \in Calls |-> {}]
    /\ unfit = [c \in Calls |-> 0]
    /\ kind \in [Calls -> Kinds]
    /\ outcome = [c \in Calls |-> ""]
    /\ said = [c \in Calls |-> [p \in Pages |-> ""]]
    /\ drops = 0

Return(c, result) ==
    /\ pc' = [pc EXCEPT ![c] = "done"]
    /\ outcome' = [outcome EXCEPT ![c] = result]

-----------------------------------------------------------------------------
(* Connections. *)

Connect(p) ==
    /\ p \notin up
    /\ up' = up \cup {p}
    /\ UNCHANGED <<rpc, drops>>

\* The page is gone and answers nothing it was asked.
Disconnect(p) ==
    /\ p \in up /\ drops < MaxDrops
    /\ up' = up \ {p}
    /\ work' = [work EXCEPT ![p] = {}]
    /\ drops' = drops + 1
    /\ UNCHANGED <<pending, pc, sent, queue, left, asked, values, unfit,
                   kind, outcome, said>>

\* handler: an answer goes to the request that awaits it; a queue as long as
\* the list of pages is never full, and an answer nobody awaits is dropped.
PageAnswers(p, id, a) ==
    LET c == id[1] IN
    /\ p \in up /\ id \in work[p]
    /\ work' = [work EXCEPT ![p] = @ \ {id}]
    /\ IF id \in pending
       THEN /\ queue' = [queue EXCEPT ![c] = Append(@, [page |-> p, answer |-> a])]
            /\ said' = [said EXCEPT ![c][p] = a]
       ELSE UNCHANGED <<queue, said>>
    /\ UNCHANGED <<up, pending, pc, sent, left, asked, values, unfit, kind,
                   outcome, drops>>

-----------------------------------------------------------------------------
(* execute. *)

\* The pages found connected; sending to one that is going away may fail.
Execute(c, to) ==
    /\ pc[c] = "idle"
    /\ to \subseteq up
    /\ IF to = {}
       THEN Return(c, "unsent") /\ UNCHANGED <<sent, pending, work>>
       ELSE /\ sent' = [sent EXCEPT ![c] = to]
            /\ pending' = pending \cup {<<c, Any>>}
            /\ work' = [p \in Pages |-> IF p \in to THEN work[p] \cup {<<c, Any>>}
                                                   ELSE work[p]]
            /\ pc' = [pc EXCEPT ![c] = "one"]
            /\ UNCHANGED outcome
    /\ UNCHANGED <<up, queue, left, asked, values, unfit, kind, said,
                   drops>>

\* Slip: the first answer ends the call, whatever it says.
TakeFirst(c) ==
    LET r == Head(queue[c]) IN
    /\ pc[c] = "one" /\ queue[c] # <<>>
    /\ queue' = [queue EXCEPT ![c] = Tail(@)]
    /\ pending' = pending \ {<<c, Any>>}
    /\ Return(c, IF r.answer = "fit" THEN "value" ELSE "failed")
    /\ UNCHANGED <<up, work, sent, left, asked, values, unfit, kind, said,
                   drops>>

\* An answer that does not fit is passed over until every page has answered.
Take(c) ==
    LET r == Head(queue[c])
        last == unfit[c] + 1 = Cardinality(sent[c])
    IN
    /\ pc[c] = "one" /\ queue[c] # <<>>
    /\ queue' = [queue EXCEPT ![c] = Tail(@)]
    /\ IF r.answer = "fit" \/ (r.answer = "other" /\ kind[c] = "any")
       THEN /\ Return(c, "value")
            /\ values' = [values EXCEPT ![c] = {<<r.page, r.page>>}]
            /\ pending' = pending \ {<<c, Any>>}
            /\ UNCHANGED unfit
       ELSE /\ unfit' = [unfit EXCEPT ![c] = @ + 1]
            /\ IF last
               THEN /\ Return(c, IF kind[c] = "filtered" THEN "none" ELSE "failed")
                    /\ pending' = pending \ {<<c, Any>>}
               ELSE UNCHANGED <<pc, outcome, pending>>
            /\ UNCHANGED values
    /\ UNCHANGED <<up, work, sent, left, asked, kind, said, drops>>

TimesOut(c) ==
    /\ pc[c] = "one" /\ queue[c] = <<>>
    /\ Return(c, IF kind[c] = "filtered" THEN "none" ELSE "timeout")
    /\ pending' = pending \ {<<c, Any>>}
    /\ UNCHANGED <<up, work, sent, queue, left, asked, values, unfit, kind,
                   said, drops>>

-----------------------------------------------------------------------------
(* execute_all. *)

ExecuteAll(c) ==
    /\ pc[c] = "idle"
    /\ IF up = {}
       THEN Return(c, "unsent") /\ UNCHANGED left
       ELSE /\ left' = [left EXCEPT ![c] = up]
            /\ pc' = [pc EXCEPT ![c] = "all"]
            /\ UNCHANGED outcome
    /\ UNCHANGED <<up, work, pending, sent, queue, asked, values, unfit,
                   kind, said, drops>>

\* Slip: one id serves the whole call.
IdOfCall(c, p) == <<c, Any>>

IdOf(c, p) == <<c, p>>

Ask(c, p) ==
    /\ pc[c] = "all" /\ asked[c] = NoPage
    /\ p \in left[c]
    /\ left' = [left EXCEPT ![c] = @ \ {p}]
    /\ IF p \in up
       THEN /\ asked' = [asked EXCEPT ![c] = p]
            /\ sent' = [sent EXCEPT ![c] = @ \cup {p}]
            /\ pending' = pending \cup {IdOf(c, p)}
            /\ work' = [work EXCEPT ![p] = @ \cup {IdOf(c, p)}]
       ELSE UNCHANGED <<asked, sent, pending, work>>
    /\ UNCHANGED <<up, pc, queue, values, unfit, kind, outcome, said,
                   drops>>

\* A queue of its own for every page: it is empty again for the next one.
TakeOne(c) ==
    LET r == Head(queue[c]) IN
    /\ pc[c] = "all" /\ asked[c] # NoPage /\ queue[c] # <<>>
    /\ values' = [values EXCEPT ![c] =
          IF r.answer = "error" THEN @ ELSE @ \cup {<<asked[c], r.page>>}]
    /\ queue' = [queue EXCEPT ![c] = <<>>]
    /\ pending' = pending \ {IdOf(c, asked[c])}
    /\ asked' = [asked EXCEPT ![c] = NoPage]
    /\ UNCHANGED <<up, work, pc, sent, left, unfit, kind, outcome, said,
                   drops>>

PageTimesOut(c) ==
    /\ pc[c] = "all" /\ asked[c] # NoPage /\ queue[c] = <<>>
    /\ pending' = pending \ {IdOf(c, asked[c])}
    /\ asked' = [asked EXCEPT ![c] = NoPage]
    /\ UNCHANGED <<up, work, pc, sent, queue, left, values, unfit, kind,
                   outcome, said, drops>>

AllAsked(c) ==
    /\ pc[c] = "all" /\ asked[c] = NoPage /\ left[c] = {}
    /\ Return(c, IF values[c] # {} THEN "values" ELSE "failed")
    /\ UNCHANGED <<up, work, pending, sent, queue, left, asked, values, unfit,
                   kind, said, drops>>

-----------------------------------------------------------------------------

Next ==
    \/ \E p \in Pages :
         \/ Connect(p) \/ Disconnect(p)
         \/ \E id \in Ids, a \in Answers : PageAnswers(p, id, a)
         \/ \E c \in Calls : Ask(c, p)
    \/ \E c \in Calls :
         \/ \E to \in SUBSET Pages : Execute(c, to)
         \/ Take(c) \/ TimesOut(c)
         \/ ExecuteAll(c) \/ TakeOne(c) \/ PageTimesOut(c) \/ AllAsked(c)

Spec == Init /\ [][Next]_vars

-----------------------------------------------------------------------------
(* Properties. *)

\* execute fails for want of a fitting answer only when every page it was sent
\* to gave an unfitting one: a page without imsdk that answers first never
\* hides the page that has it.
FailureIsUnanimous ==
    \A c \in Calls :
        outcome[c] = "failed" =>
            \A p \in sent[c] : said[c][p] # "fit"

\* An answer is counted for the page that was asked: one that comes after its
\* time is not taken for the next page's.
AnswersMatch ==
    \A c \in Calls : \A v \in values[c] : v[1] = v[2]
=============================================================================
