---------------------------- MODULE WebuiSupport ----------------------------
(* ClientSupportWatcher: the client upgrades itself in place and brings page  *)
(* archives without the bridge; every ten minutes the watcher looks at them   *)
(* and puts the bridge back.  It looks only into builds whose AppBiz.dll it   *)
(* can read, and injects into every webui.zip there is, in path order.  The   *)
(* rewriting of one archive is a single step.                                 *)
EXTENDS Naturals, FiniteSetsExt

CONSTANT Archives       \* every webui.zip there can be: its place in path order

VARIABLES
    content,    \* "none", "torn" (no archive or page that injection accepts),
                \* "bare", "injected"
    readable,   \* the build has an AppBiz.dll the watcher can read
    locked,     \* the client holds the archive, so it cannot be replaced
    todo,       \* the archives inject_all_webui has yet to come to
    pc          \* "wait", "inject"

vars == <<content, readable, locked, todo, pc>>

TypeOK ==
    /\ content \in [Archives -> {"none", "torn", "bare", "injected"}]
    /\ readable \in [Archives -> BOOLEAN]
    /\ locked \in [Archives -> BOOLEAN]
    /\ todo \subseteq Archives
    /\ pc \in {"wait", "inject"}

\* start_all has injected into what there was before the bridge runs.
Init ==
    /\ content \in [Archives -> {"none", "injected"}]
    /\ readable = [a \in Archives |-> content[a] # "none"]
    /\ locked = [a \in Archives |-> FALSE]
    /\ todo = {} /\ pc = "wait"

Present == {a \in Archives : content[a] # "none"}

\* The archives that inspect finds without the bridge.
Missing == {a \in Present : readable[a] /\ content[a] # "injected"}

-----------------------------------------------------------------------------
(* The client.                                                               *)

\* An upgrade begins to write a build, which it may never finish.
Unpack(a) ==
    /\ ~locked[a]
    /\ content' = [content EXCEPT ![a] = "torn"]
    /\ \E r \in BOOLEAN : readable' = [readable EXCEPT ![a] = r]
    /\ UNCHANGED <<locked, todo, pc>>

Unpacked(a) ==
    /\ content[a] = "torn"
    /\ content' = [content EXCEPT ![a] = "bare"]
    /\ readable' = [readable EXCEPT ![a] = TRUE]
    /\ UNCHANGED <<locked, todo, pc>>

Holds(a) ==
    /\ content[a] \in {"bare", "injected"}
    /\ locked' = [locked EXCEPT ![a] = ~@]
    /\ UNCHANGED <<content, readable, todo, pc>>

-----------------------------------------------------------------------------
(* The watcher.                                                              *)

\* refresh: with nothing missing the pass is over.
Refresh ==
    /\ pc = "wait" /\ Missing # {}
    /\ todo' = Present /\ pc' = "inject"
    /\ UNCHANGED <<content, readable, locked>>

Fails(a) == content[a] = "torn" \/ (content[a] = "bare" /\ locked[a])

\* inject_all_webui, one archive of the list: an exception ends the loop.
InjectFails(a) ==
    /\ pc = "inject" /\ todo # {} /\ a = Min(todo) /\ Fails(a)
    /\ todo' = {}
    /\ UNCHANGED <<content, readable, locked, pc>>

\* Slip: the loop returns once it has seen to an archive.
InjectOnce(a) ==
    /\ pc = "inject" /\ todo # {} /\ a = Min(todo) /\ ~Fails(a)
    /\ content' = [content EXCEPT ![a] = "injected"]
    /\ todo' = {}
    /\ UNCHANGED <<readable, locked, pc>>

\* inject_zip: a page with the bridge is left as it is.
InjectZip(a) ==
    /\ pc = "inject" /\ todo # {} /\ a = Min(todo) /\ ~Fails(a)
    /\ content' = [content EXCEPT ![a] = "injected"]
    /\ todo' = todo \ {a}
    /\ UNCHANGED <<readable, locked, pc>>

\* The second inspection only reports.
PassEnds ==
    /\ pc = "inject" /\ todo = {}
    /\ pc' = "wait"
    /\ UNCHANGED <<content, readable, locked, todo>>

-----------------------------------------------------------------------------
Step == Refresh \/ PassEnds \/ \E a \in Archives : InjectFails(a) \/ InjectZip(a)

Next == Step \/ \E a \in Archives : Unpack(a) \/ Unpacked(a) \/ Holds(a)

Spec == Init /\ [][Next]_vars

\* The watcher's thread runs as long as the bridge does.
FairSpec == Spec /\ WF_vars(Step)

-----------------------------------------------------------------------------
Settled(a) ==
    content[a] \in {"none", "injected"} \/ (content[a] = "bare" /\ ~locked[a])

\* Once the client has finished writing and lets go of its archives, every one
\* of them gets the bridge back, whatever it did to them in the middle of the
\* watcher's earlier passes.
BridgeReturns ==
    <>[](\A a \in Archives : Settled(a))
        => \A a \in Archives : content[a] = "bare" ~> content[a] = "injected"

Lost(a) == content[a] = "bare" /\ readable[a] /\ ~locked[a]

\* client_support.py:10: the watcher "re-injects any webui.zip that lost the
\* bridge".  Once the client leaves its files alone, one that is complete and
\* free to be replaced does not stay without it, whatever is wrong with another.
AnyIsReinjected ==
    <>[][Step]_vars => \A a \in Archives : Lost(a) ~> ~Lost(a)
=============================================================================
