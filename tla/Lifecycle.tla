----------------------------- MODULE Lifecycle -----------------------------
(* Starting and stopping the processes of one seat: the bridge, the client   *)
(* the bridge may have launched, and the tray.  stop_all and start_all run   *)
(* on three actors that share nothing but files and processes: the tray's    *)
(* worker (start, restart), the tray's exit thread and the command line      *)
(* launcher (--stop, --stop-agent, start).  The floating window, ended the   *)
(* way the bridge is, is left out, and so is a kill the system refuses.      *)

EXTENDS Naturals

CONSTANTS
    Bridges,   \* the bridge processes there may come to be
    Jobs,      \* what is asked: "start" "restart" "exit" "stop" "stopAgent"
    MaxAsks,   \* bound: how many jobs are asked
    None       \* no process

VARIABLES
    bridge,    \* state of every bridge process
    parent,    \* the process that started it: "tray" or "launcher"
    file,      \* the process standalone_bridge.pid names
    client,    \* the bridge that launched the client, "orphan" or "off"
    tray,      \* the tray process
    marker,    \* tray.exit
    pc,        \* the step every actor is at
    pid,       \* the bridge process it is dealing with
    keep,      \* whether its stop_all spares the client
    complained,\* its start_all ended with an error box
    job,       \* the last job asked
    asks

vars == <<bridge, parent, file, client, tray, marker, pc, pid, keep,
          complained, job, asks>>

processes == <<bridge, parent, client, tray>>
asked == <<keep, complained, job, asks>>

Actors == {"worker", "exit", "launcher"}
StopSteps == {"asking", "reading", "waiting", "closing"}
TraySteps == {"marking", "writing", "leaving"}
StartSteps == {"probing", "injecting", "launching", "naming", "polling"}

TypeOK ==
    /\ bridge \in [Bridges -> {"none", "starting", "up", "stopping", "gone"}]
    /\ parent \in [Bridges -> {"tray", "launcher"}]
    /\ file \in Bridges \cup {None}
    /\ client \in Bridges \cup {"orphan", "off"}
    /\ tray \in {"running", "deaf", "exiting", "gone"}
    /\ marker \in {"absent", "empty", "exit", "keep"}
    /\ pc \in [Actors -> {"idle"} \cup StopSteps \cup TraySteps \cup StartSteps]
    /\ pid \in [Actors -> Bridges \cup {None}]
    /\ keep \in [Actors -> BOOLEAN] /\ complained \in [Actors -> BOOLEAN]
    /\ job \in Jobs \cup {"none"} /\ asks \in 0..MaxAsks

Alive(b) == bridge[b] \in {"starting", "up", "stopping"}
Answers(b) == bridge[b] \in {"up", "stopping"}
Goto(a, step) == pc' = [pc EXCEPT ![a] = step]

\* One bridge of the tray's runs, the client with it or not.
Init ==
    LET b == CHOOSE x \in Bridges : TRUE IN
        /\ bridge = [x \in Bridges |-> IF x = b THEN "up" ELSE "none"]
        /\ parent = [x \in Bridges |-> "tray"]
        /\ file = b /\ client \in {b, "orphan", "off"}
        /\ tray = "running" /\ marker = "absent"
        /\ pc = [a \in Actors |-> "idle"] /\ pid = [a \in Actors |-> None]
        /\ keep = [a \in Actors |-> FALSE]
        /\ complained = [a \in Actors |-> FALSE]
        /\ job = "none" /\ asks = 0

-----------------------------------------------------------------------------
(* What is asked.                                                            *)

Asked(a, j, spare) ==
    /\ asks < MaxAsks /\ asks' = asks + 1
    /\ j \in Jobs /\ job' = j
    /\ pc[a] = "idle"
    /\ keep' = [keep EXCEPT ![a] = spare]
    /\ complained' = [complained EXCEPT ![a] = FALSE]
    /\ Goto(a, IF j = "start" THEN "probing" ELSE "asking")
    /\ UNCHANGED <<bridge, parent, file, client, marker, pid>>

\* run_async: a click while an action runs does nothing.
WorkerAsked(j) ==
    /\ j \in {"start", "restart"} /\ tray = "running"
    /\ Asked("worker", j, FALSE) /\ UNCHANGED tray

\* The operator confirms the exit in the tray.
ExitConfirmed ==
    /\ tray = "running" /\ tray' = "exiting" /\ Asked("exit", "exit", FALSE)

LauncherAsked(j) ==
    /\ j \in {"start", "stop", "stopAgent"}
    /\ Asked("launcher", j, j = "stopAgent") /\ UNCHANGED tray

\* _drain_commands finds tray.exit, at its next 50 ms tick.
TrayReads ==
    /\ tray = "running" /\ marker \in {"exit", "keep"}
    /\ marker' = "absent" /\ tray' = "exiting"
    /\ keep' = [keep EXCEPT !["exit"] = marker = "keep"]
    /\ Goto("exit", "asking")
    /\ UNCHANGED <<bridge, parent, file, client, pid, complained, job, asks>>

\* The file is there and nothing is in it yet: the tray reads "" and its unlink
\* either comes after the writer closed the file or fails, which ends the loop
\* that reads commands.
TrayReadsTorn ==
    /\ tray = "running" /\ marker = "empty"
    /\ \/ /\ tray' = "deaf" /\ UNCHANGED <<marker, keep, pc>>
       \/ /\ tray' = "exiting" /\ marker' = "absent"
          /\ keep' = [keep EXCEPT !["exit"] = FALSE]
          /\ pc' = [pc EXCEPT !["exit"] = "asking", !["launcher"] = "leaving"]
    /\ UNCHANGED <<bridge, parent, file, client, pid, complained, job, asks>>

-----------------------------------------------------------------------------
(* stop_all.                                                                 *)

\* request_bridge_shutdown: what it returns is not looked at.
AskBridge(a) ==
    /\ pc[a] = "asking" /\ Goto(a, "reading")
    /\ \/ \E b \in Bridges :
            bridge[b] = "up" /\ bridge' = [bridge EXCEPT ![b] = "stopping"]
       \/ UNCHANGED bridge
    /\ UNCHANGED <<parent, client, tray, file, marker, pid, asked>>

ReadPid(a) ==
    /\ pc[a] = "reading"
    /\ pid' = [pid EXCEPT ![a] = file]
    /\ Goto(a, IF file = None THEN "closing" ELSE "waiting")
    /\ UNCHANGED <<processes, file, marker, asked>>

\* kill_tree: a bridge process and the client it launched.
KillBridges(B) ==
    /\ bridge' = [b \in Bridges |-> IF b \in B THEN "gone" ELSE bridge[b]]
    /\ client' = IF client \in B THEN "off" ELSE client

\* Slip: the pid file goes without the process having gone.
EndsUnwaited(a) ==
    /\ pc[a] = "waiting" /\ Goto(a, "closing") /\ file' = None
    /\ UNCHANGED <<processes, pid, marker, asked>>

\* wait_for_exit(pid) or kill_tree(pid): five seconds may pass while the bridge
\* still joins its adapters.
Ends(a) ==
    /\ pc[a] = "waiting" /\ Goto(a, "closing")
    /\ IF Alive(pid[a]) THEN KillBridges({pid[a]}) ELSE UNCHANGED <<bridge, client>>
    /\ file' = None
    /\ UNCHANGED <<parent, tray, pid, marker, asked>>

After(a) == CASE a = "worker" -> "probing" [] a = "exit" -> "idle"
                 [] OTHER -> "marking"

\* stop_managed_qianniu, and what follows this stop_all.
CloseClient(a) ==
    /\ pc[a] = "closing" /\ Goto(a, After(a))
    /\ client' = IF keep[a] THEN client ELSE "off"
    /\ IF a = "exit" THEN tray' = "gone" /\ marker' = "absent"
                     ELSE UNCHANGED <<tray, marker>>
    /\ UNCHANGED <<bridge, parent, file, pid, asked>>

\* request_tray_exit: the file is created first, then written.
MarkTray(a) ==
    /\ pc[a] = "marking"
    /\ IF tray = "gone" THEN Goto(a, "idle") /\ UNCHANGED marker
                        ELSE Goto(a, "writing") /\ marker' = "empty"
    /\ UNCHANGED <<processes, file, pid, asked>>

WriteMarker(a) ==
    /\ pc[a] = "writing" /\ Goto(a, "leaving")
    /\ marker' = IF keep[a] THEN "keep" ELSE "exit"
    /\ UNCHANGED <<processes, file, pid, asked>>

TrayLeft(a) ==
    /\ pc[a] = "leaving" /\ tray = "gone" /\ Goto(a, "idle")
    /\ UNCHANGED <<processes, file, marker, pid, asked>>

\* After five seconds the tray's process tree is killed, its threads with it.
KillTray(a) ==
    /\ pc[a] = "leaving" /\ tray # "gone" /\ tray' = "gone"
    /\ KillBridges({b \in Bridges : Alive(b) /\ parent[b] = "tray"})
    /\ pc' = [x \in Actors |-> "idle"]
    /\ UNCHANGED <<parent, file, marker, pid, asked>>

-----------------------------------------------------------------------------
(* start_all.                                                                *)

\* The process that runs the actor is still there.
Runs(a) == a = "launcher" \/ tray # "gone"

LiveManaged == file # None /\ Alive(file)

\* An answer, or a live process of that number, counts as running.
Probe(a) ==
    /\ pc[a] = "probing" /\ Runs(a)
    /\ \/ (LiveManaged \/ \E b \in Bridges : Answers(b)) /\ Goto(a, "idle")
       \/ ~LiveManaged /\ Goto(a, "injecting")
    /\ UNCHANGED <<processes, file, marker, pid, asked>>

Inject(a) ==
    /\ pc[a] = "injecting" /\ Runs(a)
    /\ \/ Goto(a, "launching") /\ UNCHANGED complained
       \/ Goto(a, "idle") /\ complained' = [complained EXCEPT ![a] = TRUE]
    /\ UNCHANGED <<processes, file, marker, pid, keep, job, asks>>

\* The bound: one of Bridges that never ran.
Popen(a) ==
    /\ pc[a] = "launching" /\ Runs(a)
    /\ \E b \in Bridges :
        /\ bridge[b] = "none" /\ bridge' = [bridge EXCEPT ![b] = "starting"]
        /\ parent' = [parent EXCEPT ![b] = IF a = "launcher" THEN a ELSE "tray"]
        /\ pid' = [pid EXCEPT ![a] = b]
    /\ Goto(a, "naming")
    /\ UNCHANGED <<file, client, tray, marker, asked>>

WritePid(a) ==
    /\ pc[a] = "naming" /\ Runs(a) /\ Goto(a, "polling") /\ file' = pid[a]
    /\ UNCHANGED <<processes, marker, pid, asked>>

\* start_all asks until the bridge says that it is ok, as a bridge that answers at
\* all is taken to say in time.
PollAnswered(a) ==
    /\ pc[a] = "polling" /\ Runs(a) /\ Goto(a, "idle")
    /\ \E b \in Bridges : Answers(b)
    /\ UNCHANGED <<processes, file, marker, pid, asked>>

\* cleanup_started, after 40 seconds without an answer.
PollEnds(a) ==
    /\ pc[a] = "polling" /\ Runs(a) /\ Goto(a, "idle")
    /\ ~\E b \in Bridges : Answers(b)
    /\ KillBridges({pid[a]}) /\ file' = None
    /\ complained' = [complained EXCEPT ![a] = TRUE]
    /\ UNCHANGED <<parent, tray, marker, pid, keep, job, asks>>

-----------------------------------------------------------------------------
(* The bridge process.                                                       *)

ComesUp(b) ==
    /\ bridge[b] = "starting" /\ bridge' = [bridge EXCEPT ![b] = "up"]
    /\ UNCHANGED <<parent, client, tray, file, marker, pc, pid, asked>>

\* The client it launched goes on without a parent.
Stops(b) ==
    /\ bridge[b] = "stopping" /\ bridge' = [bridge EXCEPT ![b] = "gone"]
    /\ client' = IF client = b THEN "orphan" ELSE client
    /\ UNCHANGED <<parent, tray, file, marker, pc, pid, asked>>

LaunchesClient(b) ==
    /\ bridge[b] = "up" /\ client = "off" /\ client' = b
    /\ UNCHANGED <<bridge, parent, tray, file, marker, pc, pid, asked>>

Step(a) ==
    \/ AskBridge(a) \/ ReadPid(a) \/ Ends(a) \/ CloseClient(a)
    \/ MarkTray(a) \/ WriteMarker(a) \/ TrayLeft(a) \/ KillTray(a)
    \/ Probe(a) \/ Inject(a) \/ Popen(a) \/ WritePid(a)
    \/ PollAnswered(a) \/ PollEnds(a)

BridgeStep(b) == ComesUp(b) \/ Stops(b)

Next ==
    \/ \E j \in Jobs : WorkerAsked(j) \/ LauncherAsked(j)
    \/ ExitConfirmed \/ TrayReads \/ TrayReadsTorn
    \/ \E a \in Actors : Step(a)
    \/ \E b \in Bridges : BridgeStep(b) \/ LaunchesClient(b)

Spec == Init /\ [][Next]_vars

\* Every step of an actor is bounded by a time limit, and a bridge that was
\* started comes up or is killed for being late.
FairSpec ==
    /\ Spec
    /\ \A a \in Actors : WF_vars(Step(a))
    /\ WF_vars(TrayReads \/ TrayReadsTorn)
    /\ \A b \in Bridges : WF_vars(BridgeStep(b))

-----------------------------------------------------------------------------
\* tray_app.py:280 restart_all stops everything and starts it again: when
\* nothing else is asked or still done, a bridge stays up in the end unless the
\* start said why not.  A bridge that was told to stop still answers for seconds.
RestartComesUp ==
    (/\ job = "restart" /\ asks = MaxAsks
     /\ tray = "running" /\ pc["worker"] = "asking" /\ pc["launcher"] = "idle")
        ~> [](complained["worker"] \/ \E b \in Bridges : bridge[b] = "up")

\* launcher.py:870 --stop: bridge, tray and client are gone together, though the
\* bridge launches a client that is missing and the tray stops all of it too.
StopsEverything ==
    (/\ job = "stop" /\ asks = MaxAsks
     /\ pc["worker"] = "idle" /\ pc["launcher"] = "asking")
        ~> /\ tray = "gone" /\ client = "off"
           /\ \A b \in Bridges : ~Alive(b)
=============================================================================
