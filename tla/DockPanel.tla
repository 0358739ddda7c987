----------------------------- MODULE DockPanel -----------------------------
(* docked_workbench.run_snapping and run_floating: the process that shows    *)
(* the workbench in a window of Edge.  Edge's starter process may end with   *)
(* code 0 and leave the window to another process of the profile.  The loop  *)
(* tells a window the operator closed from one that was lost: the first ends *)
(* it, the second is launched again after a while.  Where the window is      *)
(* placed and whether it is hidden with the client's is left out.            *)
EXTENDS Naturals

CONSTANTS
    Snapping,  \* run_snapping, which shows the panel beside a client's window
    CloseAfter, RetryAfter, FirstRetry,  \* passes without a window: 5, 10, 20 s
    MaxFaults  \* bound: how often a window goes

VARIABLES
    dock,      \* "waiting" for the client, "running" or "ended"
    starter,   \* the process launch started: "none", "runs", "ok", "failed"
    profile,   \* a process of the profile is there
    window,    \* the panel's window is there
    seen,      \* dock_seen
    missing,   \* passes since dock_missing_since; 0: not missing
    target,    \* the client has a window to snap to
    closed,    \* the operator closed a window the loop's last pass had seen
    faults

vars == <<dock, starter, profile, window, seen, missing, target, closed, faults>>

edge == <<starter, profile, window>>

TypeOK ==
    /\ dock \in {"waiting", "running", "ended"}
    /\ starter \in {"none", "runs", "ok", "failed"}
    /\ profile \in BOOLEAN /\ window \in BOOLEAN /\ seen \in BOOLEAN
    /\ target \in BOOLEAN /\ closed \in BOOLEAN
    /\ missing \in 0..FirstRetry /\ faults \in 0..MaxFaults

Init ==
    /\ dock = "waiting" /\ starter = "none" /\ profile = FALSE /\ window = FALSE
    /\ seen = FALSE /\ missing = 0
    /\ target \in BOOLEAN /\ (target \/ Snapping)
    /\ closed = FALSE /\ faults = 0

-----------------------------------------------------------------------------
(* The loop.                                                                 *)

\* What runs of the profile is ended, then Edge is started.
Launched == starter' = "runs" /\ profile' = TRUE /\ window' = FALSE

Launch ==
    /\ dock = "waiting" /\ target /\ dock' = "running" /\ Launched
    /\ UNCHANGED <<seen, missing, target, closed, faults>>

Found ==
    /\ dock = "running" /\ window /\ seen' = TRUE /\ missing' = 0
    /\ UNCHANGED <<dock, edge, target, closed, faults>>

\* Slip: any end of the starter counts.
BrowserClosedAnyhow == starter # "runs" /\ ~profile

\* browser_closed, of a pass that found no window.
BrowserClosed == starter = "ok" /\ ~profile

CloseDue == seen /\ missing >= CloseAfter /\ BrowserClosed

RetryDue ==
    /\ Snapping => target
    /\ missing >= IF Snapping /\ seen THEN RetryAfter ELSE FirstRetry

\* Slip: a pass without a window forgets that there was one.
MissedForgets ==
    /\ dock = "running" /\ ~window /\ ~CloseDue /\ ~RetryDue
    /\ missing' = IF missing < FirstRetry THEN missing + 1 ELSE missing
    /\ seen' = FALSE
    /\ UNCHANGED <<dock, edge, target, closed, faults>>

\* A pass that finds none.  Time counts up to the longest patience, and Edge is
\* assumed to end the processes of a closed window within CloseAfter.
Missed ==
    /\ dock = "running" /\ ~window /\ ~CloseDue /\ ~RetryDue
    /\ closed /\ profile => missing < CloseAfter
    /\ missing' = IF missing < FirstRetry THEN missing + 1 ELSE missing
    /\ UNCHANGED <<dock, edge, seen, target, closed, faults>>

Ends ==
    /\ dock = "running" /\ ~window /\ CloseDue
    /\ dock' = "ended" /\ starter' = "none" /\ profile' = FALSE
    /\ UNCHANGED <<window, seen, missing, target, closed, faults>>

\* Edge is installed: launch raises otherwise, which ends the process.
Relaunch ==
    /\ dock = "running" /\ ~window /\ ~CloseDue /\ RetryDue
    /\ Launched /\ seen' = FALSE /\ missing' = 0
    /\ UNCHANGED <<dock, target, closed, faults>>

-----------------------------------------------------------------------------
(* Edge, the operator and the client.                                        *)

WindowShows ==
    /\ profile /\ ~window /\ ~closed /\ window' = TRUE
    /\ UNCHANGED <<dock, starter, profile, seen, missing, target, closed, faults>>

\* The starter hands the window to a process that runs already.
HandsOver ==
    /\ starter = "runs" /\ window /\ starter' = "ok"
    /\ UNCHANGED <<dock, profile, window, seen, missing, target, closed, faults>>

\* The window goes at once, the processes of the profile after it.
OperatorCloses ==
    /\ window /\ window' = FALSE /\ closed' = (seen /\ missing = 0)
    /\ UNCHANGED <<dock, starter, profile, seen, missing, target, faults>>

ProcessesEnd ==
    /\ closed /\ profile /\ ~window /\ profile' = FALSE
    /\ starter' = IF starter = "runs" THEN "ok" ELSE starter
    /\ UNCHANGED <<dock, window, seen, missing, target, closed, faults>>

\* Edge is killed or crashes.
EdgeDies ==
    /\ profile /\ ~closed /\ faults < MaxFaults /\ faults' = faults + 1
    /\ starter' = IF starter = "runs" THEN "failed" ELSE starter
    /\ profile' = FALSE /\ window' = FALSE
    /\ UNCHANGED <<dock, seen, missing, target, closed>>

\* Edge replaces its window: there is none for a moment.
WindowReplaced ==
    /\ window /\ faults < MaxFaults /\ faults' = faults + 1 /\ window' = FALSE
    /\ UNCHANGED <<dock, starter, profile, seen, missing, target, closed>>

ClientShows ==
    /\ Snapping /\ ~target /\ target' = TRUE
    /\ UNCHANGED <<dock, edge, seen, missing, closed, faults>>

ClientHides ==
    /\ Snapping /\ target /\ faults < MaxFaults /\ faults' = faults + 1
    /\ target' = FALSE
    /\ UNCHANGED <<dock, edge, seen, missing, closed>>

Pass == Launch \/ Found \/ Missed \/ Ends \/ Relaunch

Next ==
    \/ Pass \/ WindowShows \/ HandsOver \/ OperatorCloses \/ ProcessesEnd
    \/ EdgeDies \/ WindowReplaced \/ ClientShows \/ ClientHides

Spec == Init /\ [][Next]_vars

\* The loop runs, Edge shows what it was started with and ends what was closed;
\* a client that has no window gets one.
FairSpec ==
    /\ Spec
    /\ WF_vars(Pass) /\ WF_vars(WindowShows) /\ WF_vars(ProcessesEnd)
    /\ WF_vars(ClientShows)

-----------------------------------------------------------------------------
\* docked_workbench.py:523, 580: once the operator closed the panel the loop's last
\* pass had seen, the process ends; it never opens the panel again instead.
ClosedEnds == closed ~> dock = "ended"

\* docked_workbench.py:526, 586: Edge that died with the starter is not a panel
\* the operator closed: it is launched again and its window comes back.
LostIsRelaunched == (dock = "running" /\ starter = "failed") ~> (window \/ closed)
=============================================================================
