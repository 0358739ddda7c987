---------------------------- MODULE NativeAttach ----------------------------
(* AppBizSendAdapter.run and attach with appbiz_agent.js: the bridge loads a *)
(* script into the client, and the script chooses the service object that    *)
(* sends by what the client does with it.  The choice is written to a file;  *)
(* a script loaded later into the same run of the client takes it up again.  *)
(* The client may end and come again with the same process id, its objects   *)
(* come and go with the login, and the bridge restarts.                      *)
EXTENDS Naturals

CONSTANTS
    Pids,       \* process ids the client may get
    Services,   \* addresses a service object may have
    MaxRuns,    \* bound: runs of the client
    MaxRestarts,\* bound: restarts of the bridge
    None

VARIABLES
    client,     \* the run of the client, 0 when it does not run
    runs,       \* how many there were; a run stands for its start time, too
    process,    \* the process id of the last run
    candidates, \* the service objects in the client
    bridge,     \* "detached", "loading" or "attached"
    script,     \* the run the script is in, 0 when it is in none
    known,      \* self.pid and self.process_started_at
    selected,   \* selectedService of the script
    persisted,  \* selectionReason is same_process_persisted
    file,       \* appbiz-current-selection.json
    chosen,     \* the services a client's own calls selected, by run
    restarts

vars == <<client, runs, process, candidates, bridge, script, known, selected,
          persisted, file, chosen, restarts>>

Nobody == [pid |-> None, run |-> 0]

TypeOK ==
    /\ client \in 0..MaxRuns /\ runs \in 0..MaxRuns /\ script \in 0..MaxRuns
    /\ process \in Pids /\ candidates \subseteq Services
    /\ bridge \in {"detached", "loading", "attached"}
    /\ known \in [pid : Pids \cup {None}, run : 0..MaxRuns]
    /\ selected \in candidates \cup {None}
    /\ persisted \in BOOLEAN /\ (persisted => selected # None)
    /\ file \in [pid : Pids \cup {None}, run : 0..MaxRuns,
                 service : Services \cup {None}]
    /\ chosen \subseteq (1..MaxRuns) \X Services
    /\ restarts \in 0..MaxRestarts

Init ==
    /\ client = 0 /\ runs = 0 /\ process \in Pids /\ candidates = {}
    /\ bridge = "detached" /\ script = 0 /\ known = Nobody
    /\ selected = None /\ persisted = FALSE
    /\ file = [pid |-> None, run |-> 0, service |-> None]
    /\ chosen = {} /\ restarts = 0

-----------------------------------------------------------------------------
(* The client.                                                               *)

ClientStarts ==
    /\ client = 0 /\ runs < MaxRuns
    /\ client' = runs + 1 /\ runs' = runs + 1 /\ process' \in Pids
    /\ candidates' \in SUBSET Services
    /\ UNCHANGED <<bridge, script, known, selected, persisted, file, chosen,
                   restarts>>

\* The script goes with it.
ClientEnds ==
    /\ client # 0 /\ client' = 0 /\ candidates' = {}
    /\ script' = 0 /\ selected' = None /\ persisted' = FALSE
    /\ UNCHANGED <<runs, process, bridge, known, file, chosen, restarts>>

\* Slip: a scan leaves the reason of a selection it drops.
ServicesChangeKeepsReason ==
    /\ client # 0 /\ candidates' \in SUBSET Services
    /\ selected' = IF selected \in candidates' THEN selected ELSE None
    /\ UNCHANGED <<client, runs, process, bridge, script, known, persisted, file,
                   chosen, restarts>>

\* A login or a change of shift; scanCandidates drops a selection that is gone.
ServicesChange ==
    /\ client # 0 /\ candidates' \in SUBSET Services
    /\ IF selected \in candidates' THEN UNCHANGED <<selected, persisted>>
                                   ELSE selected' = None /\ persisted' = FALSE
    /\ UNCHANGED <<client, runs, process, bridge, script, known, file, chosen,
                   restarts>>

\* selectService, for a call of the client's on that service, and on_message:
\* what changed is written with what the bridge knows of the process by then.
Selects(s) ==
    /\ script # 0 /\ s \in candidates
    /\ selected' = s /\ persisted' = FALSE
    /\ chosen' = chosen \cup {<<client, s>>}
    /\ file' = IF selected = s /\ ~persisted THEN file
               ELSE [pid |-> known.pid, run |-> known.run, service |-> s]
    /\ UNCHANGED <<client, runs, process, candidates, bridge, script, known,
                   restarts>>

-----------------------------------------------------------------------------
(* The bridge.                                                               *)

\* Slip: the process id alone decides.
HintByPid == IF file.pid = process THEN file.service ELSE None

\* attach: the file counts for this process id started at this time.
Hint ==
    IF file.pid = process /\ file.run = client THEN file.service ELSE None

\* The script runs, its messages come, and self.pid is still 0.
Load ==
    /\ bridge = "detached" /\ client # 0
    /\ bridge' = "loading" /\ script' = client
    /\ IF Hint \in candidates THEN selected' = Hint /\ persisted' = TRUE
                              ELSE selected' = None /\ persisted' = FALSE
    /\ UNCHANGED <<client, runs, process, candidates, known, file, chosen,
                   restarts>>

\* What attach assigns after script.load(), which fails without the client.
Loaded ==
    /\ bridge = "loading"
    /\ IF script # 0
         THEN bridge' = "attached" /\ known' = [pid |-> process, run |-> script]
         ELSE bridge' = "detached" /\ UNCHANGED known
    /\ UNCHANGED <<client, runs, process, candidates, script, selected,
                   persisted, file, chosen, restarts>>

Forgets == bridge' = "detached" /\ known' = Nobody

\* Slip: only the process id is looked at, which another run may have.
NoticePid ==
    /\ bridge = "attached" /\ (client = 0 \/ known.pid # process) /\ Forgets
    /\ UNCHANGED <<client, runs, process, candidates, script, selected,
                   persisted, file, chosen, restarts>>

\* run: there is no such process, or refresh_status fails as its script is gone.
Notice ==
    /\ bridge = "attached" /\ script = 0 /\ Forgets
    /\ UNCHANGED <<client, runs, process, candidates, script, selected,
                   persisted, file, chosen, restarts>>

\* The script is unloaded; the file stays.
BridgeRestarts ==
    /\ restarts < MaxRestarts /\ restarts' = restarts + 1
    /\ Forgets /\ script' = 0 /\ selected' = None /\ persisted' = FALSE
    /\ UNCHANGED <<client, runs, process, candidates, file, chosen>>

Next ==
    \/ ClientStarts \/ ClientEnds \/ ServicesChange
    \/ \E s \in Services : Selects(s)
    \/ Load \/ Loaded \/ Notice \/ BridgeRestarts

Spec == Init /\ [][Next]_vars

\* The adapter's thread turns every second or two.
FairSpec == Spec /\ WF_vars(Load) /\ WF_vars(Loaded) /\ WF_vars(Notice)

-----------------------------------------------------------------------------
\* standalone_bridge.py:5956-5977, appbiz_agent.js:203: a selection taken up
\* from the file as same_process_persisted was made in this very run of the
\* client, whatever process id an earlier one had.
RestoredWasChosen == persisted => <<client, selected>> \in chosen

\* standalone_bridge.py:6233 run: a client that goes on running is attached to,
\* also when it took the process id of the one before.
ClientIsAttached ==
    \A r \in 1..MaxRuns :
        client = r ~> (client # r \/ (bridge = "attached" /\ script = r))
=============================================================================
