--------------------------- MODULE ClientLauncher ---------------------------
(* The Qianniu client and the threads that start, restart and inject into    *)
(* it: CdpInjector.run every few seconds, and restart_with_debug_port on the *)
(* thread of the reminder a human authorised.  The client is a single        *)
(* instance: one started while another runs hands over to it and ends.       *)

VARIABLES
    running,    \* the bundled client: "none", "plain", "debug" (with a port)
    shell,      \* its helper AliWorkbench.exe /run:shell: "none", "owned", "orphan"
    foreign,    \* a client of another installation runs
    chat,       \* "none", "shown", "hooked": the chat page of the client
    mayReap,    \* 30 seconds since the last reap_orphan_shells
    loop,       \* CdpInjector.run: "look", "launch", "inject"
    injecting,  \* cdp_injection_enabled
    cdpPort,    \* a port is known
    repair      \* restart_with_debug_port: "none", "killed", "waits", "hooks"

vars == <<running, shell, foreign, chat, mayReap, loop, injecting, cdpPort, repair>>
client == <<running, shell, chat>>

TypeOK ==
    /\ running \in {"none", "plain", "debug"}
    /\ shell \in {"none", "owned", "orphan"}
    /\ chat \in {"none", "shown", "hooked"}
    /\ foreign \in BOOLEAN /\ mayReap \in BOOLEAN
    /\ injecting \in BOOLEAN /\ cdpPort \in BOOLEAN
    /\ loop \in {"look", "launch", "inject"}
    /\ repair \in {"none", "killed", "waits", "hooks"}

Init ==
    /\ running \in {"none", "plain"} /\ shell \in {"none", "orphan"}
    /\ foreign \in BOOLEAN /\ injecting \in BOOLEAN
    /\ chat = "none" /\ mayReap = TRUE /\ loop = "look"
    /\ cdpPort = FALSE /\ repair = "none"

-----------------------------------------------------------------------------
(* The desktop. *)

\* A client that dies leaves its helper, which stays and opens a login window.
ClientDies ==
    /\ running # "none"
    /\ running' = "none" /\ chat' = "none"
    /\ shell' = IF shell = "owned" THEN "orphan" ELSE shell
    /\ UNCHANGED <<foreign, mayReap, loop, injecting, cdpPort, repair>>

ShellStarts ==
    /\ running # "none" /\ shell = "none" /\ shell' = "owned"
    /\ UNCHANGED <<running, foreign, chat, mayReap, loop, injecting, cdpPort, repair>>

ChatChanges ==
    /\ running # "none"
    /\ chat' = IF chat = "none" THEN "shown" ELSE "none"
    /\ UNCHANGED <<running, shell, foreign, mayReap, loop, injecting, cdpPort, repair>>

ForeignChanges ==
    /\ foreign' = ~foreign
    /\ UNCHANGED <<client, mayReap, loop, injecting, cdpPort, repair>>

ReapDue ==
    /\ ~mayReap /\ mayReap' = TRUE
    /\ UNCHANGED <<client, foreign, loop, injecting, cdpPort, repair>>

\* Popen: what runs after it.
Started(what) == IF running = "none" THEN what ELSE running

-----------------------------------------------------------------------------
(* CdpInjector.run. *)

\* Slip: helpers are never ended; one that is left counts as the client.
LookUnreaped ==
    /\ loop = "look"
    /\ loop' = IF running = "none" /\ ~foreign /\ shell = "none" THEN "launch"
                                                                  ELSE "inject"
    /\ UNCHANGED <<client, foreign, mayReap, injecting, cdpPort, repair>>

\* maybe_launch up to Popen: a helper whose client is gone is ended; a client,
\* a foreign one or a helper that is left is a reason not to start another.
Look ==
    LET left == IF shell = "orphan" /\ mayReap THEN "none" ELSE shell IN
    /\ loop = "look"
    /\ shell' = left
    /\ mayReap' = FALSE
    /\ loop' = IF running = "none" /\ ~foreign /\ left = "none" THEN "launch"
                                                                 ELSE "inject"
    /\ UNCHANGED <<running, foreign, chat, injecting, cdpPort, repair>>

Launch ==
    /\ loop = "launch"
    /\ running' = Started("plain")
    /\ loop' = "inject"
    /\ UNCHANGED <<shell, foreign, chat, mayReap, injecting, cdpPort, repair>>

\* inject_target: a page of a client with a port, which may refuse.
Hooks(ok) ==
    /\ ok => running = "debug" /\ chat # "none"
    /\ chat' = IF ok THEN "hooked" ELSE chat

\* inject_once, or the fields are cleared.
Inject(ok) ==
    /\ loop = "inject"
    /\ ok => injecting
    /\ Hooks(ok)
    /\ cdpPort' = IF injecting THEN cdpPort \/ ok ELSE FALSE
    /\ loop' = "look"
    /\ UNCHANGED <<running, shell, foreign, mayReap, injecting, repair>>

-----------------------------------------------------------------------------
(* restart_with_debug_port. *)

\* Helpers have the client's program and are ended with it.
Kill ==
    /\ repair = "none"
    /\ running' = "none" /\ shell' = "none" /\ chat' = "none"
    /\ injecting' = TRUE
    /\ repair' = "killed"
    /\ UNCHANGED <<foreign, mayReap, loop, cdpPort>>

\* CdpInjector may have started one since.
Restart(ok) ==
    /\ repair = "killed"
    /\ running' = IF ok THEN Started("debug") ELSE running
    /\ repair' = IF ok THEN "waits" ELSE "none"
    /\ UNCHANGED <<shell, foreign, chat, mayReap, loop, injecting, cdpPort>>

PortOpens ==
    /\ repair = "waits" /\ running = "debug"
    /\ cdpPort' = TRUE /\ repair' = "hooks"
    /\ UNCHANGED <<client, foreign, mayReap, loop, injecting>>

PortStaysClosed ==
    /\ repair = "waits" /\ repair' = "none"
    /\ UNCHANGED <<client, foreign, mayReap, loop, injecting, cdpPort>>

Hook(ok) ==
    /\ repair = "hooks" /\ Hooks(ok) /\ repair' = "none"
    /\ UNCHANGED <<running, shell, foreign, mayReap, loop, injecting, cdpPort>>

-----------------------------------------------------------------------------

Next ==
    \/ ClientDies \/ ShellStarts \/ ChatChanges \/ ForeignChanges \/ ReapDue
    \/ Look \/ Launch \/ Kill \/ PortOpens \/ PortStaysClosed
    \/ \E ok \in BOOLEAN : Inject(ok) \/ Restart(ok) \/ Hook(ok)

Spec == Init /\ [][Next]_vars

\* The loop and time go on, and a restart that was begun ends.
Fairness ==
    /\ WF_vars(Look) /\ WF_vars(Launch)
    /\ WF_vars(\E ok \in BOOLEAN : Inject(ok))
    /\ WF_vars(ReapDue)
    /\ WF_vars(\E ok \in BOOLEAN : Restart(ok) \/ Hook(ok))
    /\ WF_vars(PortStaysClosed)
FairSpec == Spec /\ Fairness

-----------------------------------------------------------------------------
\* With auto_launch_qianniu the client always comes back once no foreign one
\* runs: neither a helper it left, nor a restart that gave up half-way, nor the
\* two threads starting it at once keeps it away.
ClientReturns == <>[]~foreign => []<>(running # "none")
=============================================================================
