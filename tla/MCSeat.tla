------------------------------- MODULE MCSeat --------------------------------
(* Instances for TLC of what runs on a seat beside the conversations: the     *)
(* recovery of hooks, the launcher of the client, the processes, the panel,   *)
(* the native adapter, the watch on the page archives and the settings.  They *)
(* share no state, so a behaviour picks one part and stays with it.           *)
EXTENDS Naturals

CONSTANTS
    None,
    Grace, RetryInterval, OpenChatAfter, Remind, Downgraded, DowngradeAfter,
    Snooze, Window, Forever,                \* of the recovery of hooks
    Pids, Services, MaxRuns, MaxRestarts,   \* of the native adapter
    MaxAsks,                                \* of the processes
    MaxFaults,                              \* of the panel
    Archives,                               \* of the page archives
    LastToken                               \* of the settings

ASSUME ServicesAssumption == None \notin Services
ASSUME BoundsAssumption ==
    {MaxRuns, MaxRestarts, MaxAsks, MaxFaults, LastToken} \subseteq Nat
ASSUME TimesAssumption ==
    {Grace, RetryInterval, OpenChatAfter, Remind, Downgraded, DowngradeAfter,
     Snooze, Window, Forever} \subseteq Nat

\* The reminder is gone before the next one is due: it closes itself after two
\* minutes, and one is due every fifteen.
ASSUME WindowAssumption ==
    Window < Remind /\ Remind =< Forever /\ Downgraded =< Forever

VARIABLES
    part,
    hView, hPc, hStage, hRecovered, hNeedsHuman, hHumanAction, hAge,
    hRetryAge, hPromptAge, hSnoozed, hPrompts, hOpenTried, hAttempted, hThread,
    cRunning, cShell, cForeign, cChat, cMayReap, cLoop, cInjecting, cCdpPort,
    cRepair,
    wBridge, wParent, wFile, wClient, wTray, wMarker, wPc, wPid, wKeep,
    wComplained, wJob, wAsks,
    dDock, dStarter, dProfile, dWindow, dSeen, dMissing, dTarget, dClosed,
    dFaults,
    aClient, aRuns, aProcess, aCandidates, aBridge, aScript, aKnown,
    aSelected, aPersisted, aFile, aChosen, aRestarts,
    sContent, sReadable, sLocked, sTodo, sPc,
    xEntered, xFile, xCopy, xPc, xRaw, xChanged, xRegistered, xConfigKey, xAt,
    xKey, xAssigned, xBound, xSeen

hooks == <<hView, hPc, hStage, hRecovered, hNeedsHuman, hHumanAction, hAge,
           hRetryAge, hPromptAge, hSnoozed, hPrompts, hOpenTried, hAttempted,
           hThread>>
launcher == <<cRunning, cShell, cForeign, cChat, cMayReap, cLoop, cInjecting,
              cCdpPort, cRepair>>
processes == <<wBridge, wParent, wFile, wClient, wTray, wMarker, wPc, wPid,
               wKeep, wComplained, wJob, wAsks>>
dock == <<dDock, dStarter, dProfile, dWindow, dSeen, dMissing, dTarget,
          dClosed, dFaults>>
native == <<aClient, aRuns, aProcess, aCandidates, aBridge, aScript, aKnown,
            aSelected, aPersisted, aFile, aChosen, aRestarts>>
support == <<sContent, sReadable, sLocked, sTodo, sPc>>
settings == <<xEntered, xFile, xCopy, xPc, xRaw, xChanged, xRegistered,
              xConfigKey, xAt, xKey, xAssigned, xBound, xSeen>>

Hooks == INSTANCE HookRecovery WITH
    Grace <- Grace, RetryInterval <- RetryInterval,
    OpenChatAfter <- OpenChatAfter, Remind <- Remind,
    Downgraded <- Downgraded, DowngradeAfter <- DowngradeAfter,
    Snooze <- Snooze, Window <- Window, Forever <- Forever,
    RestartAllowed <- TRUE, view <- hView, pc <- hPc,
    stage <- hStage, recovered <- hRecovered, needsHuman <- hNeedsHuman,
    humanAction <- hHumanAction, age <- hAge, retryAge <- hRetryAge,
    promptAge <- hPromptAge, snoozed <- hSnoozed, prompts <- hPrompts,
    openTried <- hOpenTried, attempted <- hAttempted, thread <- hThread

Client == INSTANCE ClientLauncher WITH
    running <- cRunning, shell <- cShell, foreign <- cForeign, chat <- cChat,
    mayReap <- cMayReap, loop <- cLoop, injecting <- cInjecting,
    cdpPort <- cCdpPort, repair <- cRepair

Seat == INSTANCE Lifecycle WITH
    Bridges <- {"b1", "b2", "b3"}, Jobs <- {"start", "restart", "exit",
    "stop", "stopAgent"}, MaxAsks <- MaxAsks, None <- None, bridge <- wBridge,
    parent <- wParent, file <- wFile, client <- wClient, tray <- wTray,
    marker <- wMarker, pc <- wPc, pid <- wPid, keep <- wKeep,
    complained <- wComplained, job <- wJob, asks <- wAsks

Dock == INSTANCE DockPanel WITH
    Snapping <- TRUE, CloseAfter <- 1, RetryAfter <- 2, FirstRetry <- 3,
    MaxFaults <- MaxFaults, dock <- dDock, starter <- dStarter, profile <- dProfile,
    window <- dWindow, seen <- dSeen, missing <- dMissing, target <- dTarget,
    closed <- dClosed, faults <- dFaults

Native == INSTANCE NativeAttach WITH
    Pids <- Pids, Services <- Services, MaxRuns <- MaxRuns,
    MaxRestarts <- MaxRestarts, None <- None, client <- aClient, runs <- aRuns, process <- aProcess,
    candidates <- aCandidates, bridge <- aBridge, script <- aScript,
    known <- aKnown, selected <- aSelected, persisted <- aPersisted,
    file <- aFile, chosen <- aChosen, restarts <- aRestarts

Support == INSTANCE WebuiSupport WITH
    Archives <- Archives, content <- sContent, readable <- sReadable,
    locked <- sLocked, todo <- sTodo, pc <- sPc

Set == INSTANCE Settings WITH
    LastToken <- LastToken, MayReturn <- FALSE, None <- None, entered <- xEntered,
    file <- xFile, copy <- xCopy, pc <- xPc, raw <- xRaw, changed <- xChanged,
    registered <- xRegistered, configKey <- xConfigKey, at <- xAt,
    key <- xKey, assigned <- xAssigned, bound <- xBound, seen <- xSeen

Parts == {"hooks", "launcher", "processes", "dock", "native", "support",
          "settings"}

\* Whatever is not the part at work stays as it is.
Rest ==
    /\ IF part = "hooks" THEN TRUE ELSE UNCHANGED hooks
    /\ IF part = "launcher" THEN TRUE ELSE UNCHANGED launcher
    /\ IF part = "processes" THEN TRUE ELSE UNCHANGED processes
    /\ IF part = "dock" THEN TRUE ELSE UNCHANGED dock
    /\ IF part = "native" THEN TRUE ELSE UNCHANGED native
    /\ IF part = "support" THEN TRUE ELSE UNCHANGED support
    /\ IF part = "settings" THEN TRUE ELSE UNCHANGED settings
    /\ UNCHANGED part

\* The parts that are not at work begin in one of their initial states.
PartsInit ==
    /\ part \in Parts
    /\ Hooks!Init
    /\ Client!Init
    /\ Seat!Init
    /\ Dock!Init
    /\ Native!Init
    /\ Support!Init
    /\ Set!Init
    /\ part = "launcher" \/ (cRunning = "none" /\ cShell = "none" /\ ~cForeign /\ ~cInjecting)
    /\ part = "processes" \/ wClient = "off"
    /\ part = "dock" \/ dTarget
    /\ part = "support" \/ \A a \in Archives : sContent[a] = "none"
    /\ part = "settings" \/ xFile.device = "stable"

PartsNext ==
    \/ part = "hooks" /\ Hooks!Next /\ Rest
    \/ part = "launcher" /\ Client!Next /\ Rest
    \/ part = "processes" /\ Seat!Next /\ Rest
    \/ part = "dock" /\ Dock!Next /\ Rest
    \/ part = "native" /\ Native!Next /\ Rest
    \/ part = "support" /\ Support!Next /\ Rest
    \/ part = "settings" /\ Set!Next /\ Rest

all == <<part, hooks, launcher, processes, dock, native, support, settings>>

PartsSpec == PartsInit /\ [][PartsNext]_all

\* A behaviour stays with the part it begins with, so one condition serves
\* several parts, each with an action of its own.
In(p, A) == part = p /\ A /\ UNCHANGED part
working == CASE part = "hooks" -> hooks
           [] part = "launcher" -> launcher
           [] part = "processes" -> processes
           [] part = "dock" -> dock
           [] part = "native" -> native
           [] part = "support" -> support
           [] part = "settings" -> settings

WeaklyFair ==
    /\ WF_working(\/ In("hooks", Hooks!Recovered)
                  \/ In("launcher", Client!Look)
                  \/ In("processes", Seat!Step("worker"))
                  \/ In("dock", Dock!Pass)
                  \/ In("native", Native!Load)
                  \/ In("support", Support!Step)
                  \/ In("settings", Set!ConfigurationChanged))
    /\ WF_working(\/ In("hooks", Hooks!Lost)
                  \/ In("launcher", Client!Launch)
                  \/ In("processes", Seat!Step("exit"))
                  \/ In("dock", Dock!WindowShows)
                  \/ In("native", Native!Loaded)
                  \/ In("settings", Set!Look))
    /\ WF_working(\/ In("hooks", \E b \in BOOLEAN : Hooks!Retry(b))
                  \/ In("launcher", \E ok \in BOOLEAN : Client!Inject(ok))
                  \/ In("processes", Seat!Step("launcher"))
                  \/ In("dock", Dock!ProcessesEnd)
                  \/ In("native", Native!Notice)
                  \/ In("settings", Set!KeepKey))
    /\ WF_working(\/ In("hooks", Hooks!NoChatPageDue \/ \E v \in Hooks!Views : Hooks!OpenChatPage(v))
                  \/ In("launcher", Client!ReapDue)
                  \/ In("processes", Seat!TrayReads \/ Seat!TrayReadsTorn)
                  \/ In("dock", Dock!ClientShows)
                  \/ In("settings", Set!Register("control")))
    /\ WF_working(\/ In("hooks", \E b \in BOOLEAN : Hooks!Ask(b))
                  \/ In("launcher", \E ok \in BOOLEAN : Client!Restart(ok) \/ Client!Hook(ok))
                  \/ In("processes", Seat!BridgeStep("b1"))
                  \/ In("settings", Set!Register("tester")))
    /\ WF_working(\/ In("hooks", Hooks!StartPrompt)
                  \/ In("launcher", Client!PortStaysClosed)
                  \/ In("processes", Seat!BridgeStep("b2")))
    /\ WF_working(\/ In("hooks", Hooks!Show)
                  \/ In("processes", Seat!BridgeStep("b3")))
    /\ WF_working(\/ In("hooks", Hooks!Answered("ignored")))
    /\ WF_working(\/ In("hooks", \E b \in BOOLEAN : Hooks!RepairEnds(b)))
    /\ WF_working(\/ In("hooks", Hooks!TimePasses))

PartsFairSpec == PartsSpec /\ WeaklyFair

------------------------------------------------------------------------------
(* The properties are stated in the modules of the parts. *)

\* Every part keeps its types.
TypesOK ==
    /\ part = "hooks" => Hooks!TypeOK
    /\ part = "launcher" => Client!TypeOK
    /\ part = "processes" => Seat!TypeOK
    /\ part = "dock" => Dock!TypeOK
    /\ part = "native" => Native!TypeOK
    /\ part = "support" => Support!TypeOK
    /\ part = "settings" => Set!TypeOK

\* While nothing is hooked a human is asked, not too often, and not any more
\* once something is.
HumansAreAsked ==
    /\ Hooks!PromptsSpaced
    /\ part = "hooks" => Hooks!LossIsReported /\ Hooks!RecoveryIsNoticed

\* A client that was lost is started again, one that runs is attached to, and
\* the pages of one that upgraded itself get the bridge back.
ClientIsBack ==
    /\ part = "launcher" => Client!ClientReturns
    /\ part = "native" => Native!ClientIsAttached
    /\ part = "support" => Support!BridgeReturns

RestoredWasChosen == part = "native" => Native!RestoredWasChosen

\* A restart leaves a bridge that runs, a stop leaves nothing, and a bridge that
\* is left to run registers by the settings it works with.
JobsAreDone ==
    /\ part = "processes" => Seat!RestartComesUp /\ Seat!StopsEverything
    /\ part = "settings" => Set!SettingsArrive

\* A panel the operator closed stays closed, and one that was lost comes back.
PanelFollows ==
    part = "dock" => Dock!ClosedEnds /\ Dock!LostIsRelaunched
==============================================================================
