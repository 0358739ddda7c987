----------------------------- MODULE SeatProofs -----------------------------
(* Proofs about MCSeat: the types of all its parts, and the service object    *)
(* that the native adapter takes up again.                                    *)
EXTENDS MCSeat, TLAPS

LEMMA Bounds ==
    /\ MaxRuns \in Nat /\ MaxRestarts \in Nat /\ MaxAsks \in Nat
    /\ MaxFaults \in Nat /\ LastToken \in Nat
  BY BoundsAssumption

LEMMA Times ==
    /\ Grace \in Nat /\ RetryInterval \in Nat /\ OpenChatAfter \in Nat
    /\ Remind \in Nat /\ Downgraded \in Nat /\ DowngradeAfter \in Nat
    /\ Snooze \in Nat /\ Window \in Nat /\ Forever \in Nat
  BY TimesAssumption

(* The native adapter.                                                        *)

\* No run comes twice: nothing refers to one that has not begun, and the script
\* is in the run of the client that goes on and holds what is selected.
RunsNumbered ==
    /\ aClient =< aRuns /\ aKnown.run =< aRuns /\ aFile.run =< aRuns
    /\ aScript \in {0, aClient}
    /\ aScript = 0 => aSelected = None

\* What the file says of the run that goes on, the client did in that run.
FileIsHonest ==
    aClient # 0 /\ aFile.run = aClient /\ aFile.service # None
        => <<aClient, aFile.service>> \in aChosen

NativeInv ==
    /\ Native!TypeOK /\ RunsNumbered /\ FileIsHonest
    /\ Native!RestoredWasChosen

LEMMA NativeInit == Native!Init => NativeInv
  <1> SUFFICES ASSUME Native!Init PROVE NativeInv
    OBVIOUS
  <1> USE Bounds, ServicesAssumption DEF Native!Init, Native!Nobody
  <1>1. aKnown \in [pid : Pids \cup {None}, run : 0..MaxRuns]
    OBVIOUS
  <1>2. aFile \in [pid : Pids \cup {None}, run : 0..MaxRuns,
                  service : Services \cup {None}]
    OBVIOUS
  <1>3. Native!TypeOK
    <2>1. /\ aClient \in 0..MaxRuns /\ aRuns \in 0..MaxRuns
          /\ aScript \in 0..MaxRuns /\ aRestarts \in 0..MaxRestarts
      OBVIOUS
    <2>2. /\ aProcess \in Pids /\ aCandidates \subseteq Services
          /\ aChosen \subseteq (1..MaxRuns) \X Services
      OBVIOUS
    <2> QED
      BY <1>1, <1>2, <2>1, <2>2 DEF Native!TypeOK
  <1>4. RunsNumbered /\ FileIsHonest /\ Native!RestoredWasChosen
    BY DEF RunsNumbered, FileIsHonest, Native!RestoredWasChosen
  <1> QED
    BY <1>3, <1>4 DEF NativeInv

LEMMA NativeStep == NativeInv /\ Native!Next => NativeInv'
  <1> SUFFICES ASSUME NativeInv, Native!Next PROVE NativeInv'
    OBVIOUS
  <1> USE Bounds, ServicesAssumption DEF NativeInv
  <1>1. CASE Native!ClientStarts
    <2> USE <1>1 DEF Native!ClientStarts, Native!TypeOK
    <2>1. /\ aClient' \in 0..MaxRuns /\ aRuns' \in 0..MaxRuns
          /\ aCandidates' \subseteq Services
      OBVIOUS
    <2>2. Native!TypeOK'
      BY <2>1 DEF RunsNumbered
    <2>3. RunsNumbered'
      BY DEF RunsNumbered
    <2>4. FileIsHonest'
      BY DEF RunsNumbered, FileIsHonest
    <2>5. Native!RestoredWasChosen'
      BY DEF RunsNumbered, FileIsHonest, Native!RestoredWasChosen
    <2> QED
      BY <2>2, <2>3, <2>4, <2>5
  <1>2. CASE Native!ClientEnds
    <2> USE <1>2 DEF Native!ClientEnds, Native!TypeOK
    <2>1. /\ aClient' \in 0..MaxRuns /\ aScript' \in 0..MaxRuns
          /\ aCandidates' \subseteq Services /\ aSelected' = None
      OBVIOUS
    <2>2. Native!TypeOK'
      BY <2>1
    <2>3. RunsNumbered'
      BY DEF RunsNumbered
    <2>4. FileIsHonest'
      BY DEF RunsNumbered, FileIsHonest
    <2>5. Native!RestoredWasChosen'
      BY DEF RunsNumbered, FileIsHonest, Native!RestoredWasChosen
    <2> QED
      BY <2>2, <2>3, <2>4, <2>5
  <1>3. CASE Native!ServicesChange
    <2> USE <1>3 DEF Native!ServicesChange, Native!TypeOK
    <2>1. Native!TypeOK'
      OBVIOUS
    <2>2. RunsNumbered'
      BY DEF RunsNumbered
    <2>3. FileIsHonest'
      BY DEF RunsNumbered, FileIsHonest
    <2>4. Native!RestoredWasChosen'
      BY DEF RunsNumbered, FileIsHonest, Native!RestoredWasChosen
    <2> QED
      BY <2>1, <2>2, <2>3, <2>4
  <1>4. ASSUME NEW s \in Services, Native!Selects(s) PROVE NativeInv'
    <2> USE <1>4 DEF Native!Selects, Native!TypeOK
    <2>1. aFile' \in [pid : Pids \cup {None}, run : 0..MaxRuns,
                     service : Services \cup {None}]
      OBVIOUS
    <2>2. aChosen' \subseteq (1..MaxRuns) \X Services
      BY DEF RunsNumbered
    <2>3. Native!TypeOK'
      BY <2>1, <2>2
    <2>4. RunsNumbered'
      BY DEF RunsNumbered
    <2>5. FileIsHonest'
      BY DEF RunsNumbered, FileIsHonest
    <2>6. Native!RestoredWasChosen'
      BY DEF RunsNumbered, FileIsHonest, Native!RestoredWasChosen
    <2> QED
      BY <2>3, <2>4, <2>5, <2>6
  <1>5. CASE Native!Load
    <2> USE <1>5 DEF Native!Load, Native!Hint, Native!TypeOK
    <2>1. Native!TypeOK'
      OBVIOUS
    <2>2. RunsNumbered'
      BY DEF RunsNumbered
    <2>3. FileIsHonest'
      BY DEF RunsNumbered, FileIsHonest
    <2>4. Native!RestoredWasChosen'
      BY DEF RunsNumbered, FileIsHonest, Native!RestoredWasChosen
    <2> QED
      BY <2>1, <2>2, <2>3, <2>4
  <1>6. CASE Native!Loaded
    <2> USE <1>6 DEF Native!Loaded, Native!TypeOK
    <2>1. aKnown' \in [pid : Pids \cup {None}, run : 0..MaxRuns]
      OBVIOUS
    <2>2. Native!TypeOK'
      BY <2>1
    <2>3. RunsNumbered'
      BY DEF RunsNumbered
    <2>4. FileIsHonest'
      BY DEF RunsNumbered, FileIsHonest
    <2>5. Native!RestoredWasChosen'
      BY DEF RunsNumbered, FileIsHonest, Native!RestoredWasChosen
    <2> QED
      BY <2>2, <2>3, <2>4, <2>5
  <1>7. CASE Native!Notice
    <2> USE <1>7 DEF Native!Notice, Native!Forgets, Native!Nobody, Native!TypeOK
    <2>1. aKnown' \in [pid : Pids \cup {None}, run : 0..MaxRuns]
      OBVIOUS
    <2>2. Native!TypeOK'
      BY <2>1
    <2>3. RunsNumbered'
      BY DEF RunsNumbered
    <2>4. FileIsHonest'
      BY DEF RunsNumbered, FileIsHonest
    <2>5. Native!RestoredWasChosen'
      BY DEF RunsNumbered, FileIsHonest, Native!RestoredWasChosen
    <2> QED
      BY <2>2, <2>3, <2>4, <2>5
  <1>8. CASE Native!BridgeRestarts
    <2> USE <1>8 DEF Native!BridgeRestarts, Native!Forgets, Native!Nobody, Native!TypeOK
    <2>1. /\ aKnown' \in [pid : Pids \cup {None}, run : 0..MaxRuns]
          /\ aRestarts' \in 0..MaxRestarts
      OBVIOUS
    <2>2. aScript' \in 0..MaxRuns /\ aSelected' = None
      OBVIOUS
    <2>3. Native!TypeOK'
      BY <2>1, <2>2
    <2>4. RunsNumbered'
      BY DEF RunsNumbered
    <2>5. FileIsHonest'
      BY DEF RunsNumbered, FileIsHonest
    <2>6. Native!RestoredWasChosen'
      BY DEF RunsNumbered, FileIsHonest, Native!RestoredWasChosen
    <2> QED
      BY <2>3, <2>4, <2>5, <2>6
  <1> QED
    BY <1>1, <1>2, <1>3, <1>4, <1>5, <1>6, <1>7, <1>8 DEF Native!Next

------------------------------------------------------------------------------
(* The hooks, the launcher, the panel and the page archives.                  *)

LEMMA HooksInit == Hooks!Init => Hooks!TypeOK
  <1> SUFFICES ASSUME Hooks!Init PROVE Hooks!TypeOK
    OBVIOUS
  <1> USE Times DEF Hooks!Init
  <1>1. hView \in Hooks!Views
    BY DEF Hooks!Views
  <1>2. /\ hStage \in 0..4 /\ hAge \in 0..Forever /\ hRetryAge \in 0..Forever
        /\ hPromptAge \in 0..Forever /\ hSnoozed \in 0..Snooze /\ hPrompts \in 0..DowngradeAfter
    OBVIOUS
  <1>3. /\ hRecovered \in BOOLEAN /\ hNeedsHuman \in BOOLEAN
        /\ hOpenTried \in BOOLEAN /\ hAttempted \in BOOLEAN
    OBVIOUS
  <1> QED
    BY <1>1, <1>2, <1>3 DEF Hooks!TypeOK

LEMMA HooksStep == Hooks!TypeOK /\ Hooks!Next => Hooks!TypeOK'
  <1> SUFFICES ASSUME Hooks!TypeOK, Hooks!Next PROVE Hooks!TypeOK'
    OBVIOUS
  <1> USE Times DEF Hooks!TypeOK, Hooks!Views
  <1>1. ASSUME NEW v \in Hooks!Views, Hooks!ViewChanges(v) PROVE Hooks!TypeOK'
    BY <1>1 DEF Hooks!ViewChanges, Hooks!marks, Hooks!ages
  <1>2. ASSUME NEW v \in Hooks!Views, Hooks!OpenChatPage(v) PROVE Hooks!TypeOK'
    BY <1>2 DEF Hooks!OpenChatPage, Hooks!ages
  <1>3. CASE Hooks!TimePasses
    BY <1>3 DEF Hooks!TimePasses, Hooks!marks, Hooks!Older
  <1>4. CASE Hooks!Recovered
    <2> USE <1>4 DEF Hooks!Recovered, Hooks!marks, Hooks!ages
    <2>1. hStage' \in 0..4
      OBVIOUS
    <2>2. hRecovered' \in BOOLEAN /\ hNeedsHuman' \in BOOLEAN
      OBVIOUS
    <2>3. hHumanAction'
               \in {"none", "authorize_cdp", "open_reception_window"}
      OBVIOUS
    <2> QED
      BY <2>1, <2>2, <2>3
  <1>5. CASE Hooks!Lost
    <2> USE <1>5 DEF Hooks!Lost
    <2>1. hStage' \in 0..4 /\ hRetryAge' \in 0..Forever
      OBVIOUS
    <2>2. hRecovered' \in BOOLEAN /\ hNeedsHuman' \in BOOLEAN
      OBVIOUS
    <2>3. hPc' \in {"idle", "retry", "open", "ask", "alive"}
      OBVIOUS
    <2> QED
      BY <2>1, <2>2, <2>3
  <1>6. CASE Hooks!NoChatPageDue
    BY <1>6 DEF Hooks!NoChatPageDue, Hooks!marks, Hooks!ages
  <1>7. CASE Hooks!StartPrompt
    BY <1>7 DEF Hooks!StartPrompt, Hooks!marks, Hooks!ages
  <1>8. CASE Hooks!Show
    BY <1>8 DEF Hooks!Show
  <1>9. CASE Hooks!Authorized
    BY <1>9 DEF Hooks!Authorized
  <1>10. ASSUME NEW b \in BOOLEAN, Hooks!Retry(b) PROVE Hooks!TypeOK'
    <2> USE <1>10 DEF Hooks!Retry, Hooks!marks
    <2>1. hView' \in Hooks!Views
      OBVIOUS
    <2>2. hRetryAge' \in 0..Forever
      OBVIOUS
    <2>3. hPc' \in {"idle", "retry", "open", "ask", "alive"}
      OBVIOUS
    <2> QED
      BY <2>1, <2>2, <2>3
  <1>11. ASSUME NEW b \in BOOLEAN, Hooks!Ask(b) PROVE Hooks!TypeOK'
    BY <1>11 DEF Hooks!Ask, Hooks!ages
  <1>12. ASSUME NEW b \in BOOLEAN, Hooks!RepairEnds(b) PROVE Hooks!TypeOK'
    BY <1>12 DEF Hooks!RepairEnds, Hooks!ages
  <1>13. ASSUME NEW a \in {"handled", "snooze", "ignored"}, Hooks!Answered(a) PROVE Hooks!TypeOK'
    BY <1>13 DEF Hooks!Answered, Hooks!marks
  <1> QED
    BY <1>1, <1>2, <1>3, <1>4, <1>5, <1>6, <1>7, <1>8, <1>9, <1>10, <1>11, <1>12, <1>13 DEF Hooks!Next

LEMMA ClientInit == Client!Init => Client!TypeOK
  BY DEF Client!Init, Client!TypeOK

LEMMA ClientStep == Client!TypeOK /\ Client!Next => Client!TypeOK'
  <1> SUFFICES ASSUME Client!TypeOK, Client!Next PROVE Client!TypeOK'
    OBVIOUS
  <1> USE DEF Client!TypeOK
  <1>1. CASE Client!ClientDies
    BY <1>1 DEF Client!ClientDies
  <1>2. CASE Client!ShellStarts
    BY <1>2 DEF Client!ShellStarts
  <1>3. CASE Client!ChatChanges
    BY <1>3 DEF Client!ChatChanges
  <1>4. CASE Client!ForeignChanges
    BY <1>4 DEF Client!ForeignChanges, Client!client
  <1>5. CASE Client!ReapDue
    BY <1>5 DEF Client!ReapDue, Client!client
  <1>6. CASE Client!Look
    BY <1>6 DEF Client!Look
  <1>7. CASE Client!Launch
    BY <1>7 DEF Client!Launch, Client!Started
  <1>8. CASE Client!Kill
    BY <1>8 DEF Client!Kill
  <1>9. CASE Client!PortOpens
    BY <1>9 DEF Client!PortOpens, Client!client
  <1>10. CASE Client!PortStaysClosed
    BY <1>10 DEF Client!PortStaysClosed, Client!client
  <1>11. ASSUME NEW b \in BOOLEAN, Client!Inject(b) PROVE Client!TypeOK'
    BY <1>11 DEF Client!Inject, Client!Hooks
  <1>12. ASSUME NEW b \in BOOLEAN, Client!Restart(b) PROVE Client!TypeOK'
    BY <1>12 DEF Client!Restart, Client!Started
  <1>13. ASSUME NEW b \in BOOLEAN, Client!Hook(b) PROVE Client!TypeOK'
    BY <1>13 DEF Client!Hook, Client!Hooks
  <1> QED
    BY <1>1, <1>2, <1>3, <1>4, <1>5, <1>6, <1>7, <1>8, <1>9, <1>10, <1>11, <1>12, <1>13 DEF Client!Next

LEMMA DockInit == Dock!Init => Dock!TypeOK
  <1> SUFFICES ASSUME Dock!Init PROVE Dock!TypeOK
    OBVIOUS
  <1> USE DEF Dock!Init
  <1>1. dMissing \in 0..3 /\ dFaults \in 0..MaxFaults
    BY Bounds
  <1>2. /\ dProfile \in BOOLEAN /\ dWindow \in BOOLEAN /\ dSeen \in BOOLEAN
        /\ dTarget \in BOOLEAN /\ dClosed \in BOOLEAN
    OBVIOUS
  <1> QED
    BY <1>1, <1>2 DEF Dock!TypeOK

LEMMA DockStep == Dock!TypeOK /\ Dock!Next => Dock!TypeOK'
  <1> SUFFICES ASSUME Dock!TypeOK, Dock!Next PROVE Dock!TypeOK'
    OBVIOUS
  <1> USE Bounds DEF Dock!TypeOK
  <1>1. CASE Dock!Launch
    BY <1>1 DEF Dock!Launch, Dock!Launched
  <1>2. CASE Dock!Found
    BY <1>2 DEF Dock!Found, Dock!edge
  <1>3. CASE Dock!Missed
    BY <1>3 DEF Dock!Missed, Dock!edge
  <1>4. CASE Dock!Ends
    BY <1>4 DEF Dock!Ends
  <1>5. CASE Dock!Relaunch
    <2> USE <1>5 DEF Dock!Relaunch, Dock!Launched
    <2>1. dMissing' \in 0..3 /\ dFaults' \in 0..MaxFaults
      OBVIOUS
    <2>2. dProfile' \in BOOLEAN /\ dWindow' \in BOOLEAN /\ dSeen' \in BOOLEAN
      OBVIOUS
    <2> QED
      BY <2>1, <2>2
  <1>6. CASE Dock!WindowShows
    BY <1>6 DEF Dock!WindowShows
  <1>7. CASE Dock!HandsOver
    BY <1>7 DEF Dock!HandsOver
  <1>8. CASE Dock!OperatorCloses
    BY <1>8 DEF Dock!OperatorCloses
  <1>9. CASE Dock!ProcessesEnd
    BY <1>9 DEF Dock!ProcessesEnd
  <1>10. CASE Dock!EdgeDies
    <2> USE <1>10 DEF Dock!EdgeDies
    <2>1. dFaults' \in 0..MaxFaults
      OBVIOUS
    <2>2. dMissing' \in 0..3
      OBVIOUS
    <2> QED
      BY <2>1, <2>2
  <1>11. CASE Dock!WindowReplaced
    <2> USE <1>11 DEF Dock!WindowReplaced
    <2>1. dFaults' \in 0..MaxFaults
      OBVIOUS
    <2>2. dMissing' \in 0..3
      OBVIOUS
    <2> QED
      BY <2>1, <2>2
  <1>12. CASE Dock!ClientShows
    BY <1>12 DEF Dock!ClientShows, Dock!edge
  <1>13. CASE Dock!ClientHides
    <2> USE <1>13 DEF Dock!ClientHides, Dock!edge
    <2>1. dFaults' \in 0..MaxFaults
      OBVIOUS
    <2>2. dMissing' \in 0..3
      OBVIOUS
    <2> QED
      BY <2>1, <2>2
  <1> QED
    BY <1>1, <1>2, <1>3, <1>4, <1>5, <1>6, <1>7, <1>8, <1>9, <1>10, <1>11, <1>12, <1>13 DEF Dock!Next, Dock!Pass

LEMMA SupportInit == Support!Init => Support!TypeOK
  BY DEF Support!Init, Support!TypeOK

LEMMA SupportStep == Support!TypeOK /\ Support!Next => Support!TypeOK'
  <1> SUFFICES ASSUME Support!TypeOK, Support!Next PROVE Support!TypeOK'
    OBVIOUS
  <1> USE DEF Support!TypeOK
  <1>1. CASE Support!Refresh
    BY <1>1 DEF Support!Refresh, Support!Present
  <1>2. CASE Support!PassEnds
    BY <1>2 DEF Support!PassEnds
  <1>3. ASSUME NEW a \in Archives, Support!InjectFails(a) PROVE Support!TypeOK'
    BY <1>3 DEF Support!InjectFails
  <1>4. ASSUME NEW a \in Archives, Support!InjectZip(a) PROVE Support!TypeOK'
    BY <1>4 DEF Support!InjectZip
  <1>5. ASSUME NEW a \in Archives, Support!Unpack(a) PROVE Support!TypeOK'
    BY <1>5 DEF Support!Unpack
  <1>6. ASSUME NEW a \in Archives, Support!Unpacked(a) PROVE Support!TypeOK'
    BY <1>6 DEF Support!Unpacked
  <1>7. ASSUME NEW a \in Archives, Support!Holds(a) PROVE Support!TypeOK'
    BY <1>7 DEF Support!Holds
  <1> QED
    BY <1>1, <1>2, <1>3, <1>4, <1>5, <1>6, <1>7 DEF Support!Next, Support!Step

------------------------------------------------------------------------------
(* The processes.                                                             *)

LEMMA SeatInit == Seat!Init => Seat!TypeOK
  <1> DEFINE b == CHOOSE x \in {"b1", "b2", "b3"} : TRUE
  <1>1. b \in {"b1", "b2", "b3"}
    OBVIOUS
  <1> QED
    BY <1>1, Bounds DEF Seat!Init, Seat!TypeOK

LEMMA SeatStep == Seat!TypeOK /\ Seat!Next => Seat!TypeOK'
  <1> SUFFICES ASSUME Seat!TypeOK, Seat!Next PROVE Seat!TypeOK'
    OBVIOUS
  <1> USE Bounds DEF Seat!TypeOK, Seat!Actors, Seat!StopSteps, Seat!TraySteps,
                     Seat!StartSteps
  <1>1. ASSUME NEW j \in {"start", "restart", "exit", "stop", "stopAgent"}, Seat!WorkerAsked(j)
        PROVE  Seat!TypeOK'
    BY <1>1 DEF Seat!WorkerAsked, Seat!Asked, Seat!Goto
  <1>2. ASSUME NEW j \in {"start", "restart", "exit", "stop", "stopAgent"}, Seat!LauncherAsked(j)
        PROVE  Seat!TypeOK'
    BY <1>2 DEF Seat!LauncherAsked, Seat!Asked, Seat!Goto
  <1>3. CASE Seat!ExitConfirmed
    BY <1>3 DEF Seat!ExitConfirmed, Seat!Asked, Seat!Goto
  <1>4. CASE Seat!TrayReads
    BY <1>4 DEF Seat!TrayReads, Seat!Goto
  <1>5. CASE Seat!TrayReadsTorn
    <2> USE <1>5 DEF Seat!TrayReadsTorn
    <2>1. CASE wTray' = "deaf" /\ UNCHANGED <<wMarker, wKeep, wPc>>
      BY <2>1
    <2>2. CASE /\ wTray' = "exiting" /\ wMarker' = "absent"
               /\ wKeep' = [wKeep EXCEPT !["exit"] = FALSE]
               /\ wPc' = [wPc EXCEPT !["exit"] = "asking",
                                    !["launcher"] = "leaving"]
      <3>1. wPc' \in [Seat!Actors -> {"idle"} \cup Seat!StopSteps
                         \cup Seat!TraySteps \cup Seat!StartSteps]
        BY <2>2
      <3>2. wKeep' \in [Seat!Actors -> BOOLEAN]
        BY <2>2
      <3> QED
        BY <2>2, <3>1, <3>2
    <2> QED
      BY <2>1, <2>2
  <1>6. ASSUME NEW a \in Seat!Actors, Seat!AskBridge(a)
        PROVE  Seat!TypeOK'
    BY <1>6 DEF Seat!AskBridge, Seat!Goto, Seat!asked
  <1>7. ASSUME NEW a \in Seat!Actors, Seat!ReadPid(a)
        PROVE  Seat!TypeOK'
    BY <1>7 DEF Seat!ReadPid, Seat!Goto, Seat!processes, Seat!asked
  <1>8. ASSUME NEW a \in Seat!Actors, Seat!Ends(a)
        PROVE  Seat!TypeOK'
    BY <1>8 DEF Seat!Ends, Seat!Goto, Seat!KillBridges, Seat!asked
  <1>9. ASSUME NEW a \in Seat!Actors, Seat!CloseClient(a)
        PROVE  Seat!TypeOK'
    BY <1>9 DEF Seat!CloseClient, Seat!Goto, Seat!After, Seat!asked
  <1>10. ASSUME NEW a \in Seat!Actors, Seat!MarkTray(a)
        PROVE  Seat!TypeOK'
    BY <1>10 DEF Seat!MarkTray, Seat!Goto, Seat!processes, Seat!asked
  <1>11. ASSUME NEW a \in Seat!Actors, Seat!WriteMarker(a)
        PROVE  Seat!TypeOK'
    BY <1>11 DEF Seat!WriteMarker, Seat!Goto, Seat!processes, Seat!asked
  <1>12. ASSUME NEW a \in Seat!Actors, Seat!TrayLeft(a)
        PROVE  Seat!TypeOK'
    BY <1>12 DEF Seat!TrayLeft, Seat!Goto, Seat!processes, Seat!asked
  <1>13. ASSUME NEW a \in Seat!Actors, Seat!KillTray(a)
        PROVE  Seat!TypeOK'
    BY <1>13 DEF Seat!KillTray, Seat!KillBridges, Seat!asked
  <1>14. ASSUME NEW a \in Seat!Actors, Seat!Probe(a)
        PROVE  Seat!TypeOK'
    BY <1>14 DEF Seat!Probe, Seat!Goto, Seat!processes, Seat!asked
  <1>15. ASSUME NEW a \in Seat!Actors, Seat!Inject(a)
        PROVE  Seat!TypeOK'
    <2> USE <1>15 DEF Seat!Inject, Seat!Goto, Seat!processes
    <2>1. wPc' \in [Seat!Actors -> {"idle"} \cup Seat!StopSteps
                       \cup Seat!TraySteps \cup Seat!StartSteps]
      OBVIOUS
    <2>2. wComplained' \in [Seat!Actors -> BOOLEAN]
      OBVIOUS
    <2> QED
      BY <2>1, <2>2
  <1>16. ASSUME NEW a \in Seat!Actors, Seat!Popen(a)
        PROVE  Seat!TypeOK'
    BY <1>16 DEF Seat!Popen, Seat!Goto, Seat!asked
  <1>17. ASSUME NEW a \in Seat!Actors, Seat!WritePid(a)
        PROVE  Seat!TypeOK'
    BY <1>17 DEF Seat!WritePid, Seat!Goto, Seat!processes, Seat!asked
  <1>18. ASSUME NEW a \in Seat!Actors, Seat!PollAnswered(a)
        PROVE  Seat!TypeOK'
    BY <1>18 DEF Seat!PollAnswered, Seat!Goto, Seat!processes, Seat!asked
  <1>19. ASSUME NEW a \in Seat!Actors, Seat!PollEnds(a)
        PROVE  Seat!TypeOK'
    BY <1>19 DEF Seat!PollEnds, Seat!Goto, Seat!KillBridges
  <1>20. ASSUME NEW b \in {"b1", "b2", "b3"}, Seat!ComesUp(b)
        PROVE  Seat!TypeOK'
    BY <1>20 DEF Seat!ComesUp, Seat!asked
  <1>21. ASSUME NEW b \in {"b1", "b2", "b3"}, Seat!Stops(b)
        PROVE  Seat!TypeOK'
    BY <1>21 DEF Seat!Stops, Seat!asked
  <1>22. ASSUME NEW b \in {"b1", "b2", "b3"}, Seat!LaunchesClient(b)
        PROVE  Seat!TypeOK'
    BY <1>22 DEF Seat!LaunchesClient, Seat!asked
  <1> QED
    BY <1>1, <1>2, <1>3, <1>4, <1>5, <1>6, <1>7, <1>8, <1>9, <1>10, <1>11,
       <1>12, <1>13, <1>14, <1>15, <1>16, <1>17, <1>18, <1>19, <1>20, <1>21,
       <1>22
    DEF Seat!Next, Seat!Step, Seat!BridgeStep

------------------------------------------------------------------------------
(* The settings.                                                              *)

\* The bridge and the dialog have read what they work with; only a bridge that
\* runs registers, and an answer of the center names an agent.
SettingsKnown ==
    /\ xPc \in [Set!Actors -> {"off", "read", "migrated", "ready", "up", "saved"}]
    /\ \A a \in Set!Actors :
          xPc[a] \in {"read", "migrated", "ready", "saved"} => xCopy[a] \in Set!Settable
    /\ xPc["bridge"] = "up" => xRaw \in Set!Settable
    /\ \A r \in Set!Registrants : xAt[r] # "look" => xPc["bridge"] = "up"
    /\ \A r \in Set!Registrants : xAt[r] = "told" => xAssigned[r] \in Set!Tokens

SettingsInv == Set!TypeOK /\ SettingsKnown

LEMMA SettingsInit == Set!Init => SettingsInv
  <1> SUFFICES ASSUME Set!Init PROVE SettingsInv
    OBVIOUS
  <1> USE Bounds DEF Set!Init
  <1>1. 0 \in Set!Tokens
    BY DEF Set!Tokens
  <1>2. xFile \in Set!Settable /\ xFile.device \in {"old", "stable"}
    BY DEF Set!Settable
  <1>3. xBound \in [Set!Tokens -> {"none", "old", "stable"}]
    BY <1>2
  <1>4. Set!TypeOK
    BY <1>1, <1>2, <1>3 DEF Set!TypeOK, Set!Actors, Set!Registrants, Set!Keys
  <1>5. SettingsKnown
    BY DEF SettingsKnown, Set!Actors, Set!Registrants
  <1> QED
    BY <1>4, <1>5 DEF SettingsInv

LEMMA SettingsStep == SettingsInv /\ Set!Next => SettingsInv'
  <1> SUFFICES ASSUME SettingsInv, Set!Next PROVE SettingsInv'
    OBVIOUS
  <1> USE Bounds DEF SettingsInv, Set!TypeOK, SettingsKnown, Set!Actors,
                     Set!Registrants
  <1>1. ASSUME NEW a \in Set!Actors,
               Set!Read(a)
        PROVE  SettingsInv'
    BY <1>1 DEF Set!Read, Set!Goto, Set!connector, Set!center, Set!Settable
  <1>2. ASSUME NEW a \in Set!Actors, NEW taken \in BOOLEAN, NEW told \in BOOLEAN,
               Set!Migrate(a, taken, told)
        PROVE  SettingsInv'
    BY <1>2 DEF Set!Migrate, Set!End, Set!Goto, Set!connector, Set!Settable
  <1>3. ASSUME NEW a \in Set!Actors,
               Set!Save(a)
        PROVE  SettingsInv'
    BY <1>3 DEF Set!Save, Set!Goto, Set!connector, Set!center, Set!Settable
  <1>4. CASE Set!Load
    BY <1>4 DEF Set!Load, Set!End, Set!Goto, Set!connector, Set!center,
       Set!Settable
  <1>5. CASE Set!Stops
    <2> USE <1>5 DEF Set!Stops, Set!End, Set!Goto, Set!center
    <2>1. /\ xPc' \in [Set!Actors -> {"off", "read", "migrated", "ready", "up", "saved"}]
          /\ xPc'["bridge"] = "off" /\ xPc'["dialog"] = xPc["dialog"]
          /\ xCopy' \in [Set!Actors -> Set!Settable \union {None}]
          /\ xCopy'["dialog"] = xCopy["dialog"]
      OBVIOUS
    <2>2. /\ xAt' \in [Set!Registrants -> {"look", "asks", "told", "named", "marked"}]
          /\ \A r \in Set!Registrants : xAt'[r] = "look"
          /\ xAssigned' \in [Set!Registrants -> Set!Tokens \union {None}]
      OBVIOUS
    <2>3. xConfigKey' \in Set!Keys /\ xKey' \in Set!Keys
      BY DEF Set!Keys
    <2>4. Set!TypeOK'
      BY <2>1, <2>2, <2>3
    <2>5. SettingsKnown'
      BY <2>1, <2>2
    <2> QED
      BY <2>4, <2>5
  <1>6. CASE Set!DialogCloses
    BY <1>6 DEF Set!DialogCloses, Set!End, Set!Goto, Set!connector,
       Set!center
  <1>7. ASSUME NEW t \in Set!Tokens,
               Set!DialogSaves(t)
        PROVE  SettingsInv'
    BY <1>7 DEF Set!DialogSaves, Set!Enter, Set!Goto, Set!connector,
       Set!center, Set!Settable
  <1>8. CASE Set!SyncFails
    BY <1>8 DEF Set!SyncFails, Set!End, Set!Goto, Set!connector, Set!center
  <1>9. CASE Set!Sync
    <2> USE <1>9 DEF Set!Sync, Set!Update, Set!End, Set!Goto, Set!connector,
                     Set!center
    <2>1. /\ xPc' \in [Set!Actors -> {"off", "read", "migrated", "ready", "up", "saved"}]
          /\ xPc'["dialog"] = "off" /\ xPc'["bridge"] = xPc["bridge"]
          /\ xCopy' \in [Set!Actors -> Set!Settable \union {None}]
          /\ xCopy'["bridge"] = xCopy["bridge"]
      OBVIOUS
    <2>2. /\ xCopy["dialog"].token \in Set!Tokens
          /\ xCopy["dialog"].agent \in Set!Tokens
          /\ xRaw \in Set!Settable
      BY DEF Set!Up, Set!Settable
    <2>3. xRaw' \in Set!Settable /\ xFile' \in Set!Settable
      BY <2>2 DEF Set!Settable
    <2>4. Set!TypeOK'
      BY <2>1, <2>3
    <2>5. SettingsKnown'
      BY <2>1, <2>3
    <2> QED
      BY <2>4, <2>5
  <1>10. ASSUME NEW t \in Set!Tokens, NEW g \in Set!Tokens,
               Set!FormSaves(t, g)
        PROVE  SettingsInv'
    BY <1>10 DEF Set!FormSaves, Set!Up, Set!Enter, Set!Update,
       Set!connector, Set!center, Set!Settable
  <1>11. CASE Set!ConfigurationChanged
    BY <1>11 DEF Set!ConfigurationChanged, Set!disk, Set!center, Set!Keys
  <1>12. CASE Set!Look
    BY <1>12 DEF Set!Look, Set!Up, Set!CurrentKey, Set!disk, Set!center,
       Set!Keys, Set!Settable, Set!GotoIn
  <1>13. CASE Set!Test
    BY <1>13 DEF Set!Test, Set!Up, Set!disk, Set!center, Set!GotoIn
  <1>14. ASSUME NEW r \in Set!Registrants,
               Set!Ask(r)
        PROVE  SettingsInv'
    BY <1>14 DEF Set!Ask, Set!Accepts, Set!disk, Set!Settable, Set!GotoIn
  <1>15. ASSUME NEW r \in Set!Registrants,
               Set!AskFails(r)
        PROVE  SettingsInv'
    BY <1>15 DEF Set!AskFails, Set!Return, Set!disk, Set!center, Set!Keys,
       Set!GotoIn
  <1>16. ASSUME NEW r \in Set!Registrants,
               Set!SetAgentId(r)
        PROVE  SettingsInv'
    BY <1>16 DEF Set!SetAgentId, Set!center, Set!Settable, Set!GotoIn
  <1>17. ASSUME NEW r \in Set!Registrants,
               Set!Registered(r)
        PROVE  SettingsInv'
    BY <1>17 DEF Set!Registered, Set!Return, Set!disk, Set!center, Set!Keys,
       Set!GotoIn
  <1>18. CASE Set!KeepKey
    BY <1>18 DEF Set!KeepKey, Set!Return, Set!disk, Set!center, Set!Keys,
       Set!GotoIn
  <1> QED
    BY <1>1, <1>2, <1>3, <1>4, <1>5, <1>6, <1>7, <1>8, <1>9, <1>10, <1>11,
       <1>12, <1>13, <1>14, <1>15, <1>16, <1>17, <1>18
    DEF Set!Next, Set!Work, Set!Register

------------------------------------------------------------------------------
(* The reminder.                                                              *)

\* tick and the reminder's thread: a reminder that is due is not begun while
\* another one is open, for that one closes itself before the next is due, and
\* tick waits until the one it began is shown.
ReminderIsDue ==
    /\ hThread = "starting" => /\ hPc = "idle" /\ hSnoozed = 0
                               /\ hPromptAge >= Hooks!PromptInterval
    /\ hThread = "open" => hPromptAge =< Window
    /\ hPc = "alive" => hSnoozed = 0 /\ hPromptAge >= Hooks!PromptInterval

LEMMA ReminderInit == Hooks!Init => ReminderIsDue
  BY DEF Hooks!Init, ReminderIsDue

LEMMA ReminderStep ==
    Hooks!TypeOK /\ ReminderIsDue /\ Hooks!Next => ReminderIsDue'
  <1> SUFFICES ASSUME Hooks!TypeOK, ReminderIsDue, Hooks!Next
               PROVE  ReminderIsDue'
    OBVIOUS
  <1>1. /\ hPromptAge \in 0..Forever /\ hSnoozed \in 0..Snooze /\ hPrompts \in 0..DowngradeAfter
        /\ hPc \in {"idle", "retry", "open", "ask", "alive"}
        /\ hThread \in {"none", "starting", "open", "repairing"}
    BY DEF Hooks!TypeOK
  <1> USE <1>1, Times, WindowAssumption DEF ReminderIsDue, Hooks!PromptInterval
  <1>2. ASSUME NEW v \in Hooks!Views, Hooks!ViewChanges(v)
        PROVE  ReminderIsDue'
    BY <1>2 DEF Hooks!ViewChanges, Hooks!ages
  <1>3. ASSUME NEW v \in Hooks!Views, Hooks!OpenChatPage(v)
        PROVE  ReminderIsDue'
    BY <1>3 DEF Hooks!OpenChatPage, Hooks!ages
  <1>4. CASE Hooks!TimePasses
    BY <1>4 DEF Hooks!TimePasses, Hooks!Older
  <1>5. CASE Hooks!Recovered
    BY <1>5 DEF Hooks!Recovered, Hooks!Begins, Hooks!ages
  <1>6. CASE Hooks!Lost
    BY <1>6 DEF Hooks!Lost, Hooks!Begins
  <1>7. CASE Hooks!NoChatPageDue
    BY <1>7 DEF Hooks!NoChatPageDue, Hooks!ages
  <1>8. CASE Hooks!StartPrompt
    BY <1>8 DEF Hooks!StartPrompt, Hooks!ages
  <1>9. CASE Hooks!Show
    BY <1>9 DEF Hooks!Show
  <1>10. CASE Hooks!Authorized
    BY <1>10 DEF Hooks!Authorized
  <1>11. ASSUME NEW b \in BOOLEAN, Hooks!Retry(b)
        PROVE  ReminderIsDue'
    BY <1>11 DEF Hooks!Retry
  <1>12. ASSUME NEW b \in BOOLEAN, Hooks!Ask(b)
        PROVE  ReminderIsDue'
    BY <1>12 DEF Hooks!Ask, Hooks!ages, Hooks!should_prompt
  <1>13. ASSUME NEW b \in BOOLEAN, Hooks!RepairEnds(b)
        PROVE  ReminderIsDue'
    BY <1>13 DEF Hooks!RepairEnds, Hooks!ages
  <1>14. ASSUME NEW a \in {"handled", "snooze", "ignored"}, Hooks!Answered(a)
        PROVE  ReminderIsDue'
    BY <1>14 DEF Hooks!Answered
  <1> QED
    BY <1>2, <1>3, <1>4, <1>5, <1>6, <1>7, <1>8, <1>9, <1>10, <1>11, <1>12,
       <1>13, <1>14 DEF Hooks!Next

------------------------------------------------------------------------------
(* All parts.                                                                 *)

PartsInv ==
    /\ Hooks!TypeOK /\ ReminderIsDue
    /\ Client!TypeOK /\ Seat!TypeOK /\ Dock!TypeOK /\ Support!TypeOK
    /\ NativeInv /\ SettingsInv

LEMMA PartsBegin == PartsInit => PartsInv
  BY HooksInit, ReminderInit, ClientInit, SeatInit, DockInit, SupportInit,
     NativeInit, SettingsInit
  DEF PartsInit, PartsInv

\* What a part knows stays when nothing of it changes.
LEMMA PartsKept ==
    /\ (Hooks!TypeOK /\ ReminderIsDue) /\ UNCHANGED hooks => (Hooks!TypeOK /\ ReminderIsDue)'
    /\ (Client!TypeOK) /\ UNCHANGED launcher => (Client!TypeOK)'
    /\ (Seat!TypeOK) /\ UNCHANGED processes => (Seat!TypeOK)'
    /\ (Dock!TypeOK) /\ UNCHANGED dock => (Dock!TypeOK)'
    /\ (NativeInv) /\ UNCHANGED native => (NativeInv)'
    /\ (Support!TypeOK) /\ UNCHANGED support => (Support!TypeOK)'
    /\ (SettingsInv) /\ UNCHANGED settings => (SettingsInv)'
  <1>1. (Hooks!TypeOK /\ ReminderIsDue) /\ UNCHANGED hooks => (Hooks!TypeOK /\ ReminderIsDue)'
    BY DEF hooks, Hooks!TypeOK, ReminderIsDue, Hooks!PromptInterval
  <1>2. (Client!TypeOK) /\ UNCHANGED launcher => (Client!TypeOK)'
    BY DEF launcher, Client!TypeOK
  <1>3. (Seat!TypeOK) /\ UNCHANGED processes => (Seat!TypeOK)'
    BY DEF processes, Seat!TypeOK
  <1>4. (Dock!TypeOK) /\ UNCHANGED dock => (Dock!TypeOK)'
    BY DEF dock, Dock!TypeOK
  <1>5. (NativeInv) /\ UNCHANGED native => (NativeInv)'
    BY DEF native, NativeInv, Native!TypeOK, RunsNumbered, FileIsHonest,
           Native!RestoredWasChosen
  <1>6. (Support!TypeOK) /\ UNCHANGED support => (Support!TypeOK)'
    BY DEF support, Support!TypeOK
  <1>7. (SettingsInv) /\ UNCHANGED settings => (SettingsInv)'
    BY DEF settings, SettingsInv, Set!TypeOK, SettingsKnown
  <1> QED
    BY <1>1, <1>2, <1>3, <1>4, <1>5, <1>6, <1>7

LEMMA PartsStep == PartsInv /\ [PartsNext]_all => PartsInv'
  <1> SUFFICES ASSUME PartsInv, [PartsNext]_all PROVE PartsInv'
    OBVIOUS
  <1>1. ASSUME part = "hooks", Hooks!Next, Rest PROVE PartsInv'
    BY <1>1, PartsKept, HooksStep, ReminderStep DEF Rest, PartsInv
  <1>2. ASSUME part = "launcher", Client!Next, Rest PROVE PartsInv'
    BY <1>2, PartsKept, ClientStep DEF Rest, PartsInv
  <1>3. ASSUME part = "processes", Seat!Next, Rest PROVE PartsInv'
    BY <1>3, PartsKept, SeatStep DEF Rest, PartsInv
  <1>4. ASSUME part = "dock", Dock!Next, Rest PROVE PartsInv'
    BY <1>4, PartsKept, DockStep DEF Rest, PartsInv
  <1>5. ASSUME part = "native", Native!Next, Rest PROVE PartsInv'
    BY <1>5, PartsKept, NativeStep DEF Rest, PartsInv
  <1>6. ASSUME part = "support", Support!Next, Rest PROVE PartsInv'
    BY <1>6, PartsKept, SupportStep DEF Rest, PartsInv
  <1>7. ASSUME part = "settings", Set!Next, Rest PROVE PartsInv'
    BY <1>7, PartsKept, SettingsStep DEF Rest, PartsInv
  <1>8. CASE UNCHANGED all
    BY <1>8, PartsKept DEF all, PartsInv
  <1> QED
    BY <1>1, <1>2, <1>3, <1>4, <1>5, <1>6, <1>7, <1>8 DEF PartsNext

LEMMA PartsAlways == PartsSpec => []PartsInv
  BY PartsBegin, PartsStep, PTL DEF PartsSpec

\* Every part of a seat keeps its types: the fields of the hook recovery, the
\* client's state, the steps of the three actors of start and stop, the panel,
\* the native adapter, the page archives and the three copies of the settings.
THEOREM SeatTypes == PartsSpec => []TypesOK
  <1>1. PartsInv => TypesOK
    BY DEF PartsInv, TypesOK, NativeInv, SettingsInv
  <1> QED
    BY <1>1, PartsAlways, PTL

\* attach, appbiz_agent.js: the service object taken up from the file of an
\* earlier script was chosen by the client's own calls in this very run of it,
\* whichever runs, process ids, logins and restarts of the bridge came between.
THEOREM RestoredHonestly == PartsSpec => []RestoredWasChosen
  <1>1. PartsInv => RestoredWasChosen
    BY DEF PartsInv, RestoredWasChosen, NativeInv
  <1> QED
    BY <1>1, PartsAlways, PTL

\* hook_recovery: the reminder is never shown within the interval since the last
\* one or its answer, nor during a snooze, though one thread decides and another
\* shows it.
THEOREM RemindersSpaced == PartsSpec => Hooks!PromptsSpaced
  <1>1. PartsInv => [hThread = "starting" /\ hThread' = "open" =>
                       hSnoozed = 0 /\ hPromptAge >= Hooks!PromptInterval]_hooks
    BY DEF PartsInv, ReminderIsDue
  <1>2. Hooks!vars = hooks
    BY DEF Hooks!vars, hooks
  <1> QED
    BY <1>1, PartsAlways, PTL DEF Hooks!PromptsSpaced, Hooks!vars, hooks
==============================================================================
