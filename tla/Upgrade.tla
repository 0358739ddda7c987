------------------------------ MODULE Upgrade ------------------------------
(* tools/upgrade_installed.py, replace_program: the helper is stopped, every *)
(* path of the payload is moved to the backup and copied anew, the new       *)
(* helper is started and the configuration compared; whatever fails after    *)
(* the first stop, the old program is put back.  Any call may fail, in the   *)
(* recovery too, and the upgrade may be killed at any step.                  *)
EXTENDS Naturals

CONSTANTS
    Names,       \* the paths of the payload
    Merged,      \* the one that is copied over a copy of the old: build
    MaxFailures  \* bound: how many calls fail

VARIABLES
    old,      \* the paths the installed program has
    root,     \* what the installation holds under every path
    saved,    \* the paths whose old content is in the backup
    moved, created,
    running,  \* the helper that runs
    config,   \* config.json: as it was, migrated, or changed otherwise
    pc,
    at,       \* the path being copied
    failures

vars == <<old, root, saved, moved, created, running, config, pc, at, failures>>

Ends == {"done", "refused", "restored", "stuck", "killed"}

TypeOK ==
    /\ old \subseteq Names /\ saved \subseteq old
    /\ root \in [Names -> {"none", "part", "old", "new", "merged"}]
    /\ moved \subseteq old /\ created \subseteq Names
    /\ running \in {"none", "old", "new"}
    /\ config \in {"asWas", "migrated", "changed"}
    /\ pc \in {"check", "stop", "database", "move", "copy", "start", "verify"}
              \cup {"stopAgain", "aside", "back", "config", "startOld"} \cup Ends
    /\ at \in Names /\ failures \in 0..MaxFailures

Init ==
    /\ old \in (SUBSET Names) \ {{}}
    /\ root = [f \in Names |-> IF f \in old THEN "old" ELSE "none"]
    /\ saved = {} /\ moved = {} /\ created = {}
    /\ running = "old" /\ config = "asWas"
    /\ pc = "check" /\ at = (CHOOSE f \in Names : TRUE) /\ failures = 0

Fails(next) == failures < MaxFailures /\ failures' = failures + 1 /\ pc' = next
Goes(next) == pc' = next /\ UNCHANGED failures

files == <<old, root, saved, moved, created>>

\* upgrade: the payload, the client's version, and that the helper is idle.
Check ==
    /\ pc = "check" /\ (Goes("stop") \/ Fails("refused"))
    /\ UNCHANGED <<files, running, config, at>>

\* Seat.stop.  What fails here is before the try: nothing is put back or started.
Stop ==
    /\ pc = "stop"
    /\ \/ running' = "none" /\ Goes("database")
       \/ running' \in {"none", "old"} /\ Fails("refused")
    /\ UNCHANGED <<files, config, at>>

BackUpDatabase ==
    /\ pc = "database" /\ (Goes("move") \/ Fails("stopAgain"))
    /\ UNCHANGED <<files, running, config, at>>

\* Slip: the path is copied over in place.
MoveNot ==
    /\ pc = "move" /\ at' \in Names \ created /\ Goes("copy")
    /\ UNCHANGED <<files, running, config>>

\* target.rename(saved) of the next path.
Move ==
    /\ pc = "move" /\ at' \in Names \ created
    /\ \/ /\ root[at'] # "none"
          /\ root' = [root EXCEPT ![at'] = "none"]
          /\ saved' = saved \cup {at'} /\ moved' = moved \cup {at'}
          /\ Goes("copy")
       \/ root[at'] = "none" /\ UNCHANGED <<root, saved, moved>> /\ Goes("copy")
       \/ root[at'] # "none" /\ UNCHANGED <<root, saved, moved>> /\ Fails("stopAgain")
    /\ UNCHANGED <<old, created, running, config>>

Copied(f) == IF f \in Merged \cap moved THEN "merged" ELSE "new"

\* Slip: a path is noted as created once it is copied.
CopyThenNote ==
    /\ pc = "copy"
    /\ \/ /\ root' = [root EXCEPT ![at] = Copied(at)]
          /\ created' = created \cup {at}
          /\ Goes(IF created' = Names THEN "start" ELSE "move")
       \/ /\ \E left \in {"none", "part"} : root' = [root EXCEPT ![at] = left]
          /\ UNCHANGED created /\ Fails("stopAgain")
    /\ UNCHANGED <<old, saved, moved, running, config, at>>

\* created.append, then the copy; one that fails may leave a part.
Copy ==
    /\ pc = "copy" /\ created' = created \cup {at}
    /\ \/ /\ root' = [root EXCEPT ![at] = Copied(at)]
          /\ Goes(IF created' = Names THEN "start" ELSE "move")
       \/ /\ \E left \in {"none", "part"} : root' = [root EXCEPT ![at] = left]
          /\ Fails("stopAgain")
    /\ UNCHANGED <<old, saved, moved, running, config, at>>

\* Seat.start(VERSION): the helpers migrate the configuration as they start,
\* and one that fails the test may still be running.  Changing it any other way
\* is a failure too.
StartNew ==
    /\ pc = "start"
    /\ \/ config' \in {"asWas", "migrated"} /\ running' = "new" /\ Goes("verify")
       \/ config' = "changed" /\ running' = "new" /\ Fails("verify")
       \/ /\ config' \in {"asWas", "migrated"} /\ running' \in {"none", "new"}
          /\ Fails("stopAgain")
    /\ UNCHANGED <<files, at>>

\* check_preserved_config.
Verify ==
    /\ pc = "verify"
    /\ IF config = "changed" THEN pc' = "stopAgain" ELSE pc' = "done"
    /\ UNCHANGED <<files, running, config, at, failures>>

StopAgain ==
    /\ pc = "stopAgain"
    /\ \/ running' = "none" /\ Goes("aside")
       \/ UNCHANGED running /\ Fails("stuck")
    /\ UNCHANGED <<files, config, at>>

\* What was created is moved aside.
Aside ==
    /\ pc = "aside"
    /\ \/ \E f \in created : root[f] # "none" /\ root' = [root EXCEPT ![f] = "none"]
                             /\ Goes("aside")
       \/ (\A f \in created : root[f] = "none") /\ Goes("back") /\ UNCHANGED root
       \/ Fails("stuck") /\ UNCHANGED root
    /\ UNCHANGED <<old, saved, moved, created, running, config, at>>

\* The old paths are moved back: a rename to a path that is there fails.
Back ==
    /\ pc = "back"
    /\ \/ \E f \in moved \cap saved :
            IF root[f] = "none"
              THEN /\ root' = [root EXCEPT ![f] = "old"] /\ saved' = saved \ {f}
                   /\ Goes("back")
              ELSE UNCHANGED <<root, saved>> /\ Goes("stuck")
       \/ moved \cap saved = {} /\ Goes("config") /\ UNCHANGED <<root, saved>>
       \/ Fails("stuck") /\ UNCHANGED <<root, saved>>
    /\ UNCHANGED <<old, moved, created, running, config, at>>

WriteConfig ==
    /\ pc = "config"
    /\ \/ config' = "asWas" /\ Goes("startOld")
       \/ UNCHANGED config /\ Fails("stuck")
    /\ UNCHANGED <<files, running, at>>

StartOld ==
    /\ pc = "startOld"
    /\ \/ running' = "old" /\ Goes("restored")
       \/ running' \in {"none", "old"} /\ Fails("stuck")
    /\ UNCHANGED <<files, config, at>>

Killed ==
    /\ pc \notin Ends /\ pc' = "killed"
    /\ UNCHANGED <<files, running, config, at, failures>>

Next ==
    \/ Check \/ Stop \/ BackUpDatabase \/ Move \/ Copy \/ StartNew \/ Verify
    \/ StopAgain \/ Aside \/ Back \/ WriteConfig \/ StartOld \/ Killed

Spec == Init /\ [][Next]_vars

-----------------------------------------------------------------------------
\* upgrade_installed.py:192-201: wherever the upgrade fails or is killed, the old
\* program is whole: every path of it is in its place or in the backup.
OldIsKept == \A f \in old : root[f] = "old" \/ f \in saved

\* upgrade_installed.py:217-222: "升级未完成，已恢复旧版" is said of an installation
\* that is the old one, path for path, with its configuration, and that runs;
\* success, of one that is new throughout and kept its configuration.
OutcomeIsTrue ==
    /\ pc = "restored" =>
        /\ \A f \in Names : root[f] = IF f \in old THEN "old" ELSE "none"
        /\ config = "asWas" /\ running = "old"
    /\ pc = "done" =>
        /\ \A f \in Names : root[f] \in {"new", "merged"}
        /\ config # "changed" /\ running = "new"

\* upgrade_installed.py:220 "自动恢复未完成" needs two failures: whatever single
\* call fails once the old program has been stopped, it is put back and started.
\* Where stopping it fails (line 186), the upgrade ends "refused" and has touched
\* nothing, but does not start what it may have stopped in part.
OneFailureIsRecovered == pc = "stuck" => failures >= 2

\* What is promised of an upgrade, wherever it fails or is killed
\* (replace_program): the three together.
UpgradeIsSafe == OldIsKept /\ OutcomeIsTrue /\ OneFailureIsRecovered
=============================================================================
