------------------------------ MODULE Settings ------------------------------
(* The settings of a seat: config.json, the copy of it the bridge works with, *)
(* the copy the settings dialog shows, and the registration with the center.  *)
(* A token stands for all the operator enters together (address, token, name).*)
(* start_dock and the defaults of an update rewrite the file as Save does and *)
(* are left out.                                                              *)
EXTENDS Naturals

CONSTANTS
    LastToken,      \* the operator enters the tokens 1 .. LastToken, each once
    MayReturn,      \* bound: the bridge may be given settings it had before
    None            \* what a process that does not run remembers

Tokens == 0 .. LastToken
Settable == [token : Tokens, agent : Tokens, device : {"old", "stable"}]
Keys == (Tokens \X Tokens) \union {None}
Actors == {"bridge", "dialog"}
Registrants == {"control", "tester"}

VARIABLES
    entered,    \* the last token the operator entered
    file,       \* config.json
    copy,       \* what main() or the dialog has read of it, while it works with it
    pc,         \* "off", "read", "migrated", "ready"; "up" (bridge), "saved" (dialog)
    raw,        \* Config.raw of the bridge, while it runs
    changed,    \* /api/v1/brain/config is between the update and configuration_changed
    registered,
    configKey,  \* _configuration_key
    at,         \* of each thread that registers: "look", "asks", "told", "named", "marked"
    key,        \* the key run_control computed before it registered
    assigned,   \* the agent id of the center's answer
    bound,      \* the center: the device of each token
    seen        \* the center: the token of the last registration

vars == <<entered, file, copy, pc, raw, changed, registered, configKey, at, key, assigned,
          bound, seen>>
center == <<bound, seen>>
connector == <<registered, configKey, at, key, assigned>>
disk == <<entered, file, copy, pc>>

TypeOK ==
    /\ entered \in Tokens
    /\ file \in Settable /\ raw \in Settable \union {None}
    /\ copy \in [Actors -> Settable \union {None}]
    /\ pc["bridge"] \in {"off", "read", "migrated", "ready", "up"}
    /\ pc["dialog"] \in {"off", "read", "migrated", "ready", "saved"}
    /\ changed \in BOOLEAN /\ registered \in BOOLEAN
    /\ configKey \in Keys /\ key \in Keys /\ seen \in Tokens \union {None}
    /\ at \in [Registrants -> {"look", "asks", "told", "named", "marked"}]
    /\ assigned \in [Registrants -> Tokens \union {None}]
    /\ bound \in [Tokens -> {"none", "old", "stable"}]

\* A seat of a former version, registered under another device id, or a new one.
Init ==
    /\ file \in {f \in Settable : f.token = 0 /\ f.agent = 0}
    /\ entered = 0
    /\ copy = [a \in Actors |-> None] /\ raw = None
    /\ pc = [a \in Actors |-> "off"]
    /\ changed = FALSE /\ registered = FALSE
    /\ configKey = None /\ key = None
    /\ at = [r \in Registrants |-> "look"]
    /\ assigned = [r \in Registrants |-> None]
    /\ bound = [t \in Tokens |-> IF t = 0 THEN file.device ELSE "none"]
    /\ seen = None

Up == pc["bridge"] = "up"
Enter(t) == t = entered + 1 /\ entered' = t
Goto(a, step) == pc' = [pc EXCEPT ![a] = step]
End(a, step) == Goto(a, step) /\ copy' = [copy EXCEPT ![a] = None]
GotoIn(r, step) == at' = [at EXCEPT ![r] = step]

-----------------------------------------------------------------------------
(* prepare_device_identity, on the way to the bridge and to the dialog.      *)

Read(a) ==
    /\ pc[a] = "off"
    /\ copy' = [copy EXCEPT ![a] = file]
    /\ Goto(a, IF file.device = "stable" THEN "ready" ELSE "read")
    /\ UNCHANGED <<entered, file, raw, changed, connector, center>>

\* The center takes a repeated migration for the first one.  Without an answer
\* the process gives up, whatever the center did.
Migrate(a, taken, told) ==
    /\ pc[a] = "read" /\ (told => taken)
    /\ bound' = IF taken THEN [bound EXCEPT ![copy[a].token] = "stable"] ELSE bound
    /\ IF told THEN Goto(a, "migrated") /\ UNCHANGED copy ELSE End(a, "off")
    /\ UNCHANGED <<entered, file, raw, changed, connector, seen>>

Save(a) ==
    /\ pc[a] = "migrated"
    /\ copy' = [copy EXCEPT ![a].device = "stable"]
    /\ file' = copy'[a]
    /\ Goto(a, "ready")
    /\ UNCHANGED <<entered, raw, changed, connector, center>>

-----------------------------------------------------------------------------
(* The processes.                                                            *)

\* Config.load reads the file again.
Load ==
    /\ pc["bridge"] = "ready"
    /\ raw' = file
    /\ End("bridge", "up")
    /\ UNCHANGED <<entered, file, changed, connector, center>>

\* The bridge is stopped, killed or dies.
Stops ==
    /\ pc["bridge"] # "off"
    /\ End("bridge", "off")
    /\ raw' = None /\ changed' = FALSE
    /\ registered' = FALSE /\ configKey' = None /\ key' = None
    /\ at' = [r \in Registrants |-> "look"]
    /\ assigned' = [r \in Registrants |-> None]
    /\ UNCHANGED <<entered, file, center>>

DialogCloses ==
    /\ pc["dialog"] = "ready"
    /\ End("dialog", "off")
    /\ UNCHANGED <<entered, file, raw, changed, connector, center>>

\* _save_and_start: what the dialog has read, with what was entered.
DialogSaves(t) ==
    /\ pc["dialog"] = "ready"
    /\ Enter(t) \/ (t = copy["dialog"].token /\ UNCHANGED entered)
    /\ copy' = [copy EXCEPT !["dialog"].token = t]
    /\ file' = copy'["dialog"]
    /\ Goto("dialog", "saved")
    /\ UNCHANGED <<raw, changed, connector, center>>

\* The bridge is not up, does not answer in time, or refuses.
SyncFails ==
    /\ pc["dialog"] = "saved"
    /\ End("dialog", "off")
    /\ UNCHANGED <<entered, file, raw, changed, connector, center>>

\* update_brain_settings: the file gets all the bridge has, and then the memory.
Update(t, g) ==
    /\ Up /\ ~changed
    /\ t < raw.token => MayReturn
    /\ raw' = [raw EXCEPT !.token = t, !.agent = g]
    /\ file' = raw'
    /\ changed' = TRUE
    /\ UNCHANGED <<connector, center>>

Sync ==
    /\ pc["dialog"] = "saved"
    /\ Update(copy["dialog"].token, copy["dialog"].agent)
    /\ End("dialog", "off")
    /\ UNCHANGED entered

\* The form of the workbench: the agent id it showed, a token or none.
FormSaves(t, g) ==
    /\ Up
    /\ Enter(t) \/ (t = raw.token /\ UNCHANGED entered)
    /\ Update(t, g)
    /\ UNCHANGED <<copy, pc>>

ConfigurationChanged ==
    /\ changed /\ changed' = FALSE
    /\ registered' = FALSE /\ configKey' = None
    /\ UNCHANGED <<disk, raw, at, key, assigned, center>>

-----------------------------------------------------------------------------
(* register, called by run_control and by /api/v1/brain/test.                *)

CurrentKey == <<raw.token, raw.agent>>

\* The thread is done with what it knows of this registration.
Return(r) ==
    /\ GotoIn(r, "look")
    /\ assigned' = [assigned EXCEPT ![r] = None]
    /\ key' = IF r = "control" THEN None ELSE key

Look ==
    /\ Up /\ at["control"] = "look"
    /\ configKey # CurrentKey \/ ~registered
    /\ key' = CurrentKey
    /\ registered' = FALSE
    /\ GotoIn("control", "asks")
    /\ UNCHANGED <<disk, raw, changed, configKey, assigned, center>>

Test ==
    /\ Up /\ at["tester"] = "look"
    /\ registered' = FALSE
    /\ GotoIn("tester", "asks")
    /\ UNCHANGED <<disk, raw, changed, configKey, key, assigned, center>>

\* A token belongs to the device that used it first, and has its agent id.
Accepts == bound[raw.token] \in {"none", raw.device}

Ask(r) ==
    /\ at[r] = "asks" /\ Accepts
    /\ bound' = [bound EXCEPT ![raw.token] = raw.device]
    /\ seen' = raw.token
    /\ assigned' = [assigned EXCEPT ![r] = raw.token]
    /\ GotoIn(r, "told")
    /\ UNCHANGED <<disk, raw, changed, registered, configKey, key>>

\* The center refuses, or the request or the answer is lost.
AskFails(r) ==
    /\ at[r] \in {"asks", "told"}
    /\ Return(r)
    /\ UNCHANGED <<disk, raw, changed, registered, configKey, center>>

\* set_brain_agent_id: a new id is written with all the bridge has.
SetAgentId(r) ==
    /\ at[r] = "told"
    /\ raw' = [raw EXCEPT !.agent = assigned[r]]
    /\ file' = IF raw.agent = assigned[r] THEN file ELSE raw'
    /\ GotoIn(r, "named")
    /\ UNCHANGED <<entered, copy, pc, changed, registered, configKey, key, assigned, center>>

Registered(r) ==
    /\ at[r] = "named"
    /\ registered' = TRUE
    /\ IF r = "control" THEN GotoIn(r, "marked") /\ UNCHANGED <<key, assigned>> ELSE Return(r)
    /\ UNCHANGED <<disk, raw, changed, configKey, center>>

\* Slip: the key is computed after the registration.
KeepNewKey ==
    /\ at["control"] = "marked"
    /\ configKey' = CurrentKey
    /\ Return("control")
    /\ UNCHANGED <<disk, raw, changed, registered, center>>

KeepKey ==
    /\ at["control"] = "marked"
    /\ configKey' = key
    /\ Return("control")
    /\ UNCHANGED <<disk, raw, changed, registered, center>>

-----------------------------------------------------------------------------
Register(r) == Ask(r) \/ SetAgentId(r) \/ Registered(r)

\* What the threads of a bridge do of themselves.
Work == ConfigurationChanged \/ Look \/ KeepKey \/ \E r \in Registrants : Register(r)

Next ==
    \/ Work \/ Load \/ Stops \/ DialogCloses \/ SyncFails \/ Sync \/ Test
    \/ \E a \in Actors, taken, told \in BOOLEAN :
          Read(a) \/ Migrate(a, taken, told) \/ Save(a)
    \/ \E t, g \in Tokens : DialogSaves(t) \/ FormSaves(t, g)
    \/ \E r \in Registrants : AskFails(r)

Spec == Init /\ [][Next]_vars

Fairness ==
    /\ WF_vars(ConfigurationChanged) /\ WF_vars(Look) /\ WF_vars(KeepKey)
    /\ \A r \in Registrants : WF_vars(Register(r))
FairSpec == Spec /\ Fairness

-----------------------------------------------------------------------------
\* standalone_bridge.py:2721: "the brain configuration is saved, the connector
\* loads it": once a bridge is left to itself and its requests are answered, the
\* last registration the center has is one by the settings the bridge works with,
\* however changes, tests, restarts, lost answers and an interrupted migration of
\* the device met earlier registrations.
SettingsArrive ==
    <>[]Up /\ <>[][Work]_vars => <>[](registered /\ seen = raw.token)
=============================================================================
