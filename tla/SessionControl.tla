--------------------------- MODULE SessionControl ---------------------------
(* Who answers a conversation: the table session_controls of StateDB and the *)
(* threads that write it.  Every writer reads the control in one transaction *)
(* and writes it in another: the handoff poll and the draft sync of one      *)
(* thread, the session_state commands of a guarded account, the keyword rule *)
(* of ingest_event, and the operator's switch, which asks the brain first.   *)
(*                                                                           *)
(* Reasons and times are left out, but for the limited life of a hold the    *)
(* keyword rule makes.  A command's text is sent by the executor that looked *)
(* at the control a moment before.                                           *)
EXTENDS Naturals, Sequences

CONSTANTS
    Ordinary,       \* conversations of ordinary accounts
    Guarded,        \* conversations of the guarded accounts (tmall_guard_scope)
    Executors,      \* threads that execute send_text commands
    MaxChanges,     \* bound: changes of the brain's own mind
    MaxSwitches,    \* bound: switches the operator throws
    MaxKeywords,    \* bound: buyer messages with a keyword
    MaxAnswers,     \* bound: answers of the AI
    MaxFailures,    \* bound: polls that fail
    Nothing

Sessions == Ordinary \cup Guarded

ASSUME SessionAssumption ==
    /\ Ordinary \cap Guarded = {}
    /\ Nothing \notin Sessions
    /\ "poll" \notin Guarded

Sources == {"", "manual", "automatic", "brain", "brain_pause"}
Controls == [mode : {"ai", "human"}, source : Sources]
Default == [mode |-> "ai", source |-> ""]

\* Threads that apply what the brain says of a conversation: "brain-drafts",
\* which also polls the handoffs, and the sender that executes a command.
Appliers == {"poll"} \cup Guarded
Hands == [pc : {"idle", "told", "seen", "settle"},
          s : Sessions \cup {Nothing}, on : BOOLEAN, pause : BOOLEAN,
          seen : Controls \cup {Nothing}]
Free == [pc |-> "idle", s |-> Nothing, on |-> FALSE, pause |-> FALSE,
         seen |-> Nothing]

VARIABLES
    ctl,        \* session_controls; a missing row is Default
    brain,      \* the brain's state of each conversation
    pushed,     \* session_state commands on their way, in order
    hand,       \* what each applier is doing
    pc, remote, todo,   \* the poll: its stage, the answer, what is left of it
    ingest,     \* the conversation and control the keyword rule looked at
    op,         \* the operator's switch
    checked,    \* conversations each executor found open for the AI
    late,       \* AI answers handed over since the operator's hold began
    changes, switches, keywords, answers, failures

vars == <<ctl, brain, pushed, hand, pc, remote, todo, ingest, op, checked,
          late, changes, switches, keywords, answers, failures>>
polling == <<pc, remote, todo>>
counts == <<changes, switches, keywords, answers, failures>>

TypeOK ==
    /\ ctl \in [Sessions -> Controls]
    /\ brain \in [Sessions -> [handoff : BOOLEAN, paused : BOOLEAN]]
    /\ pushed \in [Sessions -> Seq([on : BOOLEAN, pause : BOOLEAN])]
    /\ hand \in [Appliers -> Hands]
    /\ pc \in {"idle", "fetching", "on", "off"}
    /\ remote \in SUBSET Sessions
    /\ todo \in SUBSET Sessions
    /\ ingest \in [s : Sessions \cup {Nothing}, seen : Controls]
    /\ op \in [pc : {"idle", "asked"}, s : Sessions \cup {Nothing}, ai : BOOLEAN]
    /\ checked \in [Executors -> Sessions \cup {Nothing}]
    /\ late \in [Sessions -> [Executors -> Nat]]
    /\ changes \in Nat /\ switches \in Nat /\ keywords \in Nat /\ answers \in Nat
    /\ failures \in Nat

Human(c) == c.mode = "human"
\* The operator holds the conversation until somebody gives it back.
Held(c) == Human(c) /\ c.source \in {"manual", "brain_pause"}

\* The table outlives the process: earlier versions kept manual and automatic
\* holds of any account.
Init ==
    /\ ctl \in [Sessions -> {Default, [mode |-> "human", source |-> "manual"],
                             [mode |-> "human", source |-> "automatic"]}]
    /\ brain = [s \in Sessions |-> [handoff |-> FALSE, paused |-> FALSE]]
    /\ pushed = [s \in Sessions |-> <<>>]
    /\ hand = [p \in Appliers |-> Free]
    /\ pc = "idle" /\ remote = {} /\ todo = {}
    /\ ingest = [s |-> Nothing, seen |-> Default]
    /\ op = [pc |-> "idle", s |-> Nothing, ai |-> FALSE]
    /\ checked = [x \in Executors |-> Nothing]
    /\ late = [s \in Sessions |-> [x \in Executors |-> 0]]
    /\ changes = 0 /\ switches = 0 /\ keywords = 0 /\ answers = 0
    /\ failures = 0

\* set_session_control: whatever the row was, it is replaced.  A hold the
\* operator begins starts the count of late answers.
SetControl(s, mode, source) ==
    LET c == [mode |-> mode, source |-> source] IN
    /\ ctl' = [ctl EXCEPT ![s] = c]
    /\ late' = IF Held(c) /\ ~Held(ctl[s]) 
                THEN [late EXCEPT ![s] = [x \in Executors |-> 0]] ELSE late

-----------------------------------------------------------------------------
(* The brain, the operator and the keyword rule. *)

\* Guarded accounts are told of every change with a session_state command.
Tell(s, b) ==
    pushed' = IF s \in Guarded
              THEN [pushed EXCEPT ![s] =
                       Append(@, [on |-> b.handoff, pause |-> b.paused])]
              ELSE pushed

BrainDecides(s, b) ==
    /\ changes < MaxChanges
    /\ b # brain[s]
    /\ brain' = [brain EXCEPT ![s] = b]
    /\ Tell(s, b)
    /\ changes' = changes + 1
    /\ UNCHANGED <<ctl, hand, polling, ingest, op, checked, late, switches,
                   keywords, answers, failures>>

\* set_ai_takeover: POST /api/session/state; only a confirmed answer is stored.
SwitchAsked(s, ai) ==
    /\ switches < MaxSwitches
    /\ op.pc = "idle"
    /\ switches' = switches + 1
    /\ LET b == [brain[s] EXCEPT !.paused = ~ai] IN
       /\ brain' = [brain EXCEPT ![s] = b]
       /\ Tell(s, b)
    /\ op' = [pc |-> "asked", s |-> s, ai |-> ai]
    /\ UNCHANGED <<ctl, hand, polling, ingest, checked, late, changes,
                   keywords, answers, failures>>

SwitchConfirmed ==
    /\ op.pc = "asked"
    /\ SetControl(op.s, IF op.ai THEN "ai" ELSE "human",
                  IF op.ai THEN "brain" ELSE "brain_pause")
    /\ op' = [op EXCEPT !.pc = "idle", !.s = Nothing]
    /\ UNCHANGED <<brain, pushed, hand, polling, ingest, checked, counts>>

\* The request fails, or its answer is lost, and the control stays.
SwitchRefused ==
    /\ op.pc = "asked"
    /\ op' = [op EXCEPT !.pc = "idle", !.s = Nothing]
    /\ UNCHANGED <<ctl, brain, pushed, hand, polling, ingest, checked, late,
                   counts>>

\* A buyer of an ordinary account writes a keyword: ingest_event looks ...
KeywordSeen(s) ==
    /\ keywords < MaxKeywords
    /\ ingest.s = Nothing
    /\ s \in Ordinary
    /\ ~Human(ctl[s])
    /\ ingest' = [s |-> s, seen |-> ctl[s]]
    /\ keywords' = keywords + 1
    /\ UNCHANGED <<ctl, brain, pushed, hand, polling, op, checked, late,
                   changes, switches, answers, failures>>

\* ... and holds the conversation for brain_handoff_ttl_seconds.
KeywordHolds ==
    /\ ingest.s # Nothing
    /\ SetControl(ingest.s, "human", "automatic")
    /\ ingest' = [s |-> Nothing, seen |-> Default]
    /\ UNCHANGED <<brain, pushed, hand, polling, op, checked, counts>>

\* Slip: a row whose expires_at has passed is marked and kept.
ExpireMarked(s) ==
    /\ ctl[s] = [mode |-> "human", source |-> "automatic"]
    /\ ctl' = [ctl EXCEPT ![s].mode = "expired"]
    /\ UNCHANGED <<brain, pushed, hand, polling, ingest, op, checked, late,
                   counts>>

\* session_control deletes a row whose expires_at has passed.
Expire(s) ==
    /\ ctl[s] = [mode |-> "human", source |-> "automatic"]
    /\ ctl' = [ctl EXCEPT ![s] = Default]
    /\ UNCHANGED <<brain, pushed, hand, polling, ingest, op, checked, late,
                   counts>>

-----------------------------------------------------------------------------
(* apply_brain_handoff, in its two transactions. *)

Told(s, on, pause) ==
    [pc |-> "told", s |-> s, on |-> on, pause |-> pause, seen |-> Nothing]

Look(p) ==
    /\ hand[p].pc = "told"
    /\ hand' = [hand EXCEPT ![p].pc = "seen", ![p].seen = ctl[hand[p].s]]
    /\ UNCHANGED <<ctl, brain, pushed, polling, ingest, op, checked, late,
                   counts>>

\* Slip: a handoff is noticed by its source, whatever the mode.
MayHoldBySource(s, c) == c.source # "brain" /\ (Human(c) => s \in Guarded)

\* Slip: the brain takes a conversation from whoever holds it.
MayHoldAnyone(s, c) == c # [mode |-> "human", source |-> "brain"]

\* The brain's handoff never replaces a hold of an ordinary account.
MayHold(s, c) ==
    /\ c # [mode |-> "human", source |-> "brain"]
    /\ Human(c) => s \in Guarded

MayRelease(s, c) ==
    /\ Human(c)
    /\ \/ c.source = "brain"
       \/ s \in Guarded /\ c.source \in {"automatic", "manual"}

Apply(p) ==
    LET h == hand[p] IN
    /\ h.pc = "seen"
    /\ CASE h.on /\ MayHold(h.s, h.seen) -> SetControl(h.s, "human", "brain")
         [] ~h.on /\ MayRelease(h.s, h.seen) -> SetControl(h.s, "ai", "brain")
         [] OTHER -> UNCHANGED <<ctl, late>>
    /\ hand' = [hand EXCEPT ![p] =
          IF h.pause THEN [h EXCEPT !.pc = "settle", !.seen = Nothing]
                     ELSE Free]
    /\ UNCHANGED <<brain, pushed, polling, ingest, op, checked, counts>>

-----------------------------------------------------------------------------
(* execute_command: session_state, for guarded accounts only. *)

\* They are applied in the order the center sent them: that two workers of the pool
\* may swap two of them is left to CommandPool (RunsInOrder).
StateCommand(s) ==
    /\ s \in Guarded
    /\ pushed[s] # <<>>
    /\ hand[s].pc = "idle"
    /\ LET m == Head(pushed[s]) IN
       hand' = [hand EXCEPT ![s] =
          IF ctl[s].source = "brain_pause" /\ ~m.on /\ ~m.pause
          THEN [Told(s, FALSE, FALSE) EXCEPT !.pc = "settle"]
          ELSE Told(s, m.on \/ m.pause, m.pause /\ ~m.on)]
    /\ pushed' = [pushed EXCEPT ![s] = Tail(@)]
    /\ UNCHANGED <<ctl, brain, polling, ingest, op, checked, late, counts>>

\* An explicit resume ends an explicit pause, read before.
Resume(s) ==
    /\ s \in Guarded
    /\ hand[s].pc = "settle" /\ ~hand[s].pause
    /\ SetControl(s, "ai", "brain")
    /\ hand' = [hand EXCEPT ![s] = Free]
    /\ UNCHANGED <<brain, pushed, polling, ingest, op, checked, counts>>

\* A pause that is no handoff gets the source of a pause, if the brain has it.
\* This read and write are taken as one step.
Pause(s) ==
    /\ s \in Guarded
    /\ hand[s].pc = "settle" /\ hand[s].pause
    /\ IF ctl[s].source \in {"brain", "brain_pause"}
       THEN SetControl(s, "human", "brain_pause")
       ELSE UNCHANGED <<ctl, late>>
    /\ hand' = [hand EXCEPT ![s] = Free]
    /\ UNCHANGED <<brain, pushed, polling, ingest, op, checked, counts>>

-----------------------------------------------------------------------------
(* The thread "brain-drafts". *)

PollFree == hand["poll"].pc = "idle"

\* sync_brain_handoffs asks for the pages, ...
PollBegins ==
    /\ pc = "idle" /\ PollFree
    /\ pc' = "fetching" /\ todo' = Sessions /\ remote' = {}
    /\ UNCHANGED <<ctl, brain, pushed, hand, ingest, op, checked, late, counts>>

\* ... each of which shows its conversations at another moment, ...
FetchPage(s) ==
    /\ pc = "fetching" /\ s \in todo
    /\ remote' = IF brain[s].handoff THEN remote \cup {s} ELSE remote
    /\ todo' = todo \ {s}
    /\ UNCHANGED <<ctl, brain, pushed, hand, pc, ingest, op, checked, late,
                   counts>>

PollFails ==
    /\ pc = "fetching" /\ failures < MaxFailures
    /\ failures' = failures + 1
    /\ pc' = "idle" /\ todo' = {} /\ remote' = {}
    /\ UNCHANGED <<ctl, brain, pushed, hand, ingest, op, checked, late, changes,
                   switches, keywords, answers>>

PollAnswered ==
    /\ pc = "fetching" /\ todo = {}
    /\ pc' = "on" /\ todo' = remote
    /\ UNCHANGED <<ctl, brain, pushed, hand, remote, ingest, op, checked, late,
                   counts>>

\* ... and applies what it learned to one conversation after the other.
PollTells(s) ==
    /\ pc \in {"on", "off"} /\ PollFree /\ s \in todo
    /\ hand' = [hand EXCEPT !["poll"] = Told(s, pc = "on", FALSE)]
    /\ todo' = todo \ {s}
    /\ UNCHANGED <<ctl, brain, pushed, pc, remote, ingest, op, checked, late,
                   counts>>

\* Slip: the controls are compared with the table's guarded accounts only.
GuardedControls == {s \in Guarded : Human(ctl[s]) /\ ctl[s].source = "brain"}

\* brain_handoff_controls: the holds the poll may end.
HandoffControls ==
    {s \in Sessions :
        /\ Human(ctl[s])
        /\ \/ ctl[s].source = "brain"
           \/ ctl[s].source = "automatic" /\ s \in Guarded}

PollCompares ==
    /\ pc = "on" /\ PollFree /\ todo = {}
    /\ pc' = "off" /\ todo' = HandoffControls \ remote
    /\ UNCHANGED <<ctl, brain, pushed, hand, remote, ingest, op, checked, late,
                   counts>>

PollEnds ==
    /\ pc = "off" /\ PollFree /\ todo = {}
    /\ pc' = "idle" /\ remote' = {}
    /\ UNCHANGED <<ctl, brain, pushed, hand, todo, ingest, op, checked, late,
                   counts>>

\* sync_session_drafts: the payload of a watched conversation carries its
\* handoff too.
DraftSync(s) ==
    /\ pc = "idle" /\ PollFree
    /\ hand' = [hand EXCEPT !["poll"] = Told(s, brain[s].handoff, FALSE)]
    /\ UNCHANGED <<ctl, brain, pushed, polling, ingest, op, checked, late,
                   counts>>

-----------------------------------------------------------------------------
(* execute_command: send_text. *)

\* Slip: the control is read when the command was pulled, long before.
CheckStale(x, s) ==
    /\ answers < MaxAnswers
    /\ checked[x] = Nothing
    /\ checked' = [checked EXCEPT ![x] = s]
    /\ answers' = answers + 1
    /\ UNCHANGED <<ctl, brain, pushed, hand, polling, ingest, op, late, changes,
                   switches, keywords, failures>>

\* Ordinary accounts only: a command of a held conversation is blocked.
Check(x, s) ==
    /\ answers < MaxAnswers
    /\ checked[x] = Nothing
    /\ s \in Ordinary /\ ~Human(ctl[s])
    /\ checked' = [checked EXCEPT ![x] = s]
    /\ answers' = answers + 1
    /\ UNCHANGED <<ctl, brain, pushed, hand, polling, ingest, op, late, changes,
                   switches, keywords, failures>>

Answer(x) ==
    LET s == checked[x] IN
    /\ s # Nothing
    /\ late' = IF Held(ctl[s]) THEN [late EXCEPT ![s][x] = @ + 1] ELSE late
    /\ checked' = [checked EXCEPT ![x] = Nothing]
    /\ UNCHANGED <<ctl, brain, pushed, hand, polling, ingest, op, counts>>

-----------------------------------------------------------------------------

Next ==
    \/ \E s \in Sessions :
         \/ \E b \in [handoff : BOOLEAN, paused : BOOLEAN] : BrainDecides(s, b)
         \/ \E ai \in BOOLEAN : SwitchAsked(s, ai)
         \/ KeywordSeen(s) \/ Expire(s)
         \/ StateCommand(s) \/ Resume(s) \/ Pause(s)
         \/ FetchPage(s) \/ PollTells(s) \/ DraftSync(s)
         \/ \E x \in Executors : Check(x, s)
    \/ SwitchConfirmed \/ SwitchRefused \/ KeywordHolds
    \/ \E p \in Appliers : Look(p) \/ Apply(p)
    \/ PollBegins \/ PollFails \/ PollAnswered \/ PollCompares \/ PollEnds
    \/ \E x \in Executors : Answer(x)

Spec == Init /\ [][Next]_vars

\* Threads run, time passes for holds that expire, and the poll's turn comes
\* round between the draft syncs of its thread.
Fairness ==
    /\ WF_vars(SwitchConfirmed \/ SwitchRefused)
    /\ WF_vars(KeywordHolds)
    /\ \A s \in Sessions :
         /\ WF_vars(Expire(s))
         /\ WF_vars(StateCommand(s)) /\ WF_vars(Resume(s) \/ Pause(s))
         /\ WF_vars(PollTells(s))
         /\ WF_vars(FetchPage(s))
    /\ \A p \in Appliers : WF_vars(Look(p)) /\ WF_vars(Apply(p))
    /\ SF_vars(PollBegins) /\ WF_vars(PollAnswered)
    /\ WF_vars(PollCompares) /\ WF_vars(PollEnds)
    /\ \A x \in Executors : WF_vars(Answer(x))
FairSpec == Spec /\ Fairness

-----------------------------------------------------------------------------
(* Properties. *)

\* A thread is about to write s from a control that is no longer the row.
Outdated(s) ==
    \/ \E p \in Appliers : /\ hand[p].s = s
                           /\ hand[p].pc = "seen" /\ hand[p].seen # ctl[s]
    \/ ingest.s = s /\ ingest.seen # ctl[s]

OperatorGaveBack(s) == op.pc = "asked" /\ op.s = s /\ op'.pc = "idle"

\* In an ordinary account an operator's hold ends by the operator's own switch,
\* or else by a thread that had looked before the hold began: a handoff, a
\* release or a keyword that looks at a held conversation leaves it alone
\* (apply_brain_handoff, ingest_event).
HoldEndsByOperator ==
    [][\A s \in Ordinary : Held(ctl[s]) /\ ~Held(ctl'[s]) =>
          OperatorGaveBack(s) \/ Outdated(s)]_vars

\* After the operator has taken a conversation over, each executor hands over
\* at most the one answer it had checked before (execute_command looks at the
\* control and then sends).
LateAnswersBounded ==
    \A s \in Ordinary, x \in Executors : late[s][x] =< 1

\* When the brain has handed a conversation over and stays with it, the
\* conversation ends up with a human: a release or expiry in between, and a
\* poll that failed or read too early, are made up for by a later poll.
HandoffArrives ==
    \A s \in Sessions :
        <>[](brain[s].handoff /\ ~brain[s].paused) => []<>Human(ctl[s])

\* When the brain has released a conversation and stays with it, no hold of the
\* brain's remains in the table.
ReleaseArrives ==
    \A s \in Sessions :
        <>[](~brain[s].handoff /\ ~brain[s].paused) =>
            <>[](ctl[s] # [mode |-> "human", source |-> "brain"])
=============================================================================
