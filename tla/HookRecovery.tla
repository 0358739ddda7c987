---------------------------- MODULE HookRecovery ----------------------------
(* The stages hook_recovery.py goes through while no page of Qianniu has the *)
(* message SDK hooked: wait, retry, open a chat page, ask a human, and the   *)
(* repair the human authorises.  One thread runs tick, another shows the     *)
(* reminder and carries out its answer; both write the same fields.          *)
(*                                                                           *)
(* Times are ages in units of the clock that stop growing at Forever; a      *)
(* status is stored with the age of its moment.                              *)
EXTENDS Naturals

CONSTANTS
    Grace,          \* imsdk_hook_grace_seconds
    RetryInterval,  \* RETRY_INTERVAL
    OpenChatAfter,  \* OPEN_CHAT_AFTER
    Remind,         \* imsdk_hook_remind_interval_minutes
    Downgraded,     \* PROMPT_DOWNGRADE_INTERVAL
    DowngradeAfter, \* PROMPT_DOWNGRADE_AFTER
    Snooze,         \* what "30 minutes" buys
    Window,         \* the reminder closes itself: 120 s
    RestartAllowed, \* cdp_restart_enabled
    Forever         \* bound: ages beyond it are all alike

\* What the connected pages report: is there a chat page, is one hooked.
Views == [chat : BOOLEAN, pages : BOOLEAN, hooked : BOOLEAN]

VARIABLES
    view,       \* what diagnostics_by_connection would show now
    pc,         \* tick: where it is
    stage, recovered, needsHuman, humanAction,
    age,        \* since the start
    retryAge,   \* since last_retry_at
    promptAge,  \* since last_prompt_at; Forever if there was none
    snoozed,    \* time left of the snooze
    prompts,    \* prompts_shown, up to DowngradeAfter
    openTried,  \* stage2_attempted
    attempted,  \* recovery_attempted
    thread      \* the reminder: "none", "starting", "open", "repairing"

vars == <<view, pc, stage, recovered, needsHuman, humanAction, age, retryAge,
          promptAge, snoozed, prompts, openTried, attempted, thread>>
ages == <<age, retryAge, promptAge, snoozed>>
marks == <<stage, recovered, needsHuman, humanAction>>

TypeOK ==
    /\ view \in Views
    /\ pc \in {"idle", "retry", "open", "ask", "alive"}
    /\ stage \in 0 .. 4
    /\ recovered \in BOOLEAN /\ needsHuman \in BOOLEAN
    /\ humanAction \in {"none", "authorize_cdp", "open_reception_window"}
    /\ age \in 0 .. Forever /\ retryAge \in 0 .. Forever
    /\ promptAge \in 0 .. Forever /\ snoozed \in 0 .. Snooze
    /\ prompts \in 0 .. DowngradeAfter
    /\ openTried \in BOOLEAN /\ attempted \in BOOLEAN
    /\ thread \in {"none", "starting", "open", "repairing"}

Init ==
    /\ view = [chat |-> FALSE, pages |-> FALSE, hooked |-> FALSE]
    /\ pc = "idle"
    /\ stage = 0 /\ recovered = FALSE /\ needsHuman = FALSE
    /\ humanAction = "none"
    /\ age = 0 /\ retryAge = Forever /\ promptAge = Forever /\ snoozed = 0
    /\ prompts = 0
    /\ openTried = FALSE /\ attempted = FALSE
    /\ thread = "none"

-----------------------------------------------------------------------------
(* The world: pages come, load anew and go, and time passes. *)

orders_capable == view.hooked

ViewChanges(v) ==
    /\ v # view
    /\ v.hooked \/ v.chat => v.pages
    /\ view' = v
    /\ UNCHANGED <<pc, marks, ages, prompts, openTried, attempted, thread>>

Older(a) == IF a < Forever THEN a + 1 ELSE a

\* The open reminder closes itself in time.
TimePasses ==
    /\ thread = "open" => promptAge < Window
    /\ age' = Older(age) /\ retryAge' = Older(retryAge)
    /\ promptAge' = Older(promptAge)
    /\ snoozed' = IF snoozed > 0 THEN snoozed - 1 ELSE 0
    /\ UNCHANGED <<view, pc, marks, prompts, openTried, attempted, thread>>

-----------------------------------------------------------------------------
(* tick, five seconds after the last: by then a reminder's thread has begun. *)

Begins == pc = "idle" /\ thread # "starting"

\* Slip: the stage stands for the loss.
RecoveredByStage ==
    /\ Begins
    /\ orders_capable
    /\ IF stage = 0
       THEN UNCHANGED marks
       ELSE /\ recovered' = TRUE /\ stage' = 0
            /\ needsHuman' = FALSE /\ humanAction' = "none"
    /\ UNCHANGED <<view, pc, ages, prompts, openTried, attempted, thread>>

Recovered ==
    /\ Begins
    /\ orders_capable
    /\ IF recovered
       THEN UNCHANGED marks
       ELSE /\ recovered' = TRUE /\ stage' = 0
            /\ needsHuman' = FALSE /\ humanAction' = "none"
    /\ UNCHANGED <<view, pc, ages, prompts, openTried, attempted, thread>>

\* Nothing is hooked; within the grace period that is only noted.
Lost ==
    /\ Begins
    /\ ~orders_capable
    /\ recovered' = FALSE
    /\ IF age < Grace
       THEN stage' = 0 /\ UNCHANGED <<pc, retryAge>>
       ELSE /\ stage' = IF stage < 1 THEN 1 ELSE stage
            /\ retryAge' = IF stage < 1 THEN Forever ELSE retryAge
            /\ pc' = "retry"
    /\ UNCHANGED <<view, needsHuman, humanAction, age, promptAge, snoozed,
                   prompts, openTried, attempted, thread>>

\* probe_frames, rehook_pages and hook_frames ask the pages, which may hook.
Retry(helps) ==
    /\ pc = "retry"
    /\ IF retryAge < RetryInterval
       THEN ~helps /\ UNCHANGED <<view, retryAge>>
       ELSE /\ retryAge' = 0
            /\ helps => view.pages
            /\ view' = IF helps THEN [view EXCEPT !.hooked = TRUE] ELSE view
    /\ pc' = IF view'.hooked /\ retryAge >= RetryInterval THEN "idle" ELSE "open"
    /\ UNCHANGED <<marks, age, promptAge, snoozed, prompts, openTried, attempted,
                   thread>>

OpenChatDue == ~view.chat /\ ~openTried /\ age >= Grace + OpenChatAfter

\* Stage 2, once: auto_open_recent_conversation, and if that leaves no page
\* hooked, navigate_to_chat_page.
OpenChatPage(v) ==
    /\ pc = "open" /\ OpenChatDue
    /\ v \in {view, [chat |-> TRUE, pages |-> TRUE, hooked |-> TRUE]}
    /\ view' = v
    /\ stage' = 2
    /\ openTried' = TRUE
    /\ pc' = "ask"
    /\ UNCHANGED <<recovered, needsHuman, humanAction, ages, prompts, attempted,
                   thread>>

NoChatPageDue ==
    /\ pc = "open" /\ ~OpenChatDue
    /\ pc' = "ask"
    /\ UNCHANGED <<view, marks, ages, prompts, openTried, attempted, thread>>

PromptInterval ==
    IF prompts >= DowngradeAfter /\ Downgraded > Remind THEN Downgraded
                                                        ELSE Remind

\* Slip: a snooze only counts until the next interval.
PromptDueUnsnoozed == promptAge >= PromptInterval

should_prompt == snoozed = 0 /\ promptAge >= PromptInterval

\* Slip: a human is only asked for where a reminder is shown.
AskSilently(buyers) ==
    /\ pc = "ask"
    /\ needsHuman' = (needsHuman \/ (should_prompt /\ buyers))
    /\ stage' = IF should_prompt THEN 3 ELSE stage
    /\ pc' = IF should_prompt /\ buyers THEN "alive" ELSE "idle"
    /\ UNCHANGED <<view, recovered, humanAction, ages, prompts, openTried,
                   attempted, thread>>

\* Stage 3.  A shop without recent buyers is left in peace (_buyer_active).
Ask(buyers) ==
    /\ pc = "ask"
    /\ needsHuman' = TRUE
    /\ stage' = IF should_prompt THEN 3 ELSE stage
    /\ pc' = IF should_prompt /\ buyers THEN "alive" ELSE "idle"
    /\ UNCHANGED <<view, recovered, humanAction, ages, prompts, openTried,
                   attempted, thread>>

StartPrompt ==
    /\ pc = "alive"
    /\ thread' = IF thread = "none" THEN "starting" ELSE thread
    /\ pc' = "idle"
    /\ UNCHANGED <<view, marks, ages, prompts, openTried, attempted>>

-----------------------------------------------------------------------------
(* The reminder's thread. *)

\* prompt_now.
Show ==
    /\ thread = "starting"
    /\ thread' = "open"
    /\ prompts' = IF prompts < DowngradeAfter THEN prompts + 1 ELSE prompts
    /\ promptAge' = 0
    /\ stage' = 3
    /\ needsHuman' = TRUE
    /\ UNCHANGED <<view, pc, recovered, humanAction, age, retryAge, snoozed,
                   openTried, attempted>>

\* apply_answer, all but the authorisation.
Answered(a) ==
    /\ thread = "open"
    /\ a \in {"handled", "snooze", "ignored"}
    /\ promptAge' = 0
    /\ snoozed' = IF a = "snooze" THEN Snooze ELSE snoozed
    /\ thread' = "none"
    /\ UNCHANGED <<view, pc, marks, age, retryAge, prompts, openTried,
                   attempted>>

\* authorize_repair: once in the life of the process, and with a restart of the
\* client only where the policy allows it.
Authorized ==
    /\ thread = "open"
    /\ promptAge' = 0
    /\ stage' = 4
    /\ humanAction' = IF attempted \/ RestartAllowed THEN "authorize_cdp"
                                                     ELSE "open_reception_window"
    /\ thread' = IF ~attempted /\ RestartAllowed THEN "repairing" ELSE "none"
    /\ attempted' = TRUE
    /\ UNCHANGED <<view, pc, recovered, needsHuman, age, retryAge, snoozed,
                   prompts, openTried>>

\* restart_with_debug_port: the pages are gone; they come back hooked, or not.
RepairEnds(ok) ==
    /\ thread = "repairing"
    /\ view' = [chat |-> ok, pages |-> ok, hooked |-> ok]
    /\ humanAction' = IF ok THEN humanAction ELSE "authorize_cdp"
    /\ thread' = "none"
    /\ UNCHANGED <<pc, stage, recovered, needsHuman, ages, prompts, openTried,
                   attempted>>

-----------------------------------------------------------------------------

Next ==
    \/ \E v \in Views : ViewChanges(v) \/ OpenChatPage(v)
    \/ TimePasses
    \/ Recovered \/ Lost \/ NoChatPageDue \/ StartPrompt \/ Show \/ Authorized
    \/ \E b \in BOOLEAN : Retry(b) \/ Ask(b) \/ RepairEnds(b)
    \/ \E a \in {"handled", "snooze", "ignored"} : Answered(a)

Spec == Init /\ [][Next]_vars

\* Both threads run and time passes; what pages and humans do is their own.
Fairness ==
    /\ WF_vars(Recovered) /\ WF_vars(Lost)
    /\ WF_vars(\E b \in BOOLEAN : Retry(b))
    /\ WF_vars(NoChatPageDue \/ \E v \in Views : OpenChatPage(v))
    /\ WF_vars(\E b \in BOOLEAN : Ask(b)) /\ WF_vars(StartPrompt)
    /\ WF_vars(Show) /\ WF_vars(Answered("ignored"))
    /\ WF_vars(\E b \in BOOLEAN : RepairEnds(b))
    /\ WF_vars(TimePasses)
FairSpec == Spec /\ Fairness

-----------------------------------------------------------------------------
(* Properties. *)

\* "限频/夜间静默/降频" (hook_recovery.py:8): the reminder is never shown within
\* the interval since the last one or its answer, nor during a snooze, although
\* the decision and the window are in different threads.
PromptsSpaced ==
    [][thread = "starting" /\ thread' = "open" =>
          snoozed = 0 /\ promptAge >= PromptInterval]_vars

\* When hooking is lost for good, the status says so and keeps saying so: a
\* human is asked for, in the reminder or in needs_human, whatever stage the
\* other thread put the fields in.
LossIsReported == <>[]~orders_capable => <>[](needsHuman /\ ~recovered)

\* When a page stays hooked, the stages come to rest and no human is asked for,
\* whatever a reminder begun before that has set.
RecoveryIsNoticed == <>[]orders_capable => <>[](recovered /\ ~needsHuman)
=============================================================================
