----------------------------- MODULE CommandPool -----------------------------
(* Commands of the center: the durable table "brain_commands", the pool of   *)
(* sender threads of BrainConnector, and the two threads that receive        *)
(* commands, the poller and the WebSocket's, which execute one themselves    *)
(* when the pool's queue is full.                                            *)
(*                                                                           *)
(* A send goes through the receipts of StandaloneBridge.send_text, of which  *)
(* this module uses only what SendOutcome promises.                          *)
EXTENDS CommandSetting, SequencesExt

VARIABLES
    row,        \* status of each command in "brain_commands"
    result,     \* its stored result
    age,        \* the commands of the table by updated_at, the oldest first
    queue,      \* the pool's queue
    pc,         \* where each thread stands in handle_command
    cmd, res,   \* the command a thread handles and the result in its hands
    todo,       \* results that retry_command_results read and has yet to report
    receipt, copies,    \* the send receipts and what Qianniu accepted
    opened,     \* how often a conversation was opened for a command
    center,     \* the last result of each command that the center took
    arrived,    \* commands in the order in which they first arrived
    crashes

table    == <<row, result, age>>
threads  == <<pc, cmd, res, todo>>
receipts == <<receipt, copies>>
outside  == <<opened, center, arrived>>
vars     == <<row, result, age, queue, pc, cmd, res, todo, receipt, copies,
              opened, center, arrived, crashes>>

Receipts == INSTANCE SendOutcome WITH Requests <- Sends

Results == {"open", "confirmed", "unknown", "rejected",  \* a send's receipt
            "blocked", "opened", "indeterminate"}

TypeOK ==
    /\ row \in [Commands -> {"none", "in_flight", "result_pending", "acknowledged"}]
    /\ result \in [Commands -> Results \cup {"none"}]
    /\ age \in Seq(Commands) /\ queue \in Seq(Commands) /\ arrived \in Seq(Commands)
    /\ \A i, j \in DOMAIN age : age[i] = age[j] => i = j
    /\ pc \in [Threads -> {"idle", "locking", "claiming", "executing", "native",
                           "storing", "renewing", "reporting", "retrying", "acking"}]
    /\ cmd \in [Threads -> Commands \cup {NoCommand}]
    /\ \A t \in Threads : pc[t] = "idle" <=> cmd[t] = NoCommand
    /\ res \in [Threads -> Results \cup {"none"}]
    /\ todo \in Seq(Commands \X Results)
    /\ receipt \in [Sends -> {"none", "open", "confirmed", "unknown", "rejected"}]
    /\ copies \in [Sends -> {0, 1}]
    /\ opened \in [Chats -> Nat]
    /\ center \in [Commands -> Results \cup {"none"}]
    /\ crashes \in Nat

Init ==
    /\ row = [c \in Commands |-> "none"]
    /\ result = [c \in Commands |-> "none"]
    /\ age = <<>>
    /\ queue = <<>>
    /\ pc = [t \in Threads |-> "idle"]
    /\ cmd = [t \in Threads |-> NoCommand]
    /\ res = [t \in Threads |-> "none"]
    /\ todo = <<>>
    /\ Receipts!Init
    /\ opened = [c \in Chats |-> 0]
    /\ center = [c \in Commands |-> "none"]
    /\ arrived = <<>>
    /\ crashes = 0

-----------------------------------------------------------------------------
(* Helpers. *)

Elements(s) == {s[i] : i \in DOMAIN s}

\* The place of c in the order of the table.
Place(c) == CHOOSE i \in DOMAIN age : age[i] = c

\* The row of c is written now: it becomes the youngest.
Touch(c) ==
    LET others == IF c \in Elements(age) THEN RemoveAt(age, Place(c)) ELSE age
    IN  age' = Append(others, c)

\* Thread t goes on, with this result in its hands.
Goes(t, to, r) ==
    /\ pc' = [pc EXCEPT ![t] = to]
    /\ res' = [res EXCEPT ![t] = r]
    /\ UNCHANGED <<cmd, todo>>

\* Slip: a failed command stays in the hands of its thread.
RestsHolding(t) ==
    /\ pc' = [pc EXCEPT ![t] = "idle"]
    /\ res' = [res EXCEPT ![t] = "none"]
    /\ todo' = IF t = Poller THEN <<>> ELSE todo
    /\ UNCHANGED cmd

Rests(t) ==
    /\ pc' = [pc EXCEPT ![t] = "idle"]
    /\ cmd' = [cmd EXCEPT ![t] = NoCommand]
    /\ res' = [res EXCEPT ![t] = "none"]
    /\ todo' = IF t = Poller THEN <<>> ELSE todo

\* Thread t is inside handle_command for conversation k.  A worker that is has
\* the conversation's lock.
Busy(t, k) == /\ pc[t] \notin {"idle", "locking"}
              /\ ConvOf[cmd[t]] = k

-----------------------------------------------------------------------------
(* Receiving. *)

\* dispatch_command, for a command that a poll answers or the center pushes: it
\* is queued, or handled here and now if the queue is full.
Dispatch(t, c) ==
    /\ t \in Receivers /\ pc[t] = "idle"
    /\ arrived' = IF c \in Elements(arrived) THEN arrived ELSE Append(arrived, c)
    /\ IF Len(queue) < QueueMax
       THEN /\ Len(queue) < MaxWaiting
            /\ queue' = Append(queue, c)
            /\ UNCHANGED threads
       ELSE /\ pc' = [pc EXCEPT ![t] = "claiming"]
            /\ cmd' = [cmd EXCEPT ![t] = c]
            /\ UNCHANGED <<queue, res, todo>>
    /\ UNCHANGED <<table, receipts, opened, center, crashes>>

\* sender_worker_loop takes the next command, then its conversation's lock.
Take(w) ==
    /\ pc[w] = "idle" /\ queue # <<>>
    /\ queue' = Tail(queue)
    /\ pc' = [pc EXCEPT ![w] = "locking"]
    /\ cmd' = [cmd EXCEPT ![w] = Head(queue)]
    /\ UNCHANGED <<table, res, todo, receipts, outside, crashes>>

\* Slip: no lock.
LockIgnored(w) ==
    /\ pc[w] = "locking"
    /\ pc' = [pc EXCEPT ![w] = "claiming"]
    /\ UNCHANGED <<table, queue, cmd, res, todo, receipts, outside, crashes>>

Lock(w) ==
    /\ pc[w] = "locking"
    /\ \A v \in Workers \ {w} : ~Busy(v, ConvOf[cmd[w]])
    /\ pc' = [pc EXCEPT ![w] = "claiming"]
    /\ UNCHANGED <<table, queue, cmd, res, todo, receipts, outside, crashes>>

-----------------------------------------------------------------------------
(* handle_command. *)

\* Slip: a stored result is no reason not to execute.
ClaimAgain(t) ==
    LET c == cmd[t] IN
    /\ pc[t] = "claiming"
    /\ Touch(c)
    /\ row' = IF row[c] = "none" THEN [row EXCEPT ![c] = "in_flight"] ELSE row
    /\ IF row[c] = "acknowledged" THEN Rests(t) ELSE Goes(t, "executing", "none")
    /\ UNCHANGED <<result, queue, receipts, outside, crashes>>

\* claim_brain_command.  A new command is executed, and so is one that another
\* delivery left in flight; a stored result is reported again, under the lease
\* of this delivery if it has one; an acknowledged command is done.
Claim(t) ==
    LET c == cmd[t] IN
    /\ pc[t] = "claiming"
    /\ Touch(c)
    /\ row' = IF row[c] = "none" THEN [row EXCEPT ![c] = "in_flight"] ELSE row
    /\ \/ row[c] \in {"none", "in_flight"} /\ Goes(t, "executing", "none")
       \/ /\ row[c] = "result_pending"
          /\ \/ Goes(t, "renewing", result[c])
             \/ Goes(t, "reporting", result[c])
       \/ row[c] = "acknowledged" /\ Rests(t)
    /\ UNCHANGED <<result, queue, receipts, outside, crashes>>

\* execute_command finds the shop out of scope, the text unsafe, the session in
\* human hands, AI replies or remote opening off.
Refuse(t) ==
    /\ pc[t] = "executing"
    /\ Goes(t, "storing", "blocked")
    /\ UNCHANGED <<table, queue, receipts, outside, crashes>>

\* The request id of a send is made of its command id: the first call opens the
\* receipt and goes on to Qianniu, any other is answered with the receipt.
SendText(t) ==
    LET c == cmd[t] IN
    /\ pc[t] = "executing" /\ c \in Sends
    /\ \/ Receipts!Open(c) /\ Goes(t, "native", "none")
       \/ /\ receipt[c] # "none"
          /\ Goes(t, "storing", receipt[c])
          /\ UNCHANGED receipts
    /\ UNCHANGED <<table, queue, outside, crashes>>

HandOver(t) ==
    /\ pc[t] = "native"
    /\ Receipts!Deliver(cmd[t])
    /\ UNCHANGED <<table, queue, threads, outside, crashes>>

\* send_text returns the receipt or raises.
SendReturns(t) ==
    LET c == cmd[t] IN
    /\ pc[t] = "native"
    /\ \/ Goes(t, "storing", receipt[c])
       \/ receipt[c] \in {"unknown", "rejected"} /\ Goes(t, "storing", "indeterminate")
    /\ UNCHANGED <<table, queue, receipts, outside, crashes>>

\* open_conversation; what it raises may come before or after Qianniu opens it.
OpenChat(t) ==
    LET c == cmd[t] IN
    /\ pc[t] = "executing" /\ c \in Chats
    /\ \/ /\ opened' = [opened EXCEPT ![c] = @ + 1]
          /\ Goes(t, "storing", "opened") \/ Goes(t, "storing", "indeterminate")
       \/ Goes(t, "storing", "indeterminate") /\ UNCHANGED opened
    /\ UNCHANGED <<table, queue, receipts, center, arrived, crashes>>

\* The other writers of the receipts: callbacks, echoes, the expiry sweep.
ReceiptMoves ==
    /\ \/ \E r \in Sends : \/ Receipts!Recall(r) \/ Receipts!Reject(r)
                           \/ Receipts!Confirm(r)
       \/ \E S \in SUBSET Sends : Receipts!GiveUp(S)
    /\ UNCHANGED <<table, queue, threads, outside, crashes>>

\* Slip: the result is reported first.
StoreNothing(t) ==
    /\ pc[t] \in {"storing", "renewing"}
    /\ Goes(t, "reporting", res[t])
    /\ UNCHANGED <<table, queue, receipts, outside, crashes>>

\* store_brain_command_result, once for the result and once more with the lease
\* of this delivery, if it has one.
Store(t) ==
    LET c == cmd[t] IN
    /\ pc[t] \in {"storing", "renewing"}
    /\ row' = [row EXCEPT ![c] = "result_pending"]
    /\ result' = [result EXCEPT ![c] = res[t]]
    /\ Touch(c)
    /\ \/ pc[t] = "storing" /\ Goes(t, "renewing", res[t])
       \/ Goes(t, "reporting", res[t])
    /\ UNCHANGED <<queue, receipts, outside, crashes>>

\* report_command_result: the center has taken the result.
Report(t) ==
    LET c == cmd[t] IN
    /\ pc[t] \in {"reporting", "retrying"} /\ c \notin Refused
    /\ center' = [center EXCEPT ![c] = res[t]]
    /\ Goes(t, "acking", res[t])
    /\ UNCHANGED <<table, queue, receipts, opened, arrived, crashes>>

\* The poller's retries go on with the next result they read.
NextResult(t) ==
    IF t = Poller /\ todo # <<>>
    THEN /\ pc' = [pc EXCEPT ![t] = "retrying"]
         /\ cmd' = [cmd EXCEPT ![t] = Head(todo)[1]]
         /\ res' = [res EXCEPT ![t] = Head(todo)[2]]
         /\ todo' = Tail(todo)
    ELSE Rests(t)

\* Slip: UPDATE ... WHERE status='in_flight'.
AcknowledgeInFlight(t) ==
    LET c == cmd[t] IN
    /\ pc[t] = "acking"
    /\ row' = IF row[c] = "in_flight" THEN [row EXCEPT ![c] = "acknowledged"] ELSE row
    /\ NextResult(t)
    /\ UNCHANGED <<result, age, queue, receipts, outside, crashes>>

\* acknowledge_brain_command, whatever status the row has.
Acknowledge(t) ==
    LET c == cmd[t] IN
    /\ pc[t] = "acking"
    /\ row' = [row EXCEPT ![c] = "acknowledged"]
    /\ NextResult(t)
    /\ UNCHANGED <<result, age, queue, receipts, outside, crashes>>

\* Slip: a report that failed counts as acknowledged.
ReportFailsAsAck(t) ==
    /\ pc[t] \in {"reporting", "retrying"}
    /\ row' = [row EXCEPT ![cmd[t]] = "acknowledged"]
    /\ Rests(t)
    /\ UNCHANGED <<result, age, queue, receipts, outside, crashes>>

\* The report raises: refused, lost, or its answer lost.  The row stays as it
\* is, for the retries, and a failing retry ends this round of them.  Only
\* handle_command notes the failure in the row.
ReportFails(t) ==
    LET c == cmd[t] IN
    /\ pc[t] \in {"reporting", "retrying"}
    /\ \/ UNCHANGED center
       \/ c \notin Refused /\ center' = [center EXCEPT ![c] = res[t]]
    /\ IF pc[t] = "reporting" /\ row[c] = "result_pending"
       THEN Touch(c) ELSE UNCHANGED age
    /\ Rests(t)
    /\ UNCHANGED <<row, result, queue, receipts, opened, arrived, crashes>>

\* retry_command_results, after a poll: the results that are pending, the oldest
\* first.  The limit of 10 is not reached by these instances.
Retry ==
    LET pending == {c \in Commands : row[c] = "result_pending"} IN
    /\ pc[Poller] = "idle"
    /\ \E n \in 1..Len(age) : \E due \in [1..n -> pending] :
          /\ Elements(due) = pending
          /\ \A i, j \in 1..n : i < j => Place(due[i]) < Place(due[j])
          /\ pc' = [pc EXCEPT ![Poller] = "retrying"]
          /\ cmd' = [cmd EXCEPT ![Poller] = due[1]]
          /\ res' = [res EXCEPT ![Poller] = result[due[1]]]
          /\ todo' = [i \in 1..n - 1 |-> <<due[i + 1], result[due[i + 1]]>>]
    /\ UNCHANGED <<table, queue, receipts, outside, crashes>>

\* The process ends and starts again.  The tables stay as they are.
Crash ==
    /\ crashes < MaxCrashes
    /\ crashes' = crashes + 1
    /\ queue' = <<>>
    /\ pc' = [t \in Threads |-> "idle"]
    /\ cmd' = [t \in Threads |-> NoCommand]
    /\ res' = [t \in Threads |-> "none"]
    /\ todo' = <<>>
    /\ UNCHANGED <<table, receipts, outside>>

-----------------------------------------------------------------------------
Work(w) == Take(w) \/ Lock(w)

\* A step of handle_command, or of a retry, that waits for nothing.
Handle(t) ==
    \/ Claim(t) \/ Refuse(t) \/ SendText(t) \/ SendReturns(t) \/ OpenChat(t)
    \/ Store(t) \/ Report(t) \/ Acknowledge(t) \/ ReportFails(t)

Next ==
    \/ \E t \in Threads : Handle(t) \/ HandOver(t)
    \/ \E w \in Workers : Work(w)
    \/ \E t \in Receivers, c \in Commands : Dispatch(t, c)
    \/ Retry \/ ReceiptMoves \/ Crash

Spec == Init /\ [][Next]_vars

(* Threads run; the poller retries after a poll, again and again unless every *)
(* poll ends in a failing report of its own; and the center takes a result it *)
(* does not refuse if it is reported again and again.                         *)
FairSpec ==
    /\ Spec
    /\ SF_vars(Retry)
    /\ \A w \in Workers : WF_vars(Take(w)) /\ SF_vars(Lock(w))
    /\ \A t \in Threads :
          /\ WF_vars(Handle(t)) /\ SF_vars(Report(t))

-----------------------------------------------------------------------------
(* What must hold. *)

\* While the queue never overflows, a stored result is final: no redelivery,
\* retry, renewed lease or crash makes the table say something else (comment
\* at dispatch_command: the locks of the conversations keep the order).
ResultIsFinal ==
    [][\A c \in Commands :
          row[c] \in {"result_pending", "acknowledged"} => result'[c] = result[c]]_result

\* What the center was told is in the table, inline executions included, so a
\* crash cannot make the command run again after its result went out.
ReportedIsDurable ==
    \A c \in Commands :
        center[c] # "none" => row[c] \in {"result_pending", "acknowledged"}

\* A command counts as acknowledged only after the center took a result of it.
AcknowledgedIsKnown ==
    \A c \in Commands : row[c] = "acknowledged" => center[c] # "none"

\* While the queue never overflows, the center took the very result in the
\* table.
CenterKnows ==
    \A c \in Commands :
        row[c] = "acknowledged" => center[c] = result[c] /\ result[c] # "none"

\* While the process has not crashed and the queue never overflows, a send that
\* is reported as blocked has no copy with the buyer: no redelivery or retry
\* decides anew on a command that was executed (claim_brain_command).
BlockedIsUnsent ==
    crashes = 0 => \A c \in Sends : result[c] = "blocked" => copies[c] = 0

\* Together: the result of a command is what the table says, for good, it is
\* what the center was told, and it is no refusal of what was done.
ResultStands == [](CenterKnows /\ BlockedIsUnsent) /\ ResultIsFinal

\* brain-workbench.md:13: a result is reported until the center has it.
ResultsArrive ==
    \A c \in Commands \ Refused :
        row[c] = "result_pending" ~> row[c] = "acknowledged"

-----------------------------------------------------------------------------
(* What the documentation says and the code does not keep. *)

\* brain-workbench.md:84: a repeated command invokes Qianniu once, also after a
\* restart.
ChatOpensOnce == \A c \in Chats : opened[c] <= 1

\* README.md:142 and the comment at dispatch_command: commands of one
\* conversation run in the order in which they came.
RunsInOrder ==
    \A i, j \in DOMAIN arrived :
        i < j /\ ConvOf[arrived[i]] = ConvOf[arrived[j]] /\ row[arrived[j]] # "none"
            => row[arrived[i]] # "none"
=============================================================================
