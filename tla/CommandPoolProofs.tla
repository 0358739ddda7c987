------------------------- MODULE CommandPoolProofs --------------------------
(* Proofs about CommandPool: the result of a command stands.  The first part  *)
(* assumes a queue that never overflows, and rests on the way in which        *)
(* commands of one conversation exclude each other.  What the center is told, *)
(* and the types, hold of any queue.                                          *)
EXTENDS CommandPool, TLAPS

Executing == {"executing", "native", "storing"}
Afterwards == {"renewing", "reporting", "retrying", "acking"}
Places == {"idle", "locking", "claiming"} \cup Executing \cup Afterwards
Durable(c) == row[c] \in {"result_pending", "acknowledged"}

\* What the proofs need of the types: nothing is said of the order of the table.
Types ==
    /\ row \in [Commands -> {"none", "in_flight", "result_pending", "acknowledged"}]
    /\ result \in [Commands -> Results \cup {"none"}]
    /\ queue \in Seq(Commands)
    /\ pc \in [Threads -> Places]
    /\ cmd \in [Threads -> Commands \cup {NoCommand}]
    /\ \A t \in Threads : pc[t] # "idle" => cmd[t] \in Commands
    /\ res \in [Threads -> Results \cup {"none"}]
    /\ todo \in Seq(Commands \X Results)
    /\ receipt \in [Sends -> {"none", "open", "confirmed", "unknown", "rejected"}]
    /\ copies \in [Sends -> {0, 1}]
    /\ center \in [Commands -> Results \cup {"none"}]
    /\ crashes \in Nat

\* No receiving thread executes a command.
OnlyReceives ==
    /\ Len(queue) <= MaxWaiting
    /\ \A t \in Receivers : pc[t] \in {"idle", "retrying", "acking"}

\* Two workers past their lock have commands of different conversations.
Apart ==
    \A v, w \in Workers :
        /\ v # w
        /\ pc[v] \notin {"idle", "locking"} /\ pc[w] \notin {"idle", "locking"}
        => ConvOf[cmd[v]] # ConvOf[cmd[w]]

\* What a thread has in its hands agrees with the table.
HandsAgree ==
    \A t \in Threads :
        /\ pc[t] \in Executing => row[cmd[t]] = "in_flight"
        /\ pc[t] = "native" => cmd[t] \in Sends /\ receipt[cmd[t]] # "none"
        /\ pc[t] = "storing" => res[t] # "none"
        /\ pc[t] \in Afterwards => Durable(cmd[t]) /\ res[t] = result[cmd[t]]
        /\ pc[t] = "acking" => center[cmd[t]] = result[cmd[t]]

\* So do the results that the poller read.
TodoAgrees ==
    \A i \in DOMAIN todo :
        Durable(todo[i][1]) /\ todo[i][2] = result[todo[i][1]]

\* A row has a result exactly once it is stored.
StoredHasResult == \A c \in Commands : Durable(c) <=> result[c] # "none"

\* A copy has a receipt.
CopyHasReceipt == \A c \in Sends : receipt[c] = "none" => copies[c] = 0

\* Until the first crash a command in flight is in the hands of a worker, and
\* one that was not sent, or refused, has no receipt.
FirstRun ==
    crashes = 0 =>
        /\ \A c \in Commands : row[c] = "in_flight" =>
              \E w \in Workers : cmd[w] = c /\ pc[w] \in Executing
        /\ \A c \in Sends :
              row[c] = "none" \/ result[c] = "blocked" => receipt[c] = "none"
        /\ \A t \in Threads :
              /\ cmd[t] \in Sends
              /\ pc[t] = "executing" \/ (pc[t] = "storing" /\ res[t] = "blocked")
              => receipt[cmd[t]] = "none"

Inv ==
    /\ Types /\ OnlyReceives /\ Apart /\ HandsAgree /\ TodoAgrees
    /\ StoredHasResult /\ CenterKnows /\ CopyHasReceipt /\ FirstRun

\* A thread that executes or reports what it executed is a worker, and no other
\* worker has its command.
LEMMA Alone ==
  ASSUME Inv, NEW t \in Threads,
         pc[t] \notin {"idle", "locking", "retrying", "acking"}
  PROVE  /\ t \in Workers /\ cmd[t] \in Commands
         /\ \A w \in Workers :
              w # t /\ pc[w] \notin {"idle", "locking"} => cmd[w] # cmd[t]
  <1>1. t \in Workers
    BY DEF Inv, OnlyReceives, Threads
  <1>2. cmd[t] \in Commands
    BY DEF Inv, Types
  <1>3. ASSUME NEW w \in Workers, w # t, pc[w] \notin {"idle", "locking"}
        PROVE  cmd[w] # cmd[t]
    BY <1>1, <1>3 DEF Inv, Apart
  <1> QED
    BY <1>1, <1>2, <1>3

\* The threads after one of them goes on or rests.
LEMMA GoesTypes ==
  ASSUME Types, NEW t \in Threads, pc[t] # "idle", NEW to \in Places,
         NEW r \in Results \cup {"none"}, Goes(t, to, r)
  PROVE  /\ pc' \in [Threads -> Places] /\ cmd' = cmd /\ todo' = todo
         /\ res' \in [Threads -> Results \cup {"none"}]
         /\ \A u \in Threads : pc'[u] # "idle" => cmd'[u] \in Commands
         /\ pc'[t] = to /\ res'[t] = r
         /\ \A u \in Threads \ {t} : pc'[u] = pc[u] /\ res'[u] = res[u]
  BY DEF Types, Goes

LEMMA RestsTypes ==
  ASSUME Types, NEW t \in Threads, Rests(t)
  PROVE  /\ pc' \in [Threads -> Places]
         /\ cmd' \in [Threads -> Commands \cup {NoCommand}]
         /\ res' \in [Threads -> Results \cup {"none"}]
         /\ todo' = todo \/ todo' = <<>>
         /\ \A u \in Threads : pc'[u] # "idle" => cmd'[u] \in Commands
         /\ pc'[t] = "idle" /\ cmd'[t] = NoCommand
         /\ \A u \in Threads \ {t} :
              pc'[u] = pc[u] /\ cmd'[u] = cmd[u] /\ res'[u] = res[u]
  BY DEF Types, Rests, Places

LEMMA InitHolds == Init => Inv
  <1> SUFFICES ASSUME Init PROVE Inv
    OBVIOUS
  <1>1. Types
    BY PoolAssumption DEF Init, Types, Receipts!Init, Places
  <1>2. OnlyReceives
    BY PoolAssumption DEF Init, OnlyReceives, Threads
  <1>3. Apart /\ HandsAgree /\ TodoAgrees
    BY DEF Init, Apart, HandsAgree, TodoAgrees, Threads, Executing, Afterwards
  <1>4. StoredHasResult /\ CenterKnows /\ CopyHasReceipt
    BY KindsAssumption DEF Init, StoredHasResult, CenterKnows, CopyHasReceipt,
       Durable, Receipts!Init
  <1>5. FirstRun
    BY KindsAssumption DEF Init, FirstRun, Receipts!Init, Commands
  <1> QED
    BY <1>1, <1>2, <1>3, <1>4, <1>5 DEF Inv

LEMMA ClaimKeeps ==
  ASSUME Inv, NEW t \in Threads, Claim(t) PROVE Inv'
  <1> DEFINE c == cmd[t]
  <1>1. /\ t \in Workers /\ c \in Commands /\ t # Poller /\ t \notin Receivers
        /\ \A w \in Workers :
              w # t /\ pc[w] \notin {"idle", "locking"} => cmd[w] # c
    BY Alone, ThreadsAssumption DEF Claim
  <1>2. row' = IF row[c] = "none" THEN [row EXCEPT ![c] = "in_flight"] ELSE row
    BY DEF Claim
  <1>3. UNCHANGED <<result, queue, receipt, copies, center, crashes, todo>>
    BY <1>1 DEF Claim, receipts, outside, Goes, Rests
  <1>4. \/ /\ row[c] \in {"none", "in_flight"}
           /\ Goes(t, "executing", "none")
        \/ /\ row[c] = "result_pending"
           /\ Goes(t, "renewing", result[c]) \/ Goes(t, "reporting", result[c])
        \/ row[c] = "acknowledged" /\ Rests(t)
    BY DEF Claim
  <1>5. Types /\ pc[t] # "idle" /\ result[c] \in Results \cup {"none"}
    BY <1>1 DEF Inv, Claim, Types
  <1>6. /\ pc' \in [Threads -> Places]
        /\ cmd' \in [Threads -> Commands \cup {NoCommand}]
        /\ res' \in [Threads -> Results \cup {"none"}]
        /\ \A u \in Threads : pc'[u] # "idle" => cmd'[u] \in Commands
        /\ \A u \in Threads \ {t} :
              pc'[u] = pc[u] /\ cmd'[u] = cmd[u] /\ res'[u] = res[u]
    <2>1. {"executing", "renewing", "reporting"} \subseteq Places
      BY DEF Places, Executing, Afterwards
    <2>2. CASE Rests(t)
      BY <1>5, <2>2, RestsTypes
    <2>3. CASE Goes(t, "executing", "none")
      BY <1>5, <2>1, <2>3, GoesTypes DEF Types
    <2>4. CASE Goes(t, "renewing", result[c]) \/ Goes(t, "reporting", result[c])
      BY <1>5, <2>1, <2>4, GoesTypes DEF Types
    <2> QED
      BY <1>4, <2>2, <2>3, <2>4
  <1>7. Types'
    BY <1>2, <1>3, <1>5, <1>6 DEF Types
  <1>8. OnlyReceives'
    BY <1>1, <1>3, <1>4 DEF Inv, OnlyReceives, Types, Goes, Rests, Threads
  <1>9. Apart'
    BY <1>1, <1>4 DEF Inv, Apart, Types, Goes, Rests, Threads, Claim
  <1>10. HandsAgree'
    BY <1>1, <1>2, <1>3, <1>4 DEF Inv, HandsAgree, Types, Goes, Rests, Threads, Executing,
       Afterwards, Durable
  <1>11. TodoAgrees' /\ StoredHasResult' /\ CenterKnows' /\ CopyHasReceipt'
    BY <1>1, <1>2, <1>3 DEF Inv, TodoAgrees, StoredHasResult, CenterKnows,
       CopyHasReceipt, Types, Durable
  <1>12. FirstRun'
    <2> SUFFICES ASSUME crashes = 0 PROVE FirstRun'
      BY <1>3 DEF FirstRun
    <2>1. row[c] # "in_flight"
      BY <1>1 DEF Inv, FirstRun, Claim, Executing
    <2>2. ASSUME NEW d \in Commands, row'[d] = "in_flight"
          PROVE  \E w \in Workers : cmd'[w] = d /\ pc'[w] \in Executing
      <3>1. CASE d = c
        <4>1. Goes(t, "executing", "none")
          BY <1>2, <1>4, <2>1, <2>2, <3>1
        <4> QED
          BY <1>1, <1>5, <3>1, <4>1 DEF Goes, Types, Executing, Threads
      <3>2. CASE d # c
        <4>1. row[d] = "in_flight"
          BY <1>2, <1>5, <2>2, <3>2 DEF Types
        <4>2. PICK w \in Workers : cmd[w] = d /\ pc[w] \in Executing
          BY <4>1 DEF Inv, FirstRun
        <4> QED
          BY <1>6, <3>2, <4>2 DEF Threads
      <3> QED
        BY <3>1, <3>2
    <2>3. ASSUME NEW d \in Sends, row'[d] = "none" \/ result'[d] = "blocked"
          PROVE  receipt'[d] = "none"
      BY <1>1, <1>2, <1>3, <2>3 DEF Inv, FirstRun, Types, Commands
    <2>4. ASSUME NEW u \in Threads, cmd'[u] \in Sends,
                 pc'[u] = "executing" \/ (pc'[u] = "storing" /\ res'[u] = "blocked")
          PROVE  receipt'[cmd'[u]] = "none"
      <3>1. CASE u = t
        <4>1. row[c] = "none" /\ cmd'[t] = c
          BY <1>4, <1>5, <2>1, <2>4, <3>1 DEF Goes, Rests, Types
        <4> QED
          BY <1>3, <2>4, <3>1, <4>1 DEF Inv, FirstRun
      <3>2. CASE u # t
        BY <1>3, <1>6, <2>4, <3>2 DEF Inv, FirstRun
      <3> QED
        BY <3>1, <3>2
    <2> QED
      BY <2>2, <2>3, <2>4 DEF FirstRun
  <1> QED
    BY <1>7, <1>8, <1>9, <1>10, <1>11, <1>12 DEF Inv

\* A thread that goes on keeps the types, the lock and the receiving threads.
LEMMA GoesKeeps ==
  ASSUME Inv, NEW t \in Threads, pc[t] \notin {"idle", "locking"},
         NEW to \in Executing \cup Afterwards, NEW r \in Results \cup {"none"},
         Goes(t, to, r), UNCHANGED queue, t \in Workers \/ to = "acking"
  PROVE  /\ pc' \in [Threads -> Places] /\ cmd' = cmd /\ todo' = todo
         /\ res' \in [Threads -> Results \cup {"none"}]
         /\ \A u \in Threads : pc'[u] # "idle" => cmd'[u] \in Commands
         /\ pc'[t] = to /\ res'[t] = r
         /\ \A u \in Threads \ {t} : pc'[u] = pc[u] /\ res'[u] = res[u]
         /\ OnlyReceives' /\ Apart'
  <1>1. Types /\ to \in Places
    BY DEF Inv, Places
  <1>2. /\ pc' \in [Threads -> Places] /\ cmd' = cmd /\ todo' = todo
        /\ res' \in [Threads -> Results \cup {"none"}]
        /\ \A u \in Threads : pc'[u] # "idle" => cmd'[u] \in Commands
        /\ pc'[t] = to /\ res'[t] = r
        /\ \A u \in Threads \ {t} : pc'[u] = pc[u] /\ res'[u] = res[u]
    BY <1>1, GoesTypes
  <1>3. OnlyReceives'
    BY <1>2, ThreadsAssumption DEF Inv, OnlyReceives, Threads
  <1>4. Apart'
    BY <1>2 DEF Inv, Apart, Threads
  <1> QED
    BY <1>2, <1>3, <1>4

\* A command was executed, refused or found with a receipt, and its result is
\* to be stored.
LEMMA ToStoring ==
  ASSUME Inv, NEW t \in Threads, pc[t] \in {"executing", "native"},
         NEW r \in Results, Goes(t, "storing", r),
         r = "blocked" => pc[t] = "executing",
         UNCHANGED <<row, result, queue, receipt, copies, center, crashes>>
  PROVE  Inv'
  <1>1. t \in Workers /\ cmd[t] \in Commands
    BY Alone
  <1>2. /\ pc' \in [Threads -> Places] /\ cmd' = cmd /\ todo' = todo
        /\ res' \in [Threads -> Results \cup {"none"}]
        /\ \A u \in Threads : pc'[u] # "idle" => cmd'[u] \in Commands
        /\ pc'[t] = "storing" /\ res'[t] = r
        /\ \A u \in Threads \ {t} : pc'[u] = pc[u] /\ res'[u] = res[u]
        /\ OnlyReceives' /\ Apart'
    BY <1>1, GoesKeeps DEF Executing
  <1>3. Types'
    BY <1>2 DEF Inv, Types
  <1>4. r # "none"
    BY DEF Results
  <1>5. HandsAgree'
    BY <1>2, <1>4 DEF Inv, HandsAgree, Executing, Afterwards, Durable
  <1>6. TodoAgrees' /\ StoredHasResult' /\ CenterKnows' /\ CopyHasReceipt'
    BY <1>2 DEF Inv, TodoAgrees, StoredHasResult, CenterKnows, CopyHasReceipt, Durable
  <1>7. FirstRun'
    <2> SUFFICES ASSUME crashes = 0 PROVE FirstRun'
      BY DEF FirstRun
    <2>1. ASSUME NEW d \in Commands, row'[d] = "in_flight"
          PROVE  \E w \in Workers : cmd'[w] = d /\ pc'[w] \in Executing
      <3>1. PICK w \in Workers : cmd[w] = d /\ pc[w] \in Executing
        BY <2>1 DEF Inv, FirstRun
      <3> QED
        BY <1>2, <3>1 DEF Threads, Executing
    <2>2. ASSUME NEW u \in Threads, cmd'[u] \in Sends,
                 pc'[u] = "executing" \/ (pc'[u] = "storing" /\ res'[u] = "blocked")
          PROVE  receipt'[cmd'[u]] = "none"
      BY <1>2, <2>2 DEF Inv, FirstRun
    <2> QED
      BY <2>1, <2>2 DEF Inv, FirstRun
  <1> QED
    BY <1>2, <1>3, <1>5, <1>6, <1>7 DEF Inv

LEMMA RefuseKeeps ==
  ASSUME Inv, NEW t \in Threads, Refuse(t) PROVE Inv'
  BY ToStoring DEF Refuse, Results, table, receipts, outside

LEMMA OpenChatKeeps ==
  ASSUME Inv, NEW t \in Threads, OpenChat(t) PROVE Inv'
  <1>1. PICK r \in {"opened", "indeterminate"} : Goes(t, "storing", r)
    BY DEF OpenChat
  <1> QED
    BY <1>1, ToStoring DEF OpenChat, Results, table, receipts

LEMMA SendReturnsKeeps ==
  ASSUME Inv, NEW t \in Threads, SendReturns(t) PROVE Inv'
  <1>1. /\ pc[t] = "native" /\ cmd[t] \in Sends
        /\ receipt[cmd[t]] \in Results \ {"blocked"}
    BY DEF SendReturns, Inv, HandsAgree, Types, Results
  <1>2. PICK r \in Results \ {"blocked"} : Goes(t, "storing", r)
    BY <1>1 DEF SendReturns, Results
  <1> QED
    BY <1>1, <1>2, ToStoring DEF SendReturns, table, receipts, outside

\* The receipts move, and the one of a worker that is handing over its text.
LEMMA ReceiptsMove ==
  ASSUME Inv, UNCHANGED <<row, result, queue, pc, cmd, res, todo, center, crashes>>,
         receipt' \in [Sends -> {"none", "open", "confirmed", "unknown", "rejected"}],
         copies' \in [Sends -> {0, 1}],
         \A c \in Sends : receipt'[c] = "none" <=> receipt[c] = "none",
         \A c \in Sends : receipt[c] = "none" => copies'[c] = 0
  PROVE  Inv'
  <1>1. Types' /\ OnlyReceives' /\ Apart'
    BY DEF Inv, Types, OnlyReceives, Apart
  <1>2. HandsAgree' /\ TodoAgrees' /\ StoredHasResult' /\ CenterKnows'
    BY DEF Inv, HandsAgree, TodoAgrees, StoredHasResult, CenterKnows, Durable
  <1>3. CopyHasReceipt' /\ FirstRun'
    BY DEF Inv, CopyHasReceipt, FirstRun
  <1> QED
    BY <1>1, <1>2, <1>3 DEF Inv

LEMMA HandOverKeeps ==
  ASSUME Inv, NEW t \in Threads, HandOver(t) PROVE Inv'
  <1>1. cmd[t] \in Sends /\ receipt[cmd[t]] # "none"
    BY DEF HandOver, Inv, HandsAgree
  <1>2. copies' = [copies EXCEPT ![cmd[t]] = 1] /\ UNCHANGED receipt
    BY DEF HandOver, Receipts!Deliver
  <1>3. UNCHANGED <<row, result, queue, pc, cmd, res, todo, center, crashes>>
    BY DEF HandOver, table, threads, outside
  <1>4. /\ copies' \in [Sends -> {0, 1}]
        /\ \A c \in Sends : receipt[c] = "none" => copies'[c] = 0
    BY <1>1, <1>2 DEF Inv, Types, CopyHasReceipt
  <1>5. receipt' \in [Sends -> {"none", "open", "confirmed", "unknown", "rejected"}]
    BY <1>2 DEF Inv, Types
  <1> QED
    BY <1>2, <1>3, <1>4, <1>5, ReceiptsMove

LEMMA ReceiptMovesKeep == Inv /\ ReceiptMoves => Inv'
  <1> SUFFICES ASSUME Inv, ReceiptMoves PROVE Inv'
    OBVIOUS
  <1>1. UNCHANGED <<row, result, queue, pc, cmd, res, todo, center, crashes>>
    BY DEF ReceiptMoves, table, threads, outside
  <1>2. /\ receipt \in [Sends -> {"none", "open", "confirmed", "unknown", "rejected"}]
        /\ copies \in [Sends -> {0, 1}]
        /\ \A c \in Sends : receipt[c] = "none" => copies[c] = 0
    BY DEF Inv, Types, CopyHasReceipt
  <1>3. /\ receipt' \in [Sends -> {"none", "open", "confirmed", "unknown", "rejected"}]
        /\ copies' \in [Sends -> {0, 1}]
        /\ \A c \in Sends : receipt'[c] = "none" <=> receipt[c] = "none"
        /\ \A c \in Sends : receipt[c] = "none" => copies'[c] = 0
    <2>1. CASE \E r \in Sends : Receipts!Recall(r)
      BY <1>2, <2>1 DEF Receipts!Recall
    <2>2. CASE \E r \in Sends : Receipts!Reject(r) \/ Receipts!Confirm(r)
      BY <1>2, <2>2 DEF Receipts!Reject, Receipts!Confirm
    <2>3. CASE \E S \in SUBSET Sends : Receipts!GiveUp(S)
      BY <1>2, <2>3 DEF Receipts!GiveUp
    <2> QED
      BY <2>1, <2>2, <2>3 DEF ReceiptMoves
  <1> QED
    BY <1>1, <1>3, ReceiptsMove

LEMMA SendTextKeeps ==
  ASSUME Inv, NEW t \in Threads, SendText(t) PROVE Inv'
  <1> DEFINE c == cmd[t]
  <1>1. /\ t \in Workers /\ c \in Sends /\ row[c] = "in_flight"
        /\ \A w \in Workers :
              w # t /\ pc[w] \notin {"idle", "locking"} => cmd[w] # c
    BY Alone DEF SendText, Inv, HandsAgree, Executing
  <1>2. UNCHANGED <<row, result, queue, center, crashes>>
    BY DEF SendText, table, outside
  <1>3. CASE receipt[c] # "none" /\ Goes(t, "storing", receipt[c]) /\ UNCHANGED receipts
    <2>1. receipt[c] \in Results \ {"blocked"}
      BY <1>1, <1>3 DEF Inv, Types, Results
    <2> QED
      BY <1>2, <1>3, <2>1, ToStoring DEF SendText, receipts
  <1>4. CASE Receipts!Open(c) /\ Goes(t, "native", "none")
    <2>1. /\ receipt[c] = "none" /\ UNCHANGED copies
          /\ receipt' = [receipt EXCEPT ![c] = "open"]
      BY <1>4 DEF Receipts!Open
    <2>2. /\ pc' \in [Threads -> Places] /\ cmd' = cmd /\ todo' = todo
          /\ res' \in [Threads -> Results \cup {"none"}]
          /\ \A u \in Threads : pc'[u] # "idle" => cmd'[u] \in Commands
          /\ pc'[t] = "native" /\ res'[t] = "none"
          /\ \A u \in Threads \ {t} : pc'[u] = pc[u] /\ res'[u] = res[u]
          /\ OnlyReceives' /\ Apart'
      BY <1>1, <1>2, <1>4, GoesKeeps DEF Executing, SendText
    <2>3. /\ receipt' \in [Sends -> {"none", "open", "confirmed", "unknown", "rejected"}]
          /\ receipt'[c] # "none"
          /\ \A d \in Sends \ {c} : receipt'[d] = receipt[d]
      BY <1>1, <2>1 DEF Inv, Types
    <2>4. Types'
      BY <1>2, <2>1, <2>2, <2>3 DEF Inv, Types
    <2>5. HandsAgree'
      BY <1>1, <1>2, <2>2, <2>3 DEF Inv, HandsAgree, Executing, Afterwards, Durable, SendText
    <2>6. TodoAgrees' /\ StoredHasResult' /\ CenterKnows' /\ CopyHasReceipt'
      BY <1>2, <2>1, <2>2, <2>3
      DEF Inv, TodoAgrees, StoredHasResult, CenterKnows, CopyHasReceipt, Durable
    <2>7. FirstRun'
      <3> SUFFICES ASSUME crashes = 0 PROVE FirstRun'
        BY <1>2 DEF FirstRun
      <3>1. ASSUME NEW d \in Commands, row'[d] = "in_flight"
            PROVE  \E w \in Workers : cmd'[w] = d /\ pc'[w] \in Executing
        <4>1. PICK w \in Workers : cmd[w] = d /\ pc[w] \in Executing
          BY <1>2, <3>1 DEF Inv, FirstRun
        <4> QED
          BY <2>2, <4>1 DEF Threads, Executing
      <3>2. ASSUME NEW d \in Sends, row'[d] = "none" \/ result'[d] = "blocked"
            PROVE  receipt'[d] = "none"
        <4>1. result[c] = "none"
          BY <1>1 DEF Inv, StoredHasResult, Durable, Commands
        <4>2. d # c
          BY <1>1, <1>2, <3>2, <4>1
        <4> QED
          BY <1>2, <2>3, <3>2, <4>2 DEF Inv, FirstRun
      <3>3. ASSUME NEW u \in Threads, cmd'[u] \in Sends,
                   pc'[u] = "executing" \/ (pc'[u] = "storing" /\ res'[u] = "blocked")
            PROVE  receipt'[cmd'[u]] = "none"
        <4>1. u # t /\ cmd'[u] = cmd[u] /\ pc'[u] = pc[u] /\ res'[u] = res[u]
          BY <2>2, <3>3
        <4>2. u \in Workers
          BY <3>3, <4>1, Alone
        <4>3. cmd[u] # c
          BY <1>1, <3>3, <4>1, <4>2
        <4> QED
          BY <2>3, <3>3, <4>1, <4>3 DEF Inv, FirstRun
      <3> QED
        BY <3>1, <3>2, <3>3 DEF FirstRun
    <2> QED
      BY <2>2, <2>4, <2>5, <2>6, <2>7 DEF Inv
  <1> QED
    BY <1>3, <1>4 DEF SendText

\* A row that is stored again has the result it had.
LEMMA StoreEffect ==
  ASSUME Inv, NEW t \in Threads, Store(t)
  PROVE  /\ t \in Workers /\ cmd[t] \in Commands /\ res[t] # "none"
         /\ \/ row[cmd[t]] = "in_flight" /\ pc[t] = "storing"
            \/ Durable(cmd[t]) /\ res[t] = result[cmd[t]] /\ pc[t] = "renewing"
         /\ row' = [row EXCEPT ![cmd[t]] = "result_pending"]
         /\ result' = [result EXCEPT ![cmd[t]] = res[t]]
  <1>1. t \in Workers /\ cmd[t] \in Commands
    BY Alone DEF Store
  <1>2. \/ row[cmd[t]] = "in_flight" /\ pc[t] = "storing" /\ res[t] # "none"
        \/ Durable(cmd[t]) /\ res[t] = result[cmd[t]] /\ pc[t] = "renewing"
    BY DEF Store, Inv, HandsAgree, Executing, Afterwards
  <1>3. res[t] # "none"
    BY <1>1, <1>2 DEF Inv, StoredHasResult
  <1> QED
    BY <1>1, <1>2, <1>3 DEF Store

LEMMA StoreKeeps ==
  ASSUME Inv, NEW t \in Threads, Store(t) PROVE Inv'
  <1> DEFINE c == cmd[t]
  <1>1. /\ t \in Workers /\ c \in Commands /\ res[t] # "none"
        /\ \/ row[c] = "in_flight" /\ pc[t] = "storing"
           \/ Durable(c) /\ res[t] = result[c] /\ pc[t] = "renewing"
        /\ row' = [row EXCEPT ![c] = "result_pending"]
        /\ result' = [result EXCEPT ![c] = res[t]]
    BY StoreEffect
  <1>2. \A w \in Workers : w # t /\ pc[w] \notin {"idle", "locking"} => cmd[w] # c
    BY Alone DEF Store
  <1>3. UNCHANGED <<queue, receipt, copies, center, crashes>>
    BY DEF Store, receipts, outside
  <1>4. PICK to \in {"renewing", "reporting"} : Goes(t, to, res[t])
    BY DEF Store
  <1>5. /\ pc' \in [Threads -> Places] /\ cmd' = cmd /\ todo' = todo
        /\ res' \in [Threads -> Results \cup {"none"}]
        /\ \A u \in Threads : pc'[u] # "idle" => cmd'[u] \in Commands
        /\ pc'[t] = to /\ res'[t] = res[t]
        /\ \A u \in Threads \ {t} : pc'[u] = pc[u] /\ res'[u] = res[u]
        /\ OnlyReceives' /\ Apart'
    <2>1. to \in Executing \cup Afterwards /\ res[t] \in Results \cup {"none"}
      BY DEF Inv, Types, Afterwards
    <2>2. pc[t] \notin {"idle", "locking"}
      BY <1>1
    <2> QED
      BY <1>1, <1>3, <1>4, <2>1, <2>2, GoesKeeps
  <1>6. /\ row'[c] = "result_pending" /\ result'[c] = res[t]
        /\ \A d \in Commands \ {c} : row'[d] = row[d] /\ result'[d] = result[d]
    BY <1>1 DEF Inv, Types
  <1>7. \A d \in Commands : Durable(d) => Durable(d)' /\ result'[d] = result[d]
    BY <1>1, <1>6 DEF Durable
  <1>8. Types'
    BY <1>1, <1>3, <1>5 DEF Inv, Types
  <1>9. HandsAgree'
    <2>1. ASSUME NEW u \in Threads
          PROVE  /\ pc'[u] \in Executing => row'[cmd'[u]] = "in_flight"
                 /\ pc'[u] = "native" => cmd'[u] \in Sends /\ receipt'[cmd'[u]] # "none"
                 /\ pc'[u] = "storing" => res'[u] # "none"
                 /\ pc'[u] \in Afterwards => Durable(cmd[u])' /\ res'[u] = result'[cmd'[u]]
                 /\ pc'[u] = "acking" => center'[cmd'[u]] = result'[cmd'[u]]
      <3>1. CASE u = t
        BY <1>5, <1>6, <3>1 DEF Executing, Afterwards, Durable
      <3>2. CASE u # t /\ pc[u] \in Executing
        <4>1. u \in Workers /\ cmd[u] \in Commands /\ cmd[u] # c
          BY <1>2, <3>2, Alone DEF Executing
        <4> QED
          BY <1>3, <1>5, <1>6, <3>2, <4>1 DEF Inv, HandsAgree, Executing, Afterwards
      <3>3. CASE u # t /\ pc[u] \in Afterwards
        <4>1. Durable(cmd[u]) /\ cmd[u] \in Commands /\ res[u] = result[cmd[u]]
          BY <3>3 DEF Inv, HandsAgree, Types, Afterwards
        <4>2. Durable(cmd[u])' /\ result'[cmd[u]] = result[cmd[u]]
          BY <1>5, <1>7, <4>1 DEF Durable
        <4> QED
          BY <1>3, <1>5, <3>3, <4>1, <4>2 DEF Inv, HandsAgree, Executing, Afterwards
      <3>4. CASE u # t /\ pc[u] \notin Executing \cup Afterwards
        BY <1>5, <3>4 DEF Executing, Afterwards
      <3> QED
        BY <3>1, <3>2, <3>3, <3>4
    <2> QED
      BY <1>5, <2>1 DEF HandsAgree, Durable
  <1>10. TodoAgrees'
    <2>1. ASSUME NEW i \in DOMAIN todo
          PROVE  Durable(todo[i][1])' /\ todo[i][2] = result'[todo[i][1]]
      <3>1. todo[i][1] \in Commands
        BY DEF Inv, Types
      <3> QED
        BY <1>5, <1>7, <3>1 DEF Inv, TodoAgrees, Durable
    <2> QED
      BY <1>5, <2>1 DEF TodoAgrees, Durable
  <1>11. StoredHasResult' /\ CenterKnows' /\ CopyHasReceipt'
    BY <1>1, <1>3, <1>6 DEF Inv, StoredHasResult, CenterKnows, CopyHasReceipt, Durable
  <1>12. FirstRun'
    <2> SUFFICES ASSUME crashes = 0 PROVE FirstRun'
      BY <1>3 DEF FirstRun
    <2>1. ASSUME NEW d \in Commands, row'[d] = "in_flight"
          PROVE  \E w \in Workers : cmd'[w] = d /\ pc'[w] \in Executing
      <3>1. d # c /\ row[d] = "in_flight"
        BY <1>6, <2>1
      <3>2. PICK w \in Workers : cmd[w] = d /\ pc[w] \in Executing
        BY <3>1 DEF Inv, FirstRun
      <3> QED
        BY <1>5, <3>1, <3>2 DEF Threads
    <2>2. ASSUME NEW d \in Sends, row'[d] = "none" \/ result'[d] = "blocked"
          PROVE  receipt'[d] = "none"
      <3>1. CASE d = c
        BY <1>1, <1>3, <1>6, <2>2, <3>1 DEF Inv, FirstRun
      <3>2. CASE d # c
        BY <1>3, <1>6, <2>2, <3>2 DEF Inv, FirstRun, Commands
      <3> QED
        BY <3>1, <3>2
    <2>3. ASSUME NEW u \in Threads, cmd'[u] \in Sends,
                 pc'[u] = "executing" \/ (pc'[u] = "storing" /\ res'[u] = "blocked")
          PROVE  receipt'[cmd'[u]] = "none"
      BY <1>3, <1>5, <2>3 DEF Inv, FirstRun
    <2> QED
      BY <2>1, <2>2, <2>3 DEF FirstRun
  <1> QED
    BY <1>5, <1>8, <1>9, <1>10, <1>11, <1>12 DEF Inv

\* A center that takes the result of t, whether t hears of it or not.
LEMMA CenterTakes ==
  ASSUME Inv, NEW t \in Threads, pc[t] \in {"reporting", "retrying"},
         center' = [center EXCEPT ![cmd[t]] = res[t]]
  PROVE  /\ center' \in [Commands -> Results \cup {"none"}]
         /\ center'[cmd[t]] = result[cmd[t]]
         /\ \A c \in Commands : center'[c] \in {center[c], result[c]}
         /\ \A c \in Commands : center[c] = result[c] => center'[c] = result[c]
  BY DEF Inv, Types, HandsAgree, Afterwards

LEMMA ReportKeeps ==
  ASSUME Inv, NEW t \in Threads, Report(t) PROVE Inv'
  <1>1. /\ cmd[t] \in Commands /\ Durable(cmd[t]) /\ res[t] = result[cmd[t]]
        /\ res[t] \in Results \cup {"none"}
    BY DEF Report, Inv, Types, HandsAgree, Afterwards
  <1>2. UNCHANGED <<row, result, queue, receipt, copies, crashes>>
    BY DEF Report, table, receipts
  <1>3. /\ center' \in [Commands -> Results \cup {"none"}]
        /\ center'[cmd[t]] = result[cmd[t]]
        /\ \A c \in Commands : center[c] = result[c] => center'[c] = result[c]
    BY CenterTakes DEF Report
  <1>4. /\ pc' \in [Threads -> Places] /\ cmd' = cmd /\ todo' = todo
        /\ res' \in [Threads -> Results \cup {"none"}]
        /\ \A u \in Threads : pc'[u] # "idle" => cmd'[u] \in Commands
        /\ pc'[t] = "acking" /\ res'[t] = res[t]
        /\ \A u \in Threads \ {t} : pc'[u] = pc[u] /\ res'[u] = res[u]
        /\ OnlyReceives' /\ Apart'
    BY <1>1, <1>2, GoesKeeps DEF Report, Afterwards
  <1>5. Types'
    BY <1>2, <1>3, <1>4 DEF Inv, Types
  <1>6. HandsAgree'
    BY <1>1, <1>2, <1>3, <1>4 DEF Inv, HandsAgree, Executing, Afterwards, Durable, Types
  <1>7. TodoAgrees' /\ StoredHasResult' /\ CenterKnows' /\ CopyHasReceipt'
    BY <1>2, <1>3, <1>4
    DEF Inv, TodoAgrees, StoredHasResult, CenterKnows, CopyHasReceipt, Durable
  <1>8. FirstRun'
    BY <1>2, <1>4 DEF Inv, FirstRun, Executing, Report, Threads
  <1> QED
    BY <1>4, <1>5, <1>6, <1>7, <1>8 DEF Inv

\* A thread that is done with a report rests or, the poller, goes on with the
\* next result it read; in the table and the center only what it reported has
\* changed, and agrees with the stored results.
LEMMA DoneKeeps ==
  ASSUME Inv, NEW t \in Threads, pc[t] \in {"reporting", "retrying", "acking"},
         NextResult(t) \/ Rests(t),
         UNCHANGED <<result, queue, receipt, copies, crashes>>,
         row' \in [Commands -> {"none", "in_flight", "result_pending", "acknowledged"}],
         center' \in [Commands -> Results \cup {"none"}],
         \A c \in Commands : row'[c] = row[c] \/ (Durable(c) /\ Durable(c)'),
         \A c \in Commands : center[c] = result[c] => center'[c] = result[c],
         \A c \in Commands : row'[c] = "acknowledged" =>
            row[c] = "acknowledged" \/ center[c] = result[c]
  PROVE  Inv'
  <1>1. \A c \in Commands : Durable(c) <=> Durable(c)'
    BY DEF Durable
  <1>2. /\ pc' \in [Threads -> Places]
        /\ cmd' \in [Threads -> Commands \cup {NoCommand}]
        /\ res' \in [Threads -> Results \cup {"none"}]
        /\ todo' \in Seq(Commands \X Results)
        /\ \A u \in Threads \ {t} :
              pc'[u] = pc[u] /\ cmd'[u] = cmd[u] /\ res'[u] = res[u]
        /\ \/ pc'[t] = "idle"
           \/ /\ pc'[t] = "retrying" /\ t = Poller
              /\ cmd'[t] \in Commands /\ Durable(cmd'[t])
              /\ res'[t] = result[cmd'[t]]
        /\ \A i \in DOMAIN todo' :
              /\ todo'[i][1] \in Commands
              /\ Durable(todo'[i][1]) /\ todo'[i][2] = result[todo'[i][1]]
    <2>1. CASE Rests(t)
      <3>1. /\ todo' \in Seq(Commands \X Results)
            /\ \A i \in DOMAIN todo' :
                  /\ todo'[i][1] \in Commands
                  /\ Durable(todo'[i][1]) /\ todo'[i][2] = result[todo'[i][1]]
        <4>1. todo \in Seq(Commands \X Results)
          BY DEF Inv, Types
        <4>2. CASE todo' = <<>>
          BY <4>2
        <4>3. CASE todo' = todo
          BY <4>1, <4>3 DEF Inv, TodoAgrees
        <4> QED
          BY <2>1, <4>2, <4>3 DEF Rests
      <3> QED
        BY <2>1, <3>1, RestsTypes DEF Inv
    <2>2. CASE ~Rests(t)
      <3>1. /\ t = Poller /\ todo # <<>>
            /\ pc' = [pc EXCEPT ![t] = "retrying"]
            /\ cmd' = [cmd EXCEPT ![t] = Head(todo)[1]]
            /\ res' = [res EXCEPT ![t] = Head(todo)[2]]
            /\ todo' = Tail(todo)
        BY <2>2 DEF NextResult
      <3>2. /\ todo \in Seq(Commands \X Results) /\ Len(todo) > 0
            /\ Head(todo) = todo[1] /\ 1 \in DOMAIN todo
            /\ todo[1] \in Commands \X Results
        BY <3>1 DEF Inv, Types
      <3>3. /\ todo[1][1] \in Commands /\ todo[1][2] \in Results
            /\ Durable(todo[1][1]) /\ todo[1][2] = result[todo[1][1]]
        BY <3>2 DEF Inv, TodoAgrees
      <3>4. /\ todo' \in Seq(Commands \X Results)
            /\ \A i \in DOMAIN todo' :
                  /\ todo'[i][1] \in Commands
                  /\ Durable(todo'[i][1]) /\ todo'[i][2] = result[todo'[i][1]]
        <4>1. /\ todo' \in Seq(Commands \X Results)
              /\ \A i \in DOMAIN todo' :
                    i + 1 \in DOMAIN todo /\ todo'[i] = todo[i + 1]
          BY <3>1, <3>2
        <4>2. ASSUME NEW i \in DOMAIN todo'
              PROVE  /\ todo'[i][1] \in Commands
                     /\ Durable(todo'[i][1]) /\ todo'[i][2] = result[todo'[i][1]]
          <5>1. i + 1 \in DOMAIN todo /\ todo'[i] = todo[i + 1]
            BY <4>1, <4>2
          <5>2. todo[i + 1] \in Commands \X Results
            BY <3>2, <5>1
          <5> QED
            BY <5>1, <5>2 DEF Inv, TodoAgrees
        <4> QED
          BY <4>1, <4>2
      <3>5. "retrying" \in Places
        BY DEF Places, Afterwards
      <3> QED
        BY <3>1, <3>2, <3>3, <3>4, <3>5 DEF Inv, Types
    <2> QED
      BY <2>1, <2>2
  <1>3. Types'
    BY <1>2 DEF Inv, Types
  <1>4. OnlyReceives'
    BY <1>2, ThreadsAssumption DEF Inv, OnlyReceives, Threads
  <1>5. Apart'
    BY <1>2, ThreadsAssumption DEF Inv, Apart, Threads
  <1>6. HandsAgree'
    <2>1. ASSUME NEW u \in Threads
          PROVE  /\ pc'[u] \in Executing => row'[cmd'[u]] = "in_flight"
                 /\ pc'[u] = "native" => cmd'[u] \in Sends /\ receipt'[cmd'[u]] # "none"
                 /\ pc'[u] = "storing" => res'[u] # "none"
                 /\ pc'[u] \in Afterwards =>
                      row'[cmd'[u]] \in {"result_pending", "acknowledged"}
                      /\ res'[u] = result'[cmd'[u]]
                 /\ pc'[u] = "acking" => center'[cmd'[u]] = result'[cmd'[u]]
      <3>1. CASE u = t
        BY <1>1, <1>2, <3>1 DEF Executing, Afterwards, Durable
      <3>2. CASE u # t
        <4>1. /\ pc'[u] = pc[u] /\ cmd'[u] = cmd[u] /\ res'[u] = res[u]
              /\ pc[u] \in Executing \cup Afterwards => cmd[u] \in Commands
          BY <1>2, <3>2 DEF Inv, Types, Executing, Afterwards
        <4> QED
          BY <1>1, <4>1 DEF Inv, HandsAgree, Executing, Afterwards, Durable
      <3> QED
        BY <3>1, <3>2
    <2> QED
      BY <2>1 DEF HandsAgree, Durable
  <1>7. TodoAgrees'
    BY <1>1, <1>2 DEF TodoAgrees, Durable
  <1>8. StoredHasResult' /\ CenterKnows' /\ CopyHasReceipt'
    BY <1>1 DEF Inv, StoredHasResult, CenterKnows, CopyHasReceipt, Durable
  <1>9. FirstRun'
    <2> SUFFICES ASSUME crashes = 0 PROVE FirstRun'
      BY DEF FirstRun
    <2>1. ASSUME NEW d \in Commands, row'[d] = "in_flight"
          PROVE  \E w \in Workers : cmd'[w] = d /\ pc'[w] \in Executing
      <3>1. row[d] = "in_flight"
        BY <2>1 DEF Durable
      <3>2. PICK w \in Workers : cmd[w] = d /\ pc[w] \in Executing
        BY <3>1 DEF Inv, FirstRun
      <3> QED
        BY <1>2, <3>2 DEF Threads, Executing
    <2>2. ASSUME NEW d \in Sends, row'[d] = "none" \/ result'[d] = "blocked"
          PROVE  receipt'[d] = "none"
      BY <2>2 DEF Inv, FirstRun, Durable, Commands
    <2>3. ASSUME NEW u \in Threads, cmd'[u] \in Sends,
                 pc'[u] = "executing" \/ (pc'[u] = "storing" /\ res'[u] = "blocked")
          PROVE  receipt'[cmd'[u]] = "none"
      BY <1>2, <2>3 DEF Inv, FirstRun
    <2> QED
      BY <2>1, <2>2, <2>3 DEF FirstRun
  <1> QED
    BY <1>3, <1>4, <1>5, <1>6, <1>7, <1>8, <1>9 DEF Inv

LEMMA AcknowledgeKeeps ==
  ASSUME Inv, NEW t \in Threads, Acknowledge(t) PROVE Inv'
  <1>1. /\ cmd[t] \in Commands /\ Durable(cmd[t])
        /\ center[cmd[t]] = result[cmd[t]]
    BY DEF Acknowledge, Inv, Types, HandsAgree, Afterwards
  <1>2. /\ row' = [row EXCEPT ![cmd[t]] = "acknowledged"] /\ UNCHANGED center
        /\ NextResult(t) /\ pc[t] = "acking"
        /\ UNCHANGED <<result, queue, receipt, copies, crashes>>
    BY DEF Acknowledge, receipts, outside
  <1>3. /\ row' \in [Commands -> {"none", "in_flight", "result_pending", "acknowledged"}]
        /\ row'[cmd[t]] = "acknowledged"
        /\ \A c \in Commands : c # cmd[t] => row'[c] = row[c]
    BY <1>1, <1>2 DEF Inv, Types
  <1>4. /\ \A c \in Commands : row'[c] = row[c] \/ (Durable(c) /\ Durable(c)')
        /\ \A c \in Commands : row'[c] = "acknowledged" =>
              row[c] = "acknowledged" \/ center[c] = result[c]
    BY <1>1, <1>3 DEF Durable
  <1>5. center' \in [Commands -> Results \cup {"none"}]
    BY <1>2 DEF Inv, Types
  <1> QED
    BY <1>2, <1>3, <1>4, <1>5, DoneKeeps

LEMMA ReportFailsKeeps ==
  ASSUME Inv, NEW t \in Threads, ReportFails(t) PROVE Inv'
  <1>1. /\ Rests(t) /\ pc[t] \in {"reporting", "retrying"}
        /\ UNCHANGED <<row, result, queue, receipt, copies, crashes>>
    BY DEF ReportFails, receipts
  <1>2. /\ center' \in [Commands -> Results \cup {"none"}]
        /\ \A c \in Commands : center[c] = result[c] => center'[c] = result[c]
    <2>1. CASE UNCHANGED center
      BY <2>1 DEF Inv, Types
    <2>2. CASE center' = [center EXCEPT ![cmd[t]] = res[t]]
      BY <1>1, <2>2, CenterTakes
    <2> QED
      BY <2>1, <2>2 DEF ReportFails
  <1>3. row' \in [Commands -> {"none", "in_flight", "result_pending", "acknowledged"}]
    BY <1>1 DEF Inv, Types
  <1> QED
    BY <1>1, <1>2, <1>3, DoneKeeps

LEMMA TakeKeeps ==
  ASSUME Inv, NEW w \in Workers, Take(w) PROVE Inv'
  <1>1. /\ w \in Threads /\ w \notin Receivers /\ pc[w] = "idle"
        /\ queue \in Seq(Commands) /\ queue # <<>>
    BY ThreadsAssumption DEF Take, Threads, Inv, Types
  <1>2. /\ queue' \in Seq(Commands) /\ Len(queue') <= MaxWaiting
        /\ Head(queue) \in Commands
    <2>1. queue' = Tail(queue) /\ Len(queue) <= MaxWaiting /\ Len(queue) > 0
      BY <1>1 DEF Take, Inv, OnlyReceives
    <2> QED
      BY <1>1, <2>1, PoolAssumption
  <1>3. /\ pc' = [pc EXCEPT ![w] = "locking"]
        /\ cmd' = [cmd EXCEPT ![w] = Head(queue)]
        /\ UNCHANGED <<row, result, res, todo, receipt, copies, center, crashes>>
    BY DEF Take, table, receipts, outside
  <1>4. /\ pc' \in [Threads -> Places]
        /\ cmd' \in [Threads -> Commands \cup {NoCommand}]
        /\ pc'[w] = "locking" /\ cmd'[w] \in Commands
        /\ \A u \in Threads \ {w} : pc'[u] = pc[u] /\ cmd'[u] = cmd[u]
    BY <1>1, <1>2, <1>3 DEF Inv, Types, Places
  <1>5. Types'
    BY <1>2, <1>3, <1>4 DEF Inv, Types
  <1>6. OnlyReceives' /\ Apart'
    BY <1>1, <1>2, <1>4 DEF Inv, OnlyReceives, Apart, Threads
  <1>7. HandsAgree'
    BY <1>3, <1>4 DEF Inv, HandsAgree, Executing, Afterwards, Durable
  <1>8. TodoAgrees' /\ StoredHasResult' /\ CenterKnows' /\ CopyHasReceipt'
    BY <1>3 DEF Inv, TodoAgrees, StoredHasResult, CenterKnows, CopyHasReceipt, Durable
  <1>9. FirstRun'
    BY <1>1, <1>3, <1>4 DEF Inv, FirstRun, Executing, Threads
  <1> QED
    BY <1>5, <1>6, <1>7, <1>8, <1>9 DEF Inv

LEMMA LockKeeps ==
  ASSUME Inv, NEW w \in Workers, Lock(w) PROVE Inv'
  <1>1. w \in Threads /\ w \notin Receivers /\ pc[w] = "locking"
    BY ThreadsAssumption DEF Lock, Threads
  <1>2. UNCHANGED <<row, result, queue, cmd, res, todo, receipt, copies, center, crashes>>
    BY DEF Lock, table, receipts, outside
  <1>3. /\ pc' \in [Threads -> Places] /\ pc'[w] = "claiming"
        /\ \A u \in Threads \ {w} : pc'[u] = pc[u]
    BY <1>1 DEF Lock, Inv, Types, Places
  <1>4. Types'
    BY <1>1, <1>2, <1>3 DEF Inv, Types
  <1>5. OnlyReceives'
    BY <1>1, <1>2, <1>3 DEF Inv, OnlyReceives, Threads
  <1>6. Apart'
    <2>1. \A v \in Workers \ {w} :
            pc[v] \notin {"idle", "locking"} => ConvOf[cmd[v]] # ConvOf[cmd[w]]
      BY DEF Lock, Busy
    <2> QED
      BY <1>2, <1>3, <2>1 DEF Inv, Apart, Threads
  <1>7. HandsAgree'
    BY <1>2, <1>3 DEF Inv, HandsAgree, Executing, Afterwards, Durable
  <1>8. TodoAgrees' /\ StoredHasResult' /\ CenterKnows' /\ CopyHasReceipt'
    BY <1>2 DEF Inv, TodoAgrees, StoredHasResult, CenterKnows, CopyHasReceipt, Durable
  <1>9. FirstRun'
    BY <1>1, <1>2, <1>3 DEF Inv, FirstRun, Executing, Threads
  <1> QED
    BY <1>4, <1>5, <1>6, <1>7, <1>8, <1>9 DEF Inv

\* With room in the queue a receiving thread only queues.
LEMMA DispatchKeeps ==
  ASSUME Inv, MaxWaiting < QueueMax,
         NEW t \in Receivers, NEW c \in Commands, Dispatch(t, c)
  PROVE  Inv'
  <1>1. queue \in Seq(Commands) /\ Len(queue) <= MaxWaiting
    BY DEF Inv, Types, OnlyReceives
  <1>2. Len(queue) < QueueMax
    BY <1>1, PoolAssumption
  <1>3. /\ Len(queue) < MaxWaiting /\ queue' = Append(queue, c)
        /\ UNCHANGED <<row, result, pc, cmd, res, todo, receipt, copies, center, crashes>>
    BY <1>2 DEF Dispatch, threads, table, receipts
  <1>4. queue' \in Seq(Commands) /\ Len(queue') <= MaxWaiting
    BY <1>1, <1>3, PoolAssumption
  <1>5. Types' /\ OnlyReceives' /\ Apart'
    BY <1>3, <1>4 DEF Inv, Types, OnlyReceives, Apart
  <1>6. HandsAgree' /\ TodoAgrees' /\ StoredHasResult' /\ CenterKnows'
    BY <1>3 DEF Inv, HandsAgree, TodoAgrees, StoredHasResult, CenterKnows, Durable
  <1>7. CopyHasReceipt' /\ FirstRun'
    BY <1>3 DEF Inv, CopyHasReceipt, FirstRun
  <1> QED
    BY <1>5, <1>6, <1>7 DEF Inv

LEMMA RetryKeeps == Inv /\ Retry => Inv'
  <1> SUFFICES ASSUME Inv, Retry PROVE Inv'
    OBVIOUS
  <1> DEFINE pending == {c \in Commands : row[c] = "result_pending"}
  <1>1. PICK n \in 1..Len(age) : \E due \in [1..n -> pending] :
          /\ pc' = [pc EXCEPT ![Poller] = "retrying"]
          /\ cmd' = [cmd EXCEPT ![Poller] = due[1]]
          /\ res' = [res EXCEPT ![Poller] = result[due[1]]]
          /\ todo' = [i \in 1..n - 1 |-> <<due[i + 1], result[due[i + 1]]>>]
    BY DEF Retry
  <1>2. PICK due \in [1..n -> pending] :
          /\ pc' = [pc EXCEPT ![Poller] = "retrying"]
          /\ cmd' = [cmd EXCEPT ![Poller] = due[1]]
          /\ res' = [res EXCEPT ![Poller] = result[due[1]]]
          /\ todo' = [i \in 1..n - 1 |-> <<due[i + 1], result[due[i + 1]]>>]
    BY <1>1
  <1>3. n \in Nat /\ 1 \in 1..n
    OBVIOUS
  <1>4. /\ Poller \in Threads /\ Poller \in Receivers /\ Poller \notin Workers
        /\ pc[Poller] = "idle"
    BY ThreadsAssumption DEF Threads, Retry
  <1>5. UNCHANGED <<row, result, queue, receipt, copies, center, crashes>>
    BY DEF Retry, table, receipts, outside
  <1>6. \A i \in 1..n : /\ due[i] \in Commands /\ Durable(due[i])
                       /\ result[due[i]] \in Results
    <2>1. ASSUME NEW i \in 1..n
          PROVE  /\ due[i] \in Commands /\ Durable(due[i])
                 /\ result[due[i]] \in Results
      <3>1. due[i] \in pending
        BY <1>2
      <3>2. due[i] \in Commands /\ Durable(due[i])
        BY <3>1 DEF Durable
      <3> QED
        BY <3>2 DEF Inv, StoredHasResult, Types
    <2> QED
      BY <2>1
  <1>7. /\ todo' \in Seq(Commands \X Results)
        /\ \A i \in DOMAIN todo' :
              Durable(todo'[i][1]) /\ todo'[i][2] = result[todo'[i][1]]
    <2>1. n - 1 \in Nat /\ \A i \in 1..n - 1 : i + 1 \in 1..n
      BY <1>3
    <2>2. \A i \in 1..n - 1 : <<due[i + 1], result[due[i + 1]]>> \in Commands \X Results
      BY <1>6, <2>1
    <2>3. todo' \in [1..n - 1 -> Commands \X Results]
      BY <1>2, <2>2
    <2>4. todo' \in Seq(Commands \X Results) /\ DOMAIN todo' = 1..n - 1
      BY <2>1, <2>3
    <2> QED
      BY <1>2, <1>6, <2>1, <2>4
  <1>8. /\ pc' \in [Threads -> Places]
        /\ cmd' \in [Threads -> Commands \cup {NoCommand}]
        /\ res' \in [Threads -> Results \cup {"none"}]
        /\ pc'[Poller] = "retrying" /\ cmd'[Poller] \in Commands
        /\ Durable(cmd'[Poller]) /\ res'[Poller] = result[cmd'[Poller]]
        /\ \A u \in Threads \ {Poller} :
              pc'[u] = pc[u] /\ cmd'[u] = cmd[u] /\ res'[u] = res[u]
    <2>1. "retrying" \in Places
      BY DEF Places, Afterwards
    <2> QED
      BY <1>2, <1>3, <1>4, <1>6, <2>1 DEF Inv, Types
  <1>9. Types'
    BY <1>5, <1>7, <1>8 DEF Inv, Types
  <1>10. OnlyReceives' /\ Apart'
    BY <1>4, <1>5, <1>8 DEF Inv, OnlyReceives, Apart, Threads
  <1>11. HandsAgree'
    BY <1>4, <1>5, <1>8 DEF Inv, HandsAgree, Executing, Afterwards, Durable
  <1>12. TodoAgrees'
    BY <1>5, <1>7 DEF TodoAgrees, Durable
  <1>13. StoredHasResult' /\ CenterKnows' /\ CopyHasReceipt'
    BY <1>5 DEF Inv, StoredHasResult, CenterKnows, CopyHasReceipt, Durable
  <1>14. FirstRun'
    BY <1>4, <1>5, <1>8 DEF Inv, FirstRun, Executing, Threads
  <1> QED
    BY <1>9, <1>10, <1>11, <1>12, <1>13, <1>14 DEF Inv

LEMMA CrashKeeps == Inv /\ Crash => Inv'
  <1> SUFFICES ASSUME Inv, Crash PROVE Inv'
    OBVIOUS
  <1>1. /\ crashes' = crashes + 1 /\ crashes \in Nat
        /\ queue' = <<>> /\ todo' = <<>>
        /\ pc' = [t \in Threads |-> "idle"]
        /\ cmd' = [t \in Threads |-> NoCommand]
        /\ res' = [t \in Threads |-> "none"]
        /\ UNCHANGED <<row, result, receipt, copies, center>>
    BY DEF Crash, Inv, Types, table, receipts, outside
  <1>2. Types' /\ OnlyReceives'
    BY <1>1, PoolAssumption DEF Inv, Types, OnlyReceives, Places, Threads
  <1>3. Apart' /\ HandsAgree' /\ TodoAgrees'
    BY <1>1 DEF Apart, HandsAgree, TodoAgrees, Threads, Executing, Afterwards
  <1>4. StoredHasResult' /\ CenterKnows' /\ CopyHasReceipt'
    BY <1>1 DEF Inv, StoredHasResult, CenterKnows, CopyHasReceipt, Durable
  <1>5. FirstRun'
    BY <1>1 DEF FirstRun
  <1> QED
    BY <1>2, <1>3, <1>4, <1>5 DEF Inv

LEMMA StutterKeeps == Inv /\ UNCHANGED vars => Inv'
  <1> SUFFICES ASSUME Inv, UNCHANGED vars PROVE Inv'
    OBVIOUS
  <1>1. UNCHANGED <<row, result, queue, pc, cmd, res, todo, center, crashes, receipt, copies>>
    BY DEF vars
  <1> QED
    BY <1>1, ReceiptsMove DEF Inv, Types, CopyHasReceipt

LEMMA StepKeeps == MaxWaiting < QueueMax => (Inv /\ [Next]_vars => Inv')
  <1> SUFFICES ASSUME MaxWaiting < QueueMax, Inv, [Next]_vars PROVE Inv'
    OBVIOUS
  <1>1. ASSUME NEW t \in Threads, Handle(t) PROVE Inv'
    BY <1>1, ClaimKeeps, RefuseKeeps, SendTextKeeps, SendReturnsKeeps, OpenChatKeeps,
       StoreKeeps, ReportKeeps, AcknowledgeKeeps, ReportFailsKeeps DEF Handle
  <1>2. ASSUME NEW t \in Threads, HandOver(t) PROVE Inv'
    BY <1>2, HandOverKeeps
  <1>3. ASSUME NEW w \in Workers, Work(w) PROVE Inv'
    BY <1>3, TakeKeeps, LockKeeps DEF Work
  <1>4. ASSUME NEW t \in Receivers, NEW c \in Commands, Dispatch(t, c) PROVE Inv'
    BY <1>4, DispatchKeeps
  <1>5. CASE Retry \/ ReceiptMoves \/ Crash
    BY <1>5, RetryKeeps, ReceiptMovesKeep, CrashKeeps
  <1>6. CASE UNCHANGED vars
    BY <1>6, StutterKeeps
  <1> QED
    BY <1>1, <1>2, <1>3, <1>4, <1>5, <1>6 DEF Next

\* While the queue has room, the invariant holds of every behaviour.
THEOREM PoolInvariance ==
  ASSUME MaxWaiting < QueueMax PROVE Spec => []Inv
  <1>1. Inv /\ [Next]_vars => Inv'
    BY StepKeeps
  <1> QED
    BY <1>1, InitHolds, PTL DEF Spec

\* Only Store writes results, and writes again what was there.
LEMMA StoredStays ==
  ASSUME Inv, Next,
         NEW c \in Commands, row[c] \in {"result_pending", "acknowledged"}
  PROVE  result'[c] = result[c]
  <1>1. ASSUME NEW t \in Threads, Store(t) PROVE result'[c] = result[c]
    <2>1. /\ result' = [result EXCEPT ![cmd[t]] = res[t]]
          /\ row[cmd[t]] = "in_flight" \/ res[t] = result[cmd[t]]
          /\ result \in [Commands -> Results \cup {"none"}]
      BY <1>1, StoreEffect DEF Inv, Types
    <2> QED
      BY <2>1
  <1>2. ASSUME NEW t \in Threads, Handle(t), ~Store(t) PROVE UNCHANGED result
    BY <1>2 DEF Handle, Claim, Refuse, SendText, SendReturns, OpenChat, Report,
       Acknowledge, ReportFails, table
  <1>3. ASSUME NEW t \in Threads, HandOver(t) PROVE UNCHANGED result
    BY <1>3 DEF HandOver, table
  <1>4. ASSUME NEW w \in Workers, Work(w) PROVE UNCHANGED result
    BY <1>4 DEF Work, Take, Lock, table
  <1>5. ASSUME NEW t \in Receivers, NEW d \in Commands, Dispatch(t, d)
        PROVE  UNCHANGED result
    BY <1>5 DEF Dispatch, table
  <1>6. CASE Retry \/ ReceiptMoves \/ Crash
    BY <1>6 DEF Retry, ReceiptMoves, Crash, table
  <1> QED
    BY <1>1, <1>2, <1>3, <1>4, <1>5, <1>6 DEF Next

\* The result of a command stands: what the table says of it is final, is what
\* the center took, and refuses nothing that was done (claim_brain_command,
\* store_brain_command_result, sender_worker_loop with its locks).
THEOREM ResultIsKept ==
  ASSUME MaxWaiting < QueueMax PROVE Spec => ResultStands
  <1>1. Inv => CenterKnows /\ BlockedIsUnsent
    BY DEF Inv, BlockedIsUnsent, FirstRun, CopyHasReceipt
  <1>2. Inv /\ [Next]_vars =>
          [\A c \in Commands :
             row[c] \in {"result_pending", "acknowledged"} => result'[c] = result[c]]_result
    <2> SUFFICES ASSUME Inv, [Next]_vars,
                        NEW c \in Commands,
                        row[c] \in {"result_pending", "acknowledged"}
                 PROVE  result'[c] = result[c]
      OBVIOUS
    <2>1. CASE Next
      BY <2>1, StoredStays
    <2>2. CASE UNCHANGED vars
      BY <2>2 DEF vars
    <2> QED
      BY <2>1, <2>2
  <1> QED
    BY <1>1, <1>2, PoolInvariance, PTL DEF Spec, ResultStands, ResultIsFinal

-----------------------------------------------------------------------------
(* Whether or not the queue overflows, and the receiving threads execute      *)
(* commands themselves, the center is told what is stored.                    *)

\* What a thread has in its hands, wherever it executes.
HandTold(t) ==
    /\ pc[t] # "idle" => cmd[t] \in Commands
    /\ pc[t] = "native" => cmd[t] \in Sends /\ receipt[cmd[t]] # "none"
    /\ pc[t] = "storing" => res[t] # "none"
    /\ pc[t] \in Afterwards => Durable(cmd[t]) /\ res[t] # "none"
    /\ pc[t] = "acking" => center[cmd[t]] # "none"

HandsTold ==
    /\ pc \in [Threads -> Places]
    /\ cmd \in [Threads -> Commands \cup {NoCommand}]
    /\ res \in [Threads -> Results \cup {"none"}]
    /\ todo \in Seq(Commands \X Results)
    /\ \A i \in DOMAIN todo : Durable(todo[i][1])
    /\ \A t \in Threads : HandTold(t)

TableTold ==
    /\ row \in [Commands -> {"none", "in_flight", "result_pending", "acknowledged"}]
    /\ result \in [Commands -> Results \cup {"none"}]
    /\ center \in [Commands -> Results \cup {"none"}]
    /\ receipt \in [Sends -> {"none", "open", "confirmed", "unknown", "rejected"}]
    /\ queue \in Seq(Commands)
    /\ \A c \in Commands : Durable(c) => result[c] # "none"
    /\ ReportedIsDurable /\ AcknowledgedIsKnown

Told == HandsTold /\ TableTold

\* What is stored, told or begun stays so.
NothingLost ==
    /\ \A c \in Commands : Durable(c) => Durable(c)'
    /\ \A c \in Commands : center[c] # "none" => center'[c] # "none"
    /\ \A c \in Sends : receipt[c] # "none" => receipt'[c] # "none"

LEMMA OtherHand ==
  ASSUME Told, NothingLost, NEW u \in Threads,
         pc'[u] = pc[u], cmd'[u] = cmd[u], res'[u] = res[u]
  PROVE  HandTold(u)'
  <1>1. HandTold(u)
    BY DEF Told, HandsTold
  <1>2. pc[u] \in Afterwards => pc[u] # "idle"
    BY DEF Afterwards
  <1> QED
    BY <1>1, <1>2 DEF HandTold, NothingLost, Afterwards

\* The results that the poller read stay stored.
LEMMA TodoStays ==
  ASSUME Told, NothingLost
  PROVE  \A i \in DOMAIN todo : row'[todo[i][1]] \in {"result_pending", "acknowledged"}
  <1>1. ASSUME NEW i \in DOMAIN todo PROVE todo[i][1] \in Commands
    BY DEF Told, HandsTold
  <1> QED
    BY <1>1 DEF Told, HandsTold, NothingLost, Durable

LEMMA NoHand ==
  ASSUME Told, NothingLost, UNCHANGED threads PROVE HandsTold'
  <1>1. \A u \in Threads : HandTold(u)'
    BY OtherHand DEF threads
  <1> QED
    BY <1>1, TodoStays DEF Told, HandsTold, threads, Durable

\* A thread that goes on.
LEMMA HandGoes ==
  ASSUME Told, NothingLost, NEW t \in Threads, pc[t] # "idle",
         NEW to \in Places, NEW r \in Results \cup {"none"}, Goes(t, to, r),
         to = "native" => cmd[t] \in Sends /\ receipt'[cmd[t]] # "none",
         to = "storing" => r # "none",
         to \in Afterwards => Durable(cmd[t])' /\ r # "none",
         to = "acking" => center'[cmd[t]] # "none"
  PROVE  HandsTold'
  <1>1. /\ pc' = [pc EXCEPT ![t] = to] /\ res' = [res EXCEPT ![t] = r]
        /\ UNCHANGED <<cmd, todo>>
    BY DEF Goes
  <1>2. /\ pc' \in [Threads -> Places] /\ pc'[t] = to
        /\ res' \in [Threads -> Results \cup {"none"}] /\ res'[t] = r
        /\ \A u \in Threads \ {t} : pc'[u] = pc[u] /\ res'[u] = res[u]
    BY <1>1 DEF Told, HandsTold
  <1>3. HandTold(t)'
    <2>1. cmd[t] \in Commands
      BY DEF Told, HandsTold, HandTold
    <2> QED
      BY <1>1, <1>2, <2>1 DEF HandTold
  <1>4. \A u \in Threads \ {t} : HandTold(u)'
    BY <1>1, <1>2, OtherHand
  <1> QED
    BY <1>1, <1>2, <1>3, <1>4, TodoStays DEF Told, HandsTold, Durable

\* A thread that is done, or goes on with the next result it read.
LEMMA HandIsDone ==
  ASSUME Told, NothingLost, NEW t \in Threads, Rests(t) \/ NextResult(t)
  PROVE  HandsTold'
  <1>1. CASE Rests(t)
    <2>1. /\ pc' \in [Threads -> Places] /\ pc'[t] = "idle"
          /\ cmd' \in [Threads -> Commands \cup {NoCommand}]
          /\ res' \in [Threads -> Results \cup {"none"}]
          /\ todo' \in {todo, <<>>}
          /\ \A u \in Threads \ {t} :
               pc'[u] = pc[u] /\ cmd'[u] = cmd[u] /\ res'[u] = res[u]
      BY <1>1 DEF Rests, Told, HandsTold, Places
    <2>2. HandTold(t)'
      BY <2>1 DEF HandTold, Afterwards
    <2>3. \A u \in Threads \ {t} : HandTold(u)'
      BY <2>1, OtherHand
    <2>5. CASE todo' = todo
      BY <2>1, <2>2, <2>3, <2>5, TodoStays DEF Told, HandsTold, Durable
    <2>6. CASE todo' = <<>>
      <3>1. todo' \in Seq(Commands \X Results) /\ DOMAIN todo' = {}
        BY <2>6
      <3> QED
        BY <2>1, <2>2, <2>3, <3>1 DEF HandsTold
    <2> QED
      BY <2>1, <2>5, <2>6
  <1>2. CASE ~Rests(t)
    <2>1. /\ todo # <<>> /\ todo \in Seq(Commands \X Results)
          /\ pc' = [pc EXCEPT ![t] = "retrying"]
          /\ cmd' = [cmd EXCEPT ![t] = Head(todo)[1]]
          /\ res' = [res EXCEPT ![t] = Head(todo)[2]]
          /\ todo' = Tail(todo)
      BY <1>2 DEF NextResult, Told, HandsTold
    <2>2. /\ Head(todo) \in Commands \X Results /\ Head(todo) = todo[1]
          /\ 1 \in DOMAIN todo
          /\ Tail(todo) \in Seq(Commands \X Results)
          /\ \A i \in DOMAIN Tail(todo) :
                i + 1 \in DOMAIN todo /\ Tail(todo)[i] = todo[i + 1]
      BY <2>1
    <2>3. \A i \in DOMAIN todo :
             row'[todo[i][1]] \in {"result_pending", "acknowledged"}
      BY TodoStays
    <2>4. /\ pc' \in [Threads -> Places] /\ pc'[t] = "retrying"
          /\ cmd' \in [Threads -> Commands \cup {NoCommand}]
          /\ cmd'[t] = Head(todo)[1] /\ cmd'[t] \in Commands
          /\ res' \in [Threads -> Results \cup {"none"}]
          /\ res'[t] \in Results
          /\ \A u \in Threads \ {t} :
               pc'[u] = pc[u] /\ cmd'[u] = cmd[u] /\ res'[u] = res[u]
      <3>1. "retrying" \in Places
        BY DEF Places, Afterwards
      <3>2. Head(todo)[1] \in Commands /\ Head(todo)[2] \in Results
        BY <2>2
      <3> QED
        BY <2>1, <3>1, <3>2 DEF Told, HandsTold
    <2>5. HandTold(t)'
      <3>1. row'[cmd'[t]] \in {"result_pending", "acknowledged"}
        BY <2>2, <2>3, <2>4
      <3>2. "none" \notin Results
        BY DEF Results
      <3>3. res'[t] # "none"
        BY <2>4, <3>2
      <3> QED
        BY <2>4, <3>1, <3>3 DEF HandTold, Durable
    <2>6. \A u \in Threads \ {t} : HandTold(u)'
      BY <2>4, OtherHand
    <2>7. \A i \in DOMAIN todo' :
             row'[todo'[i][1]] \in {"result_pending", "acknowledged"}
      BY <2>1, <2>2, <2>3
    <2> QED
      BY <2>1, <2>2, <2>4, <2>5, <2>6, <2>7 DEF HandsTold, Durable
  <1> QED
    BY <1>1, <1>2

LEMMA SameTable ==
  ASSUME Told, UNCHANGED <<row, result, center, receipt, queue>>
  PROVE  TableTold' /\ NothingLost
  BY DEF Told, TableTold, NothingLost, ReportedIsDurable, AcknowledgedIsKnown, Durable

LEMMA ClaimTold ==
  ASSUME Told, NEW t \in Threads, Claim(t) PROVE Told'
  <1> DEFINE c == cmd[t]
  <1>1. /\ pc[t] = "claiming" /\ c \in Commands
        /\ row' = IF row[c] = "none" THEN [row EXCEPT ![c] = "in_flight"] ELSE row
        /\ UNCHANGED <<result, queue, receipt, center>>
    BY DEF Claim, receipts, outside, Told, HandsTold, HandTold
  <1>2. /\ row' \in [Commands -> {"none", "in_flight", "result_pending", "acknowledged"}]
        /\ \A d \in Commands : Durable(d) <=> Durable(d)'
        /\ \A d \in Commands : row'[d] = "acknowledged" => row[d] = "acknowledged"
    BY <1>1 DEF Told, TableTold, Durable
  <1>3. NothingLost /\ TableTold'
    BY <1>1, <1>2
      DEF NothingLost, Told, TableTold, ReportedIsDurable, AcknowledgedIsKnown, Durable
  <1>4. CASE row[c] \in {"none", "in_flight"} /\ Goes(t, "executing", "none")
    <2>1. "executing" \in Places /\ "executing" \notin Afterwards
      BY DEF Places, Executing, Afterwards
    <2>2. HandsTold'
      BY <1>1, <1>3, <1>4, <2>1, HandGoes
    <2> QED
      BY <1>3, <2>2 DEF Told
  <1>5. CASE /\ row[c] = "result_pending"
             /\ Goes(t, "renewing", result[c]) \/ Goes(t, "reporting", result[c])
    <2>1. Durable(c)' /\ result[c] \in Results \cup {"none"} /\ result[c] # "none"
      BY <1>1, <1>2, <1>5 DEF Told, TableTold, Durable, Goes
    <2>2. {"renewing", "reporting"} \subseteq Places
      BY DEF Places, Afterwards
    <2>3. HandsTold'
      BY <1>1, <1>3, <1>5, <2>1, <2>2, HandGoes
    <2> QED
      BY <1>3, <2>3 DEF Told
  <1>6. CASE Rests(t)
    BY <1>3, <1>6, HandIsDone DEF Told
  <1> QED
    BY <1>4, <1>5, <1>6 DEF Claim

LEMMA ExecuteTold ==
  ASSUME Told, NEW t \in Threads,
         Refuse(t) \/ SendText(t) \/ SendReturns(t) \/ OpenChat(t)
  PROVE  Told'
  <1>1. pc[t] \in {"executing", "native"} /\ UNCHANGED <<row, result, center, queue>>
    BY DEF Refuse, SendText, SendReturns, OpenChat, table, outside
  <1>2. {"storing", "native"} \subseteq Places
        /\ "storing" \notin Afterwards /\ "native" \notin Afterwards
    BY DEF Places, Executing, Afterwards
  <1>3. ASSUME NEW r \in Results, Goes(t, "storing", r), UNCHANGED receipt PROVE Told'
    <2>1. r # "none"
      BY DEF Results
    <2> QED
      BY <1>1, <1>2, <1>3, <2>1, SameTable, HandGoes DEF Told
  <1>4. CASE Refuse(t)
    BY <1>3, <1>4 DEF Refuse, receipts, Results
  <1>5. CASE OpenChat(t)
    BY <1>3, <1>5 DEF OpenChat, receipts, Results
  <1>6. CASE SendReturns(t)
    <2>1. cmd[t] \in Sends /\ receipt[cmd[t]] \in Results
      BY <1>6 DEF SendReturns, Told, HandsTold, HandTold, TableTold, Results
    <2> QED
      BY <1>3, <1>6, <2>1 DEF SendReturns, receipts, Results
  <1>7. CASE SendText(t)
    <2>1. CASE receipt[cmd[t]] # "none"
      <3>1. receipt[cmd[t]] \in Results /\ Goes(t, "storing", receipt[cmd[t]])
            /\ UNCHANGED receipt
        BY <1>7, <2>1 DEF SendText, receipts, Receipts!Open, Told, TableTold, Results
      <3> QED
        BY <1>3, <3>1
    <2>2. CASE receipt[cmd[t]] = "none"
      <3>1. /\ cmd[t] \in Sends /\ receipt' = [receipt EXCEPT ![cmd[t]] = "open"]
            /\ Goes(t, "native", "none")
        BY <1>7, <2>2 DEF SendText, Receipts!Open
      <3>2. /\ receipt' \in [Sends -> {"none", "open", "confirmed", "unknown", "rejected"}]
            /\ receipt'[cmd[t]] # "none"
            /\ \A c \in Sends : receipt[c] # "none" => receipt'[c] # "none"
        BY <3>1 DEF Told, TableTold
      <3>3. NothingLost /\ TableTold'
        BY <1>1, <3>2 DEF NothingLost, Told, TableTold, ReportedIsDurable,
          AcknowledgedIsKnown, Durable
      <3>4. HandsTold'
        BY <1>1, <1>2, <3>1, <3>2, <3>3, HandGoes
      <3> QED
        BY <3>3, <3>4 DEF Told
    <2> QED
      BY <2>1, <2>2
  <1> QED
    BY <1>4, <1>5, <1>6, <1>7

LEMMA ReceiptsTold ==
  ASSUME Told, (\E t \in Threads : HandOver(t)) \/ ReceiptMoves PROVE Told'
  <1>1. UNCHANGED <<row, result, center, queue>> /\ UNCHANGED threads
    BY DEF HandOver, ReceiptMoves, table, outside
  <1>2. /\ receipt' \in [Sends -> {"none", "open", "confirmed", "unknown", "rejected"}]
        /\ \A c \in Sends : receipt[c] # "none" => receipt'[c] # "none"
    <2>1. receipt \in [Sends -> {"none", "open", "confirmed", "unknown", "rejected"}]
      BY DEF Told, TableTold
    <2>2. CASE ReceiptMoves
      BY <2>1, <2>2 DEF ReceiptMoves, Receipts!Recall, Receipts!Reject,
        Receipts!Confirm, Receipts!GiveUp
    <2>3. CASE \E t \in Threads : HandOver(t)
      BY <2>1, <2>3 DEF HandOver, Receipts!Deliver
    <2> QED
      BY <2>2, <2>3
  <1>3. NothingLost /\ TableTold'
    BY <1>1, <1>2 DEF NothingLost, Told, TableTold, ReportedIsDurable,
      AcknowledgedIsKnown, Durable
  <1> QED
    BY <1>1, <1>3, NoHand DEF Told

\* The result is stored before it is reported; an acknowledged row that is
\* stored again is still known to the center.
LEMMA StoreTold ==
  ASSUME Told, NEW t \in Threads, Store(t) PROVE Told'
  <1> DEFINE c == cmd[t]
  <1>1. /\ c \in Commands /\ pc[t] # "idle" /\ res[t] \in Results /\ res[t] # "none"
        /\ row' = [row EXCEPT ![c] = "result_pending"]
        /\ result' = [result EXCEPT ![c] = res[t]]
        /\ UNCHANGED <<queue, receipt, center>>
    BY DEF Store, receipts, outside, Told, HandsTold, HandTold, Afterwards
  <1>2. /\ row' \in [Commands -> {"none", "in_flight", "result_pending", "acknowledged"}]
        /\ result' \in [Commands -> Results \cup {"none"}]
        /\ row'[c] = "result_pending" /\ result'[c] # "none"
        /\ \A d \in Commands : d # c => row'[d] = row[d] /\ result'[d] = result[d]
    BY <1>1 DEF Told, TableTold
  <1>3. NothingLost /\ TableTold'
    BY <1>1, <1>2
      DEF NothingLost, Told, TableTold, ReportedIsDurable, AcknowledgedIsKnown, Durable
  <1>4. PICK to \in {"renewing", "reporting"} : Goes(t, to, res[t])
    BY DEF Store
  <1>5. to \in Places /\ Durable(c)'
    BY <1>1, <1>2, <1>4 DEF Places, Afterwards, Durable, Goes
  <1>6. HandsTold'
    BY <1>1, <1>3, <1>4, <1>5, HandGoes
  <1> QED
    BY <1>3, <1>6 DEF Told

LEMMA ReportTold ==
  ASSUME Told, NEW t \in Threads, Report(t) \/ ReportFails(t) PROVE Told'
  <1> DEFINE c == cmd[t]
  <1>1. /\ c \in Commands /\ pc[t] # "idle" /\ Durable(c)
        /\ res[t] \in Results /\ res[t] # "none"
        /\ UNCHANGED <<row, result, queue, receipt>>
    BY DEF Report, ReportFails, table, receipts, Told, HandsTold, HandTold, Afterwards
  <1>2. center' = center \/ center' = [center EXCEPT ![c] = res[t]]
    BY DEF Report, ReportFails
  <1>3. /\ center' \in [Commands -> Results \cup {"none"}]
        /\ \A d \in Commands : center'[d] = center[d] \/ (d = c /\ center'[d] = res[t])
    BY <1>1, <1>2 DEF Told, TableTold
  <1>4. NothingLost /\ TableTold'
    BY <1>1, <1>3
      DEF NothingLost, Told, TableTold, ReportedIsDurable, AcknowledgedIsKnown, Durable
  <1>5. CASE Report(t)
    <2>1. Goes(t, "acking", res[t]) /\ center' = [center EXCEPT ![c] = res[t]]
      BY <1>5 DEF Report
    <2>2. center'[c] # "none" /\ Durable(c)' /\ "acking" \in Places
      BY <1>1, <2>1 DEF Told, TableTold, Durable, Goes, Places, Afterwards
    <2>3. HandsTold'
      BY <1>1, <1>4, <2>1, <2>2, HandGoes
    <2> QED
      BY <1>4, <2>3 DEF Told
  <1>6. CASE ReportFails(t)
    BY <1>4, <1>6, HandIsDone DEF ReportFails, Told
  <1> QED
    BY <1>5, <1>6

LEMMA AcknowledgeTold ==
  ASSUME Told, NEW t \in Threads, Acknowledge(t) PROVE Told'
  <1> DEFINE c == cmd[t]
  <1>1. /\ c \in Commands /\ Durable(c) /\ center[c] # "none"
        /\ row' = [row EXCEPT ![c] = "acknowledged"] /\ NextResult(t)
        /\ UNCHANGED <<result, queue, receipt, center>>
    BY DEF Acknowledge, receipts, outside, Told, HandsTold, HandTold, Afterwards
  <1>2. /\ row' \in [Commands -> {"none", "in_flight", "result_pending", "acknowledged"}]
        /\ row'[c] = "acknowledged"
        /\ \A d \in Commands : d # c => row'[d] = row[d]
    BY <1>1 DEF Told, TableTold
  <1>3. NothingLost /\ TableTold'
    BY <1>1, <1>2
      DEF NothingLost, Told, TableTold, ReportedIsDurable, AcknowledgedIsKnown, Durable
  <1> QED
    BY <1>1, <1>3, HandIsDone DEF Told

\* A command is taken from the queue, or handled by the thread it came to.
LEMMA BeginsTold ==
  ASSUME Told, NEW t \in Threads, NEW c \in Commands,
         NEW to \in {"locking", "claiming"}, NEW q \in Seq(Commands),
         pc' = [pc EXCEPT ![t] = to], cmd' = [cmd EXCEPT ![t] = c], queue' = q,
         UNCHANGED <<row, result, center, receipt, res, todo>>
  PROVE  Told'
  <1>1. /\ pc' \in [Threads -> Places] /\ pc'[t] = to
        /\ cmd' \in [Threads -> Commands \cup {NoCommand}] /\ cmd'[t] = c
        /\ \A u \in Threads \ {t} : pc'[u] = pc[u] /\ cmd'[u] = cmd[u]
    BY DEF Told, HandsTold, Places
  <1>2. NothingLost /\ TableTold'
    BY DEF NothingLost, Told, TableTold, ReportedIsDurable, AcknowledgedIsKnown, Durable
  <1>3. HandTold(t)'
    BY <1>1 DEF HandTold, Afterwards
  <1>4. \A u \in Threads \ {t} : HandTold(u)'
    BY <1>1, <1>2, OtherHand
  <1>5. HandsTold'
    BY <1>1, <1>2, <1>3, <1>4, TodoStays DEF Told, HandsTold, Durable
  <1> QED
    BY <1>2, <1>5 DEF Told

LEMMA TakeTold ==
  ASSUME Told, NEW w \in Workers, Take(w) PROVE Told'
  <1>1. queue \in Seq(Commands) /\ queue # <<>>
    BY DEF Take, Told, TableTold
  <1>2. Head(queue) \in Commands /\ Tail(queue) \in Seq(Commands)
    BY <1>1
  <1> QED
    BY <1>2, BeginsTold DEF Take, Threads, table, receipts, outside

LEMMA LockTold ==
  ASSUME Told, NEW w \in Workers, Lock(w) PROVE Told'
  <1>1. /\ w \in Threads /\ cmd[w] \in Commands /\ queue \in Seq(Commands)
        /\ cmd' = [cmd EXCEPT ![w] = cmd[w]] /\ queue' = queue
        /\ pc' = [pc EXCEPT ![w] = "claiming"]
        /\ UNCHANGED <<row, result, center, receipt, res, todo>>
    BY DEF Lock, Threads, table, receipts, outside, Told, HandsTold, HandTold, TableTold
  <1> QED
    BY <1>1, BeginsTold

LEMMA DispatchTold ==
  ASSUME Told, NEW t \in Receivers, NEW c \in Commands, Dispatch(t, c) PROVE Told'
  <1>1. t \in Threads /\ queue \in Seq(Commands)
    BY DEF Threads, Told, TableTold
  <1>2. UNCHANGED <<row, result, center, receipt>>
    BY DEF Dispatch, table, receipts
  <1>3. CASE Len(queue) < QueueMax
    <2>1. queue' = Append(queue, c) /\ UNCHANGED threads
      BY <1>3 DEF Dispatch
    <2>2. queue' \in Seq(Commands)
      BY <1>1, <2>1
    <2>3. NothingLost /\ TableTold'
      BY <1>2, <2>2 DEF NothingLost, Told, TableTold, ReportedIsDurable,
        AcknowledgedIsKnown, Durable
    <2> QED
      BY <2>1, <2>3, NoHand DEF Told
  <1>4. CASE ~(Len(queue) < QueueMax)
    BY <1>1, <1>2, <1>4, BeginsTold DEF Dispatch
  <1> QED
    BY <1>3, <1>4

LEMMA RetryTold == Told /\ Retry => Told'
  <1> SUFFICES ASSUME Told, Retry PROVE Told'
    OBVIOUS
  <1> DEFINE pending == {c \in Commands : row[c] = "result_pending"}
  <1>1. PICK n \in 1..Len(age) : \E due \in [1..n -> pending] :
          /\ pc' = [pc EXCEPT ![Poller] = "retrying"]
          /\ cmd' = [cmd EXCEPT ![Poller] = due[1]]
          /\ res' = [res EXCEPT ![Poller] = result[due[1]]]
          /\ todo' = [i \in 1..n - 1 |-> <<due[i + 1], result[due[i + 1]]>>]
    BY DEF Retry
  <1>2. PICK due \in [1..n -> pending] :
          /\ pc' = [pc EXCEPT ![Poller] = "retrying"]
          /\ cmd' = [cmd EXCEPT ![Poller] = due[1]]
          /\ res' = [res EXCEPT ![Poller] = result[due[1]]]
          /\ todo' = [i \in 1..n - 1 |-> <<due[i + 1], result[due[i + 1]]>>]
    BY <1>1
  <1>3. n \in Nat /\ 1 \in 1..n
    OBVIOUS
  <1>4. Poller \in Threads
    BY ThreadsAssumption DEF Threads
  <1>5. UNCHANGED <<row, result, queue, receipt, center>>
    BY DEF Retry, table, receipts, outside
  <1>6. \A i \in 1..n : /\ due[i] \in Commands /\ Durable(due[i])
                       /\ result[due[i]] \in Results /\ result[due[i]] # "none"
    <2>1. ASSUME NEW i \in 1..n
          PROVE  /\ due[i] \in Commands /\ Durable(due[i])
                 /\ result[due[i]] \in Results /\ result[due[i]] # "none"
      <3>1. due[i] \in pending
        BY <1>2
      <3>2. due[i] \in Commands /\ Durable(due[i])
        BY <3>1 DEF Durable
      <3> QED
        BY <3>2 DEF Told, TableTold
    <2> QED
      BY <2>1
  <1>7. /\ todo' \in Seq(Commands \X Results)
        /\ \A i \in DOMAIN todo' : Durable(todo'[i][1])
    <2>1. n - 1 \in Nat /\ \A i \in 1..n - 1 : i + 1 \in 1..n
      BY <1>3
    <2>2. \A i \in 1..n - 1 : <<due[i + 1], result[due[i + 1]]>> \in Commands \X Results
      BY <1>6, <2>1
    <2>3. todo' \in [1..n - 1 -> Commands \X Results]
      BY <1>2, <2>2
    <2>4. todo' \in Seq(Commands \X Results) /\ DOMAIN todo' = 1..n - 1
      BY <2>1, <2>3
    <2> QED
      BY <1>2, <1>6, <2>1, <2>4
  <1>8. /\ pc' \in [Threads -> Places]
        /\ cmd' \in [Threads -> Commands \cup {NoCommand}]
        /\ res' \in [Threads -> Results \cup {"none"}]
        /\ pc'[Poller] = "retrying" /\ cmd'[Poller] \in Commands
        /\ Durable(cmd'[Poller]) /\ res'[Poller] # "none"
        /\ \A u \in Threads \ {Poller} :
              pc'[u] = pc[u] /\ cmd'[u] = cmd[u] /\ res'[u] = res[u]
    <2>1. "retrying" \in Places
      BY DEF Places, Afterwards
    <2> QED
      BY <1>2, <1>3, <1>4, <1>6, <2>1 DEF Told, HandsTold
  <1>9. NothingLost /\ TableTold'
    BY <1>5, SameTable
  <1>10. HandTold(Poller)'
    BY <1>5, <1>8 DEF HandTold, Durable
  <1>11. \A u \in Threads \ {Poller} : HandTold(u)'
    BY <1>8, <1>9, OtherHand
  <1>12. HandsTold'
    BY <1>5, <1>7, <1>8, <1>10, <1>11 DEF HandsTold, Durable
  <1> QED
    BY <1>9, <1>12 DEF Told

LEMMA CrashTold == Told /\ Crash => Told'
  <1> SUFFICES ASSUME Told, Crash PROVE Told'
    OBVIOUS
  <1>1. /\ queue' = <<>> /\ todo' = <<>>
        /\ pc' = [t \in Threads |-> "idle"]
        /\ cmd' = [t \in Threads |-> NoCommand]
        /\ res' = [t \in Threads |-> "none"]
        /\ UNCHANGED <<row, result, receipt, center>>
    BY DEF Crash, table, receipts, outside
  <1>2. TableTold'
    BY <1>1 DEF Told, TableTold, ReportedIsDurable, AcknowledgedIsKnown, Durable
  <1>3. HandsTold'
    BY <1>1 DEF HandsTold, HandTold, Places, Afterwards
  <1> QED
    BY <1>2, <1>3 DEF Told

LEMMA InitTold == Init => Told
  <1> SUFFICES ASSUME Init PROVE Told
    OBVIOUS
  <1>1. TableTold
    BY DEF Init, TableTold, ReportedIsDurable, AcknowledgedIsKnown, Durable,
       Receipts!Init
  <1>2. HandsTold
    BY DEF Init, HandsTold, HandTold, Places, Afterwards
  <1> QED
    BY <1>1, <1>2 DEF Told

LEMMA ToldKeeps == Told /\ [Next]_vars => Told'
  <1> SUFFICES ASSUME Told, [Next]_vars PROVE Told'
    OBVIOUS
  <1>1. ASSUME NEW t \in Threads, Handle(t) PROVE Told'
    BY <1>1, ClaimTold, ExecuteTold, StoreTold, ReportTold, AcknowledgeTold DEF Handle
  <1>2. ASSUME NEW t \in Threads, HandOver(t) PROVE Told'
    BY <1>2, ReceiptsTold
  <1>3. ASSUME NEW w \in Workers, Work(w) PROVE Told'
    BY <1>3, TakeTold, LockTold DEF Work
  <1>4. ASSUME NEW t \in Receivers, NEW c \in Commands, Dispatch(t, c) PROVE Told'
    BY <1>4, DispatchTold
  <1>5. CASE Retry \/ ReceiptMoves \/ Crash
    BY <1>5, RetryTold, ReceiptsTold, CrashTold
  <1>6. CASE UNCHANGED vars
    <2>1. UNCHANGED <<row, result, center, receipt, queue>> /\ UNCHANGED threads
      BY <1>6 DEF vars, threads
    <2> QED
      BY <2>1, SameTable, NoHand DEF Told
  <1> QED
    BY <1>1, <1>2, <1>3, <1>4, <1>5, <1>6 DEF Next

\* Whatever the size of the queue, and whichever thread executes a command, the
\* center is told only what the table of commands holds already, and a row is
\* acknowledged only once the center took a result of it (handle_command:
\* store_brain_command_result before report_command_result, and
\* acknowledge_brain_command after it).
THEOREM ToldIsStored == Spec => [](ReportedIsDurable /\ AcknowledgedIsKnown)
  <1>1. Told => ReportedIsDurable /\ AcknowledgedIsKnown
    BY DEF Told, TableTold
  <1> QED
    BY <1>1, InitTold, ToldKeeps, PTL DEF Spec
-----------------------------------------------------------------------------
(* The rest of the types: the order of the table and what is counted.         *)

RestTypes ==
    /\ age \in Seq(Commands) /\ arrived \in Seq(Commands)
    /\ \A i, j \in DOMAIN age : age[i] = age[j] => i = j
    /\ \A t \in Threads : pc[t] = "idle" => cmd[t] = NoCommand
    /\ copies \in [Sends -> {0, 1}]
    /\ opened \in [Chats -> Nat]
    /\ crashes \in Nat

\* A command that is touched has one place in the order, the last.
LEMMA TouchKeeps ==
  ASSUME age \in Seq(Commands), \A i, j \in DOMAIN age : age[i] = age[j] => i = j,
         NEW c \in Commands, Touch(c)
  PROVE  /\ age' \in Seq(Commands)
         /\ \A i, j \in DOMAIN age' : age'[i] = age'[j] => i = j
  <1> DEFINE p == Place(c)
             a == SubSeq(age, 1, p - 1)
             b == SubSeq(age, p + 1, Len(age))
             others == IF c \in Elements(age) THEN RemoveAt(age, p) ELSE age
  <1>1. age' = Append(others, c)
    BY DEF Touch
  <1>2. /\ others \in Seq(Commands)
        /\ \A i \in DOMAIN others : others[i] # c
        /\ \A i, j \in DOMAIN others : others[i] = others[j] => i = j
    <2>1. CASE c \notin Elements(age)
      BY <2>1 DEF Elements
    <2>2. CASE c \in Elements(age)
      <3>1. p \in 1 .. Len(age) /\ age[p] = c
        BY <2>2 DEF Elements, Place
      <3> HIDE DEF p
      <3> DEFINE n == Len(age)
      <3>2. /\ a \in Seq(Commands) /\ Len(a) = p - 1
            /\ \A i \in 1 .. p - 1 : a[i] = age[i]
        BY <3>1
      <3>3. /\ b \in Seq(Commands) /\ Len(b) = n - p
            /\ \A i \in 1 .. n - p : b[i] = age[i + p]
        BY <3>1
      <3>4. others = a \o b
        BY <2>2 DEF RemoveAt
      <3> HIDE DEF others, a, b
      <3>5. /\ others \in Seq(Commands) /\ DOMAIN others = 1 .. n - 1
            /\ \A i \in 1 .. n - 1 : others[i] = IF i < p THEN age[i] ELSE age[i + 1]
        <4>1. n \in Nat /\ p \in Nat /\ 1 <= p /\ p <= n
          BY <3>1
        <4>2. others \in Seq(Commands) /\ Len(others) = n - 1
          BY <3>2, <3>3, <3>4, <4>1
        <4>3. ASSUME NEW i \in 1 .. n - 1
              PROVE  others[i] = IF i < p THEN age[i] ELSE age[i + 1]
          <5>1. CASE i < p
            <6>1. i \in 1 .. p - 1
              BY <4>1, <5>1
            <6>2. others[i] = a[i]
              BY <3>2, <3>3, <3>4, <6>1
            <6> QED
              BY <3>2, <5>1, <6>1, <6>2
          <5>2. CASE ~ (i < p)
            <6>1. i - (p - 1) \in 1 .. n - p /\ i - (p - 1) + p = i + 1
              BY <4>1, <5>2
            <6>2. others[i] = b[i - (p - 1)]
              BY <3>2, <3>3, <3>4, <4>1, <6>1, <5>2
            <6>3. b[i - (p - 1)] = age[i + 1]
              BY <3>3, <6>1
            <6> QED
              BY <5>2, <6>2, <6>3
          <5> QED
            BY <5>1, <5>2
        <4> QED
          BY <4>2, <4>3
      <3>6. n \in Nat /\ p \in Nat /\ p <= n /\ DOMAIN age = 1 .. n
        BY <3>1
      <3> HIDE DEF n
      <3> DEFINE at(i) == IF i < p THEN i ELSE i + 1
      <3>7. \A i \in 1 .. n - 1 : at(i) \in 1 .. n /\ at(i) # p /\ others[i] = age[at(i)]
        BY <3>5, <3>6
      <3>8. \A i, j \in 1 .. n - 1 : at(i) = at(j) => i = j
        BY <3>6
      <3> HIDE DEF at
      <3>9. ASSUME NEW i \in 1 .. n - 1 PROVE others[i] # c
        BY <3>1, <3>6, <3>7
      <3>10. ASSUME NEW i \in 1 .. n - 1, NEW j \in 1 .. n - 1, others[i] = others[j]
             PROVE  i = j
        BY <3>6, <3>7, <3>8, <3>10
      <3> QED
        BY <3>5, <3>9, <3>10
    <2> QED
      BY <2>1, <2>2
  <1> HIDE DEF others
  <1>3. /\ age' \in Seq(Commands) /\ DOMAIN age' = 1 .. Len(others) + 1
        /\ DOMAIN others = 1 .. Len(others) /\ Len(others) \in Nat
        /\ age'[Len(others) + 1] = c
        /\ \A i \in DOMAIN others : age'[i] = others[i]
    BY <1>1, <1>2
  <1>4. ASSUME NEW i \in DOMAIN age', NEW j \in DOMAIN age', age'[i] = age'[j]
        PROVE  i = j
    <2>1. /\ i \in DOMAIN others \/ i = Len(others) + 1
          /\ j \in DOMAIN others \/ j = Len(others) + 1
      BY <1>3
    <2> QED
      BY <1>2, <1>3, <1>4, <2>1
  <1> QED
    BY <1>3, <1>4

\* A thread that goes on keeps its command, one that rests has none.
LEMMA GoesRest ==
  ASSUME Told, RestTypes, NEW t \in Threads, NEW to, to # "idle", NEW r,
         Goes(t, to, r) \/ Rests(t)
  PROVE  \A u \in Threads : pc'[u] = "idle" => cmd'[u] = NoCommand
  <1>1. CASE Goes(t, to, r)
    BY <1>1 DEF Told, HandsTold, RestTypes, Goes
  <1>2. CASE Rests(t)
    BY <1>2 DEF Told, HandsTold, RestTypes, Rests
  <1> QED
    BY <1>1, <1>2

\* The steps that leave the order of the table and the counts alone.
LEMMA SameRest ==
  ASSUME RestTypes, UNCHANGED <<age, arrived, copies, opened, crashes>>,
         \A u \in Threads : pc'[u] = "idle" => cmd'[u] = NoCommand
  PROVE  RestTypes'
  BY DEF RestTypes

LEMMA TableRest ==
  ASSUME Told, RestTypes, NEW t \in Threads, Claim(t) \/ Store(t) \/ ReportFails(t)
  PROVE  RestTypes'
  <1>1. cmd[t] \in Commands
    BY DEF Told, HandsTold, HandTold, Claim, Store, ReportFails
  <1>2. UNCHANGED <<arrived, copies, opened, crashes>>
    BY DEF Claim, Store, ReportFails, receipts, outside
  <1>3. Touch(cmd[t]) \/ age' = age
    BY DEF Claim, Store, ReportFails
  <1>4. /\ age' \in Seq(Commands)
        /\ \A i, j \in DOMAIN age' : age'[i] = age'[j] => i = j
    BY <1>1, <1>3, TouchKeeps DEF RestTypes
  <1>5. \A u \in Threads : pc'[u] = "idle" => cmd'[u] = NoCommand
    BY GoesRest DEF Claim, Store, ReportFails
  <1> QED
    BY <1>2, <1>4, <1>5 DEF RestTypes

LEMMA HandleRest ==
  ASSUME Told, RestTypes, NEW t \in Threads, Handle(t)
  PROVE  RestTypes'
  <1>1. CASE Claim(t) \/ Store(t) \/ ReportFails(t)
    BY <1>1, TableRest
  <1>2. CASE Refuse(t) \/ Report(t)
    <2>1. UNCHANGED <<age, arrived, copies, opened, crashes>>
      BY <1>2 DEF Refuse, Report, table, receipts, outside
    <2>2. \A u \in Threads : pc'[u] = "idle" => cmd'[u] = NoCommand
      BY <1>2, GoesRest DEF Refuse, Report
    <2> QED
      BY <2>1, <2>2, SameRest
  <1>3. CASE SendText(t)
    <2>1. UNCHANGED <<age, arrived, copies, opened, crashes>>
      BY <1>3 DEF SendText, table, receipts, outside, Receipts!Open
    <2>2. \A u \in Threads : pc'[u] = "idle" => cmd'[u] = NoCommand
      BY <1>3, GoesRest DEF SendText
    <2> QED
      BY <2>1, <2>2, SameRest
  <1>4. CASE SendReturns(t)
    <2>1. UNCHANGED <<age, arrived, copies, opened, crashes>>
      BY <1>4 DEF SendReturns, table, receipts, outside
    <2>2. \A u \in Threads : pc'[u] = "idle" => cmd'[u] = NoCommand
      BY <1>4, GoesRest DEF SendReturns
    <2> QED
      BY <2>1, <2>2, SameRest
  <1>5. CASE OpenChat(t)
    <2>1. UNCHANGED <<age, arrived, copies, crashes>>
      BY <1>5 DEF OpenChat, table, receipts
    <2>2. opened' \in [Chats -> Nat]
      BY <1>5 DEF OpenChat, RestTypes
    <2>3. \A u \in Threads : pc'[u] = "idle" => cmd'[u] = NoCommand
      BY <1>5, GoesRest DEF OpenChat
    <2> QED
      BY <2>1, <2>2, <2>3 DEF RestTypes
  <1>6. CASE Acknowledge(t)
    <2>1. UNCHANGED <<age, arrived, copies, opened, crashes>>
      BY <1>6 DEF Acknowledge, receipts, outside
    <2>2. \A u \in Threads : pc'[u] = "idle" => cmd'[u] = NoCommand
      <3>1. CASE Rests(t)
        BY <3>1, GoesRest
      <3>2. CASE ~ Rests(t)
        BY <1>6, <3>2 DEF Acknowledge, NextResult, RestTypes, Told, HandsTold
      <3> QED
        BY <3>1, <3>2
    <2> QED
      BY <2>1, <2>2, SameRest
  <1> QED
    BY <1>1, <1>2, <1>3, <1>4, <1>5, <1>6 DEF Handle

LEMMA ReceiptsRest ==
  ASSUME Told, RestTypes,
         ReceiptMoves \/ \E t \in Threads : HandOver(t)
  PROVE  RestTypes'
  <1>1. UNCHANGED <<age, arrived, opened, crashes, pc, cmd>>
    BY DEF ReceiptMoves, HandOver, table, threads, outside
  <1>2. copies' \in [Sends -> {0, 1}]
    BY DEF ReceiptMoves, HandOver, RestTypes, Receipts!Recall, Receipts!Reject,
       Receipts!Confirm, Receipts!GiveUp, Receipts!Deliver
  <1> QED
    BY <1>1, <1>2 DEF RestTypes

LEMMA BeginsRest ==
  ASSUME Told, RestTypes,
         \/ \E w \in Workers : Work(w)
         \/ \E t \in Receivers, c \in Commands : Dispatch(t, c)
         \/ Retry \/ Crash \/ UNCHANGED vars
  PROVE  RestTypes'
  <1>1. CASE \E w \in Workers : Work(w)
    <2>1. PICK w \in Workers : Take(w) \/ Lock(w)
      BY <1>1 DEF Work
    <2>2. UNCHANGED <<age, arrived, copies, opened, crashes>> /\ w \in Threads
      BY <2>1 DEF Take, Lock, table, receipts, outside, Threads
    <2>3. \A u \in Threads : pc'[u] = "idle" => cmd'[u] = NoCommand
      BY <2>1, <2>2 DEF Take, Lock, RestTypes, Told, HandsTold
    <2> QED
      BY <2>2, <2>3, SameRest
  <1>2. ASSUME NEW t \in Receivers, NEW c \in Commands, Dispatch(t, c)
        PROVE  RestTypes'
    <2>1. UNCHANGED <<age, copies, opened, crashes>> /\ t \in Threads
      BY <1>2 DEF Dispatch, table, receipts, Threads
    <2>2. arrived' \in Seq(Commands)
      BY <1>2 DEF Dispatch, RestTypes
    <2>3. \A u \in Threads : pc'[u] = "idle" => cmd'[u] = NoCommand
      BY <1>2, <2>1 DEF Dispatch, threads, RestTypes, Told, HandsTold
    <2> QED
      BY <2>1, <2>2, <2>3 DEF RestTypes
  <1>3. CASE Retry
    <2>1. UNCHANGED <<age, arrived, copies, opened, crashes>> /\ Poller \in Threads
      BY <1>3, ThreadsAssumption DEF Retry, table, receipts, outside, Threads
    <2>2. \A u \in Threads : pc'[u] = "idle" => cmd'[u] = NoCommand
      BY <1>3, <2>1 DEF Retry, RestTypes, Told, HandsTold
    <2> QED
      BY <2>1, <2>2, SameRest
  <1>4. CASE Crash
    BY <1>4, PoolAssumption DEF Crash, RestTypes, table, receipts, outside
  <1>5. CASE UNCHANGED vars
    BY <1>5 DEF vars, RestTypes
  <1> QED
    BY <1>1, <1>2, <1>3, <1>4, <1>5

\* Every reachable state is of the declared types, also if the queue overflows:
\* a command has one place in the order of the table, and a thread holds a
\* command exactly while it is in handle_command or has a result to report.
THEOREM TypeCorrect == Spec => []TypeOK
  <1>1. Init => Told /\ RestTypes
    <2> SUFFICES ASSUME Init PROVE RestTypes
      BY InitTold
    <2>1. <<>> \in Seq(Commands) /\ DOMAIN <<>> = {}
      OBVIOUS
    <2> QED
      BY <2>1 DEF Init, RestTypes, Receipts!Init
  <1>2. Told /\ RestTypes /\ [Next]_vars => Told' /\ RestTypes'
    <2> SUFFICES ASSUME Told, RestTypes, [Next]_vars PROVE RestTypes'
      BY ToldKeeps
    <2> QED
      BY HandleRest, ReceiptsRest, BeginsRest DEF Next
  <1>3. Told /\ RestTypes => TypeOK
    <2> SUFFICES ASSUME Told, RestTypes PROVE TypeOK
      OBVIOUS
    <2>1. \A t \in Threads : pc[t] = "idle" <=> cmd[t] = NoCommand
      BY KindsAssumption DEF RestTypes, Told, HandsTold, HandTold
    <2> QED
      BY <2>1 DEF TypeOK, RestTypes, Told, HandsTold, TableTold, Places,
         Executing, Afterwards
  <1> QED
    BY <1>1, <1>2, <1>3, PTL DEF Spec
=============================================================================
