---------------------------- MODULE BridgeProofs -----------------------------
(* Proofs about the upload queue, for any events, uploaders, contents and     *)
(* rare events, and about the parts of the bridge that MCBridge puts beside   *)
(* it, for any pages, conversations, messages and paths: each part's          *)
(* invariant is kept while that part is at work, and no other part touches    *)
(* its state.                                                                 *)
EXTENDS MCBridge, Sequences, FiniteSetTheorems, WellFoundedInduction, TLAPS

-----------------------------------------------------------------------------
(* BrainQueue: what the pool of uploaders relies on.                          *)

\* Revisions are numbers that the event's content has had.
Numbered ==
    \A e \in Events :
        /\ rev[e] <= made[e]
        /\ Has(e) => brain[e].rev <= made[e]
        /\ \A u \in Uploaders : hold[u][e] # NoHold => hold[u][e].rev <= made[e]

\* The queue is never ahead of the event it queues.
QueueBehind ==
    \A e \in Events : Has(e) /\ rev[e] # 0 => brain[e].rev <= rev[e]

\* An uploader's revision is the row's, and then the row is "sending", or it is
\* an older one, older also than what the queue would take next.
HolderIsLast ==
    \A u \in Uploaders : \A e \in Events : hold[u][e] # NoHold =>
        /\ Has(e) => /\ hold[u][e].rev <= brain[e].rev
                     /\ hold[u][e].rev = brain[e].rev => brain[e].status = "sending"
        /\ ~Has(e) /\ rev[e] # 0 => hold[u][e].rev < rev[e]

IdleHoldsNothing ==
    \A u \in Uploaders : pc[u] = "idle" => \A e \in Events : hold[u][e] = NoHold

\* The types the queue's proofs need: the rest of TypeOK takes no part in them.
TableTypes ==
    /\ rev \in [Events -> Nat]
    /\ made \in [Events -> Nat]
    /\ brain \in [Events -> Rows \cup {NoRow}]
    /\ pc \in [Uploaders -> {"idle", "claimed", "waiting", "answered"}]
    /\ hold \in [Uploaders -> [Events -> Holds \cup {NoHold}]]

QInv ==
    /\ TableTypes
    /\ Numbered
    /\ QueueBehind
    /\ SendingIsHeld
    /\ OneHolder
    /\ HolderIsLast
    /\ IdleHoldsNothing

\* Nothing is queued and nothing is held.
LEMMA InitHolds == Init => QInv
  BY DistinctAssumption
  DEF Init, Nothing, QInv, TableTypes, Numbered, QueueBehind, SendingIsHeld,
    OneHolder, HolderIsLast, IdleHoldsNothing, Has, StatusIs

\* A new content is newer than anything queued or held.
LEMMA NewContentIsNewer ==
    ASSUME QInv, NEW e \in Events, NewContent(e)
    PROVE  /\ rev' \in [Events -> Nat] /\ made' \in [Events -> Nat]
           /\ rev'[e] = made[e] + 1 /\ made'[e] = made[e] + 1
           /\ \A f \in Events \ {e} : rev'[f] = rev[f] /\ made'[f] = made[f]
           /\ Has(e) => brain[e].rev < rev'[e]
           /\ \A u \in Uploaders :
                 hold[u][e] # NoHold => hold[u][e].rev < rev'[e]
  <1>1. TableTypes /\ Numbered
    BY DEF QInv
  <1>2. made[e] \in Nat /\ rev[e] \in Nat
    BY <1>1 DEF TableTypes
  <1>3. /\ rev' \in [Events -> Nat] /\ made' \in [Events -> Nat]
        /\ rev'[e] = made[e] + 1 /\ made'[e] = made[e] + 1
        /\ \A f \in Events \ {e} : rev'[f] = rev[f] /\ made'[f] = made[f]
    BY <1>1 DEF TableTypes, NewContent
  <1>4. Has(e) => brain[e].rev \in Nat /\ brain[e].rev <= made[e]
    BY <1>1 DEF TableTypes, Numbered, Has, Rows
  <1>5. \A u \in Uploaders : hold[u][e] # NoHold =>
           hold[u][e].rev \in Nat /\ hold[u][e].rev <= made[e]
    <2> SUFFICES ASSUME NEW u \in Uploaders, hold[u][e] # NoHold
                 PROVE  hold[u][e].rev \in Nat /\ hold[u][e].rev <= made[e]
      OBVIOUS
    <2>1. hold[u][e] \in Holds
      BY <1>1 DEF TableTypes
    <2> QED
      BY <1>1, <2>1 DEF Numbered, Holds
  <1> QED
    BY <1>2, <1>3, <1>4, <1>5

\* A step that touches neither table nor what is held, and makes no uploader
\* idle, keeps the invariant.
LEMMA SameTables ==
    ASSUME QInv, UNCHANGED <<rev, made, brain, hold>>,
           pc' \in [Uploaders -> {"idle", "claimed", "waiting", "answered"}],
           \A u \in Uploaders : pc'[u] = "idle" => pc[u] = "idle"
    PROVE  QInv'
  BY DEF QInv, TableTypes, Numbered, QueueBehind, SendingIsHeld, OneHolder,
    HolderIsLast, IdleHoldsNothing, Has, StatusIs

\* A new content of an event that the queue is not told of keeps it too.
LEMMA RewriteKeeps ==
    ASSUME QInv, NEW e \in Events, NewContent(e), UNCHANGED <<brain, pool>>
    PROVE  QInv'
  <1>1. TableTypes' /\ OneHolder' /\ IdleHoldsNothing' /\ SendingIsHeld'
    BY NewContentIsNewer
    DEF QInv, TableTypes, pool, OneHolder, IdleHoldsNothing, SendingIsHeld,
      StatusIs, Has
  <1>2. Numbered'
    BY NewContentIsNewer DEF QInv, TableTypes, pool, Numbered, Has, Rows, Holds
  <1>3. QueueBehind'
    BY NewContentIsNewer DEF QInv, TableTypes, pool, QueueBehind, Has, Rows
  <1>4. HolderIsLast'
    BY NewContentIsNewer DEF QInv, TableTypes, pool, HolderIsLast, Has, Holds
  <1> QED
    BY <1>1, <1>2, <1>3, <1>4 DEF QInv

\* What a row or an uploader holds is numbered.
LEMMA NumbersAreNat ==
    ASSUME TableTypes
    PROVE  \A e \in Events :
              /\ rev[e] \in Nat /\ made[e] \in Nat
              /\ Has(e) => brain[e] \in Rows /\ brain[e].rev \in Nat
              /\ \A u \in Uploaders : hold[u][e] # NoHold => hold[u][e].rev \in Nat
  <1> SUFFICES ASSUME NEW e \in Events
               PROVE  /\ rev[e] \in Nat /\ made[e] \in Nat
                      /\ Has(e) => brain[e] \in Rows /\ brain[e].rev \in Nat
                      /\ \A u \in Uploaders :
                            hold[u][e] # NoHold => hold[u][e].rev \in Nat
    OBVIOUS
  <1>1. /\ rev[e] \in Nat /\ made[e] \in Nat
        /\ Has(e) => brain[e] \in Rows /\ brain[e].rev \in Nat
    BY DEF TableTypes, Has, Rows
  <1>2. ASSUME NEW u \in Uploaders, hold[u][e] # NoHold
        PROVE  hold[u][e].rev \in Nat
    <2>1. hold[u][e] \in Holds
      BY <1>2 DEF TableTypes
    <2> QED
      BY <2>1 DEF Holds
  <1> QED
    BY <1>1, <1>2

\* While its row is not being sent, what an uploader holds of an event is older
\* than the event.
LEMMA HeldIsOlder ==
    ASSUME QInv, NEW u \in Uploaders, NEW e \in Events, hold[u][e] # NoHold,
           rev[e] # 0, ~StatusIs(e, "sending")
    PROVE  hold[u][e].rev < rev[e]
  <1>1. CASE ~Has(e)
    BY <1>1 DEF QInv, HolderIsLast
  <1>2. CASE Has(e)
    <2>1. hold[u][e].rev <= brain[e].rev /\ hold[u][e].rev # brain[e].rev
      BY <1>2 DEF QInv, HolderIsLast, StatusIs
    <2>2. brain[e].rev <= rev[e]
      BY <1>2 DEF QInv, QueueBehind
    <2>3. hold[u][e].rev \in Nat /\ brain[e].rev \in Nat /\ rev[e] \in Nat
      BY <1>2, NumbersAreNat DEF QInv
    <2> QED
      BY <2>1, <2>2, <2>3
  <1> QED
    BY <1>1, <1>2

\* Rows that had no row or were pending may become pending at the revision of
\* their event: what ingest_event and a registration do.
LEMMA QueueingKeeps ==
    ASSUME QInv, UNCHANGED <<rev, made, pool>>, NEW S \in SUBSET Events,
           \A e \in S : rev[e] # 0 /\ (~Has(e) \/ StatusIs(e, "pending")),
           brain' = [e \in Events |-> IF e \in S THEN Pending(rev[e]) ELSE brain[e]]
    PROVE  QInv'
  <1> USE DEF pool
  <1>1. \A e \in S : /\ brain'[e] \in Rows /\ brain'[e] # NoRow
                     /\ brain'[e].status = "pending" /\ brain'[e].rev = rev[e]
    BY DistinctAssumption DEF Pending, Rows, QInv, TableTypes
  <1>2. \A e \in Events \ S : brain'[e] = brain[e]
    OBVIOUS
  <1>3. TableTypes' /\ OneHolder' /\ IdleHoldsNothing'
    BY <1>1, <1>2 DEF QInv, TableTypes, OneHolder, IdleHoldsNothing
  <1>4. Numbered' /\ QueueBehind'
    <2>1. \A e \in Events : rev[e] \in Nat
      BY NumbersAreNat DEF QInv
    <2>2. \A e \in Events :
             (Has(e)' => brain'[e].rev <= made[e])
             /\ (Has(e)' /\ rev[e] # 0 => brain'[e].rev <= rev[e])
      <3> SUFFICES ASSUME NEW e \in Events, Has(e)'
                   PROVE  /\ brain'[e].rev <= made[e]
                          /\ rev[e] # 0 => brain'[e].rev <= rev[e]
        OBVIOUS
      <3>1. CASE e \in S
        BY <1>1, <2>1, <3>1 DEF QInv, Numbered
      <3>2. CASE e \notin S
        BY <1>2, <3>2 DEF QInv, Numbered, QueueBehind, Has
      <3> QED
        BY <3>1, <3>2
    <2> QED
      BY <2>2 DEF QInv, Numbered, QueueBehind
  <1>5. SendingIsHeld'
    BY <1>1, <1>2 DEF QInv, SendingIsHeld, StatusIs, Has
  <1>6. ASSUME NEW u \in Uploaders, NEW e \in S, hold[u][e] # NoHold
        PROVE  hold[u][e].rev < rev[e]
    BY <1>6, HeldIsOlder DEF StatusIs
  <1>7. HolderIsLast'
    <2> SUFFICES ASSUME NEW u \in Uploaders, NEW e \in Events, hold[u][e] # NoHold
                 PROVE  /\ Has(e)' => /\ hold[u][e].rev <= brain'[e].rev
                                      /\ hold[u][e].rev = brain'[e].rev =>
                                            brain'[e].status = "sending"
                        /\ ~Has(e)' /\ rev[e] # 0 => hold[u][e].rev < rev[e]
      BY DEF HolderIsLast
    <2>1. hold[u][e].rev \in Nat /\ rev[e] \in Nat
      BY DEF QInv, TableTypes, Holds
    <2>2. CASE e \in S
      BY <1>1, <1>6, <2>1, <2>2 DEF Has
    <2>3. CASE e \notin S
      BY <1>2, <2>3 DEF QInv, HolderIsLast, Has
    <2> QED
      BY <2>2, <2>3
  <1> QED
    BY <1>3, <1>4, <1>5, <1>7 DEF QInv

\* Every step keeps the invariant of the queue.
LEMMA StepHolds == QInv /\ [Next]_vars => QInv'
  <1> SUFFICES ASSUME QInv, [Next]_vars PROVE QInv'
    OBVIOUS
  <1>t. TableTypes
    BY DEF QInv
  <1>1. ASSUME NEW e \in Events, Capture(e) \/ Rewrite(e) PROVE QInv'
    BY <1>1, RewriteKeeps DEF Capture, Rewrite
  <1>2. ASSUME NEW e \in Events, EnqueueBrain(e) PROVE QInv'
    <2> DEFINE queued == {f \in {e} : configured /\ rev[f] # 0
                            /\ (~Has(f) \/ StatusIs(f, "pending"))}
    <2>1. brain' = [f \in Events |-> IF f \in queued THEN Pending(rev[f])
                                     ELSE brain[f]]
      BY <1>2, <1>t DEF EnqueueBrain, TableTypes
    <2>2. UNCHANGED <<rev, made, pool>>
      BY <1>2 DEF EnqueueBrain
    <2>3. /\ queued \in SUBSET Events
          /\ \A f \in queued : rev[f] # 0 /\ (~Has(f) \/ StatusIs(f, "pending"))
      OBVIOUS
    <2> HIDE DEF queued
    <2> QED
      BY <2>1, <2>2, <2>3, QueueingKeeps
  <1>3. ASSUME NEW e \in Events, Enrich(e) PROVE QInv'
    <2>1. CASE rev[e] = 0
      BY <1>3, <2>1, <1>t, SameTables DEF Enrich, pool, TableTypes
    <2>2. CASE rev[e] # 0 /\ ~Has(e)
      BY <1>3, <2>2, RewriteKeeps DEF Enrich
    <2>3. CASE rev[e] # 0 /\ Has(e)
      <3>1. NewContent(e) /\ brain' = [brain EXCEPT ![e] = Pending(made[e] + 1)]
        BY <1>3, <2>3 DEF Enrich
      <3>2. UNCHANGED <<pc, hold>>
        BY <1>3 DEF Enrich, pool
      <3>3. /\ brain'[e] \in Rows /\ brain'[e] # NoRow
            /\ brain'[e].status = "pending" /\ brain'[e].rev = made[e] + 1
        BY <1>t, <3>1, DistinctAssumption DEF Pending, Rows, TableTypes
      <3>4. \A f \in Events \ {e} : brain'[f] = brain[f]
        BY <1>t, <3>1 DEF TableTypes
      <3>5. TableTypes' /\ OneHolder' /\ IdleHoldsNothing'
        BY <1>t, <3>1, <3>2, <3>3, <3>4, NewContentIsNewer
        DEF QInv, TableTypes, OneHolder, IdleHoldsNothing
      <3>6. Numbered'
        BY <1>t, <3>1, <3>2, <3>3, <3>4, NewContentIsNewer
        DEF QInv, TableTypes, Numbered, Has, Rows, Holds
      <3>7. QueueBehind'
        BY <1>t, <3>1, <3>3, <3>4, NewContentIsNewer
        DEF QInv, TableTypes, QueueBehind, Has, Rows
      <3>8. SendingIsHeld'
        BY <3>2, <3>3, <3>4 DEF QInv, SendingIsHeld, StatusIs, Has
      <3>9. HolderIsLast'
        BY <1>t, <3>1, <3>2, <3>3, <3>4, NewContentIsNewer
        DEF QInv, TableTypes, HolderIsLast, Has, Holds
      <3> QED
        BY <3>5, <3>6, <3>7, <3>8, <3>9 DEF QInv
    <2> QED
      BY <2>1, <2>2, <2>3
  <1>4. CASE Register
    <2> DEFINE queued == {f \in Events : f \in fresh /\ rev[f] # 0 /\ ~Has(f)}
    <2>1. brain' = [f \in Events |-> IF f \in queued THEN Pending(rev[f])
                                     ELSE brain[f]]
      BY <1>4 DEF Register
    <2>2. UNCHANGED <<rev, made, pool>>
      BY <1>4 DEF Register
    <2>3. /\ queued \in SUBSET Events
          /\ \A f \in queued : rev[f] # 0 /\ ~Has(f)
      OBVIOUS
    <2> HIDE DEF queued
    <2> QED
      BY <2>1, <2>2, <2>3, QueueingKeeps
  <1>5. ASSUME NEW S \in SUBSET Events, NEW T \in SUBSET Events, Prune(S, T)
        PROVE  QInv'
    <2>1. /\ UNCHANGED <<made, pc, hold>>
          /\ \A f \in Events : rev'[f] = IF f \in S THEN 0 ELSE rev[f]
          /\ \A f \in Events : brain'[f] = IF f \in T THEN NoRow ELSE brain[f]
          /\ \A f \in T : StatusIs(f, "delivered")
      BY <1>5 DEF Prune, pool
    <2>2. TableTypes'
      BY <1>5, <1>t DEF Prune, pool, TableTypes
    <2>3. OneHolder' /\ IdleHoldsNothing' /\ SendingIsHeld'
      BY <2>1 DEF QInv, OneHolder, IdleHoldsNothing, SendingIsHeld, StatusIs, Has
    <2>4. Numbered' /\ QueueBehind'
      BY <1>t, <2>1 DEF QInv, Numbered, QueueBehind, Has, TableTypes
    <2>5. ASSUME NEW u \in Uploaders, NEW f \in T, hold[u][f] # NoHold, rev[f] # 0
          PROVE  hold[u][f].rev < rev[f]
      BY <2>1, <2>5, HeldIsOlder DEF StatusIs
    <2>6. HolderIsLast'
      BY <2>1, <2>5 DEF QInv, HolderIsLast, Has
    <2> QED
      BY <2>2, <2>3, <2>4, <2>6 DEF QInv
  <1>6. ASSUME NEW u \in Uploaders, NEW S \in SUBSET Events, ClaimBrain(u, S)
        PROVE  QInv'
    <2> DEFINE mine == [e \in Events |->
            IF e \in S THEN [rev |-> brain[e].rev, body |-> rev[e]] ELSE NoHold]
    <2>1. /\ UNCHANGED <<rev, made>>
          /\ pc' = [pc EXCEPT ![u] = "claimed"]
          /\ hold' = [hold EXCEPT ![u] = mine]
          /\ \A e \in S : StatusIs(e, "pending")
          /\ \A e \in Events : hold[u][e] = NoHold
      BY <1>6 DEF ClaimBrain, QInv, IdleHoldsNothing
    <2>2. \A e \in S : brain[e] \in Rows /\ brain[e] # NoRow
      BY <1>t, <2>1 DEF TableTypes, StatusIs, Has
    <2>3. \A e \in S : /\ brain'[e] \in Rows /\ brain'[e] # NoRow
                       /\ brain'[e].status = "sending"
                       /\ brain'[e].rev = brain[e].rev
      BY <1>6, <2>2, DistinctAssumption DEF ClaimBrain, Rows
    <2>4. \A e \in Events \ S : brain'[e] = brain[e]
      BY <1>6 DEF ClaimBrain
    <2>5. /\ \A e \in S : /\ hold'[u][e] \in Holds /\ hold'[u][e] # NoHold
                          /\ hold'[u][e].rev = brain[e].rev
          /\ \A e \in Events \ S : hold'[u][e] = NoHold
          /\ \A v \in Uploaders \ {u} : hold'[v] = hold[v]
      BY <1>t, <2>1, <2>2, DistinctAssumption DEF TableTypes, Holds, Rows
    <2>6. TableTypes'
      <3>1. mine \in [Events -> Holds \cup {NoHold}]
        BY <1>t, <2>2 DEF TableTypes, Holds, Rows
      <3>2. brain' \in [Events -> Rows \cup {NoRow}]
        BY <1>6, <1>t, <2>3, <2>4 DEF ClaimBrain, TableTypes
      <3> QED
        BY <1>t, <2>1, <3>1, <3>2 DEF TableTypes
    <2>7. IdleHoldsNothing'
      BY <1>t, <2>1, <2>5 DEF QInv, IdleHoldsNothing, TableTypes
    <2>8. Numbered'
      BY <2>1, <2>2, <2>3, <2>4, <2>5 DEF QInv, Numbered, Has
    <2>9. QueueBehind'
      BY <2>1, <2>2, <2>3, <2>4 DEF QInv, QueueBehind, Has
    <2>10. SendingIsHeld'
      <3> SUFFICES ASSUME NEW e \in Events, StatusIs(e, "sending")'
                   PROVE  \E v \in Uploaders : /\ hold'[v][e] # NoHold
                                               /\ hold'[v][e].rev = brain'[e].rev
        BY DEF SendingIsHeld
      <3>1. CASE e \in S
        BY <2>3, <2>5, <3>1
      <3>2. CASE e \notin S
        <4>1. StatusIs(e, "sending") /\ brain'[e] = brain[e]
          BY <2>4, <3>2 DEF StatusIs, Has
        <4>2. PICK v \in Uploaders : hold[v][e] # NoHold /\ hold[v][e].rev = brain[e].rev
          BY <4>1 DEF QInv, SendingIsHeld
        <4> QED
          BY <2>1, <2>5, <4>1, <4>2
      <3> QED
        BY <3>1, <3>2
    <2>11. \A v \in Uploaders \ {u} : \A e \in S :
             hold[v][e] # NoHold => hold[v][e].rev # brain[e].rev
      BY <2>1 DEF QInv, HolderIsLast, StatusIs
    <2>12. OneHolder'
      BY <2>5, <2>11 DEF QInv, OneHolder
    <2>13. HolderIsLast'
      <3> SUFFICES ASSUME NEW v \in Uploaders, NEW e \in Events,
                          hold'[v][e] # NoHold
                   PROVE  /\ Has(e)' => /\ hold'[v][e].rev <= brain'[e].rev
                                        /\ hold'[v][e].rev = brain'[e].rev =>
                                              brain'[e].status = "sending"
                          /\ ~Has(e)' /\ rev'[e] # 0 => hold'[v][e].rev < rev'[e]
        BY DEF HolderIsLast
      <3>1. CASE v = u
        BY <2>2, <2>3, <2>5, <3>1 DEF Has, Rows
      <3>2. CASE v # u
        BY <2>1, <2>2, <2>3, <2>4, <2>5, <3>2 DEF QInv, HolderIsLast, Has
      <3> QED
        BY <3>1, <3>2
    <2> QED
      BY <2>6, <2>7, <2>8, <2>9, <2>10, <2>12, <2>13 DEF QInv
  <1>7. ASSUME NEW u \in Uploaders, FinishBrain(u) PROVE QInv'
    <2> DEFINE done == {e \in Events : /\ hold[u][e] # NoHold
                                       /\ StatusIs(e, "sending")
                                       /\ brain[e].rev = hold[u][e].rev}
    <2>1. /\ UNCHANGED <<rev, made>>
          /\ pc' = [pc EXCEPT ![u] = "idle"]
          /\ hold' = [hold EXCEPT ![u] = Nothing]
      BY <1>7 DEF FinishBrain, Release
    <2>2. \A e \in done : brain[e] \in Rows
      BY <1>t DEF TableTypes, StatusIs, Has
    <2>3. \A e \in done : /\ brain'[e] \in Rows /\ brain'[e] # NoRow
                          /\ brain'[e].status \in {"delivered", "pending"}
                          /\ brain'[e].rev = brain[e].rev
      BY <1>7, <2>2, DistinctAssumption DEF FinishBrain, Batch, Rows
    <2>4. \A e \in Events \ done : brain'[e] = brain[e]
      BY <1>7 DEF FinishBrain, Batch
    <2>5. /\ \A e \in Events : hold'[u][e] = NoHold
          /\ \A v \in Uploaders \ {u} : hold'[v] = hold[v]
      BY <1>t, <2>1 DEF TableTypes, Nothing
    <2>6. TableTypes'
      <3>1. brain' \in [Events -> Rows \cup {NoRow}]
        BY <1>7, <1>t, <2>3, <2>4 DEF FinishBrain, TableTypes
      <3> QED
        BY <1>t, <2>1, <3>1 DEF TableTypes, Nothing
    <2>7. IdleHoldsNothing' /\ OneHolder'
      BY <1>t, <2>1, <2>5 DEF QInv, IdleHoldsNothing, OneHolder, TableTypes
    <2>8. Numbered' /\ QueueBehind'
      BY <2>1, <2>3, <2>4, <2>5 DEF QInv, Numbered, QueueBehind, Has, StatusIs
    <2>9. SendingIsHeld'
      <3> SUFFICES ASSUME NEW e \in Events, StatusIs(e, "sending")'
                   PROVE  \E v \in Uploaders : /\ hold'[v][e] # NoHold
                                               /\ hold'[v][e].rev = brain'[e].rev
        BY DEF SendingIsHeld
      <3>1. e \notin done
        BY <2>3 DEF StatusIs
      <3>2. StatusIs(e, "sending") /\ brain'[e] = brain[e]
        BY <2>4, <3>1 DEF StatusIs, Has
      <3>3. PICK v \in Uploaders : hold[v][e] # NoHold /\ hold[v][e].rev = brain[e].rev
        BY <3>2 DEF QInv, SendingIsHeld
      <3>4. v # u
        BY <3>1, <3>2, <3>3
      <3> QED
        BY <2>5, <3>2, <3>3, <3>4
    <2>10. ASSUME NEW v \in Uploaders, v # u, NEW e \in done, hold[v][e] # NoHold
           PROVE  hold[v][e].rev # brain[e].rev
      BY <2>10 DEF QInv, OneHolder
    <2>11. HolderIsLast'
      <3> SUFFICES ASSUME NEW v \in Uploaders, NEW e \in Events,
                          hold'[v][e] # NoHold
                   PROVE  /\ Has(e)' => /\ hold'[v][e].rev <= brain'[e].rev
                                        /\ hold'[v][e].rev = brain'[e].rev =>
                                              brain'[e].status = "sending"
                          /\ ~Has(e)' /\ rev'[e] # 0 => hold'[v][e].rev < rev'[e]
        BY DEF HolderIsLast
      <3>1. v # u /\ hold'[v][e] = hold[v][e]
        BY <2>5
      <3>2. CASE e \in done
        BY <2>3, <2>10, <3>1, <3>2 DEF QInv, HolderIsLast, Has, StatusIs
      <3>3. CASE e \notin done
        BY <2>1, <2>4, <3>1, <3>3 DEF QInv, HolderIsLast, Has
      <3> QED
        BY <3>2, <3>3
    <2> QED
      BY <2>6, <2>7, <2>8, <2>9, <2>11 DEF QInv
  <1>8. CASE Restart
    <2>1. /\ UNCHANGED <<rev, made>>
          /\ \A v \in Uploaders : pc'[v] = "idle"
          /\ \A v \in Uploaders : \A e \in Events : hold'[v][e] = NoHold
      BY <1>8 DEF Restart, Nothing
    <2>2. ASSUME NEW e \in Events
          PROVE  /\ brain'[e] \in Rows \cup {NoRow}
                 /\ brain'[e] # NoRow <=> brain[e] # NoRow
                 /\ brain'[e] # NoRow => /\ brain'[e].status # "sending"
                                         /\ brain'[e].rev = brain[e].rev
      <3>1. CASE StatusIs(e, "sending")
        BY <1>8, <1>t, <3>1, DistinctAssumption
        DEF Restart, TableTypes, StatusIs, Has, Rows
      <3>2. CASE ~StatusIs(e, "sending")
        BY <1>8, <1>t, <3>2 DEF Restart, TableTypes, StatusIs, Has
      <3> QED
        BY <3>1, <3>2
    <2>3. TableTypes'
      BY <1>8, <1>t, <2>2 DEF Restart, Nothing, TableTypes
    <2>4. Numbered' /\ QueueBehind'
      BY <2>1, <2>2 DEF QInv, Numbered, QueueBehind, Has
    <2>5. SendingIsHeld' /\ OneHolder' /\ HolderIsLast' /\ IdleHoldsNothing'
      BY <2>1, <2>2
      DEF SendingIsHeld, OneHolder, HolderIsLast, IdleHoldsNothing, StatusIs, Has
    <2> QED
      BY <2>3, <2>4, <2>5 DEF QInv
  <1>9. ASSUME NEW u \in Uploaders, Upload(u) \/ WaitEnds(u) PROVE QInv'
    BY <1>9, <1>t, SameTables
    DEF Upload, OverHttp, UploadHttp, SendFrames, WaitEnds, store, TableTypes
  <1>10. ASSUME \/ \E e \in Events : EnrichFails(e)
                \/ \E f \in wire : CenterTakes(f)
                \/ \E f \in acks : AckArrives(f)
                \/ Configure \/ LinkDrops
         PROVE  QInv'
    BY <1>10, <1>t, SameTables
    DEF EnrichFails, CenterTakes, AckArrives, Configure, LinkDrops, store, pool,
      TableTypes
  <1>11. CASE UNCHANGED vars
    BY <1>11, <1>t, SameTables DEF vars, TableTypes
  <1> QED
    BY <1>1, <1>2, <1>3, <1>4, <1>5, <1>6, <1>7, <1>8, <1>9, <1>10, <1>11
    DEF Next, HttpNext, Upload

\* The queue's invariant holds in every reachable state, over both transports.
THEOREM QueueInvariance == Spec => []QInv
  BY InitHolds, StepHolds, PTL DEF Spec

\* No row of the upload queue waits for a restart: whatever interleaving of
\* captures, enrichments, registrations and uploaders led here, a row that is
\* "sending" has an uploader that will settle or requeue it.
THEOREM SendingHeld == Spec => []SendingIsHeld
  BY QueueInvariance, PTL DEF QInv

\* The atomic claim is enough for any number of uploaders: they never hold the
\* same revision of the same event.
THEOREM HoldersDiffer == Spec => []OneHolder
  BY QueueInvariance, PTL DEF QInv

\* What each step does to a delivered row: only an enrichment makes it pending.
LEMMA RequeuedStep ==
    ASSUME QInv, Next, NEW e \in Events,
           StatusIs(e, "delivered"), StatusIs(e, "pending")'
    PROVE  brain'[e].rev > brain[e].rev
  <1> DEFINE Same == brain'[e] = brain[e]
  <1>1. brain \in [Events -> Rows \cup {NoRow}] /\ brain[e] \in Rows
        /\ made \in [Events -> Nat] /\ brain[e].rev <= made[e]
    BY DEF QInv, TableTypes, Numbered, StatusIs, Has
  <1>2. ~Same
    BY DEF StatusIs, Has
  <1>3. ASSUME NEW f \in Events, EnqueueBrain(f) PROVE Same
    BY <1>1, <1>3 DEF EnqueueBrain, StatusIs, Has
  <1>4. ASSUME Register PROVE Same
    BY <1>4 DEF Register, StatusIs
  <1>5. ASSUME NEW S \in SUBSET Events, NEW T \in SUBSET Events, Prune(S, T) PROVE Same
    BY <1>5 DEF Prune, StatusIs, Has
  <1>6. ASSUME NEW u \in Uploaders, NEW S \in SUBSET Events, ClaimBrain(u, S) PROVE Same
    BY <1>6 DEF ClaimBrain, StatusIs
  <1>7. ASSUME NEW u \in Uploaders, FinishBrain(u) PROVE Same
    BY <1>7 DEF FinishBrain, StatusIs
  <1>8. ASSUME Restart PROVE Same
    BY <1>8 DEF Restart, StatusIs
  <1>9. ASSUME NEW f \in Events, Capture(f) \/ Rewrite(f) \/ EnrichFails(f) PROVE Same
    BY <1>9 DEF Capture, Rewrite, EnrichFails, store
  <1>10. ASSUME NEW u \in Uploaders, OverHttp(u) \/ SendFrames(u) \/ WaitEnds(u) PROVE Same
    BY <1>10 DEF OverHttp, UploadHttp, SendFrames, WaitEnds, store
  <1>11. ASSUME \/ Configure \/ LinkDrops \/ \E f \in wire : CenterTakes(f)
                \/ \E f \in acks : AckArrives(f)
         PROVE  Same
    BY <1>11 DEF Configure, LinkDrops, CenterTakes, AckArrives, store
  <1>12. PICK f \in Events : Enrich(f)
    BY <1>2, <1>3, <1>4, <1>5, <1>6, <1>7, <1>8, <1>9, <1>10, <1>11 DEF Next, HttpNext
  <1>13. brain' = [brain EXCEPT ![f] = Pending(made[f] + 1)]
    BY <1>2, <1>12 DEF Enrich
  <1>14. f = e
    BY <1>1, <1>2, <1>13
  <1>15. brain'[e].rev = made[e] + 1
    BY <1>1, <1>13, <1>14 DEF Pending
  <1> QED
    BY <1>1, <1>15 DEF Rows

\* A delivered row is queued again only for a content that came later
\* (enqueue_brain_event, enrich_event, finish_brain_events).
THEOREM RequeuedForNewer == Spec => RequeuedOnlyNewer
  <1>1. QInv /\ [Next]_vars =>
          [\A e \in Events : StatusIs(e, "delivered") /\ StatusIs(e, "pending")' =>
             brain'[e].rev > brain[e].rev]_brain
    BY RequeuedStep DEF vars
  <1> QED
    BY <1>1, QueueInvariance, PTL DEF Spec, RequeuedOnlyNewer

-----------------------------------------------------------------------------
(* Over HTTP the answer belongs to the batch it answers.                     *)

\* The types that the answers add to those of the tables.
AnswerTypes ==
    /\ seen \in [Events -> Nat]
    /\ got \in [Uploaders -> SUBSET Events]

\* What an uploader posts is at least as new as the revision it claimed.
HoldsNewest ==
    \A u \in Uploaders : \A e \in Events :
        hold[u][e] # NoHold => hold[u][e].body >= hold[u][e].rev

\* What an uploader takes for acknowledged is in its batch, and the center has
\* seen the content it posted.
AckedIsSeen ==
    \A u \in Uploaders : \A e \in Events \ Blocked :
        e \in got[u] => hold[u][e] # NoHold /\ seen[e] >= hold[u][e].body

\* The center has seen what counts as delivered.
DeliveredIsSeen ==
    \A e \in Events \ Blocked :
        StatusIs(e, "delivered") => seen[e] >= brain[e].rev

HttpInv == AnswerTypes /\ HoldsNewest /\ AckedIsSeen /\ DeliveredIsSeen

\* A step that at most queues rows, and takes nothing from what was seen.
LEMMA QueueingKeepsAnswers ==
    ASSUME HttpInv, UNCHANGED <<hold, got, seen>>,
           \A e \in Events : \/ brain'[e] = brain[e]
                             \/ brain'[e] # NoRow => brain'[e].status = "pending"
    PROVE  HttpInv'
  <1>1. AnswerTypes' /\ HoldsNewest' /\ AckedIsSeen'
    BY DEF HttpInv, AnswerTypes, HoldsNewest, AckedIsSeen
  <1>2. DeliveredIsSeen'
    BY DEF HttpInv, DeliveredIsSeen, StatusIs, Has
  <1> QED
    BY <1>1, <1>2 DEF HttpInv

\* A claim joins the row of the queue with the event, which is not behind it.
LEMMA ClaimKeepsAnswers ==
    ASSUME QInv, HttpInv, NEW u \in Uploaders, NEW S \in SUBSET Events,
           ClaimBrain(u, S)
    PROVE  HttpInv'
  <1>t. TableTypes
    BY DEF QInv
  <1>1. /\ \A e \in Events : hold'[u][e] = IF e \in S
                THEN [rev |-> brain[e].rev, body |-> rev[e]] ELSE NoHold
        /\ \A v \in Uploaders \ {u} : hold'[v] = hold[v]
        /\ UNCHANGED <<got, seen>>
    BY <1>t DEF ClaimBrain, TableTypes
  <1>2. AnswerTypes'
    BY <1>1 DEF HttpInv, AnswerTypes
  <1>3. HoldsNewest'
    <2> SUFFICES ASSUME NEW v \in Uploaders, NEW e \in Events,
                        hold'[v][e] # NoHold
                 PROVE  hold'[v][e].body >= hold'[v][e].rev
      BY DEF HoldsNewest
    <2>1. CASE v # u
      BY <1>1, <2>1 DEF HttpInv, HoldsNewest
    <2>2. CASE v = u
      <3>1. e \in S /\ hold'[v][e] = [rev |-> brain[e].rev, body |-> rev[e]]
        BY <1>1, <2>2
      <3>2. Has(e) /\ rev[e] # 0
        BY <3>1 DEF ClaimBrain, StatusIs
      <3>3. brain[e].rev <= rev[e] /\ brain[e].rev \in Nat /\ rev[e] \in Nat
        BY <1>t, <3>2, NumbersAreNat DEF QInv, QueueBehind
      <3> QED
        BY <3>1, <3>3
    <2> QED
      BY <2>1, <2>2
  <1>4. AckedIsSeen'
    <2> SUFFICES ASSUME NEW v \in Uploaders, NEW e \in Events \ Blocked,
                        e \in got[v]
                 PROVE  hold'[v][e] # NoHold /\ seen[e] >= hold'[v][e].body
      BY <1>1 DEF AckedIsSeen
    <2>1. hold[v][e] # NoHold /\ seen[e] >= hold[v][e].body
      BY DEF HttpInv, AckedIsSeen
    <2>2. v # u
      BY <2>1 DEF ClaimBrain, QInv, IdleHoldsNothing
    <2> QED
      BY <1>1, <2>1, <2>2
  <1>5. DeliveredIsSeen'
    <2> SUFFICES ASSUME NEW e \in Events \ Blocked, StatusIs(e, "delivered")'
                 PROVE  seen[e] >= brain'[e].rev
      BY <1>1 DEF DeliveredIsSeen
    <2>1. CASE e \in S
      <3>1. brain[e] \in Rows /\ brain'[e] = [brain[e] EXCEPT !.status = "sending"]
        BY <1>t, <2>1, NumbersAreNat DEF ClaimBrain, StatusIs
      <3> QED
        BY <3>1 DEF StatusIs, Rows
    <2>2. CASE e \notin S
      <3>1. brain'[e] = brain[e]
        BY <2>2 DEF ClaimBrain
      <3> QED
        BY <3>1 DEF HttpInv, DeliveredIsSeen, StatusIs, Has
    <2> QED
      BY <2>1, <2>2
  <1> QED
    BY <1>2, <1>3, <1>4, <1>5 DEF HttpInv

\* An answer names events of the batch that the center took.
LEMMA UploadKeepsAnswers ==
    ASSUME QInv, HttpInv, NEW u \in Uploaders, NEW taken \in SUBSET Batch(u),
           NEW named \in SUBSET taken, UploadHttp(u, taken, named)
    PROVE  HttpInv'
  <1>t. TableTypes
    BY DEF QInv
  <1>1. /\ UNCHANGED <<brain, hold>>
        /\ taken \subseteq Batch(u) \ Blocked /\ named \subseteq taken
        /\ \A v \in Uploaders \ {u} : got'[v] = got[v]
        /\ got'[u] \subseteq named \cup (Batch(u) \cap Blocked)
        /\ got' \in [Uploaders -> SUBSET Events]
    BY DEF UploadHttp, store, HttpInv, AnswerTypes, Batch
  <1>2. \A e \in Batch(u) : hold[u][e] \in Holds /\ hold[u][e].body \in Nat
    BY <1>t DEF Batch, TableTypes, Holds
  <1>3. /\ seen' \in [Events -> Nat]
        /\ \A e \in Events : seen'[e] >= seen[e]
        /\ \A e \in taken : seen'[e] >= hold[u][e].body
    BY <1>1, <1>2 DEF UploadHttp, HttpInv, AnswerTypes, Batch
  <1>4. AnswerTypes' /\ HoldsNewest'
    BY <1>1, <1>3 DEF HttpInv, AnswerTypes, HoldsNewest
  <1>5. AckedIsSeen'
    <2> SUFFICES ASSUME NEW v \in Uploaders, NEW e \in Events \ Blocked,
                        e \in got'[v]
                 PROVE  hold[v][e] # NoHold /\ seen'[e] >= hold[v][e].body
      BY <1>1 DEF AckedIsSeen
    <2>1. CASE v = u
      <3>1. e \in taken
        BY <1>1, <2>1
      <3> QED
        BY <1>1, <1>3, <2>1, <3>1 DEF Batch
    <2>2. CASE v # u
      <3>1. hold[v][e] # NoHold /\ seen[e] >= hold[v][e].body
        BY <1>1, <2>2 DEF HttpInv, AckedIsSeen
      <3>2. hold[v][e].body \in Nat
        <4>1. hold[v][e] \in Holds
          BY <1>t, <3>1 DEF TableTypes
        <4> QED
          BY <4>1 DEF Holds
      <3> QED
        BY <1>3, <3>1, <3>2 DEF HttpInv, AnswerTypes
    <2> QED
      BY <2>1, <2>2
  <1>6. DeliveredIsSeen'
    <2> SUFFICES ASSUME NEW e \in Events \ Blocked, StatusIs(e, "delivered")
                 PROVE  seen'[e] >= brain[e].rev
      BY <1>1 DEF DeliveredIsSeen, StatusIs, Has
    <2> QED
      BY <1>t, <1>3, NumbersAreNat
      DEF HttpInv, AnswerTypes, DeliveredIsSeen, StatusIs
  <1> QED
    BY <1>4, <1>5, <1>6 DEF HttpInv

\* A row is marked only at the revision that was claimed, and the content that
\* was posted with it is as new.
LEMMA FinishKeepsAnswers ==
    ASSUME QInv, HttpInv, NEW u \in Uploaders, FinishBrain(u)
    PROVE  HttpInv'
  <1>t. TableTypes
    BY DEF QInv
  <1>1. /\ \A e \in Events : hold'[u][e] = NoHold
        /\ \A v \in Uploaders \ {u} : hold'[v] = hold[v] /\ got'[v] = got[v]
        /\ got'[u] = {} /\ got' \in [Uploaders -> SUBSET Events]
        /\ UNCHANGED seen
    BY <1>t DEF FinishBrain, Release, Nothing, TableTypes, HttpInv, AnswerTypes
  <1>2. AnswerTypes' /\ HoldsNewest' /\ AckedIsSeen'
    BY <1>1 DEF HttpInv, AnswerTypes, HoldsNewest, AckedIsSeen
  <1>3. DeliveredIsSeen'
    <2> SUFFICES ASSUME NEW e \in Events \ Blocked, StatusIs(e, "delivered")'
                 PROVE  seen[e] >= brain'[e].rev
      BY <1>1 DEF DeliveredIsSeen
    <2> DEFINE marked == /\ e \in Batch(u) /\ StatusIs(e, "sending")
                         /\ brain[e].rev = hold[u][e].rev
    <2>1. CASE ~marked
      <3>1. brain'[e] = brain[e]
        BY <2>1 DEF FinishBrain
      <3> QED
        BY <3>1 DEF HttpInv, DeliveredIsSeen, StatusIs, Has
    <2>2. CASE marked
      <3>1. /\ brain[e] \in Rows
            /\ brain'[e] = [brain[e] EXCEPT !.status =
                               IF e \in got[u] THEN "delivered" ELSE "pending"]
        BY <1>t, <2>2, NumbersAreNat DEF FinishBrain, StatusIs
      <3>2. e \in got[u] /\ brain'[e].rev = hold[u][e].rev
        BY <2>2, <3>1 DEF StatusIs, Rows
      <3>3. /\ hold[u][e] # NoHold /\ seen[e] >= hold[u][e].body
            /\ hold[u][e].body >= hold[u][e].rev
        BY <3>2 DEF HttpInv, AckedIsSeen, HoldsNewest
      <3>4. hold[u][e] \in Holds
        BY <1>t, <3>3 DEF TableTypes
      <3> QED
        BY <3>2, <3>3, <3>4 DEF HttpInv, AnswerTypes, Holds
    <2> QED
      BY <2>1, <2>2
  <1> QED
    BY <1>2, <1>3 DEF HttpInv

\* Every step over HTTP keeps what the answers mean.
LEMMA HttpStepHolds == QInv /\ HttpInv /\ [HttpNext]_vars => HttpInv'
  <1> SUFFICES ASSUME QInv, HttpInv, [HttpNext]_vars PROVE HttpInv'
    OBVIOUS
  <1>t. TableTypes
    BY DEF QInv
  <1>1. ASSUME NEW e \in Events, Capture(e) \/ Rewrite(e) \/ EnrichFails(e)
        PROVE  HttpInv'
    BY <1>1, QueueingKeepsAnswers DEF Capture, Rewrite, EnrichFails, store, pool
  <1>2. ASSUME NEW e \in Events, EnqueueBrain(e) \/ Enrich(e) PROVE HttpInv'
    <2>1. \A f \in Events : brain'[f] = brain[f] \/ brain'[f].status = "pending"
      BY <1>2, <1>t DEF EnqueueBrain, Enrich, TableTypes, Pending
    <2> QED
      BY <1>2, <2>1, QueueingKeepsAnswers DEF EnqueueBrain, Enrich, pool
  <1>3. CASE Register
    <2>1. \A f \in Events : brain'[f] = brain[f] \/ brain'[f].status = "pending"
      BY <1>3 DEF Register, Pending
    <2> QED
      BY <1>3, <2>1, QueueingKeepsAnswers DEF Register, pool
  <1>4. CASE Restart
    <2>1. /\ \A u \in Uploaders : got'[u] = {}
          /\ \A u \in Uploaders : \A e \in Events : hold'[u][e] = NoHold
          /\ got' \in [Uploaders -> SUBSET Events] /\ UNCHANGED seen
      BY <1>4 DEF Restart, Nothing
    <2>2. AnswerTypes' /\ HoldsNewest' /\ AckedIsSeen'
      BY <2>1 DEF HttpInv, AnswerTypes, HoldsNewest, AckedIsSeen
    <2>3. ASSUME NEW e \in Events, StatusIs(e, "delivered")'
          PROVE  brain'[e] = brain[e]
      <3>1. CASE StatusIs(e, "sending")
        <4>1. brain[e] \in Rows /\ brain'[e] = [brain[e] EXCEPT !.status = "pending"]
          BY <1>4, <1>t, <3>1, NumbersAreNat DEF Restart, StatusIs
        <4> QED
          BY <2>3, <4>1 DEF StatusIs, Rows
      <3>2. CASE ~StatusIs(e, "sending")
        BY <1>4, <3>2 DEF Restart
      <3> QED
        BY <3>1, <3>2
    <2>4. DeliveredIsSeen'
      BY <2>1, <2>3 DEF HttpInv, DeliveredIsSeen, StatusIs, Has
    <2> QED
      BY <2>2, <2>4 DEF HttpInv
  <1>5. ASSUME NEW u \in Uploaders, NEW S \in SUBSET Events, ClaimBrain(u, S)
        PROVE  HttpInv'
    BY <1>5, ClaimKeepsAnswers
  <1>6. ASSUME NEW u \in Uploaders, OverHttp(u) PROVE HttpInv'
    BY <1>6, UploadKeepsAnswers DEF OverHttp
  <1>7. ASSUME NEW u \in Uploaders, FinishBrain(u) PROVE HttpInv'
    BY <1>7, FinishKeepsAnswers
  <1>8. CASE UNCHANGED vars
    BY <1>8, QueueingKeepsAnswers DEF vars
  <1> QED
    BY <1>1, <1>2, <1>3, <1>4, <1>5, <1>6, <1>7, <1>8 DEF HttpNext

\* Over HTTP, and for any number of uploaders, a row counts as delivered only if
\* the center answered for a content at least as new: the claim reads row and
\* content in one transaction, and only its own revision is marked.
THEOREM CurrentOverHttp == FairSpec => []DeliveredIsCurrent
  <1>1. Init => QInv /\ HttpInv
    <2>1. Init => HttpInv
      BY DEF Init, Nothing, HttpInv, AnswerTypes, HoldsNewest, AckedIsSeen,
        DeliveredIsSeen, StatusIs, Has
    <2> QED
      BY <2>1, InitHolds
  <1>2. QInv /\ HttpInv /\ [HttpNext]_vars => (QInv /\ HttpInv)'
    <2>1. [HttpNext]_vars => [Next]_vars
      BY DEF Next
    <2> QED
      BY <2>1, StepHolds, HttpStepHolds
  <1>3. QInv /\ HttpInv => DeliveredIsCurrent
    BY DEF HttpInv, DeliveredIsSeen, DeliveredIsCurrent
  <1> QED
    BY <1>1, <1>2, <1>3, PTL DEF FairSpec

-----------------------------------------------------------------------------
(* The types that the queue's proofs do without.                             *)

\* The types of the channel and of the seat.
RestTypes ==
    /\ fresh \in SUBSET Events /\ ingesting \in SUBSET Events
    /\ context \in SUBSET Events
    /\ configured \in BOOLEAN /\ registered \in BOOLEAN
    /\ got \in [Uploaders -> SUBSET Events]
    /\ owner \in [Events -> Uploaders \cup {Nobody}]
    /\ wire \in SUBSET (Events \X Nat) /\ acks \in SUBSET (Events \X Nat)
    /\ seen \in [Events -> Nat]
    /\ restarts \in Nat /\ prunes \in Nat /\ toggles \in Nat

\* An ack is given to an uploader that waits for it, with the event in its
\* batch.
OwnersWait ==
    \A e \in Events : owner[e] # Nobody =>
        pc[owner[e]] = "waiting" /\ hold[owner[e]][e] # NoHold

GotIsHeld == \A u \in Uploaders : got[u] \subseteq Batch(u)

RestInv == RestTypes /\ OwnersWait /\ GotIsHeld

LEMMA RestBegins == Init => RestInv
  <1> SUFFICES ASSUME Init PROVE RestInv
    OBVIOUS
  <1>1. /\ fresh = {} /\ ingesting = {} /\ context = {} /\ wire = {} /\ acks = {}
        /\ configured \in BOOLEAN /\ registered = FALSE
        /\ got = [u \in Uploaders |-> {}] /\ owner = [e \in Events |-> Nobody]
        /\ seen = [e \in Events |-> 0] /\ restarts = 0 /\ prunes = 0 /\ toggles = 0
    BY DEF Init
  <1>2. RestTypes
    BY <1>1 DEF RestTypes
  <1>3. OwnersWait /\ GotIsHeld
    BY <1>1 DEF OwnersWait, GotIsHeld
  <1> QED
    BY <1>2, <1>3 DEF RestInv

\* The seat's steps touch no uploader.
LEMMA SeatKeepsRest ==
    ASSUME RestInv, NEW e \in Events,
           \/ Capture(e) \/ EnqueueBrain(e) \/ Rewrite(e)
           \/ Enrich(e) \/ EnrichFails(e)
    PROVE  RestInv'
  <1>1. /\ fresh' \in SUBSET Events /\ ingesting' \in SUBSET Events
        /\ context' \in SUBSET Events
        /\ UNCHANGED <<configured, registered, pc, hold, got, owner, wire, acks, seen,
                       restarts, prunes, toggles>>
    BY DEF RestInv, RestTypes, Capture, EnqueueBrain, Rewrite, Enrich, EnrichFails,
      store, link, pool, channel, counts, seat
  <1> QED
    BY <1>1 DEF RestInv, RestTypes, OwnersWait, GotIsHeld, Batch

LEMMA LinkKeepsRest ==
    ASSUME RestInv,
           Configure \/ Register \/ \E S, T \in SUBSET Events : Prune(S, T)
    PROVE  RestInv'
  <1>1. RestTypes
    BY DEF RestInv
  <1>2. CASE Configure
    <2>1. /\ configured' \in BOOLEAN /\ registered' \in BOOLEAN /\ toggles' = toggles + 1
          /\ UNCHANGED <<fresh, ingesting, context, pc, hold, got, owner, wire, acks, seen,
                         restarts, prunes>>
      BY <1>2 DEF Configure, store, seat, pool, channel
    <2>2. RestTypes'
      BY <1>1, <2>1 DEF RestTypes
    <2> QED
      BY <2>1, <2>2 DEF RestInv, OwnersWait, GotIsHeld, Batch
  <1>3. CASE Register
    <2>1. /\ registered' = TRUE
          /\ UNCHANGED <<fresh, ingesting, context, configured, pc, hold, got, owner, wire,
                         acks, seen, restarts, prunes, toggles>>
      BY <1>3 DEF Register, seat, pool, channel, counts
    <2>2. RestTypes'
      BY <1>1, <2>1 DEF RestTypes
    <2> QED
      BY <2>1, <2>2 DEF RestInv, OwnersWait, GotIsHeld, Batch
  <1>4. ASSUME NEW S \in SUBSET Events, NEW T \in SUBSET Events, Prune(S, T)
        PROVE  RestInv'
    <2>1. /\ fresh' = fresh \ S /\ prunes' = prunes + 1
          /\ UNCHANGED <<ingesting, context, configured, registered, pc, hold, got, owner,
                         wire, acks, seen, restarts, toggles>>
      BY <1>4 DEF Prune, seat, link, pool, channel
    <2>2. RestTypes'
      BY <1>1, <2>1 DEF RestTypes
    <2> QED
      BY <2>1, <2>2 DEF RestInv, OwnersWait, GotIsHeld, Batch
  <1> QED
    BY <1>2, <1>3, <1>4

\* A claim begins from a uploader that holds nothing and owns no ack.
LEMMA ClaimKeepsRest ==
    ASSUME TableTypes, RestInv, IdleHoldsNothing,
           NEW u \in Uploaders, NEW S \in SUBSET Events, ClaimBrain(u, S)
    PROVE  RestInv'
  <1>1. /\ pc[u] = "idle" /\ \A e \in Events : hold[u][e] = NoHold
        /\ \A v \in Uploaders \ {u} : pc'[v] = pc[v] /\ hold'[v] = hold[v]
        /\ UNCHANGED <<fresh, ingesting, context, configured, registered, got, owner,
                       wire, acks, seen, restarts, prunes, toggles>>
    BY DEF ClaimBrain, TableTypes, IdleHoldsNothing, seat, link, channel, counts
  <1>2. got[u] = {}
    BY <1>1 DEF RestInv, GotIsHeld, Batch, RestTypes
  <1>3. \A e \in Events : owner[e] # u
    BY <1>1, DistinctAssumption DEF RestInv, OwnersWait
  <1>4. OwnersWait'
    BY <1>1, <1>3 DEF RestInv, RestTypes, OwnersWait
  <1>5. GotIsHeld'
    BY <1>1, <1>2 DEF RestInv, GotIsHeld, Batch
  <1> QED
    BY <1>1, <1>4, <1>5 DEF RestInv, RestTypes

LEMMA UploadKeepsRest ==
    ASSUME TableTypes, RestInv, NEW u \in Uploaders, OverHttp(u)
    PROVE  RestInv'
  <1>a. PICK taken \in SUBSET Batch(u) :
               \E named \in SUBSET taken : UploadHttp(u, taken, named)
    BY DEF OverHttp
  <1>1. PICK named \in SUBSET taken : UploadHttp(u, taken, named)
    BY <1>a
  <1>2. /\ pc[u] = "claimed" /\ pc' = [pc EXCEPT ![u] = "answered"]
        /\ got' \in {[got EXCEPT ![u] = named \cup (Batch(u) \cap Blocked)],
                     [got EXCEPT ![u] = {}]}
        /\ UNCHANGED <<fresh, ingesting, context, configured, registered, hold, owner,
                       wire, acks, restarts, prunes, toggles>>
    BY <1>1 DEF UploadHttp, store, seat, link, channel, counts
  <1>3. seen' \in [Events -> Nat]
    <2>1. \A e \in taken : hold[u][e] \in Holds /\ hold[u][e].body \in Nat
      BY DEF Batch, TableTypes, Holds
    <2> QED
      BY <1>1, <2>1 DEF UploadHttp, RestInv, RestTypes
  <1>4. got' \in [Uploaders -> SUBSET Events] /\ GotIsHeld'
    BY <1>1, <1>2 DEF RestInv, RestTypes, GotIsHeld, Batch
  <1>5. OwnersWait'
    BY <1>2 DEF RestInv, RestTypes, OwnersWait, TableTypes
  <1> QED
    BY <1>2, <1>3, <1>4, <1>5 DEF RestInv, RestTypes

\* Whoever sends frames becomes the owner of the acks of its batch alone.
LEMMA FramesKeepRest ==
    ASSUME TableTypes, RestInv, NEW u \in Uploaders, SendFrames(u) \/ WaitEnds(u)
    PROVE  RestInv'
  <1>1. CASE SendFrames(u)
    <2>1. /\ pc' = [pc EXCEPT ![u] = "waiting"]
          /\ owner' = [e \in Events |-> IF e \in Batch(u) \ Blocked THEN u ELSE owner[e]]
          /\ got' = [got EXCEPT ![u] = Batch(u) \cap Blocked]
          /\ wire' = wire \cup {<<e, hold[u][e].body>> : e \in Batch(u) \ Blocked}
          /\ UNCHANGED <<fresh, ingesting, context, configured, registered, hold, acks,
                         seen, restarts, prunes, toggles>>
      BY <1>1 DEF SendFrames, store, seat, link, counts
    <2>2. wire' \in SUBSET (Events \X Nat)
      <3>1. \A e \in Batch(u) : hold[u][e] \in Holds /\ hold[u][e].body \in Nat
        BY DEF Batch, TableTypes, Holds
      <3> QED
        BY <2>1, <3>1 DEF RestInv, RestTypes, Batch
    <2>3. owner' \in [Events -> Uploaders \cup {Nobody}]
      BY <2>1 DEF RestInv, RestTypes
    <2>4. got' \in [Uploaders -> SUBSET Events] /\ GotIsHeld'
      BY <2>1 DEF RestInv, RestTypes, GotIsHeld, Batch
    <2>5. OwnersWait'
      <3> SUFFICES ASSUME NEW e \in Events, owner'[e] # Nobody
                   PROVE  pc'[owner'[e]] = "waiting" /\ hold[owner'[e]][e] # NoHold
        BY <2>1 DEF OwnersWait
      <3>1. CASE e \in Batch(u) \ Blocked
        BY <2>1, <3>1 DEF TableTypes, Batch
      <3>2. CASE e \notin Batch(u) \ Blocked
        <4>1. owner'[e] = owner[e] /\ owner[e] \in Uploaders
          BY <2>1, <3>2 DEF RestInv, RestTypes
        <4>2. pc[owner[e]] = "waiting" /\ hold[owner[e]][e] # NoHold
          BY <4>1 DEF RestInv, OwnersWait
        <4> QED
          BY <2>1, <4>1, <4>2 DEF TableTypes
      <3> QED
        BY <3>1, <3>2
    <2> QED
      BY <2>1, <2>2, <2>3, <2>4, <2>5 DEF RestInv, RestTypes
  <1>2. CASE WaitEnds(u)
    <2>1. /\ pc' = [pc EXCEPT ![u] = "answered"]
          /\ owner' = [e \in Events |-> IF e \in Batch(u) THEN Nobody ELSE owner[e]]
          /\ UNCHANGED <<fresh, ingesting, context, configured, registered, hold, got,
                         wire, acks, seen, restarts, prunes, toggles>>
      BY <1>2 DEF WaitEnds, store, seat, link, counts
    <2>2. owner' \in [Events -> Uploaders \cup {Nobody}]
      BY <2>1 DEF RestInv, RestTypes
    <2>3. OwnersWait'
      BY <2>1 DEF RestInv, RestTypes, OwnersWait, TableTypes, Batch
    <2>4. GotIsHeld'
      BY <2>1 DEF RestInv, GotIsHeld, Batch
    <2> QED
      BY <2>1, <2>2, <2>3, <2>4 DEF RestInv, RestTypes
  <1> QED
    BY <1>1, <1>2

LEMMA ChannelKeepsRest ==
    ASSUME RestInv,
           \/ LinkDrops
           \/ \E f \in wire : CenterTakes(f)
           \/ \E f \in acks : AckArrives(f)
    PROVE  RestInv'
  <1>1. CASE LinkDrops
    BY <1>1 DEF LinkDrops, store, seat, link, pool, counts, RestInv, RestTypes,
      OwnersWait, GotIsHeld, Batch
  <1>2. ASSUME NEW f \in wire, CenterTakes(f) PROVE RestInv'
    <2>1. f \in Events \X Nat /\ f[1] \in Events /\ f[2] \in Nat
      BY DEF RestInv, RestTypes
    <2>2. /\ seen' = [seen EXCEPT ![f[1]] = IF f[2] > seen[f[1]] THEN f[2] ELSE seen[f[1]]]
          /\ wire' = wire \ {f} /\ acks' = acks \cup {f}
          /\ UNCHANGED <<fresh, ingesting, context, configured, registered, pc, hold, got,
                         owner, restarts, prunes, toggles>>
      BY <1>2 DEF CenterTakes, Newer, store, seat, link, pool, counts
    <2>3. seen' \in [Events -> Nat]
      BY <2>1, <2>2 DEF RestInv, RestTypes
    <2> QED
      BY <2>1, <2>2, <2>3 DEF RestInv, RestTypes, OwnersWait, GotIsHeld, Batch
  <1>3. ASSUME NEW f \in acks, AckArrives(f) PROVE RestInv'
    <2>1. f[1] \in Events
      BY DEF RestInv, RestTypes
    <2>2. /\ acks' = acks \ {f}
          /\ got' = IF owner[f[1]] = Nobody THEN got
                    ELSE [got EXCEPT ![owner[f[1]]] = got[owner[f[1]]] \cup {f[1]}]
          /\ UNCHANGED <<fresh, ingesting, context, configured, registered, pc, hold, wire,
                         owner, seen, restarts, prunes, toggles>>
      BY <1>3 DEF AckArrives, store, seat, link, counts
    <2>3. got' \in [Uploaders -> SUBSET Events] /\ GotIsHeld'
      BY <2>1, <2>2 DEF RestInv, RestTypes, OwnersWait, GotIsHeld, Batch
    <2> QED
      BY <2>2, <2>3 DEF RestInv, RestTypes, OwnersWait
  <1> QED
    BY <1>1, <1>2, <1>3

\* An uploader that has settled its batch owned no ack any more.
LEMMA FinishKeepsRest ==
    ASSUME TableTypes, RestInv, NEW u \in Uploaders, FinishBrain(u)
    PROVE  RestInv'
  <1>1. /\ pc[u] = "answered"
        /\ got' = [got EXCEPT ![u] = {}]
        /\ \A v \in Uploaders \ {u} : pc'[v] = pc[v] /\ hold'[v] = hold[v]
        /\ UNCHANGED <<fresh, ingesting, context, configured, registered, owner, wire,
                       acks, seen, restarts, prunes, toggles>>
    BY DEF FinishBrain, Release, TableTypes, seat, link, channel, counts
  <1>2. got' \in [Uploaders -> SUBSET Events] /\ GotIsHeld'
    BY <1>1 DEF RestInv, RestTypes, GotIsHeld, Batch
  <1>3. OwnersWait'
    BY <1>1 DEF RestInv, RestTypes, OwnersWait
  <1> QED
    BY <1>1, <1>2, <1>3 DEF RestInv, RestTypes

LEMMA RestartKeepsRest == ASSUME RestInv, Restart PROVE RestInv'
  <1>1. /\ fresh' = {} /\ ingesting' = {} /\ context' = {} /\ wire' = {} /\ acks' = {}
        /\ registered' \in BOOLEAN /\ restarts' = restarts + 1
        /\ got' = [u \in Uploaders |-> {}] /\ owner' = [e \in Events |-> Nobody]
        /\ UNCHANGED <<configured, seen, prunes, toggles>>
    BY DEF Restart
  <1>2. RestTypes'
    BY <1>1 DEF RestInv, RestTypes
  <1>3. OwnersWait' /\ GotIsHeld'
    BY <1>1 DEF OwnersWait, GotIsHeld
  <1> QED
    BY <1>2, <1>3 DEF RestInv

LEMMA RestKeeps == QInv /\ RestInv /\ [Next]_vars => RestInv'
  <1> SUFFICES ASSUME QInv, RestInv, [Next]_vars PROVE RestInv'
    OBVIOUS
  <1>t. TableTypes /\ IdleHoldsNothing
    BY DEF QInv
  <1>1. CASE UNCHANGED vars
    BY <1>1 DEF vars, RestInv, RestTypes, OwnersWait, GotIsHeld, Batch
  <1>2. CASE HttpNext
    BY <1>t, <1>2, SeatKeepsRest, LinkKeepsRest, RestartKeepsRest, ClaimKeepsRest,
      UploadKeepsRest, FinishKeepsRest DEF HttpNext
  <1>3. CASE Next /\ ~HttpNext
    BY <1>t, <1>3, LinkKeepsRest, FramesKeepRest, ChannelKeepsRest DEF Next
  <1> QED
    BY <1>1, <1>2, <1>3

\* The queue, the seat and the channel keep their types, and what an uploader
\* takes for acknowledged is of its own batch: an ack goes to whoever sent its
\* event last, and to nobody once that one has stopped waiting (_on_ack).
THEOREM TypeCorrect == Spec => []TypeOK
  <1>1. QInv /\ RestInv /\ [Next]_vars => QInv' /\ RestInv'
    BY StepHolds, RestKeeps
  <1>2. QInv /\ RestInv => TypeOK
    BY DEF QInv, TableTypes, RestInv, RestTypes, GotIsHeld, TypeOK
  <1> QED
    BY <1>1, <1>2, InitHolds, RestBegins, PTL DEF Spec

-----------------------------------------------------------------------------
(* The parts of the bridge.                                                   *)

\* A step is one of the part at work, and all else stays.
LEMMA StepOfPart ==
    ASSUME [PartsNext]_all
    PROVE  /\ part' = part
           /\ IF part = "uploads" THEN [Next]_vars ELSE UNCHANGED vars
           /\ IF part = "gateway" THEN [Gateway!Next]_gateway ELSE UNCHANGED gateway
           /\ IF part = "alone" THEN [Alone!Next]_alone ELSE UNCHANGED alone
           /\ IF part = "beside" THEN [Beside!Next]_beside ELSE UNCHANGED beside
           /\ IF part = "calls" THEN [Calls!Next]_calls ELSE UNCHANGED calls
           /\ IF part = "opening" THEN [Opening!Next]_opening ELSE UNCHANGED opening
           /\ IF part = "switching" THEN [Switching!Next]_switching
                                    ELSE UNCHANGED switching
           /\ IF part = "tokens" THEN [Tokens!Next]_tokens ELSE UNCHANGED tokens
           /\ IF part = "page" THEN [Page!Next]_page ELSE UNCHANGED page
           /\ IF part = "waiting" THEN [Waiting!Next]_waiting ELSE UNCHANGED waiting
           /\ IF part = "upgrade" THEN [Upgrading!Next]_upgrade ELSE UNCHANGED upgrade
  <1>1. CASE UNCHANGED all
    BY <1>1 DEF all
  <1>2. CASE PartsNext
    BY <1>2 DEF PartsNext, Rest
  <1> QED
    BY <1>1, <1>2

-----------------------------------------------------------------------------
(* OpenChat and ChatSwitch: a conversation is reported as open.               *)

\* While a page is asked and watched, what the client shows has been noted.
OpeningInv ==
    /\ oExpecting \in BOOLEAN /\ oSeen \in BOOLEAN
    /\ oPc \in {"asked", "watching"} /\ oShown = "expected" => oSeen
    /\ Opening!VerifiedWasShown

LEMMA OpeningKeeps ==
    ASSUME OpeningInv, [Opening!Next]_opening PROVE OpeningInv'
  <1> USE DEF OpeningInv, Opening!VerifiedWasShown
  <1>1. CASE Opening!Open \/ Opening!Refused \/ Opening!WatchEnds
    BY <1>1 DEF Opening!Open, Opening!Refused, Opening!WatchEnds
  <1>2. CASE Opening!Accepted
    BY <1>2 DEF Opening!Accepted
  <1>3. CASE \E x \in Opening!Shown : Opening!ClientShows(x)
    BY <1>3 DEF Opening!ClientShows
  <1>4. CASE \E x \in Opening!Shown : Opening!Observe(x)
    <2>1. oPc' = "verified" => oShown = "expected"
      BY <1>4 DEF Opening!Observe
    <2> QED
      BY <1>4, <2>1 DEF Opening!Observe
  <1>5. CASE UNCHANGED opening
    BY <1>5 DEF opening
  <1> QED
    BY <1>1, <1>2, <1>3, <1>4, <1>5 DEF Opening!Next

\* Every line behind the watch's cursor was written since the call began, and
\* what is selected counts only if it was read since.
SwitchingInv ==
    /\ wUnread \in Seq(Chats \cup {None})
    /\ wFresh \in BOOLEAN /\ wSwitched \in BOOLEAN
    /\ wPc # "idle" => wExpected \in Chats
    /\ wPc \in {"asking", "watching"} =>
         /\ \A i \in DOMAIN wUnread : wUnread[i] = wExpected => wSwitched
         /\ wFresh /\ wSelected = wExpected => wSwitched
    /\ Switching!JumpIsNew

LEMMA SwitchingKeeps == SwitchingInv /\ [Switching!Next]_switching => SwitchingInv'
  <1> SUFFICES ASSUME SwitchingInv, [Switching!Next]_switching PROVE SwitchingInv'
    OBVIOUS
  <1> USE DEF SwitchingInv, Switching!JumpIsNew
  <1>1. CASE Switching!Call
    <2>1. wUnread' = <<>> /\ wSwitched' = FALSE /\ wFresh' = FALSE
          /\ wPc' = "asking" /\ wExpected' \in Chats
      BY <1>1 DEF Switching!Call
    <2>2. wUnread' \in Seq(Chats \cup {None}) /\ DOMAIN wUnread' = {}
      BY <2>1
    <2> QED
      BY <2>1, <2>2
  <1>2. CASE Switching!RunCommand
    BY <1>2 DEF Switching!RunCommand
  <1>3. CASE Switching!Watch
    <2>1. ASSUME wUnread # <<>>, Switching!Polled = wExpected PROVE wSwitched
      <3>1. Len(wUnread) \in DOMAIN wUnread
        BY <2>1
      <3>2. wUnread[Len(wUnread)] = wExpected
        BY <2>1 DEF Switching!Polled, Switching!Last
      <3> QED
        BY <1>3, <3>1, <3>2 DEF Switching!Watch
    <2>2. wUnread = <<>> => Switching!Polled = wSelected
      BY DEF Switching!Polled
    <2>3. /\ wUnread' = <<>> /\ UNCHANGED <<wExpected, wSwitched>>
          /\ wPc = "watching" /\ wPc' \in {"watching", "verified"}
          /\ wSelected' = Switching!Polled /\ wFresh' = (wFresh \/ wUnread # <<>>)
          /\ wPc' = "verified" => wFresh' /\ wSelected' = wExpected
      BY <1>3 DEF Switching!Watch
    <2>4. wFresh' /\ wSelected' = wExpected => wSwitched
      BY <2>1, <2>2, <2>3
    <2>5. wUnread' \in Seq(Chats \cup {None}) /\ DOMAIN wUnread' = {}
      BY <2>3
    <2> QED
      BY <2>3, <2>4, <2>5
  <1>4. CASE Switching!WatchEnds
    BY <1>4 DEF Switching!WatchEnds
  <1>5. ASSUME NEW chat \in Chats \cup {None}, Switching!Selects(chat),
               UNCHANGED <<wPc, wExpected, wSelected, wFresh>>
        PROVE  SwitchingInv'
    <2>1. /\ wUnread' = Append(wUnread, chat)
          /\ UNCHANGED <<wPc, wExpected, wSelected, wFresh>>
          /\ wSwitched' \in BOOLEAN /\ (wSwitched => wSwitched')
          /\ chat = wExpected /\ wPc \in {"asking", "watching"} => wSwitched'
      BY <1>5 DEF Switching!Selects
    <2>2. /\ wUnread' \in Seq(Chats \cup {None})
          /\ \A i \in DOMAIN wUnread' :
                \/ i \in DOMAIN wUnread /\ wUnread'[i] = wUnread[i]
                \/ wUnread'[i] = chat
      BY <2>1
    <2> QED
      BY <2>1, <2>2
  <1>6. CASE \E chat \in Switching!Selection :
               Switching!ClientOpens(chat) \/ Switching!OperatorSelects(chat)
    BY <1>5, <1>6 DEF Switching!ClientOpens, Switching!OperatorSelects,
      Switching!Selects, Switching!Selection
  <1>7. CASE Switching!LogSkipped
    <2>1. /\ wUnread' = <<>> /\ wSelected' = None
          /\ UNCHANGED <<wPc, wExpected, wFresh, wSwitched>>
      BY <1>7 DEF Switching!LogSkipped
    <2>2. wUnread' \in Seq(Chats \cup {None}) /\ DOMAIN wUnread' = {}
      BY <2>1
    <2>3. wPc' \in {"asking", "watching"} => wExpected' # wSelected'
      BY <2>1, ChatsAssumption
    <2> QED
      BY <2>1, <2>2, <2>3
  <1>8. CASE UNCHANGED switching
    BY <1>8 DEF switching
  <1> QED
    BY <1>1, <1>2, <1>3, <1>4, <1>6, <1>7, <1>8 DEF Switching!Next

LEMMA SwitchingBegins == Switching!Init => SwitchingInv
  <1> SUFFICES ASSUME Switching!Init PROVE SwitchingInv
    OBVIOUS
  <1>1. wPc = "idle" /\ wFresh = FALSE /\ wSwitched = FALSE
    BY DEF Switching!Init
  <1>2. wUnread \in Seq(Chats \cup {None})
    <2>1. wShown \in Chats \cup {None} /\ wUnread \in {<<>>, <<wShown>>}
      BY DEF Switching!Init, Switching!Selection
    <2>2. <<>> \in Seq(Chats \cup {None}) /\ <<wShown>> \in Seq(Chats \cup {None})
      BY <2>1
    <2> QED
      BY <2>1, <2>2
  <1> QED
    BY <1>1, <1>2 DEF SwitchingInv, Switching!JumpIsNew

ShownInv ==
    /\ part = "opening" => OpeningInv
    /\ part = "switching" => SwitchingInv

\* Whether a page or the client's protocol is asked, a conversation is reported
\* as open only if the client showed it since the call began
\* (open_conversation, _open_conversation_protocol).
THEOREM OpenedHonestly == PartsSpec => []OpenedWasShown
  <1>1. PartsInit => ShownInv
    <2>1. Opening!Init => OpeningInv
      BY DEF Opening!Init, OpeningInv, Opening!VerifiedWasShown
    <2> QED
      BY <2>1, SwitchingBegins DEF PartsInit, ShownInv
  <1>2. ShownInv /\ [PartsNext]_all => ShownInv'
    BY StepOfPart, OpeningKeeps, SwitchingKeeps DEF ShownInv
  <1>3. ShownInv => OpenedWasShown
    BY DEF ShownInv, OpenedWasShown, OpeningInv, SwitchingInv
  <1> QED
    BY <1>1, <1>2, <1>3, PTL DEF PartsSpec
-----------------------------------------------------------------------------
(* PageCalls: the answers of several pages.                                   *)

\* Where a call stands, before it begins and after it ends, too.
CallStands(c) ==
    /\ cPc[c] = "idle" =>
         /\ cSent[c] = {} /\ cQueue[c] = <<>> /\ cUnfit[c] = 0
         /\ \A p \in Pages : cSaid[c][p] = ""
    /\ cAsked[c] # None => cPc[c] = "all"
    /\ cOutcome[c] = "failed" => cPc[c] = "done"

\* A page has what it was asked by a call that has begun, and a request is
\* pending while its call waits for it.
WorkWasSent ==
    \A p \in Pages : \A id \in cWork[p] :
        /\ id[2] \in {None, p} /\ cPc[id[1]] # "idle"
        /\ id[2] = None => cPc[id[1]] # "all" /\ p \in cSent[id[1]]
PendingIsAwaited ==
    \A id \in cPending :
        /\ cAsked[id[1]] = id[2]
        /\ cPc[id[1]] = IF id[2] = None THEN "one" ELSE "all"

Answered(c) == {p \in cSent[c] : cSaid[c][p] # ""}

\* execute: the answers passed over and the ones to look at are of different
\* pages, and one that fits is still to be looked at.
OneCounts(c) ==
    cPc[c] = "one" =>
        /\ \A p \in Pages : <<c, None>> \in cWork[p] => cSaid[c][p] = ""
        /\ cUnfit[c] + Len(cQueue[c]) <= Cardinality(Answered(c))
        /\ \A p \in Pages : cSaid[c][p] = "fit" =>
              \E i \in DOMAIN cQueue[c] : cQueue[c][i] = [page |-> p, answer |-> "fit"]

\* execute_all: the answer to look at is that of the page last asked, which
\* gives no other, and one that fits is kept or still to be looked at.
AllCounts(c) ==
    cPc[c] = "all" =>
        /\ cAsked[c] = None => cQueue[c] = <<>>
        /\ \A i \in DOMAIN cQueue[c] : cQueue[c][i].page = cAsked[c]
        /\ cQueue[c] # <<>> => <<c, cAsked[c]>> \notin cWork[cAsked[c]]
        /\ \A p \in Pages : cSaid[c][p] = "fit" =>
              \/ <<p, p>> \in cValues[c]
              \/ cAsked[c] = p /\ cQueue[c] # <<>> /\ Head(cQueue[c]).answer = "fit"

\* A call that failed found no answer that fits, and one that took an answer
\* took that of the page it had asked.
CallReturns(c) ==
    /\ cOutcome[c] = "failed" => \A p \in cSent[c] : cSaid[c][p] # "fit"
    /\ \A v \in cValues[c] : v[1] = v[2]

CallOK(c) == CallStands(c) /\ OneCounts(c) /\ AllCounts(c) /\ CallReturns(c)

CallsInv ==
    /\ Calls!TypeOK /\ WorkWasSent /\ PendingIsAwaited
    /\ \A c \in Requests : CallOK(c)

\* A step that leaves a call alone, and asks no page for it, keeps what is said
\* of that call.
LEMMA CallStays ==
    ASSUME CallsInv, NEW d \in Requests,
           cPc'[d] = cPc[d], cSent'[d] = cSent[d], cQueue'[d] = cQueue[d],
           cAsked'[d] = cAsked[d], cValues'[d] = cValues[d],
           cUnfit'[d] = cUnfit[d], cOutcome'[d] = cOutcome[d],
           cSaid'[d] = cSaid[d],
           \A p \in Pages, x \in Pages \cup {None} :
                <<d, x>> \in cWork'[p] => <<d, x>> \in cWork[p]
    PROVE  CallOK(d)'
  <1>1. CallOK(d)
    BY DEF CallsInv
  <1>2. CallStands(d)' /\ CallReturns(d)'
    BY <1>1 DEF CallOK, CallStands, CallReturns
  <1>3. OneCounts(d)'
    <2>1. Answered(d)' = Answered(d)
      BY DEF Answered
    <2> QED
      BY <1>1, <2>1 DEF CallOK, OneCounts
  <1>4. AllCounts(d)'
    <2>1. SUFFICES ASSUME cPc[d] = "all" PROVE AllCounts(d)'
      BY DEF AllCounts
    <2>2. cQueue[d] # <<>> => cAsked[d] \in Pages
      <3>1. cAsked[d] \in Pages \cup {None}
        BY DEF CallsInv, Calls!TypeOK, Calls!NoPage
      <3> QED
        BY <1>1, <2>1, <3>1 DEF CallOK, AllCounts
    <2>3. cQueue'[d] # <<>> => <<d, cAsked'[d]>> \notin cWork'[cAsked'[d]]
      BY <1>1, <2>1, <2>2 DEF CallOK, AllCounts
    <2> QED
      BY <1>1, <2>1, <2>3 DEF CallOK, AllCounts
  <1> QED
    BY <1>2, <1>3, <1>4 DEF CallOK

\* Connections come and go: what a page was asked may be forgotten.
LEMMA ConnectionsKeep ==
    ASSUME CallsInv, NEW p \in Pages, Calls!Connect(p) \/ Calls!Disconnect(p)
    PROVE  CallsInv'
  <1>1. /\ UNCHANGED <<cPending, cPc, cSent, cQueue, cLeft, cAsked, cValues, cUnfit,
                      cKind, cOutcome, cSaid>>
        /\ cWork' = cWork \/ cWork' = [cWork EXCEPT ![p] = {}]
        /\ cUp' \in SUBSET Pages /\ cDrops' \in Nat
    <2>1. CASE Calls!Connect(p)
      BY <2>1 DEF CallsInv, Calls!TypeOK, Calls!Connect, Calls!rpc
    <2>2. CASE Calls!Disconnect(p)
      <3>1. cDrops \in Nat /\ cUp \in SUBSET Pages
        BY DEF CallsInv, Calls!TypeOK
      <3>2. cDrops' = cDrops + 1 /\ cUp' = cUp \ {p}
        BY <2>2 DEF Calls!Disconnect
      <3> QED
        BY <2>2, <3>1, <3>2 DEF Calls!Disconnect
    <2> QED
      BY <2>1, <2>2
  <1>2. cWork' \in [Pages -> SUBSET Calls!Ids]
    BY <1>1 DEF CallsInv, Calls!TypeOK
  <1>3. \A q \in Pages : cWork'[q] \subseteq cWork[q]
    BY <1>1 DEF CallsInv, Calls!TypeOK
  <1>4. Calls!TypeOK'
    BY <1>1, <1>2 DEF CallsInv, Calls!TypeOK
  <1>5. WorkWasSent' /\ PendingIsAwaited'
    BY <1>1, <1>3 DEF CallsInv, WorkWasSent, PendingIsAwaited
  <1>6. \A c \in Requests : CallOK(c)'
    BY <1>1, <1>3, CallStays
  <1> QED
    BY <1>4, <1>5, <1>6 DEF CallsInv


\* A sequence and one element more.
LEMMA Appended ==
    ASSUME NEW S, NEW s \in Seq(S), NEW e \in S
    PROVE  /\ Append(s, e) \in Seq(S)
           /\ Len(s) \in Nat /\ Len(Append(s, e)) = Len(s) + 1
           /\ DOMAIN Append(s, e) = 1 .. Len(s) + 1 /\ DOMAIN s = 1 .. Len(s)
           /\ Append(s, e)[Len(s) + 1] = e
           /\ \A i \in DOMAIN s : Append(s, e)[i] = s[i]
  OBVIOUS

\* An answer that is awaited is one more to look at; any other is dropped.
LEMMA PageAnswersKeeps ==
    ASSUME CallsInv, NEW p \in Pages, NEW c \in Requests,
           NEW x \in Pages \cup {None}, NEW a \in Calls!Answers,
           Calls!PageAnswers(p, <<c, x>>, a)
    PROVE  CallsInv'
  <1> DEFINE id == <<c, x>>
             rec == [page |-> p, answer |-> a]
             Recs == [page : Pages, answer : Calls!Answers]
  <1>1. /\ id \in cWork[p]
        /\ cWork' = [cWork EXCEPT ![p] = @ \ {id}]
        /\ UNCHANGED <<cUp, cPending, cPc, cSent, cLeft, cAsked, cValues, cUnfit,
                       cKind, cOutcome, cDrops>>
    BY DEF Calls!PageAnswers
  <1>2. /\ id \in cPending => /\ cQueue' = [cQueue EXCEPT ![c] = Append(@, rec)]
                              /\ cSaid' = [cSaid EXCEPT ![c][p] = a]
        /\ id \notin cPending => UNCHANGED <<cQueue, cSaid>>
    BY DEF Calls!PageAnswers
  <1>3. /\ cWork \in [Pages -> SUBSET Calls!Ids]
        /\ cQueue \in [Requests -> Seq(Recs)]
        /\ cSaid \in [Requests -> [Pages -> Calls!Answers \cup {""}]]
    BY DEF CallsInv, Calls!TypeOK
  <1>4. /\ cWork' \in [Pages -> SUBSET Calls!Ids]
        /\ \A q \in Pages : cWork'[q] \subseteq cWork[q]
        /\ id \notin cWork'[p]
    BY <1>1, <1>3
  <1>5. rec \in Recs /\ cQueue[c] \in Seq(Recs)
    BY <1>3
  <1> HIDE DEF rec, Recs
  <1>6. id \in cPending => Append(cQueue[c], rec) \in Seq(Recs)
    BY <1>5, Appended
  <1>7. /\ cQueue' \in [Requests -> Seq(Recs)]
        /\ cSaid' \in [Requests -> [Pages -> Calls!Answers \cup {""}]]
    <2>1. CASE id \notin cPending
      BY <1>2, <1>3, <2>1
    <2>2. CASE id \in cPending
      <3>1. cQueue' \in [Requests -> Seq(Recs)]
        BY <1>2, <1>3, <1>6, <2>2
      <3>2. cSaid' \in [Requests -> [Pages -> Calls!Answers \cup {""}]]
        <4>1. cSaid' = [cSaid EXCEPT ![c] = [cSaid[c] EXCEPT ![p] = a]]
          BY <1>2, <1>3, <2>2
        <4>2. [cSaid[c] EXCEPT ![p] = a] \in [Pages -> Calls!Answers \cup {""}]
          BY <1>3
        <4> QED
          BY <1>3, <4>1, <4>2
      <3> QED
        BY <3>1, <3>2
    <2> QED
      BY <2>1, <2>2
  <1>8. Calls!TypeOK'
    BY <1>1, <1>4, <1>7 DEF CallsInv, Calls!TypeOK, Recs
  <1>9. WorkWasSent' /\ PendingIsAwaited'
    BY <1>1, <1>4 DEF CallsInv, WorkWasSent, PendingIsAwaited
  <1>10. ASSUME NEW d \in Requests PROVE CallOK(d)'
    <2>1. CASE id \notin cPending \/ d # c
      <3>1. cQueue'[d] = cQueue[d] /\ cSaid'[d] = cSaid[d]
        BY <1>1, <1>2, <1>3, <2>1
      <3> QED
        BY <1>1, <1>4, <3>1, CallStays
    <2>2. CASE id \in cPending /\ d = c
      <3>1. CallOK(c)
        BY <1>1 DEF CallsInv
      <3>2. /\ cAsked[c] = x /\ cPc[c] = (IF x = None THEN "one" ELSE "all")
            /\ x \in {None, p}
            /\ x = None => p \in cSent[c]
        BY <1>1, <2>2 DEF CallsInv, PendingIsAwaited, WorkWasSent
      <3>3. /\ cQueue'[c] = Append(cQueue[c], rec) /\ cSaid'[c][p] = a
            /\ \A q \in Pages : q # p => cSaid'[c][q] = cSaid[c][q]
        BY <1>1, <1>2, <1>3, <2>2
      <3>4. CallStands(c)' /\ CallReturns(c)'
        BY <1>1, <3>1, <3>2 DEF CallOK, CallStands, CallReturns
      <3>5. OneCounts(c)'
        <4> SUFFICES ASSUME cPc[c] = "one" PROVE OneCounts(c)'
          BY <1>1 DEF OneCounts
        <4>1. x = None /\ p \in cSent[c] /\ cSaid[c][p] = ""
          BY <1>1, <3>1, <3>2 DEF CallOK, OneCounts
        <4>2. \A q \in Pages : <<c, None>> \in cWork'[q] => cSaid'[c][q] = ""
          BY <1>4, <3>1, <3>3, <4>1 DEF CallOK, OneCounts
        <4>3. cUnfit'[c] + Len(cQueue'[c]) <= Cardinality(Answered(c)')
          <5>1. Answered(c)' = Answered(c) \cup {p} /\ p \notin Answered(c)
            <6>1. cSent[c] \subseteq Pages
              BY <1>1 DEF CallsInv, Calls!TypeOK
            <6>2. a # ""
              BY DEF Calls!Answers
            <6> QED
              BY <1>1, <3>3, <4>1, <6>1, <6>2 DEF Answered
          <5>2. IsFiniteSet(Answered(c))
            <6>1. Answered(c) \subseteq Pages
              BY <1>1 DEF Answered, CallsInv, Calls!TypeOK
            <6> QED
              BY <6>1, FS_Subset, PagesAssumption
          <5>3. /\ Cardinality(Answered(c)') = Cardinality(Answered(c)) + 1
                /\ Cardinality(Answered(c)) \in Nat
            BY <5>1, <5>2, FS_AddElement, FS_CardinalityType
          <5>4. Len(cQueue'[c]) = Len(cQueue[c]) + 1 /\ Len(cQueue[c]) \in Nat
            BY <1>5, <3>3, Appended
          <5>5. cUnfit'[c] = cUnfit[c] /\ cUnfit[c] \in Nat
            BY <1>1 DEF CallsInv, Calls!TypeOK
          <5>6. cUnfit[c] + Len(cQueue[c]) <= Cardinality(Answered(c))
            BY <3>1 DEF CallOK, OneCounts
          <5> QED
            BY <5>3, <5>4, <5>5, <5>6
        <4>4. ASSUME NEW q \in Pages, cSaid'[c][q] = "fit"
              PROVE  \E i \in DOMAIN cQueue'[c] :
                        cQueue'[c][i] = [page |-> q, answer |-> "fit"]
          <5>1. CASE q = p
            <6>1. Len(cQueue[c]) + 1 \in DOMAIN cQueue'[c]
                  /\ cQueue'[c][Len(cQueue[c]) + 1] = rec
              BY <1>5, <3>3, Appended
            <6> QED
              BY <3>3, <4>4, <5>1, <6>1 DEF rec
          <5>2. CASE q # p
            <6>1. PICK i \in DOMAIN cQueue[c] :
                      cQueue[c][i] = [page |-> q, answer |-> "fit"]
              BY <3>1, <3>3, <4>4, <5>2 DEF CallOK, OneCounts
            <6>2. i \in DOMAIN cQueue'[c] /\ cQueue'[c][i] = cQueue[c][i]
              BY <1>5, <3>3, <6>1, Appended
            <6> QED
              BY <6>1, <6>2
          <5> QED
            BY <5>1, <5>2
        <4> QED
          BY <1>1, <4>2, <4>3, <4>4 DEF OneCounts
      <3>6. AllCounts(c)'
        <4> SUFFICES ASSUME cPc[c] = "all" PROVE AllCounts(c)'
          BY <1>1 DEF AllCounts
        <4>1. x = p /\ cAsked[c] = p
          BY <3>2
        <4>2. cQueue[c] = <<>>
          BY <1>1, <3>1, <4>1 DEF CallOK, AllCounts
        <4>3. cQueue'[c] = <<rec>>
          BY <3>3, <4>2
        <4>4. ASSUME NEW q \in Pages, cSaid'[c][q] = "fit"
              PROVE  <<q, q>> \in cValues'[c] \/ (q = p /\ a = "fit")
          BY <1>1, <3>1, <3>3, <4>2, <4>4 DEF CallOK, AllCounts
        <4> QED
          BY <1>1, <1>4, <4>1, <4>3, <4>4, PagesAssumption DEF AllCounts, rec
      <3> QED
        BY <2>2, <3>4, <3>5, <3>6 DEF CallOK
    <2> QED
      BY <2>1, <2>2
  <1> QED
    BY <1>8, <1>9, <1>10 DEF CallsInv

LEMMA EmptySequence ==
    ASSUME NEW s, s = <<>> PROVE Len(s) = 0 /\ DOMAIN s = {}
  OBVIOUS

\* What a call that has not begun has: nothing asked, nothing answered.
NotBegun(c) ==
    /\ cSent[c] = {} /\ cQueue[c] = <<>> /\ cUnfit[c] = 0 /\ cAsked[c] = None
    /\ cOutcome[c] # "failed" /\ \A v \in cValues[c] : v[1] = v[2]
    /\ \A p \in Pages : cSaid[c][p] = ""
    /\ \A p \in Pages : \A id \in cWork[p] : id[1] \in Requests \ {c}
    /\ \A id \in cPending : id[1] \in Requests \ {c}

LEMMA IdleCall ==
    ASSUME CallsInv, NEW c \in Requests, cPc[c] = "idle" PROVE NotBegun(c)
  <1>1. CallOK(c)
    BY DEF CallsInv
  <1>2. \A p \in Pages : \A id \in cWork[p] : id[1] \in Requests \ {c}
    <2>1. \A p \in Pages : cWork[p] \subseteq Calls!Ids
      BY DEF CallsInv, Calls!TypeOK
    <2> QED
      BY <2>1 DEF CallsInv, WorkWasSent, Calls!Ids
  <1>3. \A id \in cPending : id[1] \in Requests \ {c}
    <2>1. cPending \subseteq Calls!Ids
      BY DEF CallsInv, Calls!TypeOK
    <2> QED
      BY <2>1 DEF CallsInv, PendingIsAwaited, Calls!Ids
  <1> QED
    BY <1>1, <1>2, <1>3 DEF NotBegun, CallOK, CallStands, CallReturns

\* execute begins: the pages found connected are asked, or there is none.
LEMMA ExecuteKeeps ==
    ASSUME CallsInv, NEW c \in Requests, NEW to \in SUBSET Pages,
           Calls!Execute(c, to)
    PROVE  CallsInv'
  <1>1. /\ cPc[c] = "idle"
        /\ UNCHANGED <<cUp, cQueue, cLeft, cAsked, cValues, cUnfit, cKind, cSaid,
                       cDrops>>
    BY DEF Calls!Execute
  <1>2. Calls!TypeOK
    BY DEF CallsInv
  <1>9. NotBegun(c)
    BY <1>1, IdleCall
  <1>3. CASE to = {}
    <2>1. /\ cPc' = [cPc EXCEPT ![c] = "done"]
          /\ cOutcome' = [cOutcome EXCEPT ![c] = "unsent"]
          /\ UNCHANGED <<cSent, cPending, cWork>>
      BY <1>3 DEF Calls!Execute, Calls!Return
    <2>2. Calls!TypeOK'
      BY <1>1, <1>2, <2>1 DEF Calls!TypeOK, Calls!Outcomes
    <2>3. WorkWasSent' /\ PendingIsAwaited'
      <3>1. \A p \in Pages : \A id \in cWork[p] : cPc'[id[1]] = cPc[id[1]]
        BY <1>9, <1>1, <1>2, <2>1 DEF NotBegun, Calls!TypeOK
      <3>2. \A id \in cPending : cPc'[id[1]] = cPc[id[1]]
        BY <1>9, <1>1, <1>2, <2>1 DEF NotBegun, Calls!TypeOK
      <3> QED
        BY <1>1, <2>1, <3>1, <3>2 DEF CallsInv, WorkWasSent, PendingIsAwaited
    <2>4. ASSUME NEW d \in Requests, d # c PROVE CallOK(d)'
      BY <1>1, <1>2, <2>1, <2>4, CallStays DEF Calls!TypeOK
    <2>5. CallOK(c)'
      <3>1. cPc'[c] = "done" /\ cOutcome'[c] = "unsent"
        BY <1>2, <2>1 DEF Calls!TypeOK
      <3> QED
        BY <1>9, <1>1, <2>1, <3>1
          DEF NotBegun, CallOK, CallStands, OneCounts, AllCounts, CallReturns
    <2> QED
      BY <2>2, <2>3, <2>4, <2>5 DEF CallsInv
  <1>4. CASE to # {}
    <2>1. /\ cSent' = [cSent EXCEPT ![c] = to]
          /\ cPending' = cPending \cup {<<c, None>>}
          /\ cWork' = [p \in Pages |-> IF p \in to THEN cWork[p] \cup {<<c, None>>}
                                                    ELSE cWork[p]]
          /\ cPc' = [cPc EXCEPT ![c] = "one"]
          /\ UNCHANGED cOutcome
      BY <1>4 DEF Calls!Execute
    <2>2. Calls!TypeOK'
      <3>1. <<c, None>> \in Calls!Ids
        BY DEF Calls!Ids
      <3>2. cWork' \in [Pages -> SUBSET Calls!Ids] /\ cPending' \in SUBSET Calls!Ids
        BY <1>2, <2>1, <3>1 DEF Calls!TypeOK
      <3> QED
        BY <1>1, <1>2, <2>1, <3>2 DEF Calls!TypeOK
    <2>3. cPc'[c] = "one" /\ cSent'[c] = to
      BY <1>2, <2>1 DEF Calls!TypeOK
    <2>4. WorkWasSent'
      <3>1. ASSUME NEW p \in Pages, NEW id \in cWork'[p], id \in cWork[p]
            PROVE  /\ id[2] \in {None, p} /\ cPc'[id[1]] # "idle"
                   /\ id[2] = None => cPc'[id[1]] # "all" /\ p \in cSent'[id[1]]
        <4>1. id[1] \in Requests /\ id[1] # c
          BY <1>9, <1>1, <3>1 DEF NotBegun
        <4> QED
          BY <1>2, <2>1, <3>1, <4>1 DEF CallsInv, WorkWasSent, Calls!TypeOK
      <3>2. ASSUME NEW p \in Pages, NEW id \in cWork'[p], id \notin cWork[p]
            PROVE  id = <<c, None>> /\ p \in to
        BY <2>1, <3>2
      <3> QED
        BY <2>3, <3>1, <3>2 DEF WorkWasSent
    <2>5. PendingIsAwaited'
      <3>1. ASSUME NEW id \in cPending
            PROVE  id[1] \in Requests /\ id[1] # c
        BY <1>9, <1>1 DEF NotBegun
      <3>2. ASSUME NEW id \in cPending
            PROVE  cPc'[id[1]] = cPc[id[1]]
        BY <1>2, <2>1, <3>1 DEF Calls!TypeOK
      <3>3. cAsked[c] = None
        BY <1>9, <1>1 DEF NotBegun
      <3> QED
        BY <1>1, <2>1, <2>3, <3>2, <3>3 DEF CallsInv, PendingIsAwaited
    <2>6. ASSUME NEW d \in Requests, d # c PROVE CallOK(d)'
      <3>1. \A p \in Pages, x \in Pages \cup {None} :
               <<d, x>> \in cWork'[p] => <<d, x>> \in cWork[p]
        BY <2>1, <2>6
      <3> QED
        BY <1>1, <1>2, <2>1, <2>6, <3>1, CallStays DEF Calls!TypeOK
    <2>7. CallOK(c)'
      <3>1. /\ cQueue'[c] = <<>> /\ cUnfit'[c] = 0 /\ cAsked'[c] = None
            /\ cOutcome'[c] # "failed" /\ \A v \in cValues'[c] : v[1] = v[2]
            /\ \A p \in Pages : cSaid'[c][p] = ""
        BY <1>9, <1>1, <2>1 DEF NotBegun
      <3>2. Answered(c)' = {}
        BY <2>3, <3>1 DEF Answered
      <3>3. OneCounts(c)'
        <4>1. cUnfit'[c] = 0 /\ Len(cQueue'[c]) = 0
          BY <3>1, EmptySequence
        <4>2. Cardinality(Answered(c)') = 0
          BY <3>2, FS_EmptySet
        <4>3. cUnfit'[c] + Len(cQueue'[c]) <= Cardinality(Answered(c)')
          BY <4>1, <4>2
        <4> QED
          BY <3>1, <4>3 DEF OneCounts
      <3> QED
        BY <2>3, <3>1, <3>3 DEF CallOK, CallStands, AllCounts, CallReturns
    <2> QED
      BY <2>2, <2>4, <2>5, <2>6, <2>7 DEF CallsInv
  <1> QED
    BY <1>3, <1>4

\* execute_all begins: the pages found connected are yet to be asked.
LEMMA ExecuteAllKeeps ==
    ASSUME CallsInv, NEW c \in Requests, Calls!ExecuteAll(c)
    PROVE  CallsInv'
  <1>1. /\ cPc[c] = "idle"
        /\ UNCHANGED <<cUp, cWork, cPending, cSent, cQueue, cAsked, cValues,
                       cUnfit, cKind, cSaid, cDrops>>
        /\ \/ /\ cPc' = [cPc EXCEPT ![c] = "done"]
              /\ cOutcome' = [cOutcome EXCEPT ![c] = "unsent"]
              /\ UNCHANGED cLeft
           \/ /\ cPc' = [cPc EXCEPT ![c] = "all"]
              /\ cLeft' = [cLeft EXCEPT ![c] = cUp]
              /\ UNCHANGED cOutcome
    BY DEF Calls!ExecuteAll, Calls!Return
  <1>2. Calls!TypeOK
    BY DEF CallsInv
  <1>9. NotBegun(c)
    BY <1>1, IdleCall
  <1>3. Calls!TypeOK'
    BY <1>1, <1>2 DEF Calls!TypeOK, Calls!Outcomes
  <1>4. /\ cPc'[c] \in {"done", "all"} /\ cOutcome'[c] \in {cOutcome[c], "unsent"}
        /\ \A d \in Requests : d # c => /\ cPc'[d] = cPc[d]
                                        /\ cOutcome'[d] = cOutcome[d]
    BY <1>1, <1>2 DEF Calls!TypeOK
  <1>5. WorkWasSent' /\ PendingIsAwaited'
    <2>1. \A p \in Pages : \A id \in cWork[p] : id[1] \in Requests /\ id[1] # c
      BY <1>9, <1>1 DEF NotBegun
    <2>2. \A id \in cPending : id[1] \in Requests /\ id[1] # c
      BY <1>9, <1>1 DEF NotBegun
    <2> QED
      BY <1>1, <1>4, <2>1, <2>2 DEF CallsInv, WorkWasSent, PendingIsAwaited
  <1>6. ASSUME NEW d \in Requests, d # c PROVE CallOK(d)'
    BY <1>1, <1>4, <1>6, CallStays
  <1>7. CallOK(c)'
    <2>1. /\ cQueue'[c] = <<>> /\ cAsked'[c] = None
          /\ cOutcome'[c] # "failed" /\ \A v \in cValues'[c] : v[1] = v[2]
          /\ \A p \in Pages : cSaid'[c][p] = ""
      BY <1>9, <1>1, <1>4 DEF NotBegun
    <2>2. CallStands(c)' /\ OneCounts(c)' /\ CallReturns(c)'
      BY <1>4, <2>1 DEF CallStands, OneCounts, CallReturns
    <2>3. DOMAIN cQueue'[c] = {}
      BY <2>1, EmptySequence
    <2>4. AllCounts(c)'
      BY <2>1, <2>3 DEF AllCounts
    <2> QED
      BY <2>2, <2>4 DEF CallOK
  <1> QED
    BY <1>3, <1>5, <1>6, <1>7 DEF CallsInv

\* Each request is one of a call.
LEMMA IdsAreOfCalls ==
    ASSUME CallsInv
    PROVE  /\ \A p \in Pages : \A id \in cWork[p] :
                  id[1] \in Requests /\ id = <<id[1], id[2]>>
           /\ \A id \in cPending : id[1] \in Requests /\ id = <<id[1], id[2]>>
  <1>1. cPending \subseteq Calls!Ids /\ \A p \in Pages : cWork[p] \subseteq Calls!Ids
    BY DEF CallsInv, Calls!TypeOK
  <1> QED
    BY <1>1 DEF Calls!Ids

\* A call that ends awaits nothing; pages may still have what it asked them.
LEMMA EndKeeps ==
    ASSUME CallsInv, NEW c \in Requests,
           cPc' = [cPc EXCEPT ![c] = "done"],
           UNCHANGED <<cWork, cSent, cAsked>>,
           \A id \in cPending' : id \in cPending /\ id[1] # c
    PROVE  WorkWasSent' /\ PendingIsAwaited'
  <1>1. /\ cPc'[c] = "done"
        /\ \A d \in Requests : d # c => cPc'[d] = cPc[d]
    BY DEF CallsInv, Calls!TypeOK
  <1>2. WorkWasSent'
    BY <1>1, IdsAreOfCalls DEF CallsInv, WorkWasSent
  <1>3. PendingIsAwaited'
    BY <1>1, IdsAreOfCalls DEF CallsInv, PendingIsAwaited
  <1> QED
    BY <1>2, <1>3

\* execute waits no longer: its one request is not pending any more.
LEMMA OneIsAwaited ==
    ASSUME CallsInv, NEW c \in Requests, cPc[c] = "one",
           cPending' = cPending \ {<<c, None>>}
    PROVE  \A id \in cPending' : id \in cPending /\ id[1] # c
  BY IdsAreOfCalls DEF CallsInv, PendingIsAwaited

LEMMA TimesOutKeeps ==
    ASSUME CallsInv, NEW c \in Requests, Calls!TimesOut(c)
    PROVE  CallsInv'
  <1>1. /\ cPc[c] = "one"
        /\ cPc' = [cPc EXCEPT ![c] = "done"]
        /\ cOutcome' = [cOutcome EXCEPT ![c] =
              IF cKind[c] = "filtered" THEN "none" ELSE "timeout"]
        /\ cPending' = cPending \ {<<c, None>>}
        /\ UNCHANGED <<cUp, cWork, cSent, cQueue, cLeft, cAsked, cValues, cUnfit,
                       cKind, cSaid, cDrops>>
    BY DEF Calls!TimesOut, Calls!Return
  <1>2. Calls!TypeOK
    BY DEF CallsInv
  <1>3. Calls!TypeOK'
    BY <1>1, <1>2 DEF Calls!TypeOK, Calls!Outcomes
  <1>4. /\ cPc'[c] = "done" /\ cOutcome'[c] # "failed"
        /\ \A d \in Requests : d # c => /\ cPc'[d] = cPc[d]
                                        /\ cOutcome'[d] = cOutcome[d]
    BY <1>1, <1>2 DEF Calls!TypeOK
  <1>5. WorkWasSent' /\ PendingIsAwaited'
    BY <1>1, EndKeeps, OneIsAwaited
  <1>6. ASSUME NEW d \in Requests, d # c PROVE CallOK(d)'
    BY <1>1, <1>4, <1>6, CallStays
  <1>7. CallOK(c)'
    <2>1. CallOK(c)
      BY DEF CallsInv
    <2> QED
      BY <1>1, <1>4, <2>1
        DEF CallOK, CallStands, OneCounts, AllCounts, CallReturns
  <1> QED
    BY <1>3, <1>5, <1>6, <1>7 DEF CallsInv

LEMMA AllAskedKeeps ==
    ASSUME CallsInv, NEW c \in Requests, Calls!AllAsked(c)
    PROVE  CallsInv'
  <1>1. /\ cPc[c] = "all" /\ cAsked[c] = None
        /\ cPc' = [cPc EXCEPT ![c] = "done"]
        /\ cOutcome' = [cOutcome EXCEPT ![c] =
              IF cValues[c] # {} THEN "values" ELSE "failed"]
        /\ UNCHANGED <<cUp, cWork, cPending, cSent, cQueue, cLeft, cAsked, cValues,
                       cUnfit, cKind, cSaid, cDrops>>
    BY DEF Calls!AllAsked, Calls!Return, Calls!NoPage
  <1>2. Calls!TypeOK
    BY DEF CallsInv
  <1>3. Calls!TypeOK'
    BY <1>1, <1>2 DEF Calls!TypeOK, Calls!Outcomes
  <1>4. /\ cPc'[c] = "done" /\ (cOutcome'[c] = "failed" => cValues[c] = {})
        /\ \A d \in Requests : d # c => /\ cPc'[d] = cPc[d]
                                        /\ cOutcome'[d] = cOutcome[d]
    BY <1>1, <1>2 DEF Calls!TypeOK
  <1>5. WorkWasSent' /\ PendingIsAwaited'
    <2>1. \A id \in cPending' : id \in cPending /\ id[1] # c
      BY <1>1 DEF CallsInv, PendingIsAwaited
    <2> QED
      BY <1>1, <2>1, EndKeeps
  <1>6. ASSUME NEW d \in Requests, d # c PROVE CallOK(d)'
    BY <1>1, <1>4, <1>6, CallStays
  <1>7. CallOK(c)'
    <2>1. CallOK(c)
      BY DEF CallsInv
    <2>2. cOutcome'[c] = "failed" => \A p \in Pages : cSaid[c][p] # "fit"
      BY <1>1, <1>4, <2>1 DEF CallOK, AllCounts
    <2>3. cSent[c] \subseteq Pages
      BY <1>2 DEF Calls!TypeOK
    <2> QED
      BY <1>1, <1>4, <2>1, <2>2, <2>3
        DEF CallOK, CallStands, OneCounts, AllCounts, CallReturns
  <1> QED
    BY <1>3, <1>5, <1>6, <1>7 DEF CallsInv

LEMMA SameCardinality ==
    ASSUME NEW S PROVE Calls!Cardinality(S) = Cardinality(S)
  BY DEF Calls!Cardinality, Cardinality

\* execute looks at an answer: it returns one that fits, and gives up with the
\* last that does not, when every page has given one.
LEMMA TakeKeeps ==
    ASSUME CallsInv, NEW c \in Requests, Calls!Take(c)
    PROVE  CallsInv'
  <1> DEFINE r == Head(cQueue[c])
             Recs == [page : Pages, answer : Calls!Answers]
  <1>1. /\ cPc[c] = "one" /\ cQueue[c] # <<>>
        /\ cQueue' = [cQueue EXCEPT ![c] = Tail(cQueue[c])]
        /\ UNCHANGED <<cUp, cWork, cSent, cLeft, cAsked, cKind, cSaid, cDrops>>
    BY DEF Calls!Take
  <1>2. Calls!TypeOK /\ CallOK(c)
    BY DEF CallsInv
  <1>3. /\ cQueue[c] \in Seq(Recs) /\ r \in Recs /\ Tail(cQueue[c]) \in Seq(Recs)
        /\ Len(cQueue[c]) \in Nat /\ Len(cQueue[c]) >= 1
        /\ Len(Tail(cQueue[c])) = Len(cQueue[c]) - 1
        /\ r = cQueue[c][1]
    <2>1. cQueue[c] \in Seq(Recs)
      BY <1>2 DEF Calls!TypeOK
    <2> HIDE DEF Recs
    <2> QED
      BY <1>1, <2>1
  <1>4. cQueue' \in [Requests -> Seq(Recs)] /\ cQueue'[c] = Tail(cQueue[c])
        /\ \A d \in Requests : d # c => cQueue'[d] = cQueue[d]
    <2>1. cQueue \in [Requests -> Seq(Recs)]
      BY <1>2 DEF Calls!TypeOK
    <2> HIDE DEF Recs
    <2> QED
      BY <1>1, <1>3, <2>1
  <1>5. CASE \/ r.answer = "fit"
             \/ r.answer = "other" /\ cKind[c] = "any"
    <2>1. /\ cPc' = [cPc EXCEPT ![c] = "done"]
          /\ cOutcome' = [cOutcome EXCEPT ![c] = "value"]
          /\ cValues' = [cValues EXCEPT ![c] = {<<r.page, r.page>>}]
          /\ cPending' = cPending \ {<<c, None>>}
          /\ UNCHANGED cUnfit
      BY <1>5 DEF Calls!Take, Calls!Return
    <2>2. {<<r.page, r.page>>} \in SUBSET (Pages \X Pages)
      BY <1>3
    <2>3. Calls!TypeOK'
      BY <1>1, <1>2, <1>4, <2>1, <2>2 DEF Calls!TypeOK, Calls!Outcomes
    <2>4. /\ cPc'[c] = "done" /\ cOutcome'[c] = "value"
          /\ cValues'[c] = {<<r.page, r.page>>}
          /\ \A d \in Requests : d # c => /\ cPc'[d] = cPc[d]
                                          /\ cOutcome'[d] = cOutcome[d]
                                          /\ cValues'[d] = cValues[d]
      BY <1>2, <2>1 DEF Calls!TypeOK
    <2>5. WorkWasSent' /\ PendingIsAwaited'
      BY <1>1, <2>1, EndKeeps, OneIsAwaited
    <2>6. ASSUME NEW d \in Requests, d # c PROVE CallOK(d)'
      BY <1>1, <1>4, <2>1, <2>4, <2>6, CallStays
    <2>7. CallOK(c)'
      <3>1. \A v \in cValues'[c] : v[1] = v[2]
        BY <2>4
      <3> HIDE DEF r
      <3> QED
        BY <1>1, <1>2, <2>4, <3>1
          DEF CallOK, CallStands, OneCounts, AllCounts, CallReturns
    <2> QED
      BY <2>3, <2>5, <2>6, <2>7 DEF CallsInv
  <1>6. CASE ~(\/ r.answer = "fit"
               \/ r.answer = "other" /\ cKind[c] = "any")
    <2>1. cUnfit' = [cUnfit EXCEPT ![c] = @ + 1] /\ UNCHANGED cValues
      BY <1>6 DEF Calls!Take
    <2>2. /\ cUnfit[c] \in Nat /\ cUnfit'[c] = cUnfit[c] + 1
          /\ \A d \in Requests : d # c => cUnfit'[d] = cUnfit[d]
          /\ cUnfit' \in [Requests -> Nat]
      <3>1. cUnfit \in [Requests -> Nat]
        BY <1>2 DEF Calls!TypeOK
      <3> QED
        BY <2>1, <3>1
    <2>3. /\ Cardinality(Answered(c)) <= Cardinality(cSent[c])
          /\ Cardinality(Answered(c)) \in Nat /\ Cardinality(cSent[c]) \in Nat
      <3>1. IsFiniteSet(cSent[c])
        BY <1>2, FS_Subset, PagesAssumption DEF Calls!TypeOK
      <3>2. Answered(c) \subseteq cSent[c]
        BY DEF Answered
      <3> QED
        BY <3>1, <3>2, FS_Subset, FS_CardinalityType
    <2>4. cUnfit[c] + Len(cQueue[c]) <= Cardinality(Answered(c))
      BY <1>1, <1>2 DEF CallOK, OneCounts
    <2>5. \A p \in Pages : cSaid[c][p] = "fit" =>
             \E i \in DOMAIN cQueue[c] :
                 i # 1 /\ cQueue[c][i] = [page |-> p, answer |-> "fit"]
      <3>1. cQueue[c][1].answer # "fit"
        BY <1>3, <1>6
      <3>2. ASSUME NEW p \in Pages, cSaid[c][p] = "fit"
            PROVE  \E i \in DOMAIN cQueue[c] :
                      i # 1 /\ cQueue[c][i] = [page |-> p, answer |-> "fit"]
        <4>1. PICK i \in DOMAIN cQueue[c] :
                  cQueue[c][i] = [page |-> p, answer |-> "fit"]
          BY <1>1, <1>2, <3>2 DEF CallOK, OneCounts
        <4> QED
          BY <3>1, <4>1
      <3> QED
        BY <3>2
    <2> HIDE DEF r, Recs
    <2>6. CASE cUnfit[c] + 1 = Cardinality(cSent[c])
      <3>1. /\ cPc' = [cPc EXCEPT ![c] = "done"]
            /\ cOutcome' = [cOutcome EXCEPT ![c] =
                  IF cKind[c] = "filtered" THEN "none" ELSE "failed"]
            /\ cPending' = cPending \ {<<c, None>>}
        BY <1>6, <2>6, SameCardinality DEF Calls!Take, Calls!Return, r
      <3>2. Calls!TypeOK'
        BY <1>1, <1>2, <1>4, <2>1, <2>2, <3>1 DEF Recs, Calls!TypeOK, Calls!Outcomes
      <3>3. /\ cPc'[c] = "done"
            /\ \A d \in Requests : d # c => /\ cPc'[d] = cPc[d]
                                            /\ cOutcome'[d] = cOutcome[d]
        BY <1>2, <3>1 DEF Calls!TypeOK
      <3>4. WorkWasSent' /\ PendingIsAwaited'
        BY <1>1, <3>1, EndKeeps, OneIsAwaited
      <3>5. ASSUME NEW d \in Requests, d # c PROVE CallOK(d)'
        BY <1>1, <1>4, <2>1, <2>2, <3>1, <3>3, <3>5, CallStays
      <3>6. \A p \in Pages : cSaid[c][p] # "fit"
        <4>1. Len(cQueue[c]) = 1
          <5>1. Len(cQueue[c]) \in Nat /\ Len(cQueue[c]) >= 1 /\ cUnfit[c] \in Nat
            BY <1>3, <2>2
          <5>2. \A u, n, a, m \in Nat :
                   n >= 1 /\ u + n <= a /\ a <= m /\ u + 1 = m => n = 1
            OBVIOUS
          <5> QED
            BY <2>3, <2>4, <2>6, <5>1, <5>2
        <4>2. DOMAIN cQueue[c] = {1}
          BY <1>3, <4>1
        <4> QED
          BY <2>5, <4>2
      <3>7. CallOK(c)'
        <4>1. cSent[c] \subseteq Pages
          BY <1>2 DEF Calls!TypeOK
        <4> QED
          BY <1>1, <1>2, <2>1, <3>3, <3>6, <4>1
            DEF CallOK, CallStands, OneCounts, AllCounts, CallReturns
      <3> QED
        BY <3>2, <3>4, <3>5, <3>7 DEF CallsInv
    <2>7. CASE cUnfit[c] + 1 # Cardinality(cSent[c])
      <3>1. UNCHANGED <<cPc, cOutcome, cPending>>
        BY <1>6, <2>7, SameCardinality DEF Calls!Take, r
      <3>2. Calls!TypeOK'
        BY <1>1, <1>2, <1>4, <2>1, <2>2, <3>1 DEF Recs, Calls!TypeOK
      <3>3. WorkWasSent' /\ PendingIsAwaited'
        BY <1>1, <3>1 DEF CallsInv, WorkWasSent, PendingIsAwaited
      <3>4. ASSUME NEW d \in Requests, d # c PROVE CallOK(d)'
        BY <1>1, <1>4, <2>1, <2>2, <3>1, <3>4, CallStays
      <3>5. OneCounts(c)'
        <4>1. Answered(c)' = Answered(c)
          BY <1>1 DEF Answered
        <4>2. cUnfit'[c] + Len(cQueue'[c]) <= Cardinality(Answered(c)')
          BY <1>3, <1>4, <2>2, <2>3, <2>4, <4>1
        <4>3. ASSUME NEW p \in Pages, cSaid'[c][p] = "fit"
              PROVE  \E i \in DOMAIN cQueue'[c] :
                        cQueue'[c][i] = [page |-> p, answer |-> "fit"]
          <5>1. PICK i \in DOMAIN cQueue[c] :
                    i # 1 /\ cQueue[c][i] = [page |-> p, answer |-> "fit"]
            BY <1>1, <2>5, <4>3
          <5>2. i \in Nat /\ i >= 2 /\ i <= Len(cQueue[c])
            BY <1>3, <5>1
          <5>3. i - 1 \in DOMAIN Tail(cQueue[c])
                /\ Tail(cQueue[c])[i - 1] = cQueue[c][i]
            BY <1>1, <1>3, <5>2
          <5> QED
            BY <1>4, <5>1, <5>3
        <4>4. \A p \in Pages : <<c, None>> \in cWork'[p] => cSaid'[c][p] = ""
          BY <1>1, <1>2 DEF CallOK, OneCounts
        <4> QED
          BY <4>2, <4>3, <4>4 DEF OneCounts
      <3>6. CallStands(c)' /\ AllCounts(c)' /\ CallReturns(c)'
        BY <1>1, <1>2, <2>1, <3>1 DEF CallOK, CallStands, AllCounts, CallReturns
      <3> QED
        BY <3>2, <3>3, <3>4, <3>5, <3>6 DEF CallsInv, CallOK
    <2> QED
      BY <2>6, <2>7
  <1> QED
    BY <1>5, <1>6

\* execute_all asks the next page, unless it is gone.
LEMMA AskKeeps ==
    ASSUME CallsInv, NEW c \in Requests, NEW p \in Pages, Calls!Ask(c, p)
    PROVE  CallsInv'
  <1>1. /\ cPc[c] = "all" /\ cAsked[c] = None
        /\ cLeft' = [cLeft EXCEPT ![c] = @ \ {p}]
        /\ UNCHANGED <<cUp, cPc, cQueue, cValues, cUnfit, cKind, cOutcome, cSaid,
                       cDrops>>
    BY DEF Calls!Ask, Calls!NoPage
  <1>2. Calls!TypeOK /\ CallOK(c)
    BY DEF CallsInv
  <1>3. cQueue[c] = <<>>
    BY <1>1, <1>2 DEF CallOK, AllCounts
  <1>4. CASE p \notin cUp
    <2>1. UNCHANGED <<cAsked, cSent, cPending, cWork>>
      BY <1>4 DEF Calls!Ask
    <2>2. Calls!TypeOK'
      BY <1>1, <1>2, <2>1 DEF Calls!TypeOK
    <2>3. WorkWasSent' /\ PendingIsAwaited'
      BY <1>1, <2>1 DEF CallsInv, WorkWasSent, PendingIsAwaited
    <2>4. \A d \in Requests : CallOK(d)'
      BY <1>1, <2>1, CallStays
    <2> QED
      BY <2>2, <2>3, <2>4 DEF CallsInv
  <1>5. CASE p \in cUp
    <2>1. /\ cAsked' = [cAsked EXCEPT ![c] = p]
          /\ cSent' = [cSent EXCEPT ![c] = @ \cup {p}]
          /\ cPending' = cPending \cup {<<c, p>>}
          /\ cWork' = [cWork EXCEPT ![p] = @ \cup {<<c, p>>}]
      BY <1>5 DEF Calls!Ask, Calls!IdOf
    <2>2. /\ cSent' \in [Requests -> SUBSET Pages]
          /\ cAsked' \in [Requests -> Pages \cup {None}]
          /\ cAsked'[c] = p /\ cSent'[c] = cSent[c] \cup {p}
          /\ \A d \in Requests : d # c => /\ cAsked'[d] = cAsked[d]
                                          /\ cSent'[d] = cSent[d]
      BY <1>2, <2>1 DEF Calls!TypeOK, Calls!NoPage
    <2>3. <<c, p>> \in Calls!Ids
      BY DEF Calls!Ids
    <2>4. /\ cWork' \in [Pages -> SUBSET Calls!Ids]
          /\ \A q \in Pages : \A id \in cWork'[q] :
                id \in cWork[q] \/ (id = <<c, p>> /\ q = p)
          /\ cPending' \in SUBSET Calls!Ids
      BY <1>2, <2>1, <2>3 DEF Calls!TypeOK
    <2>5. Calls!TypeOK'
      BY <1>1, <1>2, <2>2, <2>4 DEF Calls!TypeOK, Calls!NoPage
    <2>6. WorkWasSent'
      <3>1. ASSUME NEW q \in Pages, NEW id \in cWork[q]
            PROVE  /\ id[2] \in {None, q} /\ cPc'[id[1]] # "idle"
                   /\ id[2] = None => cPc'[id[1]] # "all" /\ q \in cSent'[id[1]]
        BY <1>1, <2>2, IdsAreOfCalls DEF CallsInv, WorkWasSent
      <3> QED
        BY <1>1, <2>4, <3>1, PagesAssumption DEF WorkWasSent
    <2>7. PendingIsAwaited'
      <3>1. ASSUME NEW id \in cPending PROVE id[1] # c /\ id[1] \in Requests
        BY <1>1, IdsAreOfCalls DEF CallsInv, PendingIsAwaited
      <3> QED
        BY <1>1, <2>1, <2>2, <3>1, PagesAssumption DEF CallsInv, PendingIsAwaited
    <2>8. ASSUME NEW d \in Requests, d # c PROVE CallOK(d)'
      BY <1>1, <2>2, <2>4, <2>8, CallStays
    <2>9. CallOK(c)'
      <3>1. cQueue'[c] = <<>> /\ DOMAIN cQueue'[c] = {}
        BY <1>1, <1>3, EmptySequence
      <3>2. \A q \in Pages : cSaid'[c][q] = "fit" => <<q, q>> \in cValues'[c]
        BY <1>1, <1>2, <1>3 DEF CallOK, AllCounts
      <3>3. AllCounts(c)'
        BY <3>1, <3>2 DEF AllCounts
      <3> QED
        BY <1>1, <1>2, <3>3 DEF CallOK, CallStands, OneCounts, CallReturns
    <2> QED
      BY <2>5, <2>6, <2>7, <2>8, <2>9 DEF CallsInv
  <1> QED
    BY <1>4, <1>5

\* execute_all is done with a page: it has its answer, or waits no longer.
LEMMA NextPageKeeps ==
    ASSUME CallsInv, NEW c \in Requests,
           Calls!TakeOne(c) \/ Calls!PageTimesOut(c)
    PROVE  CallsInv'
  <1> DEFINE r == Head(cQueue[c])
  <1>1. /\ cPc[c] = "all" /\ cAsked[c] # None
        /\ cPending' = cPending \ {<<c, cAsked[c]>>}
        /\ cAsked' = [cAsked EXCEPT ![c] = None]
        /\ UNCHANGED <<cUp, cWork, cPc, cSent, cLeft, cUnfit, cKind, cOutcome, cSaid,
                       cDrops>>
    BY DEF Calls!TakeOne, Calls!PageTimesOut, Calls!NoPage, Calls!IdOf
  <1>2. Calls!TypeOK /\ CallOK(c)
    BY DEF CallsInv
  <1>3. cAsked[c] \in Pages /\ \A i \in DOMAIN cQueue[c] : cQueue[c][i].page = cAsked[c]
    BY <1>1, <1>2 DEF Calls!TypeOK, Calls!NoPage, CallOK, AllCounts
  <1>4. /\ cQueue' = [cQueue EXCEPT ![c] = <<>>]
        /\ cValues' = [cValues EXCEPT ![c] =
              IF cQueue[c] = <<>> \/ r.answer = "error" THEN @
              ELSE @ \cup {<<cAsked[c], cAsked[c]>>}]
    <2>1. CASE Calls!TakeOne(c)
      <3>1. cQueue[c] # <<>>
        BY <2>1 DEF Calls!TakeOne
      <3>2. r.page = cAsked[c]
        <4>1. cQueue[c] \in Seq([page : Pages, answer : Calls!Answers])
          BY <1>2 DEF Calls!TypeOK
        <4>2. 1 \in DOMAIN cQueue[c] /\ r = cQueue[c][1]
          BY <3>1, <4>1
        <4> QED
          BY <1>3, <4>2
      <3> QED
        BY <2>1, <3>1, <3>2 DEF Calls!TakeOne
    <2>2. CASE Calls!PageTimesOut(c)
      <3>1. cQueue[c] = <<>> /\ UNCHANGED <<cQueue, cValues>>
        BY <2>2 DEF Calls!PageTimesOut
      <3> QED
        BY <1>2, <3>1 DEF Calls!TypeOK
    <2> QED
      BY <2>1, <2>2
  <1> DEFINE Vals == IF cQueue[c] = <<>> \/ r.answer = "error" THEN cValues[c]
                     ELSE cValues[c] \cup {<<cAsked[c], cAsked[c]>>}
  <1>5. /\ cValues' = [cValues EXCEPT ![c] = Vals]
        /\ Vals \in SUBSET (Pages \X Pages)
        /\ \A v \in Vals : v \in cValues[c] \/ v = <<cAsked[c], cAsked[c]>>
        /\ cValues[c] \subseteq Vals
        /\ cQueue[c] # <<>> /\ r.answer = "fit" => <<cAsked[c], cAsked[c]>> \in Vals
    <2>1. cValues[c] \in SUBSET (Pages \X Pages)
      BY <1>2 DEF Calls!TypeOK
    <2>2. cValues' = [cValues EXCEPT ![c] = Vals]
      BY <1>4
    <2> HIDE DEF r
    <2> QED
      BY <1>3, <2>1, <2>2
  <1> HIDE DEF r, Vals
  <1>6. /\ cQueue'[c] = <<>> /\ cAsked'[c] = None /\ cValues'[c] = Vals
        /\ \A d \in Requests : d # c => /\ cQueue'[d] = cQueue[d]
                                        /\ cAsked'[d] = cAsked[d]
                                        /\ cValues'[d] = cValues[d]
    BY <1>1, <1>2, <1>4, <1>5 DEF Calls!TypeOK
  <1>7. Calls!TypeOK'
    <2>1. <<>> \in Seq([page : Pages, answer : Calls!Answers])
      OBVIOUS
    <2>2. cQueue' \in [Requests -> Seq([page : Pages, answer : Calls!Answers])]
      BY <1>2, <1>4, <2>1 DEF Calls!TypeOK
    <2> QED
      BY <1>1, <1>2, <1>5, <2>2 DEF Calls!TypeOK, Calls!NoPage
  <1>8. WorkWasSent' /\ PendingIsAwaited'
    <2>1. WorkWasSent'
      BY <1>1 DEF CallsInv, WorkWasSent
    <2>2. \A id \in cPending' : id \in cPending /\ id[1] # c
      BY <1>1, IdsAreOfCalls DEF CallsInv, PendingIsAwaited
    <2>3. PendingIsAwaited'
      BY <1>1, <1>6, <2>2, IdsAreOfCalls DEF CallsInv, PendingIsAwaited
    <2> QED
      BY <2>1, <2>3
  <1>9. ASSUME NEW d \in Requests, d # c PROVE CallOK(d)'
    BY <1>1, <1>6, <1>9, CallStays
  <1>10. CallOK(c)'
    <2>1. cQueue'[c] = <<>> /\ DOMAIN cQueue'[c] = {}
      BY <1>6, EmptySequence
    <2>2. \A q \in Pages : cSaid'[c][q] = "fit" => <<q, q>> \in cValues'[c]
      BY <1>1, <1>2, <1>5, <1>6 DEF CallOK, AllCounts, r
    <2>3. AllCounts(c)'
      BY <2>1, <2>2 DEF AllCounts
    <2>4. CallReturns(c)'
      BY <1>1, <1>2, <1>5, <1>6 DEF CallOK, CallStands, CallReturns
    <2> QED
      BY <1>1, <1>2, <1>6, <2>3, <2>4 DEF CallOK, CallStands, OneCounts
  <1> QED
    BY <1>7, <1>8, <1>9, <1>10 DEF CallsInv

LEMMA CallsKeep == CallsInv /\ [Calls!Next]_calls => CallsInv'
  <1> SUFFICES ASSUME CallsInv, [Calls!Next]_calls PROVE CallsInv'
    OBVIOUS
  <1>1. CASE UNCHANGED calls
    <2>1. Calls!TypeOK' /\ WorkWasSent' /\ PendingIsAwaited'
      BY <1>1 DEF calls, CallsInv, Calls!TypeOK, WorkWasSent, PendingIsAwaited
    <2>2. \A c \in Requests : CallOK(c)'
      BY <1>1, CallStays DEF calls
    <2> QED
      BY <2>1, <2>2 DEF CallsInv
  <1>2. ASSUME NEW p \in Pages, Calls!Connect(p) \/ Calls!Disconnect(p) PROVE CallsInv'
    BY <1>2, ConnectionsKeep
  <1>3. ASSUME NEW p \in Pages, NEW id \in Calls!Ids, NEW a \in Calls!Answers,
               Calls!PageAnswers(p, id, a)
        PROVE  CallsInv'
    <2>1. PICK c \in Requests, x \in Pages \cup {None} : id = <<c, x>>
      BY DEF Calls!Ids
    <2> QED
      BY <1>3, <2>1, PageAnswersKeeps
  <1>4. ASSUME NEW c \in Requests, NEW p \in Pages, Calls!Ask(c, p) PROVE CallsInv'
    BY <1>4, AskKeeps
  <1>5. ASSUME NEW c \in Requests, NEW to \in SUBSET Pages, Calls!Execute(c, to)
        PROVE  CallsInv'
    BY <1>5, ExecuteKeeps
  <1>6. ASSUME NEW c \in Requests, Calls!Take(c) \/ Calls!TimesOut(c) PROVE CallsInv'
    BY <1>6, TakeKeeps, TimesOutKeeps
  <1>7. ASSUME NEW c \in Requests,
               \/ Calls!ExecuteAll(c) \/ Calls!TakeOne(c)
               \/ Calls!PageTimesOut(c) \/ Calls!AllAsked(c)
        PROVE  CallsInv'
    BY <1>7, ExecuteAllKeeps, NextPageKeeps, AllAskedKeeps
  <1> QED
    BY <1>1, <1>2, <1>3, <1>4, <1>5, <1>6, <1>7 DEF Calls!Next

LEMMA CallsInit == Calls!Init => CallsInv
  <1> SUFFICES ASSUME Calls!Init PROVE CallsInv
    OBVIOUS
  <1>1. Calls!TypeOK
    <2>1. <<>> \in Seq([page : Pages, answer : Calls!Answers])
      OBVIOUS
    <2>2. cQueue \in [Requests -> Seq([page : Pages, answer : Calls!Answers])]
      BY <2>1 DEF Calls!Init
    <2> QED
      BY <2>2 DEF Calls!Init, Calls!TypeOK, Calls!Outcomes, Calls!NoPage
  <1>2. WorkWasSent /\ PendingIsAwaited
    BY DEF Calls!Init, WorkWasSent, PendingIsAwaited
  <1>3. ASSUME NEW c \in Requests PROVE CallOK(c)
    BY DEF Calls!Init, CallOK, CallStands, OneCounts, AllCounts, CallReturns,
      Calls!NoPage
  <1> QED
    BY <1>1, <1>2, <1>3 DEF CallsInv

\* However many pages answer, in whatever order, late or not at all, a call
\* fails only if no page it was sent to had the answer, and counts an answer
\* for the page it had asked (BridgeRPCServer.execute, execute_all).
THEOREM AnswersOfPages == PartsSpec => []AnswersCount
  <1> DEFINE Inv == part = "calls" => CallsInv
  <1>1. PartsInit => Inv
    BY CallsInit DEF PartsInit
  <1>2. Inv /\ [PartsNext]_all => Inv'
    BY StepOfPart, CallsKeep
  <1>3. Inv => AnswersCount
    BY DEF AnswersCount, CallsInv, CallOK, CallReturns,
      Calls!FailureIsUnanimous, Calls!AnswersMatch
  <1> QED
    BY <1>1, <1>2, <1>3, PTL DEF PartsSpec
-----------------------------------------------------------------------------
(* SendTokens: what a native send is told.                                    *)

LEMMA SameTokens == Tokens!Tokens = 1 .. Cardinality(Texts)
  <1>1. Tokens!Cardinality(Texts) = Cardinality(Texts)
    BY DEF Tokens!Cardinality, Cardinality
  <1> QED
    BY <1>1 DEF Tokens!Tokens

\* The sends that have taken a token.
Begun == {s \in Texts : kState[s] # "idle"}

\* The types, with a counter that no send finds above Tokens.
TokenTypes ==
    /\ kToken \in [Texts -> Tokens!Tokens \cup {0}]
    /\ kState \in [Texts -> {"idle", "taken", "waiting", "ended"}]
    /\ kResult \in [Texts -> Texts \cup {None}]
    /\ kReceipts \in [Tokens!Tokens -> Texts \cup {None, "pending"}]
    /\ kDue \subseteq Texts \X Tokens!Tokens
    /\ kCounter \in Nat \ {0} /\ kRestarts \in Nat
    /\ kCounter <= Cardinality(Begun) + 1
    /\ \A s \in Texts : kState[s] \in {"taken", "waiting"} => kToken[s] \in Tokens!Tokens

\* In one run of the bridge tokens are below the counter and differ.
TokensNumbered ==
    /\ \A s \in Texts : kToken[s] < kCounter
    /\ \A s \in Texts : kState[s] = "idle" => kToken[s] = 0
    /\ \A s, t \in Texts : kToken[s] = kToken[t] /\ kToken[s] # 0 => s = t

\* Callbacks, receipts and results are those of the token's own send.
OwnCallbacks ==
    /\ \A c \in kDue : kToken[c[1]] = c[2]
    /\ \A t \in Tokens!Tokens : kReceipts[t] \in Texts => kToken[kReceipts[t]] = t
    /\ \A s \in Texts : kResult[s] \in {s, None}

TokensInv == TokenTypes /\ (kRestarts = 0 => TokensNumbered /\ OwnCallbacks)

\* Calls that end without cancelling leave their tokens taken.
LEMMA AbandonedBegun ==
    ASSUME TokenTypes, NEW S \in SUBSET Texts, kState' = Tokens!Abandoned(S)
    PROVE  /\ kState' \in [Texts -> {"idle", "taken", "waiting", "ended"}]
           /\ Begun' = Begun
           /\ \A s \in Texts : kState'[s] = "idle" <=> kState[s] = "idle"
           /\ \A s \in Texts : kState'[s] \in {kState[s], "ended"}
  <1>1. \A s \in Texts : kState'[s] = "idle" <=> kState[s] = "idle"
    BY DEF Tokens!Abandoned, TokenTypes
  <1>2. \A s \in Texts : kState'[s] \in {kState[s], "ended"}
    BY DEF Tokens!Abandoned
  <1>3. kState' \in [Texts -> {"idle", "taken", "waiting", "ended"}]
    BY DEF Tokens!Abandoned, TokenTypes
  <1> QED
    BY <1>1, <1>2, <1>3 DEF Begun

LEMMA TokensInit ==
    ASSUME IsFiniteSet(Texts), None \notin Texts, Tokens!Init PROVE TokensInv
  <1>1. Begun = {} /\ Cardinality({}) = 0
    BY FS_EmptySet DEF Tokens!Init, Begun
  <1> QED
    BY <1>1 DEF Tokens!Init, TokensInv, TokenTypes, TokensNumbered, OwnCallbacks

\* A send takes a token that no send has, and there is one left for it.
LEMMA TokenTakeKeeps ==
    ASSUME IsFiniteSet(Texts), TokensInv, NEW s \in Texts, Tokens!Take(s) PROVE TokensInv'
  <1>1. Cardinality(Begun') = Cardinality(Begun) + 1 /\ Cardinality(Begun) \in Nat
    <2>1. Begun' = Begun \cup {s} /\ s \notin Begun
      BY DEF Begun, Tokens!Take, TokensInv, TokenTypes
    <2>2. IsFiniteSet(Begun)
      BY FS_Subset DEF Begun
    <2> QED
      BY <2>1, <2>2, FS_AddElement, FS_CardinalityType
  <1>2. Cardinality(Begun') <= Cardinality(Texts) /\ Cardinality(Texts) \in Nat
    <2>1. Begun' \subseteq Texts
      BY DEF Begun
    <2> QED
      BY <2>1, FS_Subset, FS_CardinalityType
  <1>3. kCounter \in Tokens!Tokens
    BY <1>1, <1>2, SameTokens DEF TokensInv, TokenTypes
  <1>4. TokenTypes'
    BY <1>1, <1>3 DEF TokensInv, TokenTypes, Tokens!Take, Tokens!Tokens
  <1>5. CASE kRestarts # 0
    BY <1>4, <1>5 DEF TokensInv, Tokens!Take
  <1>6. CASE kRestarts = 0
    <2>1. TokensNumbered'
      BY <1>3, <1>6 DEF TokensInv, TokenTypes, Tokens!Take, TokensNumbered, Tokens!Tokens
    <2>2. \A c \in kDue : c[1] # s
      BY <1>6 DEF TokensInv, TokenTypes, Tokens!Take, TokensNumbered, OwnCallbacks, Tokens!Tokens
    <2>3. \A t \in Tokens!Tokens : kReceipts[t] \in Texts => kReceipts[t] # s
      BY <1>6 DEF TokensInv, TokenTypes, Tokens!Take, TokensNumbered, OwnCallbacks, Tokens!Tokens
    <2>4. OwnCallbacks'
      BY <1>6, <2>2, <2>3 DEF TokensInv, TokenTypes, Tokens!Take, OwnCallbacks
    <2> QED
      BY <1>4, <2>1, <2>4 DEF TokensInv
  <1> QED
    BY <1>5, <1>6

\* The rest of a call, and the callbacks, take no tokens.
LEMMA TokenCallKeeps ==
    ASSUME None \notin Texts, "pending" \notin Texts, TokensInv, NEW s \in Texts,
           Tokens!Submit(s) \/ Tokens!Poll(s) \/ Tokens!Cancel(s)
    PROVE  TokensInv'
  <1>1. Begun' = Begun
    BY DEF Begun, TokensInv, TokenTypes, Tokens!Submit, Tokens!Poll, Tokens!Cancel
  <1>2. kToken[s] \in Tokens!Tokens
    BY DEF TokensInv, TokenTypes, Tokens!Submit, Tokens!Poll, Tokens!Cancel
  <1>3. TokenTypes'
    BY <1>1, <1>2 DEF TokensInv, TokenTypes, Tokens!Submit, Tokens!Poll, Tokens!Cancel
  <1>4. kRestarts = 0 => TokensNumbered'
    BY DEF TokensInv, TokenTypes, TokensNumbered, Tokens!Submit, Tokens!Poll, Tokens!Cancel
  <1>5. kRestarts = 0 => OwnCallbacks'
    <2>1. CASE Tokens!Submit(s)
      BY <1>2, <2>1 DEF TokensInv, TokenTypes, OwnCallbacks, Tokens!Submit
    <2>2. CASE Tokens!Cancel(s)
      BY <1>2, <2>2 DEF TokensInv, TokenTypes, OwnCallbacks, Tokens!Cancel
    <2>3. CASE Tokens!Poll(s)
      <3>1. ASSUME kRestarts = 0 PROVE kReceipts[kToken[s]] = s
        <4>1. kToken[kReceipts[kToken[s]]] = kToken[s] /\ kToken[s] # 0
          BY <1>2, <2>3, <3>1 DEF TokensInv, OwnCallbacks, Tokens!Poll, Tokens!Tokens
        <4> QED
          BY <2>3, <3>1, <4>1 DEF TokensInv, TokensNumbered, Tokens!Poll
      <3> QED
        BY <1>2, <2>3, <3>1 DEF TokensInv, TokenTypes, OwnCallbacks, Tokens!Poll
    <2> QED
      BY <2>1, <2>2, <2>3
  <1>6. kRestarts' = kRestarts
    BY DEF Tokens!Submit, Tokens!Poll, Tokens!Cancel
  <1> QED
    BY <1>3, <1>4, <1>5, <1>6 DEF TokensInv

LEMMA CallbackKeeps ==
    ASSUME TokensInv, NEW c \in kDue, Tokens!Callback(c) PROVE TokensInv'
  <1>1. c[1] \in Texts /\ c[2] \in Tokens!Tokens
    BY DEF TokensInv, TokenTypes
  <1>2. Begun' = Begun
    BY DEF Begun, Tokens!Callback
  <1>3. TokenTypes'
    BY <1>1, <1>2 DEF TokensInv, TokenTypes, Tokens!Callback
  <1>4. kRestarts = 0 => TokensNumbered' /\ OwnCallbacks'
    BY <1>1 DEF TokensInv, TokenTypes, TokensNumbered, OwnCallbacks, Tokens!Callback
  <1> QED
    BY <1>3, <1>4 DEF TokensInv, Tokens!Callback

\* The script is detached, or the bridge ends: calls end, receipts stay.
LEMMA TokenEndsKeep ==
    ASSUME IsFiniteSet(Texts), TokensInv, Tokens!Detach \/ Tokens!Restart PROVE TokensInv'
  <1>1. PICK S \in SUBSET Texts : kState' = Tokens!Abandoned(S)
    BY DEF Tokens!Detach, Tokens!Restart
  <1>2. /\ kState' \in [Texts -> {"idle", "taken", "waiting", "ended"}]
        /\ Begun' = Begun
        /\ \A s \in Texts : kState'[s] = "idle" <=> kState[s] = "idle"
        /\ \A s \in Texts : kState'[s] \in {kState[s], "ended"}
    BY <1>1, AbandonedBegun DEF TokensInv
  <1>3. Cardinality(Begun) \in Nat
    BY FS_Subset, FS_CardinalityType DEF Begun
  <1>4. TokenTypes'
    BY <1>2, <1>3 DEF TokensInv, TokenTypes, Tokens!Detach, Tokens!Restart
  <1>5. CASE Tokens!Detach
    BY <1>2, <1>4, <1>5 DEF TokensInv, Tokens!Detach, TokensNumbered, OwnCallbacks
  <1>6. CASE Tokens!Restart
    BY <1>4, <1>6 DEF TokensInv, TokenTypes, Tokens!Restart
  <1> QED
    BY <1>5, <1>6

LEMMA TokensKeep == TokensInv /\ [Tokens!Next]_tokens => TokensInv'
  <1> SUFFICES ASSUME TokensInv, [Tokens!Next]_tokens PROVE TokensInv'
    OBVIOUS
  <1>1. ASSUME NEW s \in Texts, Tokens!Take(s) PROVE TokensInv'
    BY <1>1, TokenTakeKeeps, TextsAssumption
  <1>2. ASSUME NEW s \in Texts, Tokens!Submit(s) \/ Tokens!Poll(s) \/ Tokens!Cancel(s)
        PROVE  TokensInv'
    BY <1>2, TokenCallKeeps, TextsAssumption
  <1>3. ASSUME NEW c \in kDue, Tokens!Callback(c) PROVE TokensInv'
    BY <1>3, CallbackKeeps
  <1>4. CASE Tokens!Detach \/ Tokens!Restart
    BY <1>4, TokenEndsKeep, TextsAssumption
  <1>5. CASE UNCHANGED tokens
    BY <1>5 DEF tokens, TokensInv, TokenTypes, Begun, TokensNumbered, OwnCallbacks
  <1> QED
    BY <1>1, <1>2, <1>3, <1>4, <1>5 DEF Tokens!Next

\* However late callbacks come and however often the script is loaded again, the
\* result a send is told is its own message's, for any number of sends: tokens
\* are not taken twice in one run of the bridge (send_text, next_send_token).
THEOREM OwnReceipt == PartsSpec => []ReceiptIsOwn
  <1> DEFINE Inv == part = "tokens" => TokensInv
  <1>1. PartsInit => Inv
    BY TokensInit, TextsAssumption DEF PartsInit
  <1>2. Inv /\ [PartsNext]_all => Inv'
    BY StepOfPart, TokensKeep
  <1>3. Inv => ReceiptIsOwn
    BY DEF ReceiptIsOwn, Tokens!ReceiptIsOwn, TokensInv, OwnCallbacks
  <1> QED
    BY <1>1, <1>2, <1>3, PTL DEF PartsSpec

-----------------------------------------------------------------------------
(* Upgrade: what is left of an upgrade that fails.                            *)

Forward == {"check", "stop", "database", "move", "copy", "start", "verify"}
Untouched == {"check", "stop", "database", "refused"}
\* The steps of the recovery, in their order.
AfterAside == {"back", "config", "startOld", "restored"}
AfterBack == {"config", "startOld", "restored"}
Recovery == {"stopAgain", "aside"} \cup AfterAside

UpgradeTypes ==
    /\ uOld \subseteq Paths /\ uSaved \subseteq uMoved /\ uMoved \subseteq uOld
    /\ uCreated \subseteq Paths
    /\ uRoot \in [Paths -> {"none", "part", "old", "new", "merged"}]
    /\ uPc \in Forward \cup Recovery \cup Upgrading!Ends
    /\ uPc = "copy" => uAt \in Paths
    /\ uFailures \in Nat

\* Where the paths of the old program are, and what is in their places.
OldKept ==
    /\ \A f \in uOld \ uSaved : uRoot[f] = "old"
    /\ \A f \in uSaved \ uCreated : uRoot[f] = "none"
    /\ \A f \in Paths \ (uOld \cup uCreated) : uRoot[f] = "none"
    /\ uCreated \cap uOld \subseteq uMoved

\* How far the upgrade has come.
ForwardSteps ==
    /\ uPc \in Untouched => uSaved = {} /\ uMoved = {} /\ uCreated = {}
    /\ uPc \in Forward \cup {"stopAgain", "aside"} => uSaved = uMoved
    /\ uPc = "move" => uMoved \subseteq uCreated
    /\ uPc = "copy" => /\ uAt \notin uCreated
                       /\ uAt \in uOld => uAt \in uMoved
                       /\ uMoved \subseteq uCreated \cup {uAt}
    /\ uPc \in {"stopAgain", "aside"} \cup AfterAside => uMoved \subseteq uCreated
    /\ uPc \in {"move", "copy", "start", "verify", "done"} =>
          \A f \in uCreated : uRoot[f] \in {"new", "merged"}
    /\ uPc \in {"start", "verify", "done"} => uCreated = Paths
    /\ uPc \in {"verify", "done"} => uRunning = "new"
    /\ uPc = "done" => uConfig # "changed"

\* How far its recovery has.
RecoverySteps ==
    /\ uPc \in AfterAside => \A f \in uSaved \cup (Paths \ uOld) : uRoot[f] = "none"
    /\ uPc \in AfterBack => uSaved = {}
    /\ uPc \in {"startOld", "restored"} => uConfig = "asWas"
    /\ uPc = "restored" => uRunning = "old"

\* Who takes a way out has had a failure.
FailuresCounted ==
    /\ uPc \in Recovery \/ uConfig = "changed" => uFailures >= 1
    /\ uPc = "stuck" => uFailures >= 2

USE DEF Forward, Untouched, AfterAside, AfterBack, Recovery, Upgrading!Ends

UpgradeInv ==
    UpgradeTypes /\ OldKept /\ ForwardSteps /\ RecoverySteps /\ FailuresCounted

LEMMA UpgradeBegins == Upgrading!Init => UpgradeInv
  <1> SUFFICES ASSUME Upgrading!Init PROVE UpgradeInv
    OBVIOUS
  <1>1. UpgradeTypes /\ OldKept
    BY DEF Upgrading!Init, UpgradeTypes, OldKept
  <1>2. ForwardSteps
    BY DEF Upgrading!Init, ForwardSteps
  <1>3. RecoverySteps /\ FailuresCounted
    BY DEF Upgrading!Init, RecoverySteps, FailuresCounted
  <1> QED
    BY <1>1, <1>2, <1>3 DEF UpgradeInv

\* Before anything is moved.
LEMMA BeforeKeeps ==
    ASSUME UpgradeInv, Upgrading!Check \/ Upgrading!Stop \/ Upgrading!BackUpDatabase
    PROVE  UpgradeInv'
  <1>1. /\ uPc \in Untouched /\ uSaved = {} /\ uMoved = {} /\ uCreated = {}
        /\ UNCHANGED <<uOld, uRoot, uSaved, uMoved, uCreated, uConfig>>
    BY DEF Upgrading!Check, Upgrading!Stop, Upgrading!BackUpDatabase,
      Upgrading!files, UpgradeInv, ForwardSteps
  <1>2. \/ /\ uPc' \in Untouched \cup {"move"}
           /\ uFailures' \in {uFailures, uFailures + 1}
        \/ uPc' = "stopAgain" /\ uFailures' = uFailures + 1
    BY DEF Upgrading!Check, Upgrading!Stop, Upgrading!BackUpDatabase,
      Upgrading!Goes, Upgrading!Fails
  <1>3. UpgradeTypes' /\ OldKept' /\ FailuresCounted'
    BY <1>1, <1>2 DEF UpgradeInv, UpgradeTypes, OldKept, FailuresCounted
  <1>4. ForwardSteps' /\ RecoverySteps'
    BY <1>1, <1>2 DEF UpgradeInv, ForwardSteps, RecoverySteps
  <1> QED
    BY <1>3, <1>4 DEF UpgradeInv

\* A path that is moved is an old one in its place.
LEMMA MoveKeeps == ASSUME UpgradeInv, Upgrading!Move PROVE UpgradeInv'
  <1>1. /\ uAt' \in Paths \ uCreated /\ uPc = "move"
        /\ UNCHANGED <<uOld, uCreated, uRunning, uConfig>>
    BY DEF Upgrading!Move
  <1>2. /\ uSaved = uMoved /\ uMoved \subseteq uCreated
        /\ uCreated \cap uOld \subseteq uMoved
    BY <1>1 DEF UpgradeInv, ForwardSteps, OldKept
  <1>3. uAt' \notin uMoved /\ (uRoot[uAt'] # "none" <=> uAt' \in uOld)
    BY <1>1, <1>2 DEF UpgradeInv, UpgradeTypes, OldKept
  <1>4. UpgradeTypes' /\ OldKept'
    BY <1>1, <1>2, <1>3 DEF UpgradeInv, UpgradeTypes, OldKept, Upgrading!Move,
      Upgrading!Goes, Upgrading!Fails
  <1>5. ForwardSteps'
    BY <1>1, <1>2, <1>3 DEF UpgradeInv, UpgradeTypes, ForwardSteps,
      Upgrading!Move, Upgrading!Goes, Upgrading!Fails
  <1>6. RecoverySteps' /\ FailuresCounted'
    BY <1>1 DEF UpgradeInv, UpgradeTypes, RecoverySteps, FailuresCounted,
      Upgrading!Move, Upgrading!Goes, Upgrading!Fails
  <1> QED
    BY <1>4, <1>5, <1>6 DEF UpgradeInv

\* What is copied over the place of an old path is copied after that was saved.
LEMMA CopyKeeps == ASSUME UpgradeInv, Upgrading!Copy PROVE UpgradeInv'
  <1>1. /\ uPc = "copy" /\ uAt \in Paths /\ uCreated' = uCreated \cup {uAt}
        /\ UNCHANGED <<uOld, uSaved, uMoved, uRunning, uConfig, uAt>>
    BY DEF Upgrading!Copy, UpgradeInv, UpgradeTypes
  <1>2. PICK left \in {"none", "part", "new", "merged"} :
           /\ uRoot' = [uRoot EXCEPT ![uAt] = left]
           /\ \/ /\ left \in {"new", "merged"}
                 /\ Upgrading!Goes(IF uCreated' = Paths THEN "start" ELSE "move")
              \/ Upgrading!Fails("stopAgain")
    <2>1. Upgrading!Copied(uAt) \in {"new", "merged"}
      BY DEF Upgrading!Copied
    <2>2. CASE \E left \in {"none", "part"} : uRoot' = [uRoot EXCEPT ![uAt] = left]
      BY <2>2, <2>1 DEF Upgrading!Copy
    <2>3. CASE uRoot' = [uRoot EXCEPT ![uAt] = Upgrading!Copied(uAt)]
      BY <2>1, <2>3 DEF Upgrading!Copy
    <2> QED
      BY <2>2, <2>3 DEF Upgrading!Copy
  <1>3. /\ uSaved = uMoved /\ (uAt \in uOld => uAt \in uMoved)
        /\ uMoved \subseteq uCreated \cup {uAt}
    BY <1>1 DEF UpgradeInv, ForwardSteps
  <1>4. UpgradeTypes' /\ OldKept'
    BY <1>1, <1>2, <1>3 DEF UpgradeInv, UpgradeTypes, OldKept, Upgrading!Goes,
      Upgrading!Fails
  <1>5. ForwardSteps'
    BY <1>1, <1>2, <1>3 DEF UpgradeInv, UpgradeTypes, ForwardSteps,
      Upgrading!Goes, Upgrading!Fails
  <1>6. RecoverySteps' /\ FailuresCounted'
    BY <1>1, <1>2 DEF UpgradeInv, UpgradeTypes, RecoverySteps, FailuresCounted,
      Upgrading!Goes, Upgrading!Fails
  <1> QED
    BY <1>4, <1>5, <1>6 DEF UpgradeInv

\* The new helper is started and its configuration compared.
LEMMA StartKeeps == ASSUME UpgradeInv, Upgrading!StartNew \/ Upgrading!Verify
    PROVE  UpgradeInv'
  BY DEF Upgrading!StartNew, Upgrading!Verify, Upgrading!Goes, Upgrading!Fails,
    Upgrading!files, UpgradeInv, UpgradeTypes, OldKept, ForwardSteps,
    RecoverySteps, FailuresCounted

LEMMA StopAgainKeeps == ASSUME UpgradeInv, Upgrading!StopAgain PROVE UpgradeInv'
  BY DEF Upgrading!StopAgain, Upgrading!Goes, Upgrading!Fails, Upgrading!files,
    UpgradeInv, UpgradeTypes, OldKept, ForwardSteps, RecoverySteps,
    FailuresCounted

\* Only what was created is moved aside, and an old path there is saved.
LEMMA AsideKeeps == ASSUME UpgradeInv, Upgrading!Aside PROVE UpgradeInv'
  <1>1. /\ uPc = "aside" /\ uSaved = uMoved /\ uCreated \cap uOld \subseteq uMoved
        /\ uMoved \subseteq uCreated
        /\ UNCHANGED <<uOld, uSaved, uMoved, uCreated, uRunning, uConfig, uAt>>
    BY DEF Upgrading!Aside, UpgradeInv, ForwardSteps, OldKept
  <1>2. UpgradeTypes' /\ OldKept'
    BY <1>1 DEF UpgradeInv, UpgradeTypes, OldKept, Upgrading!Aside,
      Upgrading!Goes, Upgrading!Fails
  <1>3. ForwardSteps' /\ FailuresCounted'
    BY <1>1 DEF UpgradeInv, UpgradeTypes, ForwardSteps, FailuresCounted,
      Upgrading!Aside, Upgrading!Goes, Upgrading!Fails
  <1>4. RecoverySteps'
    BY <1>1 DEF UpgradeInv, UpgradeTypes, OldKept, RecoverySteps,
      Upgrading!Aside, Upgrading!Goes, Upgrading!Fails
  <1> QED
    BY <1>2, <1>3, <1>4 DEF UpgradeInv

\* An old path is moved back to a place that is free.
LEMMA BackKeeps == ASSUME UpgradeInv, Upgrading!Back PROVE UpgradeInv'
  <1>1. /\ uPc = "back" /\ uMoved \subseteq uCreated
        /\ \A f \in uSaved \cup (Paths \ uOld) : uRoot[f] = "none"
        /\ UNCHANGED <<uOld, uMoved, uCreated, uRunning, uConfig, uAt>>
    BY DEF Upgrading!Back, UpgradeInv, ForwardSteps, RecoverySteps
  <1>2. CASE \E f \in uMoved \cap uSaved :
                /\ uRoot' = [uRoot EXCEPT ![f] = "old"]
                /\ uSaved' = uSaved \ {f} /\ Upgrading!Goes("back")
    <2>1. PICK f \in uMoved \cap uSaved :
             /\ uRoot' = [uRoot EXCEPT ![f] = "old"]
             /\ uSaved' = uSaved \ {f} /\ Upgrading!Goes("back")
      BY <1>2
    <2>2. UpgradeTypes' /\ OldKept'
      BY <1>1, <2>1 DEF UpgradeInv, UpgradeTypes, OldKept, Upgrading!Goes
    <2>3. ForwardSteps' /\ RecoverySteps' /\ FailuresCounted'
      BY <1>1, <2>1 DEF UpgradeInv, UpgradeTypes, ForwardSteps, RecoverySteps,
        FailuresCounted, Upgrading!Goes
    <2> QED
      BY <2>2, <2>3 DEF UpgradeInv
  <1>3. CASE /\ uMoved \cap uSaved = {} /\ Upgrading!Goes("config")
             /\ UNCHANGED <<uRoot, uSaved>>
    BY <1>1, <1>3 DEF UpgradeInv, UpgradeTypes, OldKept, ForwardSteps,
      RecoverySteps, FailuresCounted, Upgrading!Goes
  <1>4. CASE Upgrading!Fails("stuck") /\ UNCHANGED <<uRoot, uSaved>>
    BY <1>1, <1>4 DEF UpgradeInv, UpgradeTypes, OldKept, ForwardSteps,
      RecoverySteps, FailuresCounted, Upgrading!Fails
  <1>5. \A f \in uMoved \cap uSaved : uRoot[f] = "none"
    BY <1>1
  <1> QED
    BY <1>2, <1>3, <1>4, <1>5 DEF Upgrading!Back

\* The end of the recovery, and a process that is killed.
LEMMA RecoveryEndKeeps ==
    ASSUME UpgradeInv, \/ Upgrading!WriteConfig \/ Upgrading!StartOld
                       \/ Upgrading!Killed \/ UNCHANGED upgrade
    PROVE  UpgradeInv'
  BY DEF Upgrading!WriteConfig, Upgrading!StartOld, Upgrading!Killed,
    Upgrading!Goes, Upgrading!Fails, Upgrading!files, upgrade, UpgradeInv,
    UpgradeTypes, OldKept, ForwardSteps, RecoverySteps, FailuresCounted

HIDE DEF Forward, Untouched, AfterAside, AfterBack, Recovery, Upgrading!Ends

LEMMA UpgradeKeeps == UpgradeInv /\ [Upgrading!Next]_upgrade => UpgradeInv'
  BY BeforeKeeps, MoveKeeps, CopyKeeps, StartKeeps, StopAgainKeeps, AsideKeeps,
    BackKeeps, RecoveryEndKeeps DEF Upgrading!Next

\* The rest of the types, which those proofs do not need.
UpgradeCounts ==
    /\ uRunning \in {"none", "old", "new"}
    /\ uConfig \in {"asWas", "migrated", "changed"}
    /\ uAt \in Paths /\ uFailures \in 0 .. MaxFailures

LEMMA UpgradeCountsBegin == Upgrading!Init => UpgradeCounts
  <1> SUFFICES ASSUME Upgrading!Init PROVE UpgradeCounts
    OBVIOUS
  <1>1. PICK f \in Paths : f \in uOld
    BY DEF Upgrading!Init
  <1>2. uAt \in Paths
    BY <1>1 DEF Upgrading!Init
  <1> QED
    BY <1>2, UpgradeAssumption DEF Upgrading!Init, UpgradeCounts

LEMMA UpgradeCountsKeep ==
    ASSUME UpgradeCounts, [Upgrading!Next]_upgrade PROVE UpgradeCounts'
  <1>1. CASE Upgrading!Check \/ Upgrading!Stop \/ Upgrading!BackUpDatabase
    BY <1>1, UpgradeAssumption DEF Upgrading!Check, Upgrading!Stop,
      Upgrading!BackUpDatabase, Upgrading!Goes, Upgrading!Fails, UpgradeCounts
  <1>2. CASE Upgrading!Move \/ Upgrading!Copy
    BY <1>2, UpgradeAssumption DEF Upgrading!Move, Upgrading!Copy,
      Upgrading!Goes, Upgrading!Fails, UpgradeCounts
  <1>3. CASE Upgrading!StartNew \/ Upgrading!Verify
    BY <1>3, UpgradeAssumption DEF Upgrading!StartNew, Upgrading!Verify,
      Upgrading!Goes, Upgrading!Fails, UpgradeCounts
  <1>4. CASE Upgrading!StopAgain \/ Upgrading!Aside \/ Upgrading!Back
    BY <1>4, UpgradeAssumption DEF Upgrading!StopAgain, Upgrading!Aside,
      Upgrading!Back, Upgrading!Goes, Upgrading!Fails, UpgradeCounts
  <1>5. CASE Upgrading!WriteConfig \/ Upgrading!StartOld \/ Upgrading!Killed
    BY <1>5, UpgradeAssumption DEF Upgrading!WriteConfig, Upgrading!StartOld,
      Upgrading!Killed, Upgrading!Goes, Upgrading!Fails, UpgradeCounts
  <1>6. CASE UNCHANGED upgrade
    BY <1>6 DEF upgrade, UpgradeCounts
  <1> QED
    BY <1>1, <1>2, <1>3, <1>4, <1>5, <1>6 DEF Upgrading!Next

\* Wherever the upgrade of any number of paths fails, in the recovery too, or is
\* killed, every path of the old program is in its place or in the backup; it
\* claims success or a restored installation only of one, and asks for help only
\* after two failures (replace_program).
THEOREM UpgradesSafely == PartsSpec => []UpgradeIsSafe
  <1>1. PartsInit => UpgradeInv
    BY UpgradeBegins DEF PartsInit
  <1>2. UpgradeInv /\ [PartsNext]_all => UpgradeInv'
    <2> SUFFICES ASSUME UpgradeInv, [PartsNext]_all PROVE UpgradeInv'
      OBVIOUS
    <2>1. [Upgrading!Next]_upgrade
      BY StepOfPart
    <2> QED
      BY <2>1, UpgradeKeeps
  <1>3. UpgradeInv => UpgradeIsSafe
    <2> SUFFICES ASSUME UpgradeInv PROVE Upgrading!UpgradeIsSafe
      BY DEF UpgradeIsSafe
    <2>1. Upgrading!OldIsKept
      BY DEF UpgradeInv, OldKept, Upgrading!OldIsKept
    <2>2. Upgrading!OutcomeIsTrue
      BY DEF UpgradeInv, UpgradeTypes, OldKept, ForwardSteps, RecoverySteps,
        AfterAside, AfterBack, Upgrading!OutcomeIsTrue
    <2>3. Upgrading!OneFailureIsRecovered
      BY DEF UpgradeInv, FailuresCounted, UpgradeTypes,
        Upgrading!OneFailureIsRecovered
    <2> QED
      BY <2>1, <2>2, <2>3 DEF Upgrading!UpgradeIsSafe
  <1> QED
    BY <1>1, <1>2, <1>3, PTL DEF PartsSpec

-----------------------------------------------------------------------------
(* CommandPool: the center is told what is stored, by the receivers alone and *)
(* beside a worker whose queue overflows.                                     *)

AloneTold == INSTANCE CommandPoolProofs WITH
    Sends <- InlineSends, Chats <- {}, Refused <- {}, Convs <- {"k"},
    ConvOf <- [c \in InlineSends |-> "k"], Workers <- {}, Poller <- "poller",
    Receivers <- {"poller", "pusher"}, QueueMax <- 0, MaxWaiting <- 0,
    MaxCrashes <- 1, NoCommand <- None, row <- iRow, result <- iResult,
    age <- iAge, queue <- iQueue, pc <- iPc, cmd <- iCmd, res <- iRes,
    todo <- iTodo, receipt <- iReceipt, copies <- iCopies, opened <- iOpened,
    center <- iCenter, arrived <- iArrived, crashes <- iCrashes

BesideTold == INSTANCE CommandPoolProofs WITH
    Sends <- InlineSends, Chats <- {}, Refused <- {}, Convs <- {"k"},
    ConvOf <- [c \in InlineSends |-> "k"], Workers <- {"w"}, Poller <- "poller",
    Receivers <- {"poller"}, QueueMax <- 1, MaxWaiting <- 1,
    MaxCrashes <- 1, NoCommand <- None, row <- jRow, result <- jResult,
    age <- jAge, queue <- jQueue, pc <- jPc, cmd <- jCmd, res <- jRes,
    todo <- jTodo, receipt <- jReceipt, copies <- jCopies, opened <- jOpened,
    center <- jCenter, arrived <- jArrived, crashes <- jCrashes

\* Commands without the pool: ToldIsStored of that instance.
LEMMA AloneIsTold ==
    AloneTold!Spec => [](AloneTold!ReportedIsDurable /\ AloneTold!AcknowledgedIsKnown)
  <1>1. AloneTold!KindsAssumption /\ AloneTold!ConvAssumption
        /\ AloneTold!ThreadsAssumption /\ AloneTold!PoolAssumption
    BY InlineAssumption DEF AloneTold!Commands
  <1> QED
    BY <1>1, AloneTold!ToldIsStored

LEMMA AloneSteps == Alone!Next => AloneTold!Next
  BY DEF Alone!Next, AloneTold!Next, Alone!Handle, AloneTold!Handle, Alone!Work,
         AloneTold!Work, Alone!Dispatch, AloneTold!Dispatch, Alone!Take,
         AloneTold!Take, Alone!Lock, AloneTold!Lock, Alone!Claim,
         AloneTold!Claim, Alone!Refuse, AloneTold!Refuse, Alone!SendText,
         AloneTold!SendText, Alone!HandOver, AloneTold!HandOver,
         Alone!SendReturns, AloneTold!SendReturns, Alone!OpenChat,
         AloneTold!OpenChat, Alone!ReceiptMoves, AloneTold!ReceiptMoves,
         Alone!Store, AloneTold!Store, Alone!Report, AloneTold!Report,
         Alone!NextResult, AloneTold!NextResult, Alone!Acknowledge,
         AloneTold!Acknowledge, Alone!ReportFails, AloneTold!ReportFails,
         Alone!Place, AloneTold!Place, Alone!Retry, AloneTold!Retry,
         Alone!Crash, AloneTold!Crash, Alone!Elements, AloneTold!Elements,
         Alone!RemoveAt, AloneTold!RemoveAt, Alone!Touch, AloneTold!Touch,
         Alone!Goes, AloneTold!Goes, Alone!Rests, AloneTold!Rests,
         Alone!Busy, AloneTold!Busy, Alone!Commands, AloneTold!Commands,
         Alone!Threads, AloneTold!Threads, Alone!table, AloneTold!table,
         Alone!threads, AloneTold!threads, Alone!receipts,
         AloneTold!receipts, Alone!outside, AloneTold!outside,
         Alone!Receipts!Open, AloneTold!Receipts!Open,
         Alone!Receipts!Recall, AloneTold!Receipts!Recall,
         Alone!Receipts!Deliver, AloneTold!Receipts!Deliver,
         Alone!Receipts!Reject, AloneTold!Receipts!Reject,
         Alone!Receipts!Confirm, AloneTold!Receipts!Confirm,
         Alone!Receipts!GiveUp, AloneTold!Receipts!GiveUp

LEMMA AloneBegins == PartsInit => AloneTold!Init
  BY DEF PartsInit, Alone!Init, AloneTold!Init, Alone!Commands, AloneTold!Commands,
         Alone!Threads, AloneTold!Threads, Alone!Receipts!Init, AloneTold!Receipts!Init

\* The same beside the pool.
LEMMA BesideIsTold ==
    BesideTold!Spec => [](BesideTold!ReportedIsDurable /\ BesideTold!AcknowledgedIsKnown)
  <1>1. BesideTold!KindsAssumption /\ BesideTold!ConvAssumption
        /\ BesideTold!ThreadsAssumption /\ BesideTold!PoolAssumption
    BY InlineAssumption DEF BesideTold!Commands
  <1> QED
    BY <1>1, BesideTold!ToldIsStored

LEMMA BesideSteps == Beside!Next => BesideTold!Next
  BY DEF Beside!Next, BesideTold!Next, Beside!Handle, BesideTold!Handle,
         Beside!Work, BesideTold!Work, Beside!Dispatch,
         BesideTold!Dispatch, Beside!Take, BesideTold!Take, Beside!Lock,
         BesideTold!Lock, Beside!Claim, BesideTold!Claim, Beside!Refuse,
         BesideTold!Refuse, Beside!SendText, BesideTold!SendText,
         Beside!HandOver, BesideTold!HandOver, Beside!SendReturns,
         BesideTold!SendReturns, Beside!OpenChat, BesideTold!OpenChat,
         Beside!ReceiptMoves, BesideTold!ReceiptMoves, Beside!Store,
         BesideTold!Store, Beside!Report, BesideTold!Report,
         Beside!NextResult, BesideTold!NextResult, Beside!Acknowledge,
         BesideTold!Acknowledge, Beside!ReportFails,
         BesideTold!ReportFails, Beside!Place, BesideTold!Place,
         Beside!Retry, BesideTold!Retry, Beside!Crash, BesideTold!Crash,
         Beside!Elements, BesideTold!Elements, Beside!RemoveAt,
         BesideTold!RemoveAt, Beside!Touch, BesideTold!Touch, Beside!Goes,
         BesideTold!Goes, Beside!Rests, BesideTold!Rests, Beside!Busy,
         BesideTold!Busy, Beside!Commands, BesideTold!Commands,
         Beside!Threads, BesideTold!Threads, Beside!table,
         BesideTold!table, Beside!threads, BesideTold!threads,
         Beside!receipts, BesideTold!receipts, Beside!outside,
         BesideTold!outside, Beside!Receipts!Open,
         BesideTold!Receipts!Open, Beside!Receipts!Recall,
         BesideTold!Receipts!Recall, Beside!Receipts!Deliver,
         BesideTold!Receipts!Deliver, Beside!Receipts!Reject,
         BesideTold!Receipts!Reject, Beside!Receipts!Confirm,
         BesideTold!Receipts!Confirm, Beside!Receipts!GiveUp,
         BesideTold!Receipts!GiveUp

LEMMA BesideBegins == PartsInit => BesideTold!Init
  BY DEF PartsInit, Beside!Init, BesideTold!Init, Beside!Commands, BesideTold!Commands,
         Beside!Threads, BesideTold!Threads, Beside!Receipts!Init, BesideTold!Receipts!Init

\* A command executed inline, by either receiver or beside the pool, has its
\* result stored before the center is told, and is acknowledged only after
\* (dispatch_command when the queue is full, handle_command).
THEOREM InlineIsTold == PartsSpec => []ResultsAreTold
  <1>1. [PartsNext]_all => [AloneTold!Next]_(AloneTold!vars)
    BY AloneSteps, StepOfPart DEF alone, AloneTold!vars
  <1>2. [PartsNext]_all => [BesideTold!Next]_(BesideTold!vars)
    BY BesideSteps, StepOfPart DEF beside, BesideTold!vars
  <1>3. /\ AloneTold!ReportedIsDurable /\ AloneTold!AcknowledgedIsKnown
        /\ BesideTold!ReportedIsDurable /\ BesideTold!AcknowledgedIsKnown
        => ResultsAreTold
    BY DEF ResultsAreTold, Alone!ReportedIsDurable, AloneTold!ReportedIsDurable,
           Alone!AcknowledgedIsKnown, AloneTold!AcknowledgedIsKnown,
           Beside!ReportedIsDurable, BesideTold!ReportedIsDurable,
           Beside!AcknowledgedIsKnown, BesideTold!AcknowledgedIsKnown,
           Alone!Commands, AloneTold!Commands, Beside!Commands, BesideTold!Commands
  <1> QED
    BY <1>1, <1>2, <1>3, AloneBegins, BesideBegins, AloneIsTold, BesideIsTold, PTL
      DEF PartsSpec, AloneTold!Spec, BesideTold!Spec

-----------------------------------------------------------------------------
(* BrainQueue and GatewayQueue: what both queues send, they send once.        *)

Delivering == INSTANCE GatewayQueueProofs WITH
    Events <- GatewayEvents, Enriching <- TRUE, PartialAnswers <- TRUE,
    RejectsDuplicates <- TRUE, MaxRev <- MaxRev + 1, NoRow <- None, row <- gRow,
    made <- gMade, pc <- gPc, batch <- gBatch, left <- gLeft, acked <- gAcked,
    context <- gContext, gateway <- gGateway, shown <- gShown,
    restarts <- gRestarts, prunes <- gPrunes

\* The theorems about GatewayQueue hold of this instance.
LEMMA GatewayDelivers ==
    Delivering!Spec => Delivering!DeliveredStays /\ []Delivering!DraftsStayLocal
  <1>1. /\ Delivering!FlagsAssumption /\ Delivering!BoundsAssumption
        /\ Delivering!DraftsAssumption /\ Delivering!NoRowAssumption
    BY BoundsAssumption, RowsAssumption DEF Rows, Delivering!Rows
  <1> QED
    BY <1>1, Delivering!DeliveredForGood, Delivering!DraftsLocal

LEMMA GatewaySteps == Gateway!Next => Delivering!Next
  BY DEF Gateway!Next, Delivering!Next, Gateway!Capture, Delivering!Capture,
         Gateway!RepairIdentity, Delivering!RepairIdentity,
         Gateway!RememberNative, Delivering!RememberNative,
         Gateway!Enrich, Delivering!Enrich, Gateway!EnrichFails,
         Delivering!EnrichFails, Gateway!Project, Delivering!Project,
         Gateway!Ids, Delivering!Ids, Gateway!Prune, Delivering!Prune,
         Gateway!Claim, Delivering!Claim, Gateway!Post, Delivering!Post,
         Gateway!Mark, Delivering!Mark, Gateway!Restart,
         Delivering!Restart, Gateway!Has, Delivering!Has,
         Gateway!StatusIs, Delivering!StatusIs, Gateway!Write,
         Delivering!Write, Gateway!worker, Delivering!worker,
         Gateway!counts, Delivering!counts, Gateway!PostAccepted,
         Delivering!PostAccepted, Gateway!PostFails, Delivering!PostFails,
         Gateway!PostDuplicate, Delivering!PostDuplicate,
         Gateway!MarkDelivered, Delivering!MarkDelivered,
         Gateway!MarkFailed, Delivering!MarkFailed, Gateway!Drop,
         Delivering!Drop, Gateway!Claimed, Delivering!Claimed,
         Gateway!Mine, Delivering!Mine

LEMMA GatewayBegins == PartsInit => Delivering!Init
  BY DEF PartsInit, Gateway!Init, Delivering!Init, Gateway!Ids, Delivering!Ids

\* Neither queue sends a content twice: a delivered row goes to the brain again
\* only for a newer content and to the gateway never, and a draft of the center
\* goes to no gateway (upsert_event, enrich_event, claim_pending).
THEOREM SentOnce == PartsSpec => SentAsMeant
  <1>1. [PartsNext]_all => [Next]_vars
    BY StepOfPart
  <1>2. [PartsNext]_all => [Delivering!Next]_(Delivering!vars)
    BY GatewaySteps, StepOfPart DEF gateway, Delivering!vars
  <1>3. PartsInit => Init
    BY DEF PartsInit
  <1>4. Delivering!DraftsStayLocal => (part = "gateway" => Gateway!DraftsStayLocal)
    BY DEF Delivering!DraftsStayLocal, Gateway!DraftsStayLocal,
           Delivering!StatusIs, Gateway!StatusIs, Delivering!Has, Gateway!Has
  <1>5. [\A e \in Delivering!Ids : Delivering!StatusIs(e, "delivered") =>
           gRow'[e] = None \/ gRow'[e].status = "delivered"]_gRow
        => [\A e \in Gateway!Ids : Gateway!StatusIs(e, "delivered") =>
              gRow'[e] = None \/ gRow'[e].status = "delivered"]_gRow
    BY DEF Delivering!StatusIs, Gateway!StatusIs, Delivering!Has, Gateway!Has,
           Delivering!Ids, Gateway!Ids
  <1>6. PartsSpec => RequeuedOnlyNewer
    BY <1>1, <1>3, RequeuedForNewer, PTL DEF PartsSpec, Spec
  <1>7. Delivering!DeliveredStays => Gateway!DeliveredStays
    BY <1>5, PTL DEF Delivering!DeliveredStays, Gateway!DeliveredStays
  <1> QED
    BY <1>2, <1>4, <1>6, <1>7, GatewayBegins, GatewayDelivers, PTL
      DEF PartsSpec, Delivering!Spec, SentAsMeant

-----------------------------------------------------------------------------
(* ReplyWait: since when the buyer of a conversation waits for an answer.     *)

\* No message is captured twice, and each one was said.
WaitsInv ==
    /\ tSaid \in Seq([class : Waiting!Classes, ts : Nat])
    /\ tEvents \in Seq(Nat)
    /\ \A i \in DOMAIN tEvents : tEvents[i] \in DOMAIN tSaid
    /\ \A i, j \in DOMAIN tEvents : tEvents[i] = tEvents[j] => i = j
    /\ tReceipt \in Nat

\* A set of numbers has a least one.
LEMMA Below == \E R : /\ IsWellFoundedOn(R, Nat)
                      /\ \A x, y \in Nat : <<y, x>> \in R <=> y < x
  <1> DEFINE R == OpToRel(<, Nat)
  <1>1. IsWellFoundedOn(R, Nat)
    BY NatLessThanWellFounded
  <1>2. \A x, y \in Nat : <<y, x>> \in R <=> y < x
    BY DEF OpToRel
  <1> HIDE DEF R
  <1> QED
    BY <1>1, <1>2

LEMMA Least ==
    ASSUME NEW S \in SUBSET Nat, S # {} PROVE \E x \in S : \A y \in S : x <= y
  <1>1. PICK R : /\ IsWellFoundedOn(R, Nat)
                 /\ \A x, y \in Nat : <<y, x>> \in R <=> y < x
    BY Below
  <1>2. PICK x \in S : \A y \in S : ~ (<<y, x>> \in R)
    BY <1>1, WFMin
  <1>3. ASSUME NEW y \in S PROVE x <= y
    <2>1. x \in Nat /\ y \in Nat
      OBVIOUS
    <2>2. ~ (y < x)
      BY <1>1, <1>2, <2>1, Zenon
    <2> QED
      BY <2>1, <2>2
  <1> QED
    BY <1>3

LEMMA MinIsLeast ==
    ASSUME NEW S \in SUBSET Nat, S # {}
    PROVE  Waiting!Min(S) \in S /\ \A y \in S : Waiting!Min(S) <= y
  BY Least DEF Waiting!Min

LEMMA ElementOf ==
    ASSUME NEW S, NEW s \in Seq(S), NEW i \in DOMAIN s PROVE s[i] \in S
  OBVIOUS

\* A captured message has one place in the local copy.
LEMMA CapturedAt ==
    ASSUME WaitsInv, NEW m \in Waiting!Captured
    PROVE  /\ m \in DOMAIN tSaid /\ Waiting!Stamp(m) \in Nat
           /\ Waiting!At(m) \in DOMAIN tEvents /\ tEvents[Waiting!At(m)] = m
           /\ \A i \in DOMAIN tEvents : tEvents[i] = m => i = Waiting!At(m)
  <1>1. PICK i \in DOMAIN tEvents : tEvents[i] = m
    BY DEF Waiting!Captured
  <1>2. Waiting!At(m) \in DOMAIN tEvents /\ tEvents[Waiting!At(m)] = m
    BY <1>1 DEF Waiting!At
  <1>3. m \in DOMAIN tSaid /\ Waiting!Stamp(m) \in Nat
    <2>1. m \in DOMAIN tSaid
      BY <1>1 DEF WaitsInv
    <2>2. tSaid[m] \in [class : Waiting!Classes, ts : Nat]
      BY <2>1, ElementOf DEF WaitsInv
    <2> QED
      BY <2>1, <2>2 DEF Waiting!Stamp
  <1> QED
    BY <1>2, <1>3 DEF WaitsInv

\* So it has after a step.
LEMMA CapturedLater ==
    ASSUME WaitsInv', NEW m \in Waiting!Captured' PROVE (Waiting!Stamp(m))' \in Nat
  <1>1. m \in DOMAIN tSaid'
    BY DEF WaitsInv, Waiting!Captured
  <1>2. tSaid' \in Seq([class : Waiting!Classes, ts : Nat])
    BY DEF WaitsInv
  <1>3. tSaid'[m] \in [class : Waiting!Classes, ts : Nat]
    BY <1>1, <1>2, ElementOf
  <1> QED
    BY <1>3 DEF Waiting!Stamp

\* What was captured keeps its place and what is said of it.
CapturedStays ==
    \A m \in Waiting!Captured :
        /\ m \in Waiting!Captured' /\ Waiting!At(m)' = Waiting!At(m)
        /\ Waiting!Stamp(m)' = Waiting!Stamp(m)
        /\ tSaid'[m].class = tSaid[m].class

\* What is captured now comes last.
NewComesLast ==
    \A m \in Waiting!Captured' \ Waiting!Captured :
        Waiting!At(m)' \in Nat /\ \A n \in Waiting!Captured : Waiting!At(n) < Waiting!At(m)'

\* No reply is taken back.
ReplyStays == tConfirmed \subseteq tConfirmed' /\ tReceipt <= tReceipt'

LEMMA SayStays ==
    ASSUME WaitsInv, NEW class \in Waiting!Classes, NEW later \in BOOLEAN,
           Waiting!Say(class, later)
    PROVE  WaitsInv' /\ CapturedStays /\ NewComesLast /\ ReplyStays
  <1> DEFINE now == IF tSaid = <<>> THEN 1 ELSE tSaid[Len(tSaid)].ts
             new == [class |-> class, ts |-> IF later THEN now + 1 ELSE now]
  <1>1. /\ tSaid' = Append(tSaid, new)
        /\ UNCHANGED <<tEvents, tConfirmed, tReceipt>>
    BY DEF Waiting!Say
  <1>2. new \in [class : Waiting!Classes, ts : Nat]
    <2>1. now \in Nat
      <3>1. CASE tSaid = <<>>
        BY <3>1
      <3>2. CASE tSaid # <<>>
        <4>1. Len(tSaid) \in DOMAIN tSaid
          BY <3>2 DEF WaitsInv
        <4>2. tSaid[Len(tSaid)] \in [class : Waiting!Classes, ts : Nat]
          BY <4>1, ElementOf DEF WaitsInv
        <4> QED
          BY <3>2, <4>2
      <3> QED
        BY <3>1, <3>2
    <2> QED
      BY <2>1
  <1> HIDE DEF now, new
  <1>3. /\ tSaid' \in Seq([class : Waiting!Classes, ts : Nat])
        /\ \A i \in DOMAIN tSaid : i \in DOMAIN tSaid' /\ tSaid'[i] = tSaid[i]
    BY <1>1, <1>2, Appended DEF WaitsInv
  <1>4. Waiting!Captured' = Waiting!Captured /\ \A m : Waiting!At(m)' = Waiting!At(m)
    BY <1>1 DEF Waiting!Captured, Waiting!At
  <1>5. CapturedStays
    <2> SUFFICES ASSUME NEW m \in Waiting!Captured
                 PROVE  /\ Waiting!Stamp(m)' = Waiting!Stamp(m)
                        /\ tSaid'[m].class = tSaid[m].class
      BY <1>4 DEF CapturedStays
    <2>1. tSaid'[m] = tSaid[m]
      BY <1>3, CapturedAt
    <2> QED
      BY <2>1 DEF Waiting!Stamp
  <1>6. NewComesLast
    BY <1>4 DEF NewComesLast
  <1>7. ReplyStays
    BY <1>1 DEF ReplyStays, WaitsInv
  <1> QED
    BY <1>1, <1>3, <1>5, <1>6, <1>7 DEF WaitsInv

LEMMA CopyStays ==
    ASSUME WaitsInv, UNCHANGED <<tSaid, tEvents>>
    PROVE  CapturedStays /\ NewComesLast
  BY DEF CapturedStays, NewComesLast, Waiting!Captured, Waiting!At, Waiting!Stamp

LEMMA CaptureStays ==
    ASSUME WaitsInv, NEW m \in DOMAIN tSaid, NEW known \in BOOLEAN,
           Waiting!Capture(m, known)
    PROVE  WaitsInv' /\ CapturedStays /\ NewComesLast /\ ReplyStays
  <1>1. /\ tEvents' = IF m \in Waiting!Captured THEN tEvents ELSE Append(tEvents, m)
        /\ tConfirmed \subseteq tConfirmed' /\ UNCHANGED <<tSaid, tReceipt>>
    BY DEF Waiting!Capture
  <1>2. ReplyStays
    BY <1>1 DEF ReplyStays, WaitsInv
  <1>3. CASE m \in Waiting!Captured
    <2>1. UNCHANGED <<tSaid, tEvents, tReceipt>>
      BY <1>1, <1>3
    <2>2. WaitsInv'
      BY <2>1 DEF WaitsInv
    <2> QED
      BY <1>2, <2>1, <2>2, CopyStays
  <1>4. CASE m \notin Waiting!Captured
    <2>1. tEvents' = Append(tEvents, m)
      BY <1>1, <1>4
    <2>2. m \in Nat
      BY DEF WaitsInv
    <2>3. /\ tEvents' \in Seq(Nat)
          /\ DOMAIN tEvents' = DOMAIN tEvents \cup {Len(tEvents) + 1}
          /\ \A i \in DOMAIN tEvents : tEvents'[i] = tEvents[i]
          /\ tEvents'[Len(tEvents) + 1] = m
          /\ Len(tEvents) \in Nat /\ DOMAIN tEvents = 1 .. Len(tEvents)
      BY <2>1, <2>2, Appended DEF WaitsInv
    <2>4. \A i \in DOMAIN tEvents : tEvents[i] # m
      BY <1>4 DEF Waiting!Captured
    <2>5. \A i, j \in DOMAIN tEvents' : tEvents'[i] = tEvents'[j] => i = j
      BY <2>3, <2>4 DEF WaitsInv
    <2>6. \A i \in DOMAIN tEvents' : tEvents'[i] \in DOMAIN tSaid'
      BY <1>1, <2>3 DEF WaitsInv
    <2>7. Waiting!Captured' = Waiting!Captured \cup {m}
      BY <2>3 DEF Waiting!Captured
    <2>8. \A n \in Waiting!Captured : Waiting!At(n)' = Waiting!At(n)
      <3> SUFFICES ASSUME NEW n \in Waiting!Captured PROVE Waiting!At(n)' = Waiting!At(n)
        OBVIOUS
      <3>1. Waiting!At(n) \in DOMAIN tEvents /\ tEvents[Waiting!At(n)] = n
        BY CapturedAt
      <3>2. Waiting!At(n) \in DOMAIN tEvents' /\ tEvents'[Waiting!At(n)] = n
        BY <2>3, <3>1
      <3>3. Waiting!At(n)' \in DOMAIN tEvents' /\ tEvents'[Waiting!At(n)'] = n
        BY <3>2 DEF Waiting!At
      <3> QED
        BY <2>5, <3>2, <3>3
    <2>9. Waiting!At(m)' = Len(tEvents) + 1
      <3>1. Len(tEvents) + 1 \in DOMAIN tEvents' /\ tEvents'[Len(tEvents) + 1] = m
        BY <2>3
      <3>2. Waiting!At(m)' \in DOMAIN tEvents' /\ tEvents'[Waiting!At(m)'] = m
        BY <3>1 DEF Waiting!At
      <3> QED
        BY <2>5, <3>1, <3>2
    <2>10. CapturedStays
      BY <1>1, <2>7, <2>8 DEF CapturedStays, Waiting!Stamp
    <2>11. NewComesLast
      <3> SUFFICES ASSUME NEW n \in Waiting!Captured
                   PROVE  Waiting!At(n) < Len(tEvents) + 1
        BY <2>3, <2>7, <2>9 DEF NewComesLast
      <3>1. Waiting!At(n) \in 1 .. Len(tEvents)
        BY <2>3, CapturedAt
      <3> QED
        BY <2>3, <3>1
    <2> QED
      BY <1>1, <1>2, <2>3, <2>5, <2>6, <2>10, <2>11 DEF WaitsInv
  <1> QED
    BY <1>3, <1>4

LEMMA ReceiptStays ==
    ASSUME WaitsInv, NEW m \in DOMAIN tSaid, NEW t \in 1 .. MaxSaid + 1,
           Waiting!Receipt(m, t)
    PROVE  WaitsInv' /\ CapturedStays /\ NewComesLast /\ ReplyStays
  <1>1. /\ t > tReceipt /\ tReceipt' = t /\ UNCHANGED <<tSaid, tEvents, tConfirmed>>
    BY DEF Waiting!Receipt
  <1>2. t \in Nat /\ tReceipt \in Nat
    BY ClientAssumption DEF WaitsInv
  <1>3. tReceipt <= tReceipt'
    BY <1>1, <1>2
  <1>4. WaitsInv'
    BY <1>1, <1>2 DEF WaitsInv
  <1> QED
    BY <1>1, <1>3, <1>4, CopyStays DEF ReplyStays

LEMMA WaitsKeep ==
    ASSUME WaitsInv, [Waiting!Next]_waiting
    PROVE  WaitsInv' /\ CapturedStays /\ NewComesLast /\ ReplyStays
  <1>1. CASE Waiting!Next
    BY <1>1, SayStays, CaptureStays, ReceiptStays DEF Waiting!Next
  <1>2. CASE UNCHANGED waiting
    <2>1. UNCHANGED <<tSaid, tEvents, tConfirmed, tReceipt>>
      BY <1>2 DEF waiting
    <2>2. WaitsInv' /\ ReplyStays
      BY <2>1 DEF WaitsInv, ReplyStays
    <2> QED
      BY <2>1, <2>2, CopyStays
  <1> QED
    BY <1>1, <1>2

LEMMA WaitsBegin == Waiting!Init => WaitsInv
  BY EmptySequence DEF Waiting!Init, WaitsInv

\* Places in the local copy are numbers, from one on.
LEMMA PlacesAreNumbers ==
    ASSUME WaitsInv, NEW S \in SUBSET Waiting!Captured
    PROVE  {Waiting!At(m) : m \in S} \in SUBSET Nat /\ 0 \notin {Waiting!At(m) : m \in S}
  <1>1. ASSUME NEW m \in S PROVE Waiting!At(m) \in Nat /\ Waiting!At(m) # 0
    BY CapturedAt DEF WaitsInv
  <1> QED
    BY <1>1

LEMMA LaterWaits ==
    ASSUME WaitsInv PROVE Waiting!LaterIsUnanswered
  <1> SUFFICES ASSUME NEW m \in Waiting!Captured, Waiting!Is(m, "buyer"),
                      \A r \in Waiting!Replies : Waiting!Stamp(r) < Waiting!Stamp(m),
                      tReceipt < Waiting!Stamp(m)
               PROVE  Waiting!StartedAt # 0
    BY DEF Waiting!LaterIsUnanswered
  <1>1. ASSUME NEW r \in Waiting!Replies PROVE Waiting!Later(m, r)
    <2>1. Waiting!Stamp(r) \in Nat /\ Waiting!Stamp(m) \in Nat
      BY CapturedAt DEF Waiting!Replies
    <2> QED
      BY <2>1 DEF Waiting!Later
  <1>2. Waiting!Stamp(m) > tReceipt
    <2>1. Waiting!Stamp(m) \in Nat /\ tReceipt \in Nat
      BY CapturedAt DEF WaitsInv
    <2> QED
      BY <2>1
  <1>3. m \in Waiting!Unanswered /\ Waiting!Unanswered \subseteq Waiting!Captured
    BY <1>1, <1>2 DEF Waiting!Unanswered
  <1> DEFINE places == {Waiting!At(n) : n \in Waiting!Unanswered}
  <1>4. places \in SUBSET Nat /\ 0 \notin places /\ places # {}
    BY <1>3, PlacesAreNumbers
  <1>5. Waiting!StartedAt = Waiting!Min(places)
    BY <1>3 DEF Waiting!StartedAt, Waiting!SinceFirst
  <1> HIDE DEF places
  <1> QED
    BY <1>4, <1>5, MinIsLeast

\* A receipt with a reply of its time or after it leaves the word to the replies,
\* of which one is then later than what the receipt answers.
LEMMA AnsweredKnown ==
    ASSUME WaitsInv PROVE Waiting!AnsweredIsKnown
  <1> SUFFICES ASSUME NEW m \in Waiting!Captured, m \in Waiting!Unanswered,
                      \/ \E r \in Waiting!Replies : Waiting!Stamp(r) > Waiting!Stamp(m)
                      \/ tReceipt > Waiting!Stamp(m)
               PROVE  FALSE
    BY DEF Waiting!AnsweredIsKnown
  <1>1. Waiting!Stamp(m) \in Nat /\ tReceipt \in Nat
    BY CapturedAt DEF WaitsInv
  <1>2. \A r \in Waiting!Replies : Waiting!Stamp(r) \in Nat /\ Waiting!Later(m, r)
    BY CapturedAt DEF Waiting!Replies, Waiting!Unanswered
  <1>3. \A r \in Waiting!Replies : Waiting!Stamp(m) >= Waiting!Stamp(r)
    BY <1>1, <1>2 DEF Waiting!Later
  <1>4. tReceipt > Waiting!Stamp(m)
    BY <1>1, <1>2, <1>3
  <1>5. \A r \in Waiting!Replies : Waiting!Stamp(r) < tReceipt
    BY <1>1, <1>2, <1>3, <1>4
  <1>6. Waiting!Stamp(m) > tReceipt
    BY <1>5 DEF Waiting!Unanswered, Waiting!ReceiptIsLast
  <1> QED
    BY <1>1, <1>4, <1>6

\* A message that is waited for again has the second of the receipt.
LEMMA AnsweredStep ==
    ASSUME WaitsInv, [Waiting!Next]_waiting, NEW m \in Waiting!Captured,
           m \notin Waiting!Unanswered, m \in Waiting!Unanswered'
    PROVE  Waiting!Stamp(m) = tReceipt
  <1>1. WaitsInv' /\ CapturedStays /\ ReplyStays
    BY WaitsKeep
  <1>2. /\ Waiting!Stamp(m) \in Nat /\ Waiting!Stamp(m)' = Waiting!Stamp(m)
        /\ Waiting!At(m)' = Waiting!At(m)
        /\ tReceipt \in Nat /\ tReceipt' \in Nat /\ tReceipt <= tReceipt'
    BY <1>1, CapturedAt DEF CapturedStays, ReplyStays, WaitsInv
  <1>3. ASSUME NEW r \in Waiting!Replies
        PROVE  /\ r \in Waiting!Replies' /\ Waiting!Stamp(r)' = Waiting!Stamp(r)
               /\ Waiting!At(r)' = Waiting!At(r)
    BY <1>1, <1>3 DEF CapturedStays, ReplyStays, Waiting!Replies, Waiting!Is
  <1>4. Waiting!Is(m, "buyer") /\ \A r \in Waiting!Replies' : Waiting!Later(m, r)'
    BY <1>1 DEF CapturedStays, Waiting!Unanswered, Waiting!Is
  <1>5. \A r \in Waiting!Replies : Waiting!Later(m, r)
    BY <1>2, <1>3, <1>4 DEF Waiting!Later
  <1>6. ~ (Waiting!Stamp(m) > tReceipt)
    BY <1>4, <1>5 DEF Waiting!Unanswered
  <1>7. CASE Waiting!ReceiptIsLast'
    <2>1. (Waiting!Stamp(m))' > tReceipt'
      BY <1>7 DEF Waiting!Unanswered
    <2> QED
      BY <1>2, <1>6, <2>1
  <1>8. CASE ~Waiting!ReceiptIsLast'
    <2>1. PICK r \in Waiting!Replies' : ~ (Waiting!Stamp(r)' < tReceipt')
      BY <1>8 DEF Waiting!ReceiptIsLast
    <2>2. Waiting!Stamp(r)' \in Nat
      <3>1. r \in Waiting!Captured'
        BY <2>1 DEF Waiting!Replies
      <3> QED
        BY <1>1, <3>1, CapturedLater
    <2>3. Waiting!Stamp(m)' > Waiting!Stamp(r)' \/ Waiting!Stamp(m)' = Waiting!Stamp(r)'
      BY <1>4, <2>1 DEF Waiting!Later
    <2> QED
      BY <1>2, <1>6, <2>1, <2>2, <2>3
  <1> QED
    BY <1>7, <1>8

LEMMA DeadlineStep ==
    ASSUME WaitsInv, [Waiting!Next]_waiting, Waiting!StartedAt # 0,
           Waiting!Replies' = Waiting!Replies, tReceipt' = tReceipt
    PROVE  Waiting!StartedAt' = Waiting!StartedAt
  <1> DEFINE places == {Waiting!At(n) : n \in Waiting!Unanswered}
  <1>1. WaitsInv' /\ CapturedStays /\ NewComesLast
    BY WaitsKeep
  <1>2. Waiting!Unanswered \subseteq Waiting!Captured /\ Waiting!Unanswered # {}
    BY DEF Waiting!Unanswered, Waiting!StartedAt, Waiting!SinceFirst
  <1>3. Waiting!Replies \subseteq Waiting!Captured
    BY DEF Waiting!Replies
  <1>r. Waiting!ReceiptIsLast' <=> Waiting!ReceiptIsLast
    BY <1>1, <1>3 DEF CapturedStays, Waiting!ReceiptIsLast
  <1>4. ASSUME NEW m \in Waiting!Captured
        PROVE  m \in Waiting!Unanswered' <=> m \in Waiting!Unanswered
    BY <1>1, <1>3, <1>4, <1>r DEF CapturedStays, Waiting!Unanswered, Waiting!Later,
       Waiting!Is
  <1>5. /\ places \in SUBSET Nat /\ places # {}
        /\ Waiting!StartedAt = Waiting!Min(places)
    BY <1>2, PlacesAreNumbers DEF Waiting!StartedAt, Waiting!SinceFirst
  <1>6. PICK first \in Waiting!Unanswered : Waiting!At(first) = Waiting!Min(places)
    BY <1>5, MinIsLeast
  <1>7. \A n \in Waiting!Unanswered : Waiting!Min(places) <= Waiting!At(n)
    BY <1>5, MinIsLeast
  <1>8. first \in Waiting!Unanswered' /\ Waiting!At(first)' = Waiting!Min(places)
    BY <1>1, <1>2, <1>4, <1>6 DEF CapturedStays
  <1>9. Waiting!Min(places) \in Nat
    BY <1>5, MinIsLeast
  <1>10. ASSUME NEW n \in Waiting!Unanswered' PROVE Waiting!Min(places) <= Waiting!At(n)'
    <2>1. CASE n \in Waiting!Captured
      BY <1>1, <1>4, <1>7, <1>10, <2>1 DEF CapturedStays
    <2>2. CASE n \notin Waiting!Captured
      <3>1. n \in Waiting!Captured'
        BY <1>10 DEF Waiting!Unanswered
      <3>2. Waiting!At(n)' \in Nat /\ Waiting!At(first) < Waiting!At(n)'
        BY <1>1, <1>2, <1>6, <2>2, <3>1 DEF NewComesLast
      <3> QED
        BY <1>6, <1>9, <3>2
    <2> QED
      BY <2>1, <2>2
  <1> DEFINE later == {Waiting!At(n)' : n \in Waiting!Unanswered'}
  <1>11. Waiting!StartedAt' = Waiting!Min(later)
    BY <1>8 DEF Waiting!StartedAt, Waiting!SinceFirst
  <1>12. later \in SUBSET Nat
    <2>1. ASSUME NEW n \in Waiting!Unanswered' PROVE Waiting!At(n)' \in Nat
      <3>1. CASE n \in Waiting!Captured
        <4>1. Waiting!At(n) \in Nat
          BY <3>1, CapturedAt DEF WaitsInv
        <4> QED
          BY <1>1, <3>1, <4>1 DEF CapturedStays
      <3>2. CASE n \notin Waiting!Captured
        BY <1>1, <2>1, <3>2 DEF NewComesLast, Waiting!Unanswered
      <3> QED
        BY <3>1, <3>2
    <2> QED
      BY <2>1
  <1>13. Waiting!Min(places) \in later /\ \A y \in later : Waiting!Min(places) <= y
    BY <1>8, <1>10
  <1> HIDE DEF places, later
  <1>14. Waiting!Min(later) \in later /\ \A y \in later : Waiting!Min(later) <= y
    BY <1>12, <1>13, MinIsLeast
  <1>15. Waiting!Min(later) <= Waiting!Min(places) /\ Waiting!Min(places) <= Waiting!Min(later)
    BY <1>13, <1>14
  <1>16. Waiting!Min(later) \in Nat
    BY <1>12, <1>14
  <1> QED
    BY <1>5, <1>9, <1>11, <1>15, <1>16

\* In whatever order the messages, the replies and the receipts of a conversation
\* come in, the deadline of an answer runs from the first message that has none,
\* an answer that is known is not overlooked, and what has been answered is not
\* waited for again but in the second of a receipt (waiting_state).
THEOREM WaitsTold == PartsSpec => WaitsAreTold
  <1>1. PartsInit => WaitsInv
    BY WaitsBegin DEF PartsInit
  <1>2. WaitsInv /\ [PartsNext]_all => WaitsInv'
    <2> SUFFICES ASSUME WaitsInv, [PartsNext]_all PROVE WaitsInv'
      OBVIOUS
    <2>1. [Waiting!Next]_waiting
      BY StepOfPart
    <2> QED
      BY <2>1, WaitsKeep
  <1>3. WaitsInv => (part = "waiting" => /\ Waiting!LaterIsUnanswered
                                         /\ Waiting!AnsweredIsKnown)
    BY LaterWaits, AnsweredKnown
  <1>4. WaitsInv /\ [PartsNext]_all =>
          [Waiting!StartedAt # 0 /\ Waiting!Replies' = Waiting!Replies /\ tReceipt' = tReceipt
             => Waiting!StartedAt' = Waiting!StartedAt]_(Waiting!vars)
    BY StepOfPart, DeadlineStep
  <1>5. WaitsInv /\ [PartsNext]_all =>
          [\A m \in Waiting!Captured :
              m \notin Waiting!Unanswered /\ m \in Waiting!Unanswered'
                => Waiting!Stamp(m) = tReceipt]_(Waiting!vars)
    BY StepOfPart, AnsweredStep
  <1> QED
    BY <1>1, <1>2, <1>3, <1>4, <1>5, PTL
      DEF PartsSpec, WaitsAreTold, Waiting!DeadlineStands, Waiting!AnsweredStays

-----------------------------------------------------------------------------
(* PageOutbox: what a page holds for the database.                            *)

\* g goes through the first n elements of q and keeps what is not in D.
Keeps(g, n, q, D, S) ==
    /\ g \in [0 .. n -> Seq(S)]
    /\ g[0] = <<>>
    /\ \A i \in 1 .. n : g[i] = IF q[i].id \in D THEN g[i - 1]
                                ELSE Append(g[i - 1], q[i])
    /\ \A i \in 0 .. n : Page!IdsOf(g[i]) = {q[j].id : j \in 1 .. i} \ D

LEMMA KeepsOne ==
    ASSUME NEW S, NEW q \in Seq(S), NEW D, NEW n \in Nat, n + 1 \in 1 .. Len(q),
           NEW g, Keeps(g, n, q, D, S)
    PROVE  \E h : Keeps(h, n + 1, q, D, S)
  <1> DEFINE last == IF q[n + 1].id \in D THEN g[n] ELSE Append(g[n], q[n + 1])
             h == [i \in 0 .. n + 1 |-> IF i = n + 1 THEN last ELSE g[i]]
  <1>1. q[n + 1] \in S /\ n \in 0 .. n /\ g[n] \in Seq(S)
    BY DEF Keeps
  <1>2. last \in Seq(S)
    BY <1>1, Appended
  <1>3. Page!IdsOf(last) = {q[j].id : j \in 1 .. n + 1} \ D
    <2>1. Page!IdsOf(g[n]) = {q[j].id : j \in 1 .. n} \ D
      BY <1>1 DEF Keeps
    <2>2. {q[j].id : j \in 1 .. n + 1} = {q[j].id : j \in 1 .. n} \cup {q[n + 1].id}
      <3>1. 1 .. n + 1 = (1 .. n) \cup {n + 1}
        OBVIOUS
      <3> QED
        BY <3>1
    <2>3. CASE q[n + 1].id \in D
      BY <2>1, <2>2, <2>3
    <2>4. CASE q[n + 1].id \notin D
      <3> DEFINE k == Len(g[n])
      <3>1. /\ k \in Nat /\ DOMAIN last = 1 .. k + 1 /\ DOMAIN g[n] = 1 .. k
            /\ last[k + 1] = q[n + 1] /\ \A i \in 1 .. k : last[i] = g[n][i]
        BY <1>1, <2>4, Appended
      <3> HIDE DEF k, last
      <3>2. 1 .. k + 1 = (1 .. k) \cup {k + 1}
        BY <3>1
      <3>3. Page!IdsOf(last) = {last[i].id : i \in (1 .. k) \cup {k + 1}}
        BY <3>1, <3>2 DEF Page!IdsOf
      <3>4. Page!IdsOf(last) = {last[i].id : i \in 1 .. k} \cup {q[n + 1].id}
        BY <3>1, <3>3
      <3>5. {last[i].id : i \in 1 .. k} = Page!IdsOf(g[n])
        BY <3>1 DEF Page!IdsOf
      <3> QED
        BY <2>1, <2>2, <2>4, <3>4, <3>5
    <2> QED
      BY <2>3, <2>4
  <1> HIDE DEF last
  <1>4. /\ h \in [0 .. n + 1 -> Seq(S)] /\ h[n + 1] = last
        /\ \A i \in 0 .. n : h[i] = g[i]
    BY <1>2 DEF Keeps
  <1> HIDE DEF h
  <1>5. h[0] = <<>>
    BY <1>4 DEF Keeps
  <1>6. ASSUME NEW i \in 1 .. n + 1
        PROVE  h[i] = IF q[i].id \in D THEN h[i - 1] ELSE Append(h[i - 1], q[i])
    <2>1. CASE i = n + 1
      <3>1. h[i - 1] = g[n]
        BY <2>1, <1>4, <1>1
      <3> QED
        BY <3>1, <2>1, <1>4 DEF last
    <2>2. CASE i \in 1 .. n
      <3>1. h[i] = g[i] /\ h[i - 1] = g[i - 1]
        BY <2>2, <1>4
      <3> QED
        BY <3>1, <2>2 DEF Keeps
    <2> QED
      BY <2>1, <2>2
  <1>7. ASSUME NEW i \in 0 .. n + 1
        PROVE  Page!IdsOf(h[i]) = {q[j].id : j \in 1 .. i} \ D
    <2>1. CASE i = n + 1
      BY <2>1, <1>3, <1>4
    <2>2. CASE i \in 0 .. n
      BY <2>2, <1>4 DEF Keeps
    <2> QED
      BY <2>1, <2>2
  <1>8. Keeps(h, n + 1, q, D, S)
    BY <1>4, <1>5, <1>6, <1>7 DEF Keeps
  <1> QED
    BY <1>8

LEMMA KeepsAll ==
    ASSUME NEW S, NEW q \in Seq(S), NEW D
    PROVE  \E g : Keeps(g, Len(q), q, D, S)
  <1> DEFINE Bad == {n \in 0 .. Len(q) : ~ \E g : Keeps(g, n, q, D, S)}
  <1> SUFFICES ASSUME Bad # {} PROVE FALSE
    <2>1. Len(q) \in 0 .. Len(q)
      OBVIOUS
    <2>2. Bad = {} => \E g : Keeps(g, Len(q), q, D, S)
      BY <2>1
    <2> QED
      BY <2>2
  <1>1. Bad \in SUBSET Nat
    OBVIOUS
  <1>2. PICK n \in Bad : \A m \in Bad : n <= m
    <2> HIDE DEF Bad
    <2> QED
      BY <1>1, Least
  <1>3. CASE n = 0
    <2>1. Keeps([i \in 0 .. 0 |-> <<>>], 0, q, D, S)
      BY DEF Keeps, Page!IdsOf
    <2> QED
      BY <1>2, <1>3, <2>1
  <1>4. CASE n # 0
    <2>1. n - 1 \in 0 .. Len(q) /\ ~ (n <= n - 1) /\ n = (n - 1) + 1
      BY <1>4
    <2>2. n - 1 \notin Bad
      BY <1>2, <2>1
    <2>3. PICK g : Keeps(g, n - 1, q, D, S)
      BY <2>1, <2>2
    <2>4. \E h : Keeps(h, n, q, D, S)
      <3>1. n - 1 \in Nat /\ (n - 1) + 1 \in 1 .. Len(q)
        BY <1>4
      <3>2. \E h : Keeps(h, (n - 1) + 1, q, D, S)
        BY <2>3, <3>1, KeepsOne
      <3> QED
        BY <2>1, <3>2
    <2> QED
      BY <2>4
  <1> QED
    BY <1>3, <1>4

LEMMA WithoutIs ==
    ASSUME NEW S, NEW q \in Seq(S), NEW D
    PROVE  Page!Without(q, D) \in Seq(S) /\ Page!IdsOf(Page!Without(q, D)) = Page!IdsOf(q) \ D
  <1> DEFINE Body(k) == [n \in 0 .. Len(q) |->
                           IF n = 0 THEN <<>>
                           ELSE IF q[n].id \in D THEN k[n - 1]
                           ELSE Append(k[n - 1], q[n])]
             kept == CHOOSE k : k = Body(k)
  <1>1. PICK g : Keeps(g, Len(q), q, D, S)
    BY KeepsAll
  <1>2. g = Body(g)
    <2>1. g \in [0 .. Len(q) -> Seq(S)]
      BY <1>1 DEF Keeps
    <2>2. ASSUME NEW n \in 0 .. Len(q) PROVE g[n] = Body(g)[n]
      <3>1. CASE n = 0
        BY <3>1, <1>1 DEF Keeps
      <3>2. CASE n # 0
        <4>1. n \in 1 .. Len(q)
          BY <3>2
        <4> QED
          BY <3>2, <4>1, <1>1 DEF Keeps
      <3> QED
        BY <3>1, <3>2
    <2> QED
      BY <2>1, <2>2
  <1>3. kept = Body(kept)
    BY <1>2
  <1>4. Page!Without(q, D) = kept[Len(q)]
    BY DEF Page!Without
  <1> HIDE DEF kept
  <1> DEFINE Bad == {n \in 0 .. Len(q) : kept[n] # g[n]}
  <1>5. ASSUME Bad # {} PROVE FALSE
    <2>1. Bad \in SUBSET Nat
      OBVIOUS
    <2>2. PICK n \in Bad : \A m \in Bad : n <= m
      <3> HIDE DEF Bad
      <3> QED
        BY <1>5, <2>1, Least
    <2>3. kept[n] = Body(kept)[n] /\ g[n] = Body(g)[n]
      BY <1>2, <1>3
    <2>4. CASE n = 0
      BY <2>2, <2>3, <2>4
    <2>5. CASE n # 0
      <3>1. n - 1 \in 0 .. Len(q) /\ ~ (n <= n - 1) /\ n \in 0 .. Len(q)
        BY <2>5
      <3>2. n - 1 \notin Bad
        BY <2>2, <3>1
      <3>3. kept[n - 1] = g[n - 1]
        BY <3>1, <3>2
      <3>4. kept[n] = g[n]
        BY <2>3, <2>5, <3>1, <3>3
      <3> QED
        BY <3>4
    <2> QED
      BY <2>4, <2>5
  <1>6. Len(q) \in 0 .. Len(q) /\ DOMAIN q = 1 .. Len(q)
    OBVIOUS
  <1>7. Page!Without(q, D) = g[Len(q)]
    BY <1>4, <1>5, <1>6
  <1>8. g[Len(q)] \in Seq(S)
    BY <1>1, <1>6 DEF Keeps
  <1>9. Page!IdsOf(g[Len(q)]) = Page!IdsOf(q) \ D
    <2>1. Page!IdsOf(g[Len(q)]) = {q[j].id : j \in 1 .. Len(q)} \ D
      BY <1>1, <1>6 DEF Keeps
    <2> QED
      BY <2>1, <1>6 DEF Page!IdsOf
  <1> QED
    BY <1>7, <1>8, <1>9

LEMMA HeadOf ==
    ASSUME NEW S, NEW q \in Seq(S), NEW k \in Int, k <= Len(q)
    PROVE  /\ Page!IdsOf(SubSeq(q, 1, k)) \subseteq Page!IdsOf(q)
           /\ \A e \in {SubSeq(q, 1, k)[i] : i \in DOMAIN SubSeq(q, 1, k)} : e \in S
  <1>1. \A i \in DOMAIN SubSeq(q, 1, k) :
           i \in DOMAIN q /\ SubSeq(q, 1, k)[i] = q[i] /\ q[i] \in S
    OBVIOUS
  <1> QED
    BY <1>1 DEF Page!IdsOf

\* Over its bound, an outbox loses envelopes of ordinary accounts only.
LEMMA OverflowKeeps ==
    ASSUME NEW S, NEW q \in Seq(S)
    PROVE  /\ Page!Overflow(q) \in Seq(S)
           /\ Page!IdsOf(Page!Overflow(q)) \subseteq Page!IdsOf(q)
           /\ Page!IdsOf(q) \cap Guarded \subseteq Page!IdsOf(Page!Overflow(q))
  <1> DEFINE others == Page!Without(q, Guarded)
             k == Len(others) - MaxOutbox
             dropped == IF Len(others) > MaxOutbox
                        THEN Page!IdsOf(SubSeq(others, 1, k)) ELSE {}
  <1>1. others \in Seq(S) /\ Page!IdsOf(others) = Page!IdsOf(q) \ Guarded
    BY WithoutIs
  <1>2. Page!Overflow(q) = Page!Without(q, dropped)
    BY DEF Page!Overflow
  <1> HIDE DEF others
  <1>3. dropped \subseteq Page!IdsOf(others)
    <2>1. Len(others) \in Nat /\ k \in Int /\ k <= Len(others)
      BY <1>1, OutboxAssumption
    <2> HIDE DEF k
    <2>2. Page!IdsOf(SubSeq(others, 1, k)) \subseteq Page!IdsOf(others)
      BY <1>1, <2>1, HeadOf
    <2> QED
      BY <2>2
  <1> HIDE DEF dropped
  <1>4. /\ Page!Without(q, dropped) \in Seq(S)
        /\ Page!IdsOf(Page!Without(q, dropped)) = Page!IdsOf(q) \ dropped
    BY WithoutIs
  <1> QED
    BY <1>1, <1>2, <1>3, <1>4

\* What is acknowledged to a page is in the database.
PageInv ==
    /\ Page!TypeOK
    /\ \A p \in Tabs : pAcks[p] \subseteq pStored

\* A message of a guarded account leaves an outbox when the database has it, or
\* with a page that is loaded anew.
GuardedStep ==
    \A p \in Tabs, m \in Guarded :
        m \in Page!IdsOf(pOutbox[p]) /\ m \notin Page!IdsOf(pOutbox'[p]) =>
            m \in pStored \/ pReloads' # pReloads

PageTypes ==
    /\ pOutbox \in [Tabs -> Seq(Page!Envelopes)] /\ pDisk \in Seq(Page!Envelopes)
    /\ pTimer \in SUBSET Tabs /\ pSeen \in [Tabs -> SUBSET Page!Messages]
    /\ pOpen \in SUBSET Tabs /\ pWire \in [Tabs -> SUBSET Page!Messages]
    /\ pAcks \in [Tabs -> SUBSET Page!Messages] /\ pStored \in SUBSET Page!Messages
    /\ pDrops \in Nat /\ pReloads \in Nat

LEMMA PageCaptureKeeps ==
    ASSUME PageInv, NEW p \in Tabs, NEW m \in Page!Messages, NEW unnamed \in BOOLEAN,
           Page!Capture(p, m, unnamed)
    PROVE  PageInv' /\ GuardedStep
  <1> DEFINE e == [id |-> m, unnamed |-> unnamed]
             q == Append(pOutbox[p], e)
  <1>1. PageTypes /\ pOutbox[p] \in Seq(Page!Envelopes) /\ e \in Page!Envelopes
    BY DEF PageInv, Page!TypeOK, PageTypes, Page!Envelopes
  <1>2. /\ pSeen' \in [Tabs -> SUBSET Page!Messages] /\ pTimer' \in SUBSET Tabs
        /\ UNCHANGED <<pDisk, pOpen, pWire, pAcks, pStored, pDrops, pReloads>>
    BY <1>1 DEF PageTypes, Page!Capture, Page!link
  <1>3. q \in Seq(Page!Envelopes) /\ Page!IdsOf(pOutbox[p]) \subseteq Page!IdsOf(q)
    <2> HIDE DEF e
    <2> QED
      BY <1>1, Appended DEF Page!IdsOf
  <1> HIDE DEF q
  <1>4. /\ Page!Overflow(q) \in Seq(Page!Envelopes)
        /\ Page!IdsOf(q) \cap Guarded \subseteq Page!IdsOf(Page!Overflow(q))
    BY <1>3, OverflowKeeps
  <1>5. \/ pOutbox' = pOutbox
        \/ pOutbox' = [pOutbox EXCEPT ![p] = Page!Overflow(q)]
    BY DEF Page!Capture, q
  <1>6. pOutbox' \in [Tabs -> Seq(Page!Envelopes)]
    BY <1>1, <1>4, <1>5 DEF PageTypes
  <1>7. GuardedStep
    BY <1>1, <1>3, <1>4, <1>5 DEF PageTypes, GuardedStep
  <1>8. PageTypes'
    BY <1>1, <1>2, <1>6 DEF PageTypes
  <1> QED
    BY <1>2, <1>7, <1>8 DEF PageInv, PageTypes, Page!TypeOK

LEMMA NamedKeeps ==
    ASSUME PageInv, NEW p \in Tabs, NEW m \in Page!Messages, Page!Named(p, m)
    PROVE  PageInv' /\ GuardedStep
  <1> DEFINE q == pOutbox[p]
             r == [i \in DOMAIN q |-> IF q[i].id = m
                                      THEN [q[i] EXCEPT !.unnamed = FALSE] ELSE q[i]]
  <1>1. PageTypes /\ q \in Seq(Page!Envelopes) /\ Len(q) \in Nat /\ DOMAIN q = 1 .. Len(q)
    BY DEF PageInv, Page!TypeOK, PageTypes
  <1>2. /\ pOutbox' = [pOutbox EXCEPT ![p] = r] /\ pTimer' \in SUBSET Tabs
        /\ UNCHANGED <<pDisk, pSeen, pOpen, pWire, pAcks, pStored, pDrops, pReloads>>
    BY <1>1 DEF PageTypes, Page!Named, Page!link
  <1>3. ASSUME NEW i \in DOMAIN q
        PROVE  r[i] \in Page!Envelopes /\ r[i].id = q[i].id
    <2> HIDE DEF q
    <2>1. q[i] \in Page!Envelopes
      BY <1>1, ElementOf
    <2>2. r[i] = IF q[i].id = m THEN [q[i] EXCEPT !.unnamed = FALSE] ELSE q[i]
      OBVIOUS
    <2> QED
      BY <2>1, <2>2 DEF Page!Envelopes
  <1>4. DOMAIN r = 1 .. Len(q) /\ r = [i \in 1 .. Len(q) |-> r[i]]
    BY <1>1
  <1> HIDE DEF r, q
  <1>5. r \in Seq(Page!Envelopes) /\ DOMAIN r = DOMAIN q
    <2>1. \A i \in 1 .. Len(q) : r[i] \in Page!Envelopes
      BY <1>1, <1>3
    <2> QED
      BY <1>1, <1>4, <2>1
  <1> USE DEF q
  <1>6. Page!IdsOf(r) = Page!IdsOf(q)
    BY <1>3, <1>5 DEF Page!IdsOf
  <1>7. pOutbox' \in [Tabs -> Seq(Page!Envelopes)]
    BY <1>1, <1>2, <1>5 DEF PageTypes
  <1>8. GuardedStep
    BY <1>1, <1>2, <1>6 DEF PageTypes, GuardedStep
  <1>9. PageTypes'
    BY <1>1, <1>2, <1>7 DEF PageTypes
  <1> QED
    BY <1>2, <1>8, <1>9 DEF PageInv, PageTypes, Page!TypeOK

LEMMA AcknowledgeKeeps ==
    ASSUME PageInv, NEW p \in Tabs, NEW m \in Page!Messages, Page!AcknowledgeEvent(p, m)
    PROVE  PageInv' /\ GuardedStep
  <1> DEFINE q == pOutbox[p]
             r == Page!Without(q, {m})
  <1>1. PageTypes /\ q \in Seq(Page!Envelopes)
    BY DEF PageInv, Page!TypeOK, PageTypes
  <1>2. r \in Seq(Page!Envelopes) /\ Page!IdsOf(r) = Page!IdsOf(q) \ {m}
    BY <1>1, WithoutIs
  <1> HIDE DEF r
  <1>3. /\ m \in pAcks[p] /\ pAcks' = [pAcks EXCEPT ![p] = @ \ {m}]
        /\ pTimer' \in SUBSET Tabs
        /\ pOutbox' = pOutbox \/ pOutbox' = [pOutbox EXCEPT ![p] = r]
        /\ UNCHANGED <<pDisk, pSeen, pOpen, pWire, pStored, pDrops, pReloads>>
    BY <1>1 DEF PageTypes, Page!AcknowledgeEvent, r
  <1>4. m \in pStored
    BY <1>3 DEF PageInv
  <1>5. /\ pAcks' \in [Tabs -> SUBSET Page!Messages]
        /\ \A x \in Tabs : pAcks'[x] \subseteq pAcks[x]
    BY <1>1, <1>3 DEF PageTypes
  <1>6. pOutbox' \in [Tabs -> Seq(Page!Envelopes)]
    BY <1>1, <1>2, <1>3 DEF PageTypes
  <1>7. GuardedStep
    BY <1>1, <1>2, <1>3, <1>4 DEF PageTypes, GuardedStep
  <1>8. PageTypes'
    BY <1>1, <1>3, <1>5, <1>6 DEF PageTypes
  <1> QED
    BY <1>3, <1>5, <1>7, <1>8 DEF PageInv, PageTypes, Page!TypeOK

\* The page's own timer, its connection, and loading it anew.
LEMMA PageLinkKeeps ==
    ASSUME PageInv, NEW p \in Tabs,
           \/ Page!Persist(p) \/ Page!Flush(p) \/ Page!Connect(p) \/ Page!Reload(p)
           \/ Page!Disconnect(p)
    PROVE  PageInv' /\ GuardedStep
  <1>1. PageTypes /\ \A x \in Tabs : pAcks[x] \subseteq pStored
    BY DEF PageInv, Page!TypeOK, PageTypes
  <1>2. CASE Page!Persist(p)
    <2>1. /\ pDisk' \in Seq(Page!Envelopes) /\ pTimer' \in SUBSET Tabs
          /\ UNCHANGED <<pOutbox, pSeen, pOpen, pWire, pAcks, pStored, pDrops, pReloads>>
      BY <1>1, <1>2 DEF Page!Persist, PageTypes, Page!link
    <2> QED
      BY <1>1, <2>1 DEF PageInv, PageTypes, Page!TypeOK, GuardedStep
  <1>3. CASE Page!Flush(p)
    <2> DEFINE k == IF Len(pOutbox[p]) < FlushLimit THEN Len(pOutbox[p]) ELSE FlushLimit
               head == SubSeq(pOutbox[p], 1, k)
               ready == {e.id : e \in {x \in Page!Range(head) : ~x.unnamed}}
    <2>1. pOutbox[p] \in Seq(Page!Envelopes)
      BY <1>1 DEF PageTypes
    <2>2. k \in Int /\ k <= Len(pOutbox[p])
      BY <2>1, OutboxAssumption
    <2>3. /\ pWire' = [pWire EXCEPT ![p] = @ \cup ready]
          /\ UNCHANGED <<pOutbox, pDisk, pTimer, pSeen, pOpen, pAcks, pStored, pDrops,
                         pReloads>>
      BY <1>3 DEF Page!Flush
    <2> HIDE DEF k
    <2>4. \A e \in Page!Range(head) : e \in Page!Envelopes
      BY <2>1, <2>2, HeadOf DEF Page!Range
    <2> HIDE DEF head
    <2>5. ready \subseteq Page!Messages
      BY <2>4 DEF Page!Envelopes
    <2> HIDE DEF ready
    <2>6. pWire' \in [Tabs -> SUBSET Page!Messages]
      BY <1>1, <2>3, <2>5 DEF PageTypes
    <2> QED
      BY <1>1, <2>3, <2>6 DEF PageInv, PageTypes, Page!TypeOK, GuardedStep
  <1>4. CASE Page!Connect(p)
    <2>1. /\ pOpen' \in SUBSET Tabs
          /\ UNCHANGED <<pOutbox, pDisk, pTimer, pSeen, pWire, pAcks, pStored, pDrops,
                         pReloads>>
      BY <1>1, <1>4 DEF Page!Connect, PageTypes
    <2> QED
      BY <1>1, <2>1 DEF PageInv, PageTypes, Page!TypeOK, GuardedStep
  <1>5. ASSUME Page!Closed(p)
        PROVE  /\ pOpen' \in SUBSET Tabs /\ pWire' \in [Tabs -> SUBSET Page!Messages]
               /\ pAcks' \in [Tabs -> SUBSET Page!Messages]
               /\ \A x \in Tabs : pAcks'[x] \subseteq pStored
    BY <1>1, <1>5 DEF Page!Closed, PageTypes
  <1>6. CASE Page!Reload(p)
    <2>1. Page!IdsOf(pDisk) \subseteq Page!Messages
      <3>1. \A i \in DOMAIN pDisk : pDisk[i] \in Page!Envelopes
        BY <1>1, ElementOf DEF PageTypes
      <3> QED
        BY <3>1 DEF Page!IdsOf, Page!Envelopes
    <2>2. /\ pOutbox' = [pOutbox EXCEPT ![p] = pDisk]
          /\ pSeen' = [pSeen EXCEPT ![p] = Page!IdsOf(pDisk)]
          /\ pTimer' = pTimer \ {p} /\ pReloads' = pReloads + 1
          /\ Page!Closed(p) /\ UNCHANGED <<pDisk, pStored, pDrops>>
      BY <1>6 DEF Page!Reload
    <2>3. pOutbox' \in [Tabs -> Seq(Page!Envelopes)] /\ pSeen' \in [Tabs -> SUBSET Page!Messages]
      BY <1>1, <2>1, <2>2 DEF PageTypes
    <2>4. pReloads' \in Nat /\ pReloads' # pReloads /\ pTimer' \in SUBSET Tabs
      BY <1>1, <2>2 DEF PageTypes
    <2>5. PageTypes'
      BY <1>1, <1>5, <2>2, <2>3, <2>4 DEF PageTypes
    <2> QED
      BY <1>5, <2>2, <2>4, <2>5 DEF PageInv, PageTypes, Page!TypeOK, GuardedStep
  <1>7. CASE Page!Disconnect(p)
    <2>1. /\ Page!Closed(p) /\ pDrops' \in Nat
          /\ UNCHANGED <<pOutbox, pDisk, pTimer, pSeen, pStored, pReloads>>
      BY <1>1, <1>7 DEF Page!Disconnect, PageTypes
    <2>2. PageTypes'
      BY <1>1, <1>5, <2>1 DEF PageTypes
    <2> QED
      BY <1>5, <2>1, <2>2 DEF PageInv, PageTypes, Page!TypeOK, GuardedStep
  <1> QED
    BY <1>2, <1>3, <1>4, <1>6, <1>7

LEMMA HandlerKeeps ==
    ASSUME PageInv, NEW p \in Tabs, NEW m \in Page!Messages,
           Page!Ingest(p, m) \/ Page!IngestFails(p, m)
    PROVE  PageInv' /\ GuardedStep
  <1>1. PageTypes /\ \A x \in Tabs : pAcks[x] \subseteq pStored
    BY DEF PageInv, Page!TypeOK, PageTypes
  <1>2. CASE Page!Ingest(p, m)
    <2>1. /\ pWire' = [pWire EXCEPT ![p] = @ \ {m}]
          /\ \/ UNCHANGED <<pStored, pAcks>>
             \/ /\ pStored' = pStored \cup {m}
                /\ pAcks' = [pAcks EXCEPT ![p] = @ \cup {m}]
          /\ UNCHANGED <<pOutbox, pDisk, pTimer, pSeen, pOpen, pDrops, pReloads>>
      BY <1>2 DEF Page!Ingest
    <2>2. /\ pWire' \in [Tabs -> SUBSET Page!Messages]
          /\ pAcks' \in [Tabs -> SUBSET Page!Messages]
          /\ pStored' \in SUBSET Page!Messages
      BY <1>1, <2>1 DEF PageTypes
    <2>3. \A x \in Tabs : pAcks'[x] \subseteq pStored'
      BY <1>1, <2>1 DEF PageTypes
    <2>4. PageTypes'
      BY <1>1, <2>1, <2>2 DEF PageTypes
    <2> QED
      BY <2>1, <2>3, <2>4 DEF PageInv, PageTypes, Page!TypeOK, GuardedStep
  <1>3. CASE Page!IngestFails(p, m)
    <2>1. /\ pStored' = pStored \/ pStored' = pStored \cup {m}
          /\ Page!Closed(p) /\ pDrops' \in Nat
          /\ UNCHANGED <<pOutbox, pDisk, pTimer, pSeen, pReloads>>
      BY <1>1, <1>3 DEF Page!IngestFails, PageTypes
    <2>2. /\ pOpen' \in SUBSET Tabs /\ pWire' \in [Tabs -> SUBSET Page!Messages]
          /\ pAcks' \in [Tabs -> SUBSET Page!Messages]
          /\ \A x \in Tabs : pAcks'[x] \subseteq pAcks[x]
      BY <1>1, <2>1 DEF Page!Closed, PageTypes
    <2>3. PageTypes' /\ pStored \subseteq pStored'
      BY <1>1, <2>1, <2>2 DEF PageTypes
    <2> QED
      BY <1>1, <2>1, <2>2, <2>3 DEF PageInv, PageTypes, Page!TypeOK, GuardedStep
  <1> QED
    BY <1>2, <1>3

LEMMA PageKeeps == PageInv /\ [Page!Next]_page => PageInv' /\ GuardedStep
  <1> SUFFICES ASSUME PageInv, [Page!Next]_page PROVE PageInv' /\ GuardedStep
    OBVIOUS
  <1>1. CASE UNCHANGED page
    BY <1>1 DEF page, PageInv, Page!TypeOK, GuardedStep
  <1>2. CASE Page!Next
    <2>1. PICK p \in Tabs :
             \/ Page!Persist(p) \/ Page!Flush(p) \/ Page!Connect(p) \/ Page!Reload(p)
             \/ Page!Disconnect(p)
             \/ \E m \in Page!Messages :
                   \/ \E unnamed \in BOOLEAN : Page!Capture(p, m, unnamed)
                   \/ Page!Named(p, m) \/ Page!AcknowledgeEvent(p, m)
                   \/ Page!Ingest(p, m) \/ Page!IngestFails(p, m)
      BY <1>2 DEF Page!Next
    <2> QED
      BY <2>1, PageLinkKeeps, PageCaptureKeeps, NamedKeeps, AcknowledgeKeeps, HandlerKeeps
  <1> QED
    BY <1>1, <1>2

LEMMA PageBegins == Page!Init => PageInv
  BY EmptySequence DEF Page!Init, PageInv, Page!TypeOK

\* "Keep every unacknowledged Tmall envelope" (browser_bridge.js:309): a message
\* of a guarded account leaves the outbox of a page only when the database has
\* it, however many envelopes come, whatever is sent twice, and wherever a
\* connection ends; only a page that is loaded anew begins from its older copy.
THEOREM GuardedKept == PartsSpec => GuardedLeavesStored
  <1>1. PartsInit => PageInv
    BY PageBegins DEF PartsInit
  <1>2. PageInv /\ [PartsNext]_all => PageInv' /\ [GuardedStep]_page
    <2> SUFFICES ASSUME PageInv, [PartsNext]_all PROVE PageInv' /\ [GuardedStep]_page
      OBVIOUS
    <2>1. CASE UNCHANGED page
      BY <2>1, PageKeeps
    <2>2. CASE ~ UNCHANGED page
      BY <2>2, StepOfPart, PageKeeps
    <2> QED
      BY <2>1, <2>2
  <1>3. [GuardedStep]_page =>
        [\A p \in Tabs, m \in Guarded :
            m \in Page!IdsOf(pOutbox[p]) /\ m \notin Page!IdsOf(pOutbox'[p]) =>
                m \in pStored \/ pReloads' # pReloads]_page
    BY DEF GuardedStep
  <1> QED
    BY <1>1, <1>2, <1>3, PTL DEF PartsSpec, GuardedLeavesStored,
      Page!GuardedLeavesStored, Page!vars, page

-----------------------------------------------------------------------------
(* The types of every part.                                                   *)

\* A call is at one of its places, and a page shows one conversation.
LEMMA OpeningTypes ==
    /\ Opening!Init => Opening!TypeOK
    /\ Opening!TypeOK /\ [Opening!Next]_opening => Opening!TypeOK'
  <1>1. Opening!Init => Opening!TypeOK
    BY DEF Opening!Init, Opening!TypeOK
  <1> SUFFICES ASSUME Opening!TypeOK, [Opening!Next]_opening PROVE Opening!TypeOK'
    BY <1>1
  <1> USE DEF Opening!TypeOK, Opening!Ends
  <1>2. CASE Opening!Open \/ Opening!Refused \/ Opening!WatchEnds
    BY <1>2 DEF Opening!Open, Opening!Refused, Opening!WatchEnds
  <1>3. CASE Opening!Accepted
    BY <1>3 DEF Opening!Accepted
  <1>4. ASSUME NEW x \in Opening!Shown, Opening!ClientShows(x) PROVE Opening!TypeOK'
    BY <1>4 DEF Opening!ClientShows
  <1>5. ASSUME NEW x \in Opening!Shown, Opening!Observe(x) PROVE Opening!TypeOK'
    <2>1. oPc' \in {"watching", "verified", "elsewhere"}
      BY <1>5 DEF Opening!Observe
    <2> QED
      BY <1>5, <2>1 DEF Opening!Observe
  <1>6. CASE UNCHANGED opening
    BY <1>6 DEF opening
  <1> QED
    BY <1>2, <1>3, <1>4, <1>5, <1>6 DEF Opening!Next

\* Every selection is of a conversation or of none.
LEMMA SwitchingTypes ==
    /\ Switching!Init => Switching!TypeOK
    /\ Switching!TypeOK /\ SwitchingInv /\ [Switching!Next]_switching =>
          Switching!TypeOK'
  <1> DEFINE S == Switching!Selection
  <1>c. MaxUnread \in Nat \ {0} /\ MaxCalls \in Nat
    BY ClientAssumption
  <1>s. None \in S /\ Chats \subseteq S
    BY DEF Switching!Selection
  <1>e. <<>> \in Seq(S) /\ Len(<<>>) = 0
    OBVIOUS
  <1>1. Switching!Init => Switching!TypeOK
    <2> SUFFICES ASSUME Switching!Init PROVE Switching!TypeOK
      OBVIOUS
    <2>1. wShown \in S /\ wUnread \in {<<>>, <<wShown>>}
      BY DEF Switching!Init
    <2>2. <<wShown>> \in Seq(S) /\ Len(<<wShown>>) = 1
      BY <2>1
    <2> HIDE DEF S
    <2>3. wUnread \in Seq(S) /\ Len(wUnread) \in {0, 1}
      <3>1. CASE wUnread = <<>>
        BY <1>e, <3>1
      <3>2. CASE wUnread = <<wShown>>
        BY <2>2, <3>2
      <3> QED
        BY <2>1, <3>1, <3>2
    <2>4. wCalls = 0 /\ wFresh \in BOOLEAN /\ wSwitched \in BOOLEAN
      BY DEF Switching!Init
    <2>5. Len(wUnread) <= MaxUnread /\ wCalls \in 0 .. MaxCalls
      BY <1>c, <2>3, <2>4
    <2> QED
      BY <1>s, <2>1, <2>3, <2>4, <2>5 DEF Switching!Init, Switching!TypeOK, S
  <1> SUFFICES ASSUME Switching!TypeOK, SwitchingInv, [Switching!Next]_switching
               PROVE  Switching!TypeOK'
    BY <1>1
  <1> USE DEF Switching!Ends
  <1>t. /\ wPc \in {"idle", "asking", "watching"} \cup Switching!Ends
        /\ wExpected \in S /\ wUnread \in Seq(S) /\ Len(wUnread) <= MaxUnread
        /\ wSelected \in S /\ wShown \in S /\ wFresh \in BOOLEAN
        /\ wSwitched \in BOOLEAN /\ wCommands \subseteq Chats
        /\ wCalls \in 0 .. MaxCalls
    BY DEF Switching!TypeOK
  <1> HIDE DEF S
  <1>p. Switching!Polled \in S
    <2>1. CASE wUnread = <<>>
      BY <1>t, <2>1 DEF Switching!Polled
    <2>2. CASE wUnread # <<>>
      <3>1. Len(wUnread) \in DOMAIN wUnread
        BY <1>t, <2>2
      <3>2. wUnread[Len(wUnread)] \in S
        BY <1>t, <3>1, ElementOf
      <3> QED
        BY <2>2, <3>2 DEF Switching!Polled, Switching!Last
    <2> QED
      BY <2>1, <2>2
  <1>k. ASSUME /\ wPc' \in {"idle", "asking", "watching"} \cup Switching!Ends
               /\ wExpected' \in S /\ wUnread' \in Seq(S)
               /\ Len(wUnread') <= MaxUnread
               /\ wSelected' \in S /\ wShown' \in S /\ wFresh' \in BOOLEAN
               /\ wSwitched' \in BOOLEAN /\ wCommands' \subseteq Chats
               /\ wCalls' \in 0 .. MaxCalls
        PROVE  Switching!TypeOK'
    BY <1>k DEF Switching!TypeOK, S
  <1>2. CASE Switching!Call
    <2>1. /\ wPc' = "asking" /\ wExpected' \in Chats /\ wUnread' = <<>>
          /\ wSelected' = Switching!Polled /\ wFresh' \in BOOLEAN
          /\ wSwitched' \in BOOLEAN /\ UNCHANGED <<wShown, wCommands>>
          /\ wCalls < MaxCalls /\ wCalls' = wCalls + 1
      BY <1>2 DEF Switching!Call
    <2>2. wCalls' \in 0 .. MaxCalls
      BY <1>c, <1>t, <2>1
    <2> QED
      BY <1>c, <1>e, <1>k, <1>p, <1>s, <1>t, <2>1, <2>2
  <1>3. CASE Switching!RunCommand
    <2>1. wExpected \in Chats
      BY <1>3 DEF Switching!RunCommand, SwitchingInv
    <2> QED
      BY <1>3, <1>t, <1>k, <2>1 DEF Switching!RunCommand
  <1>4. CASE Switching!Watch
    <2>1. /\ wPc' \in {"verified", "watching"} /\ wUnread' = <<>>
          /\ wSelected' = Switching!Polled /\ wFresh' \in BOOLEAN
          /\ UNCHANGED <<wExpected, wShown, wSwitched, wCommands, wCalls>>
      BY <1>4 DEF Switching!Watch
    <2> QED
      BY <1>c, <1>e, <1>k, <1>p, <1>t, <2>1
  <1>5. CASE Switching!WatchEnds \/ UNCHANGED switching
    BY <1>5, <1>t, <1>k DEF Switching!WatchEnds, switching
  <1>6. CASE Switching!LogSkipped
    <2>1. /\ wUnread' = <<>> /\ wSelected' = None
          /\ UNCHANGED <<wPc, wExpected, wFresh, wShown, wSwitched, wCommands, wCalls>>
      BY <1>6 DEF Switching!LogSkipped
    <2> QED
      BY <1>c, <1>e, <1>k, <1>s, <1>t, <2>1
  <1>7. ASSUME NEW chat \in S, Switching!Selects(chat), wCommands' \subseteq wCommands
        PROVE  Switching!TypeOK'
    <2>1. /\ wUnread' = Append(wUnread, chat) /\ Len(wUnread) < MaxUnread
          /\ wShown' = chat /\ wSwitched' \in BOOLEAN
          /\ UNCHANGED <<wPc, wExpected, wSelected, wFresh, wCalls>>
      BY <1>7 DEF Switching!Selects
    <2>2. wUnread' \in Seq(S) /\ Len(wUnread') <= MaxUnread
      BY <1>c, <1>t, <2>1
    <2> QED
      BY <1>7, <1>k, <1>t, <2>1, <2>2
  <1>8. CASE \E chat \in Switching!Selection :
               Switching!ClientOpens(chat) \/ Switching!OperatorSelects(chat)
    BY <1>7, <1>8 DEF Switching!ClientOpens, Switching!OperatorSelects, S
  <1> QED
    BY <1>2, <1>3, <1>4, <1>5, <1>6, <1>8 DEF Switching!Next

\* What is counted of the native sends.
LEMMA TokenCounts ==
    ASSUME TokensInv, kDetaches \in 0 .. MaxDetaches, kRestarts \in 0 .. MaxRestarts,
           [Tokens!Next]_tokens
    PROVE  kDetaches' \in 0 .. MaxDetaches /\ kRestarts' \in 0 .. MaxRestarts
  <1>c. MaxDetaches \in Nat /\ MaxRestarts \in Nat
    BY ClientAssumption, BoundsAssumption
  <1>1. CASE Tokens!Detach
    BY <1>1, <1>c DEF Tokens!Detach
  <1>2. CASE Tokens!Restart
    BY <1>2, <1>c DEF Tokens!Restart
  <1>3. ASSUME NEW s \in Texts,
               Tokens!Take(s) \/ Tokens!Submit(s) \/ Tokens!Poll(s) \/ Tokens!Cancel(s)
        PROVE  UNCHANGED <<kDetaches, kRestarts>>
    BY <1>3 DEF Tokens!Take, Tokens!Submit, Tokens!Poll, Tokens!Cancel
  <1>4. ASSUME NEW c \in kDue, Tokens!Callback(c) PROVE UNCHANGED <<kDetaches, kRestarts>>
    BY <1>4 DEF Tokens!Callback
  <1>5. CASE UNCHANGED tokens
    BY <1>5 DEF tokens
  <1> QED
    BY <1>1, <1>2, <1>3, <1>4, <1>5 DEF Tokens!Next

\* What bounds the messages said bounds those confirmed.
SaidTypes ==
    /\ Len(tSaid) <= MaxSaid
    /\ tConfirmed \in SUBSET (1 .. MaxSaid)

LEMMA SaidKeeps ==
    ASSUME WaitsInv, SaidTypes, [Waiting!Next]_waiting PROVE SaidTypes'
  <1>c. /\ MaxSaid \in Nat /\ Len(tSaid) \in Nat /\ DOMAIN tSaid = 1 .. Len(tSaid)
        /\ DOMAIN tSaid \subseteq 1 .. MaxSaid
    BY ClientAssumption DEF WaitsInv, SaidTypes
  <1>1. ASSUME NEW class \in Waiting!Classes, NEW later \in BOOLEAN,
               Waiting!Say(class, later)
        PROVE  SaidTypes'
    <2>1. /\ Len(tSaid) < MaxSaid /\ tConfirmed' = tConfirmed
          /\ \E e : tSaid' = Append(tSaid, e)
      BY <1>1 DEF Waiting!Say
    <2>2. Len(tSaid') = Len(tSaid) + 1
      BY <2>1 DEF WaitsInv
    <2> QED
      BY <1>c, <2>1, <2>2 DEF SaidTypes
  <1>2. ASSUME NEW m \in DOMAIN tSaid, NEW known \in BOOLEAN, Waiting!Capture(m, known)
        PROVE  SaidTypes'
    BY <1>2, <1>c DEF Waiting!Capture, SaidTypes
  <1>3. ASSUME NEW m \in DOMAIN tSaid, NEW t \in 1 .. MaxSaid + 1, Waiting!Receipt(m, t)
        PROVE  SaidTypes'
    BY <1>3 DEF Waiting!Receipt, SaidTypes
  <1>4. CASE UNCHANGED waiting
    BY <1>4 DEF waiting, SaidTypes
  <1> QED
    BY <1>1, <1>2, <1>3, <1>4 DEF Waiting!Next

LEMMA WaitsTyped == WaitsInv /\ SaidTypes => Waiting!TypeOK
  <1> SUFFICES ASSUME WaitsInv, SaidTypes PROVE Waiting!TypeOK
    OBVIOUS
  <1>1. /\ MaxSaid \in Nat /\ Len(tSaid) \in Nat /\ DOMAIN tSaid = 1 .. Len(tSaid)
        /\ DOMAIN tSaid \subseteq 1 .. MaxSaid
    BY ClientAssumption DEF WaitsInv, SaidTypes
  <1>2. tEvents \in Seq(1 .. MaxSaid)
    <2> DEFINE R == 1 .. MaxSaid
    <2>1. /\ tEvents \in Seq(Nat)
          /\ DOMAIN tEvents = 1 .. Len(tEvents) /\ Len(tEvents) \in Nat
      BY DEF WaitsInv
    <2>2. \A i \in 1 .. Len(tEvents) : tEvents[i] \in R
      BY <1>1, <2>1 DEF WaitsInv
    <2> HIDE DEF R
    <2>3. tEvents \in Seq(R)
      BY <2>1, <2>2
    <2> QED
      BY <2>3 DEF R
  <1> QED
    BY <1>2 DEF WaitsInv, SaidTypes, Waiting!TypeOK

\* Commands with and without the pool: TypeCorrect of CommandPool.
LEMMA AloneTyped == AloneTold!Spec => []AloneTold!TypeOK
  <1>1. AloneTold!KindsAssumption /\ AloneTold!ConvAssumption
        /\ AloneTold!ThreadsAssumption /\ AloneTold!PoolAssumption
    BY InlineAssumption DEF AloneTold!KindsAssumption, AloneTold!ConvAssumption,
       AloneTold!ThreadsAssumption, AloneTold!PoolAssumption, AloneTold!Commands
  <1> QED
    BY <1>1, AloneTold!TypeCorrect

LEMMA BesideTyped == BesideTold!Spec => []BesideTold!TypeOK
  <1>1. BesideTold!KindsAssumption /\ BesideTold!ConvAssumption
        /\ BesideTold!ThreadsAssumption /\ BesideTold!PoolAssumption
    BY InlineAssumption DEF BesideTold!KindsAssumption, BesideTold!ConvAssumption,
       BesideTold!ThreadsAssumption, BesideTold!PoolAssumption, BesideTold!Commands
  <1> QED
    BY <1>1, BesideTold!TypeCorrect

\* The gateway queue: TypeCorrect of GatewayQueue.
LEMMA GatewayTyped == Delivering!Spec => []Delivering!TypeOK
  <1>1. /\ Delivering!FlagsAssumption /\ Delivering!BoundsAssumption
        /\ Delivering!DraftsAssumption /\ Delivering!NoRowAssumption
    BY BoundsAssumption, RowsAssumption DEF Rows, Delivering!Rows
  <1> QED
    BY <1>1, Delivering!TypeCorrect

\* What keeps the types of the parts that are proved here.
PartsTyped ==
    /\ part = "calls" => CallsInv
    /\ part = "opening" => Opening!TypeOK
    /\ part = "switching" => Switching!TypeOK /\ SwitchingInv
    /\ part = "tokens" => /\ TokensInv /\ kDetaches \in 0 .. MaxDetaches
                          /\ kRestarts \in 0 .. MaxRestarts
    /\ part = "page" => PageInv
    /\ part = "waiting" => WaitsInv /\ SaidTypes
    /\ part = "upgrade" => UpgradeInv /\ UpgradeCounts

LEMMA PartsTypedBegin == PartsInit => PartsTyped
  <1> SUFFICES ASSUME PartsInit PROVE PartsTyped
    OBVIOUS
  <1>1. CallsInv
    BY CallsInit DEF PartsInit
  <1>2. Opening!TypeOK /\ Switching!TypeOK
    BY OpeningTypes, SwitchingTypes DEF PartsInit
  <1>3. SwitchingInv
    BY SwitchingBegins DEF PartsInit
  <1>4. TokensInv /\ kDetaches \in 0 .. MaxDetaches /\ kRestarts \in 0 .. MaxRestarts
    <2>1. MaxDetaches \in Nat /\ MaxRestarts \in Nat
      BY ClientAssumption, BoundsAssumption
    <2>2. kDetaches = 0 /\ kRestarts = 0
      BY DEF PartsInit, Tokens!Init
    <2> QED
      BY <2>1, <2>2, TokensInit, TextsAssumption DEF PartsInit
  <1>5. PageInv
    BY PageBegins DEF PartsInit
  <1>6. WaitsInv /\ SaidTypes
    <2>1. Len(tSaid) = 0 /\ tConfirmed = {}
      BY EmptySequence DEF PartsInit, Waiting!Init
    <2> QED
      BY <2>1, ClientAssumption, WaitsBegin DEF PartsInit, SaidTypes
  <1>7. UpgradeInv /\ UpgradeCounts
    BY UpgradeBegins, UpgradeCountsBegin DEF PartsInit
  <1> QED
    BY <1>1, <1>2, <1>3, <1>4, <1>5, <1>6, <1>7 DEF PartsTyped

LEMMA PartsTypedKeep == PartsTyped /\ [PartsNext]_all => PartsTyped'
  <1> SUFFICES ASSUME PartsTyped, [PartsNext]_all PROVE PartsTyped'
    OBVIOUS
  <1>1. part' = part
    BY StepOfPart
  <1>2. CASE part = "calls"
    BY <1>1, <1>2, StepOfPart, CallsKeep DEF PartsTyped
  <1>3. CASE part = "opening"
    BY <1>1, <1>3, StepOfPart, OpeningTypes DEF PartsTyped
  <1>4. CASE part = "switching"
    BY <1>1, <1>4, StepOfPart, SwitchingTypes, SwitchingKeeps DEF PartsTyped
  <1>5. CASE part = "tokens"
    BY <1>1, <1>5, StepOfPart, TokensKeep, TokenCounts DEF PartsTyped
  <1>6. CASE part = "page"
    BY <1>1, <1>6, StepOfPart, PageKeeps DEF PartsTyped
  <1>7. CASE part = "waiting"
    BY <1>1, <1>7, StepOfPart, WaitsKeep, SaidKeeps DEF PartsTyped
  <1>8. CASE part = "upgrade"
    BY <1>1, <1>8, StepOfPart, UpgradeKeeps, UpgradeCountsKeep DEF PartsTyped
  <1>9. CASE part \notin {"calls", "opening", "switching", "tokens", "page", "waiting",
                          "upgrade"}
    BY <1>1, <1>9 DEF PartsTyped
  <1> QED
    BY <1>2, <1>3, <1>4, <1>5, <1>6, <1>7, <1>8, <1>9

\* Every part keeps its types, whatever its constants: a queue holds commands, a
\* token is one of the sends', an outbox holds envelopes, a place of a copy is
\* that of a message said, and what is saved is of the old program.
THEOREM BridgeTypes == PartsSpec => []TypesOK
  <1>1. PartsInit => Init
    BY DEF PartsInit
  <1>2. [PartsNext]_all => [Next]_vars
    BY StepOfPart
  <1>3. [PartsNext]_all => [Delivering!Next]_(Delivering!vars)
    BY GatewaySteps, StepOfPart DEF gateway, Delivering!vars
  <1>4. [PartsNext]_all => [AloneTold!Next]_(AloneTold!vars)
    BY AloneSteps, StepOfPart DEF alone, AloneTold!vars
  <1>5. [PartsNext]_all => [BesideTold!Next]_(BesideTold!vars)
    BY BesideSteps, StepOfPart DEF beside, BesideTold!vars
  <1>6. Delivering!TypeOK => Gateway!TypeOK
    BY DEF Delivering!TypeOK, Gateway!TypeOK, Delivering!Ids, Gateway!Ids,
       Delivering!Rows, Gateway!Rows, Delivering!Claimed, Gateway!Claimed
  <1>7. AloneTold!TypeOK => Alone!TypeOK
    BY DEF AloneTold!TypeOK, Alone!TypeOK, AloneTold!Commands, Alone!Commands,
       AloneTold!Threads, Alone!Threads, AloneTold!Results, Alone!Results
  <1>8. BesideTold!TypeOK => Beside!TypeOK
    BY DEF BesideTold!TypeOK, Beside!TypeOK, BesideTold!Commands, Beside!Commands,
       BesideTold!Threads, Beside!Threads, BesideTold!Results, Beside!Results
  <1>9. /\ TypeOK /\ Gateway!TypeOK /\ Alone!TypeOK /\ Beside!TypeOK /\ PartsTyped
        => TypesOK
    <2> SUFFICES ASSUME PartsTyped, TypeOK, Gateway!TypeOK, Alone!TypeOK, Beside!TypeOK
                 PROVE  TypesOK
      OBVIOUS
    <2>1. part = "calls" => Calls!TypeOK
      BY DEF PartsTyped, CallsInv
    <2>2. part = "tokens" => Tokens!TypeOK
      BY DEF PartsTyped, TokensInv, TokenTypes, Tokens!TypeOK
    <2>3. part = "page" => Page!TypeOK
      BY DEF PartsTyped, PageInv
    <2>4. part = "waiting" => Waiting!TypeOK
      BY WaitsTyped DEF PartsTyped
    <2>5. part = "upgrade" => Upgrading!TypeOK
      <3> SUFFICES ASSUME UpgradeTypes, UpgradeCounts PROVE Upgrading!TypeOK
        BY DEF PartsTyped, UpgradeInv
      <3>1. uPc \in {"check", "stop", "database", "move", "copy", "start", "verify"}
                      \cup {"stopAgain", "aside", "back", "config", "startOld"}
                      \cup Upgrading!Ends
        BY DEF UpgradeTypes, Forward, Recovery, AfterAside, Upgrading!Ends
      <3>2. uSaved \subseteq uOld
        BY DEF UpgradeTypes
      <3> QED
        BY <3>1, <3>2 DEF UpgradeTypes, UpgradeCounts, Upgrading!TypeOK
    <2>6. /\ part = "opening" => Opening!TypeOK
          /\ part = "switching" => Switching!TypeOK
      BY DEF PartsTyped
    <2> QED
      BY <2>1, <2>2, <2>3, <2>4, <2>5, <2>6 DEF TypesOK
  <1>10. PartsSpec => []TypeOK
    BY <1>1, <1>2, TypeCorrect, PTL DEF PartsSpec, Spec
  <1>11. PartsSpec => []Gateway!TypeOK
    BY <1>3, <1>6, GatewayBegins, GatewayTyped, PTL DEF PartsSpec, Delivering!Spec
  <1>12. PartsSpec => []Alone!TypeOK
    BY <1>4, <1>7, AloneBegins, AloneTyped, PTL DEF PartsSpec, AloneTold!Spec
  <1>13. PartsSpec => []Beside!TypeOK
    BY <1>5, <1>8, BesideBegins, BesideTyped, PTL DEF PartsSpec, BesideTold!Spec
  <1>14. PartsSpec => []PartsTyped
    BY PartsTypedBegin, PartsTypedKeep, PTL DEF PartsSpec
  <1> QED
    BY <1>9, <1>10, <1>11, <1>12, <1>13, <1>14, PTL
==============================================================================
