------------------------- MODULE GatewayQueueProofs -------------------------
(* Proofs about GatewayQueue, for any events, drafts, contents and rare      *)
(* events: what is certain of the table whatever the gateway answers, and    *)
(* what is certain under the flags that the theorems name.                   *)
EXTENDS GatewayQueue, TLAPS

\* The types the proofs need: the rest of TypeOK takes no part in them.
TableTypes ==
    /\ row \in [Ids -> Rows \cup {NoRow}]
    /\ made \in [Ids -> Nat]
    /\ batch \in [Ids -> Nat]
    /\ pc \in {"idle", "posting", "marking", "failed"}
    /\ left \subseteq Claimed
    /\ \A e \in Ids : Has(e) => row[e].rev > 0

\* The step overwrites the status of the rows of S and nothing else of the table.
SetsStatus(S, s) ==
    row' = [e \in Ids |-> IF e \in S THEN [row[e] EXCEPT !.status = s] ELSE row[e]]

\* A row that was written has the status it was given, and no other row moves.
LEMMA WriteGives ==
    ASSUME TableTypes, NEW e \in Ids, NEW s \in {"pending", "sending", "delivered"},
           Write(e, s)
    PROVE  /\ row' \in [Ids -> Rows \cup {NoRow}] /\ made' \in [Ids -> Nat]
           /\ row'[e] # NoRow /\ row'[e].status = s /\ row'[e].rev > 0
           /\ \A f \in Ids \ {e} : row'[f] = row[f]
  <1>1. made[e] + 1 \in Nat /\ made[e] + 1 > 0
    BY DEF TableTypes
  <1>2. [status |-> s, rev |-> made[e] + 1] \in Rows
    BY <1>1 DEF Rows
  <1>3. row'[e] = [status |-> s, rev |-> made[e] + 1]
    BY DEF Write, TableTypes
  <1> QED
    BY <1>1, <1>2, <1>3, NoRowAssumption DEF Write, TableTypes

\* A row has one of the three statuses.
LEMMA RowsHaveStatus ==
    ASSUME TableTypes, NEW e \in Ids, Has(e)
    PROVE  /\ row[e] \in Rows /\ row[e].rev \in Nat
           /\ row[e].status \in {"pending", "sending", "delivered"}
  BY DEF TableTypes, Has, Rows

\* The status of some rows is overwritten: claiming, marking, requeueing.
LEMMA StatusSet ==
    ASSUME TableTypes, NEW S \in SUBSET Ids, \A e \in S : Has(e),
           NEW s \in {"pending", "sending", "delivered"}, SetsStatus(S, s)
    PROVE  /\ row' \in [Ids -> Rows \cup {NoRow}]
           /\ \A e \in S : /\ row'[e] # NoRow /\ row'[e].status = s
                           /\ row'[e].rev = row[e].rev
           /\ \A e \in Ids \ S : row'[e] = row[e]
  <1>1. ASSUME NEW e \in S
        PROVE  /\ row'[e] \in Rows /\ row'[e].status = s
               /\ row'[e].rev = row[e].rev
    <2>1. row[e] \in Rows
      BY RowsHaveStatus
    <2>2. row'[e] = [row[e] EXCEPT !.status = s]
      BY DEF SetsStatus
    <2> QED
      BY <2>1, <2>2 DEF Rows
  <1>2. \A e \in Ids \ S : row'[e] = row[e] /\ row'[e] \in Rows \cup {NoRow}
    BY DEF TableTypes, SetsStatus
  <1> QED
    BY <1>1, <1>2, NoRowAssumption DEF SetsStatus

\* What each action of the writers and of the worker does to the table, in the
\* terms of the proofs: a write of one row, or of the status of some rows.
LEMMA RestartSets ==
    ASSUME TableTypes, Restart
    PROVE  /\ row' \in [Ids -> Rows \cup {NoRow}]
           /\ \A e \in Ids :
                 /\ ~StatusIs(e, "sending")'
                 /\ StatusIs(e, "sending") => StatusIs(e, "pending")'
                 /\ ~StatusIs(e, "sending") => row'[e] = row[e]
  <1> DEFINE S == {e \in Ids : StatusIs(e, "sending")}
  <1>1. \A e \in S : Has(e)
    BY DEF StatusIs
  <1>2. SetsStatus(S, "pending")
    BY DEF Restart, SetsStatus
  <1>3. S \in SUBSET Ids /\ \A e \in Ids : e \in S <=> StatusIs(e, "sending")
    OBVIOUS
  <1> HIDE DEF S
  <1>4. /\ row' \in [Ids -> Rows \cup {NoRow}]
        /\ \A e \in S : row'[e] # NoRow /\ row'[e].status = "pending"
        /\ \A e \in Ids \ S : row'[e] = row[e]
    BY <1>1, <1>2, <1>3, StatusSet
  <1> QED
    BY <1>3, <1>4 DEF StatusIs, Has

LEMMA MarkFailedSets ==
    ASSUME TableTypes, MarkFailed
    PROVE  /\ row' \in [Ids -> Rows \cup {NoRow}]
           /\ \A e \in Ids :
                 /\ e \in Claimed /\ Mine(e) => StatusIs(e, "pending")'
                 /\ ~(e \in Claimed /\ Mine(e)) => row'[e] = row[e]
  <1> DEFINE S == {e \in Ids : e \in Claimed /\ Mine(e)}
  <1>1. \A e \in S : Has(e)
    BY DEF Mine, StatusIs
  <1>2. SetsStatus(S, "pending")
    BY DEF MarkFailed, SetsStatus
  <1>3. S \in SUBSET Ids /\ \A e \in Ids : e \in S <=> (e \in Claimed /\ Mine(e))
    OBVIOUS
  <1> HIDE DEF S
  <1>4. /\ row' \in [Ids -> Rows \cup {NoRow}]
        /\ \A e \in S : row'[e] # NoRow /\ row'[e].status = "pending"
        /\ \A e \in Ids \ S : row'[e] = row[e]
    BY <1>1, <1>2, <1>3, StatusSet
  <1> QED
    BY <1>3, <1>4 DEF StatusIs, Has

LEMMA MarkDeliveredSets ==
    ASSUME TableTypes, NEW f \in Ids, MarkDelivered(f)
    PROVE  /\ row' \in [Ids -> Rows \cup {NoRow}]
           /\ Mine(f) => StatusIs(f, "delivered")'
           /\ ~Mine(f) => row'[f] = row[f]
           /\ \A e \in Ids \ {f} : row'[e] = row[e]
  <1>1. CASE Mine(f)
    <2>1. Has(f)
      BY <1>1 DEF Mine, StatusIs
    <2>2. SetsStatus({f}, "delivered")
      BY <1>1 DEF MarkDelivered, TableTypes, SetsStatus
    <2>3. /\ row' \in [Ids -> Rows \cup {NoRow}]
          /\ row'[f] # NoRow /\ row'[f].status = "delivered"
          /\ \A e \in Ids \ {f} : row'[e] = row[e]
      BY <2>1, <2>2, StatusSet
    <2> QED
      BY <1>1, <2>3 DEF StatusIs, Has
  <1>2. CASE ~Mine(f)
    BY <1>2 DEF MarkDelivered, TableTypes
  <1> QED
    BY <1>1, <1>2

LEMMA ClaimSets ==
    ASSUME TableTypes, Claim
    PROVE  /\ row' \in [Ids -> Rows \cup {NoRow}]
           /\ batch' \in [Ids -> Nat]
           /\ left' \subseteq Ids
           /\ \A e \in Ids :
                 /\ e \in left' <=> StatusIs(e, "pending")
                 /\ e \in left' => /\ StatusIs(e, "sending")'
                                   /\ row'[e].rev = row[e].rev
                                   /\ batch'[e] = row[e].rev
                 /\ e \notin left' => row'[e] = row[e] /\ batch'[e] = 0
  <1> DEFINE S == {e \in Ids : StatusIs(e, "pending")}
  <1>1. \A e \in S : Has(e)
    BY DEF StatusIs
  <1>2. /\ SetsStatus(S, "sending")
        /\ batch' = [e \in Ids |-> IF e \in S THEN row[e].rev ELSE 0]
        /\ left' = S
    BY DEF Claim, SetsStatus
  <1>3. S \in SUBSET Ids /\ \A e \in Ids : e \in S <=> StatusIs(e, "pending")
    OBVIOUS
  <1>4. \A e \in S : row[e].rev \in Nat
    BY <1>1, RowsHaveStatus
  <1> HIDE DEF S
  <1>5. /\ row' \in [Ids -> Rows \cup {NoRow}]
        /\ \A e \in S : /\ row'[e] # NoRow /\ row'[e].status = "sending"
                        /\ row'[e].rev = row[e].rev
        /\ \A e \in Ids \ S : row'[e] = row[e]
    BY <1>1, <1>2, <1>3, StatusSet
  <1> QED
    BY <1>2, <1>3, <1>4, <1>5 DEF StatusIs, Has

-----------------------------------------------------------------------------
(* Types. *)

LEMMA InitTypes == Init => TableTypes
  BY DEF Init, TableTypes, Claimed, Has, Rows

\* The writers write one row each.
WritesOne ==
    \E e \in Ids : \E s \in {"pending", "sending", "delivered"} : Write(e, s)

LEMMA WritersWrite ==
    ASSUME TableTypes, NEW e \in Ids,
           \/ Capture(e) \/ RepairIdentity(e) \/ RememberNative(e)
           \/ (Enrich(e) /\ Has(e)) \/ Project(e)
    PROVE  /\ UNCHANGED worker
           /\ \E s \in {"pending", "sending", "delivered"} : Write(e, s)
  <1>1. Has(e) => row[e].status \in {"pending", "sending", "delivered"}
    BY RowsHaveStatus
  <1> QED
    BY <1>1 DEF Capture, RepairIdentity, RememberNative, Enrich, Project

LEMMA TypesStep == TableTypes /\ [Next]_vars => TableTypes'
  <1> SUFFICES ASSUME TableTypes, [Next]_vars PROVE TableTypes'
    OBVIOUS
  <1>1. ASSUME WritesOne, UNCHANGED worker PROVE TableTypes'
    <2>1. PICK e \in Ids, s \in {"pending", "sending", "delivered"} : Write(e, s)
      BY <1>1 DEF WritesOne
    <2>2. /\ row' \in [Ids -> Rows \cup {NoRow}] /\ made' \in [Ids -> Nat]
          /\ row'[e].rev > 0
          /\ \A f \in Ids \ {e} : row'[f] = row[f]
      BY <2>1, WriteGives
    <2> QED
      BY <1>1, <2>2 DEF TableTypes, worker, Claimed, Has
  <1>2. ASSUME NEW e \in Ids,
               \/ Capture(e) \/ RepairIdentity(e) \/ RememberNative(e)
               \/ (Enrich(e) /\ Has(e)) \/ Project(e)
        PROVE  TableTypes'
    BY <1>1, <1>2, WritersWrite DEF WritesOne
  <1>3. ASSUME NEW e \in Ids, EnrichFails(e) \/ (Enrich(e) /\ ~Has(e))
        PROVE  TableTypes'
    BY <1>3 DEF EnrichFails, Enrich, TableTypes, worker, Claimed, Has
  <1>4. ASSUME NEW S \in SUBSET Ids, Prune(S) PROVE TableTypes'
    BY <1>4 DEF Prune, TableTypes, worker, Claimed, Has
  <1>5. CASE Claim
    <2>1. made' = made /\ pc' = "posting"
      BY <1>5 DEF Claim
    <2>2. \A e \in left' : row[e].rev > 0
      BY <1>5, ClaimSets DEF TableTypes, StatusIs
    <2>3. left' \subseteq Claimed'
      BY <1>5, <2>2, ClaimSets DEF Claimed
    <2>4. \A e \in Ids : Has(e)' => row'[e].rev > 0
      BY <1>5, <2>2, ClaimSets DEF TableTypes, Has
    <2> QED
      BY <1>5, <2>1, <2>3, <2>4, ClaimSets DEF TableTypes
  <1>6. CASE Post
    BY <1>6
    DEF Post, PostAccepted, PostFails, PostDuplicate, TableTypes, Claimed, Has
  <1>7. ASSUME NEW e \in Ids, MarkDelivered(e) PROVE TableTypes'
    <2>1. /\ row' \in [Ids -> Rows \cup {NoRow}]
          /\ \A f \in Ids : Has(f)' => Has(f) /\ row'[f].rev = row[f].rev
      <3>1. \A f \in Ids \ {e} : row'[f] = row[f]
        BY <1>7, MarkDeliveredSets
      <3>2. Has(e)' => Has(e) /\ row'[e].rev = row[e].rev
        <4>1. CASE Mine(e)
          BY <1>7, <4>1, RowsHaveStatus
          DEF MarkDelivered, Mine, StatusIs, TableTypes, Rows
        <4>2. CASE ~Mine(e)
          BY <1>7, <4>2, MarkDeliveredSets DEF Has
        <4> QED
          BY <4>1, <4>2
      <3> QED
        BY <1>7, <3>1, <3>2, MarkDeliveredSets DEF Has
    <2>2. \A f \in Ids : Has(f)' => row'[f].rev > 0
      BY <2>1 DEF TableTypes
    <2>3. /\ made' = made /\ pc' \in {"idle", "posting", "marking"}
          /\ \/ batch' = batch /\ left' = left
             \/ batch' = [f \in Ids |-> 0] /\ left' = {}
      BY <1>7 DEF MarkDelivered, Drop
    <2> QED
      BY <2>1, <2>2, <2>3 DEF TableTypes, Claimed
  <1>8. ASSUME MarkFailed \/ Restart PROVE TableTypes'
    <2>1. /\ row' \in [Ids -> Rows \cup {NoRow}]
          /\ \A e \in Ids : Has(e)' => Has(e) /\ row'[e].rev = row[e].rev
      <3>1. ASSUME NEW e \in Ids, Has(e)'
            PROVE  Has(e) /\ row'[e].rev = row[e].rev
        <4>1. \/ row'[e] = row[e]
              \/ row'[e] = [row[e] EXCEPT !.status = "pending"] /\ Has(e)
          BY <1>8 DEF MarkFailed, Restart, Mine, StatusIs
        <4> QED
          BY <3>1, <4>1, RowsHaveStatus DEF Has, Rows
      <3> QED
        BY <1>8, <3>1, MarkFailedSets, RestartSets
    <2>2. \A e \in Ids : Has(e)' => row'[e].rev > 0
      BY <2>1 DEF TableTypes
    <2>3. /\ made' = made /\ pc' = "idle" /\ left' = {}
          /\ batch' = [e \in Ids |-> 0]
      BY <1>8 DEF MarkFailed, Restart, Drop
    <2> QED
      BY <2>1, <2>2, <2>3 DEF TableTypes, Claimed
  <1>9. CASE UNCHANGED vars
    BY <1>9 DEF vars, TableTypes, Claimed, Has
  <1> QED
    BY <1>2, <1>3, <1>4, <1>5, <1>6, <1>7, <1>8, <1>9 DEF Next, Mark, Ids

LEMMA Typed == Spec => []TableTypes
  BY InitTypes, TypesStep, PTL DEF Spec

-----------------------------------------------------------------------------
(* Delivered rows. *)

LEMMA DeliveredStep ==
    ASSUME TableTypes, [Next]_vars, NEW e \in Ids, StatusIs(e, "delivered")
    PROVE  row'[e] = NoRow \/ row'[e].status = "delivered"
  <1>1. ASSUME NEW f \in Ids, NEW s \in {"pending", "sending", "delivered"},
               Write(f, s), f = e => s = "delivered"
        PROVE  row'[e] = NoRow \/ row'[e].status = "delivered"
    BY <1>1, WriteGives DEF StatusIs
  <1>2. ASSUME NEW f \in Ids,
               \/ Capture(f) \/ RepairIdentity(f) \/ RememberNative(f)
               \/ (Enrich(f) /\ Has(f)) \/ Project(f)
        PROVE  row'[e] = NoRow \/ row'[e].status = "delivered"
    <2>1. \E s \in {"pending", "sending", "delivered"} :
             Write(f, s) /\ (f = e => s = "delivered")
      <3>1. Has(f) => row[f].status \in {"pending", "sending", "delivered"}
        BY RowsHaveStatus
      <3>2. f = e => Has(f) /\ row[f].status = "delivered"
        BY DEF StatusIs
      <3> QED
        BY <1>2, <3>1, <3>2
        DEF Capture, RepairIdentity, RememberNative, Enrich, Project, StatusIs
    <2> QED
      BY <1>1, <2>1
  <1>3. ASSUME NEW f \in Ids, EnrichFails(f) \/ (Enrich(f) /\ ~Has(f))
        PROVE  row'[e] = row[e]
    BY <1>3 DEF EnrichFails, Enrich
  <1>4. ASSUME NEW S \in SUBSET Ids, Prune(S)
        PROVE  row'[e] = NoRow \/ row'[e] = row[e]
    BY <1>4 DEF Prune
  <1>5. CASE Claim
    BY <1>5, ClaimSets DEF StatusIs
  <1>6. ASSUME Post \/ UNCHANGED vars PROVE row'[e] = row[e]
    BY <1>6 DEF Post, PostAccepted, PostFails, PostDuplicate, vars
  <1>7. ASSUME NEW f \in Ids, MarkDelivered(f) PROVE row'[e] = row[e]
    BY <1>7, MarkDeliveredSets DEF Mine, StatusIs
  <1>8. ASSUME MarkFailed \/ Restart PROVE row'[e] = row[e]
    BY <1>8, MarkFailedSets, RestartSets DEF Mine, StatusIs
  <1> QED
    BY <1>2, <1>3, <1>4, <1>5, <1>6, <1>7, <1>8 DEF Next, Mark, Ids, StatusIs

\* No replay, enrichment, medium, draft, late answer or restart queues a
\* delivered row again, whatever the flags.
THEOREM DeliveredForGood == Spec => DeliveredStays
  <1>1. TableTypes /\ [Next]_vars =>
          [\A e \in Ids : StatusIs(e, "delivered") =>
              row'[e] = NoRow \/ row'[e].status = "delivered"]_row
    BY DeliveredStep
  <1> QED
    BY <1>1, Typed, PTL DEF Spec, DeliveredStays

-----------------------------------------------------------------------------
(* Drafts. *)

\* A draft's row, if any, is a delivered one, so no claim ever takes it.
DraftsInv ==
    \A d \in Drafts : /\ d \notin gateway /\ batch[d] = 0
                      /\ Has(d) => row[d].status = "delivered"

LEMMA DraftsStep == TableTypes /\ DraftsInv /\ [Next]_vars => DraftsInv'
  <1> SUFFICES ASSUME TableTypes, DraftsInv, [Next]_vars, NEW d \in Drafts
               PROVE  /\ d \notin gateway' /\ batch'[d] = 0
                      /\ Has(d)' => row'[d].status = "delivered"
    BY DEF DraftsInv
  <1>d. /\ d \in Ids /\ d \notin Events
        /\ d \notin gateway /\ batch[d] = 0 /\ d \notin left
        /\ ~StatusIs(d, "pending") /\ ~StatusIs(d, "sending")
    BY DraftsAssumption DEF Ids, DraftsInv, TableTypes, Claimed, StatusIs
  <1>1. Has(d)' => row'[d].status = "delivered"
    <2>1. CASE StatusIs(d, "delivered")
      BY <1>d, <2>1, DeliveredStep DEF Has
    <2>2. CASE ~Has(d)
      <3>1. ASSUME NEW f \in Events,
                   \/ Capture(f) \/ RepairIdentity(f) \/ RememberNative(f)
                   \/ (Enrich(f) /\ Has(f))
            PROVE  ~Has(d)'
        BY <1>d, <2>2, <3>1, WritersWrite, WriteGives DEF Ids, Has
      <3>2. ASSUME NEW f \in Drafts, Project(f)
            PROVE  Has(d)' => row'[d].status = "delivered"
        BY <1>d, <2>2, <3>2, WriteGives DEF Project, Ids, Has
      <3>3. ASSUME NEW f \in Events, EnrichFails(f) \/ (Enrich(f) /\ ~Has(f))
            PROVE  ~Has(d)'
        BY <2>2, <3>3 DEF EnrichFails, Enrich, Has
      <3>4. ASSUME NEW S \in SUBSET Ids, Prune(S) PROVE ~Has(d)'
        BY <1>d, <2>2, <3>4 DEF Prune, Has
      <3>5. CASE Claim
        BY <1>d, <2>2, <3>5, ClaimSets DEF Has
      <3>6. CASE Post \/ UNCHANGED vars
        BY <2>2, <3>6 DEF Post, PostAccepted, PostFails, PostDuplicate, vars, Has
      <3>7. ASSUME NEW f \in Ids, MarkDelivered(f) PROVE ~Has(d)'
        BY <1>d, <2>2, <3>7, MarkDeliveredSets DEF Mine, StatusIs, Has
      <3>8. ASSUME MarkFailed \/ Restart PROVE ~Has(d)'
        BY <1>d, <2>2, <3>8, MarkFailedSets, RestartSets DEF Mine, StatusIs, Has
      <3> QED
        BY <3>1, <3>2, <3>3, <3>4, <3>5, <3>6, <3>7, <3>8 DEF Next, Mark
    <2> QED
      BY <2>1, <2>2 DEF DraftsInv, StatusIs
  <1>2. d \notin gateway'
    <2>1. CASE Post
      BY <1>d, <2>1 DEF Post, PostAccepted, PostFails, PostDuplicate
    <2>2. CASE ~Post
      <3>1. gateway' = gateway
        BY <2>2
        DEF Next, vars, Mark, Capture, RepairIdentity, RememberNative, Enrich,
          EnrichFails, Project, Prune, Claim, MarkDelivered, MarkFailed, Restart
      <3> QED
        BY <1>d, <3>1
    <2> QED
      BY <2>1, <2>2
  <1>3. batch'[d] = 0
    <2>1. CASE Claim
      BY <1>d, <2>1, ClaimSets
    <2>2. CASE ~Claim
      <3>1. batch' = batch \/ batch' = [e \in Ids |-> 0]
        BY <2>2
        DEF Next, vars, Mark, worker, Drop, Capture, RepairIdentity,
          RememberNative, Enrich, EnrichFails, Project, Prune, Post,
          PostAccepted, PostFails, PostDuplicate, MarkDelivered, MarkFailed,
          Restart
      <3> QED
        BY <1>d, <3>1
    <2> QED
      BY <2>1, <2>2
  <1> QED
    BY <1>1, <1>2, <1>3

\* The center's drafts stay local: neither an enrichment nor a restart nor any
\* answer of the gateway makes the worker claim or post one.
THEOREM DraftsLocal == Spec => []DraftsStayLocal
  <1>1. Init => DraftsInv
    BY DEF Init, DraftsInv, Ids, Has
  <1>2. DraftsInv => DraftsStayLocal
    BY DEF DraftsInv, DraftsStayLocal, StatusIs
  <1> QED
    BY <1>1, <1>2, Typed, DraftsStep, PTL DEF Spec

-----------------------------------------------------------------------------
(* A gateway that never answers 400 to an event it has. *)

\* What the worker is about to mark delivered is what the gateway acknowledged.
StoredInv ==
    /\ pc = "marking" => acked \subseteq gateway
    /\ DeliveredIsStored

LEMMA StoredStep ==
    ASSUME ~RejectsDuplicates, TableTypes, StoredInv, [Next]_vars
    PROVE  StoredInv'
  <1>1. ASSUME NEW f \in Ids,
               \/ Capture(f) \/ RepairIdentity(f) \/ RememberNative(f)
               \/ (Enrich(f) /\ Has(f)) \/ (Project(f) /\ f \notin Events)
        PROVE  StoredInv'
    <2>1. UNCHANGED <<pc, acked, gateway>>
      BY <1>1
      DEF Capture, RepairIdentity, RememberNative, Enrich, Project, worker
    <2>2. \A e \in Ids \ {f} : row'[e] = row[e]
      BY <1>1, WritersWrite, WriteGives
    <2>3. shown \subseteq shown'
      BY <1>1 DEF Capture, RepairIdentity, RememberNative, Enrich, Project
    <2>4. f \in Events /\ StatusIs(f, "delivered")' => f \in gateway \cup shown'
      <3>1. CASE StatusIs(f, "delivered")
        BY <2>3, <3>1 DEF StoredInv, DeliveredIsStored
      <3>2. CASE ~StatusIs(f, "delivered")
        <4>1. CASE Capture(f)
          BY <4>1, WriteGives DEF Capture, StatusIs
        <4>2. CASE RepairIdentity(f)
          BY <3>2, <4>2 DEF RepairIdentity
        <4>3. CASE RememberNative(f) /\ ~Has(f)
          BY <4>3 DEF RememberNative
        <4>4. CASE (RememberNative(f) \/ Enrich(f)) /\ Has(f)
          <5>1. row[f].status \in {"pending", "sending"}
            BY <3>2, <4>4, RowsHaveStatus DEF StatusIs
          <5>2. Write(f, row[f].status)
            BY <4>4 DEF RememberNative, Enrich
          <5> QED
            BY <5>1, <5>2, WriteGives DEF StatusIs
        <4> QED
          BY <1>1, <4>1, <4>2, <4>3, <4>4
      <3> QED
        BY <3>1, <3>2
    <2> QED
      BY <2>1, <2>2, <2>3, <2>4
      DEF StoredInv, DeliveredIsStored, StatusIs, Has, Ids
  <1>2. ASSUME NEW f \in Ids, EnrichFails(f) \/ (Enrich(f) /\ ~Has(f))
        PROVE  StoredInv'
    BY <1>2
    DEF EnrichFails, Enrich, worker, StoredInv, DeliveredIsStored, StatusIs, Has
  <1>3. ASSUME NEW S \in SUBSET Ids, Prune(S) PROVE StoredInv'
    BY <1>3 DEF Prune, worker, StoredInv, DeliveredIsStored, StatusIs, Has, Ids
  <1>4. CASE Claim
    <2>1. pc' = "posting" /\ UNCHANGED <<gateway, shown>>
      BY <1>4 DEF Claim
    <2>2. \A e \in Ids : StatusIs(e, "delivered")' => StatusIs(e, "delivered")
      BY <1>4, ClaimSets DEF StatusIs, Has
    <2> QED
      BY <2>1, <2>2 DEF StoredInv, DeliveredIsStored, Ids
  <1>5. ASSUME Post \/ UNCHANGED vars PROVE StoredInv'
    BY <1>5
    DEF Post, PostAccepted, PostFails, PostDuplicate, vars, StoredInv,
      DeliveredIsStored, StatusIs, Has
  <1>6. ASSUME NEW f \in Ids, MarkDelivered(f) PROVE StoredInv'
    <2>1. /\ UNCHANGED <<gateway, shown>>
          /\ f \in gateway
          /\ pc' = "marking" => acked' \subseteq gateway
      BY <1>6 DEF MarkDelivered, Drop, StoredInv
    <2>2. \A e \in Ids \ {f} : row'[e] = row[e]
      BY <1>6, MarkDeliveredSets
    <2> QED
      BY <2>1, <2>2 DEF StoredInv, DeliveredIsStored, StatusIs, Has, Ids
  <1>7. ASSUME MarkFailed \/ Restart PROVE StoredInv'
    <2>1. pc' = "idle" /\ UNCHANGED <<gateway, shown>>
      BY <1>7 DEF MarkFailed, Restart, Drop
    <2>2. \A e \in Ids : StatusIs(e, "delivered")' => StatusIs(e, "delivered")
      BY <1>7, MarkFailedSets, RestartSets DEF StatusIs, Has
    <2> QED
      BY <2>1, <2>2 DEF StoredInv, DeliveredIsStored, Ids
  <1> QED
    BY <1>1, <1>2, <1>3, <1>4, <1>5, <1>6, <1>7, DraftsAssumption
    DEF Next, Mark, Ids

\* If the gateway never refuses an event as a duplicate, every message that
\* counts as delivered is with the gateway or came from the history: a partial
\* or lost answer, an enrichment or a restart loses none.
THEOREM DeliveredStored == ~RejectsDuplicates => (Spec => []DeliveredIsStored)
  <1> SUFFICES ASSUME ~RejectsDuplicates PROVE Spec => []DeliveredIsStored
    OBVIOUS
  <1>1. Init => StoredInv
    BY DEF Init, StoredInv, DeliveredIsStored, StatusIs, Has, Ids
  <1>2. TableTypes /\ StoredInv /\ [Next]_vars => StoredInv'
    BY StoredStep
  <1>3. StoredInv => DeliveredIsStored
    BY DEF StoredInv
  <1> QED
    BY <1>1, <1>2, <1>3, Typed, PTL DEF Spec

-----------------------------------------------------------------------------
(* No enricher, and a gateway that takes a chunk as a whole or not at all. *)

\* A row that is being sent still has its part of the worker's round before it.
HeldInv ==
    /\ context = {}
    /\ \A e \in Ids : StatusIs(e, "sending") =>
          /\ row[e].rev = batch[e]
          /\ \/ pc = "failed"
             \/ pc = "posting" /\ e \in left
             \/ pc = "marking" /\ e \in left \cup acked

LEMMA HeldStep ==
    ASSUME ~Enriching, ~PartialAnswers, TableTypes, HeldInv, [Next]_vars
    PROVE  HeldInv'
  <1>1. ASSUME NEW f \in Ids,
               Capture(f) \/ RepairIdentity(f) \/ RememberNative(f) \/ Project(f)
        PROVE  HeldInv'
    <2>1. UNCHANGED <<pc, batch, left, acked>> /\ context' = {}
      BY <1>1
      DEF Capture, RepairIdentity, RememberNative, Project, worker, HeldInv
    <2>2. \A e \in Ids \ {f} : row'[e] = row[e]
      BY <1>1, WritersWrite, WriteGives
    <2>3. \E s \in {"pending", "delivered"} : Write(f, s)
      BY <1>1, RowsHaveStatus
      DEF Capture, RepairIdentity, RememberNative, Project, StatusIs
    <2>4. ~StatusIs(f, "sending")'
      BY <2>3, WriteGives DEF StatusIs
    <2> QED
      BY <2>1, <2>2, <2>4 DEF HeldInv, StatusIs, Has
  <1>2. ASSUME NEW f \in Ids, EnrichFails(f) \/ Enrich(f) PROVE HeldInv'
    BY <1>2 DEF EnrichFails, Enrich, HeldInv
  <1>3. ASSUME NEW S \in SUBSET Ids, Prune(S) PROVE HeldInv'
    BY <1>3 DEF Prune, worker, HeldInv, StatusIs, Has
  <1>4. CASE Claim
    <2>1. /\ pc = "idle" /\ pc' = "posting" /\ context' = context
          /\ \A e \in Ids : ~StatusIs(e, "sending")
      BY <1>4 DEF Claim, HeldInv
    <2> QED
      BY <1>4, <2>1, ClaimSets DEF HeldInv, StatusIs, Has
  <1>5. ASSUME NEW chunk \in SUBSET left, NEW S \in SUBSET chunk,
               PostAccepted(chunk, S) \/ PostFails(chunk, S) \/ PostDuplicate(chunk)
        PROVE  HeldInv'
    <2>1. /\ UNCHANGED <<row, batch, context>> /\ pc = "posting"
          /\ left \subseteq Claimed
          /\ \/ pc' = "failed"
             \/ pc' = "marking" /\ left \subseteq left' \cup acked'
      BY <1>5 DEF PostAccepted, PostFails, PostDuplicate, TableTypes
    <2> QED
      BY <2>1 DEF HeldInv, StatusIs, Has
  <1>6. ASSUME NEW f \in Ids, MarkDelivered(f) PROVE HeldInv'
    <2>1. /\ pc = "marking" /\ f \in acked /\ context' = context
          /\ \A e \in Ids \ {f} : row'[e] = row[e]
      BY <1>6, MarkDeliveredSets DEF MarkDelivered
    <2>2. ~StatusIs(f, "sending")'
      BY <1>6, MarkDeliveredSets DEF HeldInv, Mine, StatusIs, Has
    <2>3. CASE acked = {f} /\ left = {}
      BY <2>1, <2>2, <2>3 DEF HeldInv, StatusIs, Has
    <2>4. CASE ~(acked = {f} /\ left = {})
      <3>1. /\ acked' = acked \ {f} /\ UNCHANGED <<batch, left>>
            /\ pc' = IF acked = {f} THEN "posting" ELSE "marking"
        BY <1>6, <2>4 DEF MarkDelivered
      <3> QED
        BY <2>1, <2>2, <3>1 DEF HeldInv, StatusIs, Has
    <2> QED
      BY <2>3, <2>4
  <1>7. CASE MarkFailed
    <2>1. context' = context
      BY <1>7 DEF MarkFailed
    <2>2. \A e \in Ids : StatusIs(e, "sending") => e \in Claimed /\ Mine(e)
      BY DEF HeldInv, TableTypes, StatusIs, Mine, Claimed
    <2>3. \A e \in Ids : ~StatusIs(e, "sending")'
      BY <1>7, <2>2, MarkFailedSets DEF StatusIs, Has
    <2> QED
      BY <2>1, <2>3 DEF HeldInv
  <1>8. CASE Restart
    BY <1>8, RestartSets DEF Restart, HeldInv
  <1>9. CASE UNCHANGED vars
    BY <1>9 DEF vars, HeldInv, StatusIs, Has
  <1> QED
    BY <1>1, <1>2, <1>3, <1>4, <1>5, <1>6, <1>7, <1>8, <1>9
    DEF Next, Post, Mark, Ids

\* Without the enricher, and with a gateway that answers for whole chunks (the
\* bundled one does), no row is left "sending" behind the worker's back: it
\* will be marked or requeued without a restart.
THEOREM SendingHeld ==
    ~Enriching /\ ~PartialAnswers => (Spec => []SendingIsHeld)
  <1> SUFFICES ASSUME ~Enriching, ~PartialAnswers PROVE Spec => []SendingIsHeld
    OBVIOUS
  <1>1. Init => HeldInv
    BY DEF Init, HeldInv, StatusIs, Has
  <1>2. TableTypes /\ HeldInv /\ [Next]_vars => HeldInv'
    BY HeldStep
  <1>3. HeldInv => SendingIsHeld
    BY DEF HeldInv, SendingIsHeld, Mine
  <1> QED
    BY <1>1, <1>2, <1>3, Typed, PTL DEF Spec

-----------------------------------------------------------------------------
(* The types that those proofs do without.                                   *)

RestTypes ==
    /\ acked \subseteq Claimed
    /\ context \in SUBSET Ids /\ gateway \in SUBSET Ids /\ shown \in SUBSET Ids
    /\ restarts \in Nat /\ prunes \in Nat

\* The writers leave the worker alone.
LEMMA WritersKeepRest ==
    ASSUME RestTypes, NEW e \in Ids,
           \/ Capture(e) \/ RepairIdentity(e) \/ RememberNative(e)
           \/ Enrich(e) \/ EnrichFails(e) \/ Project(e)
    PROVE  RestTypes'
  <1>1. /\ context' \in SUBSET Ids /\ shown' \in SUBSET Ids
        /\ UNCHANGED <<batch, acked, gateway, restarts, prunes>>
    BY DEF RestTypes, Capture, RepairIdentity, RememberNative, Enrich, EnrichFails,
      Project, worker, counts
  <1> QED
    BY <1>1 DEF RestTypes, Claimed

LEMMA PruneKeepsRest ==
    ASSUME RestTypes, NEW S \in SUBSET Ids, Prune(S) PROVE RestTypes'
  <1>1. prunes' = prunes + 1 /\ UNCHANGED <<batch, acked, context, gateway, shown, restarts>>
    BY DEF Prune, worker
  <1> QED
    BY <1>1 DEF RestTypes, Claimed

\* What is posted and acknowledged is of the claim.
LEMMA PostKeepsRest == ASSUME TableTypes, RestTypes, Post PROVE RestTypes'
  <1>1. /\ acked' \subseteq Claimed /\ gateway' \subseteq gateway \cup left
        /\ UNCHANGED <<batch, context, shown, restarts, prunes>>
    <2>1. ASSUME NEW chunk \in SUBSET left, NEW S \in SUBSET chunk,
                 PostAccepted(chunk, S) \/ PostFails(chunk, S)
          PROVE  /\ acked' \subseteq Claimed /\ gateway' \subseteq gateway \cup left
                 /\ UNCHANGED <<batch, context, shown, restarts, prunes>>
      BY <2>1 DEF RestTypes, TableTypes, PostAccepted, PostFails, counts
    <2>2. ASSUME NEW chunk \in SUBSET left, PostDuplicate(chunk)
          PROVE  /\ acked' \subseteq Claimed /\ gateway' \subseteq gateway \cup left
                 /\ UNCHANGED <<batch, context, shown, restarts, prunes>>
      BY <2>2 DEF PostDuplicate, counts
    <2> QED
      BY <2>1, <2>2 DEF Post
  <1>2. left \subseteq Ids
    BY DEF TableTypes, Claimed
  <1> QED
    BY <1>1, <1>2 DEF RestTypes, Claimed

LEMMA WorkerKeepsRest ==
    ASSUME RestTypes, Claim \/ Mark \/ Restart PROVE RestTypes'
  <1>1. CASE Claim
    BY <1>1 DEF Claim, counts, RestTypes
  <1>2. CASE Mark
    <2>1. /\ acked' = {} \/ (acked' \subseteq acked /\ batch' = batch)
          /\ UNCHANGED <<context, gateway, shown, restarts, prunes>>
      BY <1>2 DEF Mark, MarkDelivered, MarkFailed, Drop, counts
    <2> QED
      BY <2>1 DEF RestTypes, Claimed
  <1>3. CASE Restart
    <2>1. /\ acked' = {} /\ context' = {} /\ restarts' = restarts + 1
          /\ UNCHANGED <<gateway, shown, prunes>>
      BY <1>3 DEF Restart, Drop
    <2> QED
      BY <2>1 DEF RestTypes
  <1> QED
    BY <1>1, <1>2, <1>3

\* What the worker is about to mark is of its claim, and the table, the enricher
\* and the gateway keep their types.
THEOREM TypeCorrect == Spec => []TypeOK
  <1>1. Init => RestTypes
    BY DEF Init, RestTypes
  <1>2. TableTypes /\ RestTypes /\ [Next]_vars => RestTypes'
    <2> SUFFICES ASSUME TableTypes, RestTypes, [Next]_vars PROVE RestTypes'
      OBVIOUS
    <2>1. CASE UNCHANGED vars
      BY <2>1 DEF vars, RestTypes, Claimed
    <2>2. CASE Next
      BY <2>2, WritersKeepRest, PruneKeepsRest, PostKeepsRest, WorkerKeepsRest
        DEF Next, Ids
    <2> QED
      BY <2>1, <2>2
  <1>3. TableTypes /\ RestTypes => TypeOK
    BY DEF TableTypes, RestTypes, TypeOK
  <1> QED
    BY <1>1, <1>2, <1>3, Typed, PTL DEF Spec

=============================================================================
