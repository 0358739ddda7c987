---------------------------- MODULE InboundProofs ----------------------------
(* Proofs about the parts that MCInbound puts beside each other, for any      *)
(* messages, buyers, goods and bounds: the look-up of orders, the client's    *)
(* log, the nicknames found there and the goods of a shop.  Each part's       *)
(* invariant is kept while it is at work, and no other part touches its state.*)
EXTENDS MCInbound, FiniteSetTheorems, SequenceTheorems, TLAPS

\* A step is one of the part at work, and all else stays.
LEMMA StepOfPart ==
    ASSUME [PartsNext]_all
    PROVE  /\ part' = part
           /\ IF part = "orders" THEN [Orders!Next]_orders ELSE UNCHANGED orders
           /\ IF part = "log" THEN [Log!Next]_log ELSE UNCHANGED log
           /\ IF part = "nicknames" THEN [Nicks!Next]_nicknames ELSE UNCHANGED nicknames
           /\ IF part = "catalog" THEN [Catalog!Next]_catalog ELSE UNCHANGED catalog
  <1>1. CASE UNCHANGED all
    BY <1>1 DEF all
  <1>2. CASE PartsNext
    BY <1>2 DEF PartsNext, Rest
  <1> QED
    BY <1>1, <1>2

LEMMA OrderBounds == MaxWaiting \in Nat /\ Retries \in Nat
  BY OrdersAssumption

-----------------------------------------------------------------------------
(* OrderLookup: what is said of the orders of a buyer.                        *)

OrderTypes ==
    /\ oBuys \in SUBSET Orders!Shops
    /\ oTold \in SUBSET [about : Orders!Shops, page : Orders!Shops,
                         said : {"orders", "empty"}]
    /\ oOrderCache \in SUBSET Orders!Shops
    /\ oLogged \in {"unknown", "known", "orders"}
    /\ oHand \in Orders!Asked \cup {None} /\ oCur \in Orders!Asked \cup {None}
    /\ oPending \in Seq(Orders!Asked) /\ Len(oPending) <= MaxWaiting
    /\ oQueued \in SUBSET Orders!Asked
    /\ oReplies \in Seq(Orders!Replies) /\ Len(oReplies) <= Retries + 1
    /\ oSnapshot \in Orders!Statuses \cup {""}
    /\ oResult \in [Orders!Asked -> Orders!Statuses \cup {""}]

LEMMA OrderTypesAre == Orders!TypeOK <=> OrderTypes
  BY DEF Orders!TypeOK, OrderTypes

\* The answers that were told, and what they count for.
Answered == {<<t.about, t.said>> : t \in oTold}

Absent ==
    \A e \in Guarded :
        oResult[e] = "confirmed_empty" =>
            <<"guarded", "empty">> \in Answered \/ oLogged # "unknown"

Found ==
    oLogged = "unknown" =>
        \A e \in Orders!Asked :
            oResult[e] = "found" => <<Orders!Shop(e), "orders">> \in Answered

LEMMA AnsweredIs == ASSUME NEW s, NEW r PROVE Orders!Told(s, r) <=> <<s, r>> \in Answered
  BY DEF Orders!Told, Answered

LEMMA OrdersTold == Absent /\ Found <=> Orders!AbsenceWasTold /\ Orders!FoundWereTold
  BY AnsweredIs DEF Absent, Found, Orders!AbsenceWasTold, Orders!FoundWereTold

\* What a shop was asked and said is noted, and only that is remembered: an
\* answer, a cached one or a shared result.
OrdersInv ==
    /\ OrderTypes
    /\ \A s \in oOrderCache : <<s, "orders">> \in Answered
    /\ oCur = None => oReplies = <<>>
    /\ oReplies # <<>> =>
         /\ Orders!Last(oReplies) = "orders" => <<Orders!Shop(oCur), "orders">> \in Answered
         /\ Orders!Last(oReplies) = "empty" => <<Orders!Shop(oCur), "empty">> \in Answered
    /\ oSnapshot = "confirmed_empty" =>
          <<"guarded", "empty">> \in Answered \/ oLogged # "unknown"
    /\ oLogged = "unknown" /\ oSnapshot = "found" => <<"guarded", "orders">> \in Answered
    /\ Absent
    /\ Found

LEMMA OrdersBegin == Orders!Init => OrdersInv
  <1> SUFFICES ASSUME Orders!Init PROVE OrdersInv
    OBVIOUS
  <1>1. /\ oPending \in Seq(Orders!Asked) /\ Len(oPending) <= MaxWaiting
        /\ oReplies \in Seq(Orders!Replies) /\ Len(oReplies) <= Retries + 1
    <2>1. <<>> \in Seq(Orders!Asked) /\ <<>> \in Seq(Orders!Replies) /\ Len(<<>>) = 0
      BY EmptySeq
    <2>2. oPending = <<>> /\ oReplies = <<>>
      BY DEF Orders!Init
    <2>3. 0 <= MaxWaiting /\ 0 <= Retries + 1
      BY OrderBounds
    <2> QED
      BY <2>1, <2>2, <2>3, Zenon
  <1>2. OrderTypes
    BY <1>1 DEF Orders!Init, OrderTypes, Orders!Statuses
  <1>3. \A e \in Guarded \cup Ordinary : oResult[e] = ""
    BY DEF Orders!Init, Orders!Asked
  <1>4. Absent /\ Found
    BY <1>3 DEF Absent, Found, Orders!Asked
  <1> QED
    BY <1>2, <1>4 DEF Orders!Init, OrdersInv

LEMMA ShopIs == ASSUME NEW e PROVE Orders!Shop(e) \in Orders!Shops
  BY DEF Orders!Shop, Orders!Shops

\* The shop, the client's log, and the queue of messages.
LEMMA WorldKeeps ==
    ASSUME OrdersInv, \/ \E s \in Orders!Shops : Orders!Buys(s)
                      \/ Orders!Logs \/ Orders!Expires
    PROVE  OrdersInv'
  <1>1. OrderTypes
    BY DEF OrdersInv
  <1>2. CASE \E s \in Orders!Shops : Orders!Buys(s)
    <2>1. /\ oBuys \subseteq oBuys' /\ oBuys' \in SUBSET Orders!Shops
          /\ UNCHANGED <<oLogged, oHand, oPending, oQueued, oCur, oReplies, oOrderCache,
                         oSnapshot, oResult, oTold, Answered>>
      BY <1>1, <1>2 DEF Orders!Buys, Orders!queue, Orders!lookup, OrderTypes, Answered
    <2>2. OrderTypes'
      BY <1>1, <2>1 DEF OrderTypes
    <2> QED
      BY <2>1, <2>2 DEF OrdersInv, Absent, Found
  <1>3. CASE Orders!Logs
    <2>1. /\ oLogged' \in {"known", "orders"}
          /\ UNCHANGED <<oBuys, oHand, oPending, oQueued, oCur, oReplies, oOrderCache,
                         oSnapshot, oResult, oTold, Answered>>
      BY <1>3 DEF Orders!Logs, Orders!queue, Orders!lookup, Answered
    <2>2. OrderTypes'
      BY <1>1, <2>1 DEF OrderTypes
    <2> QED
      BY <2>1, <2>2 DEF OrdersInv, Absent, Found
  <1>4. CASE Orders!Expires
    <2>1. /\ oOrderCache' \subseteq oOrderCache /\ oSnapshot' \in {oSnapshot, ""}
          /\ UNCHANGED <<oBuys, oLogged, oHand, oPending, oQueued, oCur, oReplies,
                         oResult, oTold, Answered>>
      BY <1>4 DEF Orders!Expires, Orders!world, Orders!queue, Answered
    <2>2. OrderTypes'
      BY <1>1, <2>1 DEF OrderTypes
    <2> QED
      BY <2>1, <2>2 DEF OrdersInv, Absent, Found
  <1> QED
    BY <1>2, <1>3, <1>4

LEMMA EnqueueKeeps ==
    ASSUME OrdersInv, NEW e \in Orders!Asked, Orders!Enqueue(e) PROVE OrdersInv'
  <1>1. OrderTypes
    BY DEF OrdersInv
  <1>2. /\ \/ oResult' = [oResult EXCEPT ![e] = "error_unknown"]
           \/ oResult' = oResult
        /\ oHand' \in Orders!Asked \cup {None} /\ oQueued' \in SUBSET Orders!Asked
        /\ UNCHANGED <<oBuys, oLogged, oPending, oCur, oReplies, oOrderCache, oSnapshot,
                       oTold, Answered>>
    BY <1>1 DEF Orders!Enqueue, Orders!world, Orders!lookup, OrderTypes, Answered
  <1>3. oResult' \in [Orders!Asked -> Orders!Statuses \cup {""}]
    BY <1>1, <1>2 DEF OrderTypes, Orders!Statuses
  <1>4. \A x \in Orders!Asked :
           oResult'[x] \in {"found", "confirmed_empty"} => oResult'[x] = oResult[x]
    BY <1>1, <1>2 DEF OrderTypes
  <1>5. Absent' /\ Found'
    BY <1>2, <1>4 DEF OrdersInv, Absent, Found,
      Orders!Asked
  <1>6. OrderTypes'
    BY <1>1, <1>2, <1>3 DEF OrderTypes
  <1> QED
    BY <1>2, <1>5, <1>6 DEF OrdersInv

LEMMA PutKeeps == ASSUME OrdersInv, Orders!Put PROVE OrdersInv'
  <1>1. OrderTypes
    BY DEF OrdersInv
  <1>2. /\ oHand \in Orders!Asked /\ Len(oPending) < MaxWaiting
        /\ oPending' = Append(oPending, oHand) /\ oHand' = None
        /\ UNCHANGED <<oBuys, oLogged, oQueued, oCur, oReplies, oOrderCache, oSnapshot,
                       oResult, oTold, Answered>>
    BY <1>1 DEF Orders!Put, Orders!world, Orders!lookup, OrderTypes, Answered
  <1>3. oPending' \in Seq(Orders!Asked) /\ Len(oPending') <= MaxWaiting
    <2>1. /\ oPending \in Seq(Orders!Asked) /\ Len(oPending) \in Nat
          /\ Append(oPending, oHand) \in Seq(Orders!Asked)
          /\ Len(Append(oPending, oHand)) = Len(oPending) + 1
      BY <1>1, <1>2, AppendProperties, LenProperties DEF OrderTypes
    <2> QED
      BY <1>2, <2>1, OrderBounds
  <1>4. OrderTypes'
    BY <1>1, <1>2, <1>3 DEF OrderTypes
  <1> QED
    BY <1>2, <1>4 DEF OrdersInv, Absent, Found

LEMMA GetKeeps == ASSUME OrdersInv, Orders!Get PROVE OrdersInv'
  <1> DEFINE e == Head(oPending)
  <1>1. OrderTypes
    BY DEF OrdersInv
  <1>2. /\ oCur = None /\ oReplies = <<>> /\ oPending # <<>>
        /\ oPending' = Tail(oPending)
        /\ UNCHANGED <<oBuys, oLogged, oHand, oReplies, oOrderCache, oSnapshot, oTold,
                       Answered>>
    BY DEF Orders!Get, Orders!world, OrdersInv, Answered
  <1>3. /\ e \in Orders!Asked /\ oPending' \in Seq(Orders!Asked)
        /\ Len(oPending') <= MaxWaiting
    <2>1. /\ Head(oPending) \in Orders!Asked /\ Tail(oPending) \in Seq(Orders!Asked)
          /\ Len(Tail(oPending)) = Len(oPending) - 1 /\ Len(oPending) \in Nat
      BY <1>1, <1>2, HeadTailProperties, LenProperties DEF OrderTypes
    <2>2. Len(oPending) <= MaxWaiting
      BY <1>1 DEF OrderTypes
    <2>3. Len(Tail(oPending)) <= MaxWaiting
      BY <2>1, <2>2, OrderBounds
    <2> QED
      BY <1>2, <2>1, <2>3
  <1>4. \/ /\ e \in Guarded /\ oSnapshot # "" /\ oCur' = oCur
           /\ oResult' = [oResult EXCEPT ![e] = oSnapshot] /\ oQueued' = oQueued \ {e}
        \/ oCur' = e /\ UNCHANGED <<oQueued, oResult>>
    BY DEF Orders!Get, Orders!Finish
  <1> HIDE DEF e
  <1>5. oResult' \in [Orders!Asked -> Orders!Statuses \cup {""}]
    BY <1>1, <1>3, <1>4 DEF OrderTypes
  <1>6. OrderTypes'
    BY <1>1, <1>2, <1>3, <1>4, <1>5 DEF OrderTypes
  <1>7. Absent' /\ Found'
    <2>1. CASE UNCHANGED oResult
      BY <1>2, <2>1 DEF OrdersInv, Absent, Found
    <2>2. CASE e \in Guarded /\ oResult' = [oResult EXCEPT ![e] = oSnapshot]
      <3>1. \A x \in Orders!Asked : oResult'[x] = IF x = e THEN oSnapshot ELSE oResult[x]
        BY <1>1, <2>2 DEF OrderTypes
      <3>2. Orders!Shop(e) = "guarded"
        BY <2>2 DEF Orders!Shop
      <3>3. Absent'
        BY <1>2, <3>1 DEF OrdersInv, Absent, Orders!Asked
      <3>4. Found'
        BY <1>2, <3>1, <3>2 DEF OrdersInv, Found
      <3> QED
        BY <3>3, <3>4
    <2> QED
      BY <1>4, <2>1, <2>2
  <1>8. oCur' = None => oReplies' = <<>>
    BY <1>2
  <1> QED
    BY <1>2, <1>6, <1>7, <1>8 DEF OrdersInv

LEMMA AttemptKeeps ==
    ASSUME OrdersInv, NEW s \in Orders!Shops, NEW r \in Orders!Replies,
           Orders!Attempt(s, r)
    PROVE  OrdersInv'
  <1> DEFINE said == [about |-> Orders!Shop(oCur), page |-> s, said |-> r]
  <1>1. OrderTypes
    BY DEF OrdersInv
  <1>2. /\ oCur # None /\ ~Orders!Ended /\ oReplies' = Append(oReplies, r)
        /\ oTold' = IF r \in {"orders", "empty"} THEN oTold \cup {said} ELSE oTold
        /\ UNCHANGED <<oBuys, oLogged, oHand, oPending, oQueued, oCur, oOrderCache,
                       oSnapshot, oResult>>
    BY DEF Orders!Attempt, Orders!world, Orders!queue
  <1>3. /\ Append(oReplies, r) \in Seq(Orders!Replies) /\ Append(oReplies, r) # <<>>
        /\ Len(Append(oReplies, r)) = Len(oReplies) + 1
        /\ Append(oReplies, r)[Len(oReplies) + 1] = r
        /\ Len(oReplies) \in Nat /\ Len(oReplies) <= Retries + 1
    <2>1. oReplies \in Seq(Orders!Replies) /\ Len(oReplies) <= Retries + 1
      BY <1>1 DEF OrderTypes
    <2> QED
      BY <2>1, AppendProperties, LenProperties
  <1>4. Len(oReplies) <= Retries
    <2>1. CASE oReplies = <<>>
      BY <2>1, EmptySeq, OrderBounds
    <2>2. CASE Len(oReplies) # Retries + 1
      <3>1. Len(oReplies) \in Nat /\ Len(oReplies) <= Retries + 1
        BY <1>3
      <3> QED
        BY <2>2, <3>1, OrderBounds
    <2> QED
      BY <1>2, <2>1, <2>2 DEF Orders!Ended
  <1>5. Len(oReplies') <= Retries + 1 /\ Orders!Last(oReplies') = r
    BY <1>2, <1>3, <1>4, OrderBounds DEF Orders!Last
  <1>6. /\ oTold \subseteq oTold'
        /\ oTold' \in SUBSET [about : Orders!Shops, page : Orders!Shops,
                              said : {"orders", "empty"}]
    <2>1. r \in {"orders", "empty"} =>
             said \in [about : Orders!Shops, page : Orders!Shops,
                      said : {"orders", "empty"}]
      BY ShopIs
    <2> HIDE DEF said
    <2> QED
      BY <1>1, <1>2, <2>1 DEF OrderTypes
  <1>7. /\ Answered \subseteq Answered'
        /\ r \in {"orders", "empty"} => <<Orders!Shop(oCur), r>> \in Answered'
    <2>1. Answered \subseteq Answered'
      BY <1>6 DEF Answered
    <2>2. r \in {"orders", "empty"} => said \in oTold'
      BY <1>2
    <2>3. said.about = Orders!Shop(oCur) /\ said.said = r
      OBVIOUS
    <2> HIDE DEF said
    <2> QED
      BY <2>1, <2>2, <2>3 DEF Answered
  <1> HIDE DEF said
  <1>8. OrderTypes'
    BY <1>1, <1>2, <1>3, <1>5, <1>6 DEF OrderTypes
  <1>9. oReplies' # <<>> =>
          /\ Orders!Last(oReplies') = "orders" => <<Orders!Shop(oCur'), "orders">> \in Answered'
          /\ Orders!Last(oReplies') = "empty" => <<Orders!Shop(oCur'), "empty">> \in Answered'
    BY <1>2, <1>5, <1>7
  <1>10. /\ \A x \in oOrderCache' : <<x, "orders">> \in Answered'
         /\ oSnapshot' = "confirmed_empty" =>
               <<"guarded", "empty">> \in Answered' \/ oLogged' # "unknown"
         /\ oLogged' = "unknown" /\ oSnapshot' = "found" =>
               <<"guarded", "orders">> \in Answered'
    BY <1>2, <1>7 DEF OrdersInv
  <1>11. Absent' /\ Found'
    BY <1>2, <1>7 DEF OrdersInv, Absent, Found
  <1>12. oCur' = None => oReplies' = <<>>
    BY <1>2
  <1> QED
    BY <1>8, <1>9, <1>10, <1>11, <1>12 DEF OrdersInv

\* What is concluded from the answers was told, or logged.
LEMMA Concluded ==
    ASSUME OrdersInv, oCur # None, oReplies # <<>>
    PROVE  /\ Orders!Conclusion \in Orders!Statuses
           /\ Orders!Conclusion = "found" /\ oLogged = "unknown" =>
                 <<Orders!Shop(oCur), "orders">> \in Answered
           /\ Orders!Conclusion = "confirmed_empty" /\ oCur \in Guarded =>
                 <<"guarded", "empty">> \in Answered \/ oLogged # "unknown"
           /\ Orders!Last(oReplies) = "orders" => <<Orders!Shop(oCur), "orders">> \in Answered
  <1> DEFINE last == Orders!Last(oReplies)
             cached == Orders!Cached(Orders!Shop(oCur))
             fromPage == CASE last = "orders" -> "found"
                       [] ~Orders!OrdersOk(oCur, last) -> "error_unknown"
                       [] cached -> "found"
                       [] OTHER -> "confirmed_empty"
  <1>1. /\ last = "orders" => <<Orders!Shop(oCur), "orders">> \in Answered
        /\ last = "empty" => <<Orders!Shop(oCur), "empty">> \in Answered
        /\ cached => <<Orders!Shop(oCur), "orders">> \in Answered
        /\ oCur \in Guarded => Orders!Shop(oCur) = "guarded"
    BY DEF OrdersInv, Orders!Cached, Orders!Shop
  <1>2. oCur \in Guarded /\ Orders!OrdersOk(oCur, last) => last \in {"orders", "empty"}
    BY DEF Orders!OrdersOk
  <1>3. Orders!Conclusion = CASE fromPage = "found" \/ oLogged = "unknown" -> fromPage
                              [] oLogged = "orders" -> "found"
                              [] OTHER -> "confirmed_empty"
    BY DEF Orders!Conclusion
  <1> HIDE DEF last, cached
  <1>4. /\ fromPage \in {"found", "error_unknown", "confirmed_empty"}
        /\ fromPage = "found" => last = "orders" \/ cached
        /\ fromPage = "confirmed_empty" =>
              Orders!OrdersOk(oCur, last) /\ last # "orders"
    OBVIOUS
  <1> HIDE DEF fromPage
  <1>5. /\ Orders!Conclusion \in {"found", "error_unknown", "confirmed_empty"}
        /\ oLogged = "unknown" => Orders!Conclusion = fromPage
    BY <1>3, <1>4
  <1>6. last = "orders" => <<Orders!Shop(oCur), "orders">> \in Answered
    BY <1>1
  <1> QED
    BY <1>1, <1>2, <1>4, <1>5, <1>6 DEF Orders!Statuses, last

LEMMA ConcludeKeeps == ASSUME OrdersInv, Orders!Conclude PROVE OrdersInv'
  <1> DEFINE c == Orders!Conclusion
  <1>1. OrderTypes
    BY DEF OrdersInv
  <1>2. /\ oCur # None /\ oReplies # <<>>
        /\ oResult' = [oResult EXCEPT ![oCur] = c] /\ oQueued' = oQueued \ {oCur}
        /\ oOrderCache' = IF Orders!Last(oReplies) = "orders"
                          THEN oOrderCache \cup {Orders!Shop(oCur)} ELSE oOrderCache
        /\ oSnapshot' = IF oCur \in Guarded THEN c ELSE oSnapshot
        /\ oCur' = None /\ oReplies' = <<>>
        /\ UNCHANGED <<oBuys, oLogged, oHand, oPending, oTold, Answered>>
    BY DEF Orders!Conclude, Orders!Ended, Orders!Finish, Orders!world, Answered
  <1>3. /\ c \in Orders!Statuses
        /\ c = "found" /\ oLogged = "unknown" => <<Orders!Shop(oCur), "orders">> \in Answered
        /\ c = "confirmed_empty" /\ oCur \in Guarded =>
              <<"guarded", "empty">> \in Answered \/ oLogged # "unknown"
        /\ Orders!Last(oReplies) = "orders" => <<Orders!Shop(oCur), "orders">> \in Answered
    BY <1>2, Concluded
  <1> HIDE DEF c
  <1>4. oCur \in Orders!Asked /\ (oCur \in Guarded => Orders!Shop(oCur) = "guarded")
    BY <1>1, <1>2 DEF OrderTypes, Orders!Shop
  <1>5. /\ oReplies' \in Seq(Orders!Replies) /\ Len(oReplies') <= Retries + 1
    <2>1. <<>> \in Seq(Orders!Replies) /\ Len(<<>>) = 0 /\ 0 <= Retries + 1
      BY EmptySeq, OrderBounds
    <2> QED
      BY <1>2, <2>1, Zenon
  <1>6. /\ \A s \in oOrderCache' : <<s, "orders">> \in Answered
        /\ oOrderCache' \in SUBSET Orders!Shops
    BY <1>1, <1>2, <1>3, ShopIs DEF OrdersInv, OrderTypes
  <1>7. /\ oResult' \in [Orders!Asked -> Orders!Statuses \cup {""}]
        /\ \A x \in Orders!Asked : oResult'[x] = IF x = oCur THEN c ELSE oResult[x]
    BY <1>1, <1>2, <1>3, <1>4 DEF OrderTypes
  <1>8. Absent'
    BY <1>2, <1>3, <1>7 DEF OrdersInv, Absent, Orders!Asked
  <1>9. Found'
    BY <1>2, <1>3, <1>7 DEF OrdersInv, Found
  <1>10. OrderTypes'
    BY <1>1, <1>2, <1>3, <1>5, <1>6, <1>7 DEF OrderTypes
  <1>11. /\ oSnapshot' = "confirmed_empty" =>
               <<"guarded", "empty">> \in Answered \/ oLogged' # "unknown"
         /\ oLogged' = "unknown" /\ oSnapshot' = "found" => <<"guarded", "orders">> \in Answered
    BY <1>2, <1>3, <1>4 DEF OrdersInv
  <1> QED
    BY <1>2, <1>6, <1>8, <1>9, <1>10, <1>11 DEF OrdersInv

LEMMA OrdersKeep == ASSUME OrdersInv, [Orders!Next]_orders PROVE OrdersInv'
  <1>1. CASE UNCHANGED orders
    BY <1>1 DEF orders, OrdersInv, OrderTypes, Answered, Absent, Found
  <1>2. CASE Orders!Next
    BY <1>2, WorldKeeps, EnqueueKeeps, PutKeeps, GetKeeps, AttemptKeeps, ConcludeKeeps
      DEF Orders!Next
  <1> QED
    BY <1>1, <1>2

-----------------------------------------------------------------------------
(* LogTail: lines of two bytes, some of them cut within a character.          *)

LogTypes ==
    /\ lSize \in 0 .. MaxSize
    /\ lCuts \in SUBSET Log!Lines /\ Cardinality(lCuts) <= MaxCuts
    /\ lAttached \in BOOLEAN /\ lBackfilled \in BOOLEAN /\ lFirstDone \in BOOLEAN
    /\ lOffset \in 0 .. MaxSize + MaxCuts + 1 /\ lLastSize \in 0 .. MaxSize
    /\ lRead \in SUBSET Log!Lines /\ lStart \in 0 .. MaxSize
    /\ lTurned \in BOOLEAN /\ lStrayed \in BOOLEAN /\ lMissed \in SUBSET Log!Lines
    /\ lRotations \in 0 .. MaxRotations /\ lFailures \in 0 .. MaxLost

\* Unless the offset has strayed, or a rotation has yet to be noticed, the reader
\* stands at the end of a line, or before the first break of what it begins
\* within a line.
StandsAtLine ==
    lAttached /\ ~lStrayed /\ ~lTurned =>
        \/ lOffset % 2 = 0
        \/ lBackfilled /\ ~lFirstDone /\ lOffset + Backfill <= lSize

LogInv == LogTypes /\ StandsAtLine

LEMMA LogBounds ==
    /\ MaxSize \in Nat /\ MaxRotations \in Nat /\ Backfill \in Nat /\ Backfill >= 2
    /\ MaxCuts \in Nat /\ MaxLost \in Nat
  BY LogAssumption

LEMMA LogCount == \A S : Log!Cardinality(S) = Cardinality(S)
  BY DEF Log!Cardinality, Cardinality

LEMMA LinesFinite ==
    ASSUME NEW S \in SUBSET Log!Lines
    PROVE  IsFiniteSet(S) /\ Cardinality(S) \in Nat
  <1>1. IsFiniteSet(Log!Lines)
    <2>1. 1 \in Int /\ MaxSize \div 2 \in Int
      BY LogBounds
    <2> QED
      BY <2>1, FS_Interval DEF Log!Lines
  <1> QED
    BY <1>1, FS_Subset, FS_CardinalityType

LEMMA LogBegins == Log!Init => LogInv
  <1> SUFFICES ASSUME Log!Init PROVE LogInv
    OBVIOUS
  <1>1. lSize \in 0 .. MaxSize
    BY LogBounds DEF Log!Init
  <1>2. Cardinality(lCuts) <= MaxCuts
    <2>1. lCuts = {}
      BY DEF Log!Init
    <2>2. Cardinality({}) = 0
      BY FS_EmptySet
    <2> QED
      BY <2>1, <2>2, LogBounds
  <1>3. LogTypes
    <2>1. /\ 0 \in 0 .. MaxSize /\ 0 \in 0 .. MaxRotations /\ 0 \in 0 .. MaxLost
          /\ 0 \in 0 .. MaxSize + MaxCuts + 1
      BY LogBounds
    <2> QED
      BY <1>1, <1>2, <2>1 DEF Log!Init, LogTypes
  <1> QED
    BY <1>3 DEF Log!Init, LogInv, StandsAtLine

LEMMA WriteKeeps == ASSUME LogInv, NEW cut \in BOOLEAN, Log!Write(cut) PROVE LogInv'
  <1>1. /\ lSize < MaxSize /\ lSize' = lSize + 1
        /\ cut => (lSize + 1) % 2 = 0 /\ Cardinality(lCuts) < MaxCuts
        /\ lCuts' = IF cut THEN lCuts \cup {(lSize + 1) \div 2} ELSE lCuts
        /\ UNCHANGED <<lAttached, lOffset, lLastSize, lBackfilled, lFirstDone, lRead,
                       lStart, lTurned, lStrayed, lMissed, lRotations, lFailures>>
    BY LogCount DEF Log!Write
  <1>2. lSize \in Nat /\ lSize' \in 0 .. MaxSize
    BY <1>1, LogBounds DEF LogInv, LogTypes
  <1>3. lCuts' \in SUBSET Log!Lines /\ Cardinality(lCuts') <= MaxCuts
    <2>1. lCuts \in SUBSET Log!Lines /\ Cardinality(lCuts) <= MaxCuts
      BY DEF LogInv, LogTypes
    <2>2. CASE cut
      <3> DEFINE k == (lSize + 1) \div 2
      <3>1. k \in 1 .. MaxSize \div 2
        BY <1>1, <1>2, <2>2, LogBounds
      <3>2. lCuts' = lCuts \cup {k} /\ k \in Log!Lines
        BY <1>1, <2>2, <3>1 DEF Log!Lines
      <3>3. Cardinality(lCuts) < MaxCuts /\ IsFiniteSet(lCuts) /\ Cardinality(lCuts) \in Nat
        BY <1>1, <2>1, <2>2, LinesFinite
      <3> HIDE DEF k
      <3>4. Cardinality(lCuts \cup {k}) \in {Cardinality(lCuts), Cardinality(lCuts) + 1}
        BY <3>3, FS_AddElement
      <3>5. Cardinality(lCuts \cup {k}) <= MaxCuts
        BY <3>3, <3>4, LogBounds
      <3> QED
        BY <2>1, <3>2, <3>5
    <2>3. CASE ~cut
      BY <1>1, <2>1, <2>3
    <2> QED
      BY <2>2, <2>3
  <1>4. StandsAtLine'
    <2>1. lOffset \in Nat /\ StandsAtLine
      BY LogBounds DEF LogInv, LogTypes
    <2>2. lOffset + Backfill <= lSize => lOffset + Backfill <= lSize'
      BY <1>1, <1>2, <2>1, LogBounds
    <2> QED
      BY <1>1, <2>1, <2>2 DEF StandsAtLine
  <1> QED
    BY <1>1, <1>2, <1>3, <1>4 DEF LogInv, LogTypes

LEMMA RotateKeeps == ASSUME LogInv, NEW n \in 0 .. MaxSize, Log!Rotate(n) PROVE LogInv'
  <1>1. /\ lRotations < MaxRotations /\ lRotations' = lRotations + 1
        /\ lSize' = n /\ lCuts' = {} /\ lRead' = {} /\ lMissed' = {} /\ lStart' = 0
        /\ lTurned' = lAttached
        /\ UNCHANGED <<lAttached, lOffset, lLastSize, lBackfilled, lFirstDone, lStrayed,
                       lFailures>>
    BY DEF Log!Rotate
  <1>2. lRotations' \in 0 .. MaxRotations /\ lStart' \in 0 .. MaxSize
    BY <1>1, LogBounds DEF LogInv, LogTypes
  <1>3. Cardinality(lCuts') <= MaxCuts
    <2>1. Cardinality({}) = 0
      BY FS_EmptySet
    <2> QED
      BY <1>1, <2>1, LogBounds
  <1>4. StandsAtLine'
    BY <1>1 DEF StandsAtLine
  <1> QED
    BY <1>1, <1>2, <1>3, <1>4 DEF LogInv, LogTypes

LEMMA AttachKeeps == ASSUME LogInv, NEW known \in BOOLEAN, Log!Attach(known) PROVE LogInv'
  <1>1. /\ lAttached' = TRUE /\ lTurned' = FALSE /\ lStart' = lOffset'
        /\ ~known => lFailures < MaxLost
        /\ lFailures' = IF known THEN lFailures ELSE lFailures + 1
        /\ lOffset' = IF known /\ lSize > Backfill THEN lSize - Backfill ELSE 0
        /\ lBackfilled' = (lOffset' > 0)
        /\ lStrayed' = (lFirstDone /\ lOffset' % 2 # 0)
        /\ UNCHANGED <<lSize, lCuts, lLastSize, lFirstDone, lRead, lMissed, lRotations>>
    BY DEF Log!Attach
  <1>2. /\ lSize \in 0 .. MaxSize /\ lFirstDone \in BOOLEAN /\ lFailures \in 0 .. MaxLost
    BY DEF LogInv, LogTypes
  <1>3. /\ lOffset' \in 0 .. MaxSize /\ lOffset' \in 0 .. MaxSize + MaxCuts + 1
        /\ lOffset' > 0 => lOffset' + Backfill <= lSize
    BY <1>1, <1>2, LogBounds
  <1>4. lFailures' \in 0 .. MaxLost
    BY <1>1, <1>2, LogBounds
  <1>5. lBackfilled' \in BOOLEAN /\ lStrayed' \in BOOLEAN
    BY <1>1
  <1>6. StandsAtLine'
    <2>1. CASE lOffset' % 2 = 0
      BY <2>1 DEF StandsAtLine
    <2>2. CASE lOffset' % 2 # 0
      <3>1. lOffset' > 0
        <4>1. lOffset' # 0
          BY <2>2
        <4> QED
          BY <1>3, <4>1, LogBounds
      <3>2. lBackfilled' /\ lOffset' + Backfill <= lSize' /\ (lStrayed' \/ ~lFirstDone')
        BY <1>1, <1>3, <2>2, <3>1
      <3> QED
        BY <3>2 DEF StandsAtLine
    <2> QED
      BY <2>1, <2>2
  <1>7. LogTypes'
    BY <1>1, <1>3, <1>4, <1>5 DEF LogInv, LogTypes
  <1> QED
    BY <1>6, <1>7 DEF LogInv

\* What the file system does not answer leaves the offset at a line, too.
LEMMA FailuresKeep ==
    ASSUME LogInv, Log!StatFails \/ Log!ReadFails \/ Log!Idle PROVE LogInv'
  <1>1. LogTypes
    BY DEF LogInv
  <1>2. CASE Log!StatFails
    <2>1. /\ lFailures < MaxLost /\ lFailures' = lFailures + 1 /\ lAttached' = FALSE
          /\ UNCHANGED <<lSize, lCuts, lOffset, lLastSize, lBackfilled, lFirstDone, lRead,
                         lStart, lTurned, lStrayed, lMissed, lRotations>>
      BY <1>2 DEF Log!StatFails
    <2>2. lFailures' \in 0 .. MaxLost
      BY <1>1, <2>1, LogBounds DEF LogTypes
    <2> QED
      BY <1>1, <2>1, <2>2 DEF LogInv, LogTypes, StandsAtLine
  <1>3. CASE Log!ReadFails
    <2>1. /\ lFailures < MaxLost /\ lFailures' = lFailures + 1 /\ lLastSize' = lSize
          /\ lTurned' = (lTurned /\ ~Log!Shrunk) /\ lOffset' = Log!From
          /\ lBackfilled' = (lBackfilled /\ ~Log!Shrunk)
          /\ lFirstDone' = (lFirstDone /\ ~Log!Shrunk)
          /\ lStrayed' = (lStrayed /\ ~Log!Shrunk)
          /\ UNCHANGED <<lSize, lCuts, lAttached, lRead, lStart, lMissed, lRotations>>
      BY <1>3 DEF Log!ReadFails, Log!Looks
    <2>2. lFailures' \in 0 .. MaxLost
      BY <1>1, <2>1, LogBounds DEF LogTypes
    <2>3. lOffset' \in {0, lOffset} /\ lOffset' \in 0 .. MaxSize + MaxCuts + 1
      BY <1>1, <2>1, LogBounds DEF Log!From, LogTypes
    <2>4. LogTypes'
      BY <1>1, <2>1, <2>2, <2>3 DEF LogTypes
    <2>5. CASE Log!Shrunk
      <3>1. lOffset' = 0
        BY <2>1, <2>5 DEF Log!From
      <3>2. lOffset' % 2 = 0
        BY <3>1
      <3> QED
        BY <2>4, <3>2 DEF LogInv, StandsAtLine
    <2>6. CASE ~Log!Shrunk
      <3>1. /\ UNCHANGED <<lSize, lAttached, lOffset, lStrayed, lBackfilled, lFirstDone>>
            /\ lTurned' = lTurned
        BY <1>1, <2>1, <2>6 DEF Log!From, LogTypes
      <3> QED
        BY <2>4, <3>1 DEF LogInv, StandsAtLine
    <2> QED
      BY <2>5, <2>6
  <1>4. CASE Log!Idle
    <2>1. /\ lLastSize' = lSize /\ lTurned' = FALSE /\ lOffset' = Log!From
          /\ lBackfilled' = (lBackfilled /\ ~Log!Shrunk)
          /\ lFirstDone' = (lFirstDone /\ ~Log!Shrunk)
          /\ lStrayed' = ((lStrayed \/ lTurned) /\ ~Log!Shrunk)
          /\ lMissed' = lMissed \cup Log!Behind
          /\ UNCHANGED <<lSize, lCuts, lAttached, lRead, lStart, lRotations, lFailures>>
      BY <1>4 DEF Log!Idle
    <2>2. lMissed' \in SUBSET Log!Lines
      BY <1>1, <2>1 DEF LogTypes, Log!Behind
    <2>3. lOffset' \in {0, lOffset} /\ lOffset' \in 0 .. MaxSize + MaxCuts + 1
      BY <1>1, <2>1, LogBounds DEF Log!From, LogTypes
    <2>4. LogTypes'
      BY <1>1, <2>1, <2>2, <2>3 DEF LogTypes
    <2>5. CASE Log!Shrunk
      <3>1. lOffset' = 0
        BY <2>1, <2>5 DEF Log!From
      <3>2. lOffset' % 2 = 0
        BY <3>1
      <3> QED
        BY <2>4, <3>2 DEF LogInv, StandsAtLine
    <2>6. CASE ~Log!Shrunk
      <3>1. /\ UNCHANGED <<lSize, lAttached, lOffset, lBackfilled, lFirstDone>>
            /\ ~lStrayed' => ~lStrayed /\ ~lTurned
        BY <1>1, <2>1, <2>6 DEF Log!From, LogTypes
      <3> QED
        BY <2>4, <3>1 DEF LogInv, StandsAtLine
    <2> QED
      BY <2>5, <2>6
  <1> QED
    BY <1>2, <1>3, <1>4

\* Where a read begins and ends.
LEMMA ReadPlaces ==
    ASSUME LogTypes, lSize > Log!From
    PROVE  /\ Log!From \in Nat /\ Log!Begin \in Nat /\ Log!Taken \in Nat
           /\ Log!From <= Log!Begin /\ Log!Begin <= Log!Taken /\ Log!Taken <= lSize
           /\ Log!Begin # Log!From => Log!Begin % 2 = 0
           /\ Log!Taken # Log!Begin => Log!Taken % 2 = 0
           /\ Log!Half /\ Log!From + 2 <= lSize => Log!Begin > Log!From
  <1>1. /\ lSize \in Nat /\ Log!From \in Nat
    BY LogBounds DEF LogTypes, Log!From
  <1>2. /\ Log!FirstBreak \in Nat /\ Log!FirstBreak % 2 = 0
        /\ Log!From < Log!FirstBreak /\ Log!FirstBreak <= Log!From + 2
    BY <1>1 DEF Log!FirstBreak
  <1>3. /\ Log!LastBreak \in Nat /\ Log!LastBreak % 2 = 0 /\ Log!LastBreak <= lSize
    BY <1>1 DEF Log!LastBreak
  <1>4. /\ Log!Begin = IF Log!Half /\ Log!FirstBreak <= lSize THEN Log!FirstBreak
                                                              ELSE Log!From
        /\ Log!Taken = IF Log!LastBreak > Log!Begin + 1 THEN Log!LastBreak ELSE Log!Begin
    BY DEF Log!Begin, Log!Taken
  <1>5. /\ Log!Begin \in Nat /\ Log!From <= Log!Begin /\ Log!Begin <= lSize
        /\ Log!Begin # Log!From => Log!Begin % 2 = 0
        /\ Log!Half /\ Log!From + 2 <= lSize => Log!Begin > Log!From
    BY <1>1, <1>2, <1>4
  <1>6. /\ Log!Taken \in Nat /\ Log!Begin <= Log!Taken /\ Log!Taken <= lSize
        /\ Log!Taken # Log!Begin => Log!Taken % 2 = 0
    BY <1>1, <1>3, <1>4, <1>5
  <1> QED
    BY <1>1, <1>5, <1>6

\* A read from an offset that can be relied on begins at a line, or goes past the
\* break of the one it begins in.
LEMMA BeginsAtLine ==
    ASSUME LogInv, lAttached, lSize > Log!From, (~lStrayed /\ ~lTurned) \/ Log!Shrunk
    PROVE  Log!Begin % 2 = 0
  <1>1. /\ LogTypes /\ lOffset \in Nat /\ lSize \in Nat
        /\ lBackfilled \in BOOLEAN /\ lFirstDone \in BOOLEAN
    BY LogBounds DEF LogInv, LogTypes
  <1>2. CASE Log!Shrunk
    <2>1. Log!From = 0 /\ ~Log!Half
      BY <1>2 DEF Log!From, Log!Half
    <2>2. Log!Begin = 0
      BY <2>1 DEF Log!Begin
    <2> QED
      BY <2>2
  <1>3. CASE ~Log!Shrunk
    <2>1. \/ Log!From % 2 = 0
          \/ Log!Half /\ Log!From + Backfill <= lSize
      BY <1>3 DEF LogInv, StandsAtLine, Log!From, Log!Half
    <2>2. Log!From \in Nat
      BY <1>1, <1>3 DEF Log!From
    <2>3. Log!From + Backfill <= lSize => Log!From + 2 <= lSize
      BY <1>1, <2>2, LogBounds
    <2>4. Log!Half /\ Log!From + 2 <= lSize => Log!Begin # Log!From
      BY <1>1, <2>2, ReadPlaces
    <2>5. Log!Begin # Log!From => Log!Begin % 2 = 0
      BY <1>1, ReadPlaces
    <2> QED
      BY <2>1, <2>3, <2>4, <2>5
  <1> QED
    BY <1>2, <1>3

LEMMA ConsumeKeeps ==
    ASSUME LogInv, NEW split \in BOOLEAN, Log!Consume(split) PROVE LogInv'
  <1> DEFINE cutsRead == Log!CutWithin(Log!From, Log!Taken)
             extra == Cardinality(cutsRead) + (IF split THEN 1 ELSE 0)
  <1>1. /\ lAttached /\ lSize > Log!From /\ lLastSize' = lSize /\ lTurned' = FALSE
        /\ lBackfilled' = FALSE /\ lFirstDone' = TRUE
        /\ lOffset' = IF Log!Taken > Log!From THEN Log!Taken + extra ELSE Log!From
        /\ lMissed' = lMissed \cup Log!Behind
        /\ lStrayed' = IF Log!Taken > Log!From THEN extra > 0
                       ELSE (lStrayed \/ lTurned) /\ ~Log!Shrunk
        /\ UNCHANGED <<lSize, lCuts, lAttached, lStart, lRotations, lFailures>>
    BY LogCount DEF Log!Consume
  <1>2. lRead' = lRead \cup {k \in Log!Lines : Log!Begin <= (k - 1) * 2 /\ k * 2 <= Log!Taken}
    BY DEF Log!Consume
  <1>3. LogTypes
    BY DEF LogInv
  <1>4. lRead' \in SUBSET Log!Lines /\ lMissed' \in SUBSET Log!Lines
    BY <1>1, <1>2, <1>3 DEF LogTypes, Log!Behind
  <1>5. /\ Log!From \in Nat /\ Log!Begin \in Nat /\ Log!Taken \in Nat
        /\ Log!From <= Log!Begin /\ Log!Begin <= Log!Taken /\ Log!Taken <= lSize
        /\ Log!Begin # Log!From => Log!Begin % 2 = 0
        /\ Log!Taken # Log!Begin => Log!Taken % 2 = 0
    BY <1>1, <1>3, ReadPlaces
  <1>6. extra \in Nat /\ extra <= MaxCuts + 1
    <2>1. cutsRead \subseteq lCuts /\ lCuts \in SUBSET Log!Lines
      BY <1>3 DEF Log!CutWithin, LogTypes
    <2> HIDE DEF cutsRead
    <2>2. IsFiniteSet(lCuts) /\ Cardinality(cutsRead) \in Nat /\ Cardinality(lCuts) \in Nat
      BY <2>1, LinesFinite
    <2>3. Cardinality(cutsRead) <= Cardinality(lCuts)
      BY <2>1, <2>2, FS_Subset
    <2>4. Cardinality(lCuts) <= MaxCuts
      BY <1>3 DEF LogTypes
    <2> QED
      BY <2>2, <2>3, <2>4, LogBounds
  <1> HIDE DEF extra, cutsRead
  <1>7. lSize \in Nat /\ lSize <= MaxSize /\ lStrayed \in BOOLEAN /\ lTurned \in BOOLEAN
    BY <1>3, LogBounds DEF LogTypes
  <1>8. lOffset' \in 0 .. MaxSize + MaxCuts + 1
    BY <1>1, <1>5, <1>6, <1>7, LogBounds
  <1>9. CASE Log!Taken > Log!From
    <2>1. lStrayed' = (extra > 0) /\ lOffset' = Log!Taken + extra
      BY <1>1, <1>9
    <2>2. lStrayed' \in BOOLEAN
      BY <2>1
    <2>3. ~lStrayed' => extra = 0
      <3>1. ~ (extra > 0) => extra = 0
        BY <1>6
      <3> QED
        BY <2>1, <3>1, Zenon
    <2>4. ~lStrayed' => lOffset' = Log!Taken
      BY <1>5, <2>1, <2>3
    <2>5. Log!Taken % 2 = 0
      BY <1>5, <1>9
    <2>6. LogTypes'
      BY <1>1, <1>3, <1>4, <1>8, <2>2 DEF LogTypes
    <2> QED
      BY <2>4, <2>5, <2>6 DEF LogInv, StandsAtLine
  <1>10. CASE ~ (Log!Taken > Log!From)
    <2>1. lStrayed' = ((lStrayed \/ lTurned) /\ ~Log!Shrunk) /\ lOffset' = Log!From
      BY <1>1, <1>10
    <2>2. Log!Begin = Log!From
      BY <1>5, <1>10
    <2>3. ~lStrayed' => (~lStrayed /\ ~lTurned) \/ Log!Shrunk
      BY <2>1
    <2>4. ~lStrayed' => Log!Begin % 2 = 0
      BY <1>1, <2>3, BeginsAtLine
    <2>5. LogTypes'
      BY <1>1, <1>3, <1>4, <1>8, <2>1 DEF LogTypes
    <2> QED
      BY <2>1, <2>2, <2>4, <2>5 DEF LogInv, StandsAtLine
  <1> QED
    BY <1>9, <1>10

LEMMA LogKeeps == ASSUME LogInv, [Log!Next]_log PROVE LogInv'
  <1>1. CASE UNCHANGED log
    BY <1>1 DEF log, LogInv, LogTypes, StandsAtLine
  <1>2. CASE Log!Next
    BY <1>2, WriteKeeps, RotateKeeps, AttachKeeps, FailuresKeep, ConsumeKeeps
      DEF Log!Next
  <1> QED
    BY <1>1, <1>2

LEMMA LogIsRead == LogInv => Log!WholeLines
  <1> SUFFICES ASSUME LogInv, lAttached, ~lStrayed, ~Log!Unseen, lSize > Log!From,
                      Log!Taken > Log!Begin
               PROVE  Log!Begin % 2 = 0 /\ Log!Taken % 2 = 0
    BY DEF Log!WholeLines
  <1>1. (~lStrayed /\ ~lTurned) \/ Log!Shrunk
    BY DEF Log!Unseen
  <1>2. Log!Taken # Log!Begin => Log!Taken % 2 = 0
    BY ReadPlaces DEF LogInv
  <1>3. Log!Taken # Log!Begin
    <2>1. Log!Taken \in Nat /\ Log!Begin \in Nat
      BY ReadPlaces DEF LogInv
    <2> QED
      BY <2>1
  <1> QED
    BY <1>1, <1>2, <1>3, BeginsAtLine

LEMMA LogTypesHold == LogInv => Log!TypeOK
  BY DEF LogInv, LogTypes, Log!TypeOK

-----------------------------------------------------------------------------
(* Nicknames: what the three writers of a buyer's nickname leave of it.       *)

NickTypes ==
    /\ nReal \in [Buyers -> 1 .. MaxNames]
    /\ nUnread \in [Buyers -> Nicks!Nicks] /\ nNames \in [Buyers -> Nicks!Nicks]
    /\ nMeta \in [Buyers -> Nicks!Nicks] /\ nDb \in [Buyers -> Nicks!Nicks]
    /\ nPending \in SUBSET Buyers /\ Nicks!Cardinality(nPending) <= MaxLookups
    /\ nRecent \in SUBSET Buyers /\ nTodo \in SUBSET Buyers
    /\ nPc \in {"scan", "refresh", "resolve"}
    /\ nFailures \in 0 .. MaxFailures

\* The worker goes through what the log has told it, in a pass of its own.
NicksInv ==
    /\ NickTypes
    /\ nPc = "refresh" => \A b \in nTodo : nMeta[b] # 0
    /\ nPc = "scan" => nTodo = {}

NickStays == \A b \in Buyers : nDb[b] # 0 => nDb'[b] # 0

LEMMA NickBounds ==
    /\ MaxNames \in Nat /\ MaxNames >= 1 /\ MaxFailures \in Nat /\ MaxLookups \in Nat
    /\ 0 \in Nicks!Nicks /\ 1 .. MaxNames \subseteq Nicks!Nicks
    /\ \A n \in Nicks!Nicks : n # 0 => n \in 1 .. MaxNames
  BY BuyersAssumption DEF Nicks!Nicks

LEMMA NicksBegin == Nicks!Init => NicksInv
  <1> SUFFICES ASSUME Nicks!Init PROVE NicksInv
    OBVIOUS
  <1>1. 1 \in 1 .. MaxNames /\ 0 \in 0 .. MaxFailures
    BY NickBounds
  <1>2. Nicks!Cardinality({}) <= MaxLookups
    <2>1. Nicks!Cardinality({}) = 0
      BY FS_EmptySet DEF Nicks!Cardinality, Cardinality
    <2> QED
      BY <2>1, NickBounds
  <1> QED
    BY <1>1, <1>2, NickBounds DEF Nicks!Init, NicksInv, NickTypes

LEMMA SmallerPending ==
    ASSUME NickTypes, NEW S
    PROVE  Nicks!Cardinality(nPending \ S) <= MaxLookups
  <1>1. IsFiniteSet(nPending) /\ nPending \ S \subseteq nPending
    BY FS_Subset, BuyersAssumption DEF NickTypes
  <1>2. /\ Cardinality(nPending \ S) <= Cardinality(nPending)
        /\ Cardinality(nPending) \in Nat /\ Cardinality(nPending \ S) \in Nat
    BY <1>1, FS_Subset, FS_CardinalityType
  <1>3. \A T : Nicks!Cardinality(T) = Cardinality(T)
    BY DEF Nicks!Cardinality, Cardinality
  <1>4. Cardinality(nPending) <= MaxLookups
    BY <1>3 DEF NickTypes
  <1> QED
    BY <1>2, <1>3, <1>4, NickBounds

LEMMA BuyerKeeps ==
    ASSUME NicksInv, NEW b \in Buyers,
           \/ Nicks!Rename(b) \/ Nicks!Note(b) \/ Nicks!Quiet(b)
           \/ Nicks!Capture(b) \/ Nicks!CaptureNamed(b)
    PROVE  NicksInv' /\ NickStays
  <1>1. NickTypes
    BY DEF NicksInv
  <1>2. CASE Nicks!Rename(b)
    <2>1. /\ nReal' \in [Buyers -> 1 .. MaxNames]
          /\ UNCHANGED <<nUnread, nNames, nMeta, nPending, nDb, nRecent, nPc, nTodo,
                         nFailures>>
      <3>1. nReal[b] \in 1 .. MaxNames /\ nReal[b] < MaxNames
            /\ nReal' = [nReal EXCEPT ![b] = nReal[b] + 1]
        BY <1>1, <1>2 DEF Nicks!Rename, NickTypes
      <3>2. nReal[b] + 1 \in 1 .. MaxNames
        BY <3>1, NickBounds
      <3> QED
        BY <1>1, <1>2, <3>1, <3>2 DEF Nicks!Rename, Nicks!log, NickTypes
    <2> QED
      BY <1>1, <2>1 DEF NicksInv, NickTypes, NickStays
  <1>3. CASE Nicks!Note(b)
    <2>1. /\ nUnread' \in [Buyers -> Nicks!Nicks]
          /\ UNCHANGED <<nReal, nNames, nMeta, nPending, nDb, nRecent, nPc, nTodo,
                         nFailures>>
      BY <1>1, <1>3, NickBounds DEF Nicks!Note, NickTypes
    <2> QED
      BY <1>1, <2>1 DEF NicksInv, NickTypes, NickStays
  <1>4. CASE Nicks!Capture(b)
    <2> DEFINE nick == IF nDb[b] # 0 THEN nDb[b] ELSE nNames[b]
    <2>1. nick \in Nicks!Nicks
      BY <1>1 DEF NickTypes
    <2>2. /\ nDb' = [nDb EXCEPT ![b] = nick] /\ nRecent' \in {nRecent, nRecent \cup {b}}
          /\ nPending' \in SUBSET Buyers /\ Nicks!Cardinality(nPending') <= MaxLookups
          /\ UNCHANGED <<nReal, nUnread, nNames, nMeta, nPc, nTodo, nFailures>>
      BY <1>1, <1>4 DEF Nicks!Capture, Nicks!Enqueued, Nicks!log, NickTypes
    <2>3. nDb[b] # 0 => nick # 0
      OBVIOUS
    <2> HIDE DEF nick
    <2>4. nDb' \in [Buyers -> Nicks!Nicks] /\ NickStays
      BY <1>1, <2>1, <2>2, <2>3 DEF NickTypes, NickStays
    <2>5. NickTypes'
      BY <1>1, <2>2, <2>4 DEF NickTypes
    <2> QED
      BY <2>2, <2>4, <2>5 DEF NicksInv
  <1>5. CASE Nicks!CaptureNamed(b)
    <2>1. /\ nDb' = [nDb EXCEPT ![b] = nReal[b]]
          /\ nRecent' \in {nRecent, nRecent \cup {b}}
          /\ UNCHANGED <<nReal, nUnread, nNames, nMeta, nPending, nPc, nTodo, nFailures>>
      BY <1>5 DEF Nicks!CaptureNamed, Nicks!log
    <2>2. nReal[b] \in Nicks!Nicks /\ nReal[b] # 0
      <3>1. nReal[b] \in 1 .. MaxNames
        BY <1>1 DEF NickTypes
      <3> QED
        BY <3>1, NickBounds
    <2>3. nDb' \in [Buyers -> Nicks!Nicks] /\ NickStays
      BY <1>1, <2>1, <2>2 DEF NickTypes, NickStays
    <2>4. NickTypes'
      BY <1>1, <2>1, <2>3 DEF NickTypes
    <2> QED
      BY <2>1, <2>3, <2>4 DEF NicksInv
  <1>6. CASE Nicks!Quiet(b)
    BY <1>1, <1>6 DEF Nicks!Quiet, Nicks!log, NicksInv, NickTypes, NickStays
  <1> QED
    BY <1>2, <1>3, <1>4, <1>5, <1>6

LEMMA ReadsKeep ==
    ASSUME NicksInv, NEW S \in SUBSET Nicks!Noted, Nicks!ScanAndPoll(S) \/ Nicks!Poll(S)
    PROVE  NicksInv' /\ NickStays
  <1>1. NickTypes
    BY DEF NicksInv
  <1>2. nPending' \in SUBSET Buyers /\ Nicks!Cardinality(nPending') <= MaxLookups
    BY <1>1 DEF Nicks!ScanAndPoll, Nicks!Poll, Nicks!Enqueued, NickTypes
  <1>3. Nicks!Reads(S)
    BY DEF Nicks!ScanAndPoll, Nicks!Poll
  <1>4. /\ nPc' = "refresh" /\ nTodo' = {b \in Buyers : nMeta'[b] # 0}
        /\ UNCHANGED <<nReal, nDb, nRecent, nFailures>>
    BY <1>3 DEF Nicks!Reads
  <1>5. /\ nNames' \in [Buyers -> Nicks!Nicks] /\ nMeta' \in [Buyers -> Nicks!Nicks]
        /\ nUnread' \in [Buyers -> Nicks!Nicks]
    BY <1>1, <1>3, NickBounds DEF Nicks!Reads, NickTypes
  <1>6. NickTypes'
    BY <1>1, <1>2, <1>4, <1>5 DEF NickTypes
  <1> QED
    BY <1>4, <1>6 DEF NicksInv, NickStays

LEMMA WorkerKeeps ==
    ASSUME NicksInv,
           \/ Nicks!Fails \/ Nicks!Refreshed
           \/ \E S \in SUBSET nPending : Nicks!Resolved(S)
    PROVE  NicksInv' /\ NickStays
  <1>1. NickTypes
    BY DEF NicksInv
  <1>2. CASE Nicks!Fails
    <2>1. /\ nFailures < MaxFailures /\ nFailures' = nFailures + 1
          /\ nPc' = "scan" /\ nTodo' = {}
          /\ UNCHANGED <<nReal, nUnread, nNames, nMeta, nPending, nDb, nRecent>>
      BY <1>2 DEF Nicks!Fails, Nicks!log
    <2>2. nFailures' \in 0 .. MaxFailures
      BY <1>1, <2>1, NickBounds DEF NickTypes
    <2> QED
      BY <1>1, <2>1, <2>2 DEF NicksInv, NickTypes, NickStays
  <1>3. CASE Nicks!Refreshed
    BY <1>1, <1>3 DEF Nicks!Refreshed, Nicks!log, NicksInv, NickTypes, NickStays
  <1>4. CASE \E S \in SUBSET nPending : Nicks!Resolved(S)
    <2>1. PICK S \in SUBSET nPending : Nicks!Resolved(S)
      BY <1>4
    <2>2. /\ nPending' = nPending \ S /\ nTodo = {} /\ nPc' = "scan"
          /\ UNCHANGED <<nReal, nUnread, nNames, nMeta, nDb, nRecent, nTodo, nFailures>>
      BY <2>1 DEF Nicks!Resolved, Nicks!log
    <2>3. nPending' \in SUBSET Buyers /\ Nicks!Cardinality(nPending') <= MaxLookups
      BY <1>1, <2>2, SmallerPending DEF NickTypes
    <2>4. NickTypes'
      BY <1>1, <2>2, <2>3 DEF NickTypes
    <2> QED
      BY <2>2, <2>4 DEF NicksInv, NickStays
  <1> QED
    BY <1>2, <1>3, <1>4

LEMMA EntryKeeps ==
    ASSUME NicksInv, NEW b \in Buyers, Nicks!Refresh(b) \/ Nicks!Resolve(b)
    PROVE  NicksInv' /\ NickStays
  <1>1. NickTypes
    BY DEF NicksInv
  <1>2. CASE Nicks!Refresh(b)
    <2> DEFINE nick == IF nDb[b] = 0 THEN 0 ELSE nMeta[b]
    <2>1. /\ nPc = "refresh" /\ b \in nTodo /\ nTodo' = nTodo \ {b}
          /\ nDb' = [nDb EXCEPT ![b] = nick] /\ nMeta' = [nMeta EXCEPT ![b] = 0]
          /\ UNCHANGED <<nReal, nUnread, nNames, nPending, nRecent, nPc, nFailures>>
      BY <1>2 DEF Nicks!Refresh, Nicks!log
    <2>2. nick \in Nicks!Nicks /\ (nDb[b] # 0 => nick # 0)
      BY <1>1, <2>1, NickBounds DEF NicksInv, NickTypes
    <2> HIDE DEF nick
    <2>3. nDb' \in [Buyers -> Nicks!Nicks] /\ nMeta' \in [Buyers -> Nicks!Nicks]
      BY <1>1, <2>1, <2>2, NickBounds DEF NickTypes
    <2>4. NickTypes'
      BY <1>1, <2>1, <2>3 DEF NickTypes
    <2>5. NickStays
      BY <1>1, <2>1, <2>2 DEF NickTypes, NickStays
    <2>6. \A x \in nTodo' : nMeta'[x] # 0
      BY <1>1, <2>1 DEF NicksInv, NickTypes
    <2> QED
      BY <2>1, <2>4, <2>5, <2>6 DEF NicksInv
  <1>3. CASE Nicks!Resolve(b)
    <2> DEFINE nick == IF nDb[b] # 0 THEN nDb[b] ELSE nNames[b]
    <2>1. /\ nPc = "resolve" /\ nTodo' = nTodo \ {b}
          /\ nDb' = [nDb EXCEPT ![b] = nick]
          /\ nPending' = nPending \/ nPending' = nPending \ {b}
          /\ UNCHANGED <<nReal, nUnread, nNames, nMeta, nRecent, nPc, nFailures>>
      BY <1>3 DEF Nicks!Resolve, Nicks!log
    <2>2. nick \in Nicks!Nicks /\ (nDb[b] # 0 => nick # 0)
      BY <1>1 DEF NickTypes
    <2> HIDE DEF nick
    <2>3. nDb' \in [Buyers -> Nicks!Nicks] /\ NickStays
      BY <1>1, <2>1, <2>2 DEF NickTypes, NickStays
    <2>4. nPending' \in SUBSET Buyers /\ Nicks!Cardinality(nPending') <= MaxLookups
      BY <1>1, <2>1, SmallerPending DEF NickTypes
    <2>5. NickTypes'
      BY <1>1, <2>1, <2>3, <2>4 DEF NickTypes
    <2> QED
      BY <2>1, <2>3, <2>5 DEF NicksInv
  <1> QED
    BY <1>2, <1>3

LEMMA NicksKeep == NicksInv /\ [Nicks!Next]_nicknames => NicksInv' /\ NickStays
  <1> SUFFICES ASSUME NicksInv, [Nicks!Next]_nicknames PROVE NicksInv' /\ NickStays
    OBVIOUS
  <1>1. CASE UNCHANGED nicknames
    BY <1>1 DEF nicknames, NicksInv, NickTypes, NickStays
  <1>2. CASE Nicks!Next
    BY <1>2, BuyerKeeps, ReadsKeep, WorkerKeeps, EntryKeeps DEF Nicks!Next
  <1> QED
    BY <1>1, <1>2

-----------------------------------------------------------------------------
(* CatalogSync: the goods of a shop, in a listing that changes.               *)

LEMMA GoodsBounds ==
    /\ IsFiniteSet(Goods) /\ Cardinality(Goods) \in Nat
    /\ PageSize \in Nat /\ PageSize >= 1 /\ MaxPages \in Nat /\ MaxPages >= 1
    /\ MaxChanges \in Nat /\ MaxFaults \in Nat
    /\ \A S : Catalog!Cardinality(S) = Cardinality(S)
  <1>1. IsFiniteSet(Goods) /\ Cardinality(Goods) \in Nat
    BY GoodsAssumption, FS_CardinalityType
  <1>2. \A S : Catalog!Cardinality(S) = Cardinality(S)
    BY DEF Catalog!Cardinality, Cardinality
  <1> QED
    BY <1>1, <1>2, GoodsAssumption

\* Goods that differ are no more than there are.
LEMMA ListingIs ==
    ASSUME NEW l
    PROVE  l \in Catalog!Listings <=>
              /\ l \in Seq(Goods)
              /\ \A i, j \in 1 .. Len(l) : l[i] = l[j] => i = j
  <1>1. ASSUME l \in Catalog!Listings
        PROVE  /\ l \in Seq(Goods) /\ \A i, j \in 1 .. Len(l) : l[i] = l[j] => i = j
    <2>1. PICK n \in 0 .. Cardinality(Goods) : l \in [1 .. n -> Goods]
      BY <1>1, GoodsBounds DEF Catalog!Listings
    <2>2. n \in Nat /\ l \in Seq(Goods) /\ DOMAIN l = 1 .. Len(l)
      BY <2>1, GoodsBounds
    <2>3. Catalog!IsInjective(l)
      BY <1>1 DEF Catalog!Listings
    <2> QED
      BY <2>2, <2>3 DEF Catalog!IsInjective
  <1>2. ASSUME l \in Seq(Goods), \A i, j \in 1 .. Len(l) : l[i] = l[j] => i = j
        PROVE  l \in Catalog!Listings
    <2>1. Len(l) \in Nat /\ l \in [1 .. Len(l) -> Goods] /\ DOMAIN l = 1 .. Len(l)
      BY <1>2, LenProperties
    <2>2. l \in Injection(1 .. Len(l), Goods)
      BY <1>2, <2>1 DEF Injection, IsInjective
    <2>3. Cardinality(1 .. Len(l)) <= Cardinality(Goods)
      BY <2>2, FS_Injection, GoodsBounds
    <2>4. Cardinality(1 .. Len(l)) = Len(l)
      <3>1. Cardinality(1 .. Len(l)) = IF 1 > Len(l) THEN 0 ELSE Len(l) - 1 + 1
        BY <2>1, FS_Interval
      <3> QED
        BY <2>1, <3>1
    <2>5. Len(l) \in 0 .. Cardinality(Goods)
      BY <2>1, <2>3, <2>4, GoodsBounds
    <2>6. l \in UNION {[1 .. n -> Goods] : n \in 0 .. Catalog!Cardinality(Goods)}
      BY <2>1, <2>5, GoodsBounds
    <2> QED
      BY <1>2, <2>1, <2>6 DEF Catalog!Listings, Catalog!IsInjective
  <1> QED
    BY <1>1, <1>2

LEMMA FitsGoods ==
    ASSUME NEW l \in Catalog!Listings PROVE Len(l) \in 0 .. Cardinality(Goods)
  <1>1. PICK n \in 0 .. Cardinality(Goods) : l \in [1 .. n -> Goods]
    BY GoodsBounds DEF Catalog!Listings
  <1>2. Len(l) = n
    BY <1>1, GoodsBounds
  <1> QED
    BY <1>1, <1>2

LEMMA Removed ==
    ASSUME NEW l \in Catalog!Listings, NEW i \in DOMAIN l
    PROVE  Catalog!RemoveAt(l, i) \in Catalog!Listings
  <1> DEFINE a == SubSeq(l, 1, i - 1)
             b == SubSeq(l, i + 1, Len(l))
             r == a \o b
  <1>1. /\ l \in Seq(Goods) /\ Len(l) \in Nat /\ DOMAIN l = 1 .. Len(l)
        /\ \A j, k \in 1 .. Len(l) : l[j] = l[k] => j = k
        /\ \A j \in 1 .. Len(l) : l[j] \in Goods
    BY ListingIs, LenProperties
  <1>2. i \in 1 .. Len(l)
    BY <1>1
  <1>3. /\ a \in Seq(Goods) /\ Len(a) = i - 1
        /\ \A j \in 1 .. i - 1 : a[j] = l[j]
    <2>1. \A j \in 1 .. i - 1 : l[j] \in Goods
      BY <1>1, <1>2
    <2>2. /\ a \in Seq(Goods) /\ Len(a) = IF 1 <= i - 1 THEN i - 1 - 1 + 1 ELSE 0
          /\ \A j \in 1 .. i - 1 - 1 + 1 : a[j] = l[1 + j - 1]
      BY <1>2, <2>1, SubSeqProperties
    <2> HIDE DEF a
    <2> QED
      BY <1>2, <2>2
  <1>4. /\ b \in Seq(Goods) /\ Len(b) = Len(l) - i
        /\ \A j \in 1 .. Len(l) - i : b[j] = l[i + j]
    <2>1. \A j \in i + 1 .. Len(l) : l[j] \in Goods
      BY <1>1, <1>2
    <2>2. /\ b \in Seq(Goods)
          /\ Len(b) = IF i + 1 <= Len(l) THEN Len(l) - (i + 1) + 1 ELSE 0
          /\ \A j \in 1 .. Len(l) - (i + 1) + 1 : b[j] = l[(i + 1) + j - 1]
      BY <1>1, <1>2, <2>1, SubSeqProperties
    <2> HIDE DEF b
    <2>3. Len(l) - (i + 1) + 1 = Len(l) - i
      BY <1>1, <1>2
    <2>4. Len(b) = Len(l) - i
      BY <1>1, <1>2, <2>2, <2>3
    <2>5. ASSUME NEW j \in 1 .. Len(l) - i PROVE b[j] = l[i + j]
      <3>1. (i + 1) + j - 1 = i + j
        BY <1>1, <1>2
      <3> QED
        BY <2>2, <2>3, <3>1
    <2> QED
      BY <2>2, <2>4, <2>5
  <1> HIDE DEF a, b
  <1>5. /\ r \in Seq(Goods) /\ Len(r) = Len(l) - 1
        /\ \A j \in 1 .. Len(l) - 1 : r[j] = IF j < i THEN l[j] ELSE l[j + 1]
    <2>1. /\ r \in Seq(Goods) /\ Len(r) = Len(a) + Len(b)
          /\ \A j \in 1 .. Len(a) + Len(b) :
                r[j] = IF j <= Len(a) THEN a[j] ELSE b[j - Len(a)]
      BY <1>3, <1>4, ConcatProperties
    <2> HIDE DEF r
    <2>2. Len(r) = Len(l) - 1
      BY <1>1, <1>2, <1>3, <1>4, <2>1
    <2>3. ASSUME NEW j \in 1 .. Len(l) - 1
          PROVE  r[j] = IF j < i THEN l[j] ELSE l[j + 1]
      <3>1. CASE j < i
        BY <1>1, <1>2, <1>3, <1>4, <2>1, <3>1
      <3>2. CASE ~ (j < i)
        <4>1. j - (i - 1) \in 1 .. Len(l) - i /\ i + (j - (i - 1)) = j + 1
          BY <1>1, <1>2, <3>2
        <4>2. r[j] = b[j - (i - 1)]
          BY <1>1, <1>2, <1>3, <1>4, <2>1, <3>2
        <4> QED
          BY <1>4, <3>2, <4>1, <4>2
      <3> QED
        BY <3>1, <3>2
    <2> QED
      BY <2>1, <2>2, <2>3
  <1> HIDE DEF r
  <1>6. ASSUME NEW j \in 1 .. Len(r), NEW k \in 1 .. Len(r), r[j] = r[k] PROVE j = k
    <2> DEFINE x == IF j < i THEN j ELSE j + 1
               y == IF k < i THEN k ELSE k + 1
    <2>1. x \in 1 .. Len(l) /\ y \in 1 .. Len(l) /\ r[j] = l[x] /\ r[k] = l[y]
      BY <1>1, <1>2, <1>5
    <2>2. x = y
      BY <1>1, <1>6, <2>1
    <2> QED
      BY <1>2, <2>2
  <1>7. Catalog!RemoveAt(l, i) = r
    BY DEF Catalog!RemoveAt, r, a, b
  <1> QED
    BY <1>5, <1>6, <1>7, ListingIs

LEMMA Added ==
    ASSUME NEW l \in Catalog!Listings, NEW g \in Goods \ Catalog!Range(l)
    PROVE  <<g>> \o l \in Catalog!Listings
  <1> DEFINE r == <<g>> \o l
  <1>1. /\ l \in Seq(Goods) /\ Len(l) \in Nat /\ DOMAIN l = 1 .. Len(l)
        /\ \A j, k \in 1 .. Len(l) : l[j] = l[k] => j = k
    BY ListingIs, LenProperties
  <1>2. <<g>> \in Seq(Goods) /\ Len(<<g>>) = 1 /\ <<g>>[1] = g
    OBVIOUS
  <1>3. /\ r \in Seq(Goods) /\ Len(r) = 1 + Len(l)
        /\ \A j \in 1 .. 1 + Len(l) : r[j] = IF j <= 1 THEN <<g>>[j] ELSE l[j - 1]
    BY <1>1, <1>2, ConcatProperties
  <1> HIDE DEF r
  <1>4. \A k \in 1 .. Len(l) : l[k] # g
    BY <1>1 DEF Catalog!Range
  <1>5. ASSUME NEW j \in 1 .. Len(r), NEW k \in 1 .. Len(r), r[j] = r[k] PROVE j = k
    <2>1. \A x \in 1 .. Len(r) : \/ x = 1 /\ r[x] = g
                                 \/ x - 1 \in 1 .. Len(l) /\ r[x] = l[x - 1]
      BY <1>1, <1>2, <1>3
    <2>2. \/ j = 1 /\ r[j] = g
          \/ j - 1 \in 1 .. Len(l) /\ r[j] = l[j - 1]
      BY <2>1
    <2>3. \/ k = 1 /\ r[k] = g
          \/ k - 1 \in 1 .. Len(l) /\ r[k] = l[k - 1]
      BY <2>1
    <2>4. j - 1 \in 1 .. Len(l) /\ k - 1 \in 1 .. Len(l) /\ l[j - 1] = l[k - 1] =>
             j - 1 = k - 1
      BY <1>1
    <2> QED
      BY <1>1, <1>3, <1>4, <1>5, <2>2, <2>3, <2>4
  <1> QED
    BY <1>3, <1>5, ListingIs DEF r

CatInv == Catalog!TypeOK /\ Catalog!RequestIsKept

\* How many goods there are was told at most once.
LEMMA OneTotal ==
    /\ Catalog!Cardinality({}) <= 1
    /\ \A n : Catalog!Cardinality({n}) <= 1
  <1>1. Cardinality({}) = 0 /\ \A n : Cardinality({n}) = 1
    BY FS_EmptySet, FS_Singleton
  <1>2. Catalog!Cardinality({}) = 0 /\ \A n : Catalog!Cardinality({n}) = 1
    BY <1>1, GoodsBounds
  <1>3. Catalog!Cardinality({}) <= 1
    BY <1>2
  <1>4. ASSUME NEW n PROVE Catalog!Cardinality({n}) <= 1
    <2>1. Catalog!Cardinality({n}) = 1
      BY <1>2
    <2> QED
      BY <2>1
  <1> QED
    BY <1>3, <1>4

LEMMA CatalogBegins == Catalog!Init => CatInv
  <1> SUFFICES ASSUME Catalog!Init PROVE CatInv
    OBVIOUS
  <1>1. /\ cListing \in [OpenShops -> Catalog!Listings] /\ cStored = {} /\ cPc = "startup"
        /\ cPage = 1 /\ cWritten = 0 /\ cTotal = {}
        /\ cWakeup = FALSE /\ cAsked = FALSE /\ cChanges = 0 /\ cFaults = 0
    BY DEF Catalog!Init
  <1>2. /\ cStored \in SUBSET (Goods \ Unnumbered)
        /\ cPage \in 1 .. MaxPages /\ cWritten \in Nat
        /\ cChanges \in 0 .. MaxChanges /\ cFaults \in 0 .. MaxFaults
    BY <1>1, GoodsBounds
  <1>3. /\ \A n \in cTotal : n \in 0 .. Catalog!Cardinality(Goods)
        /\ Catalog!Cardinality(cTotal) <= 1
    BY <1>1, OneTotal
  <1> QED
    BY <1>1, <1>2, <1>3 DEF CatInv, Catalog!TypeOK, Catalog!RequestIsKept

LEMMA ChangeKeeps ==
    ASSUME CatInv, NEW s \in OpenShops, Catalog!Change(s)
    PROVE  CatInv'
  <1>1. /\ cListing \in [OpenShops -> Catalog!Listings]
        /\ cChanges \in 0 .. MaxChanges /\ cChanges < MaxChanges
        /\ cChanges' = cChanges + 1
        /\ UNCHANGED <<cStored, cPc, cPage, cWritten, cTotal, cWakeup, cAsked, cFaults>>
    BY DEF CatInv, Catalog!TypeOK, Catalog!Change, Catalog!sweep
  <1>2. cChanges' \in 0 .. MaxChanges
    BY <1>1, GoodsBounds
  <1>3. PICK l \in Catalog!Listings : cListing' = [cListing EXCEPT ![s] = l]
    <2>1. cListing[s] \in Catalog!Listings
      BY <1>1
    <2>2. \/ \E i \in DOMAIN cListing[s] :
                cListing' = [cListing EXCEPT ![s] = Catalog!RemoveAt(cListing[s], i)]
          \/ \E g \in Goods \ Catalog!Range(cListing[s]) :
                cListing' = [cListing EXCEPT ![s] = <<g>> \o cListing[s]]
      BY DEF Catalog!Change, Catalog!OnSale
    <2> QED
      BY <2>1, <2>2, Removed, Added
  <1>4. cListing' \in [OpenShops -> Catalog!Listings]
    BY <1>1, <1>3
  <1> QED
    BY <1>1, <1>2, <1>4 DEF CatInv, Catalog!TypeOK, Catalog!RequestIsKept

\* A page of the listing that was not the last one to ask for has one behind it.
LEMMA FetchKeeps ==
    ASSUME CatInv, NEW s \in OpenShops, NEW tells \in BOOLEAN, Catalog!Fetch(s, tells)
    PROVE  CatInv'
  <1> DEFINE b == Catalog!Batch(s)
             named == Catalog!Range(b) \ Unnumbered
             t == IF tells THEN {Len(cListing[s])} ELSE cTotal
             w == cWritten + Catalog!Cardinality(named)
  <1>1. /\ cPc = "fetch" /\ cStored' = cStored \cup named
        /\ cWritten' = w /\ cTotal' = t
        /\ \/ Catalog!LastPage(b, w, t) /\ cPc' = "wait" /\ cPage' = cPage
           \/ ~ Catalog!LastPage(b, w, t) /\ cPage' = cPage + 1 /\ cPc' = cPc
        /\ UNCHANGED <<cListing, cWakeup, cAsked, cChanges, cFaults>>
    BY DEF Catalog!Fetch
  <1>2. CatInv
    OBVIOUS
  <1>3. /\ cListing \in [OpenShops -> Catalog!Listings] /\ cListing[s] \in Catalog!Listings
        /\ cStored \in SUBSET (Goods \ Unnumbered)
        /\ cPage \in 1 .. MaxPages /\ cWritten \in Nat
        /\ \A n \in cTotal : n \in 0 .. Catalog!Cardinality(Goods)
        /\ Catalog!Cardinality(cTotal) <= 1
        /\ cWakeup \in BOOLEAN /\ cAsked \in BOOLEAN
        /\ cChanges \in 0 .. MaxChanges /\ cFaults \in 0 .. MaxFaults
        /\ cAsked => cWakeup
    BY <1>1, <1>2 DEF CatInv, Catalog!TypeOK, Catalog!RequestIsKept
  <1>4. named \subseteq Goods \ Unnumbered
    <2> DEFINE m == (cPage - 1) * PageSize + 1
               n == IF cPage * PageSize < Len(cListing[s]) THEN cPage * PageSize
                                                         ELSE Len(cListing[s])
    <2>1. /\ cListing[s] \in Seq(Goods) /\ Len(cListing[s]) \in Nat
          /\ \A i \in 1 .. Len(cListing[s]) : cListing[s][i] \in Goods
      BY <1>3, ListingIs, LenProperties
    <2>2. cPage - 1 \in Nat /\ cPage \in Nat /\ PageSize \in Nat
      BY <1>3, GoodsBounds
    <2>3. (cPage - 1) * PageSize \in Nat /\ cPage * PageSize \in Nat
      BY <2>2
    <2>4. m \in Int /\ m >= 1 /\ n \in Int /\ n <= Len(cListing[s])
      BY <2>1, <2>3
    <2>5. b = SubSeq(cListing[s], m, n)
      BY DEF Catalog!Batch
    <2> HIDE DEF m, n
    <2>6. \A i \in m .. n : cListing[s][i] \in Goods
      BY <2>1, <2>4
    <2>7. SubSeq(cListing[s], m, n) \in Seq(Goods)
      BY <2>4, <2>6, SubSeqProperties
    <2>8. b \in Seq(Goods)
      BY <2>5, <2>7
    <2> HIDE DEF b
    <2>9. DOMAIN b = 1 .. Len(b) /\ \A i \in 1 .. Len(b) : b[i] \in Goods
      BY <2>8, LenProperties
    <2> QED
      BY <2>9 DEF Catalog!Range
  <1>5. w \in Nat
    <2>1. named \subseteq Goods
      BY <1>4
    <2> HIDE DEF named
    <2>2. IsFiniteSet(named)
      BY <2>1, GoodsBounds, FS_Subset
    <2>3. Catalog!Cardinality(named) \in Nat
      BY <2>2, GoodsBounds, FS_CardinalityType
    <2> QED
      BY <1>3, <2>3
  <1>6. /\ \A n \in t : n \in 0 .. Catalog!Cardinality(Goods)
        /\ Catalog!Cardinality(t) <= 1
    <2>1. Len(cListing[s]) \in 0 .. Catalog!Cardinality(Goods)
      BY <1>3, FitsGoods, GoodsBounds
    <2>2. CASE tells
      <3>1. t = {Len(cListing[s])}
        BY <2>2
      <3> HIDE DEF t
      <3> QED
        BY <2>1, <3>1, OneTotal
    <2>3. CASE ~ tells
      BY <1>3, <2>3
    <2> QED
      BY <2>2, <2>3
  <1> HIDE DEF b, named, t, w
  <1>7. cPage' \in 1 .. MaxPages
    <2>1. ~ Catalog!LastPage(b, w, t) => cPage # MaxPages
      BY DEF Catalog!LastPage
    <2> QED
      BY <1>1, <1>3, <2>1, GoodsBounds
  <1>8. cStored' \in SUBSET (Goods \ Unnumbered) /\ cPc' \in {"wait", "fetch"}
    BY <1>1, <1>3, <1>4
  <1> QED
    BY <1>1, <1>3, <1>5, <1>6, <1>7, <1>8
    DEF CatInv, Catalog!TypeOK, Catalog!RequestIsKept

LEMMA FaultKeeps ==
    ASSUME CatInv, cFaults < MaxFaults, cFaults' = cFaults + 1
    PROVE  cFaults' \in 0 .. MaxFaults
  <1>1. cFaults \in 0 .. MaxFaults
    BY DEF CatInv, Catalog!TypeOK
  <1> QED
    BY <1>1, GoodsBounds

LEMMA RunKeeps ==
    ASSUME CatInv,
           \/ Catalog!RequestSync \/ Catalog!Started \/ Catalog!WaitEnds \/ Catalog!Clear
           \/ Catalog!Begin \/ Catalog!FetchFails \/ Catalog!Restart
    PROVE  CatInv'
  <1> USE DEF CatInv, Catalog!TypeOK, Catalog!RequestIsKept, Catalog!sweep
  <1>1. CASE Catalog!RequestSync
    BY <1>1 DEF Catalog!RequestSync
  <1>2. CASE Catalog!Started
    BY <1>2 DEF Catalog!Started
  <1>3. CASE Catalog!WaitEnds
    BY <1>3 DEF Catalog!WaitEnds
  <1>4. CASE Catalog!Clear
    BY <1>4 DEF Catalog!Clear
  <1>5. CASE Catalog!Begin
    <2>1. 1 \in 1 .. MaxPages /\ 0 \in Nat
      BY GoodsBounds
    <2>2. cFaults' \in 0 .. MaxFaults /\ cPc' \in {"fetch", "wait"}
      BY <1>5, FaultKeeps DEF Catalog!Begin
    <2> QED
      BY <1>5, <2>1, <2>2, OneTotal DEF Catalog!Begin
  <1>6. CASE Catalog!FetchFails
    BY <1>6, FaultKeeps DEF Catalog!FetchFails
  <1>7. CASE Catalog!Restart
    BY <1>7, FaultKeeps DEF Catalog!Restart
  <1> QED
    BY <1>1, <1>2, <1>3, <1>4, <1>5, <1>6, <1>7

LEMMA CatalogKeeps == CatInv /\ [Catalog!Next]_catalog => CatInv'
  <1> SUFFICES ASSUME CatInv, [Catalog!Next]_catalog PROVE CatInv'
    OBVIOUS
  <1>1. CASE UNCHANGED catalog
    BY <1>1 DEF catalog, CatInv, Catalog!TypeOK, Catalog!RequestIsKept
  <1>2. CASE \E s \in OpenShops : Catalog!Change(s)
    BY <1>2, ChangeKeeps
  <1>3. CASE Catalog!FetchAny
    BY <1>3, FetchKeeps DEF Catalog!FetchAny
  <1>4. CASE \/ Catalog!RequestSync \/ Catalog!Started \/ Catalog!WaitEnds
             \/ Catalog!Clear \/ Catalog!Begin \/ Catalog!FetchFails \/ Catalog!Restart
    BY <1>4, RunKeeps
  <1> QED
    BY <1>1, <1>2, <1>3, <1>4 DEF Catalog!Next, Catalog!Advance

-----------------------------------------------------------------------------
(* The parts together.                                                       *)

InboundInv ==
    /\ OrdersInv
    /\ LogInv
    /\ NicksInv
    /\ CatInv

LEMMA InboundBegins == PartsInit => InboundInv
  BY OrdersBegin, LogBegins, NicksBegin, CatalogBegins DEF PartsInit, InboundInv

LEMMA InboundKeeps == InboundInv /\ [PartsNext]_all => InboundInv' /\ NickStays
  <1> SUFFICES ASSUME InboundInv, [PartsNext]_all PROVE InboundInv' /\ NickStays
    OBVIOUS
  <1>1. /\ [Orders!Next]_orders /\ [Log!Next]_log
        /\ [Nicks!Next]_nicknames /\ [Catalog!Next]_catalog
    BY StepOfPart
  <1> QED
    BY <1>1, OrdersKeep, LogKeeps, NicksKeep, CatalogKeeps DEF InboundInv

LEMMA InboundAlways == PartsSpec => []InboundInv
  <1>1. InboundInv /\ [PartsNext]_all => InboundInv'
    BY InboundKeeps
  <1> QED
    BY <1>1, InboundBegins, PTL DEF PartsSpec

\* The look-up of orders, the reader of the log, the worker of the nicknames
\* and the syncer of the goods keep their types: no queue, table, offset or page
\* number leaves its bounds, for any messages, buyers, goods and bounds.
THEOREM InboundTypes == PartsSpec => []TypesOK
  <1>1. InboundInv => Orders!TypeOK /\ Log!TypeOK /\ Nicks!TypeOK /\ Catalog!TypeOK
    BY OrderTypesAre, LogTypesHold
      DEF InboundInv, OrdersInv, CatInv, NicksInv, NickTypes, Nicks!TypeOK
  <1>2. InboundInv => TypesOK
    BY <1>1 DEF TypesOK
  <1> QED
    BY <1>2, InboundAlways, PTL

\* A guarded message is said to have no orders only after a page, asked on behalf
\* of its account, answered that there are none, or the client's log names the
\* buyer, and orders are found only if a page so asked answered with some: what
\* ContextEnricher queues, caches, shares and tries again never turns an error, a
\* refusal, a time-out or an answer for another account into either, however
\* many pages answer and in whatever order.  That the page is the shop's own is
\* not promised (see the run OrderPages).
THEOREM OrdersToldHonestly ==
    PartsSpec => [](Orders!AbsenceWasTold /\ Orders!FoundWereTold)
  <1>1. InboundInv => Orders!AbsenceWasTold /\ Orders!FoundWereTold
    BY OrdersTold DEF InboundInv, OrdersInv
  <1> QED
    BY <1>1, InboundAlways, PTL

\* As long as its offset has not strayed, the reader of the client's log hands on
\* whole lines only: from the start in the middle of a file on, after calls of the
\* file system that failed, when the file is found again, and across rotations
\* that show in its size (lines of two bytes, however many are read at the start).
\* An offset strays by a character that was cut, by a file found again behind
\* half a line, or by a rotation that does not show, and by nothing else.
THEOREM WholeLinesRead == PartsSpec => []Log!WholeLines
  <1>1. InboundInv => Log!WholeLines
    BY LogIsRead DEF InboundInv
  <1> QED
    BY <1>1, InboundAlways, PTL

\* A buyer keeps a nickname once found, whichever of its three writers (the
\* capture, the refresh and the resolver) is late.
THEOREM NicknamesStay == PartsSpec => Nicks!NicknameStays
  <1>1. InboundInv /\ [PartsNext]_all =>
          [\A b \in Buyers : nDb[b] # 0 => nDb'[b] # 0]_(Nicks!vars)
    BY InboundKeeps DEF NickStays
  <1> QED
    BY <1>1, InboundAlways, PTL DEF PartsSpec, Nicks!NicknameStays

\* A request to sync the goods stands until a sync begins after it: the thread
\* clears its event only before it reads the pages.
THEOREM RequestsKept == PartsSpec => []Catalog!RequestIsKept
  <1>1. InboundInv => Catalog!RequestIsKept
    BY DEF InboundInv, CatInv
  <1> QED
    BY <1>1, InboundAlways, PTL

=============================================================================
