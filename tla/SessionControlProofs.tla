------------------------ MODULE SessionControlProofs ------------------------
(* Proofs about SessionControl: types, the bound on late answers, and who     *)
(* ends an operator's hold.                                                   *)
EXTENDS SessionControl, SequenceTheorems, TLAPS

\* A thread that applies something knows the conversation.
HandsKnow == \A p \in Appliers : hand[p].pc # "idle" => hand[p].s \in Sessions

\* The keyword rule goes on only with a conversation it saw with the AI.
KeywordSawAi == ingest.s # Nothing => ~Human(ingest.seen)

\* An executor that is past the check of a conversation now held has sent
\* nothing into the hold yet.
CheckedBefore ==
    \A s \in Ordinary, x \in Executors :
        Held(ctl[s]) /\ checked[x] = s => late[s][x] = 0

\* A switch that was asked for is one of a conversation.
SwitchKnows == op.pc = "asked" => op.s \in Sessions

Inv ==
    /\ TypeOK /\ HandsKnow /\ KeywordSawAi /\ SwitchKnows
    /\ CheckedBefore /\ LateAnswersBounded

\* The control of s, and the count of late answers, after SetControl.
LEMMA SetControlEffect ==
  ASSUME TypeOK, NEW s \in Sessions, NEW m \in {"ai", "human"},
         NEW src \in Sources, SetControl(s, m, src)
  PROVE  /\ ctl' \in [Sessions -> Controls]
         /\ late' \in [Sessions -> [Executors -> Nat]]
         /\ ctl'[s] = [mode |-> m, source |-> src]
         /\ \A t \in Sessions \ {s} : ctl'[t] = ctl[t] /\ late'[t] = late[t]
         /\ \A x \in Executors :
              IF Held(ctl'[s]) /\ ~Held(ctl[s]) THEN late'[s][x] = 0
                                                ELSE late'[s][x] = late[s][x]
  <1>1. [mode |-> m, source |-> src] \in Controls
    BY DEF Controls
  <1>2. ctl' = [ctl EXCEPT ![s] = [mode |-> m, source |-> src]]
    BY DEF SetControl
  <1>3. /\ ctl' \in [Sessions -> Controls]
        /\ ctl'[s] = [mode |-> m, source |-> src]
        /\ \A t \in Sessions \ {s} : ctl'[t] = ctl[t]
    BY <1>1, <1>2 DEF TypeOK
  <1>4. CASE Held(ctl'[s]) /\ ~Held(ctl[s])
    <2>1. late' = [late EXCEPT ![s] = [x \in Executors |-> 0]]
      BY <1>3, <1>4 DEF SetControl
    <2> QED
      BY <1>3, <1>4, <2>1 DEF TypeOK
  <1>5. CASE ~(Held(ctl'[s]) /\ ~Held(ctl[s]))
    <2>1. late' = late
      BY <1>3, <1>5 DEF SetControl
    <2> QED
      BY <1>3, <1>5, <2>1 DEF TypeOK
  <1> QED
    BY <1>4, <1>5

\* A new control of one conversation keeps what is said of late answers, as
\* long as the executors' checks stay.
LEMMA SetControlKeeps ==
  ASSUME Inv, NEW s \in Sessions, NEW m \in {"ai", "human"},
         NEW src \in Sources, SetControl(s, m, src), UNCHANGED checked
  PROVE  /\ ctl' \in [Sessions -> Controls]
         /\ late' \in [Sessions -> [Executors -> Nat]]
         /\ CheckedBefore' /\ LateAnswersBounded'
  <1>1. TypeOK
    BY DEF Inv
  <1>2. /\ ctl' \in [Sessions -> Controls]
        /\ late' \in [Sessions -> [Executors -> Nat]]
        /\ \A t \in Sessions \ {s} : ctl'[t] = ctl[t] /\ late'[t] = late[t]
        /\ \A x \in Executors :
             IF Held(ctl'[s]) /\ ~Held(ctl[s]) THEN late'[s][x] = 0
                                               ELSE late'[s][x] = late[s][x]
    BY <1>1, SetControlEffect
  <1>3. ASSUME NEW t \in Ordinary, NEW x \in Executors
        PROVE  /\ Held(ctl'[t]) /\ checked'[x] = t => late'[t][x] = 0
               /\ late'[t][x] =< 1
    <2>1. /\ t \in Sessions
          /\ Held(ctl[t]) /\ checked[x] = t => late[t][x] = 0
          /\ late[t][x] =< 1
      BY DEF Inv, CheckedBefore, LateAnswersBounded, Sessions
    <2>2. CASE t # s
      BY <1>2, <2>1, <2>2
    <2>3. CASE t = s
      BY <1>2, <2>1, <2>3
    <2> QED
      BY <2>2, <2>3
  <1> QED
    BY <1>2, <1>3 DEF CheckedBefore, LateAnswersBounded

\* A thread's hand after Look, Apply or a message of the brain.
LEMMA HandChanges ==
  ASSUME TypeOK, HandsKnow, NEW p \in Appliers, NEW h \in Hands,
         h.pc # "idle" => h.s \in Sessions, hand' = [hand EXCEPT ![p] = h]
  PROVE  hand' \in [Appliers -> Hands] /\ HandsKnow'
  <1>1. hand' \in [Appliers -> Hands]
    BY DEF TypeOK
  <1>2. ASSUME NEW q \in Appliers, hand'[q].pc # "idle"
        PROVE  hand'[q].s \in Sessions
    BY <1>2 DEF TypeOK, HandsKnow
  <1> QED
    BY <1>1, <1>2 DEF HandsKnow

\* Steps that leave the controls, the hands, the checks and the keyword rule
\* alone, and keep the types of the rest.
LEMMA OthersKeep ==
  ASSUME Inv, TypeOK', SwitchKnows',
         UNCHANGED <<ctl, hand, ingest, checked, late>>
  PROVE  Inv'
  BY DEF Inv, HandsKnow, KeywordSawAi, CheckedBefore, LateAnswersBounded

LEMMA InitHolds == Init => Inv
  <1> SUFFICES ASSUME Init PROVE Inv
    OBVIOUS
  <1>1. TypeOK
    <2>1. ctl \in [Sessions -> Controls]
      <3>1. {Default, [mode |-> "human", source |-> "manual"],
             [mode |-> "human", source |-> "automatic"]} \subseteq Controls
        BY DEF Default, Controls, Sources
      <3> QED
        BY <3>1 DEF Init
    <2>2. hand \in [Appliers -> Hands]
      BY DEF Init, Free, Hands
    <2>3. ingest \in [s : Sessions \cup {Nothing}, seen : Controls]
      BY DEF Init, Default, Controls, Sources
    <2>4. pushed \in [Sessions -> Seq([on : BOOLEAN, pause : BOOLEAN])]
      BY DEF Init
    <2>5. late \in [Sessions -> [Executors -> Nat]]
      BY DEF Init
    <2> QED
      BY <2>1, <2>2, <2>3, <2>4, <2>5 DEF Init, TypeOK
  <1>2. HandsKnow /\ KeywordSawAi /\ SwitchKnows
    BY DEF Init, HandsKnow, KeywordSawAi, SwitchKnows, Free
  <1>3. CheckedBefore /\ LateAnswersBounded
    BY DEF Init, CheckedBefore, LateAnswersBounded, Sessions
  <1> QED
    BY <1>1, <1>2, <1>3 DEF Inv

LEMMA StepHolds == Inv /\ [Next]_vars => Inv'
  <1> SUFFICES ASSUME Inv, [Next]_vars PROVE Inv'
    OBVIOUS
  <1>t. TypeOK /\ HandsKnow /\ KeywordSawAi /\ SwitchKnows
    BY DEF Inv
  <1>1. ASSUME NEW s \in Sessions, NEW b \in [handoff : BOOLEAN, paused : BOOLEAN],
               BrainDecides(s, b)
        PROVE  Inv'
    <2>1. pushed' \in [Sessions -> Seq([on : BOOLEAN, pause : BOOLEAN])]
      BY <1>1, <1>t DEF BrainDecides, Tell, TypeOK
    <2>2. TypeOK'
      BY <1>1, <1>t, <2>1 DEF BrainDecides, TypeOK, polling, counts
    <2>3. SwitchKnows'
      BY <1>1, <1>t DEF BrainDecides, SwitchKnows
    <2> QED
      BY <1>1, <2>2, <2>3, OthersKeep DEF BrainDecides
  <1>2. ASSUME NEW s \in Sessions, NEW ai \in BOOLEAN, SwitchAsked(s, ai)
        PROVE  Inv'
    <2>1. [brain[s] EXCEPT !.paused = ~ai] \in [handoff : BOOLEAN, paused : BOOLEAN]
      BY <1>t DEF TypeOK
    <2>2. /\ brain' \in [Sessions -> [handoff : BOOLEAN, paused : BOOLEAN]]
          /\ pushed' \in [Sessions -> Seq([on : BOOLEAN, pause : BOOLEAN])]
      BY <1>2, <1>t, <2>1 DEF SwitchAsked, Tell, TypeOK
    <2>3. TypeOK'
      BY <1>2, <1>t, <2>2 DEF SwitchAsked, TypeOK, polling
    <2>4. SwitchKnows'
      BY <1>2 DEF SwitchAsked, SwitchKnows
    <2> QED
      BY <1>2, <2>3, <2>4, OthersKeep DEF SwitchAsked
  <1>3. CASE SwitchConfirmed
    <2>1. /\ op.s \in Sessions
          /\ (IF op.ai THEN "ai" ELSE "human") \in {"ai", "human"}
          /\ (IF op.ai THEN "brain" ELSE "brain_pause") \in Sources
      BY <1>3, <1>t DEF SwitchConfirmed, SwitchKnows, Sources
    <2>2. /\ ctl' \in [Sessions -> Controls]
          /\ late' \in [Sessions -> [Executors -> Nat]]
          /\ CheckedBefore' /\ LateAnswersBounded'
      BY <1>3, <2>1, SetControlKeeps DEF SwitchConfirmed
    <2>3. TypeOK' /\ SwitchKnows' /\ HandsKnow' /\ KeywordSawAi'
      BY <1>3, <1>t, <2>2
      DEF SwitchConfirmed, TypeOK, SwitchKnows, HandsKnow, KeywordSawAi, polling,
        counts
    <2> QED
      BY <2>2, <2>3 DEF Inv
  <1>4. CASE SwitchRefused
    <2>1. TypeOK' /\ SwitchKnows'
      BY <1>4, <1>t DEF SwitchRefused, TypeOK, SwitchKnows, polling, counts
    <2> QED
      BY <1>4, <2>1, OthersKeep DEF SwitchRefused
  <1>5. ASSUME NEW s \in Sessions, KeywordSeen(s) PROVE Inv'
    <2>1. TypeOK' /\ SwitchKnows' /\ HandsKnow'
      BY <1>5, <1>t DEF KeywordSeen, TypeOK, SwitchKnows, HandsKnow, polling
    <2>2. KeywordSawAi' /\ CheckedBefore' /\ LateAnswersBounded'
      BY <1>5
      DEF KeywordSeen, Inv, KeywordSawAi, CheckedBefore, LateAnswersBounded
    <2> QED
      BY <2>1, <2>2 DEF Inv
  <1>6. CASE KeywordHolds
    <2>1. ingest.s \in Sessions /\ "automatic" \in Sources
      BY <1>6, <1>t DEF KeywordHolds, TypeOK, Sources
    <2>2. /\ ctl' \in [Sessions -> Controls]
          /\ late' \in [Sessions -> [Executors -> Nat]]
          /\ CheckedBefore' /\ LateAnswersBounded'
      BY <1>6, <2>1, SetControlKeeps DEF KeywordHolds
    <2>3. ingest' \in [s : Sessions \cup {Nothing}, seen : Controls]
      BY <1>6 DEF KeywordHolds, Default, Controls, Sources
    <2>4. TypeOK' /\ SwitchKnows' /\ HandsKnow' /\ KeywordSawAi'
      BY <1>6, <1>t, <2>2, <2>3
      DEF KeywordHolds, TypeOK, SwitchKnows, HandsKnow, KeywordSawAi, polling,
        counts
    <2> QED
      BY <2>2, <2>4 DEF Inv
  <1>7. ASSUME NEW s \in Sessions, Expire(s) PROVE Inv'
    <2>1. Default \in Controls /\ ~Held(Default)
      BY DEF Default, Controls, Sources, Held, Human
    <2>2. /\ ctl' \in [Sessions -> Controls]
          /\ ~Held(ctl'[s])
          /\ \A t \in Sessions \ {s} : ctl'[t] = ctl[t]
      BY <1>7, <1>t, <2>1 DEF Expire, TypeOK
    <2>3. TypeOK' /\ SwitchKnows' /\ HandsKnow' /\ KeywordSawAi'
      BY <1>7, <1>t, <2>2
      DEF Expire, TypeOK, SwitchKnows, HandsKnow, KeywordSawAi, polling, counts
    <2>4. CheckedBefore' /\ LateAnswersBounded'
      BY <1>7, <2>2
      DEF Expire, Inv, CheckedBefore, LateAnswersBounded, Sessions
    <2> QED
      BY <2>3, <2>4 DEF Inv
  <1>8. ASSUME NEW p \in Appliers, Look(p) PROVE Inv'
    <2> DEFINE h == [hand[p] EXCEPT !.pc = "seen", !.seen = ctl[hand[p].s]]
    <2>1. /\ hand[p].pc = "told" /\ hand[p] \in Hands /\ hand[p].s \in Sessions
          /\ ctl[hand[p].s] \in Controls
      BY <1>8, <1>t DEF Look, TypeOK, HandsKnow
    <2>2. h \in Hands /\ h.s \in Sessions
      BY <2>1 DEF Hands
    <2>3. hand' = [hand EXCEPT ![p] = h]
      BY <1>8, <1>t DEF Look, TypeOK
    <2>4. hand' \in [Appliers -> Hands] /\ HandsKnow'
      BY <1>t, <2>2, <2>3, HandChanges
    <2> QED
      BY <1>8, <2>4
      DEF Look, Inv, TypeOK, KeywordSawAi, SwitchKnows, CheckedBefore,
        LateAnswersBounded, polling, counts
  <1>9. ASSUME NEW p \in Appliers, Apply(p) PROVE Inv'
    <2> DEFINE h == IF hand[p].pause
                    THEN [hand[p] EXCEPT !.pc = "settle", !.seen = Nothing]
                    ELSE Free
    <2>1. /\ hand[p].pc = "seen" /\ hand[p] \in Hands /\ hand[p].s \in Sessions
          /\ "brain" \in Sources
      BY <1>9, <1>t DEF Apply, TypeOK, HandsKnow, Sources
    <2>2. h \in Hands /\ (h.pc # "idle" => h.s \in Sessions)
      BY <2>1 DEF Hands, Free
    <2>3. hand' = [hand EXCEPT ![p] = h]
      BY <1>9 DEF Apply
    <2>4. hand' \in [Appliers -> Hands] /\ HandsKnow'
      BY <1>t, <2>2, <2>3, HandChanges
    <2>5. \/ SetControl(hand[p].s, "human", "brain")
          \/ SetControl(hand[p].s, "ai", "brain")
          \/ UNCHANGED <<ctl, late>>
      BY <1>9 DEF Apply
    <2>6. /\ ctl' \in [Sessions -> Controls]
          /\ late' \in [Sessions -> [Executors -> Nat]]
          /\ CheckedBefore' /\ LateAnswersBounded'
      <3>1. checked' = checked
        BY <1>9 DEF Apply
      <3>2. CASE SetControl(hand[p].s, "human", "brain")
        BY <2>1, <3>1, <3>2, SetControlKeeps
      <3>3. CASE SetControl(hand[p].s, "ai", "brain")
        BY <2>1, <3>1, <3>3, SetControlKeeps
      <3>4. CASE UNCHANGED <<ctl, late>>
        BY <3>1, <3>4 DEF Inv, TypeOK, CheckedBefore, LateAnswersBounded
      <3> QED
        BY <2>5, <3>2, <3>3, <3>4
    <2> QED
      BY <1>9, <2>4, <2>6
      DEF Apply, Inv, TypeOK, KeywordSawAi, SwitchKnows, polling, counts
  <1>10. ASSUME NEW s \in Sessions, StateCommand(s) PROVE Inv'
    <2>1. s \in Appliers /\ Head(pushed[s]) \in [on : BOOLEAN, pause : BOOLEAN]
          /\ Tail(pushed[s]) \in Seq([on : BOOLEAN, pause : BOOLEAN])
      <3>1. s \in Appliers /\ pushed[s] # <<>>
        BY <1>10 DEF StateCommand, Appliers
      <3>2. pushed[s] \in Seq([on : BOOLEAN, pause : BOOLEAN])
        BY <1>t DEF TypeOK
      <3> QED
        BY <3>1, <3>2, HeadTailProperties
    <2> DEFINE m == Head(pushed[s])
               h == IF ctl[s].source = "brain_pause" /\ ~m.on /\ ~m.pause
                    THEN [Told(s, FALSE, FALSE) EXCEPT !.pc = "settle"]
                    ELSE Told(s, m.on \/ m.pause, m.pause /\ ~m.on)
    <2>2. h \in Hands /\ h.s \in Sessions
      BY <2>1 DEF Told, Hands
    <2>3. hand' = [hand EXCEPT ![s] = h]
      BY <1>10 DEF StateCommand
    <2>4. hand' \in [Appliers -> Hands] /\ HandsKnow'
      BY <1>t, <2>1, <2>2, <2>3, HandChanges
    <2>5. pushed' \in [Sessions -> Seq([on : BOOLEAN, pause : BOOLEAN])]
      BY <1>10, <1>t, <2>1 DEF StateCommand, TypeOK
    <2> QED
      BY <1>10, <2>4, <2>5
      DEF StateCommand, Inv, TypeOK, KeywordSawAi, SwitchKnows, CheckedBefore,
        LateAnswersBounded, polling, counts
  <1>11. ASSUME NEW s \in Sessions, Resume(s) \/ Pause(s) PROVE Inv'
    <2>1. s \in Appliers /\ "brain" \in Sources /\ "brain_pause" \in Sources
          /\ Free \in Hands
      BY <1>11 DEF Resume, Pause, Appliers, Sources, Free, Hands
    <2>2. hand' = [hand EXCEPT ![s] = Free]
      BY <1>11 DEF Resume, Pause
    <2>3. hand' \in [Appliers -> Hands] /\ HandsKnow'
      BY <1>t, <2>1, <2>2, HandChanges DEF Free
    <2>4. /\ ctl' \in [Sessions -> Controls]
          /\ late' \in [Sessions -> [Executors -> Nat]]
          /\ CheckedBefore' /\ LateAnswersBounded'
      <3>1. checked' = checked
        BY <1>11 DEF Resume, Pause
      <3>2. CASE SetControl(s, "ai", "brain")
        BY <2>1, <3>1, <3>2, SetControlKeeps
      <3>3. CASE SetControl(s, "human", "brain_pause")
        BY <2>1, <3>1, <3>3, SetControlKeeps
      <3>4. CASE UNCHANGED <<ctl, late>>
        BY <3>1, <3>4 DEF Inv, TypeOK, CheckedBefore, LateAnswersBounded
      <3> QED
        BY <1>11, <3>2, <3>3, <3>4 DEF Resume, Pause
    <2> QED
      BY <1>11, <2>3, <2>4
      DEF Resume, Pause, Inv, TypeOK, KeywordSawAi, SwitchKnows, polling, counts
  <1>12. ASSUME NEW s \in Sessions, FetchPage(s) PROVE Inv'
    <2>1. TypeOK' /\ SwitchKnows'
      BY <1>12, <1>t DEF FetchPage, TypeOK, SwitchKnows, counts
    <2> QED
      BY <1>12, <2>1, OthersKeep DEF FetchPage
  <1>13. ASSUME NEW s \in Sessions, PollTells(s) \/ DraftSync(s) PROVE Inv'
    <2>1. PICK on \in BOOLEAN : hand' = [hand EXCEPT !["poll"] = Told(s, on, FALSE)]
      <3>1. CASE PollTells(s)
        BY <3>1 DEF PollTells
      <3>2. CASE DraftSync(s)
        BY <3>2, <1>t DEF DraftSync, TypeOK
      <3> QED
        BY <1>13, <3>1, <3>2
    <2>2. "poll" \in Appliers /\ Told(s, on, FALSE) \in Hands
          /\ Told(s, on, FALSE).s \in Sessions
      BY DEF Appliers, Told, Hands
    <2>3. hand' \in [Appliers -> Hands] /\ HandsKnow'
      BY <1>t, <2>1, <2>2, HandChanges
    <2>4. /\ todo' \in SUBSET Sessions
          /\ UNCHANGED <<ctl, brain, pushed, pc, remote, ingest, op, checked,
                         late, counts>>
      BY <1>13, <1>t DEF PollTells, DraftSync, TypeOK, polling
    <2>5. TypeOK'
      BY <1>t, <2>3, <2>4 DEF TypeOK, counts
    <2>6. KeywordSawAi' /\ SwitchKnows' /\ CheckedBefore' /\ LateAnswersBounded'
      BY <2>4 DEF Inv, KeywordSawAi, SwitchKnows, CheckedBefore, LateAnswersBounded
    <2> QED
      BY <2>3, <2>5, <2>6 DEF Inv
  <1>14. ASSUME NEW s \in Sessions, NEW x \in Executors, Check(x, s) PROVE Inv'
    <2>1. TypeOK' /\ SwitchKnows' /\ HandsKnow' /\ KeywordSawAi'
      BY <1>14, <1>t
      DEF Check, TypeOK, SwitchKnows, HandsKnow, KeywordSawAi, polling
    <2>2. \A y \in Executors : checked'[y] = checked[y] \/ checked'[y] = s
      BY <1>14, <1>t DEF Check, TypeOK
    <2>3. CheckedBefore' /\ LateAnswersBounded'
      BY <1>14, <2>2 DEF Check, Inv, CheckedBefore, LateAnswersBounded, Held
    <2> QED
      BY <2>1, <2>3 DEF Inv
  <1>15. ASSUME NEW x \in Executors, Answer(x) PROVE Inv'
    <2> DEFINE s == checked[x]
    <2>1. s \in Sessions /\ late[s] \in [Executors -> Nat] /\ late[s][x] \in Nat
      BY <1>15, <1>t DEF Answer, TypeOK
    <2>2. /\ late' \in [Sessions -> [Executors -> Nat]]
          /\ \A t \in Sessions, y \in Executors :
               \/ late'[t][y] = late[t][y]
               \/ t = s /\ y = x /\ Held(ctl[s]) /\ late'[t][y] = late[s][x] + 1
      BY <1>15, <1>t, <2>1 DEF Answer, TypeOK
    <2>3. /\ checked' \in [Executors -> Sessions \cup {Nothing}]
          /\ checked'[x] = Nothing
          /\ \A y \in Executors \ {x} : checked'[y] = checked[y]
      BY <1>15, <1>t DEF Answer, TypeOK
    <2>4. TypeOK' /\ SwitchKnows' /\ HandsKnow' /\ KeywordSawAi'
      BY <1>15, <1>t, <2>2, <2>3
      DEF Answer, TypeOK, SwitchKnows, HandsKnow, KeywordSawAi, polling, counts
    <2>5. ASSUME NEW t \in Ordinary, NEW y \in Executors
          PROVE  /\ Held(ctl'[t]) /\ checked'[y] = t => late'[t][y] = 0
                 /\ late'[t][y] =< 1
      <3>1. /\ t \in Sessions /\ t # Nothing /\ ctl' = ctl
            /\ Held(ctl[t]) /\ checked[y] = t => late[t][y] = 0
            /\ late[t][y] =< 1
        BY <1>15, SessionAssumption
        DEF Answer, Inv, CheckedBefore, LateAnswersBounded, Sessions
      <3>2. CASE late'[t][y] = late[t][y]
        BY <2>3, <3>1, <3>2
      <3>3. CASE t = s /\ y = x /\ Held(ctl[s]) /\ late'[t][y] = late[s][x] + 1
        BY <2>1, <2>3, <3>1, <3>3
      <3> QED
        BY <2>2, <3>1, <3>2, <3>3
    <2> QED
      BY <2>4, <2>5 DEF Inv, CheckedBefore, LateAnswersBounded
  <1>16. ASSUME \/ PollBegins \/ PollFails \/ PollAnswered
                \/ PollCompares \/ PollEnds
         PROVE  Inv'
    <2>1. TypeOK' /\ SwitchKnows'
      BY <1>16, <1>t
      DEF PollBegins, PollFails, PollAnswered, PollCompares, PollEnds,
        HandoffControls, TypeOK, SwitchKnows, counts
    <2> QED
      BY <1>16, <2>1, OthersKeep
      DEF PollBegins, PollFails, PollAnswered, PollCompares, PollEnds
  <1>17. CASE UNCHANGED vars
    <2>1. TypeOK' /\ SwitchKnows'
      BY <1>17, <1>t DEF vars, TypeOK, SwitchKnows
    <2> QED
      BY <1>17, <2>1, OthersKeep DEF vars
  <1> QED
    BY <1>1, <1>2, <1>3, <1>4, <1>5, <1>6, <1>7, <1>8, <1>9, <1>10, <1>11,
      <1>12, <1>13, <1>14, <1>15, <1>16, <1>17
    DEF Next

\* The inductive invariant holds in every reachable state.
THEOREM Invariance == Spec => []Inv
  BY InitHolds, StepHolds, PTL DEF Spec

\* Every reachable state of the session controls and their writers is of the
\* declared types.
THEOREM TypeCorrect == Spec => []TypeOK
  <1>1. Inv => TypeOK
    BY DEF Inv
  <1> QED
    BY <1>1, Invariance, PTL

\* However many executors there are, each hands over at most one answer of the
\* AI after the operator has taken an ordinary conversation over.
THEOREM LateBounded == Spec => []LateAnswersBounded
  <1>1. Inv => LateAnswersBounded
    BY DEF Inv
  <1> QED
    BY <1>1, Invariance, PTL

\* An operator's hold of an ordinary conversation ends by the operator's switch
\* or by a thread that had looked at the control before.
THEOREM HoldIsKept == Spec => HoldEndsByOperator
  <1>1. ASSUME Inv, [Next]_vars, NEW s \in Ordinary, Held(ctl[s]), ~Held(ctl'[s])
        PROVE  OperatorGaveBack(s) \/ Outdated(s)
    <2>t. /\ TypeOK /\ HandsKnow /\ KeywordSawAi /\ s \in Sessions
          /\ s \notin Guarded /\ ctl' # ctl
      BY <1>1, SessionAssumption DEF Inv, Sessions
    <2>1. CASE SwitchConfirmed
      <3>1. op.s \in Sessions /\ op' = [op EXCEPT !.pc = "idle", !.s = Nothing]
        BY <1>1, <2>1 DEF SwitchConfirmed, Inv, SwitchKnows
      <3>2. op.s = s
        BY <1>1, <2>t, <2>1 DEF SwitchConfirmed, SetControl, TypeOK
      <3> QED
        BY <2>t, <2>1, <3>1, <3>2 DEF SwitchConfirmed, OperatorGaveBack, TypeOK
    <2>2. CASE KeywordHolds
      <3>1. ingest.s = s
        BY <1>1, <2>t, <2>2 DEF KeywordHolds, SetControl, TypeOK
      <3> QED
        BY <1>1, <2>t, <2>2, <3>1 DEF KeywordHolds, KeywordSawAi, Outdated, Held
    <2>3. ASSUME NEW u \in Sessions, Expire(u)
          PROVE  FALSE
      <3>1. u # s
        BY <1>1, <2>3 DEF Expire, Held
      <3> QED
        BY <1>1, <2>t, <2>3, <3>1 DEF Expire, TypeOK
    <2>4. ASSUME NEW p \in Appliers, Apply(p)
          PROVE  Outdated(s)
      <3>1. /\ hand[p].pc = "seen"
            /\ \/ MayHold(hand[p].s, hand[p].seen) /\ SetControl(hand[p].s, "human", "brain")
               \/ MayRelease(hand[p].s, hand[p].seen) /\ SetControl(hand[p].s, "ai", "brain")
        BY <2>t, <2>4 DEF Apply
      <3>2. hand[p].s = s
        BY <1>1, <2>t, <3>1 DEF SetControl, TypeOK
      <3>3. hand[p].seen # ctl[s]
        BY <1>1, <2>t, <3>1, <3>2 DEF MayHold, MayRelease, Held
      <3> QED
        BY <3>1, <3>2, <3>3 DEF Outdated
    <2>5. ASSUME NEW u \in Sessions, Resume(u) \/ Pause(u)
          PROVE  FALSE
      <3>1. u # s
        BY <2>t, <2>5 DEF Resume, Pause
      <3> QED
        BY <1>1, <2>t, <2>5, <3>1 DEF Resume, Pause, SetControl, TypeOK
    <2>6. ASSUME NEW x \in Executors, Answer(x)
          PROVE  FALSE
      BY <2>t, <2>6 DEF Answer
    <2>7. ASSUME NEW p \in Appliers, Look(p)
          PROVE  FALSE
      BY <2>t, <2>7 DEF Look
    <2>8. ASSUME NEW u \in Sessions,
                 \/ \E b \in [handoff : BOOLEAN, paused : BOOLEAN] : BrainDecides(u, b)
                 \/ \E ai \in BOOLEAN : SwitchAsked(u, ai)
                 \/ KeywordSeen(u) \/ StateCommand(u)
                 \/ FetchPage(u) \/ PollTells(u) \/ DraftSync(u)
                 \/ \E x \in Executors : Check(x, u)
          PROVE  FALSE
      BY <2>t, <2>8
      DEF BrainDecides, SwitchAsked, KeywordSeen, StateCommand, FetchPage,
        PollTells, DraftSync, Check
    <2>9. ~\/ SwitchRefused \/ PollBegins \/ PollFails \/ PollAnswered
           \/ PollCompares \/ PollEnds \/ UNCHANGED vars
      BY <2>t
      DEF SwitchRefused, PollBegins, PollFails, PollAnswered, PollCompares,
        PollEnds, vars
    <2> QED
      BY <1>1, <2>1, <2>2, <2>3, <2>4, <2>5, <2>6, <2>7, <2>8, <2>9 DEF Next
  <1>2. Inv /\ [Next]_vars =>
          [\A s \in Ordinary : Held(ctl[s]) /\ ~Held(ctl'[s]) =>
              OperatorGaveBack(s) \/ Outdated(s)]_vars
    BY <1>1
  <1> QED
    BY <1>2, Invariance, PTL DEF Spec, HoldEndsByOperator
=============================================================================
