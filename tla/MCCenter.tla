------------------------------ MODULE MCCenter -------------------------------
(* Instances for TLC of what a seat and the center agree on: who answers a    *)
(* conversation, of an ordinary and of a guarded account, and what becomes of *)
(* the sends the center asks for.  They share no state here, so a behaviour   *)
(* picks one part and stays with it.                                          *)
EXTENDS SessionControl

CONSTANTS
    None,
    Requests, Central, Payloads, MaxAttempts, MaxCrashes   \* of SendReceipts

VARIABLES
    part,
    gCtl, gBrain, gPushed, gHand, gPc, gRemote, gTodo, gIngest, gOp, gChecked,
    gLate, gChanges, gSwitches, gKeywords, gAnswers, gFailures,
    mSends, mClaims, mPc, mReq, mTries, mCalled, mTold, mCopies, mDoubt,
    mSaid, mCrashes

guarded == <<gCtl, gBrain, gPushed, gHand, gPc, gRemote, gTodo, gIngest, gOp,
             gChecked, gLate, gChanges, gSwitches, gKeywords, gAnswers,
             gFailures>>
sends == <<mSends, mClaims, mPc, mReq, mTries, mCalled, mTold, mCopies,
           mDoubt, mSaid, mCrashes>>

\* A conversation of a guarded account; the ordinary one is in the cfg.
Shop == INSTANCE SessionControl WITH
    Ordinary <- {}, Guarded <- {"g"}, Executors <- {}, MaxKeywords <- 0,
    MaxAnswers <- 0, MaxFailures <- 0,
    Nothing <- None, ctl <- gCtl, brain <- gBrain, pushed <- gPushed,
    hand <- gHand, pc <- gPc, remote <- gRemote, todo <- gTodo,
    ingest <- gIngest, op <- gOp, checked <- gChecked, late <- gLate,
    changes <- gChanges, switches <- gSwitches, keywords <- gKeywords,
    answers <- gAnswers, failures <- gFailures

Sends == INSTANCE SendReceipts WITH
    Callers <- {"c1", "c2"}, Manual <- {},
    NoRow <- None, NoRequest <- None, NoEvent <- None, NotSaid <- None,
    sends <- mSends, claims <- mClaims, pc <- mPc, req <- mReq,
    tries <- mTries, called <- mCalled, told <- mTold, copies <- mCopies,
    doubt <- mDoubt, said <- mSaid, crashes <- mCrashes

ASSUME CenterAssumption ==
    /\ Central \subseteq Requests
    /\ MaxAttempts \in Nat \ {0} /\ MaxCrashes \in Nat
    /\ None \notin Requests /\ None # "g"
    /\ None \notin Sends!Row /\ None \notin [payload : Payloads, at : Nat]

Parts == {"ordinary", "guarded", "sends"}

\* Whatever is not the part at work stays as it is.
Rest ==
    /\ IF part = "ordinary" THEN TRUE ELSE UNCHANGED vars
    /\ IF part = "guarded" THEN TRUE ELSE UNCHANGED guarded
    /\ IF part = "sends" THEN TRUE ELSE UNCHANGED sends
    /\ UNCHANGED part

\* The parts that are not at work begin in one of their initial states.
PartsInit ==
    /\ part \in Parts
    /\ Init
    /\ Shop!Init
    /\ Sends!Init
    /\ part = "ordinary" \/ ctl = [s \in Sessions |-> Default]
    /\ part = "guarded" \/ gCtl = [s \in {"g"} |-> Shop!Default]

PartsNext ==
    \/ part = "ordinary" /\ Next /\ Rest
    \/ part = "guarded" /\ Shop!Next /\ Rest
    \/ part = "sends" /\ Sends!Next /\ Rest

all == <<part, vars, guarded, sends>>

PartsSpec == PartsInit /\ [][PartsNext]_all

\* A behaviour stays with the part it begins with, so one condition serves
\* several parts, each with an action of its own.
In(p, A) == part = p /\ A /\ UNCHANGED part
working == CASE part = "ordinary" -> vars
           [] part = "guarded" -> guarded
           [] part = "sends" -> sends

WeaklyFair ==
    /\ WF_working(\/ In("ordinary", SwitchConfirmed \/ SwitchRefused)
                  \/ In("guarded", Shop!SwitchConfirmed \/ Shop!SwitchRefused)
                  \/ In("sends", Sends!Sweep))
    /\ WF_working(\/ In("ordinary", \E s \in Ordinary : Expire(s))
                  \/ In("guarded", Shop!Expire("g"))
                  \/ In("sends", Sends!Caller("c1")))
    /\ WF_working(\/ In("ordinary", \E s \in Ordinary : PollTells(s))
                  \/ In("guarded", Shop!PollTells("g"))
                  \/ In("sends", Sends!Caller("c2")))
    /\ WF_working(\/ In("ordinary", \E s \in Ordinary : FetchPage(s))
                  \/ In("guarded", Shop!FetchPage("g")))
    /\ WF_working(\/ In("ordinary", Look("poll"))
                  \/ In("guarded", Shop!Look("poll")))
    /\ WF_working(\/ In("ordinary", Apply("poll"))
                  \/ In("guarded", Shop!Apply("poll")))
    /\ WF_working(\/ In("ordinary", PollAnswered)
                  \/ In("guarded", Shop!PollAnswered))
    /\ WF_working(\/ In("ordinary", PollCompares)
                  \/ In("guarded", Shop!PollCompares))
    /\ WF_working(\/ In("ordinary", PollEnds)
                  \/ In("guarded", Shop!PollEnds))
    /\ WF_working(\/ In("ordinary", KeywordHolds)
                  \/ In("guarded", Shop!StateCommand("g")))
    /\ WF_working(\/ In("ordinary", \E x \in Executors : Answer(x))
                  \/ In("guarded", Shop!Look("g")))
    /\ WF_working(\/ In("guarded", Shop!Apply("g")))
    /\ WF_working(\/ In("guarded", Shop!Resume("g") \/ Shop!Pause("g")))

StronglyFair ==
    /\ SF_working(\/ In("ordinary", PollBegins)
                  \/ In("guarded", Shop!PollBegins))

PartsFairSpec == PartsSpec /\ WeaklyFair /\ StronglyFair

------------------------------------------------------------------------------
(* The properties are stated in the modules of the parts. *)

\* Every part keeps its types.
TypesOK ==
    /\ part = "ordinary" => TypeOK
    /\ part = "guarded" => Shop!TypeOK
    /\ part = "sends" => Sends!TypeOK

\* What the brain decides and keeps to, a handoff or a release, arrives in the
\* table, whatever polls fail and whatever older news comes late.
BrainIsFollowed ==
    /\ part = "ordinary" => HandoffArrives /\ ReleaseArrives
    /\ part = "guarded" => Shop!HandoffArrives /\ Shop!ReleaseArrives

SendsSettle == part = "sends" => Sends!SendsSettle

ImplementsOutcome == Sends!ImplementsOutcome
==============================================================================
