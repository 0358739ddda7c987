----------------------------- MODULE SendTokens -----------------------------
(* The receipts of native sends: send_text takes a token, the adapter in the *)
(* client notes it and hands the message over, the client's callback fills   *)
(* the receipt, now or long after, and send_text polls for it or cancels it. *)
(* The senders of the pool run side by side.  When the script is detached    *)
(* the receipts stay in the client, and the calls end without cancelling.    *)
EXTENDS Naturals, FiniteSets

CONSTANTS
    Sends,
    MaxDetaches, \* bound: how often the script is detached and loaded again
    MaxRestarts, \* bound: restarts of the bridge in one run of the client
    None

VARIABLES
    counter,   \* next_send_token
    token,     \* the token of every send, 0 when it has none yet
    state,     \* "idle", "taken", "waiting" or "ended"
    result,    \* the send whose callback the call was told of
    receipts,  \* by token: None, "pending" or the send that called back
    due,       \* callbacks the client has yet to make
    detaches, restarts

vars == <<counter, token, state, result, receipts, due, detaches, restarts>>

\* Every send takes one token, and a restart counts from 1 again.
Tokens == 1..Cardinality(Sends)

TypeOK ==
    /\ counter \in Nat
    /\ token \in [Sends -> Tokens \cup {0}]
    /\ state \in [Sends -> {"idle", "taken", "waiting", "ended"}]
    /\ result \in [Sends -> Sends \cup {None}]
    /\ receipts \in [Tokens -> Sends \cup {None, "pending"}]
    /\ due \subseteq Sends \X Tokens
    /\ detaches \in 0..MaxDetaches /\ restarts \in 0..MaxRestarts

Init ==
    /\ counter = 1 /\ token = [s \in Sends |-> 0]
    /\ state = [s \in Sends |-> "idle"] /\ result = [s \in Sends |-> None]
    /\ receipts = [t \in Tokens |-> None] /\ due = {}
    /\ detaches = 0 /\ restarts = 0

\* No other thread runs between reading the counter and storing the next.
Take(s) ==
    /\ state[s] = "idle" /\ state' = [state EXCEPT ![s] = "taken"]
    /\ token' = [token EXCEPT ![s] = counter] /\ counter' = counter + 1
    /\ UNCHANGED <<result, receipts, due, detaches, restarts>>

\* The receipt is there before the message is handed over, and goes when the
\* client refuses it.
Submit(s) ==
    /\ state[s] = "taken"
    /\ \/ /\ receipts' = [receipts EXCEPT ![token[s]] = "pending"]
          /\ due' = due \cup {<<s, token[s]>>}
          /\ state' = [state EXCEPT ![s] = "waiting"]
       \/ /\ receipts' = [receipts EXCEPT ![token[s]] = None]
          /\ state' = [state EXCEPT ![s] = "ended"]
          /\ UNCHANGED due
    /\ UNCHANGED <<counter, token, result, detaches, restarts>>

\* A callback without a receipt, or a second one, changes nothing.
Callback(c) ==
    /\ c \in due /\ due' = due \ {c}
    /\ receipts' = IF receipts[c[2]] = "pending"
                     THEN [receipts EXCEPT ![c[2]] = c[1]] ELSE receipts
    /\ UNCHANGED <<counter, token, state, result, detaches, restarts>>

Poll(s) ==
    /\ state[s] = "waiting" /\ receipts[token[s]] \in Sends
    /\ result' = [result EXCEPT ![s] = receipts[token[s]]]
    /\ receipts' = [receipts EXCEPT ![token[s]] = None]
    /\ state' = [state EXCEPT ![s] = "ended"]
    /\ UNCHANGED <<counter, token, due, detaches, restarts>>

\* cancelsend, after the wait.
Cancel(s) ==
    /\ state[s] = "waiting" /\ state' = [state EXCEPT ![s] = "ended"]
    /\ receipts' = [receipts EXCEPT ![token[s]] = None]
    /\ UNCHANGED <<counter, token, result, due, detaches, restarts>>

\* The calls of S end without cancelling.
Abandoned(S) ==
    [s \in Sends |-> IF s \in S /\ state[s] # "idle" THEN "ended" ELSE state[s]]

\* Slip: detach starts the tokens over.
DetachResets ==
    /\ detaches < MaxDetaches /\ detaches' = detaches + 1
    /\ (\E S \in SUBSET Sends : state' = Abandoned(S)) /\ counter' = 1
    /\ UNCHANGED <<token, result, receipts, due, restarts>>

\* detach, and attach to the same run of the client: a call that looks between
\* them finds no script.
Detach ==
    /\ detaches < MaxDetaches /\ detaches' = detaches + 1
    /\ \E S \in SUBSET Sends : state' = Abandoned(S)
    /\ UNCHANGED <<counter, token, result, receipts, due, restarts>>

Restart ==
    /\ restarts < MaxRestarts /\ restarts' = restarts + 1
    /\ state' = Abandoned(Sends) /\ counter' = 1
    /\ UNCHANGED <<token, result, receipts, due, detaches>>

Next ==
    \/ \E s \in Sends : Take(s) \/ Submit(s) \/ Poll(s) \/ Cancel(s)
    \/ \E c \in due : Callback(c)
    \/ Detach \/ Restart

Spec == Init /\ [][Next]_vars

-----------------------------------------------------------------------------
\* standalone_bridge.py:6169-6214, appbiz_adapter.cpp:133-148: the result a send
\* is told is its own message's, however late the callbacks of others come and
\* however often the script is loaded again.  It is said of one run of the
\* bridge: the next starts the tokens over while old receipts may be pending.
ReceiptIsOwn == restarts = 0 => \A s \in Sends : result[s] \in {s, None}
=============================================================================
