--------------------------- MODULE CommandSetting ----------------------------
(* What CommandPool is about: the commands the center may send, the threads   *)
(* of a seat that receive and execute them, and the sizes and bounds.         *)
EXTENDS Naturals

CONSTANTS
    Sends,       \* commands of type send_text
    Chats,       \* commands of type open_chat
    Refused,     \* commands whose result the center refuses whenever reported
    Convs,       \* conversations: pairs of an account and a buyer
    ConvOf,      \* the conversation of a command
    Workers,     \* threads of the pool: 6 by default
    Receivers,   \* threads that receive commands: the poller, the WebSocket's
    Poller,      \* the thread of run_commands, which also retries
    QueueMax,    \* capacity of the pool's queue: 64; 0 without the pool
    MaxWaiting,  \* bound: copies of commands waiting in the queue
    MaxCrashes,  \* bound: process crashes in a behaviour
    NoCommand

Commands == Sends \cup Chats
Threads  == Workers \cup Receivers

ASSUME KindsAssumption ==
    Sends \cap Chats = {} /\ Refused \subseteq Commands /\ NoCommand \notin Commands
ASSUME ConvAssumption == ConvOf \in [Commands -> Convs]
ASSUME ThreadsAssumption == Receivers \cap Workers = {} /\ Poller \in Receivers
ASSUME PoolAssumption ==
    QueueMax \in Nat /\ MaxWaiting \in Nat /\ MaxCrashes \in Nat
==============================================================================
