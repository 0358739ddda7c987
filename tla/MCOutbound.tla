----------------------------- MODULE MCOutbound ------------------------------
(* Instances for TLC of what the center asks a seat to do, with every freedom *)
(* of the environment: the send path with its receipts, and the pool of       *)
(* commands that uses it.  They share no state here (CommandPool relies on    *)
(* SendOutcome only, which SendReceipts implements), so a behaviour picks one *)
(* part and stays with it.                                                    *)
EXTENDS SendReceipts, TLC

CONSTANTS
    None,
    MaxWaiting          \* of the pool

ASSUME OutboundAssumption == MaxWaiting \in Nat

VARIABLES
    part,
    rRow, rResult, rAge, rQueue, rPc, rCmd, rRes, rTodo, rReceipt, rCopies,
    rOpened, rCenter, rArrived, rCrashes

commands == <<rRow, rResult, rAge, rQueue, rPc, rCmd, rRes, rTodo, rReceipt,
              rCopies, rOpened, rCenter, rArrived, rCrashes>>

\* A send and a chat to open of one conversation; the queue does not overflow.
Pool == INSTANCE CommandPool WITH
    Sends <- {"send"}, Chats <- {"chat"}, Refused <- {}, Convs <- {"k"},
    ConvOf <- [c \in {"send", "chat"} |-> "k"], Workers <- Callers,
    Poller <- "poller", Receivers <- {"poller"}, QueueMax <- MaxWaiting + 1,
    NoCommand <- None, row <- rRow, result <- rResult, age <- rAge,
    queue <- rQueue, pc <- rPc, cmd <- rCmd, res <- rRes, todo <- rTodo,
    receipt <- rReceipt, copies <- rCopies, opened <- rOpened,
    center <- rCenter, arrived <- rArrived, crashes <- rCrashes

\* The threads run the same code, as callers in one part and as workers in the
\* other, and payloads are only compared.
Interchangeable == Permutations(Callers) \cup Permutations(Payloads)

PartsInit == part \in {"sends", "commands"} /\ Init /\ Pool!Init

PartsNext ==
    \/ part = "sends" /\ Next /\ UNCHANGED <<part, commands>>
    \/ part = "commands" /\ Pool!Next /\ UNCHANGED <<part, vars>>

PartsSpec == PartsInit /\ [][PartsNext]_<<part, vars, commands>>

------------------------------------------------------------------------------
(* The properties are stated in the modules of the parts. *)

ResultStands == Pool!ResultStands
==============================================================================
