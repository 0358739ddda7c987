----------------------------- MODULE ChatSwitch -----------------------------
(* _open_conversation_protocol with ConversationSelectionWatch: the client   *)
(* is told by a command to open a conversation of one account, and its log,  *)
(* which names every conversation it selects, shows whether it did.  The     *)
(* client may act on a command late, in the next call, the operator selects  *)
(* conversations too, and the log may be cut or grow past what one read      *)
(* takes.  One call runs at a time (_conversation_open_lock).                *)
EXTENDS Naturals, Sequences, SequencesExt

CONSTANTS
    Chats,     \* conversations of the account
    Nothing,   \* no usable conversation
    MaxUnread, \* bound: lines in the log the watch has not read
    MaxCalls   \* bound: calls

VARIABLES
    pc,        \* "idle", "asking", "watching" or how the last call ended
    expected,  \* the conversation the call names
    unread,    \* selections in the log behind the watch's cursor
    selected,  \* watch.selected of the account
    fresh,     \* watch.revisions of the account moved past selection_revision
    shown,     \* the conversation the client shows
    switched,  \* the client selected the expected one since the call began
    commands,  \* the client may still act on
    calls

vars == <<pc, expected, unread, selected, fresh, shown, switched, commands, calls>>

Ends == {"verified", "unverified", "refused", "failed"}
Selection == Chats \cup {Nothing}

TypeOK ==
    /\ pc \in {"idle", "asking", "watching"} \cup Ends
    /\ expected \in Selection
    /\ unread \in Seq(Selection) /\ Len(unread) <= MaxUnread
    /\ selected \in Selection /\ shown \in Selection
    /\ fresh \in BOOLEAN /\ switched \in BOOLEAN
    /\ commands \subseteq Chats
    /\ calls \in 0..MaxCalls

\* A new watch starts a little before the end of the log.
Init ==
    /\ pc = "idle" /\ expected = Nothing /\ selected = Nothing /\ fresh = FALSE
    /\ shown \in Selection
    /\ unread \in {<<>>, <<shown>>}
    /\ switched = FALSE /\ commands = {} /\ calls = 0

\* watch.poll: the last line says what is selected.
Polled == IF unread = <<>> THEN selected ELSE Last(unread)

Call ==
    /\ pc \in {"idle"} \cup Ends /\ calls < MaxCalls /\ calls' = calls + 1
    /\ pc' = "asking" /\ expected' \in Chats
    /\ unread' = <<>> /\ selected' = Polled /\ fresh' = FALSE
    /\ switched' = FALSE
    /\ UNCHANGED <<shown, commands>>

\* WWCmd ended with 0, failed, or did not end in time though it may have worked.
RunCommand ==
    /\ pc = "asking"
    /\ \/ pc' = "watching" /\ commands' = commands \cup {expected}
       \/ pc' = "failed" /\ commands' \in {commands, commands \cup {expected}}
    /\ UNCHANGED <<expected, unread, selected, fresh, shown, switched, calls>>

\* Slip: whatever is selected counts, however long it has been.
WatchAnyRevision ==
    /\ pc = "watching" /\ unread' = <<>>
    /\ selected' = Polled /\ fresh' = (fresh \/ unread # <<>>)
    /\ pc' = IF selected' = expected THEN "verified" ELSE "watching"
    /\ UNCHANGED <<expected, shown, switched, commands, calls>>

\* Only a selection read since the command counts.
Watch ==
    /\ pc = "watching" /\ unread' = <<>>
    /\ selected' = Polled /\ fresh' = (fresh \/ unread # <<>>)
    /\ pc' = IF fresh' /\ selected' = expected THEN "verified" ELSE "watching"
    /\ UNCHANGED <<expected, shown, switched, commands, calls>>

\* After three seconds.
WatchEnds ==
    /\ pc = "watching"
    /\ pc' = IF fresh /\ selected # Nothing THEN "refused" ELSE "unverified"
    /\ UNCHANGED <<expected, unread, selected, fresh, shown, switched, commands,
                   calls>>

Selects(chat) ==
    /\ Len(unread) < MaxUnread /\ unread' = Append(unread, chat)
    /\ shown' = chat
    /\ switched' = (switched \/ (chat = expected /\ pc \in {"asking", "watching"}))
    /\ UNCHANGED <<pc, expected, selected, fresh, calls>>

\* The client does what a command says, at once or late.
ClientOpens(chat) ==
    chat \in commands /\ commands' = commands \ {chat} /\ Selects(chat)

OperatorSelects(chat) == chat # shown /\ Selects(chat) /\ UNCHANGED commands

\* The log is cut, or grew by more than a poll reads.
LogSkipped ==
    /\ unread # <<>> /\ unread' = <<>> /\ selected' = Nothing
    /\ UNCHANGED <<pc, expected, fresh, shown, switched, commands, calls>>

Next ==
    \/ Call \/ RunCommand \/ Watch \/ WatchEnds \/ LogSkipped
    \/ \E chat \in Selection : ClientOpens(chat) \/ OperatorSelects(chat)

Spec == Init /\ [][Next]_vars

-----------------------------------------------------------------------------
\* nickname_resolver.py:162 "Confirm a jump from new native selection events": a
\* call ends verified only if the client selected the conversation since that
\* call began, whatever it selected before and whatever earlier call it obeys.
JumpIsNew == pc = "verified" => switched
=============================================================================
