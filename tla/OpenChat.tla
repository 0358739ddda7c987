------------------------------ MODULE OpenChat ------------------------------
(* BrowserServer.open_conversation: the pages are asked to open a            *)
(* conversation with the client's openChat, which opens it at once, later or *)
(* never, and the bridge watches until a page shows it.  The operator may    *)
(* open another conversation meanwhile.                                      *)

VARIABLES
    pc,         \* the call: how far it is, or how it ended
    expecting,  \* the caller named the conversation's ccode
    shown,      \* what the client shows
    seen        \* the expected conversation was shown since the call began

vars == <<pc, expecting, shown, seen>>

Ends == {"verified", "unverified", "refused", "elsewhere"}
Shown == {"none", "expected", "another"}

TypeOK ==
    /\ pc \in {"idle", "asked", "watching"} \cup Ends
    /\ expecting \in BOOLEAN /\ seen \in BOOLEAN
    /\ shown \in Shown

Init ==
    /\ pc = "idle" /\ expecting \in BOOLEAN /\ shown \in Shown
    /\ seen = FALSE

Open ==
    /\ pc = "idle" /\ pc' = "asked"
    /\ seen' = (shown = "expected")
    /\ UNCHANGED <<expecting, shown>>

\* No page's openChat called back with success.
Refused ==
    /\ pc = "asked" /\ pc' = "refused"
    /\ UNCHANGED <<expecting, shown, seen>>

\* Slip: an accepted openChat counts as a verified one.
AcceptedVerified ==
    /\ pc = "asked" /\ pc' = "verified"
    /\ UNCHANGED <<expecting, shown, seen>>

\* A call that expects no ccode has nothing to verify.
Accepted ==
    /\ pc = "asked"
    /\ pc' = IF expecting THEN "watching" ELSE "verified"
    /\ UNCHANGED <<expecting, shown, seen>>

ClientShows(x) ==
    /\ pc \in {"asked", "watching"}
    /\ x # shown /\ shown' = x
    /\ seen' = (seen \/ x = "expected")
    /\ UNCHANGED <<pc, expecting>>

\* current_conversation.  A page that knows of no conversation decides nothing.
Observe(reported) ==
    /\ pc = "watching"
    /\ reported \in {"none", shown}
    /\ pc' = CASE reported = "none" -> "watching"
               [] reported = "expected" -> "verified"
               [] OTHER -> "elsewhere"
    /\ UNCHANGED <<expecting, shown, seen>>

WatchEnds ==
    /\ pc = "watching" /\ pc' = "unverified"
    /\ UNCHANGED <<expecting, shown, seen>>

Next ==
    \/ Open \/ Refused \/ Accepted \/ WatchEnds
    \/ \E x \in Shown : ClientShows(x) \/ Observe(x)

Spec == Init /\ [][Next]_vars

-----------------------------------------------------------------------------
\* README.md:29 "校验实际打开的会话": a call that expects a conversation says it
\* is verified only if the client showed it since the call began.
VerifiedWasShown == pc = "verified" /\ expecting => seen
=============================================================================
