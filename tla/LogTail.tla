------------------------------ MODULE LogTail -------------------------------
(* NativeOrderLog reads the client's app.log as it grows: once a second, from *)
(* its offset to the last line break, which it finds in the decoded text.    *)
(* It goes on by the length of that text encoded again, which is longer than *)
(* what was read where a character was cut: half a character decodes to a    *)
(* whole one.  The client cuts its lines after so many bytes, and rotates    *)
(* the log; now and then a call of the file system fails.                    *)
(*                                                                           *)
(* A line has Width bytes; the last one is its line break.                   *)
EXTENDS Naturals, FiniteSets

CONSTANTS
    Width,
    Backfill,       \* BACKFILL_BYTES
    MaxSize,        \* bound: bytes in a file
    MaxRotations,   \* bound
    MaxCuts,        \* bound: lines of a file cut within a character
    MaxFailures     \* bound: calls of the file system that fail

Lines == 1 .. MaxSize \div Width

VARIABLES
    size,       \* bytes in the file
    cuts,       \* its lines that were cut within a character
    attached,   \* path is known
    offset, lastSize,
    backfilled, firstDone,
    read,       \* lines of the file handed to parse_line whole
    start,      \* where the file was read from first
    turned,     \* rotated since it was last looked at
    strayed,    \* offset may be within a line
    missed,     \* lines of the file that were behind an offset gone wrong
    rotations, failures

vars == <<size, cuts, attached, offset, lastSize, backfilled, firstDone, read,
          start, turned, strayed, missed, rotations, failures>>

TypeOK ==
    /\ size \in 0 .. MaxSize /\ cuts \in SUBSET Lines
    /\ attached \in BOOLEAN /\ backfilled \in BOOLEAN /\ firstDone \in BOOLEAN
    /\ offset \in 0 .. MaxSize + MaxCuts + 1 /\ lastSize \in 0 .. MaxSize
    /\ read \in SUBSET Lines /\ start \in 0 .. MaxSize
    /\ turned \in BOOLEAN /\ strayed \in BOOLEAN /\ missed \in SUBSET Lines
    /\ rotations \in 0 .. MaxRotations /\ failures \in 0 .. MaxFailures

Init ==
    /\ size \in 0 .. MaxSize \div 2
    /\ cuts = {} /\ attached = FALSE
    /\ offset = 0 /\ lastSize = 0 /\ backfilled = FALSE /\ firstDone = FALSE
    /\ read = {} /\ start = 0
    /\ turned = FALSE /\ strayed = FALSE /\ missed = {}
    /\ rotations = 0 /\ failures = 0

-----------------------------------------------------------------------------
(* The client. *)

Write(cut) ==
    /\ size < MaxSize
    /\ cut => (size + 1) % Width = 0 /\ Cardinality(cuts) < MaxCuts
    /\ size' = size + 1
    /\ cuts' = IF cut THEN cuts \cup {(size + 1) \div Width} ELSE cuts
    /\ UNCHANGED <<attached, offset, lastSize, backfilled, firstDone, read, start,
                   turned, strayed, missed, rotations, failures>>

\* The new file begins with n bytes; the reader sees only their number.
Rotate(n) ==
    /\ rotations < MaxRotations /\ size > 0
    /\ n \in 0 .. size
    /\ rotations' = rotations + 1
    /\ size' = n /\ cuts' = {} /\ read' = {} /\ missed' = {}
    /\ start' = 0
    /\ turned' = attached
    /\ UNCHANGED <<attached, offset, lastSize, backfilled, firstDone, strayed, failures>>

-----------------------------------------------------------------------------
(* The reader. *)

Shrunk == size < lastSize
Unseen == turned /\ ~Shrunk

\* Slip: a new file is read from where the old one had been read to.
FromKept == offset

\* A file that has shrunk is read from the beginning.
From == IF Shrunk THEN 0 ELSE offset

\* Half a line is left out of what is read first.
Half == backfilled /\ ~firstDone /\ ~Shrunk
FirstBreak == (From \div Width + 1) * Width
Begin == IF Half /\ FirstBreak <= size THEN FirstBreak ELSE From

\* Slip: whatever the chunk holds is taken.
LastBreakAny == size

LastBreak == (size \div Width) * Width

\* Where what is handed to parse_line ends; a line break alone is left for later.
Taken == IF LastBreak > Begin + 1 THEN LastBreak ELSE Begin

CutWithin(from, to) == {k \in cuts : from < k * Width /\ k * Width <= to}

\* run, with the length of the file known or, where stat fails, taken as none.
\* firstDone keeps its value when the file is found again, so that the first line
\* then passes for a whole one.
Attach(known) ==
    /\ ~attached /\ attached' = TRUE
    /\ ~known => failures < MaxFailures
    /\ failures' = IF known THEN failures ELSE failures + 1
    /\ offset' = IF known /\ size > Backfill THEN size - Backfill ELSE 0
    /\ start' = offset'
    /\ backfilled' = (offset' > 0)
    /\ turned' = FALSE
    /\ strayed' = (firstDone /\ offset' % Width # 0)
    /\ UNCHANGED <<size, cuts, lastSize, firstDone, read, missed, rotations>>

\* _consume cannot stat the file, and run looks for it again.
StatFails ==
    /\ attached /\ failures < MaxFailures
    /\ failures' = failures + 1
    /\ attached' = FALSE
    /\ UNCHANGED <<size, cuts, offset, lastSize, backfilled, firstDone, read, start,
                   turned, strayed, missed, rotations>>

\* What _consume does before it opens the file.
Looks ==
    /\ lastSize' = size
    /\ turned' = (turned /\ ~Shrunk)

\* _consume stats the file but cannot read it.
ReadFails ==
    /\ attached /\ failures < MaxFailures /\ size > From
    /\ failures' = failures + 1
    /\ Looks
    /\ offset' = From
    /\ backfilled' = (backfilled /\ ~Shrunk) /\ firstDone' = (firstDone /\ ~Shrunk)
    /\ strayed' = (strayed /\ ~Shrunk)
    /\ UNCHANGED <<size, cuts, attached, read, start, missed, rotations>>

\* What an offset that may be wrong leaves out.
Behind ==
    {k \in Lines \ read : (strayed \/ Unseen) /\ (k - 1) * Width < Begin}

\* _consume with nothing to read.
Idle ==
    /\ attached /\ size <= From
    /\ lastSize' = size /\ turned' = FALSE
    /\ offset' = From
    /\ backfilled' = (backfilled /\ ~Shrunk) /\ firstDone' = (firstDone /\ ~Shrunk)
    /\ strayed' = ((strayed \/ turned) /\ ~Shrunk)
    /\ missed' = missed \cup Behind
    /\ UNCHANGED <<size, cuts, attached, read, start, rotations, failures>>

\* _consume.  What is read from within a line may begin within a character.
Consume(split) ==
    LET extra == Cardinality(CutWithin(From, Taken)) + (IF split THEN 1 ELSE 0) IN
    /\ attached /\ size > From
    /\ split => From % Width # 0
    /\ lastSize' = size /\ turned' = FALSE
    /\ backfilled' = FALSE /\ firstDone' = TRUE
    /\ offset' = IF Taken > From THEN Taken + extra ELSE From
    /\ read' = read \cup {k \in Lines : Begin <= (k - 1) * Width /\ k * Width <= Taken}
    /\ missed' = missed \cup Behind
    /\ strayed' = IF Taken > From THEN extra > 0 ELSE (strayed \/ turned) /\ ~Shrunk
    /\ UNCHANGED <<size, cuts, attached, start, rotations, failures>>

-----------------------------------------------------------------------------

Next ==
    \/ \E cut \in BOOLEAN : Write(cut)
    \/ \E n \in 0 .. MaxSize : Rotate(n)
    \/ \E known \in BOOLEAN : Attach(known)
    \/ StatFails \/ ReadFails \/ Idle
    \/ \E split \in BOOLEAN : Consume(split)

Spec == Init /\ [][Next]_vars

\* run goes on once a second.
Fairness ==
    /\ WF_vars(Attach(TRUE))
    /\ WF_vars(Idle \/ \E split \in BOOLEAN : Consume(split))
FairSpec == Spec /\ Fairness

-----------------------------------------------------------------------------
(* Properties. *)

\* The lines of a file that are not before where it was begun.
Covered(k) == start = 0 \/ start < (k - 1) * Width

\* Every line that is complete is read in the end, unless its file is rotated
\* away or begun anew behind it, whether it came before the start, in pieces,
\* while calls failed, or after a rotation that shows in the file's size.  What
\* may be lost is the line an offset has strayed into, and in a file whose
\* rotation does not show, what is before the offset.
LinesAreRead ==
    \A k \in Lines :
        []((attached /\ Covered(k) /\ k * Width <= size) =>
              <>(k \in read \cup missed \/ size < k * Width \/ ~Covered(k)))

\* qn_native_orders.py:305 "only whole lines are handled, half a line is left for
\* the next time": true of every read from an offset that has not strayed, by
\* a character that was cut, by a file found again or by a rotation that does not
\* show, in particular of the first one and of one after a rotation that shows.
WholeLines ==
    attached /\ ~strayed /\ ~Unseen /\ size > From /\ Taken > Begin =>
        Begin % Width = 0 /\ Taken % Width = 0

\* The same without the exceptions, as the comment has it.  The first read that
\* begins within a character already advances the offset too far, and the next
\* one begins with part of a line.
ParsesWholeLines ==
    attached /\ size > From /\ Taken > Begin => Begin % Width = 0
=============================================================================
