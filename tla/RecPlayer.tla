----------------------------- MODULE RecPlayer ------------------------------
(***************************************************************************)
(* The reader of a recording (server/recplayer.c): a recording is a row of *)
(* files, getBlock reads from any position of it across files. A byte is a *)
(* file and a place in it.                                                 *)
(***************************************************************************)
EXTENDS Integers, Sequences

CONSTANTS
    MaxSegments, \* bound: files of the recording
    MaxLength,   \* bound: its length
    MaxAmount    \* the most one call may ask for (500000)

ASSUME PlayerAssumption ==
    MaxSegments \in Nat /\ MaxLength \in Nat /\ MaxAmount \in Nat

VARIABLES
    segments, \* start and end of each file, from scan
    total,    \* totalLength
    fileOpen, \* the file that is open, 0 if none is
    present,  \* the files that can still be opened
    answer    \* the last call of getBlock and what it returned

playerVars == <<segments, total, fileOpen, present, answer>>

Files == DOMAIN segments
NoAnswer == [pos |-> 0, amount |-> 0, data |-> <<>>]

(* scan: each file starts where the one before it ends. A recording has no *)
(* empty file but the one just begun.                                      *)
Scan ==
    \E n \in 1..MaxSegments, e \in [0..MaxSegments -> 0..MaxLength] :
      /\ e[0] = 0
      /\ \A i \in 1..MaxSegments :
           IF i < n THEN e[i] > e[i - 1]
           ELSE IF i = n THEN e[i] >= e[i - 1] ELSE e[i] = 0
      /\ segments = [i \in 1..n |-> [start |-> e[i - 1], end |-> e[i]]]
      /\ total = e[n]

PlayerInit ==
    /\ Scan
    /\ fileOpen = 0 /\ present = Files /\ answer = NoAnswer

SegmentOf(p) ==
    CHOOSE s \in Files : segments[s].start <= p /\ p < segments[s].end

(* Slip: what reaches behind the end is refused.                           *)
RejectedPastEnd(p, amount) ==
    p + amount > total \/ amount > MaxAmount

Rejected(p, amount) == amount > total \/ amount > MaxAmount \/ p >= total

Clipped(p, amount) == IF p + amount > total THEN total - p ELSE amount

FromThisSegment(s, pos, left) ==
    IF pos + left <= segments[s].end THEN left ELSE segments[s].end - pos

(* Slip: the file is read on from where the file before it was.            *)
FilePositionKept(s, r) == Len(r.data)

FilePosition(s, r) == r.pos - segments[s].start

(* One round of the loop: open the next file, read what it has.            *)
Round(r, s) ==
    LET open == IF s = r.open \/ s \in present THEN s ELSE 0
        n == FromThisSegment(s, r.pos, r.left)
        at == FilePosition(s, r)
    IN IF r.left = 0 \/ ~r.ok THEN r
       ELSE IF open = 0 \/ n = 0 THEN [r EXCEPT !.ok = FALSE, !.open = open]
       ELSE [ok |-> TRUE, open |-> open, pos |-> r.pos + n,
             left |-> r.left - n,
             data |-> r.data \o [i \in 1..n |-> <<s, at + i - 1>>]]

(* getBlock: the data, none if anything fails, and the file left open.     *)
Block(p, amount) ==
    IF Rejected(p, amount)
      THEN [data |-> <<>>, open |-> fileOpen]
      ELSE LET s == SegmentOf(p)
               files == Len(segments) - s + 1
               rounds[n \in 0..files] ==
                 IF n = 0
                   THEN [ok |-> TRUE, open |-> fileOpen, pos |-> p,
                         left |-> Clipped(p, amount), data |-> <<>>]
                   ELSE Round(rounds[n - 1], s + n - 1)
               r == rounds[files]
           IN [data |-> IF r.ok THEN r.data ELSE <<>>, open |-> r.open]

GetBlock(p, amount) ==
    LET b == Block(p, amount) IN
    /\ fileOpen' = b.open
    /\ answer' = [pos |-> p, amount |-> amount, data |-> b.data]
    /\ UNCHANGED <<segments, total, present>>

(* CmdREAD: any position and size the client likes.                        *)
Read == \E p \in 0..MaxLength, n \in 1 .. MaxAmount + 1 : GetBlock(p, n)

(* The recording is deleted; its files disappear one by one.               *)
Delete ==
    /\ \E s \in present : present' = present \ {s}
    /\ UNCHANGED <<segments, total, fileOpen, answer>>

-----------------------------------------------------------------------------

(* The place of a byte in the recording.                                   *)
PlaceOf(byte) == segments[byte[1]].start + byte[2]

(* What getBlock returns is what the recording holds from the position it  *)
(* was asked for, up to the end of the recording, whichever files it spans *)
(* and whichever file a call before had left open.                         *)
BlockRight ==
    answer.data # <<>> =>
      /\ Len(answer.data) = Clipped(answer.pos, answer.amount)
      /\ \A i \in DOMAIN answer.data :
           PlaceOf(answer.data[i]) = answer.pos + i - 1

(* A position and an amount within the recording are never refused while   *)
(* its files are there.                                                    *)
BlockGiven ==
    /\ present = Files
    /\ answer.pos < total
    /\ answer.amount \in 1..MaxAmount /\ answer.amount <= total
    => answer.data # <<>>
=============================================================================
