----------------------------- MODULE RecStream ------------------------------
(***************************************************************************)
(* A recording and the connection that reads it. A VTP client reads blocks *)
(* wherever it likes (CmdREAD). Over HTTP it is streamed: the range of the *)
(* request (server/connectionHTTP.c), and the streamer that reads block by *)
(* block (server/recstreamer.c, server/streamer.c).                        *)
(***************************************************************************)
EXTENDS RecPlayer

CONSTANTS
    BufSize,  \* sizeof(m_Buffer) of the streamer
    MaxAsk    \* bound: the largest number in a range

ASSUME StreamAssumption == BufSize \in Nat \ {0} /\ MaxAsk \in Nat

VARIABLES
    protocol, \* of the connection: "HTTP" or "VTP"
    request, \* the range asked for, the start position and fake ranges
    reply,   \* what the response says: status, and the range sent
    offset,  \* m_StartOffset
    from,    \* m_From
    to,      \* m_To
    sent     \* what went into the remultiplexer

streamVars == <<protocol, request, reply, offset, from, to, sent>>
vars == <<playerVars, streamVars>>

NoRange == [hasRange |-> FALSE, from |-> 0, to |-> 0]

(* What ParseRange accepts: "a-b", "a-" and "-n".                          *)
Ranges ==
    {NoRange} \cup
    {r \in [hasRange : {TRUE}, from : -MaxAsk .. MaxAsk, to : -1 .. MaxAsk] :
       r.to = -1 \/ (r.from >= 0 /\ r.to >= r.from)}

(* A recording that grows has positions behind the length scanned.         *)
Requests == [range : Ranges, start : 0 .. MaxLength + 1, fake : BOOLEAN]

NoRequest == [range |-> NoRange, start |-> 0, fake |-> FALSE]
NoReply == [status |-> 0, from |-> 0, to |-> 0]

Init ==
    /\ PlayerInit /\ protocol \in {"HTTP", "VTP"}
    /\ request = NoRequest /\ reply = NoReply
    /\ offset = 0 /\ from = 0 /\ to = -1 /\ sent = <<>>

(* Slip: the last byte may be the one behind the end.                      *)
SetRangeLate(r, l) ==
    IF r.from < 0
      THEN <<IF r.from + l < 0 THEN 0 ELSE r.from + l, l - 1>>
      ELSE LET t == IF r.to < 0 THEN r.to + l
                    ELSE IF r.to > l THEN l - 1 ELSE r.to
           IN IF r.from > t THEN <<0, l - 1>> ELSE <<r.from, t>>

(* SetRange for l bytes; what cannot be satisfied means everything.        *)
SetRange(r, l) ==
    IF r.from < 0
      THEN <<IF r.from + l < 0 THEN 0 ELSE r.from + l, l - 1>>
      ELSE LET t == IF r.to < 0 THEN r.to + l
                    ELSE IF r.to >= l THEN l - 1 ELSE r.to
           IN IF r.from > t THEN <<0, l - 1>> ELSE <<r.from, t>>

(* With fake ranges, a range from 0 starts at the position asked for but   *)
(* counts from the start of the recording.                                 *)
Faked(q) == q.range.hasRange /\ q.range.from = 0 /\ q.fake
Shifted(q) ==
    IF ~Faked(q) THEN q.range
    ELSE [hasRange |-> TRUE, from |-> q.start,
          to |-> IF q.range.to >= 0 THEN q.range.to + q.start ELSE -1]

(* ProcessRequest, GET of a recording that is not remultiplexed. The       *)
(* streamer starts when the response is sent.                              *)
Get ==
    /\ protocol = "HTTP" /\ reply = NoReply
    /\ \E q \in Requests :
         LET l == total - (IF Faked(q) THEN 0 ELSE q.start)
             r == SetRange(Shifted(q), l)
         IN /\ request' = q
            /\ offset' = total - l
            /\ IF ~q.range.hasRange
                 THEN /\ from' = 0 /\ to' = l - 1
                      /\ reply' = [status |-> 200, from |-> 0, to |-> l - 1]
                 ELSE /\ from' = r[1] /\ to' = r[2]
                      /\ reply' = [status |-> IF r[2] - r[1] + 1 < 0
                                                THEN 416 ELSE 206,
                                   from |-> r[1], to |-> r[2]]
    /\ UNCHANGED <<playerVars, protocol, sent>>

Taken(k, data) == k

(* One round of the streamer: the remultiplexer takes some of the block.   *)
Transfer ==
    /\ reply.status \in {200, 206} /\ from <= to
    /\ GetBlock(offset + from, BufSize)
    /\ answer'.data # <<>>
    /\ \E k \in 1..Len(answer'.data) :
         /\ sent' = sent \o SubSeq(answer'.data, 1, k)
         /\ from' = from + Taken(k, answer'.data)
    /\ UNCHANGED <<protocol, request, reply, offset, to>>

(* Nothing could be read: the next round tries again.                      *)
TransferFails ==
    /\ reply.status \in {200, 206} /\ from <= to
    /\ GetBlock(offset + from, BufSize)
    /\ answer'.data = <<>>
    /\ UNCHANGED streamVars

ReadBlock == protocol = "VTP" /\ Read /\ UNCHANGED streamVars

DeleteFile == Delete /\ UNCHANGED streamVars

Done == (reply # NoReply /\ from > to) /\ UNCHANGED vars

Next == Get \/ Transfer \/ TransferFails \/ ReadBlock \/ DeleteFile \/ Done

Spec == Init /\ [][Next]_vars

(* The streamer thread goes on as long as it runs.                         *)
FairSpec == Spec /\ WF_vars(Get) /\ WF_vars(Transfer \/ TransferFails)

-----------------------------------------------------------------------------

(* What is sent is the recording from where the response says.             *)
SentInOrder ==
    \A i \in DOMAIN sent : PlaceOf(sent[i]) = offset + reply.from + i - 1

(* The client gets the bytes of the recording it asked for, one after the  *)
(* other: no block is refused, skipped or sent twice, however little of it *)
(* is taken, however many files it spans and whichever file was left open. *)
BytesRight == BlockRight /\ BlockGiven /\ SentInOrder

(* A range that can be satisfied is answered as RFC 7233 has it: the bytes *)
(* asked for, cut at the end, and of "-n" the last n. They are counted     *)
(* from the position in the URL, and are the same bytes of the recording   *)
(* whether or not the reply counts them from its start (fake ranges).      *)
Satisfied(r, l) ==
    IF r.from < 0 THEN <<IF l < -r.from THEN 0 ELSE l + r.from, l - 1>>
    ELSE <<r.from, IF r.to = -1 \/ r.to >= l THEN l - 1 ELSE r.to>>

RangeAnswered ==
    LET q == request
        l == total - q.start
    IN reply.status = 206 /\ q.range.from < l /\ l > 0 =>
         <<offset + reply.from, offset + reply.to>> =
           <<q.start + Satisfied(q.range, l)[1],
             q.start + Satisfied(q.range, l)[2]>>

(* A range that is sent lies within the recording.                         *)
RangeWithin ==
    reply.status = 206 /\ offset <= total =>
      /\ 0 <= reply.from /\ reply.to < total - offset
      /\ reply.from <= reply.to + 1

(* What a response announces is what was asked for and is there.           *)
RangesRight == RangeWithin /\ RangeAnswered

Finished ==
    reply # NoReply /\ from > to /\ Len(sent) >= to - reply.from + 1

(* The stream comes to its end, and then everything was sent, if the files *)
(* are there and the recording is no shorter than a block.                 *)
Complete ==
    <>(Finished \/ protocol = "VTP" \/ present # Files \/ BufSize > total)

=============================================================================
