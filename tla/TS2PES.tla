------------------------------- MODULE TS2PES -------------------------------
(***************************************************************************)
(* cTS2PES of remux/ts2pes.c: the payload of the TS packets of one pid is  *)
(* collected into PES packets, which go to a repacker whenever it has a    *)
(* place to break at, the buffer is full or the PES packet is over.        *)
(*                                                                         *)
(* The environment sends a stream of frames after some noise, cut into PES *)
(* packets and TS packets anywhere. A header of a PES packet is taken at   *)
(* once. `pending' keeps what was sent from the first frame on and has not *)
(* come out yet, each byte with a mark if a frame begins there.            *)
(***************************************************************************)
EXTENDS Repackers

CONSTANTS
    Noise,    \* tokens that begin no frame, by kind
    Frames,   \* tokens that begin one
    MaxSent,  \* bound: bytes sent, by kind
    MaxNoise, \* bound: bytes sent before the last of the noise
    MaxCut,   \* bound: bytes of a token in the first TS packet it comes in
    MaxPes,   \* bound: PES packets begun, by kind
    MaxClears \* bound: calls of Clear

ASSUME TokensAssumption ==
    /\ MaxCut \in Nat
    /\ Frames \in [Kinds -> SUBSET Seq(0 .. 255)]
    /\ Noise \in [Kinds -> SUBSET Seq(0 .. 255)]

VARIABLES
    kind,     \* of the track
    repacker, \* its repacker
    buf,      \* the PES packet collected: is one open, its pts, its body
    rest,     \* the payload of a TS packet that is not in buf yet
    token,    \* what is left of the last token the environment began
    begun,    \* has a frame begun, is there more of it than its beginning
    pending,
    bytes, pes, clears \* sent, begun, called so far
remuxVars ==
    <<kind, repacker, buf, rest, token, begun, pending, bytes, pes, clears>>

None == [open |-> FALSE, pts |-> FALSE, body |-> <<>>]

RemuxInit ==
    /\ kind \in Kinds
    /\ repacker = Fresh(kind) /\ buf = None
    /\ rest = <<>> /\ token = <<>>
    /\ begun = "no" /\ pending = <<>> /\ bytes = 0 /\ pes = 0 /\ clears = 0

-----------------------------------------------------------------------------

(* With room for what a repacker snoops at after a packet. *)
Size == MaxPacketSize[kind] + QuerySnoopSize(kind)

(* The packet collected goes to the repacker, unless it is empty.          *)
SendIpack(q, b) ==
    IF ~b.pts /\ b.body = <<>> THEN q ELSE Repack(kind, q, b)

Calm == [repacker EXCEPT !.out = <<>>]
Bodies(q) == FlattenSeq([i \in 1 .. Len(q.out) |-> q.out[i].body])
Left == SubSeq(pending, Len(Bodies(repacker)) + 1, Len(pending))

(* Bytes of the next TS packet, cut off a token.                           *)
Marked(t) ==
    [i \in 1 .. Len(t) |->
       [b |-> t[i], first |-> i = 1 /\ t \in Frames[kind] /\
                              (kind = "video" => begun # "opened")]]
Begin(t) ==
    begun' = CASE t \in Frames[kind] /\ begun # "opened" -> "opened"
               [] t \notin Frames[kind] /\ begun = "opened"
                  /\ Len(t) = 4 -> "more"
               [] OTHER -> begun

(* write_ipack is at rest: nothing more comes before it has written.       *)
Payload ==
    /\ buf.open /\ rest = <<>> /\ token = <<>>
    /\ \E t \in Frames[kind] \cup Noise[kind], n \in 1 .. MaxCut :
         /\ t \in Noise[kind] /\ kind # "video"
              => begun = "no" /\ bytes < MaxNoise
         /\ bytes + Len(t) <= MaxSent[kind]
         /\ \/ rest' = t /\ token' = <<>>
            \/ /\ n < Len(t)
               /\ rest' = SubSeq(t, 1, n) /\ token' = SubSeq(t, n + 1, Len(t))
         /\ bytes' = bytes + Len(t)
         /\ Begin(t)
         /\ pending' = Left \o
              (IF begun = "no" /\ t \in Noise[kind] THEN <<>> ELSE Marked(t))
    /\ repacker' = Calm
    /\ UNCHANGED <<kind, buf, pes, clears>>

PayloadRest ==
    /\ buf.open /\ rest = <<>> /\ token # <<>>
    /\ rest' = token /\ token' = <<>>
    /\ repacker' = Calm /\ pending' = Left
    /\ UNCHANGED <<kind, buf, begun, bytes, pes, clears>>

(* What is written at once: up to where the buffer is full or a break is.  *)
(* If the repacker says there is a break, what is before it is sent, and   *)
(* so is a buffer that is full; what is left is written then.              *)
WriteIpack ==
    /\ rest # <<>>
    /\ LET all    == buf.body \o rest
           room   == Size - HeaderSize[buf.pts]
           before == BreakAt(kind, repacker, buf)
           take   == Least(Least(Len(all), room),
                           IF before < 0 THEN room ELSE
                           IF before < Len(buf.body) THEN Len(buf.body) ELSE before)
           full   == [buf EXCEPT !.body = SubSeq(all, 1, take)]
           after  == BreakAt(kind, repacker, full)
           cut    == [buf EXCEPT !.body = SubSeq(all, 1, after)]
       IN \/ /\ after \in 0 .. take
             /\ repacker' = SendIpack(Calm, cut)
             /\ buf' = [None EXCEPT !.open = TRUE]
             /\ rest' = SubSeq(all, after + 1, Len(all))
          \/ /\ after \notin 0 .. take /\ take >= room
             /\ repacker' = SendIpack(Calm, full)
             /\ buf' = [None EXCEPT !.open = TRUE]
             /\ rest' = SubSeq(all, take + 1, Len(all))
          \/ /\ after \notin 0 .. take /\ take < room
             /\ repacker' = Calm /\ buf' = full /\ rest' = <<>>
    /\ pending' = Left
    /\ UNCHANGED <<kind, token, begun, bytes, pes, clears>>

(* The PES packet has its length, or another begins: what is collected     *)
(* goes out.                                                               *)
EndPes ==
    /\ buf.open /\ rest = <<>> /\ bytes > 0
    /\ repacker' = SendIpack(Calm, buf) /\ buf' = None
    /\ pending' = Left
    /\ UNCHANGED <<kind, rest, token, begun, bytes, pes, clears>>

PesStart ==
    /\ rest = <<>> /\ pes < MaxPes[kind] /\ pes' = pes + 1
    /\ \E pts \in BOOLEAN :
         buf' = [open |-> TRUE, pts |-> pts, body |-> <<>>]
    /\ repacker' = IF buf.open THEN SendIpack(Calm, buf) ELSE Calm
    /\ pending' = Left
    /\ UNCHANGED <<kind, rest, token, begun, bytes, clears>>

(* The device switches or the streamer starts anew.                        *)
Clear ==
    /\ rest = <<>> /\ clears < MaxClears
    /\ repacker' = Fresh(kind) /\ buf' = None
    /\ token' = <<>> /\ begun' = "no" /\ pending' = <<>>
    /\ clears' = clears + 1
    /\ UNCHANGED <<kind, rest, bytes, pes>>

RemuxNext == Payload \/ PayloadRest \/ WriteIpack \/ EndPes \/ PesStart \/ Clear
RemuxSpec == RemuxInit /\ [][RemuxNext]_remuxVars

-----------------------------------------------------------------------------

(* The bytes of the first n packets that come out. *)
Gone(n) ==
    FoldLeft(LAMBDA s, p : s + Len(p.body), 0, SubSeq(repacker.out, 1, n))

(* No packet is empty or larger than asked for, whatever comes in.        *)
PacketsFit == \A i \in 1 .. Len(repacker.out) : LET p == repacker.out[i] IN
    /\ p.body # <<>>
    /\ HeaderSize[p.pts] + Len(p.body) <= MaxPacketSize[kind]

(* The bytes of the packets that come out are those sent, from the first   *)
(* frame on, with none lost, repeated or moved, whatever the packets they  *)
(* came in; and each packet is as it should be.                            *)
PayloadKept ==
    /\ IsPrefix(Bodies(repacker), [i \in 1 .. Len(pending) |-> pending[i].b])
    /\ PacketsFit

(* A frame begins where a packet begins and nowhere else, so there is one  *)
(* in a packet; and a time stamp is only on a packet that begins with one. *)
OneFrame ==
    \A i \in 1 .. Len(repacker.out) : LET from == Gone(i - 1) IN
        /\ \A j \in 2 .. Len(repacker.out[i].body) : ~pending[from + j].first
        /\ repacker.out[i].pts => pending[from + 1].first

=============================================================================
