----------------------------- MODULE Repackers ------------------------------
(***************************************************************************)
(* The repackers of remux/ts2pes.c: a stream of PES packets, cut anywhere, *)
(* becomes one in which every picture, audio frame or AC3 frame begins a   *)
(* packet of its own, and no packet is larger than maxPacketSize. A PES    *)
(* packet is [pts, starts, body]: its header has a time stamp or is that   *)
(* of a continuation, and says (of AC3) that a frame starts in it. That a  *)
(* packet under construction lies partly in the fragment buffer, in the    *)
(* header buffer and in the data just come is not told apart.              *)
(***************************************************************************)
EXTENDS Integers, Sequences, SequencesExt, FiniteSets

CONSTANTS
    HeaderSize,    \* of a PES header: [BOOLEAN -> Nat], with a time stamp?
    MaxPacketSize, \* maxPacketSize of the repackers, by kind
    AudioSizes,    \* of frames, by the third byte of a header, 0 if unknown
    Ac3Sizes       \* of frames, by the fifth byte

Kinds == {"video", "audio", "dolby"}

(* A packet has room for the bytes by which a frame is known, and for an   *)
(* audio frame; no third byte of an audio header is one of a sync word.    *)
ASSUME RepackersAssumption ==
    /\ HeaderSize \in [BOOLEAN -> Nat] /\ MaxPacketSize \in [Kinds -> Nat]
    /\ \A p \in BOOLEAN :
         /\ \A k \in Kinds : HeaderSize[p] + 4 <= MaxPacketSize[k]
         /\ HeaderSize[p] + 5 <= MaxPacketSize["dolby"]
    /\ \A v \in DOMAIN AudioSizes :
         /\ v \in 0 .. 239 /\ AudioSizes[v] \in {0} \cup (Nat \ 0 .. 3)
         /\ \A p \in BOOLEAN :
              HeaderSize[p] + AudioSizes[v] <= MaxPacketSize["audio"]
    /\ \A v \in DOMAIN Ac3Sizes : v \in Nat /\ Ac3Sizes[v] \in Nat \ 0 .. 4

(* A repacker. state, packetTodo, frameTodo (ac3todo), frameSize, the last *)
(* four bytes (scanner; chk1 and chk2 are the last two), the packet under  *)
(* construction with its pts and starts, how many bytes it lacks           *)
(* (fragmentTodo), the header in store (pesHeaderBackup, pesHeader) and    *)
(* the packets pushed out.                                                 *)
Fresh(k) == [state |-> "syncing", initiallySyncing |-> TRUE, skipped |-> 0,
          packetTodo |-> 0, frameTodo |-> 0, frameSize |-> 0,
          scanner |-> [i \in 1 .. 4 |-> IF k = "video" THEN 255 ELSE 0],
          body |-> <<>>, pts |-> FALSE,
          starts |-> TRUE, fragmentTodo |-> 0, backup |-> FALSE,
          header |-> [pts |-> FALSE, starts |-> TRUE], out |-> <<>>]

Least(a, b) == IF a < b THEN a ELSE b
Front4(r, b) == Append(Tail(r.scanner), b)
LastBytes(s, n) == SubSeq(s, Len(s) - n + 1, Len(s))

(* The packet goes out, without its last n bytes, unless it is empty.      *)
PushOutPacket(r, n) ==
    LET body == SubSeq(r.body, 1, Len(r.body) - n) IN
    IF body = <<>> THEN r
    ELSE [r EXCEPT !.out = Append(@, [pts |-> r.pts, starts |-> r.starts,
                                      body |-> body])]

(* A packet begins, with the header in store if there is one.              *)
NewPacket(k, r, body) ==
    [r EXCEPT !.body = body, !.pts = r.backup, !.backup = FALSE,
              !.packetTodo = MaxPacketSize[k] - HeaderSize[r.backup] - Len(body),
              !.initiallySyncing = FALSE, !.skipped = 0]

(* A packet is full, and what it has too much begins the next.             *)
CutPacket(k, r) ==
    [PushOutPacket(r, -r.packetTodo) EXCEPT
        !.body = LastBytes(r.body, -r.packetTodo), !.pts = FALSE,
        !.packetTodo = MaxPacketSize[k] - HeaderSize[FALSE] + r.packetTodo]

-----------------------------------------------------------------------------
(* cVideoRepacker                                                          *)

PictureCodes == {0, 179, 183, 184}
SliceCodes == 1 .. 175

HandleStartCode(r, code) ==
    CASE code \in PictureCodes /\ r.state # "findPicture" ->
           LET q == IF r.state = "scanPicture" THEN PushOutPacket(r, 3) ELSE r
           IN [NewPacket("video", q, <<0, 0, 1>>) EXCEPT
                 !.state = "findPicture"]
      [] code \in SliceCodes /\ r.state = "findPicture" ->
           [r EXCEPT !.state = "scanPicture"]
      [] OTHER -> r

StartCode(s) == SubSeq(s, 1, 3) = <<0, 0, 1>>

(* Slip: only the last byte is looked at.                                  *)
VideoWaitsByte(r) == r.packetTodo >= -1 /\ r.scanner[4] = 0

(* The packet may end in a part of a start code: rules A, B and C.         *)
VideoWaits(r) ==
    /\ ~StartCode(r.scanner)
    /\ \/ SubSeq(r.scanner, 2, 4) = <<0, 0, 1>>
       \/ r.scanner[4] = 0 /\ r.packetTodo >= -1

VideoByte(r, b) ==
    LET s == [r EXCEPT !.scanner = Front4(r, b)]
        h == IF StartCode(s.scanner) THEN HandleStartCode(s, b) ELSE s
        t == [h EXCEPT !.body = Append(@, b), !.packetTodo = @ - 1]
    IN CASE h.state = "syncing" -> h
         [] h.state # "syncing" /\ (t.packetTodo > 0 \/ VideoWaits(t)) -> t
         [] OTHER -> CutPacket("video", t)

-----------------------------------------------------------------------------
(* cAudioRepacker                                                          *)

AudioSync(a, b) == a = 255 /\ b >= 240
IsValidAudioHeader(s) == AudioSync(s[1], s[2]) /\ s[3] \in DOMAIN AudioSizes

FrameBegins(r) ==
    /\ r.frameTodo <= 0 /\ (r.frameSize = 0 \/ r.skipped >= 4)
    /\ IsValidAudioHeader(r.scanner)

AudioFrame(r) ==
    LET q == IF r.state = "scanFrame" THEN PushOutPacket(r, 3) ELSE r
        size == AudioSizes[r.scanner[3]]
    IN [NewPacket("audio", q, SubSeq(r.scanner, 1, 3)) EXCEPT
          !.state = "scanFrame", !.frameSize = size, !.frameTodo = size - 3]

(* The packet may end in a part of a frame header: rules A to D.           *)
AudioWaits(r) ==
    /\ ~AudioSync(r.scanner[1], r.scanner[2])
    /\ \/ AudioSync(r.scanner[2], r.scanner[3])
       \/ AudioSync(r.scanner[3], r.scanner[4])
       \/ r.scanner[4] = 255

(* A frame whose size is known goes out as soon as it is complete.         *)
AudioByte(r, b) ==
    LET s == [r EXCEPT !.scanner = Front4(r, b),
                       !.skipped = IF r.state = "syncing"
                                     THEN Least(@ + 1, 4) ELSE @]
        h == IF FrameBegins(s) THEN AudioFrame(s) ELSE s
        t == [h EXCEPT !.body = Append(@, b),
                       !.frameTodo = IF @ > 0 THEN @ - 1 ELSE @]
        u == [t EXCEPT !.packetTodo = @ - 1]
    IN CASE h.state = "syncing" -> h
         [] h.state # "syncing" /\ h.frameTodo = 1 ->
              [PushOutPacket(t, 0) EXCEPT !.state = "syncing", !.body = <<>>]
         [] h.state # "syncing" /\ h.frameTodo # 1
            /\ (u.packetTodo > 0 \/ AudioWaits(u)) -> u
         [] OTHER -> CutPacket("audio", u)

-----------------------------------------------------------------------------
(* cDolbyRepacker. What r.frameTodo is here the code calls ac3todo, and    *)
(* the header in store is one for a new frame or for a continuation.       *)

Continuation == [pts |-> FALSE, starts |-> FALSE]
ResetPesHeader == [pts |-> FALSE, starts |-> TRUE]

Find0b(r, b) ==
    IF b # 11 THEN [r EXCEPT !.state = "syncing"]
    ELSE [r EXCEPT !.state = "find_77", !.backup = FALSE,
                   !.header = IF r.backup THEN [pts |-> TRUE, starts |-> TRUE]
                              ELSE @]
Find77(r, b) == IF b # 119 THEN Find0b(r, b)
                ELSE [r EXCEPT !.state = "store_chk1"]

(* No such frame: what was read may be the beginning of another.           *)
Resync(r, b) ==
    LET q == [r EXCEPT !.header = ResetPesHeader]
        chk1 == r.scanner[2]
        chk2 == r.scanner[3]
    IN CASE chk1 = 11 /\ chk2 = 119 -> [q EXCEPT !.state = "store_chk2"]
         [] chk2 = 11 -> Find77(q, b)
         [] OTHER -> Find0b(q, b)

(* A packet with the header in store begins, after the bytes in body; it   *)
(* is kept as a fragment if not enough is left to complete it at once.     *)
StartNewPacket(r, body, left) ==
    LET room == MaxPacketSize["dolby"] - HeaderSize[r.header.pts] - Len(body)
        need == Least(room, r.frameTodo)
    IN [r EXCEPT !.body = body, !.pts = r.header.pts, !.starts = r.header.starts,
                 !.fragmentTodo = need,
                 !.header = IF need <= left /\ need = r.frameTodo
                              THEN ResetPesHeader ELSE Continuation]

(* Slip: a packet of a frame goes on until the frame is over.              *)
OutputPacketWhole(r, b) ==
    LET t == [r EXCEPT !.body = Append(@, b), !.frameTodo = @ - 1]
    IN IF t.frameTodo > 0 THEN t
       ELSE [PushOutPacket(t, 0) EXCEPT !.body = <<>>, !.fragmentTodo = 0,
                                        !.state = "syncing"]

OutputPacket(r, b) ==
    LET t == [r EXCEPT !.body = Append(@, b), !.fragmentTodo = @ - 1,
                       !.frameTodo = @ - 1]
    IN IF t.fragmentTodo > 0 THEN t
       ELSE [PushOutPacket(t, 0) EXCEPT
               !.body = <<>>,
               !.state = IF t.frameTodo = 0 THEN "syncing" ELSE @]

(* left counts b and what follows it in the data at hand.                  *)
DolbyByte(r, b, left) ==
    LET s == [r EXCEPT !.scanner = Front4(r, b)] IN
    CASE r.state = "syncing" -> Find0b(s, b)
      [] r.state = "find_77" -> Find77(s, b)
      [] r.state = "store_chk1" -> [s EXCEPT !.state = "store_chk2"]
      [] r.state = "store_chk2" -> [s EXCEPT !.state = "get_length"]
      [] r.state = "get_length" /\ b \notin DOMAIN Ac3Sizes -> Resync(s, b)
      [] r.state = "get_length" /\ b \in DOMAIN Ac3Sizes ->
           LET q == [s EXCEPT !.frameTodo = Ac3Sizes[b] - 4,
                              !.initiallySyncing = FALSE,
                              !.state = "output_packet"]
           IN OutputPacket(StartNewPacket(
                q, <<11, 119, s.scanner[2], s.scanner[3]>>, left), b)
      [] r.state = "output_packet" ->
           IF r.fragmentTodo > 0 THEN OutputPacket(s, b)
           ELSE OutputPacket(StartNewPacket(s, <<>>, left), b)

-----------------------------------------------------------------------------

RepackByte(k, r, body, i) ==
    CASE k = "video" -> VideoByte(r, body[i])
      [] k = "audio" -> AudioByte(r, body[i])
      [] k = "dolby" -> DolbyByte(r, body[i], Len(body) - i + 1)

(* A header with a time stamp is stored for the next frame to begin.       *)
Repack(k, r, p) ==
    LET q[i \in 0 .. Len(p.body)] ==
          IF i = 0 THEN [r EXCEPT !.backup = @ \/ p.pts]
          ELSE RepackByte(k, q[i - 1], p.body, i)
    IN q[Len(p.body)]

(* The four bytes that end with the i-th of a body, of what came before it *)
(* and the body; and the first end of such bytes, or 0.                    *)
Window(r, p, i) == SubSeq(r.scanner \o p.body, i + 1, i + 4)
FirstEnd(ends) ==
    IF ends = {} THEN 0 ELSE CHOOSE i \in ends : \A j \in ends : i <= j

(* After how many bytes of its body a packet should be cut and repacked,   *)
(* because a frame and the first four bytes after it, or as much as makes  *)
(* a packet full, are there; -1 if that cannot be said.                    *)
VideoBreakAt(r, p) ==
    LET IsEnd(i) == /\ StartCode(Window(r, p, i))
                    /\ Window(r, p, i)[4] \in PictureCodes
        picture  == FirstEnd({i \in 1 .. Len(p.body) : IsEnd(i)})
    IN IF r.state = "scanPicture" /\ picture > 0 THEN picture
       ELSE r.packetTodo + 4
AudioBreakAt(r, p) ==
    LET full  == r.packetTodo + 4
        frame == FirstEnd({i \in 1 .. Len(p.body) :
                             IsValidAudioHeader(Window(r, p, i))})
    IN CASE r.state = "scanFrame" /\ r.frameTodo > 0 ->
              Least(r.frameTodo + 4, full)
         [] r.state = "scanFrame" /\ r.frameTodo <= 0 /\ frame > 0 -> frame
         [] OTHER -> full
DolbyBreakAt(r, p) ==
    CASE r.frameTodo > 0 -> r.frameTodo
      [] r.frameTodo = 0 /\ Len(p.body) >= 5 /\ SubSeq(p.body, 1, 2) = <<11, 119>>
         /\ p.body[5] \in DOMAIN Ac3Sizes -> Ac3Sizes[p.body[5]]
      [] OTHER -> -1
BreakAt(k, r, p) ==
    CASE r.initiallySyncing -> -1
      [] ~r.initiallySyncing /\ k = "video" -> VideoBreakAt(r, p)
      [] ~r.initiallySyncing /\ k = "audio" -> AudioBreakAt(r, p)
      [] ~r.initiallySyncing /\ k = "dolby" -> DolbyBreakAt(r, p)
QuerySnoopSize(k) == IF k = "dolby" THEN 0 ELSE 4
=============================================================================
