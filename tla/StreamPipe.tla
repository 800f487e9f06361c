----------------------------- MODULE StreamPipe -----------------------------
(***************************************************************************)
(* The data path of one streamdev-server client: a receiver fills the      *)
(* receive buffer, the streamer thread moves data into the remux buffer,   *)
(* and the writer thread sends it (server/streamer.c, livestreamer.c).     *)
(*                                                                         *)
(* Data are units, Pkt of them to a TS packet.  Unit k > 0 is the k-th     *)
(* unit the receive buffer accepted from the device; unit -k is the k-th   *)
(* unit of the PAT packets the PAT filter queued.  The ring buffers are    *)
(* VDR's cRingBufferLinear: one byte and the margin stay unused, Get       *)
(* returns nothing below the margin and, where the ring wraps, less than   *)
(* what is stored.                                                         *)
(***************************************************************************)
EXTENDS Integers, Sequences

CONSTANTS
    Pkt,         \* units per TS packet (TS_SIZE)
    RecvSize,    \* size of m_ReceiveBuffer (LIVEBUFSIZE), in units
    RemuxSize,   \* size of cRemuxDummy::m_Buffer (WRITERBUFSIZE), in units
    SiSize,      \* size of cStreamdevPatFilter::siBuffer, in units
    Dgram,       \* TRUE for a SOCK_DGRAM (multicast) socket
    DgramPkts,   \* TS packets per datagram (7 in the code)
    MaxIdle,     \* polls without receiver before the writer gives up (20)
    MaxStall,    \* select timeouts before the writer gives up (20)
    MaxRecv,     \* bound: packets the device delivers
    MaxSi,       \* bound: PAT packets queued
    MaxReattach, \* bound: times the device takes the receiver back
    Prebuffer    \* TRUE when LiveBufferMs is set

ASSUME PipeAssumption ==
    /\ Pkt \in Nat \ {0}
    /\ RecvSize \in Nat /\ RemuxSize \in Nat /\ SiSize \in Nat
    /\ RecvSize > 2 * Pkt /\ RemuxSize > 2 * Pkt /\ SiSize > Pkt
    /\ DgramPkts \in Nat \ {0}
    /\ MaxIdle \in Nat /\ MaxStall \in Nat
    /\ MaxRecv \in Nat /\ MaxSi \in Nat /\ MaxReattach \in Nat
    /\ Dgram \in BOOLEAN /\ Prebuffer \in BOOLEAN

VARIABLES
    attached,  \* the receiver is attached to a device: IsReceiving()
    reattach,  \* times it was attached again
    offered,   \* packets the device delivered so far
    accepted,  \* units the receive buffer took
    recv,      \* contents of m_ReceiveBuffer
    siMade,    \* PAT units siBuffer took
    si,        \* contents of siBuffer
    remux,     \* contents of the remux buffer
    sPc,       \* where the streamer thread is
    sRun,      \* its Running() flag
    sGot,      \* units its last Get returned
    wPc,       \* where the writer thread is
    wRun,      \* its Running() flag
    wOffset,   \* offset into the block being written
    wCount,    \* what is left of the block
    wTimeout,  \* its timeout counter
    sent,      \* everything written to the socket
    peerUp,    \* the client's end of the socket is alive
    ctl        \* how far the owner is with Start() and Stop()

source == <<attached, reattach, offered, accepted, recv, siMade, si>>
streamer == <<sPc, sRun, sGot>>
writer == <<wPc, wRun, wOffset, wCount, wTimeout>>
vars == <<source, remux, streamer, writer, sent, peerUp, ctl>>

Margin == 2 * Pkt
RecvCap == RecvSize - 1 - Margin
RemuxCap == RemuxSize - 1 - Margin
SiCap == SiSize - 1 - Pkt

Least(a, b) == IF a < b THEN a ELSE b
Drop(s, n) == SubSeq(s, n + 1, Len(s))

(* What Get may return from a buffer with contents s and margin m.         *)
GetCounts(s, m) == m .. Len(s)

(* What PutTS stores of n units: what fits, in whole packets.              *)
PutTS(s, cap, n) == LET fit == Least(cap - Len(s), n) IN fit - (fit % Pkt)

Init ==
    /\ attached = FALSE /\ reattach = 0 /\ offered = 0 /\ accepted = 0
    /\ recv = <<>> /\ siMade = 0 /\ si = <<>> /\ remux = <<>>
    /\ sPc = "off" /\ sRun = FALSE /\ sGot = 0
    /\ wPc = "off" /\ wRun = FALSE /\ wOffset = 0 /\ wCount = 0 /\ wTimeout = 0
    /\ sent = <<>> /\ peerUp = TRUE /\ ctl = "new"

-----------------------------------------------------------------------------
(* The device thread.                                                      *)

(* cStreamdevLiveStreamer::Receive: k packets arrive; what does not fit in *)
(* the receive buffer is dropped.                                          *)
Receive(k) ==
    LET n == PutTS(recv, RecvCap, k * Pkt) IN
    /\ attached
    /\ offered + k <= MaxRecv
    /\ offered' = offered + k
    /\ recv' = recv \o [i \in 1..n |-> accepted + i]
    /\ accepted' = accepted + n
    /\ UNCHANGED <<attached, reattach, siMade, si, remux, streamer, writer,
                   sent, peerUp, ctl>>

(* cStreamdevPatFilter::Process repacks the PAT into siBuffer.             *)
QueuePat ==
    LET n == PutTS(si, SiCap, Pkt) IN
    /\ attached
    /\ siMade < MaxSi * Pkt
    /\ si' = si \o [i \in 1..n |-> -(siMade + i)]
    /\ siMade' = siMade + n
    /\ UNCHANGED <<attached, reattach, offered, accepted, recv, remux,
                   streamer, writer, sent, peerUp, ctl>>

(* VDR takes the device away (a recording of higher priority).             *)
LoseDevice ==
    /\ ctl = "run" /\ attached
    /\ attached' = FALSE
    /\ UNCHANGED <<reattach, offered, accepted, recv, siMade, si, remux,
                   streamer, writer, sent, peerUp, ctl>>

(* MainThreadHook or SetPid attach a receiver again.                       *)
RegainDevice ==
    /\ ctl = "run" /\ ~attached
    /\ reattach < MaxReattach
    /\ attached' = TRUE
    /\ reattach' = reattach + 1
    /\ UNCHANGED <<offered, accepted, recv, siMade, si, remux, streamer,
                   writer, sent, peerUp, ctl>>

-----------------------------------------------------------------------------
(* The streamer thread: cStreamdevLiveStreamer::Action, ::Put.             *)

SUnchanged == UNCHANGED <<attached, reattach, offered, accepted, siMade,
                          sRun, writer, sent, peerUp, ctl>>

(* Action waits for the first block when LiveBufferMs is set.              *)
SPrebuffered ==
    /\ sPc = "prebuffer" /\ sRun
    /\ GetCounts(recv, Margin) # {}
    /\ sPc' = "get"
    /\ UNCHANGED <<recv, si, remux, sGot>> /\ SUnchanged

(* GetFromReceiver.                                                        *)
SGet ==
    /\ sPc = "get" /\ sRun
    /\ \E n \in GetCounts(recv, Margin) : sGot' = n
    /\ sPc' = "si"
    /\ UNCHANGED <<recv, si, remux>> /\ SUnchanged

(* Slip: all or nothing.                                                   *)
FitsAllOrNothing(got) == IF got <= RemuxCap - Len(remux) THEN got ELSE 0

(* What cRemuxDummy::Put takes of got units.                               *)
Fits(got) == Least(RemuxCap - Len(remux), got)

(* Put inserts what the PAT filter queued before the data.                 *)
SPutSi ==
    /\ sPc = "si"
    /\ IF GetCounts(si, Pkt) = {}
         THEN UNCHANGED <<si, remux>>
         ELSE \E got \in GetCounts(si, Pkt) :
                /\ remux' = remux \o SubSeq(si, 1, Fits(got))
                /\ si' = Drop(si, Fits(got))
    /\ sPc' = "put"
    /\ UNCHANGED <<recv, sGot>> /\ SUnchanged

(* The data follow; DelFromReceiver gives up what Put took.                *)
SPut ==
    /\ sPc = "put"
    /\ remux' = remux \o SubSeq(recv, 1, Fits(sGot))
    /\ recv' = Drop(recv, Fits(sGot))
    /\ sPc' = "get"
    /\ sGot' = 0
    /\ UNCHANGED si /\ SUnchanged

(* The loop ends once Cancel() has cleared Running().                      *)
SEnd ==
    /\ sPc \in {"prebuffer", "get"} /\ ~sRun
    /\ sPc' = "ended"
    /\ UNCHANGED <<recv, si, remux, sGot>> /\ SUnchanged

-----------------------------------------------------------------------------
(* The writer thread: cStreamdevWriter::Action.                            *)

WUnchanged == UNCHANGED <<source, streamer, wRun, peerUp, ctl>>

(* Get the next block, or find none.                                       *)
WGet ==
    /\ wPc = "get" /\ wRun
    /\ IF GetCounts(remux, Margin) = {}
         THEN wPc' = "idle" /\ UNCHANGED wCount
         ELSE wPc' = "select" /\ wCount' \in GetCounts(remux, Margin)
    /\ UNCHANGED <<remux, sent, wOffset, wTimeout>> /\ WUnchanged

(* Slip: the polls are not counted.                                        *)
WIdleUncounted ==
    /\ wPc = "idle"
    /\ wPc' = IF ~attached /\ wTimeout > MaxIdle THEN "close" ELSE "get"
    /\ UNCHANGED <<remux, sent, wOffset, wCount, wTimeout>> /\ WUnchanged

(* No block: give up after more than MaxIdle polls without a receiver.     *)
WIdle ==
    /\ wPc = "idle"
    /\ wPc' = IF ~attached /\ wTimeout > MaxIdle THEN "close" ELSE "get"
    /\ wTimeout' = IF attached THEN wTimeout ELSE wTimeout + 1
    /\ UNCHANGED <<remux, sent, wOffset, wCount>> /\ WUnchanged

(* Select(600) finds the socket writable; a dead peer makes it writable.   *)
WSelect ==
    /\ wPc = "select" /\ wRun
    /\ wTimeout' = 0
    /\ wPc' = "write"
    /\ UNCHANGED <<remux, sent, wOffset, wCount>> /\ WUnchanged

(* Select(600) times out.                                                  *)
WSelectTimeout ==
    /\ wPc = "select" /\ wRun /\ peerUp
    /\ wTimeout' = wTimeout + 1
    /\ wPc' = IF wTimeout < MaxStall THEN "select" ELSE "close"
    /\ UNCHANGED <<remux, sent, wOffset, wCount>> /\ WUnchanged

(* How much one Write offers: a datagram holds whole packets.              *)
PkgSize(count) ==
    IF Dgram
      THEN IF count > DgramPkts * Pkt THEN DgramPkts * Pkt
                                      ELSE count - (count % Pkt)
      ELSE count

(* Slip: the offset into the block is forgotten.                           *)
ChunkNoOffset(n) == SubSeq(remux, 1, n)

(* The n units Write takes from block + offset.                            *)
Chunk(n) == SubSeq(remux, wOffset + 1, wOffset + n)

(* Slip: the block is written to its last byte.                            *)
BlockEmpty(left) == left = 0

(* Less than one TS packet left: the block is done with.                   *)
BlockDone(left) == left < Pkt

(* Write n units; less than a packet left means Del(offset) and next block.*)
(* A stream socket may take less than offered, a datagram is all or none.  *)
WWrite(n) ==
    /\ wPc = "write" /\ peerUp
    /\ n \in 1..PkgSize(wCount)
    /\ Dgram => n = PkgSize(wCount)
    /\ sent' = sent \o Chunk(n)
    /\ IF BlockDone(wCount - n)
         THEN /\ remux' = Drop(remux, wOffset + n)
              /\ wOffset' = 0 /\ wCount' = 0
              /\ wPc' = "get"
         ELSE /\ wOffset' = wOffset + n /\ wCount' = wCount - n
              /\ wPc' = "select"
              /\ UNCHANGED remux
    /\ UNCHANGED wTimeout /\ WUnchanged

(* Write fails once the client is gone.                                    *)
WWriteFails ==
    /\ wPc = "write" /\ ~peerUp
    /\ wPc' = "close"
    /\ UNCHANGED <<remux, sent, wOffset, wCount, wTimeout>> /\ WUnchanged

(* Running() is tested at the top of every round.                          *)
WCancelled ==
    /\ wPc \in {"get", "select"} /\ ~wRun
    /\ wPc' = "close"
    /\ UNCHANGED <<remux, sent, wOffset, wCount, wTimeout>> /\ WUnchanged

(* m_Socket->Close() and the end of the thread.                            *)
WClose ==
    /\ wPc = "close"
    /\ wPc' = "ended"
    /\ UNCHANGED <<remux, sent, wOffset, wCount, wTimeout>> /\ WUnchanged

-----------------------------------------------------------------------------
(* The owner: cStreamdevStreamer::Start and ::Stop, called by the server.  *)

CUnchanged == UNCHANGED <<reattach, offered, accepted, recv, siMade, si,
                          remux, sGot, wOffset, wCount, wTimeout, sent, peerUp>>

StartWriter ==
    /\ ctl = "new" /\ ctl' = "writer"
    /\ wPc' = "get" /\ wRun' = TRUE
    /\ UNCHANGED <<attached, sPc, sRun>> /\ CUnchanged

StartStreamer ==
    /\ ctl = "writer" /\ ctl' = "streamer"
    /\ sPc' = IF Prebuffer THEN "prebuffer" ELSE "get"
    /\ sRun' = TRUE
    /\ UNCHANGED <<attached, wPc, wRun>> /\ CUnchanged

Attach ==
    /\ ctl = "streamer" /\ ctl' = "run"
    /\ attached' = TRUE
    /\ UNCHANGED <<sPc, sRun, wPc, wRun>> /\ CUnchanged

(* Abort(): the streamer thread is active, the writer thread is not.       *)
Abort == sPc \notin {"off", "ended"} /\ wPc = "ended"

StopDetach ==
    /\ ctl' = "detached"
    /\ attached' = FALSE
    /\ UNCHANGED <<sPc, sRun, wPc, wRun>> /\ CUnchanged

(* The server loop polls Abort() and deletes the connection.               *)
StopOnAbort == ctl = "run" /\ Abort /\ StopDetach

(* The client, or VDR's main thread, asks for the end of the stream.       *)
StopOnRequest == ctl = "run" /\ StopDetach

CancelStreamer ==
    /\ ctl = "detached" /\ ctl' = "cancelled"
    /\ sRun' = FALSE
    /\ UNCHANGED <<attached, sPc, wPc, wRun>> /\ CUnchanged

(* ~cStreamdevWriter cancels the writer once the streamer thread is gone.  *)
CancelWriter ==
    /\ ctl = "cancelled" /\ sPc = "ended" /\ ctl' = "deleting"
    /\ wRun' = FALSE
    /\ UNCHANGED <<attached, sPc, sRun, wPc>> /\ CUnchanged

DeleteWriter ==
    /\ ctl = "deleting" /\ wPc = "ended" /\ ctl' = "stopped"
    /\ UNCHANGED <<attached, sPc, sRun, wPc, wRun>> /\ CUnchanged

-----------------------------------------------------------------------------
(* The client: external.                                                   *)

PeerGone ==
    /\ peerUp /\ ctl # "new"
    /\ peerUp' = FALSE
    /\ UNCHANGED <<source, remux, streamer, writer, sent, ctl>>

DeviceStep == (\E k \in 1..2 : Receive(k)) \/ QueuePat \/ LoseDevice
              \/ RegainDevice
StreamerStep == SPrebuffered \/ SGet \/ SPutSi \/ SPut \/ SEnd
WriterStep == WGet \/ WIdle \/ WSelect \/ WSelectTimeout
              \/ (\E n \in 1..wCount : WWrite(n))
              \/ WWriteFails \/ WCancelled \/ WClose
OwnerStep == StartWriter \/ StartStreamer \/ Attach \/ StopOnAbort
             \/ CancelStreamer \/ CancelWriter \/ DeleteWriter

Next == DeviceStep \/ StreamerStep \/ WriterStep \/ OwnerStep
        \/ StopOnRequest \/ PeerGone

Spec == Init /\ [][Next]_vars

(* Both threads run whenever they can; the owner finishes what it began    *)
(* and keeps polling Abort().  Neither device nor client owe anything.     *)
Fairness == WF_vars(StreamerStep) /\ WF_vars(WriterStep) /\ WF_vars(OwnerStep)

FairSpec == Spec /\ Fairness

-----------------------------------------------------------------------------
(* Every variable stays in its range; in particular no buffer ever holds   *)
(* more than its capacity, whatever the three threads interleave.          *)
TypeOK ==
    /\ attached \in BOOLEAN /\ reattach \in 0..MaxReattach
    /\ offered \in 0..MaxRecv
    /\ accepted \in Nat
    /\ recv \in Seq(Int) /\ Len(recv) <= RecvCap
    /\ siMade \in Nat
    /\ si \in Seq(Int) /\ Len(si) <= SiCap
    /\ remux \in Seq(Int) /\ Len(remux) <= RemuxCap
    /\ sPc \in {"off", "prebuffer", "get", "si", "put", "ended"}
    /\ sRun \in BOOLEAN /\ sGot \in Nat
    /\ wPc \in {"off", "get", "idle", "select", "write", "close", "ended"}
    /\ wRun \in BOOLEAN
    /\ wOffset \in Nat /\ wCount \in Nat /\ wTimeout \in Nat
    /\ sent \in Seq(Int)
    /\ peerUp \in BOOLEAN
    /\ ctl \in {"new", "writer", "streamer", "run", "detached", "cancelled",
                "deleting", "stopped"}

(* The block a thread works on stays valid while the other side of the     *)
(* buffer goes on: Del never takes more than Get returned (VDR would limit *)
(* it), and the writer keeps at least one whole packet to write.           *)
BlockValid ==
    /\ sGot <= Len(recv)
    /\ sPc \in {"si", "put"} => sGot >= Margin
    /\ wOffset + wCount <= Len(remux)
    /\ wPc \in {"select", "write"} => wCount >= Pkt
    /\ wPc \in {"off", "get", "idle"} => wOffset = 0 /\ wCount = 0

(* What was sent, followed by what waits in the remux buffer.              *)
Flow == sent \o Drop(remux, wOffset)
Moved == accepted - Len(recv)
SiMoved == siMade - Len(si)

(* The device's units appear in Flow and then recv, the PAT's in Flow and  *)
(* then si.                                                                *)
DeviceInOrder ==
    /\ \A i \in 1..Len(recv) : recv[i] = Moved + i
    /\ \A i \in 1..Len(Flow) : Flow[i] <= Moved
    /\ \A k \in 1..Moved : \E i \in 1..Len(Flow) : Flow[i] = k
    /\ \A i, j \in 1..Len(Flow) : i < j /\ Flow[i] > 0 /\ Flow[j] > 0
                                    => Flow[i] < Flow[j]

PatInOrder ==
    /\ \A i \in 1..Len(si) : si[i] = -(SiMoved + i)
    /\ \A i \in 1..Len(Flow) : -Flow[i] <= SiMoved
    /\ \A k \in 1..SiMoved : \E i \in 1..Len(Flow) : Flow[i] = -k
    /\ \A i, j \in 1..Len(Flow) : i < j /\ Flow[i] < 0 /\ Flow[j] < 0
                                    => Flow[i] > Flow[j]

(* Nothing the buffers accepted is lost, duplicated or reordered on the    *)
(* way to the socket, over partial Puts, partial writes and Dels: each     *)
(* unit of the device, and each of the PAT packets put in between, appears *)
(* exactly once and in the order of its kind.                              *)
InOrder == DeviceInOrder /\ PatInOrder

(* A source that ends for good is noticed: the writer drains or gives up,  *)
(* closes the socket, the server's Abort() poll sees it and the stream is  *)
(* torn down.  The timeouts this rests on share one counter.               *)
EndOfSourceStops == <>[](~attached) => <>(ctl = "stopped")

(* So does a client that is gone, as long as there is something to send.   *)
PeerGoneStops ==
    (~peerUp) ~> (ctl = "stopped" \/ Len(Drop(remux, wOffset)) < Margin)

(* Stop() comes to its end: neither thread waits for the other.            *)
StopEnds == (ctl = "detached") ~> (ctl = "stopped")

(* The threads of a stream end, whoever ends it: the source, the client or *)
(* the server, and with them in whatever state.                            *)
ThreadsEnd == EndOfSourceStops /\ PeerGoneStops /\ StopEnds

(* No stall: while the stream goes on, everything is sent but for what the *)
(* margins of the two buffers hold back.                                   *)
EverythingFlows ==
    <>[](attached /\ ctl = "run" /\ wPc \notin {"close", "ended"}
         /\ wTimeout = 0)
      => <>[](Len(recv) < Margin /\ Len(Drop(remux, wOffset)) < Margin)

-----------------------------------------------------------------------------
(* The units of the device among those of s: the PAT packets put in between *)
(* are left out.                                                           *)
DeviceUnits(s) ==
    LET upTo[n \in 0..Len(s)] ==
          IF n = 0 THEN <<>>
          ELSE IF s[n] > 0 THEN Append(upTo[n - 1], s[n])
          ELSE upTo[n - 1]
    IN upTo[Len(s)]

Fifo == INSTANCE LossyFifo WITH
    taken <- accepted,
    out   <- DeviceUnits(sent),
    open  <- wPc \notin {"close", "ended"}

(* Every behaviour of the two buffers and three threads is one of the      *)
(* lossy FIFO: loss only at PutTS, order and multiplicity kept.            *)
ImplementsFifo == Fifo!Spec
=============================================================================
