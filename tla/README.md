# streamdev in TLA+

TLA+ models of the VDR plugin *streamdev*: the server, which streams live TV and
recordings over VTP, HTTP and IGMP, and the client, which makes such a server
look like a DVB device. The modules are translated from the C++ source under
`src/`; TLC checks them on small instances and the TLAPS proof system proves the
safety of the core for every instance.

## 1. The system: parts, state, operations

| Part (source) | State it keeps | Operations | Runs in | Talks to |
|---|---|---|---|---|
| **Stream data path** (`server/streamer.*`, `livestreamer.c` Receive/Put/Action) | receive buffer, PAT queue `siBuffer`, remux buffer, the block the writer works on, two threads | Receive, Put, Get/Del, Start, Stop, Abort | VDR's device thread, streamer thread, writer thread | the server loop (Start, Stop, Abort), the socket |
| **Live streamer: pids** (`livestreamer.c` SetPid, SetPids, HasPid, StartReceiver) | `m_Pids[]` with its 0 terminator, `m_NumPids`, `m_Receiver` | ADDP/DELP, PMT changes, channel set-up | server thread, section thread | the receiver VDR serves |
| **Live streamer: device** (`livestreamer.c` SwitchDevice, MainThreadHook, ChannelChange, SetPriority, Attach/Detach) | `m_Device`, `m_Receiver`, `m_PatFilter`, `m_SwitchLive`, priority | tuning, losing and regaining a device | server thread, VDR main thread, writer thread (IsReceiving) | VDR devices |
| **Recording player / streamer** (`recplayer.*`, `recstreamer.*`) | the segment table, the open segment, the position, the range | getBlock, scan, SetRange, GetFromReceiver, seeking | server thread or streamer thread | recording files |
| **Connection** (`connection.*`) | read buffer `m_ReadBuffer`/`m_ReadBytes`, write buffer, `m_Pending`, `m_DeferClose` | Read, Write, Respond, DeferClose | server thread | the socket, Command() of the protocol |
| **Server loop** (`server.c`, `component.*`) | components, the client list, select sets | accept, reject, read, write, poll Abort, close, shut down | server thread; list also read by main thread and menus | components, connections |
| **VTP connection** (`connectionVTP.*`, `componentVTP.*`) | tuned channel, live, data and filter streamers, recording, LST handlers | CAPS, PROV, PORT, TUNE, PLAY, PRIO, ADDP, DELP, ADDF, DELF, ABRT, QUIT, SUSP, LSTx, READ ... | server thread | streamers, filters, VDR lists |
| **HTTP connection** (`connectionHTTP.*`, `menuHTTP.*`) | request state, job, channel or recording, stream type | request line, headers, ProcessRequest, HttpResponse, Flushed | server thread | streamers, menus |
| **IGMP** (`componentIGMP.*`, `connectionIGMP.*`) | group list, timers, querier state | membership reports, leaves, queries, timeouts | its own thread and the server thread | multicast streamers |
| **Section relay** (`livefilter.*`, `client/filter.c`) | section buffers, filter handles | Receive, Action, Put | section thread, filter streamer, client thread | data connection |
| **Client socket and device** (`client/socket.c`, `client/device.c`) | control connection, data sockets, caches of priority and channel | CheckConnection, ProvidesChannel, SetChannelDevice, SetPid, SetFilter, Quit | VDR threads of the client | the server's VTP connection |
| **Tools** (`tools/*`) | file descriptor, line buffer | Open, Read, Write, ReadUntil, Select, Connect, Accept | all | the operating system |
| **Remultiplexers** (`remux/*`) | PES repackers, result buffers, the child of externremux | Put, Get, Del | streamer, writer | the data path |
| **Menus, setup, suspend** (`server/suspend.*`, `menu.*`, `setup.*`, `streamdev-server.c`) | suspend control, setup values | start, stop, main thread hook | main thread | the server loop |
| **libdvbmpeg** | conversion state | ... | streamer | PS remultiplexer |

### How the parts interact

* **One server thread** (`cStreamdevServer::Action`) polls the listening sockets
  and all connections. Every command of every client is executed in it, and so
  are `Start` and `Stop` of a client's stream. It learns that a stream has ended
  by asking `Abort()` after a `select`.
* **Two threads per stream.** The *streamer* moves data from the receive buffer
  into the remultiplexer, the *writer* from there to the socket. Both only poll;
  they share `cRingBufferLinear` buffers with one reader and one writer each. The
  writer of an HTTP stream writes to the socket of the connection itself, and
  closes it.
* **VDR's threads.** The device thread calls `Receive`, the section thread calls
  `Process` of the PAT filter (which changes the pids), the main thread calls
  `MainThreadHook`, `ChannelChange`, the menus and SVDRP.
* **The IGMP thread** watches the timers of the groups and ends multicast streams; the
  server thread reads the reports and starts them. The socket of such a stream is the
  connection itself, and closing it stops the streamer, whichever thread does it.
* **The client** opens a control connection (commands and answers in lock step, a
  mutex around each exchange) and one data connection per stream.

### What is hard

* Three threads close the same connection; the kernel hands out a descriptor again
  as soon as it is free.
* Partial success everywhere: `Put` takes part of what it is offered, `Write`
  sends part of a buffer, `Read` returns part of a line, `getBlock` spans files.
* Ends that have to be noticed by somebody else: a source that stops, a client
  that vanishes, a writer that gives up, a device that is taken away.
* State that is remembered between events: the PMT version, the array of pids with
  its end mark, the results of the last `select`, the file left open, the bytes
  behind the read position.
* Replies that take many cycles of the server, while the client may send more.

### What makes each part correct

| Part | Properties |
|---|---|
| Stream data path | nothing accepted is lost, repeated or reordered; blocks in flight stay valid; no buffer overflows; whoever ends, all ends; nothing gets stuck |
| Pids | what a client was told it receives, it receives; a deleted pid is not; the stream follows the PMT |
| Device of a streamer | a receiver is attached to the device of its streamer and to no other, nor left behind a deleted one; a stream that lost its device gets another or ends |
| Recordings | the bytes returned are those of the position; a range is answered as announced; a stream comes to its end |
| Connection | commands are the lines sent; answers are whole and in order; a deferred close loses nothing; each line is answered |
| Server loop | whoever is gone is removed; nobody touches what is deleted; the limit holds; the stop releases everything; a close hits the own descriptor |
| VTP | every command gets one answer that ends; a listing is exact unless its list changed meanwhile; timers, channels and recordings go on referring to what exists |
| HTTP | pages and playlists are well nested and complete; a stream follows its header and starts where it was asked to; every answer ends |
| IGMP | one stream per group; it goes on as long as a member is there and stops after the last one has left; there is one querier |
| Sections | each section is delivered whole or not at all, to a filter it is for; the filters open in the client are set in the server |
| Client | an answer is that of the command that waits for it; the data socket carries the channel that was asked for; no call waits for ever |
| Remultiplexers | the payload goes through unchanged; a frame or picture begins a packet |

## 2. The order of the modules

Most important first; each row was finished, with its run, before the next one was begun.

| # | Modules | Content | Abstract specification or reference | Theorems |
|---|---|---|---|---|
| 1 | `StreamPipe`, `LossyFifo`, `StreamPipe_proofs` | the data path of a stream with its four actors | `LossyFifo`: loss where packets enter, nowhere else | type, valid blocks, order, refinement of `LossyFifo` |
| 2 | `LivePids`, `MCLivePids`, `LiveStreamer_proofs` | pid array, receiver, PAT/PMT filter | `asked`: what callers were told | what was told is true |
| 3 | `Connection`, `MCConnection`, `Connection_proofs` | line reader, response queue, lists | the lines sent and the answers to them | the lines of every client, up to one step only a client that does not wait may come to; answers in order; a deferred close loses nothing |
| 4 | `RecPlayer`, `RecStream` (extends it), `RecStream_proofs` | files, blocks, ranges, the streamer of a recording | the recording as one row of bytes; RFC 7233 ranges | ranges; the bytes of every block |
| 5 | `ServerLoop`, `HTTPServer_proofs` | select loop, closers, deletion, stop | - | limit, deletion, types |
| 6 | `IGMP`, `IGMP_proofs` | groups, timers, start, close and deletion of multicast streams by three threads | - | one stream for a group, none without, deletion, types |
| 7 | `MenuHTTP`, `HTTPConnection` (extends it), `MCHTTPConnection`, `HTTPServer_proofs` | menus and playlists; the request, the answer, `Flushed` | the places of a menu, said of the lists without an iterator | pages are well nested and have what they are to have; a stream follows its header and starts where that says |
| 8 | `LiveDevice`, `MCLiveDevice`, `LiveStreamer_proofs` | devices, priorities, live TV, the hook of the main thread | - | a receiver is at its streamer's device; types |
| 9 | `VTPLists`, `MCVTPLists`, `VTPServer_proofs` | LSTx over many cycles of the server, edits of timers, channels, recordings | a listing said of the lists at the time of the command | one whole answer per command; no stale pointer without a change; references stay, but for one step of NEWT; no channel told twice; an undisturbed list or schedule is told exactly |
| 9 | `VTPSession`, `MCVTPSession`, `VTPSession_proofs` | client device and socket, composed with the server's connections and data sockets | the commands sent and their own answers | an answer is that of its command; the data socket carries the channel tuned |
| 10 | `SectionRelay`, `MCSectionRelay`, `VTPServer_proofs` | server's and client's side of the section filters, composed | the sections of the device | whole sections; open filters are set in the server, through reconnections |
| 10 | `Repackers`, `TS2PES` (extends it), `MCTS2PES`, `RecStream_proofs` | PES packets cut anew at frames, within a maximal size | the stream of bytes with marks where frames begin | packets are within their size |

## 3. The modules and the code

### StreamPipe (`server/streamer.c`, `livestreamer.c`)

Data are numbered units, `Pkt` of them to a TS packet: positive ones come from the
device, negative ones are PAT packets. The three ring buffers are sequences with the
capacity rules of VDR's `cRingBufferLinear` (external): one byte and the margin stay
free, `Get` returns any part of what is stored that is at least the margin.

| Actor | Actions | Code |
|---|---|---|
| device and section thread | `Receive`, `QueuePat`, `LoseDevice`, `RegainDevice` | `cStreamdevLiveStreamer::Receive`, `cStreamdevPatFilter::Process`/`Receive`, VDR |
| streamer thread | `SPrebuffered`, `SGet`, `SPutSi`, `SPut`, `SEnd` | `cStreamdevLiveStreamer::Action` and `Put`, `cStreamdevStreamer::Action` |
| writer thread | `WGet`, `WIdle`, `WSelect`, `WSelectTimeout`, `WWrite`, `WWriteFails`, `WCancelled`, `WClose` | `cStreamdevWriter::Action` |
| owner | `StartWriter`, `StartStreamer`, `Attach`, `StopOnAbort`, `StopOnRequest`, `CancelStreamer`, `CancelWriter`, `DeleteWriter` | `cStreamdevStreamer::Start`, `Stop`, `Abort` |

`Cancel(3)` is modelled as waiting until the thread ends; that it kills a thread after
three seconds is left out.

### LivePids (`server/livestreamer.c`)

`list` is `m_Pids` with its real array and `m_NumPids`; before the first write it holds
anything of `Garbage`. `Read` is what VDR's `cReceiver::AddPids` takes from the array.
`AddPid`, `DelPid` and `SetPids` are the functions of the streamer; `SetChannelPids`,
`SetChannelTs`, `Addp`, `Delp`, `PatSeen`, `PmtVersionChanged` and `PmtFirstSeen` are
their callers. `Change` is the broadcaster: it alters what a PMT says, and its version, a
number that wraps at `Versions` (32 in the code, 2 in the run), goes up by one; or it moves
the PMT to another pid, where its version may be any. `asked` and `taken` are history
variables: the pids callers were told they get, and the PMT `SetPids` took last, as long as
nothing that differs from it has been seen since.

### Connection (`server/connection.c`, `connectionVTP.c`)

A line is a number of equal bytes, its place among the lines sent; a reply has two
units. `Read` stores any part of the wire, `ParseLine`, `ParseRefused` and `ParseDone`
are the rounds of the loop of `cServerConnection::Read`, with the array as it is left by
the `memmove`. `Write` is `cServerConnection::Write` with the call of `Command(NULL)`
that posts the next line of a list. `Send` and `Leave` are the client. A line end that
was left behind the read position by a longer line is found by the next search like any
other; what `m_ReadBytes -=` makes of that is a number below zero, unsigned, and
`conn = "overrun"`, from where nothing is said any more.

### RecPlayer and RecStream (`server/recplayer.c`, `recstreamer.*`, `connectionHTTP.c`)

`RecPlayer` is the table of files that `scan` builds and `getBlock` as a recursive
function over the files (`Block`). `RecStream` extends it by the two users of a player: a VTP connection that reads
blocks at any position (`ReadBlock`, `CmdREAD`) and the GET of a recording (`SetRange`,
fake ranges, the reply) with the streamer's rounds (`Transfer`, `TransferFails`).
`DeleteFile` takes files away while they are read.

### ServerLoop (`server/server.c`, `tools/socket.c`, `tools/select.*`)

One action per stretch of `Action` between two points where another thread may
interfere: building the sets, `select`, the poll after a timeout, accept, `Add`,
`WriteTo`, `Read`, `Abort`, the three steps of `Close`, `Lock`, `Del`. `WriterEnds`,
`WriterGivesUp` and `WriterCloses` are the writer threads; `MenuPick` and `MenuStep` the
disconnect by the user. `owner` is the kernel's table of descriptors; `accept` returns
the lowest free one, as POSIX has it.

Abstractions: the order of the list is left open (clients are visited in any order); all
output of a client goes out in one `Write`; a socket is always writable; a writer is
waited for, without the `pthread_cancel` after three seconds; the test of `IsOpen`
and the read of the number by `Add`, `CanRead` and `CanWrite` are one step. The other
closers (the data socket of VTP, IGMP) belong to their own modules.

### IGMP (`server/componentIGMP.c`, `connectionIGMP.c`)

| Actor | Actions | Code |
|---|---|---|
| hosts, handled by the server thread | `Query`, `Report`, `Leave` | `ProcessMessage`, with the component locked |
| time | `Expire` | the timers of a group |
| server thread | `AddClient`, `NoMessage`, `Visit`, `Visited`, `SStop`, `SClose`, `SDel`, `SDeleted`, `Exit`, `FinalClient`, `Destruct`, `Destructed` | `cStreamdevServer::Action`, `cConnectionIGMP::Welcome`, `Close`, the destructors, `cComponentIGMP::Destruct` |
| IGMP thread | `Round`, `Keep`, `Over`, `StopMulticast`, `TStop`, `TClose`, `GroupGone`, `Sleep`, `Wake`, `TEnd` | `cComponentIGMP::Action`, `IGMPStopMulticast` |
| writer of a stream | `WCancelled`, `WGivesUp`, `WStop`, `WSelf`, `WClose` | `cStreamdevWriter::Action` and its destructor |

`lock` is that of the component, `clientsLock` that of the server thread. `wptr` is
`m_Writer`: of several threads that call `Stop`, one takes it and deletes the writer
(`DELETENULL`). When that is the writer itself, it waits three seconds for its own end
and cancels itself (`WSelf`); it may or may not get to close the socket.

Abstractions: timers have no durations and are over at any time, except between a report
and the end of its handling; the timer of V1 hosts ends in any round that keeps the
group; who is the querier matters for `Leave` only; queries sent and repeated are left
out, as they change nothing here. A connection that is rejected, not allowed or
without a device is one that has no streamer.

### MenuHTTP and HTTPConnection (`server/menuHTTP.c`, `connectionHTTP.c`)

`MenuHTTP` has the iterators over channels, groups and recordings, each with its pointer
to the current item, and the page and the playlist as the state machines they are. A line
of a page is its tag and the id it is for; the text is left out. `HTTPConnection` is the
connection: `RequestLine`, `HeaderLine`, `ProcessRequest` (authorization, HEAD and GET,
menus, channels, recordings, ranges) and `LateLine` are what `Command` does in each
status, `Write` one cycle of the server with `Flushed`, `Stream` the streamer at work.
`VDRDeletes` takes an item from a list between two lines; following a pointer to it ends
in `StaleUse`, from where nothing is said any more (`conn = "undefined"`).

### LiveDevice (`server/livestreamer.c`)

| Thread | Actions | Code |
|---|---|---|
| server | `Tune`, `Tuned`, `Start`, `SetPriority`, `Prov`, `Provided`, `Stop`, `Abort`, `StopStep`, `Unsubscribe` | the connections' use of a `cStreamdevLiveStreamer`, its constructor, `Stop` and destructor |
| main | `MainThreadHook`, `Continue`, `MoveLive`, `ChannelChange` | the hook and the status callback |
| both | `GetDevice`, `SwitchDevice` | `GetDevice`, `SwitchDevice`, `SetChannel` |
| writer | `GiveUp`, `Gone` | `cStreamdevWriter::Action` |
| VDR | `Record`, `RecordEnds`, `Zap`, `OccupiedEnds` | devices (external) |

A thread looking for a device goes through `get`, `switch` and `take`, with the device it
was given in `pc`: others may take it meanwhile. `StopStep` is one statement of `Stop` or
of the destructor at a time (`Order`). The pids, the receiver's buffer and the PAT filter
are those of the two modules above; CAM slots and signal figures are left out.

### VTPLists (`server/connectionVTP.c`)

`h` is the handler of a list: a state and two references into VDR's lists, moved by one
line per `Cycle`. The commands are `LSTE`, `LSTC`, `LSTT`, `LSTR`, `STAT`, `MODT`, `NEWT`,
`DELT`, `NEXT`, `NEWC`, `MODC`, `MOVC`, `DELC`, `DELR`, `RENR`; the words after a command
are enumerated with the wrong ones among them. `TimerEdits`, `ChannelEdits`,
`RecordingStarts`, `RecordingStops`, `RecordingEdits` and `EventExpires` are what VDR
does on its own, in any cycle. A handler that follows a reference to what was deleted ends
in `StaleUse`. NEWT is two steps: `NEWT` parses the timer and looks its channel up, and
`NEWTAdds` adds it with the timers locked; between them, `parsed` holds the timer, and VDR
may delete its channel. `changed` remembers what VDR did since the command: the channels it added,
and 0 for any other change. A channel is an object whose number is its place in the list, so that MOVC
and DELC renumber; a timer is told apart by its channel.

### VTPSession (`client/device.c`, `client/socket.c`, `server/connectionVTP.c`)

The composition of the client and the server. Calls of VDR's threads into the client
device (`ProvidesChannel`, `SetChannelDevice`, `SetPriority`, `OpenDvr`, `CloseDvr`,
`ReInit`) become a job: commands still to be sent, one after the other. For each, the
thread takes `CMD_LOCK` for `CheckConnection` and `Connect`, gives it back, takes it again
for `Send` and keeps it until `Answer`, `Eof` or `Timeout`. When PORT was answered, the
thread stays at `Accept`, with `CMD_LOCK` and the device, until the server has connected
(`came` of the data socket): `accept()` has no timeout. A connection that was made can be
accepted even if the server has closed it since. `CmdVERS` to `CmdQUIT` are the
server's handlers, each of them from the line read to the answer queued; a connection has
a line queue in each direction, and data sockets carry the channels of the streamer.
`Leave` is the server noticing an end, `Restart` the server going away. `mismatch` notes
that an answer was taken for another command than the one it is for.

### SectionRelay (`server/livefilter.c`, `client/filter.c`, `client/socket.c`)

`Process` cuts a section into chunks, `Receive` puts the next one into the ring buffer or
drops it, `Write` hands it to the socket, `Action` is the client's thread: it takes a chunk
from the socket and gives it to the first filter that matches, which collects a section
(`PutSection`) and writes it into its pipe or notices that it is full. `OpenFilter`,
`CloseFilter`, `Refused`, `SetDevice`, `ServerGone`, `CloseDataConnection` and `ReInit` set
filters on both sides. VDR's `cFilter` (external) keeps a filter as often as it was set and
deletes it once: `streamer.keys` counts. A new data connection sets what is open anew
(`SetConnection`). `forgotten` is a history variable: the server has lost its filters, and a
client with open ones has not told it since. A chunk is the section it is of, its place and its length.

### Repackers and TS2PES (`remux/ts2pes.c`)

`Repackers` has the three repackers as functions of a record and the next byte or packet:
the video repacker (`VideoByte`, `HandleStartCode`), the audio repacker (`AudioByte`) and
that of AC3 (`DolbyByte`), with `BreakAt` of each. `TS2PES` is the collector in front of
them: `Payload` and `PayloadRest` a TS packet, `WriteIpack` the buffer written when it is
full or may be broken, `PesStart`, `EndPes` and `Clear`. Bytes are numbers where a start
code needs them and any other value elsewhere; that a packet under construction lies in
several buffers is not told apart. The header of a PES packet is taken at once, and no
TS packet is lost. `Repack` takes a body byte by byte, as a recursive function.

## 4. The runs

Every run takes its bounds from its `.cfg`; the names of the bounds are those of the
constants commented `bound` in the modules.

| Run | What it shows | Bounds, and why they are enough |
|---|---|---|
| `pipe` | `BlockValid`, `InOrder`: valid blocks, order; `ImplementsFifo`: refinement of `LossyFifo`; `ThreadsEnd`: the ends of a stream; `EverythingFlows`: no stall | 2 units to a packet, so that a packet can be torn; buffers of 3 to 7 units beyond their margins, so that each gets full, wraps and takes part of a `Put`; 5 packets and one PAT packet, more than any of them holds; one loss and one return of the device; the two limits of 20 polls are 1 |
| `pids` | `AskedReceived`: what is told is true; `FollowsPmt` | 5 slots for 6 pids: the list overflows; 2 PMT pids, 3 changes and versions that wrap at 2: every return to a version and pid seen before, and every meeting of the same version on another pid |
| `conn` | `CommandsAreLines`, `AnswersInOrder`, `DeferredCloseFlushes`, `LinesAnswered` | a buffer of 8 bytes, lines of 1 and 2 or of 1 and 7 bytes of clients that do not wait, and of 1 and 6 of one that does: short ones behind longer ones, lines that fill the buffer exactly, and such as do not fit; 3 lines, lists of 3 replies, a write buffer of 3 replies: all cuts of reads and writes |
| `rec_stream` | `BytesRight`: `getBlock` at every position, whichever file is open; `RangesRight`; `Complete` | 3 files of up to 3 bytes, VTP reads of up to 3 bytes: blocks of three files and all boundaries; blocks of 2 in a stream; numbers in ranges up to 4: below, at and above the length; files disappear one by one |
| `server` | `DeletedQuiet`, `ServedWithin`, `AllReleased`: deletion, limit, removal and stop | 2 connections, of which 1 may be served, and 1 disconnect: a descriptor is reused while its first owner is still being closed, and the limit is hit |
| `igmp` | `OneStream`, `StreamHasGroup`, `DeletedQuiet`, `StreamsEnd` | 1 group, 1 host, 2 connections: a second stream for the group while the first is being closed or deleted, by any thread; a group without a channel only adds to `m_Groups` (`Streamable` is all of `Groups` here, the theorems cover the rest) |
| `lists` | `OneAnswer`, `ListingExact`, `UndefinedOnlyIf`, `ReferencesKept`, `ListEnds` | 3 channels, 2 recordings, schedules of up to 3 events, 2 timers, of which one is recording at first; 2 commands, so that one finds what the other left; 1 change by VDR, in any cycle or while NEWT is between its two steps. `ListingExact` excuses a channel that LSTC tells twice when VDR added it meanwhile: that takes two changes, and the theorem holds for any number |
| `http` | `WellNested`, `PageExact`, `StreamAfterHeader`, `StartsAsAsked`, `AnswerEnds` | one request of each of about 40 kinds, over 4 lists with groups, nameless groups, neither or no recording; 1 change by VDR |
| `device` | `AtItsDevice`, `LostEnds` | 2 streamers of priorities 0 and 5, 2 devices, 2 channels on two transponders: either may take the other's device, or live TV's; 2 creations and 1 event of every kind (recording, zap, channel change, command, client gone, failed tuning) between any two steps |
| `vtp` | `AnswersMatch`, `RightChannel`, `CallsReturn` | 2 threads with up to 4 calls, 2 connections, 2 faults, and at most 5 calls and faults together: an answer that comes late, a refused connection or a restart, followed by the other thread's command, by a new connection and by another fault (a late answer taken for that of PORT, and then a restart, take 4 calls with 2 faults at most) |
| `sections` | `SectionsWhole`, `FiltersServed` | 3 sections of 2 or 3 chunks, 2 filters that match the same table, each set up to 2 times in the server, a ring buffer and a socket of one chunk: every loss of chunks, the splice of two sections, a pipe that gets full, a filter that is opened again before the first one is found closed; any number of reconnections by `ReInit`, 1 fault (lost server, refused connection, closed pipe) |
| `remux` | `PayloadKept`, `OneFrame` | packets of 7 to 9 bytes and 13 to 24 bytes of 2 or 3 PES packets: a picture, frame or start code across every boundary of packets; 2 bytes of noise; 1 `Clear` |

Properties worth reading first: `InOrder` (two streams of data through two buffers that
each take part of what they are offered), `ThreadsEnd` (two limits that share a counter, a
poll of two threads), `FollowsPmt` (no change of the broadcast is missed because of a
remembered version, unless nothing tells it from the old one), `AskedReceived`, `CommandsAreLines`, `DeferredCloseFlushes`,
`DeletedQuiet`, `StreamHasGroup`, `LostEnds`, `AnswersMatch`, `RightChannel`,
`SectionsWhole`, `PayloadKept`.

What a property excuses, it excuses because the code breaks it there (section 6):
`Complete` is stated for recordings of at least one block; `AllReleased` for clients whose
descriptor has not been taken by another one's close (`Robbed`); `FollowsPmt` for a PMT that
has come round to the pid and version of the one taken last, with another content, while
nothing in between was seen (`Disguised`); `CommandsAreLines` for a client that sends lines
of different lengths without waiting (`Mixed`): only for it does the code come to the step
where `m_ReadBytes` wraps, and up to there the lines are its own; `AnswersInOrder` ends
with that step; `ReferencesKept` for the timer NEWT adds on a channel that was deleted
after it was parsed (`Orphan`); `CallsReturn` for a client that took a wrong answer and waits
in `accept()` for a server that went away (`mismatch` and `Deserted`); `FiltersServed` as long
as the server has forgotten filters and was not told of them (`forgotten`); `StreamsEnd` for a sleep of the IGMP thread that does
end (`forever`), and `DeletedQuiet` of `IGMP` for another writer than the one that deletes
itself; `OneAnswer` for other commands than a DELT whose second word is unknown;
`StreamAfterHeader` for other HEAD requests than those of external programs and remuxed
recordings; `StartsAsAsked` for a faked range that is remuxed or not satisfiable, which
starts at 0 instead of the position; `AnswersMatch` as long as the device was not initialised again (`abort`);
`SectionsWhole` for sections whose beginning was not lost in between (`beheaded`).

`CHECK_DEADLOCK FALSE` is used where the system, or its bounded environment, comes to
rest: in `pipe` and `device` (all streams may have ended), `vtp` (all calls made) and `remux`
(all input sent). The other modules say where they may end (`Ended`, `Done`, `Stopped`,
`Rests`) or never do.

### Fairness

* *Threads run.* A thread that can take a step takes one (`WF` of `StreamerStep`,
  `WriterStep`, `WriterEnds`, `WriterCloses`, `MenuStep`, of `Step` of each thread of the
  client, of the main thread's steps in `LiveDevice`): the scheduler of the system.
* *The server goes on.* `OwnerStep` and `ServerStep` are weakly fair: `Action` polls
  every connection that is readable or has data, and `Abort()` of all of them after at
  most 400 ms; in `Connection` this is the fairness of its `Read` and `Write`, in
  `VTPLists` of `Cycle`, `StaleUse` and `NEWTAdds`, in `HTTPConnection` of `Write`, in `VTPSession` of `Serve` and
  `Leave` for each connection.
* *It comes round to everybody.* In `LiveDevice` the hook visits each subscriber and the
  server loop asks each connection `Abort()` again and again, between whatever else the
  two threads do: strong fairness for `MainThreadHook` and `Abort` of each streamer and for
  the server's steps, of which `Unsubscribe` waits for a lock the hook takes and gives
  back. The writer counts how often it found no receiver (`WF` of `GiveUp`).
* *Broadcasts repeat.* PAT and PMT are sent several times a second (`PatSeen`,
  `PmtVersionChanged`, `PmtFirstSeen`).
* *Locks are given.* `TimerStep` of `IGMP` is weakly fair: the server holds `m_Clients` only
  while it adds or deletes a connection, and there are finitely many.
* Nothing is assumed of clients, users and devices: they need not connect, send, leave,
  deliver or give a device back. `WriterGivesUp`, the end of a stream for lack of data, is
  not fair either, and timers need not expire. In `HTTPConnection` and `VTPLists` the client
  takes what it is sent. `SectionRelay` and `TS2PES` have safety properties only.

## 5. The proofs

TLAPS proves the following for all values of the constants that meet the
assumptions named in the modules (`PipeAssumption`, `PidsAssumption`,
`ConnectionAssumption`, `BuffersSuffice`, `PlayerAssumption`, `StreamAssumption`,
`ServerLoopAssumption`, `IGMPAssumption`, `DeviceAssumption`, `SessionAssumption`,
`RelayAssumption`, `HTTPAssumption`, `VTPListsAssumption`, `ListsAssumption`,
`RepackersAssumption`, `TokensAssumption`; TLC evaluates them in the runs). Most only say what kind of value a
constant has. `PipeAssumption` has buffers of more than two packets, where those of the
code hold thousands. `BuffersSuffice` says that a reply fits an empty write buffer and a
line of a client that waits the empty read buffer: the code's buffers have 16 KB each
(`MAXPARSEBUFFER`), and lines and replies of VTP a few hundred bytes. `VTPListsAssumption`
has at least one channel and one recording, which the first state, with a timer that is
recording, begins with (all lists may become empty later), and the events of a schedule in
the order of their times, as VDR sorts them. `ListsAssumption` (`HTTPConnection`) has the
lists without repetition, which lists of objects are, and `HTTPAssumption` a menu of one of
the six kinds there are. `RepackersAssumption` has packets with room for the bytes by which
a frame is known and for an audio frame: the largest frame `IsValidAudioHeader` computes has
1728 bytes (384 kbit/s at 32 kHz), a packet 2048 (`IPACKS`). That a third byte of a header is
below 240 is that function's test of the bit rate. `TokensAssumption` only says that bytes are
sent.

| Module | Theorems | Invariant, and why it is needed |
|---|---|---|
| `StreamPipe_proofs` | `TypeCorrect`, `BlocksValid`, `EachInOrder`, `PipeIsFifo` | `IInv` = `TypeOK` /\ `BlockValid` /\ order. `InOrder` speaks of what was sent; a step of the writer only keeps it because the block it works on lies within the buffer (`BlockValid`), and `Put` only because what the receive buffer holds continues where the flow ends (`QueuesInOrder`, `FlowInOrder`). Before `Start`, all is empty (`Unstarted`). `PipeIsFifo` maps each step to one of `LossyFifo` or a stutter: `Receive` to its arrivals, `WWrite` to a delivery, the writer's end to its end, all else to nothing; it rests on `EachInOrder` and on what `DeviceUnits` makes of a sequence in order (`SentUnits`). |
| `LiveStreamer_proofs`, pids | `VtpPids` | `VtpInv`: besides `AskedReceived`, the list has no zero in its first `m_NumPids` places, so that `AddPids` reads at least these; its end mark need not be there, and after DELP it is not. |
| `Connection_proofs`, lines | `CommandsAreTheLines`, `LockStepLines` | For any client, what is in the buffer and on the wire is one stream of bytes, cut into the lines that are no commands yet (`Streams`); a newline found within it is the end of the first of them, and one found behind it wraps `m_ReadBytes`. With lines of one length there is none behind it: the end of the line before was replaced by a NUL, which is reached first (`Cleared`). Of a client that waits more is known: the buffer and the wire together hold the rest of one line at most (`OneLine`), the bytes behind the read position hold no newline that `strchr` could reach (`Buffers`), and while a line is on its way no answer is (`Queues`, `Stops`). |
| `Connection_proofs`, answers | `AnswersArriveInOrder` | `AnswerInv`: what the client has received and what still lies in the queue, put behind each other (`Said`), is one `Chain` of answers, and the handler of a list is where the chain ends (`Handler`). `Write` moves units along the chain, `Command` adds to its end. For any client this holds because the commands are its lines (`CommandsAreTheLines`), up to the step that wraps `m_ReadBytes`; a client that waits never comes to it (`LockStepLines`). |
| `Connection_proofs`, close | `ClosesWhenFlushed` | `FlushInv`: with a deferred close nothing is pending and the queue is not empty, and while a line is on its way the answer before it has been received to its end. Hence a connection of a client that waits, once closed by the server, has delivered its last answer. |
| `RecStream_proofs` | `AnnouncedRight`, `BytesAreRight` | Ranges: what was asked, what is announced and how far the streamer is, together; the lemma `SetRangeRight` states what `SetRange` returns for a range of each kind. Bytes: `ReadInv` has the table of files `Laid` without gaps, the next byte to be sent behind those sent (`Position`), and that `Block` returns the bytes of its position, wherever it begins and however many files it covers, some of which may be gone. |
| `RecStream_proofs`, remultiplexer | `PacketsAreWithin` | `PacketsFit`, one of the two conjuncts of `PayloadKept`, for any bytes. `RemuxInv` = types and `Sound`: what was put out fits (`AllFit`), and what is under construction will. For that, the body and what it lacks are always the room of the packet (`Lacks`), and a packet that is overfull is so by at most two bytes, and by no more than the start code or header it may end in (`VideoFits`, `AudioFits`: each rule says how much longer it can wait); for a frame of known size what is left of it is never more than the packet lacks. Of AC3 (`DolbyFits`) it is the fragment that never needs more than there is room, nor more than is left of the frame. A lemma for each repacker has its step for a byte (`VideoByteFits`, `AudioByteFits`, `DolbyByteFits`), `RepackSound` takes it through a body by induction, and the steps of the collector only have to hand over bytes (`BreakAtIs`, `WriteIpackInv`). |
| `HTTPServer_proofs`, loop | `TypeCorrect`, `NotTooMany`, `DeletedAreQuiet` | `ServerInv` = `Typed` /\ `DeletedInv` /\ `ServedWithin`. That nobody comes across a deleted connection rests on three facts: where the server is (`Position`: the client it works on is in the list), who holds the lock (`Locking`: the user's disconnect holds it from the choice of the client to the end of the close) and that a writer exists only for a client in the list and has ended before `Del` returns (`Writers`). |
| `HTTPServer_proofs`, HTTP | `PagesAreNested`, `StreamsFollowHeaders`, `StreamsStartAsAsked` | `HTTPInv`: what has become of the request is one of five (`Job`), and each says what was sent, what is in the buffer and whether the connection will be closed. For a page (`Paging`) the state of the writer tells which tags all that was written so far has left open (`LeftOpen`); `NextLine` keeps this from state to state whatever the iterator comes to (`HtmlTurns`), which is why no edit of VDR's lists can break it. For a stream, the header in the buffer already agrees with the streamer that waits for it (`Good`). |
| `HTTPServer_proofs`, pages | `PagesAreExact` | `PageInv`: VDR's lists are those the request found as long as nothing was deleted (`Known`), the links written so far lead where they should (`Sound`), and of the page so much is told (`Progress`): the writer is at an item, at a place p of the list, and has told of exactly the places of the page before p, or up to p, depending on the state it is in (`OnItem`, `Tells`); or it is past the last one and has told of all (`Past`). The iterator of each kind of menu is at the same place (`IteratorAt`), for the tree in its group (`InGroup`). `IteratorMoves` is the central lemma: `Next` of each of the six kinds goes to the least place of the page ahead of p, or ends if there is none. The tree needs most of it: inside a group it goes on to the next channel of the group and then to the next group that has a name (`TreeInside`, `TreeOutside`, `WithinGroup`). That a link leads to its group compares two counts of the same groups (`LinkLeads`). |
| `IGMP_proofs` | `TypeCorrect`, `OneStreamEach`, `NoStreamAlone`, `DeletedAreQuiet` | `IGMPInv`. A report looks for a stream of its group in `m_Clients` and misses the one that is made and not yet added; that there is none follows from `Position` (a connection that is made is the one the server is about to add). A group is removed when `m_Clients` has no stream of it; that none is on its way follows from `Locking` (a round has the component locked, and the group it stops is due, that of a new stream is not). `Writers`: a writer that was taken from its streamer is waited for, has ended, or deletes itself. |
| `LiveStreamer_proofs`, devices | `TypeCorrect`, `AlwaysAtItsDevice` | `IInv` = `TypeOK` /\ `WorkInv` /\ `StopInv` /\ `AtItsDevice`. A thread that found a device attaches a receiver to it in a later step; that the streamer is still there by then is `WorkInv`. Deleting a streamer leaves no receiver because what the destructor took down stays down while it takes down the rest (`StopInv`), although the hook may come in between. Most steps only take receivers away (`KeptInv`); the few that attach one are shown to attach it where the streamer has its device (`OneInv`, `OnlyInv`). |
| `VTPSession_proofs`, answers | `AnswersAreOwn` | `IInv` = `Typed` /\ (`~abort` => `Locked` /\ `LockStep` /\ `~mismatch`). A thread that waits for an answer has `CMD_LOCK` and a connection (`Locked`), and on that connection is its command, or the answer to it, and nothing else; when nobody waits there is nothing (`LockStep`). Who waits in `accept()` has `CMD_LOCK` too, with nothing on its way. The step that needs it is `Answer`; the steps that could break it are those that give up an answer, and they close the connection, unless `m_Abort` is set. `RestStep` and `WaitStep` say what a step of a thread has to keep, `ServerStep` what one of the server has. |
| `VTPSession_proofs`, channel | `RightChannelComes` | `ChanInv`. `CmdTUNE` puts a new streamer on the data socket there is, if there is one; that there is none is `UntappedInv`: an ABRT is before every TUNE on its connection, and no PORT after that ABRT (`JobsInv` has it for the commands still to be sent, `Untapped` for those on the way). A PORT is said once (`OnceInv`), and until the server handles it nothing came through its socket (`PendingInv`, `PreparedInv`), so one channel at most comes through a socket (`SocketInv`). That it is the client's is `StepsInv`: when nothing is on its way but what is waited for, the streamer of the connection in use has the channel tuned last; `LastInv` takes this from the streamer to the socket when the PORT is answered, and `DataInv` keeps it while the socket is in use. A client's step is `EndInv` (a command is over), `SentChan` (one is put on the connection) or leaves the connections alone; the server's commands are all instances of `Served`, its closes and restarts of `Left`, and one lemma each (`ServedInv`, `LeftInv`) takes the invariant across. |
| `VTPServer_proofs`, sections | `SectionsAreWhole`, `AllFiltersServed` | `IInv` = `TypeOK` /\ `FlowInv` /\ `Buffers` /\ `HeadsInv` /\ `Pipes` /\ `ServedInv`. Chunks come in the order of the device (`FlowInv`), and what a filter has collected comes before all that is on its way (`Buffers`). A section in a pipe is whole (`Pipes`) because its buffer began with a first chunk; for that, `HeadsInv` says of every later chunk on its way where the first one of its section is: before it, lost, with the filter that will get this chunk, or taken by nobody, and then no filter that matches has anything. Filters that are closed, opened or fail in between move sections from one to another; the lemma for the client's step (`ActsHeads`) shows that this makes no false beginning. `ServedInv`: unless the server has forgotten filters, each is set there at least as often as it is open in the client (`Users` are the places it is open at). That one place at least keeps it set is then a matter of counting: giving up some places deletes as many filters (`UsersLeft`, `ServedLeft`), opening one sets one, and a new data connection sets as many as there are (`CountIs`, `SetFilterIs`). Had the filters in the server been a set, giving one up would have taken it from the others. |
| `VTPServer_proofs`, lists | `AnswersAreWhole`, `NoPointerIsStale`, `ReferencesStay`, `ChannelsToldOnce`, `EntriesAreExact` | `ListsInv` = `ListsTyped` /\ `References` /\ `Answering` /\ the two properties. What is said so far does not tell whether an answer goes on; `Answering` has it from the handler: one that is not deleted has announced more with each line, always with the code of its kind (`Continued`), is in a state from which a next line exists (`Lister`, `InSchedule`: of an event only inside a schedule) and, as long as VDR has changed nothing since the command, points into its list (`Fresh`). `HandlerStep` shows this of every `Next`. LSTC, which looks for the next channel before it posts this one, points into the list even after a change, or it would not have been posted. `CurrentKept` alone is not inductive: `References` adds that the channel watched is either gone for good or the one at the current number, which needs lists without repetition (`Distinct`) through every move, deletion and addition. Between the two steps of NEWT no command is being answered, and the channel that was parsed is in the list unless VDR changed it since (`Parsing`). `ChannelsToldOnce` (`OnceInv`): a channel LSTC has told comes before the one it holds in the list, or is deleted, or was added again (`TellsOnce`); an addition goes to the end of the list, ahead of LSTC, which is why the added ones have to be remembered. `EntriesAreExact` (`ExactInv`): while nothing changes, a list told from its start has been told entry by entry, numbered, up to the entry the handler holds (`Midway`); an index tells a timer or recording apart because each has its own id (`OwnIds`, `Distinct(recordings)` in `ListsTyped`). |
| `VTPServer_proofs`, selections | `ListingsAreExact` | With the two above, what a listing tells of the EPG, and LSTC of the channels with a text: selections of a list, put behind each other, which `ListingExact` says without a handler. `SelectInv`: while nothing changes, what was told so far (`Partly`) is what the place of the handler determines (`Tells`): all before the schedule, event or field it holds, of those asked for, with the marks still open that it will close; at the end it is all (`Whole`). The lemmas `AskedFirst` and `AskedNext` show that the handler's walk through the times of a schedule (`After`, `Around`) meets the events the definition selects, for each way of asking; that a schedule is sorted is needed there. `SelectedAdd` and `FlattenAppend` carry what is told across one step. |

Each proof has one step per action; lemmas about sequences, about the array of
pids and about cardinalities come first. What the recursive functions `DeviceUnits`,
`Block`, `Total` and `Repack`, and the folds behind `FlattenSeq`, compute is proved by induction on a
set of numbers (`SetInduction`, from the least element of a set of naturals), as the
library's induction theorems take an operator. `TypeOK` of `StreamPipe`, `ServerLoop`,
`IGMP` and `LiveDevice` is proved and in no run.

Only model-checked: all liveness properties (`ThreadsEnd`, `EverythingFlows`, `Complete`,
`FollowsPmt`, `LinesAnswered`, `LostEnds`, `CallsReturn` and the like), as TLAPS does not
handle fairness, and of the invariants `OneFrame` and the first half of `PayloadKept`: the
bytes that come out are those sent, in their order. Other than the sizes of packets, which
are proved for any bytes, what a remultiplexer keeps follows from what a stream of bytes
looks like, from which byte a search may start and how long a frame's header says it is:
both relate a fold over all bytes received to one over all bytes sent, and hold only for
streams of a form the run's inputs have and that would have to be assumed of broadcasts in
general (section 6 has one for which they fail).

## 6. Observations

What the models, and reading for them, showed of the code. Where one of these breaks a
property, the property excuses it by name, as section 4 lists.

**Streams.** A `Put` that is cut by a full remux buffer leaves a partial packet, and PAT
packets may follow it: datagrams may then hold torn packets (`streamer.c:78` and 117,
`livestreamer.c:595`–604). They are whole as long as no PAT packet comes behind a
`Put` that was cut.

**Pids.** The `memmove` after `--m_NumPids` moves neither the last pid nor the end mark: a
deleted last pid goes on being received (`livestreamer.c:418`, against `PROTOCOL:128`).
`SetChannel` of a VTP stream starts the receiver from an array nothing has written
(`livestreamer.c:559`): it gets what the memory holds until the first ADDP; `LivePids`
has it so (`Garbage`), and the theorem holds for every content. Deleting the last pid
deletes the receiver, and the writer then gives up (`livestreamer.c:506`). A PMT is told
from the one before by its version alone (`livestreamer.c:323`): if the five bit number comes
round to that of the PMT taken last, on the same pid and with nothing in between received,
the new content is missed (`Disguised`).

**Devices.** `GetDevice`, `SwitchChannel` and `Attach` are not one step: two threads may
pick the same device, and a receiver then stays attached to a device tuned elsewhere,
where neither hook nor writer ends it, as `IsReceiving` is true. `m_SwitchLive` is set
before `m_Device`, so that a hook in between leaves the device occupied until its
timeout. The constructor of `cMainThreadHookSubscriber` enters `this` into the hook's list
before the derived object exists. A hook that goes on with another device leaves
`m_PatFilter` at the old one. `m_Writer` may become NULL between the two tests of
`Active`. `ChannelChange` tunes with `LIVEPRIORITY` instead of the streamer's priority. After
the hook's `Stop` a VTP connection keeps a stopped streamer.

**Recordings.** The last block of a range exceeds the `Content-Length` of the response
(`recstreamer.c:88`–89). A recording shorter than the streamer's block is never sent and
its stream never ends: `getBlock` refuses an amount larger than the recording
(`recplayer.c:143`) before it would adjust it ("Client asked for some data past the end of
recording, adjusting amount", `recplayer.c:157`), and `IsReceiving` stays true.

**Connections.** No NUL follows the moved rest of the read buffer: a client that sends
lines of several lengths without waiting may have an old newline behind it taken for
the end of a line, and `m_ReadBytes` wraps (`connection.c:139`–141; `connection.h:42`). The run
comes to this with `conn = "overrun"`. A line
of a list that does not fit into the write buffer ends the list without a last line, as
the result of `Command(NULL)` is dropped (`connection.c:168`).

**Server.** Three threads close one connection without a common lock; the second
`::close` may hit the descriptor of a new client (`socket.c:171`). A new connection may get
the number of one that another thread closed in the same cycle; the results of `select`
are still those of the old socket, so it is read at once, gets `EAGAIN` and is dropped
(`server.c:147`). A descriptor closed between `Add` and `::select` makes `select` fail with
`EBADF`, which ends the server thread for all clients (`server.c:115`, `SelectFails` with
`exit = "fatal"`).

**IGMP.** The writer of a multicast stream that ends closes its connection, which stops
the streamer, which deletes the writer, in the writer's own thread: the thread is gone
before the socket is closed, `Abort` says no, and the connection stays until the group is
left (`streamer.c:106`, `connectionIGMP.c:66`–71). With less than a millisecond to the next
timer `sleep` is 0 (`componentIGMP.c:326`), and VDR's `cCondWait::Wait(0)` waits without a
timeout; when the microseconds need a borrow, the sleep is a second too long (line
328). After a leave the group is asked with a response time of one second and stopped
after 0.2 (lines 359 and 260): members that are still there are cut off and start the
stream again. `m_GeneralQueryTimer` is compared (line 287) before it is set (94). `Abort`
reads `m_Writer` between the tests of another thread's `Stop` (`streamer.h:105`).

**VTP lists.** The number of DELT is 0 where the word is none: `DELT FORCE` deletes timer 1,
and `DELT 1 abc` answers twice. A reply to DELT has the number one too low. DELC of a
channel in use queues a 550 and closes. LSTE NOW, NEXT or AT for all channels lists the
first event of the later schedules, FROM in a gap lists nothing, and TO is clamped
by the first schedule only. LSTR with a number dereferences before it tests for NULL, and
STAT RECORDS does so where there are no recordings. LSTT and LSTR go by index and skip
an entry when an earlier one is deleted; LSTC lists a channel twice that is deleted and
added again between two of its lines (found when the proof of `ChannelsOnce` failed; the
run's single change does not show it); LSTE and LSTC keep pointers between cycles of
the server (`connectionVTP.c:603`), without a lock on VDR's lists. NEWT parses its timer, and
with it looks up the channel, before it locks the timers: if the channel is deleted in
between, the timer is added with a pointer to it, which the reply then follows
(`connectionVTP.c:1613`, 1618 and 1627).

**HTTP.** 404 is never sent. HEAD of an external or remuxed recording starts a stream.
HEAD with a faked range keeps the position where GET uses 0. A faked range of a recording
that is remuxed (`pos=full_...`, `Range: bytes=0-`, but PES, ES or EXT asked for) loses the
position: the streamer is made for position 0 (`connectionHTTP.c:218`) and the range is
never set (line 234), so that it plays from the beginning. This came out of the proof of
`StartsAsAsked`, which first said that the stream begins at the position asked for. A menu of recordings with
none that suits follows NULL. A line of a menu that is longer than the write buffer cuts
the page. A non-blank line after the header closes the connection, a running stream
included. The scheme of the first Authorization header is paired with the credentials of
the last. A nameless first group is listed among all channels.

**Client session.** After `ReInit`, `m_Abort` stays set: `Receive` times out without closing,
and the late answer is taken for that of the next command. If that is PORT and the server
goes away before it has connected, `accept()` has nobody to wait for and no timeout
(`client/socket.c:245`): the thread keeps `CMD_LOCK` and the device for good. The cache of the priority
survives a reconnection and TUNE. `CloseDvr` without a connection leaves a dead data socket,
so that `IsTunedToTransponder` stays true. After a TUNE that failed, `OpenDvr` starts
the streamer of the old channel. A PROV of another thread between PROV and TUNE leaves
priority 0. An old connection of the server may still hold the device when a new one asks
for it. READ dereferences a player and a socket that need not be there.

**Sections.** Chunks carry no number: the tail of one section lost and the head of the
next make one section of the right size, which is left to VDR's checksum. A filter closed
in the middle of a section leaves the rest to the next one that matches. A pipe that was
full once, and is read empty before the next section, measures a maximum of 0; `0 * 2 < 0`
is never true, and the filter drops everything until it is closed (`filter.c:158`; the
comment at 149–152 means the opposite). After ABRT or on a new connection PORT makes a
streamer without a device, so that ADDF fails until the next TUNE, and the result of
`ReActivateFilters` is ignored. `CloseFilter` never sends DELF. Hence, while the server has forgotten the filters that are
open, and is given a device again without a new data connection, VDR's filters get nothing
(`forgotten`). A filter that is given up is deleted in the server once (`filter.c:299`), which
is right only because VDR's `cFilter` keeps one that was set twice two times.

**Remultiplexers.** A slice's start code may be split by the cut of a full packet. An audio
packet may exceed its maximal size by up to 3 bytes where a known frame ends while four
bytes are awaited; with the sizes of the code this is not reached (`RepackersAssumption`,
`PacketsAreWithin`). An audio frame of free format (size unknown) that ends in what looks
like a header's first bytes, FF FA 0F say, before the FF FD 00 of the next frame: if the
packet gets full at that FF, rule A holds for the four bytes FF FA 0F FF, the packet is
pushed with the first byte of the next frame, and that byte comes out again with the packet
of its frame. The comment there says "overfill the current packet until we can safely detect
that we won't break an audio frame header into pieces" (`ts2pes.c:840`–843, 868–874). The
frames of the run do not end like this. A time stamp goes to
the picture whose start code began in the PES packet before (against the rule quoted in
`ts2pes.c:251`–256). After a fragment of AC3 the header in store stays that of a
continuation, so that the next frame without a time stamp does not say that a frame
starts in it (`ts2pes.c:1113` and 1281).

## 7. Not modelled

`PROJECT.json` lists every part with its state. Left out are

* `tools/*`: thin wrappers of the operating system; their results (part of a read, a
  failed select, a timeout) are inputs of the modules that use them;
* menus, setup, suspend and plugin glue: user interface and configuration, apart from the
  hook's list (`LiveDevice`) and the disconnect (`ServerLoop`);
* `libdvbmpeg` and the two remultiplexers that hand their bytes to it (`cTS2ESRemux`,
  `cTS2PSRemux`), and `cExternRemux`, which is pipes and processes of the operating system;
* of VTP, CAPS (and the path of the client for servers that lack a capability), VERS's
  flags beyond the session, PLAY and SUSP; of the client, `SetPid` (the server's side is in
  `LivePids`) and the TS buffer;
* of recordings, the conversions between frames, marks and positions;
* of IGMP, joining the groups and the retransmission of queries, which change nothing
  another part sees;
* the text of menus, playlists and replies, URLs and their parameters.
