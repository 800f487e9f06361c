---------------------------- MODULE SectionRelay ----------------------------
(***************************************************************************)
(* Sections of a device on their way to the section filters of a client:   *)
(* the server's filter cuts them into chunks (server/livefilter.c), the    *)
(* streamer's buffer drops a chunk when it is full, the client's thread    *)
(* puts them together for the first filter that matches and writes them    *)
(* into its pipe (client/filter.c); filters are set by ADDF and DELF       *)
(* (server/connectionVTP.c), on the data connection of PORT. A chunk is    *)
(* [id, table, size, pos, len]: of which section, and which part of it;    *)
(* the receiver tells from it the table, and, where pos is 0, the size.    *)
(***************************************************************************)
EXTENDS Integers, Sequences, FiniteSets, SequencesExt, FiniteSetsExt

CONSTANTS
    Tables, Keys,   \* kinds of section, and filters one may ask for
    Matches,        \* the tables a filter matches
    Sizes,          \* of the sections of a table; Full are a full chunk
    Full, RingSize, WireSize, \* chunks m_ReceiveBuffer and the socket hold
    BufSize,        \* sizeof(m_Buffer)
    PipeSize,       \* what the pipe to VDR holds
    MaxSections, MaxFilters, MaxFaults, \* bounds
    MaxSet          \* bound: how often a filter is set

ASSUME RelayAssumption ==
    /\ Matches \in [Keys -> SUBSET Tables]
    /\ Full \in Nat \ {0} /\ BufSize \in Nat
    /\ RingSize \in Nat /\ WireSize \in Nat /\ PipeSize \in Nat
    /\ Sizes \in [Tables -> SUBSET (1 .. BufSize - 1)]
    /\ MaxSections \in Nat /\ MaxFilters \in Nat /\ MaxFaults \in Nat
    /\ MaxSet \in Nat

VARIABLES
    streamer, \* m_FilterStreamer: [there, device, keys], how often each is set
    rest,     \* chunks of the section in hand, cStreamdevLiveFilter::Process
    ring,     \* m_ReceiveBuffer
    wire,     \* chunks on their way
    eof,      \* the server's end of the data connection is closed
    data,     \* the client has a data socket, and the thread runs
    filters,  \* cStreamdevFilters, see Filter
    sections, faults, \* history: so many so far
    beheaded, \* history: sections whose first chunk was lost, maybe with a filter
    forgotten \* history: the server lost filters, and was not told of them since

vars == <<streamer, rest, ring, wire, eof, data, filters, sections, faults,
          beheaded, forgotten>>

NoStreamer == [there |-> FALSE, device |-> FALSE, keys |-> [k \in Keys |-> 0]]

(* A filter with m_Buffer, m_flushed (how much does not matter), m_maxq,   *)
(* its pipe, and whether VDR closed its end of that.                       *)
Filter(k) == [key |-> k, buffer |-> <<>>, flushed |-> FALSE, maxq |-> 0,
              pipe |-> <<>>, closed |-> FALSE]

Init == /\ streamer = NoStreamer /\ rest = <<>> /\ ring = <<>> /\ wire = <<>>
        /\ eof = FALSE /\ data = FALSE /\ filters = <<>>
        /\ sections = 0 /\ faults = 0 /\ beheaded = {} /\ forgotten = FALSE

Total(s) == LET t[i \in 0 .. Len(s)] == IF i = 0 THEN 0 ELSE t[i - 1] + s[i]
            IN t[Len(s)]
Used(chunks) == Total([i \in DOMAIN chunks |-> chunks[i].len])
Queue(f) == Total([i \in DOMAIN f.pipe |-> Used(f.pipe[i])])

-----------------------------------------------------------------------------
(* The server                                                              *)

(* TUNE gives the filter streamer its device.                              *)
SetDevice ==
    /\ ~streamer.device
    /\ streamer' = [streamer EXCEPT !.there = TRUE, !.device = TRUE]
    /\ UNCHANGED <<rest, ring, wire, eof, data, filters, sections, faults,
                   beheaded, forgotten>>

Chunks(id, t, size) ==
    [i \in 1 .. (size + Full - 1) \div Full |->
        [id |-> id, table |-> t, size |-> size, pos |-> (i - 1) * Full,
         len |-> Min({Full, size - (i - 1) * Full})]]

(* The device comes with a section that some filter matches.               *)
Process(t, size) ==
    /\ rest = <<>> /\ streamer.device /\ sections < MaxSections
    /\ \E k \in Keys : streamer.keys[k] > 0 /\ t \in Matches[k]
    /\ sections' = sections + 1 /\ rest' = Chunks(sections', t, size)
    /\ UNCHANGED <<streamer, ring, wire, eof, data, filters, faults,
                   beheaded, forgotten>>

Heads(chunks) == {c.id : c \in {d \in ToSet(chunks) : d.pos = 0}}

(* One that finds the buffer full is lost.                                 *)
Receive ==
    /\ rest # <<>> /\ rest' = Tail(rest)
    /\ IF Len(ring) < RingSize
         THEN ring' = Append(ring, Head(rest)) /\ UNCHANGED beheaded
         ELSE UNCHANGED ring /\ beheaded' = beheaded \cup Heads(<<Head(rest)>>)
    /\ UNCHANGED <<streamer, wire, eof, data, filters, sections, faults,
                   forgotten>>

(* The streamer writes to the data connection.                             *)
Write ==
    /\ ring # <<>> /\ data /\ ~eof /\ Len(wire) < WireSize
    /\ wire' = Append(wire, Head(ring)) /\ ring' = Tail(ring)
    /\ UNCHANGED <<streamer, rest, eof, data, filters, sections, faults,
                   beheaded, forgotten>>

(* The streamer is deleted, with its filters and what it has not written.  *)
Delete ==
    /\ streamer' = NoStreamer /\ rest' = <<>> /\ ring' = <<>>
    /\ beheaded' = beheaded \cup Heads(ring \o rest)
    /\ forgotten' = (filters # <<>>)

(* The server's connection ends, and its filters with it; the client       *)
(* makes another when it next needs one.                                   *)
ServerGone ==
    /\ faults < MaxFaults /\ faults' = faults + 1 /\ streamer.there
    /\ Delete /\ eof' = data
    /\ UNCHANGED <<wire, data, filters, sections>>

-----------------------------------------------------------------------------
(* The client                                                              *)

(* Slip: a filter set twice is one filter, and deleting one deletes both.  *)
SetFilterOnce(s, n) ==
    IF ~s.device THEN s
    ELSE [s EXCEPT !.keys = [k \in Keys |-> IF n[k] = 0 THEN s.keys[k]
                                            ELSE IF n[k] > 0 THEN 1 ELSE 0]]

(* ADDF and DELF, so many of each filter: without a device none is set.    *)
(* VDR keeps a filter as often as it was set, and deletes it once.         *)
SetFilter(s, n) ==
    IF ~s.device THEN s
    ELSE [s EXCEPT !.keys = [k \in Keys |-> Max({s.keys[k] + n[k], 0})]]

(* How many of the filters in S are for k.                                 *)
Count(fs, S) == [k \in Keys |-> Cardinality({i \in S : fs[i].key = k})]

(* Slip: the filters there are forgotten.                                  *)
SetConnectionForgets(s) == IF data THEN s ELSE [s EXCEPT !.there = TRUE]

(* PORT makes a filter streamer, but gives it no device; the filters there *)
(* are set anew, whether or not that does any good.                        *)
SetConnection(s) ==
    IF data THEN s
    ELSE SetFilter([s EXCEPT !.there = TRUE], Count(filters, DOMAIN filters))

(* VDR opens a filter; the server may refuse the data connection.          *)
OpenFilter(k) ==
    LET s == SetConnection(streamer) IN
    /\ Len(filters) < MaxFilters /\ s.keys[k] < MaxSet
    /\ streamer' = SetFilter(s, Count(<<Filter(k)>>, {1}))
    /\ data' = TRUE /\ eof' = (data /\ eof)
    /\ filters' = IF s.device THEN Append(filters, Filter(k)) ELSE filters
    /\ forgotten' = (forgotten /\ (data \/ ~s.device))
    /\ UNCHANGED <<rest, ring, wire, sections, faults, beheaded>>
Refused ==
    /\ ~data /\ faults < MaxFaults /\ faults' = faults + 1
    /\ UNCHANGED <<streamer, rest, ring, wire, eof, data, filters, sections,
                   beheaded, forgotten>>

(* VDR closes a filter; the server is not told.                            *)
CloseFilter(i) ==
    /\ filters' = RemoveAt(filters, i)
    /\ beheaded' = beheaded \cup Heads(filters[i].buffer)
    /\ forgotten' = (forgotten /\ filters' # <<>>)
    /\ UNCHANGED <<streamer, rest, ring, wire, eof, data, sections, faults>>

(* VDR closes its end of the pipe by itself.                               *)
ClosePipe(i) ==
    /\ faults < MaxFaults /\ faults' = faults + 1 /\ ~filters[i].closed
    /\ filters' = [filters EXCEPT ![i].closed = TRUE]
    /\ UNCHANGED <<streamer, rest, ring, wire, eof, data, sections,
                   beheaded, forgotten>>

(* VDR reads a section.                                                    *)
ReadPipe(i) ==
    /\ filters[i].pipe # <<>> /\ ~filters[i].closed
    /\ filters' = [filters EXCEPT ![i].pipe = Tail(@)]
    /\ UNCHANGED <<streamer, rest, ring, wire, eof, data, sections, faults,
                   beheaded, forgotten>>

(* A section is complete: it is written, unless those before it are still  *)
(* being flushed; it is the first to be flushed if the pipe is full. What  *)
(* a filter comes to, and whether PutSection says true.                    *)
Complete(f, section) ==
    LET maxq == IF f.flushed THEN Max({f.maxq, Queue(f)}) ELSE f.maxq
        ends == f.flushed /\ Queue(f) * 2 < maxq
        g == [f EXCEPT !.buffer = <<>>, !.maxq = IF ends THEN 0 ELSE maxq,
                       !.flushed = f.flushed /\ ~ends]
    IN CASE g.flushed -> [filter |-> g, ok |-> TRUE]
         [] ~g.flushed /\ f.closed -> [filter |-> g, ok |-> FALSE]
         [] ~g.flushed /\ ~f.closed /\ Queue(f) + Used(section) > PipeSize ->
              [filter |-> [g EXCEPT !.flushed = TRUE], ok |-> TRUE]
         [] OTHER ->
              [filter |-> [g EXCEPT !.pipe = Append(@, section)], ok |-> TRUE]

(* Slip: what was left of a section before is kept.                        *)
StartsKept(f, c) == f.buffer

(* What is in the buffer when a chunk comes: nothing, if it is a first.    *)
Starts(f, c) == IF c.pos = 0 THEN <<>> ELSE f.buffer

(* The size is that of the first chunk; too much is reset by a chunk that  *)
(* is not full, and otherwise when the buffer overflows.                   *)
PutSection(f, c) ==
    LET have == Starts(f, c)
        all == Append(have, c)
        kept(b) == [filter |-> [f EXCEPT !.buffer = b], ok |-> TRUE]
    IN CASE have = <<>> /\ c.pos # 0 -> [filter |-> f, ok |-> TRUE]
         [] (have # <<>> \/ c.pos = 0) /\ Used(all) >= BufSize -> kept(<<>>)
         [] (have # <<>> \/ c.pos = 0) /\ Used(all) < BufSize ->
              IF Used(all) = all[1].size THEN Complete(f, all)
              ELSE IF Used(all) > all[1].size /\ c.len < Full THEN kept(<<>>)
              ELSE kept(all)

(* A set of indices in their order.                                        *)
Orders(S) == {s \in [1 .. Cardinality(S) -> S] :
                /\ \A i, j \in DOMAIN s : i < j => s[i] < s[j]
                /\ \A i \in S : \E j \in DOMAIN s : s[j] = i}

(* The thread takes a chunk: the first filter that matches and can be      *)
(* written to has it, those before it that cannot are dropped.             *)
Action ==
    LET c == Head(wire)
        matching == {i \in DOMAIN filters : c.table \in Matches[filters[i].key]}
        takes == {i \in matching : PutSection(filters[i], c).ok}
        to == IF takes = {} THEN Len(filters) + 1 ELSE Min(takes)
        dead == {i \in matching : i < to}
        put == [i \in DOMAIN filters |->
                  IF i = to THEN PutSection(filters[i], c).filter ELSE filters[i]]
    IN /\ data /\ wire # <<>> /\ wire' = Tail(wire)
       /\ \E keep \in Orders(DOMAIN filters \ dead) :
            filters' = [j \in DOMAIN keep |-> put[keep[j]]]
       /\ streamer' = SetFilter(streamer, [k \in Keys |-> -Count(filters, dead)[k]])
       /\ forgotten' = (forgotten /\ filters' # <<>>)
       /\ beheaded' = beheaded \cup UNION {Heads(filters[i].buffer) : i \in dead}
       /\ UNCHANGED <<rest, ring, eof, data, sections, faults>>

(* The thread finds the end of the connection: ABRT deletes the streamer   *)
(* the server may have by now, if there is a command connection.           *)
CloseDataConnection ==
    /\ data /\ eof /\ wire = <<>> /\ data' = FALSE /\ eof' = FALSE
    /\ Delete \/ UNCHANGED <<streamer, rest, ring, beheaded, forgotten>>
    /\ UNCHANGED <<wire, filters, sections, faults>>

(* The client quits, as its setup is stored: both ends are closed with     *)
(* what is on its way, but the filters that VDR has open stay.             *)
ReInit ==
    /\ data \/ streamer.there
    /\ data' = FALSE /\ eof' = FALSE /\ wire' = <<>>
    /\ streamer' = NoStreamer /\ rest' = <<>> /\ ring' = <<>>
    /\ beheaded' = beheaded \cup Heads(wire \o ring \o rest)
    /\ forgotten' = (filters # <<>>)
    /\ UNCHANGED <<filters, sections, faults>>

-----------------------------------------------------------------------------

Next ==
    \/ SetDevice \/ Receive \/ Write \/ ServerGone \/ Refused
    \/ Action \/ CloseDataConnection \/ ReInit
    \/ \E t \in Tables : \E size \in Sizes[t] : Process(t, size)
    \/ \E k \in Keys : OpenFilter(k)
    \/ \E i \in DOMAIN filters : CloseFilter(i) \/ ClosePipe(i) \/ ReadPipe(i)

Spec == Init /\ [][Next]_vars

-----------------------------------------------------------------------------
(* Properties                                                              *)

(* What VDR reads is a section as the device sent it, whatever chunks were *)
(* lost on the way; or else the first chunk of another section was lost,   *)
(* or went to a filter that was closed since, and what followed it was     *)
(* taken for the rest of this one, if that makes the size.                 *)
SectionsWhole ==
    \A f \in ToSet(filters) : \A s \in ToSet(f.pipe) :
        /\ s[1].pos = 0 /\ Used(s) = s[1].size
        /\ \A i \in 2 .. Len(s) :
             \/ s[i].id = s[i - 1].id /\ s[i].pos > s[i - 1].pos
             \/ s[i].id > s[i - 1].id /\ s[i].id \in beheaded

(* A filter that VDR has open is set in the server: deleting one whose     *)
(* pipe VDR closed does not take the key from another that was opened      *)
(* since, and the reconnection of the data socket sets them all, if it     *)
(* comes after the device; until then, only the loss of the server's       *)
(* filters leaves one unserved.                                            *)
FiltersServed ==
    ~forgotten => \A f \in ToSet(filters) : streamer.keys[f.key] > 0
=============================================================================
