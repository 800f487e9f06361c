------------------------------ MODULE VTPLists ------------------------------
(***************************************************************************)
(* The commands of a VTP connection that list and edit what VDR keeps      *)
(* (server/connectionVTP.c): LSTE, LSTC, LSTT and LSTR, which post one     *)
(* line per cycle of the server and keep pointers into VDR's lists in      *)
(* between, and the commands adopted from SVDRP. VDR, with its menus, its  *)
(* recordings and its EPG scan, changes the lists between two cycles.      *)
(*                                                                         *)
(* A channel is an object, its number its place in the list; a timer is    *)
(* told apart by its channel; an event is its start, and lasts until the   *)
(* next time.                                                              *)
(***************************************************************************)
EXTENDS Integers, Sequences, FiniteSets, SequencesExt, FiniteSetsExt

CONSTANTS
    Objects,    \* that channels can be
    NamedSets,  \* channels with the text of LSTC in their name
    Recs,       \* recordings, in the order they are sorted
    Epgs,       \* initial schedules, sequences of [chan, evs], and the fields
                \* their events have
    Now,        \* the time
    Ends,       \* times asked for after TO
    MaxTimers, MaxCmds, MaxChanges  \* bounds

Increasing(s) == \A i, j \in DOMAIN s : i < j => s[i] < s[j]

(* VDR keeps its schedules sorted.                                         *)
ASSUME VTPListsAssumption ==
    /\ Objects \subseteq Nat \ {0} /\ IsFiniteSet(Objects) /\ Objects # {}
    /\ Recs \subseteq Nat \ {0} /\ IsFiniteSet(Recs) /\ Recs # {}
    /\ \A e \in Epgs :
         /\ e.epg \in Seq([chan : Objects, evs : Seq(Nat \ {0})])
         /\ \A i \in DOMAIN e.epg : Increasing(e.epg[i].evs)
    /\ Now \in Nat /\ Ends \subseteq Nat /\ MaxTimers \in Nat /\ MaxCmds \in Nat
    /\ MaxChanges \in Nat

VARIABLES
    channels,   \* VDR's Channels, without groups
    named,      \* the channels whose name contains the text of LSTC
    current,    \* cDevice::CurrentChannel(), a number
    watched,    \* the channel that was meant by it, 0 when it is gone
    timers,     \* [id, chan, on]
    controls,   \* cRecordControls: <<id of the timer, recording>>
    recordings,
    epg,        \* the schedules
    filled,
    req,        \* the last command
    busy,       \* m_LastCommand is set
    h,          \* the handler of an LSTx command, or None
    parsed,     \* the timer NEWT has parsed and not added yet, or Unparsed
    said,       \* the answers to req: [code, what, more]
    conn,       \* "open", "closed" or "undefined"
    changed,    \* history: the channels VDR added since req, and 0 for any
                \* other change of its lists
    cmds, changes

vdrVars == <<channels, named, current, watched, timers, controls, recordings,
             epg, filled>>
cmdVars == <<req, busy, h, parsed, said, conn, cmds>>
listsVars == <<vdrVars, cmdVars, changed, changes>>

None == [op |-> "none"]
Unparsed == [chan |-> 0, on |-> FALSE]
Fields == <<"T", "S", "D", "V", "G", "R">>
InfoFields == <<"E", "T", "S", "D", "X", "V">>
SeqToSet(s) == {s[i] : i \in DOMAIN s}
Pos(s, e) == CHOOSE i \in DOMAIN s : s[i] = e
Without(s, i) == SubSeq(s, 1, i - 1) \o SubSeq(s, i + 1, Len(s))
Sorted(S) == CHOOSE s \in [1 .. Cardinality(S) -> S] : Increasing(s)
NewId == CHOOSE n \in 1 .. Len(timers) + 1 :
           \A t \in SeqToSet(timers) : t.id # n
Recording(t) == \E c \in controls : c[1] = t.id
InUse(r) == \E c \in controls : c[2] = r

Line(c, w, m) == [code |-> c, what |-> w, more |-> m]
NoText == <<"", 0, 0>>
NoRequest == [op |-> "none", chan |-> 0, mode |-> "", from |-> 0, to |-> 0,
              nr |-> 0, text |-> FALSE, bad |-> FALSE, words |-> <<>>]
Request(op, a) ==
    [x \in DOMAIN NoRequest |-> IF x = "op" THEN op
                                ELSE IF x \in DOMAIN a THEN a[x]
                                ELSE NoRequest[x]]

ListsInit ==
    /\ \E e \in Epgs : epg = e.epg /\ filled = e.filled
    /\ channels = Sorted(Objects)
    /\ named \in NamedSets
    /\ current = 1 /\ watched = channels[1]
    /\ timers = <<[id |-> 1, chan |-> channels[1], on |-> TRUE]>>
    /\ controls = {<<1, Max(Recs)>>}
    /\ recordings = <<Max(Recs)>>
    /\ req = NoRequest /\ busy = FALSE /\ h = None /\ said = <<>>
    /\ parsed = Unparsed
    /\ conn = "open" /\ changed = {} /\ cmds = 0 /\ changes = 0

-----------------------------------------------------------------------------
(* The handlers. Next of a handler is a line, what the handler is after it *)
(* and whether it is to be deleted.                                        *)

Failed(op, c) == [op |-> op, err |-> c]
Step(l, x, last) == [line |-> l, h |-> x, last |-> last]

(* cSchedule: the event at the time, the one after it, the one around t.   *)
First(evs) == IF evs = <<>> THEN 0 ELSE evs[1]
After(evs, e) == LET S == {i \in DOMAIN evs : evs[i] > e} IN
    IF S = {} THEN 0 ELSE evs[Min(S)]
Latest(S) == IF S = {} THEN 0 ELSE Max(S)
Present(evs) == Latest({e \in SeqToSet(evs) : e <= Now})
Following(evs) == IF Present(evs) # 0 THEN After(evs, Present(evs))
                  ELSE After(evs, Now - 1)
Around(evs, t) == Latest({e \in SeqToSet(evs) : e <= t /\ t <= e + 1})
SchedulesOf(c) == {i \in DOMAIN epg : epg[i].chan = c}

(* The dump mode a, its times a.from and a.to (0: none) and a.chan.        *)
FirstEvent(a, evs) ==
    CASE a.mode = "all" -> First(evs)
      [] a.mode = "now" -> Present(evs)
      [] a.mode = "next" -> Following(evs)
      [] a.mode = "at" -> Around(evs, a.from)
      [] a.mode = "from" -> IF Len(evs) <= 1 THEN First(evs)
                            ELSE Around(evs, Max({a.from, First(evs)}))

LSTEHandler(a) ==
    LET one == a.chan # 0
        S == IF one THEN SchedulesOf(a.chan) ELSE DOMAIN epg
        i == IF S = {} THEN 0 ELSE Min(S)
        evs == IF i = 0 THEN <<>> ELSE epg[i].evs
        many == a.mode = "from" /\ Len(evs) > 1
    IN IF a.mode = "bad" THEN Failed("LSTE", 501)
       ELSE IF one /\ (a.chan \notin SeqToSet(channels) \/ i = 0)
         THEN Failed("LSTE", 550)
       ELSE [op |-> "LSTE", err |-> 0, st |-> "Channel", f |-> 0,
             sched |-> i, all |-> ~one, ev |-> FirstEvent(a, evs),
             traverse |-> (a.mode = "all" /\ i # 0) \/ many,
             to |-> IF many /\ a.to > Last(evs) + 1 THEN Last(evs) + 1
                    ELSE IF a.mode = "from" THEN a.to ELSE 0]

(* The fields of an event that are still to be listed.                     *)
LaterFields(x) == {i \in DOMAIN Fields : i > x.f /\ Fields[i] \in filled}

(* The state in which the next line is posted: the others call Next again. *)
LSTEState(x) ==
    CASE x.st = "Channel" ->
           IF x.sched = 0 THEN "EndEPG"
           ELSE IF epg[x.sched].chan \in SeqToSet(channels) THEN "Channel"
           ELSE "EndChannel"
      [] x.st = "Event" -> IF x.ev # 0 THEN "Event" ELSE "EndChannel"
      [] x.st = "Field" -> IF LaterFields(x) # {} THEN "Field" ELSE "EndEvent"
      [] OTHER -> x.st

EventField(x) ==
    LET f == Min(LaterFields(x)) IN
    Step(Line(215, <<Fields[f], x.ev, 0>>, TRUE),
         [x EXCEPT !.st = "Field", !.f = f], FALSE)

(* Slip: the end of the time asked for is not looked at.                   *)
EndEventWithoutEnd(x) ==
    LET e == IF x.traverse THEN After(epg[x.sched].evs, x.ev) ELSE 0 IN
    Step(Line(215, <<"e", 0, 0>>, TRUE),
         [x EXCEPT !.ev = e, !.f = 0,
                   !.st = IF e # 0 THEN "Event" ELSE "EndChannel"],
         FALSE)

EndEvent(x) ==
    LET n == IF x.traverse THEN After(epg[x.sched].evs, x.ev) ELSE 0
        e == IF x.to # 0 /\ n > x.to THEN 0 ELSE n
    IN Step(Line(215, <<"e", 0, 0>>, TRUE),
            [x EXCEPT !.ev = e, !.f = 0,
                      !.st = IF e # 0 THEN "Event" ELSE "EndChannel"],
            FALSE)

(* Slip: a schedule without events goes on with the event before it.       *)
EndChannelKeepsEvent(x) ==
    LET i == IF x.all /\ x.sched < Len(epg) THEN x.sched + 1 ELSE 0 IN
    Step(Line(215, <<"c", 0, 0>>, TRUE),
         IF i # 0 THEN [x EXCEPT !.sched = i, !.st = "Channel",
                                 !.ev = IF epg[i].evs = <<>> THEN @
                                        ELSE First(epg[i].evs)]
         ELSE [x EXCEPT !.st = "EndEPG"],
         FALSE)

(* The next schedule is listed from its first event in every mode.         *)
EndChannel(x) ==
    LET i == IF x.all /\ x.sched < Len(epg) THEN x.sched + 1 ELSE 0 IN
    Step(Line(215, <<"c", 0, 0>>, TRUE),
         IF i # 0 THEN [x EXCEPT !.sched = i, !.ev = First(epg[i].evs),
                                 !.st = "Channel"]
         ELSE [x EXCEPT !.st = "EndEPG"],
         FALSE)

LSTENext(x) ==
    CASE LSTEState(x) = "Channel" ->
           Step(Line(215, <<"C", epg[x.sched].chan, 0>>, TRUE),
                [x EXCEPT !.st = "Event"], FALSE)
      [] LSTEState(x) = "Event" ->
           Step(Line(215, <<"E", x.ev, 0>>, TRUE),
                [x EXCEPT !.st = "Field", !.f = 0], FALSE)
      [] LSTEState(x) = "Field" -> EventField(x)
      [] LSTEState(x) = "EndEvent" -> EndEvent(x)
      [] LSTEState(x) = "EndChannel" -> EndChannel(x)
      [] LSTEState(x) = "EndEPG" -> Step(Line(215, <<"End", 0, 0>>, FALSE), x, TRUE)

(* GetByNumber(i, 1), and from there the first with the text in its name;  *)
(* 0 if there is none.                                                     *)
ChannelFrom(i, text) ==
    LET S == {n \in DOMAIN channels : n >= i /\ (text => channels[n] \in named)}
    IN IF S = {} THEN 0 ELSE channels[Min(S)]

LSTCHandler(a) ==
    LET c == IF a.nr # 0
               THEN IF a.nr \in DOMAIN channels THEN channels[a.nr] ELSE 0
               ELSE ChannelFrom(1, a.text)
    IN IF c = 0 THEN Failed("LSTC", IF a.nr # 0 \/ a.text THEN 501 ELSE 550)
       ELSE [op |-> "LSTC", err |-> 0, held |-> c, text |-> a.text,
             traverse |-> a.nr = 0]

(* The next channel is looked for before this one is posted.               *)
LSTCNext(x) ==
    LET n == Pos(channels, x.held)
        c == IF x.traverse THEN ChannelFrom(n + 1, x.text) ELSE 0
    IN Step(Line(250, <<"", n, x.held>>, c # 0),
            IF c # 0 THEN [x EXCEPT !.held = c] ELSE x, c = 0)

(* LSTT and LSTR without Info: the list s by its index.                    *)
IndexHandler(op, a, s) ==
    IF a.bad \/ (a.nr # 0 /\ a.nr \notin DOMAIN s) THEN Failed(op, 501)
    ELSE IF a.nr = 0 /\ s = <<>> THEN Failed(op, 550)
    ELSE [op |-> op, err |-> 0, held |-> s[IF a.nr = 0 THEN 1 ELSE a.nr],
          idx |-> 1, traverse |-> a.nr = 0]

IndexNext(x, s) ==
    LET last == ~x.traverse \/ x.idx >= Len(s) IN
    Step(Line(250, <<"", Pos(s, x.held), x.held>>, ~last),
         IF last THEN x
         ELSE [x EXCEPT !.idx = @ + 1, !.held = s[x.idx + 1]],
         last)

TimerIds == [i \in DOMAIN timers |-> timers[i].id]
LSTTHandler(a) == IndexHandler("LSTT", a, TimerIds)
LSTTNext(x) == IndexNext(x, TimerIds)

(* With a number, the information of a recording.                          *)
LSTRHandler(a) ==
    IF a.nr = 0 \/ a.bad THEN IndexHandler("LSTR", a, recordings)
    ELSE [op |-> "Info", err |-> 0, held |-> recordings[a.nr], f |-> -1]

InfoNext(x) ==
    LET S == {i \in DOMAIN InfoFields :
                i > x.f /\ (InfoFields[i] = "T" \/ InfoFields[i] \in filled)}
    IN IF x.f = -1
         THEN Step(Line(215, <<"C", x.held, 0>>, TRUE), [x EXCEPT !.f = 0], FALSE)
       ELSE IF S # {}
         THEN Step(Line(215, <<InfoFields[Min(S)], x.held, 0>>, TRUE),
                   [x EXCEPT !.f = Min(S)], FALSE)
       ELSE Step(Line(215, <<"End", 0, 0>>, FALSE), x, TRUE)

HandlerNext(x) ==
    IF x.err # 0 THEN Step(Line(x.err, NoText, FALSE), x, TRUE)
    ELSE CASE x.op = "LSTE" -> LSTENext(x)
           [] x.op = "LSTC" -> LSTCNext(x)
           [] x.op = "LSTT" -> LSTTNext(x)
           [] x.op = "LSTR" -> IndexNext(x, recordings)
           [] x.op = "Info" -> InfoNext(x)

(* The entry a handler points to is no longer in the list.                 *)
Stale(x) ==
    /\ x.err = 0
    /\ CASE x.op = "LSTE" ->
              /\ LSTEState(x) \in {"Event", "Field", "EndEvent"}
              /\ x.ev \notin SeqToSet(epg[x.sched].evs)
         [] x.op = "LSTC" -> x.held \notin SeqToSet(channels)
         [] x.op = "LSTT" -> x.held \notin SeqToSet(TimerIds)
         [] x.op \in {"LSTR", "Info"} -> x.held \notin SeqToSet(recordings)

-----------------------------------------------------------------------------
(* A command: the client's next line. Respond with a code that is not      *)
(* negative ends it.                                                       *)

Ask(op, a) ==
    /\ conn = "open" /\ ~busy /\ parsed = Unparsed /\ cmds < MaxCmds
    /\ req' = Request(op, a) /\ cmds' = cmds + 1
Do(op) == Ask(op, [bad |-> FALSE])
Err(op) == Ask(op, [bad |-> TRUE])

Answer(lines) ==
    /\ said' = lines /\ changed' = {}
    /\ UNCHANGED <<busy, h, parsed, conn, changes>>
Reply(c) == Answer(<<Line(c, NoText, FALSE)>>)

(* Command with another line while the last is being answered.             *)
Violation ==
    /\ conn = "open" /\ busy
    /\ conn' = "closed"
    /\ UNCHANGED <<vdrVars, req, busy, h, parsed, said, cmds, changed, changes>>

(* Slip: a handler is deleted only by the next command of its kind.        *)
PostKeepsHandler(x, s) ==
    LET n == HandlerNext(x) IN
    /\ said' = Append(s, n.line) /\ busy' = n.line.more /\ h' = n.h

(* Slip: the last line of a list is announced like the others.             *)
PostAllContinued(x, s) ==
    LET n == HandlerNext(x) IN
    /\ said' = Append(s, n.line) /\ busy' = TRUE
    /\ h' = IF n.last THEN None ELSE n.h

(* CmdLSTX, for a handler whose entry is still there.                      *)
Post(x, s) ==
    LET n == HandlerNext(x) IN
    /\ said' = Append(s, n.line) /\ busy' = n.line.more
    /\ h' = IF n.last THEN None ELSE n.h

List(op, a, x) ==
    /\ Ask(op, a) /\ Post(x, <<>>) /\ changed' = {}
    /\ UNCHANGED <<vdrVars, parsed, conn, changes>>

Times == Now .. Now + 1
LSTE == \E a \in [chan : {0} \cup Objects,
                   mode : {"all", "now", "next", "bad"}, from : {1}, to : {0}]
                  \cup [chan : {0} \cup Objects, mode : {"at"},
                        from : Times, to : {0}]
                  \cup [chan : {0} \cup Objects, mode : {"from"},
                        from : Times, to : Ends] :
          List("LSTE", a, LSTEHandler(a))
LSTC == \E a \in [nr : DOMAIN channels \cup {Len(channels) + 1},
                   text : {FALSE}] \cup [nr : {0}, text : BOOLEAN] :
          List("LSTC", a, LSTCHandler(a))
Indices(s) == [nr : 0 .. Len(s) + 1, bad : {FALSE}]
              \cup [nr : {0}, bad : {TRUE}]
LSTT == \E a \in Indices(timers) : List("LSTT", a, LSTTHandler(a))
LSTR == \E a \in Indices(recordings) :
          /\ a.nr # 0 => a.nr \in DOMAIN recordings
          /\ List("LSTR", a, LSTRHandler(a))

(* The pointer to the recording is used before it is tested.               *)
LSTRUnknown ==
    /\ Ask("LSTR", [nr |-> Len(recordings) + 1]) /\ conn' = "undefined"
    /\ said' = <<>>
    /\ UNCHANGED <<vdrVars, busy, h, parsed, changed, changes>>

(* Command(NULL), in the next cycle.                                       *)
Cycle ==
    /\ conn = "open" /\ busy /\ h # None /\ ~Stale(h)
    /\ Post(h, said)
    /\ UNCHANGED <<vdrVars, req, parsed, conn, cmds, changed, changes>>

StaleUse ==
    /\ conn = "open" /\ busy /\ h # None /\ Stale(h)
    /\ conn' = "undefined"
    /\ UNCHANGED <<vdrVars, req, busy, h, parsed, said, cmds, changed, changes>>

-----------------------------------------------------------------------------
(* The commands adopted from SVDRP.                                        *)

STAT ==
    \/ Do("STAT") /\ Reply(250) /\ UNCHANGED vdrVars
    \/ Err("STAT") /\ Reply(501) /\ UNCHANGED vdrVars

STATRecords ==
    /\ Do("STAT")
    /\ recordings' = Sorted(SeqToSet(recordings))
    /\ IF recordings # <<>> THEN Reply(250)
       ELSE /\ conn' = "undefined" /\ said' = <<>>
            /\ UNCHANGED <<busy, h, parsed, changed, changes>>
    /\ UNCHANGED <<channels, named, current, watched, timers, controls, epg,
                   filled>>

(* MODT: the channel parsed, or what the timer had.                        *)
Setting(n, c) == IF c = 0 THEN timers[n].chan ELSE c

(* Settings of a timer: a channel VDR knows, or an error.                  *)
MODT ==
    \/ Err("MODT") /\ Reply(501) /\ UNCHANGED vdrVars
    \/ \E n \in 1 .. Len(timers) + 1, on \in BOOLEAN,
          c \in {0} \cup SeqToSet(channels) :
         /\ Do("MODT")
         /\ IF n \in DOMAIN timers
              THEN /\ timers' = [timers EXCEPT ![n].on = on,
                                   ![n].chan = Setting(n, c)]
                   /\ Reply(250)
              ELSE Reply(501) /\ UNCHANGED timers
         /\ UNCHANGED <<channels, named, current, watched, controls,
                        recordings, epg, filled>>

(* The timer is parsed, and its channel looked up, before the timers are   *)
(* locked: VDR may change its lists until it is added.                     *)
NEWT ==
    \/ Err("NEWT") /\ Reply(501) /\ UNCHANGED vdrVars
    \/ \E c \in SeqToSet(channels), on \in BOOLEAN :
         /\ Len(timers) < MaxTimers \/ \E t \in SeqToSet(timers) : t.chan = c
         /\ Do("NEWT") /\ parsed' = [chan |-> c, on |-> on]
         /\ said' = <<>> /\ changed' = {}
         /\ UNCHANGED <<vdrVars, busy, h, conn, changes>>

(* The new timer is told with its channel; if that is gone meanwhile, the  *)
(* timer is added all the same, and its pointer followed.                  *)
NEWTAdds ==
    /\ conn = "open" /\ parsed # Unparsed /\ parsed' = Unparsed
    /\ IF \E t \in SeqToSet(timers) : t.chan = parsed.chan
         THEN said' = <<Line(550, NoText, FALSE)>> /\ UNCHANGED <<timers, conn>>
         ELSE /\ timers' = Append(timers, [id |-> NewId, chan |-> parsed.chan,
                                            on |-> parsed.on])
              /\ IF parsed.chan \in SeqToSet(channels)
                   THEN said' = <<Line(250, NoText, FALSE)>> /\ UNCHANGED conn
                   ELSE conn' = "undefined" /\ UNCHANGED said
    /\ UNCHANGED <<channels, named, current, watched, controls, recordings,
                   epg, filled, req, busy, h, cmds, changed, changes>>

(* Skip and Process: the recording of the timer ends.                      *)
DeleteTimer(n) ==
    /\ timers' = Without(timers, n)
    /\ controls' = {c \in controls : c[1] # timers[n].id}

(* At most two words, each a number, FORCE or something else; without a    *)
(* number it is timer 1. An unknown second word is answered, and what      *)
(* follows is done and answered as well.                                   *)
Words == (1 .. Len(timers) + 1) \cup {-1, -2}
FORCE == -1
NoWord == -2
DELT ==
    \/ Do("DELT") /\ Reply(501) /\ UNCHANGED vdrVars
    \/ \E p, q \in Words, two \in BOOLEAN :
         LET n == IF two /\ q > 0 THEN q ELSE IF p > 0 THEN p ELSE 1
             force == p = FORCE \/ (two /\ q = FORCE)
             error == IF two /\ q = NoWord THEN <<Line(501, NoText, FALSE)>>
                      ELSE <<>>
             Say(c) == Answer(error \o <<Line(c, NoText, FALSE)>>)
         IN /\ Ask("DELT", [words |-> IF two THEN <<p, q>> ELSE <<p>>])
            /\ IF n \notin DOMAIN timers
                 THEN Say(501) /\ UNCHANGED <<timers, controls>>
               ELSE IF Recording(timers[n]) /\ ~force
                 THEN Say(550) /\ UNCHANGED <<timers, controls>>
               ELSE Say(250) /\ DeleteTimer(n)
            /\ UNCHANGED <<channels, named, current, watched, recordings,
                           epg, filled>>

NEXT ==
    \E bad \in BOOLEAN :
      /\ Ask("NEXT", [bad |-> bad]) /\ UNCHANGED vdrVars
      /\ Reply(IF \A t \in SeqToSet(timers) : ~t.on THEN 550
               ELSE IF bad THEN 501 ELSE 250)

-----------------------------------------------------------------------------
(* Channels. Switch: the number of the channel that was current.           *)

Rest == <<timers, controls, recordings, epg, filled>>
Moved(s, f, t) == LET r == Without(s, f) IN
    SubSeq(r, 1, t - 1) \o <<s[f]>> \o SubSeq(r, t, Len(r))

(* Slip: the number of the current channel is kept.                        *)
SwitchNot(s) == current' = current /\ UNCHANGED watched

Switch(s) ==
    /\ current' = IF current \in DOMAIN channels
                    THEN Pos(s, channels[current]) ELSE current
    /\ UNCHANGED watched

AddChannel(c) ==
    /\ channels' = Append(channels, c)
    /\ UNCHANGED <<named, current, watched, Rest>>

NEWC ==
    \/ Err("NEWC") /\ Reply(501) /\ UNCHANGED vdrVars
    \/ \E c \in Objects \ SeqToSet(channels) :
         Do("NEWC") /\ Reply(250) /\ AddChannel(c)

(* A channel with other data is the same object.                           *)
MODC ==
    \/ Err("MODC") /\ Reply(501) /\ UNCHANGED vdrVars
    \/ \E n \in DOMAIN channels :
         /\ Do("MODC") /\ Reply(250)
         /\ named' \in {named \cup {channels[n]}, named \ {channels[n]}}
         /\ UNCHANGED <<channels, current, watched, Rest>>

MOVC ==
    \/ Err("MOVC") /\ Reply(501) /\ UNCHANGED vdrVars
    \/ \E f, t \in 1 .. Len(channels) + 1 :
         /\ Do("MOVC")
         /\ IF {f, t} \subseteq DOMAIN channels /\ f # t
              THEN /\ channels' = Moved(channels, f, t)
                   /\ Switch(channels') /\ Reply(250)
              ELSE Reply(501) /\ UNCHANGED <<channels, current, watched>>
         /\ UNCHANGED <<named, Rest>>

TimersOn(c) == {i \in DOMAIN timers : timers[i].chan = c}

(* When the current channel goes, the next one or else the one before it   *)
(* is switched to; the last one is not replaced.                           *)
DeleteChannel(n) ==
    LET s == Without(channels, n)
        c == IF n + 1 \in DOMAIN channels THEN channels[n + 1]
             ELSE IF n - 1 \in DOMAIN channels THEN channels[n - 1] ELSE 0
    IN /\ channels' = s
       /\ IF n = current
            THEN /\ watched' = c
                 /\ current' = IF c = 0 THEN current ELSE Pos(s, c)
            ELSE Switch(s)
       /\ UNCHANGED <<named, Rest>>

DELC ==
    \/ Err("DELC") /\ Reply(501) /\ UNCHANGED vdrVars
    \/ \E n \in 1 .. Len(channels) + 1 :
         /\ Do("DELC")
         /\ \/ n \notin DOMAIN channels /\ Reply(501) /\ UNCHANGED vdrVars
            \/ /\ n \in DOMAIN channels /\ TimersOn(channels[n]) = {}
               /\ DeleteChannel(n) /\ Reply(250)

(* The answer is queued and the connection closed before it is sent.       *)
DELCInUse ==
    \E n \in DOMAIN channels :
      /\ TimersOn(channels[n]) # {}
      /\ Do("DELC") /\ conn' = "closed"
      /\ said' = <<Line(550, NoText, FALSE)>> /\ changed' = {}
      /\ UNCHANGED <<vdrVars, busy, h, parsed, changes>>

DELR ==
    \/ Err("DELR") /\ Reply(501) /\ UNCHANGED vdrVars
    \/ \E n \in 1 .. Len(recordings) + 1 :
         /\ Do("DELR")
         /\ \/ n \notin DOMAIN recordings /\ Reply(550) /\ UNCHANGED vdrVars
            \/ /\ n \in DOMAIN recordings
               /\ \/ InUse(recordings[n]) /\ Reply(550) /\ UNCHANGED vdrVars
                  \/ ~InUse(recordings[n]) /\ Reply(554) /\ UNCHANGED vdrVars
                  \/ /\ ~InUse(recordings[n]) /\ Reply(250)
                     /\ recordings' = Without(recordings, n)
                     /\ UNCHANGED <<channels, named, current, watched,
                                    timers, controls, epg, filled>>

RENR == Do("RENR") /\ Reply(501) /\ UNCHANGED vdrVars
Unknown == Do("HELP") /\ Reply(500) /\ UNCHANGED vdrVars

-----------------------------------------------------------------------------
(* VDR and its other users.                                                *)

Change(c) ==
    /\ conn = "open" /\ changes < MaxChanges
    /\ changes' = changes + 1 /\ changed' = changed \cup {c}
    /\ UNCHANGED cmdVars

TimerEdits ==
    /\ Change(0)
    /\ \/ \E n \in DOMAIN timers : /\ ~Recording(timers[n])
                                   /\ DeleteTimer(n)
       \/ \E c \in SeqToSet(channels) :
            /\ Len(timers) < MaxTimers /\ UNCHANGED controls
            /\ timers' = Append(timers, [id |-> NewId, chan |-> c,
                                         on |-> TRUE])
    /\ UNCHANGED <<channels, named, current, watched, recordings, epg, filled>>

(* A new channel is another object than the one NEWT has a pointer to.     *)
ChannelEdits ==
    \/ \E n \in DOMAIN channels : /\ TimersOn(channels[n]) = {}
                                  /\ Change(0) /\ DeleteChannel(n)
    \/ \E c \in Objects \ SeqToSet(channels) :
         c # parsed.chan /\ Change(c) /\ AddChannel(c)

RecordingStarts ==
    /\ Change(0)
    /\ \E t \in SeqToSet(timers), r \in Recs \ SeqToSet(recordings) :
         /\ t.on /\ ~Recording(t) /\ ~InUse(r)
         /\ recordings' = Append(recordings, r)
         /\ controls' = controls \cup {<<t.id, r>>}
    /\ UNCHANGED <<channels, named, current, watched, timers, epg, filled>>

RecordingStops ==
    /\ Change(0)
    /\ \E c \in controls : controls' = controls \ {c}
    /\ UNCHANGED <<channels, named, current, watched, timers, recordings,
                   epg, filled>>

RecordingEdits ==
    /\ Change(0)
    /\ \/ \E n \in DOMAIN recordings : /\ ~InUse(recordings[n])
                                       /\ recordings' = Without(recordings, n)
       \/ recordings' = Sorted(SeqToSet(recordings))
    /\ UNCHANGED <<channels, named, current, watched, timers, controls, epg,
                   filled>>

EventExpires ==
    /\ Change(0)
    /\ \E i \in DOMAIN epg : /\ epg[i].evs # <<>>
                             /\ epg' = [epg EXCEPT ![i].evs = Tail(@)]
    /\ UNCHANGED <<channels, named, current, watched, timers, controls,
                   recordings, filled>>

Ended == conn # "open" /\ UNCHANGED listsVars
Rests ==
    /\ conn = "open" /\ ~busy /\ parsed = Unparsed /\ cmds = MaxCmds
    /\ UNCHANGED listsVars

ListsNext ==
    \/ Violation \/ LSTE \/ LSTC \/ LSTT \/ LSTR \/ LSTRUnknown
    \/ Cycle \/ StaleUse
    \/ STAT \/ STATRecords \/ MODT \/ NEWT \/ NEWTAdds \/ DELT \/ NEXT
    \/ NEWC \/ MODC \/ MOVC \/ DELC \/ DELCInUse \/ DELR \/ RENR \/ Unknown
    \/ TimerEdits \/ ChannelEdits \/ RecordingStarts \/ RecordingStops
    \/ RecordingEdits \/ EventExpires
    \/ Ended \/ Rests

ListsSpec == ListsInit /\ [][ListsNext]_listsVars

(* The server writes the connection's data, and asks for more, each cycle. *)
ListsFairSpec == ListsSpec /\ WF_listsVars(Cycle \/ StaleUse \/ NEWTAdds)

-----------------------------------------------------------------------------

(* Respond with a code below zero announces more, any other ends the       *)
(* command: a client that reads up to the first line without a dash gets   *)
(* the whole answer of one command and nothing of the next. Only a DELT    *)
(* whose second word is unknown answers twice.                             *)
AnsweredTwice == req.op = "DELT" /\ Len(req.words) = 2 /\ req.words[2] = NoWord

OneAnswer ==
    /\ ~AnsweredTwice => \A i \in 1 .. Len(said) - 1 :
         said[i].more /\ said[i].code = said[i + 1].code
    /\ said # <<>> /\ conn = "open" => busy = said[Len(said)].more
    /\ busy <=> h # None

What == [i \in DOMAIN said |-> said[i].what]
Numbered(s) == [i \in DOMAIN s |-> <<"", i, s[i]>>]
Failure == Len(said) = 1 /\ said[1].code > 500
Selected(s, S) == LET o == Sorted(S) IN [k \in DOMAIN o |-> s[o[k]]]
FieldLines(e, S) == Selected([i \in DOMAIN Fields |-> <<Fields[i], e, 0>>], S)
FilledFields == {i \in DOMAIN Fields : Fields[i] \in filled}
EventLines(e) ==
    <<<<"E", e, 0>>>> \o FieldLines(e, FilledFields) \o <<<<"e", 0, 0>>>>
EventsLines(evs, S) ==
    FlattenSeq(Selected([k \in DOMAIN evs |-> EventLines(evs[k])], S))
ChannelLines(i, S) ==
    IF epg[i].chan \notin SeqToSet(channels) THEN <<<<"c", 0, 0>>>>
    ELSE <<<<"C", epg[i].chan, 0>>>> \o EventsLines(epg[i].evs, S)
         \o <<<<"c", 0, 0>>>>
EpgLines(s) == FlattenSeq(s) \o <<<<"End", 0, 0>>>>

(* The events asked for: all of them, one, or those of a span of time. The *)
(* modes other than "all" are for one channel.                             *)
Asked(a, evs) ==
    LET b == Around(evs, Max({a.from, First(evs)})) IN
    {k \in DOMAIN evs :
       CASE a.mode = "all" -> TRUE
         [] a.mode = "from" /\ Len(evs) > 1 ->
              b # 0 /\ evs[k] >= b /\ (a.to = 0 \/ evs[k] <= Max({a.to, b}))
         [] OTHER -> evs[k] = FirstEvent(a, evs)}

EpgExact ==
    LET Lines(i) == ChannelLines(i, Asked(req, epg[i].evs)) IN
    IF req.chan # 0 THEN What = EpgLines(<<Lines(Min(SchedulesOf(req.chan)))>>)
    ELSE req.mode = "all" => What = EpgLines([i \in DOMAIN epg |-> Lines(i)])

ListExact(s) ==
    What = IF req.nr = 0 THEN Numbered(s)
           ELSE <<Numbered(s)[req.nr]>>

(* While VDR adds and deletes channels under it, LSTC, which goes on        *)
(* behind the channel it holds, repeats none but those that were added     *)
(* again. (LSTT and LSTR go on by index, and skip one for each that was    *)
(* deleted before it.)                                                     *)
ChannelsOnce ==
    req.op = "LSTC" =>
      \A i, j \in DOMAIN said :
        /\ i # j /\ said[i].code = 250 /\ said[j].code = 250
        /\ said[i].what[3] = said[j].what[3]
        => said[i].what[3] \in changed

Undisturbed == conn = "open" /\ ~busy /\ changed = {} /\ ~Failure

(* A list of channels, timers or recordings nobody changes meanwhile is    *)
(* told as it is, entry by entry, each with its number.                    *)
EntriesExact ==
    Undisturbed =>
      /\ req.op = "LSTC" /\ ~req.text => ListExact(channels)
      /\ req.op = "LSTT" => ListExact(TimerIds)
      /\ req.op = "LSTR" /\ req.nr = 0 => ListExact(recordings)

(* The same, and of the EPG and of the channels with a text in their name  *)
(* those asked for are told, in their order.                               *)
ListingExact ==
    /\ ChannelsOnce /\ EntriesExact
    /\ Undisturbed =>
         /\ req.op = "LSTE" => EpgExact
         /\ req.op = "LSTC" /\ req.text =>
              What = Selected(Numbered(channels),
                              {n \in DOMAIN channels : channels[n] \in named})

(* Only a change of VDR's under the command makes it follow a pointer to   *)
(* what was deleted, or a command that looks into an empty list first.     *)
UndefinedOnlyIf ==
    conn = "undefined" =>
      changed # {} \/ req.op = "LSTR" \/ req.op = "STAT"

CurrentKept ==
    watched \in SeqToSet(channels) =>
      current \in DOMAIN channels /\ channels[current] = watched

(* The timer NEWT added last, to a channel VDR deleted after it was parsed.*)
Orphan(t) ==
    /\ conn = "undefined" /\ req.op = "NEWT" /\ changed # {}
    /\ t = Last(timers)

(* What refers to each other stays: a timer's channel is in the list, what *)
(* is being recorded has its timer and its entry; and however channels are *)
(* moved, deleted and added, the number VDR takes for the current channel  *)
(* is that of the channel being watched. The code breaks this in one way:  *)
(* a channel deleted while NEWT is between Parse and the lock of the       *)
(* timers gets a timer (connectionVTP.c:1613).                             *)
ReferencesKept ==
    /\ CurrentKept
    /\ \A t \in SeqToSet(timers) : t.chan \in SeqToSet(channels) \/ Orphan(t)
    /\ \A c \in controls : /\ c[1] \in SeqToSet(TimerIds)
                           /\ c[2] \in SeqToSet(recordings)

(* Each list comes to its end, whatever VDR does to it, and a timer that   *)
(* was parsed is added or refused.                                         *)
ListEnds ==
    (busy \/ parsed # Unparsed) ~>
      ((~busy /\ parsed = Unparsed) \/ conn # "open")
=============================================================================
