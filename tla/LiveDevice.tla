----------------------------- MODULE LiveDevice -----------------------------
(***************************************************************************)
(* The devices of live streamers (server/livestreamer.c): a streamer takes *)
(* one from what has a lower priority, and perhaps from live TV, loses it  *)
(* to what has a higher one, and goes on with another or ends.             *)
(*                                                                         *)
(* Three threads: the server thread creates, starts and deletes streamers, *)
(* VDR's main thread looks after them in its hook, and the writer of each  *)
(* ends when its receiver is gone. VDR's devices are external: GetDevice   *)
(* returns any that provides the channel, detaching what uses it, and      *)
(* SwitchChannel tunes; the two are steps of their own. Pids and the       *)
(* PAT filter are those of LivePids.                                       *)
(***************************************************************************)
EXTENDS Integers, FiniteSets

CONSTANTS
    Devices, Channels,
    Tp,         \* the transponder of a channel: [Channels -> transponders]
    Streamers,  \* places for streamers
    Priorities, \* of streamers, and that of the first in each place
    First,      \* [Streamers -> Priorities]
    Local,      \* priorities of recordings of this VDR
    FirstLive,  \* the device and channel of live TV at first
    None,       \* no device
    MaxTunes,   \* bound: streamers created
    MaxEvents   \* bound: recordings, zapping, changes of a channel, PRIO,
                \* PROV, ABRT, QUIT, clients gone, failures of SwitchChannel

ASSUME DeviceAssumption ==
    /\ Devices # {} /\ None \notin Devices
    /\ Devices \cap {"idle", "none"} = {}
    /\ None \notin Streamers /\ None \notin Channels
    /\ First \in [Streamers -> Priorities]
    /\ FirstLive \in [dev : Devices, ch : Channels]
    /\ MaxTunes \in Nat /\ MaxEvents \in Nat

TRANSFERPRIORITY == -1
LIVEPRIORITY == 0
IDLEPRIORITY == -100

VARIABLES
    tuned,     \* the transponder of each device
    recording, \* the priority of a local receiver on it, or IDLEPRIORITY
    live,      \* the device of live TV and its channel
    occupied,  \* devices that VDR leaves alone for now
    str,       \* the streamers
    pc,        \* of the server and the main thread
    tunes, events
vars == <<tuned, recording, live, occupied, str, pc, tunes, events>>

(* thread is Running(); m_Writer exists from Start to Stop; recv is the    *)
(* device m_Receiver is attached to, or "idle", or "none" if it is NULL.   *)
NoStreamer == [exists |-> FALSE, thread |-> FALSE, writer |-> "none",
               ch |-> None, prio |-> IDLEPRIORITY, dev |-> None,
               recv |-> "none", switchLive |-> FALSE]
Idle == [at |-> "idle", s |-> None, dev |-> None]

Init ==
    /\ tuned \in [Devices -> {Tp[c] : c \in Channels}]
    /\ recording = [d \in Devices |-> IDLEPRIORITY]
    /\ live = FirstLive /\ tuned[live.dev] = Tp[live.ch]
    /\ occupied = {} /\ str = [s \in Streamers |-> NoStreamer]
    /\ pc = [t \in {"server", "main"} |-> Idle]
    /\ tunes = 0 /\ events = 0

-----------------------------------------------------------------------------
(* VDR                                                                     *)

Event == events < MaxEvents /\ events' = events + 1

Users(d) == {str[s].prio : s \in {x \in Streamers : str[x].recv = d}}
              \cup {recording[d]}
              \cup (IF live.dev = d THEN {TRANSFERPRIORITY} ELSE {})
Provides(ch, p) ==
    {d \in Devices : tuned[d] = Tp[ch] \/ \A u \in Users(d) : u < p}

(* The receivers of a device that is about to be tuned elsewhere go.       *)
Freed(d, ch) == tuned[d] # Tp[ch]
Lose(r, d) == IF r.recv = d THEN [r EXCEPT !.recv = "idle"] ELSE r
DetachAll(d, ch) ==
    /\ str' = [s \in Streamers |->
                 IF Freed(d, ch) THEN Lose(str[s], d) ELSE str[s]]
    /\ recording' = [recording EXCEPT
                       ![d] = IF Freed(d, ch) THEN IDLEPRIORITY ELSE @]

Record(d, ch, p) ==
    /\ pc["main"] = Idle /\ Event
    /\ d \in Provides(ch, p)
    /\ str' = [s \in Streamers |->
                 IF Freed(d, ch) THEN Lose(str[s], d) ELSE str[s]]
    /\ recording' = [recording EXCEPT ![d] = p]
    /\ tuned' = [tuned EXCEPT ![d] = Tp[ch]]
    /\ UNCHANGED <<live, occupied, pc, tunes>>

RecordEnds(d) ==
    /\ recording[d] # IDLEPRIORITY
    /\ recording' = [recording EXCEPT ![d] = IDLEPRIORITY]
    /\ UNCHANGED <<tuned, live, occupied, str, pc, tunes, events>>

(* The user zaps.                                                          *)
SwitchTo(ch, d) ==
    /\ d \in Provides(ch, LIVEPRIORITY)
    /\ live' = [dev |-> d, ch |-> ch]
    /\ tuned' = [tuned EXCEPT ![d] = Tp[ch]]
Zap(ch, d) ==
    /\ pc["main"] = Idle /\ Event
    /\ d \notin occupied /\ SwitchTo(ch, d) /\ DetachAll(d, ch)
    /\ UNCHANGED <<occupied, pc, tunes>>

OccupiedEnds(d) ==
    /\ d \in occupied /\ occupied' = occupied \ {d}
    /\ UNCHANGED <<tuned, recording, live, str, pc, tunes, events>>

-----------------------------------------------------------------------------
(* What both threads do to find a device                                   *)

Go(t, at) == pc' = [pc EXCEPT ![t].at = at]

GetDevice(t) ==
    /\ pc[t].at = "get"
    /\ LET r == str[pc[t].s]
           some == Provides(r.ch, r.prio)
       IN \/ /\ some = {}
             /\ Go(t, "take") /\ UNCHANGED <<str, recording>>
          \/ \E d \in some :
               /\ pc' = [pc EXCEPT ![t].at = "switch", ![t].dev = d]
               /\ DetachAll(d, r.ch)
    /\ UNCHANGED <<tuned, live, occupied, tunes, events>>

UsedByLiveTV(d) == live.dev = d

(* The device of live TV is occupied until live TV has gone elsewhere.     *)
SwitchDevice(t) ==
    /\ pc[t].at = "switch"
    /\ LET s == pc[t].s
           d == pc[t].dev
           away == tuned[d] # Tp[str[s].ch] /\ UsedByLiveTV(d)
       IN \/ /\ tuned' = [tuned EXCEPT ![d] = Tp[str[s].ch]]
             /\ str' = [str EXCEPT ![s].switchLive = @ \/ away]
             /\ occupied' = IF away THEN occupied \cup {d} ELSE occupied
             /\ Go(t, "take") /\ UNCHANGED events
          \/ /\ Event
             /\ occupied' = IF away THEN occupied \ {d} ELSE occupied
             /\ pc' = [pc EXCEPT ![t].at = "take", ![t].dev = None]
             /\ UNCHANGED <<tuned, str>>
    /\ UNCHANGED <<recording, live, tunes>>

(* Slip: the receiver exists.                                              *)
HasReceiver(r) == r.recv # "none"

(* The receiver exists and is on a device.                                 *)
IsReceiving(r) == r.recv \in Devices

Attach(r) == [r EXCEPT !.recv = IF r.dev # None /\ @ # "none" THEN r.dev ELSE @]
Detach(r) == [r EXCEPT !.recv = IF r.dev # None /\ @ = r.dev THEN "idle" ELSE @]

(* A new receiver takes the place of the old, which is deleted.            *)
StartReceiver(r) ==
    LET new == [r EXCEPT !.recv = "idle"]
    IN IF r.writer # "none" THEN Attach(new) ELSE new

-----------------------------------------------------------------------------
(* The server thread                                                       *)

ServerIdle == pc["server"] = Idle

Tune(s, ch, p) ==
    /\ ServerIdle /\ ~str[s].exists /\ \A x \in Streamers : x < s => str[x].exists
    /\ tunes < MaxTunes /\ tunes' = tunes + 1
    /\ str' = [str EXCEPT ![s] = [NoStreamer EXCEPT
                 !.exists = TRUE, !.ch = ch, !.prio = p]]
    /\ pc' = [pc EXCEPT !["server"] = [at |-> "get", s |-> s, dev |-> None]]
    /\ UNCHANGED <<tuned, recording, live, occupied, events>>

(* The end of the constructor: without a device the streamer is deleted.   *)
Tuned ==
    /\ pc["server"].at = "take"
    /\ LET d == pc["server"].dev
           s == pc["server"].s
       IN IF d = None
            THEN Go("server", "detach") /\ UNCHANGED str
            ELSE /\ str' = [str EXCEPT ![s] = StartReceiver([@ EXCEPT !.dev = d])]
                 /\ pc' = [pc EXCEPT !["server"] = Idle]
    /\ UNCHANGED <<tuned, recording, live, occupied, tunes, events>>

Start(s) ==
    /\ ServerIdle /\ str[s].exists /\ str[s].writer = "none"
    /\ str' = [str EXCEPT ![s] =
                 Attach([@ EXCEPT !.writer = "active", !.thread = TRUE])]
    /\ UNCHANGED <<tuned, recording, live, occupied, pc, tunes, events>>

SetPriority(s, p) ==
    /\ Event /\ ServerIdle /\ str[s].exists /\ p # str[s].prio
    /\ str' = [str EXCEPT ![s].prio = p]
    /\ UNCHANGED <<tuned, recording, live, occupied, pc, tunes>>

(* PROV of an old client: its own receiver out of the way while VDR is     *)
(* asked for a device.                                                     *)
Prov(s) ==
    /\ Event /\ ServerIdle /\ str[s].exists /\ str[s].writer # "none"
    /\ str' = [str EXCEPT ![s] = Detach(@)]
    /\ pc' = [pc EXCEPT !["server"] = [at |-> "attach", s |-> s, dev |-> None]]
    /\ UNCHANGED <<tuned, recording, live, occupied, tunes>>
Provided ==
    /\ pc["server"].at = "attach"
    /\ str' = [str EXCEPT ![pc["server"].s] = Attach(@)]
    /\ pc' = [pc EXCEPT !["server"] = Idle]
    /\ UNCHANGED <<tuned, recording, live, occupied, tunes, events>>

(* ABRT stops a streamer and leaves it; a connection that ends deletes it. *)
Stop(s, at) ==
    /\ ServerIdle /\ str[s].exists
    /\ pc' = [pc EXCEPT !["server"] = [at |-> at, s |-> s, dev |-> None]]
    /\ UNCHANGED <<tuned, recording, live, occupied, str, tunes>>
Abort(s) ==
    /\ str[s].thread /\ str[s].writer = "done"
    /\ UNCHANGED events /\ Stop(s, "detach")

(* Slip: the receiver is deleted before the threads have stopped.          *)
ReceiverFirst(at) ==
             CASE at = "abrt" -> "abrt cancel" [] at = "abrt cancel" -> "abrt writer"
               [] at = "abrt writer" -> "idle" [] at = "detach" -> "receiver"
               [] at = "receiver" -> "cancel" [] at = "cancel" -> "unsubscribe"
               [] at = "writer" -> "unsubscribe"

(* The steps of Stop and of the destructor, in their order.                *)
Order(at) == CASE at = "abrt" -> "abrt cancel" [] at = "abrt cancel" -> "abrt writer"
               [] at = "abrt writer" -> "idle" [] at = "detach" -> "cancel"
               [] at = "cancel" -> "writer" [] at = "writer" -> "receiver"
               [] at = "receiver" -> "unsubscribe"

StopStep ==
    LET at == pc["server"].at IN
    /\ at \in {"abrt", "abrt cancel", "abrt writer",
               "detach", "cancel", "writer", "receiver"}
    /\ str' = [str EXCEPT ![pc["server"].s] =
                 CASE at \in {"abrt", "detach"} -> Detach(@)
                   [] at \in {"abrt cancel", "cancel"} -> [@ EXCEPT !.thread = FALSE]
                   [] at \in {"abrt writer", "writer"} -> [@ EXCEPT !.writer = "none"]
                   [] at = "receiver" -> [@ EXCEPT !.recv = "none"]]
    /\ pc' = [pc EXCEPT !["server"] =
                IF Order(at) = "idle" THEN Idle ELSE [@ EXCEPT !.at = Order(at)]]
    /\ UNCHANGED <<tuned, recording, live, occupied, tunes, events>>

(* The hook has the list of subscribers for as long as it runs.            *)
Unsubscribe ==
    /\ pc["server"].at = "unsubscribe" /\ pc["main"] = Idle
    /\ str' = [str EXCEPT ![pc["server"].s].exists = FALSE]
    /\ pc' = [pc EXCEPT !["server"] = Idle]
    /\ UNCHANGED <<tuned, recording, live, occupied, tunes, events>>

-----------------------------------------------------------------------------
(* The main thread                                                         *)

MainThreadHook(s) ==
    LET r == str[s] IN
    /\ pc["main"] = Idle
    /\ r.exists /\ ~r.switchLive /\ r.thread /\ r.dev # None
    /\ tuned[r.dev] # Tp[r.ch] /\ ~IsReceiving(r)
    /\ pc' = [pc EXCEPT !["main"] = [at |-> "get", s |-> s, dev |-> None]]
    /\ UNCHANGED <<tuned, recording, live, occupied, str, tunes, events>>

(* Continued on another device, or stopped.                                *)
Continue ==
    /\ pc["main"].at = "take"
    /\ LET d == pc["main"].dev
       IN str' = [str EXCEPT ![pc["main"].s] =
                    IF d # None THEN StartReceiver([@ EXCEPT !.dev = d])
                    ELSE [Detach(@) EXCEPT !.thread = FALSE, !.writer = "none"]]
    /\ pc' = [pc EXCEPT !["main"] = Idle]
    /\ UNCHANGED <<tuned, recording, live, occupied, tunes, events>>

(* Live TV was switched away: it goes to another device, or to the channel *)
(* of the streamer.                                                        *)
MoveLive(s) ==
    LET r == str[s]
        moved(x) == [x EXCEPT ![s].switchLive = FALSE]
    IN
    /\ pc["main"] = Idle /\ r.exists /\ r.switchLive
    /\ occupied' = occupied \ {r.dev}
    /\ \/ \E d \in Devices \ occupied :
            /\ SwitchTo(live.ch, d)
            /\ str' = moved([x \in Streamers |->
                 IF Freed(d, live.ch) THEN Lose(str[x], d) ELSE str[x]])
            /\ recording' = [recording EXCEPT
                 ![d] = IF Freed(d, live.ch) THEN IDLEPRIORITY ELSE @]
       \/ /\ Provides(live.ch, LIVEPRIORITY) \subseteq occupied
          /\ live' = [dev |-> IF r.dev = None THEN live.dev ELSE r.dev,
                      ch |-> r.ch]
          /\ str' = moved(str) /\ UNCHANGED <<tuned, recording>>
    /\ UNCHANGED <<pc, tunes, events>>

(* The channel itself was changed: retune, with the priority of live TV,   *)
(* unless it is scrambled now and no CAM can help.                         *)
ChannelChange(s) ==
    LET r == str[s] IN
    /\ pc["main"] = Idle /\ r.exists /\ r.thread /\ r.dev # None
    /\ Event
    /\ \/ /\ str' = [str EXCEPT ![s] = Detach(@)]
          /\ UNCHANGED <<tuned, recording>>
       \/ /\ Provides(r.ch, LIVEPRIORITY) = {}
          /\ str' = [str EXCEPT ![s] = [Detach(@) EXCEPT !.dev = None]]
          /\ UNCHANGED <<tuned, recording>>
       \/ \E d \in Provides(r.ch, LIVEPRIORITY), ok \in BOOLEAN :
            LET q == [x \in Streamers |->
                        IF x = s THEN [Detach(r) EXCEPT !.dev = d]
                        ELSE IF Freed(d, r.ch) THEN Lose(str[x], d) ELSE str[x]]
            IN /\ str' = IF ok THEN [q EXCEPT ![s] = Attach(@)] ELSE q
               /\ recording' = [recording EXCEPT
                    ![d] = IF Freed(d, r.ch) THEN IDLEPRIORITY ELSE @]
               /\ tuned' = IF ok THEN [tuned EXCEPT ![d] = Tp[r.ch]] ELSE tuned
    /\ UNCHANGED <<live, occupied, pc, tunes>>

-----------------------------------------------------------------------------
(* A writer that gets nothing from a streamer that does not receive gives  *)
(* up, and so does one whose client is gone.                               *)
WriterDone(s) ==
    /\ str[s].writer = "active"
    /\ str' = [str EXCEPT ![s].writer = "done"]
    /\ UNCHANGED <<tuned, recording, live, occupied, pc, tunes>>
GiveUp(s) == ~IsReceiving(str[s]) /\ WriterDone(s) /\ UNCHANGED events
Gone(s) == Event /\ WriterDone(s)

-----------------------------------------------------------------------------

Vdr == \/ \E d \in Devices, ch \in Channels :
            Zap(ch, d) \/ \E p \in Local : Record(d, ch, p)
       \/ \E d \in Devices : RecordEnds(d) \/ OccupiedEnds(d)
Steps(t) ==
    \/ GetDevice(t) \/ SwitchDevice(t)
    \/ t = "server" /\ (Tuned \/ Provided \/ StopStep \/ Unsubscribe)
    \/ t = "main" /\ Continue
Server == \E s \in Streamers :
         \/ \E p \in Priorities : SetPriority(s, p)
         \/ \E ch \in Channels : Tune(s, ch, First[s])
         \/ Start(s) \/ Prov(s)
         \/ \E at \in {"abrt", "detach"} : Event /\ Stop(s, at)
         \/ Abort(s)
Main == \E s \in Streamers :
         MainThreadHook(s) \/ MoveLive(s) \/ ChannelChange(s)
Next ==
    \/ Vdr \/ Server \/ Main
    \/ \E t \in {"server", "main"} : Steps(t)
    \/ \E s \in Streamers : GiveUp(s) \/ Gone(s)

(* The threads go on; the hook visits every subscriber and the server      *)
(* loop asks every connection Abort() again and again, whatever else they  *)
(* do; a writer counts how often it found nothing. Nobody has to zap,      *)
(* record or tune.                                                         *)
Fairness ==
    /\ SF_vars(Steps("server")) /\ WF_vars(Steps("main"))
    /\ \A s \in Streamers : /\ SF_vars(MainThreadHook(s) \/ MoveLive(s))
                            /\ WF_vars(GiveUp(s)) /\ SF_vars(Abort(s))
Spec == Init /\ [][Next]_vars
FairSpec == Spec /\ Fairness

-----------------------------------------------------------------------------

Streamer ==
    [exists : BOOLEAN, thread : BOOLEAN, writer : {"none", "active", "done"},
     ch : Channels \cup {None}, prio : Priorities \cup {IDLEPRIORITY},
     dev : Devices \cup {None}, recv : Devices \cup {"idle", "none"},
     switchLive : BOOLEAN]
Finding == {"idle", "get", "switch", "take"}
Stopping == {"abrt", "abrt cancel", "abrt writer", "detach", "cancel",
             "writer", "receiver", "unsubscribe"}

TypeOK ==
    /\ tuned \in [Devices -> {Tp[c] : c \in Channels}]
    /\ recording \in [Devices -> Local \cup {IDLEPRIORITY}]
    /\ live \in [dev : Devices, ch : Channels] /\ occupied \subseteq Devices
    /\ str \in [Streamers -> Streamer]
    /\ pc \in [{"server", "main"} ->
                  [at : Finding \cup Stopping \cup {"attach"},
                   s : Streamers \cup {None}, dev : Devices \cup {None}]]
    /\ tunes \in 0..MaxTunes /\ events \in 0..MaxEvents

(* A receiver is attached to the device its streamer says it has, so that  *)
(* Detach and the destructor find it, and never once the streamer is gone: *)
(* the device would go on calling a streamer that was deleted.             *)
AtItsDevice ==
    \A s \in Streamers : str[s].recv \in Devices =>
        str[s].exists /\ str[s].recv = str[s].dev

=============================================================================
