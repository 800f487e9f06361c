-------------------------------- MODULE IGMP --------------------------------
(***************************************************************************)
(* Multicast streaming (server/componentIGMP.c, connectionIGMP.c): hosts   *)
(* report and leave groups, and a group that has a channel is streamed to  *)
(* as long as it is in m_Groups. The server thread handles the messages    *)
(* and owns the connections, the IGMP thread watches the timers and stops  *)
(* streams, and the writer of a stream, whose socket is the connection,    *)
(* closes it when it ends; closing a connection stops its streamer.        *)
(***************************************************************************)
CONSTANTS
    Groups,      \* multicast addresses
    Streamable,  \* those a channel belongs to
    Hosts,
    Conns,       \* connections, each made at most once
    None

ASSUME IGMPAssumption ==
    /\ Streamable \subseteq Groups
    /\ None \notin Groups \cup Hosts \cup Conns

VARIABLES
    groups,     \* m_Groups
    timeout,    \* of a group: "set", or "due" once it is over
    v1,         \* its v1timer is set: a V1 host is there
    reporter,   \* the host whose report was the last
    querier,    \* m_Querier
    life,       \* of a connection: made, in m_Clients, deleted
    grp,        \* its remote address
    isOpen,     \* it has its socket and its remote address
    streamer,   \* Streamer(): none, its thread is "on" or "off"
    wptr,       \* the streamer's m_Writer is not NULL
    writer,     \* the writer thread
    sPc, cur, sTaken, todo,     \* the server thread
    final,      \* it has left its loop
    tPc, tGroup, tConn, tTaken, \* the IGMP thread
    tTodo, forever, signal, tRun,
    lock,       \* of the component: who holds it
    clientsLock,\* of the server thread: who holds it
    running     \* Running() of the server thread

groupVars == <<groups, timeout, v1, reporter, querier>>
streamVars == <<streamer, wptr, writer>>
connVars == <<life, grp, isOpen, streamVars>>
serverVars == <<sPc, cur, sTaken, todo, final>>
sleepVars == <<forever, signal, tRun>>
timerVars == <<tPc, tGroup, tConn, tTaken, tTodo>>
vars == <<groupVars, connVars, serverVars, timerVars, sleepVars, lock,
          clientsLock, running>>

Clients == {c \in Conns : life[c] = "listed"}      \* m_Clients

(* Slip: a connection whose streamer has ended is not looked at.           *)
CarriesRunning(g) ==
    {c \in Clients : isOpen[c] /\ grp[c] = g /\ streamer[c] = "on"}

(* The connections with the remote address of g.                           *)
Carries(g) == {c \in Clients : isOpen[c] /\ grp[c] = g}

Init ==
    /\ groups = {} /\ timeout = [g \in Groups |-> "off"]
    /\ v1 = [g \in Groups |-> FALSE] /\ reporter = [g \in Groups |-> None]
    /\ querier = TRUE
    /\ life = [c \in Conns |-> "none"] /\ grp = [c \in Conns |-> None]
    /\ isOpen = [c \in Conns |-> FALSE]
    /\ streamer = [c \in Conns |-> "none"] /\ wptr = [c \in Conns |-> FALSE]
    /\ writer = [c \in Conns |-> "none"]
    /\ sPc = "poll" /\ cur = None /\ sTaken = FALSE /\ todo = {} /\ final = FALSE
    /\ tPc = "start" /\ tGroup = None /\ tConn = None /\ tTaken = FALSE
    /\ tTodo = {} /\ forever = FALSE /\ signal = FALSE /\ tRun = TRUE
    /\ lock = "free" /\ clientsLock = "free" /\ running = TRUE

-----------------------------------------------------------------------------
(* Messages, each handled with the component locked (ProcessMessage).      *)

(* Slip: a message is handled while the IGMP thread goes through m_Groups. *)
HandleUnlocked == sPc = "poll" /\ running

Handle == sPc = "poll" /\ running /\ lock = "free"

(* A query of a host with a lower address: this one keeps quiet.           *)
Query ==
    /\ Handle
    /\ querier' = FALSE
    /\ sPc' = "visit" /\ todo' = Clients
    /\ UNCHANGED <<groups, timeout, v1, reporter, connVars, cur, sTaken,
                   final, timerVars, sleepVars, lock, clientsLock, running>>

(* IGMPStartMulticast: a new connection for g, unless there is one, or it  *)
(* cannot be made.                                                         *)
StartMulticast(g) ==
    \/ /\ g \in Streamable => clientsLock = "free"
       /\ sPc' = "visit" /\ todo' = Clients
       /\ UNCHANGED <<life, grp, isOpen, cur>>
    \/ /\ g \in Streamable /\ clientsLock = "free" /\ Carries(g) = {}
       /\ \E c \in Conns :
            /\ life[c] = "none"
            /\ life' = [life EXCEPT ![c] = "made"]
            /\ grp' = [grp EXCEPT ![c] = g]
            /\ isOpen' = [isOpen EXCEPT ![c] = TRUE]
            /\ cur' = c
       /\ sPc' = "add" /\ UNCHANGED todo

Report(g, h, isV1) ==
    /\ Handle
    /\ groups' = groups \cup {g}
    /\ StartMulticast(g)
    /\ timeout' = [timeout EXCEPT ![g] = "set"]
    /\ reporter' = [reporter EXCEPT ![g] = h]
    /\ v1' = [v1 EXCEPT ![g] = @ \/ isV1]
    /\ UNCHANGED <<querier, streamVars, sTaken, final, timerVars, sleepVars,
                   lock, clientsLock, running>>

(* Only the host that reported last is heard, and none while a V1 host is  *)
(* there. Its message has no response time: without being the querier, the *)
(* time is over at once.                                                   *)
Leave(g, h) ==
    /\ Handle
    /\ IF g \in groups /\ ~v1[g]
         THEN /\ signal' = TRUE
              /\ IF reporter[g] = h
                   THEN /\ timeout' = [timeout EXCEPT ![g] =
                                         IF querier THEN "set" ELSE "due"]
                        /\ reporter' = [reporter EXCEPT ![g] = None]
                   ELSE UNCHANGED <<timeout, reporter>>
         ELSE UNCHANGED <<signal, timeout, reporter>>
    /\ sPc' = "visit" /\ todo' = Clients
    /\ UNCHANGED <<groups, v1, querier, connVars, cur, sTaken, final, timerVars,
                   forever, tRun, lock, clientsLock, running>>

(* The time of a group is over. It is not, between a report and the end of *)
(* its handling: that takes no minutes.                                    *)
Expire(g) ==
    /\ timeout[g] = "set" /\ ~(sPc = "add" /\ grp[cur] = g)
    /\ timeout' = [timeout EXCEPT ![g] = "due"]
    /\ UNCHANGED <<groups, v1, reporter, querier, connVars, serverVars,
                   timerVars, sleepVars, lock, clientsLock, running>>

-----------------------------------------------------------------------------
(* Closing a connection (cConnectionIGMP::Close): Stop ends the streamer   *)
(* thread and deletes the writer, which is cancelled and waited for, by    *)
(* whoever takes the pointer first; then the socket is closed.             *)

TakeWriter(c) ==
    /\ streamer' = [streamer EXCEPT ![c] = IF @ = "on" THEN "off" ELSE @]
    /\ wptr' = [wptr EXCEPT ![c] = FALSE]

(* Slip: told to end, and not waited for.                                  *)
NotWaited(c, taken) == TRUE

Ended(c, taken) == taken => writer[c] = "ended"
Unset(c) == isOpen' = [isOpen EXCEPT ![c] = FALSE]

-----------------------------------------------------------------------------
(* The server thread.                                                      *)

loopUnchanged ==
    UNCHANGED <<groupVars, timerVars, sleepVars, lock, running, final>>

(* The new client joins m_Clients and is welcomed: it has a streamer, if   *)
(* there is a device for it and there are not too many clients.            *)
AddClient ==
    /\ sPc = "add" /\ clientsLock = "free"
    /\ life' = [life EXCEPT ![cur] = "listed"]
    /\ \/ UNCHANGED streamVars
       \/ /\ streamer' = [streamer EXCEPT ![cur] = "on"]
          /\ wptr' = [wptr EXCEPT ![cur] = TRUE]
          /\ writer' = [writer EXCEPT ![cur] = "run"]
    /\ sPc' = "visit" /\ todo' = Clients \cup {cur} /\ cur' = None
    /\ UNCHANGED <<grp, isOpen, sTaken, clientsLock>> /\ loopUnchanged

(* A select that ends without a message.                                   *)
NoMessage ==
    /\ sPc = "poll" /\ running
    /\ sPc' = "visit" /\ todo' = Clients
    /\ UNCHANGED <<connVars, cur, sTaken, clientsLock>> /\ loopUnchanged

(* Slip: a connection another thread has closed is not looked at.          *)
AbortStream(c) == /\ isOpen[c]
                  /\ \/ streamer[c] = "none"
                     \/ streamer[c] = "on" /\ writer[c] = "ended"

Abort(c) == \/ ~isOpen[c] \/ streamer[c] = "none"
            \/ streamer[c] = "on" /\ writer[c] = "ended"

Visit(c) ==
    /\ sPc = "visit" /\ c \in todo
    /\ todo' = todo \ {c}
    /\ IF Abort(c) THEN cur' = c /\ sPc' = IF isOpen[c] THEN "stop" ELSE "del"
                   ELSE UNCHANGED <<sPc, cur>>
    /\ UNCHANGED <<connVars, sTaken, clientsLock>> /\ loopUnchanged

Visited ==
    /\ sPc = "visit" /\ todo = {}
    /\ sPc' = "poll"
    /\ UNCHANGED <<connVars, cur, sTaken, todo, clientsLock>> /\ loopUnchanged

SStop ==
    /\ sPc = "stop" /\ TakeWriter(cur)
    /\ sTaken' = wptr[cur] /\ sPc' = "join"
    /\ UNCHANGED <<life, grp, isOpen, writer, cur, todo, clientsLock>>
    /\ loopUnchanged

SClose ==
    /\ sPc = "join" /\ Ended(cur, sTaken) /\ Unset(cur)
    /\ sPc' = "del" /\ sTaken' = FALSE
    /\ UNCHANGED <<life, grp, streamVars, cur, todo, clientsLock>>
    /\ loopUnchanged

(* The destructor of the streamer stops it once more.                      *)
SDel ==
    /\ sPc = "del" /\ clientsLock = IF final THEN "S" ELSE "free"
    /\ clientsLock' = "S" /\ TakeWriter(cur)
    /\ sTaken' = wptr[cur] /\ sPc' = "destroy"
    /\ UNCHANGED <<life, grp, isOpen, writer, cur, todo>> /\ loopUnchanged

SDeleted ==
    /\ sPc = "destroy" /\ Ended(cur, sTaken)
    /\ life' = [life EXCEPT ![cur] = "deleted"]
    /\ cur' = None /\ sTaken' = FALSE
    /\ IF final THEN sPc' = "final" /\ UNCHANGED clientsLock
                ELSE sPc' = "visit" /\ clientsLock' = "free"
    /\ UNCHANGED <<grp, isOpen, streamVars, todo>> /\ loopUnchanged

(* The plugin is stopped: all connections are closed, with m_Clients       *)
(* locked, then the IGMP thread is told to end and waited for.             *)
Stop ==
    /\ running /\ running' = FALSE
    /\ UNCHANGED <<groupVars, connVars, serverVars, timerVars, sleepVars, lock,
                   clientsLock>>

Exit ==
    /\ sPc = "poll" /\ ~running /\ clientsLock = "free"
    /\ clientsLock' = "S" /\ final' = TRUE /\ sPc' = "final"
    /\ UNCHANGED <<groupVars, connVars, cur, sTaken, todo, timerVars, sleepVars,
                   lock, running>>

FinalClient ==
    /\ sPc = "final" /\ \E c \in Clients : cur' = c
    /\ sPc' = "stop"
    /\ UNCHANGED <<connVars, sTaken, todo, clientsLock>> /\ loopUnchanged

Destruct ==
    /\ sPc = "final" /\ Clients = {}
    /\ clientsLock' = "free" /\ sPc' = "destruct"
    /\ tRun' = FALSE /\ signal' = TRUE
    /\ UNCHANGED <<groupVars, connVars, cur, sTaken, todo, timerVars, forever,
                   lock, running, final>>

Destructed ==
    /\ sPc = "destruct" /\ tPc = "ended"
    /\ sPc' = "stopped"
    /\ UNCHANGED <<connVars, cur, sTaken, todo, clientsLock>> /\ loopUnchanged

-----------------------------------------------------------------------------
(* The IGMP thread (cComponentIGMP::Action).                               *)

roundUnchanged == UNCHANGED <<connVars, serverVars, tRun, running>>

(* A round begins with the general query, if it is time for it.            *)
Round ==
    /\ tPc = "start" /\ tRun /\ lock = "free"
    /\ lock' = "T" /\ tPc' = "groups" /\ tTodo' = groups
    /\ querier' \in {querier, TRUE}
    /\ UNCHANGED <<groups, timeout, v1, reporter, tGroup, tConn, tTaken,
                   forever, signal, clientsLock>>
    /\ roundUnchanged

(* A group that is kept; its V1 host may have been quiet for too long.     *)
Keep(g) ==
    /\ tPc = "groups" /\ g \in tTodo /\ timeout[g] # "due"
    /\ tTodo' = tTodo \ {g}
    /\ \E b \in {v1[g], FALSE} : v1' = [v1 EXCEPT ![g] = b]
    /\ UNCHANGED <<groups, timeout, reporter, querier, tPc, tGroup, tConn,
                   tTaken, forever, signal, lock, clientsLock>>
    /\ roundUnchanged

(* The time of a group is over: it is stopped.                             *)
Over(g) ==
    /\ tPc = "groups" /\ g \in tTodo /\ timeout[g] = "due"
    /\ tGroup' = g /\ tTodo' = tTodo \ {g} /\ tPc' = "over"
    /\ UNCHANGED <<groupVars, tConn, tTaken, forever, signal, lock, clientsLock>>
    /\ roundUnchanged

(* IGMPStopMulticast: m_Clients is locked while the connections of the     *)
(* group are closed.                                                       *)
StopMulticast ==
    /\ tPc = "over" /\ clientsLock = "free"
    /\ clientsLock' = "T" /\ tPc' = "clients"
    /\ UNCHANGED <<groupVars, tGroup, tConn, tTaken, tTodo, forever, signal, lock>>
    /\ roundUnchanged

stopUnchanged == UNCHANGED <<life, grp, serverVars, groupVars, tGroup, tTodo,
                             sleepVars, lock, clientsLock, running>>

TStop(c) ==
    /\ tPc = "clients" /\ c \in Carries(tGroup) /\ TakeWriter(c)
    /\ tConn' = c /\ tTaken' = wptr[c] /\ tPc' = "join"
    /\ UNCHANGED <<isOpen, writer>> /\ stopUnchanged

TClose ==
    /\ tPc = "join" /\ Ended(tConn, tTaken) /\ Unset(tConn)
    /\ tPc' = "clients" /\ tConn' = None /\ tTaken' = FALSE
    /\ UNCHANGED streamVars /\ stopUnchanged

GroupGone ==
    /\ tPc = "clients" /\ Carries(tGroup) = {}
    /\ groups' = groups \ {tGroup}
    /\ timeout' = [timeout EXCEPT ![tGroup] = "off"]
    /\ v1' = [v1 EXCEPT ![tGroup] = FALSE]
    /\ reporter' = [reporter EXCEPT ![tGroup] = None]
    /\ clientsLock' = "free" /\ tPc' = "groups" /\ tGroup' = None
    /\ UNCHANGED <<querier, tConn, tTaken, tTodo, forever, signal, lock>>
    /\ roundUnchanged

(* It sleeps until the next timer. With less than one millisecond left to  *)
(* it, that is 0, and cCondWait::Wait(0) waits for a signal for ever.      *)
Sleep ==
    /\ tPc = "groups" /\ tTodo = {}
    /\ lock' = "free" /\ tPc' = "wait" /\ forever' \in BOOLEAN
    /\ UNCHANGED <<groupVars, tGroup, tConn, tTaken, tTodo, signal, clientsLock>>
    /\ roundUnchanged

Wake ==
    /\ tPc = "wait" /\ (signal \/ ~forever)
    /\ tPc' = "start" /\ signal' = FALSE /\ forever' = FALSE
    /\ UNCHANGED <<groupVars, tGroup, tConn, tTaken, tTodo, lock, clientsLock>>
    /\ roundUnchanged

TEnd ==
    /\ tPc = "start" /\ ~tRun
    /\ tPc' = "ended"
    /\ UNCHANGED <<groupVars, tGroup, tConn, tTaken, tTodo, forever, signal, lock,
                   clientsLock>>
    /\ roundUnchanged

-----------------------------------------------------------------------------
(* The writer. Its socket is the connection: closing it, it calls Stop of  *)
(* its own streamer, and unless somebody else deletes it, it deletes       *)
(* itself: waits three seconds for its own end and cancels itself. At the  *)
(* next cancellation point, before or after the close, it is gone.         *)

writerUnchanged == UNCHANGED <<groupVars, life, grp, serverVars, timerVars,
                               sleepVars, lock, clientsLock, running>>

Cancelled(c) == \/ sPc \in {"join", "destroy"} /\ cur = c /\ sTaken
                \/ tPc = "join" /\ tConn = c /\ tTaken

WLeaves(c) ==
    /\ writer[c] = "run"
    /\ writer' = [writer EXCEPT ![c] = "stop"]
    /\ UNCHANGED <<isOpen, streamer, wptr>> /\ writerUnchanged

WCancelled(c) == Cancelled(c) /\ WLeaves(c)

WGivesUp(c) == ~Cancelled(c) /\ WLeaves(c)

WStop(c) ==
    /\ writer[c] = "stop" /\ TakeWriter(c)
    /\ writer' = [writer EXCEPT ![c] = IF wptr[c] THEN "self" ELSE "close"]
    /\ UNCHANGED isOpen /\ writerUnchanged

WSelf(c) ==
    /\ writer[c] = "self"
    /\ \E s \in {"closeself", "ended"} : writer' = [writer EXCEPT ![c] = s]
    /\ UNCHANGED <<isOpen, streamer, wptr>> /\ writerUnchanged

WClose(c) ==
    /\ writer[c] \in {"close", "closeself"} /\ Unset(c)
    /\ writer' = [writer EXCEPT ![c] = "ended"]
    /\ UNCHANGED <<streamer, wptr>> /\ writerUnchanged

-----------------------------------------------------------------------------

ServerStep ==
    \/ AddClient \/ NoMessage \/ Visited
    \/ \E c \in Conns : Visit(c)
    \/ SStop \/ SClose \/ SDel \/ SDeleted
    \/ Exit \/ FinalClient \/ Destruct \/ Destructed

TimerStep ==
    \/ Round \/ Sleep \/ Wake \/ TEnd
    \/ \E g \in Groups : Keep(g) \/ Over(g)
    \/ \E c \in Conns : TStop(c)
    \/ StopMulticast \/ TClose \/ GroupGone

WriterStep(c) == WCancelled(c) \/ WStop(c) \/ WSelf(c) \/ WClose(c)

Stopped == sPc = "stopped" /\ UNCHANGED vars

Next ==
    \/ Query \/ \E g \in Groups, h \in Hosts :
                  Leave(g, h) \/ \E isV1 \in BOOLEAN : Report(g, h, isV1)
    \/ \E g \in Groups : Expire(g)
    \/ ServerStep \/ TimerStep \/ Stop \/ Stopped
    \/ \E c \in Conns : WriterStep(c) \/ WGivesUp(c)

Spec == Init /\ [][Next]_vars

(* Threads that can run do; hosts need not report or leave.                *)
Fairness == /\ WF_vars(ServerStep) /\ WF_vars(TimerStep)
            /\ \A c \in Conns : WF_vars(WriterStep(c))

FairSpec == Spec /\ Fairness

-----------------------------------------------------------------------------

GroupsTyped ==
    /\ groups \subseteq Groups
    /\ timeout \in [Groups -> {"off", "set", "due"}]
    /\ \A g \in Groups : g \in groups <=> timeout[g] # "off"
    /\ v1 \in [Groups -> BOOLEAN] /\ reporter \in [Groups -> Hosts \cup {None}]
    /\ querier \in BOOLEAN

ConnsTyped ==
    /\ life \in [Conns -> {"none", "made", "listed", "deleted"}]
    /\ grp \in [Conns -> Streamable \cup {None}]
    /\ isOpen \in [Conns -> BOOLEAN]

StreamsTyped ==
    /\ streamer \in [Conns -> {"none", "on", "off"}]
    /\ wptr \in [Conns -> BOOLEAN]
    /\ writer \in [Conns -> {"none", "run", "stop", "self", "close",
                             "closeself", "ended"}]

ServerTyped ==
    /\ sPc \in {"poll", "add", "visit", "stop", "join", "del", "destroy",
                "final", "destruct", "stopped"}
    /\ cur \in Conns \cup {None} /\ sTaken \in BOOLEAN
    /\ todo \subseteq Conns /\ final \in BOOLEAN

TimerTyped ==
    /\ tPc \in {"start", "groups", "over", "clients", "join", "wait", "ended"}
    /\ tGroup \in Groups \cup {None} /\ tConn \in Conns \cup {None}
    /\ tTaken \in BOOLEAN /\ tTodo \subseteq Groups
    /\ forever \in BOOLEAN /\ signal \in BOOLEAN /\ tRun \in BOOLEAN

(* The types, and that the groups in m_Groups are those with a time.       *)
TypeOK ==
    /\ GroupsTyped /\ ConnsTyped /\ StreamsTyped /\ ServerTyped /\ TimerTyped
    /\ lock \in {"free", "T"} /\ clientsLock \in {"free", "S", "T"}
    /\ running \in BOOLEAN

(* A group is streamed to by one connection at a time, whatever the timer, *)
(* reports and the end of a stream do to each other.                       *)
OneStream == \A c, d \in Conns :
    isOpen[c] /\ isOpen[d] /\ grp[c] = grp[d] => c = d

(* No stream goes on without its group: what would stop it then? The list  *)
(* of groups and that of connections have different locks.                 *)
StreamHasGroup == \A c \in Conns : isOpen[c] => grp[c] \in groups

(* A connection that is deleted has no writer, but for one that ended by   *)
(* itself and is about to cancel itself.                                   *)
DeletedQuiet == \A c \in Conns :
    life[c] = "deleted" => /\ writer[c] \in {"none", "self", "closeself", "ended"}
                           /\ tConn # c /\ cur # c

(* A group whose time is over is stopped or reported again, unless the     *)
(* IGMP thread sleeps for ever.                                            *)
DueStopped == \A g \in Groups :
    timeout[g] = "due" ~> timeout[g] # "due" \/ forever \/ ~running

(* A connection that is closed, by whichever thread, is removed.           *)
ClosedRemoved == \A c \in Conns :
    life[c] = "listed" /\ ~isOpen[c] ~> life[c] = "deleted"

(* Stopping the plugin ends the IGMP thread and all connections, although  *)
(* each of the threads may be waiting for another one.                     *)
StopEnds ==
    ~running ~> sPc = "stopped" /\ \A c \in Conns : ~isOpen[c]

(* Streams end when they are to: with the time of their group, with their  *)
(* connection, and with the plugin.                                        *)
StreamsEnd == DueStopped /\ ClosedRemoved /\ StopEnds
=============================================================================
