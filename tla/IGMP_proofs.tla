----------------------------- MODULE IGMP_proofs -----------------------------
(***************************************************************************)
(* Proofs about IGMP: its types, that a group has one stream at most and   *)
(* no stream is without its group, and that no thread comes across a       *)
(* deleted connection but the writer that deletes itself.                  *)
(***************************************************************************)
EXTENDS IGMP, TLAPS

(* The server's position tells which connection it is at.                  *)
AtClient == {"stop", "join", "del", "destroy"}
AtNone == {"poll", "visit", "final", "destruct", "stopped"}

Position ==
    /\ sPc \in AtNone => cur = None
    /\ sPc = "add" => cur \in Conns /\ life[cur] = "made"
    /\ sPc \in AtClient => cur \in Clients
    /\ sPc \in {"del", "destroy"} => ~isOpen[cur]
    /\ todo \subseteq Clients \ {cur}
    /\ final \/ sPc \notin AtClient \cup {"visit"} => todo = {}
    /\ sPc \in {"poll", "add", "visit"} => ~final
    /\ \A c \in Conns : life[c] = "made" => sPc = "add" /\ cur = c
    /\ \A c \in Conns : isOpen[c] => life[c] \in {"made", "listed"}

(* Who holds which lock, and the group a round is at.                      *)
Locking ==
    /\ sPc \in {"destroy", "final"} \/ (final /\ sPc \in AtClient)
         => clientsLock = "S"
    /\ tPc \in {"groups", "over", "clients", "join"} => lock = "T"
    /\ tPc \in {"clients", "join"} => clientsLock = "T"
    /\ tPc \in {"over", "clients", "join"}
         => tGroup \in Groups /\ timeout[tGroup] = "due"
    /\ IF tPc = "join" THEN tConn \in Clients ELSE tConn = None
    /\ sPc = "add" => timeout[grp[cur]] = "set"

(* A stream whose writer is not the streamer's any more ended, or is being *)
(* waited for, or deletes itself.                                          *)
Writers == \A c \in Conns :
    /\ writer[c] # "none" => life[c] \in {"listed", "deleted"}
    /\ wptr[c] => writer[c] \in {"run", "stop"}
    /\ ~wptr[c] /\ writer[c] \in {"run", "stop", "close"} => Cancelled(c)
    /\ sPc = "destroy" /\ cur = c => ~wptr[c]
    /\ life[c] = "deleted" =>
         ~wptr[c] /\ writer[c] \in {"none", "self", "closeself", "ended"}

IGMPInv == TypeOK /\ Position /\ Locking /\ Writers /\ StreamHasGroup /\ OneStream

-----------------------------------------------------------------------------

(* What a report does to the connections.                                  *)
LEMMA Started ==
    ASSUME TypeOK, Position, NEW g \in Groups, StartMulticast(g), sPc = "poll"
    PROVE  \/ /\ sPc' = "visit" /\ todo' = Clients
              /\ UNCHANGED <<life, grp, isOpen, cur>>
           \/ /\ sPc' = "add" /\ UNCHANGED todo
              /\ g \in Streamable /\ cur' \in Conns /\ life[cur'] = "none"
              /\ life' = [life EXCEPT ![cur'] = "made"]
              /\ grp' = [grp EXCEPT ![cur'] = g]
              /\ isOpen' = [isOpen EXCEPT ![cur'] = TRUE]
              /\ \A d \in Conns : ~(isOpen[d] /\ grp[d] = g)
<1>1. \A d \in Conns : isOpen[d] => life[d] = "listed"
  BY DEF Position
<1> QED
  BY <1>1 DEF StartMulticast, Carries, Clients

(* Every step keeps the types.                                             *)
LEMMA GroupsKept ==
    ASSUME TypeOK, Locking, [Next]_vars
    PROVE  GroupsTyped'
<1> USE DEF GroupsTyped
<1>1. ASSUME NEW g \in Groups, NEW h \in Hosts, NEW isV1 \in BOOLEAN,
             Report(g, h, isV1)
      PROVE  GroupsTyped'
  BY <1>1 DEF Report, TypeOK
<1>2. ASSUME NEW g \in Groups, NEW h \in Hosts, Leave(g, h)
      PROVE  GroupsTyped'
  BY <1>2 DEF Leave, TypeOK
<1>3. ASSUME NEW g \in Groups, Expire(g) \/ Keep(g)
      PROVE  GroupsTyped'
  BY ZenonT(40), <1>3 DEF Expire, Keep, TypeOK
<1>4. CASE GroupGone
  BY <1>4 DEF GroupGone, Locking, TypeOK
<1>5. CASE Query \/ Round
  BY <1>5 DEF Query, Round, TypeOK
<1>6. CASE UNCHANGED groupVars
  BY <1>6 DEF groupVars, TypeOK
<1>7. CASE ServerStep \/ Stop \/ Stopped \/ UNCHANGED vars
  <2>1. UNCHANGED groupVars
    BY <1>7 DEF ServerStep, AddClient, NoMessage, Visited, Visit, SStop, SClose,
                SDel, SDeleted, Exit, FinalClient, Destruct, Destructed, Stop,
                Stopped, vars, loopUnchanged
  <2> QED
    BY <1>6, <2>1
<1>8. ASSUME NEW c \in Conns, WriterStep(c) \/ WGivesUp(c) \/ TStop(c)
      PROVE  GroupsTyped'
  <2>1. UNCHANGED groupVars
    BY <1>8 DEF WriterStep, WCancelled, WGivesUp, WLeaves, WStop, WSelf, WClose,
                writerUnchanged, TStop, stopUnchanged
  <2> QED
    BY <1>6, <2>1
<1>9. CASE Sleep \/ Wake \/ TEnd \/ StopMulticast \/ TClose
           \/ \E g \in Groups : Over(g)
  <2>1. UNCHANGED groupVars
    BY <1>9 DEF Sleep, Wake, TEnd, StopMulticast, TClose, Over, stopUnchanged
  <2> QED
    BY <1>6, <2>1
<1> QED
  BY <1>1, <1>2, <1>3, <1>4, <1>5, <1>7, <1>8, <1>9 DEF Next, TimerStep

LEMMA ConnsKept ==
    ASSUME TypeOK, Position, [Next]_vars
    PROVE  ConnsTyped' /\ StreamsTyped'
<1>0. ConnsTyped /\ StreamsTyped
  BY DEF TypeOK
<1> USE <1>0, IGMPAssumption DEF ConnsTyped, StreamsTyped
<1>1. ASSUME NEW g \in Groups, NEW h \in Hosts, NEW isV1 \in BOOLEAN,
             Report(g, h, isV1)
      PROVE  ConnsTyped' /\ StreamsTyped'
  <2>1. StartMulticast(g) /\ sPc = "poll"
    BY <1>1 DEF Report, Handle
  <2>2. ConnsTyped'
    <3>1. CASE UNCHANGED <<life, grp, isOpen>>
      BY <3>1
    <3>2. CASE /\ g \in Streamable /\ cur' \in Conns
               /\ life' = [life EXCEPT ![cur'] = "made"]
               /\ grp' = [grp EXCEPT ![cur'] = g]
               /\ isOpen' = [isOpen EXCEPT ![cur'] = TRUE]
      BY <3>2
    <3> QED
      BY <2>1, <3>1, <3>2, Started
  <2> QED
    BY <1>1, <2>2 DEF Report, streamVars
<1>2. CASE AddClient
  <2>1. ConnsTyped'
    BY <1>2 DEF AddClient
  <2>2. StreamsTyped'
    <3>1. CASE UNCHANGED streamVars
      BY <3>1 DEF streamVars
    <3>2. CASE /\ streamer' = [streamer EXCEPT ![cur] = "on"]
               /\ wptr' = [wptr EXCEPT ![cur] = TRUE]
               /\ writer' = [writer EXCEPT ![cur] = "run"]
      BY <3>2
    <3> QED
      BY <1>2, <3>1, <3>2 DEF AddClient
  <2> QED
    BY <2>1, <2>2
<1>3. CASE SStop \/ SClose \/ SDel \/ SDeleted
  <2>1. CASE SStop \/ SDel
    <3>1. TakeWriter(cur) /\ UNCHANGED <<life, grp, isOpen, writer>>
      BY <2>1 DEF SStop, SDel
    <3> QED
      BY <3>1 DEF TakeWriter
  <2>2. CASE SClose
    BY <2>2 DEF SClose, Unset, streamVars
  <2>3. CASE SDeleted
    BY <2>3 DEF SDeleted, streamVars
  <2> QED
    BY <1>3, <2>1, <2>2, <2>3
<1>4. CASE TClose \/ \E c \in Conns : TStop(c)
  BY ZenonT(40),
     <1>4 DEF TStop, TClose, TakeWriter, Unset, stopUnchanged, streamVars
<1>5. ASSUME NEW c \in Conns, WriterStep(c) \/ WGivesUp(c)
      PROVE  ConnsTyped' /\ StreamsTyped'
  BY ZenonT(60),
     <1>5 DEF WriterStep, WCancelled, WGivesUp, WLeaves, WStop, WSelf, WClose,
              TakeWriter, Unset, writerUnchanged
<1>6. CASE UNCHANGED connVars
  BY <1>6 DEF connVars, streamVars
<1>7. CASE \/ Query \/ NoMessage \/ Visited \/ Exit \/ FinalClient \/ Destruct
           \/ Destructed \/ Stop \/ Stopped \/ Round \/ Sleep \/ Wake \/ TEnd
           \/ StopMulticast \/ GroupGone \/ UNCHANGED vars
           \/ \E c \in Conns : Visit(c)
  <2>1. UNCHANGED connVars
    BY <1>7 DEF Query, NoMessage, Visited, Exit, FinalClient, Destruct, Destructed,
                Stop, Stopped, Round, Sleep, Wake, TEnd, StopMulticast, GroupGone,
                Visit, vars, roundUnchanged
  <2> QED
    BY <1>6, <2>1
<1>8. ASSUME NEW g \in Groups, NEW h \in Hosts, Leave(g, h)
      PROVE  ConnsTyped' /\ StreamsTyped'
  BY <1>6, <1>8 DEF Leave
<1>9. ASSUME NEW g \in Groups, Expire(g) \/ Keep(g) \/ Over(g)
      PROVE  ConnsTyped' /\ StreamsTyped'
  <2>1. UNCHANGED connVars
    BY <1>9 DEF Expire, Keep, Over, roundUnchanged
  <2> QED
    BY <1>6, <2>1
<1> QED
  BY <1>1, <1>2, <1>3, <1>4, <1>5, <1>7, <1>8, <1>9
  DEF Next, ServerStep, TimerStep

LEMMA ServerKept ==
    ASSUME TypeOK, Position, [Next]_vars
    PROVE  ServerTyped'
<1> USE IGMPAssumption DEF ServerTyped, TypeOK
<1>0. Clients \subseteq Conns
  BY DEF Clients
<1>1. ASSUME NEW g \in Groups, NEW h \in Hosts, NEW isV1 \in BOOLEAN,
             Report(g, h, isV1)
      PROVE  ServerTyped'
  BY <1>0, <1>1, Started DEF Report, Handle
<1>2. ASSUME NEW g \in Groups, NEW h \in Hosts, Leave(g, h)
      PROVE  ServerTyped'
  BY <1>0, <1>2 DEF Leave
<1>3. CASE Query \/ NoMessage \/ Visited \/ \E c \in Conns : Visit(c)
  BY <1>0, <1>3 DEF Query, NoMessage, Visited, Visit, loopUnchanged
<1>4. CASE AddClient
  <2>1. cur \in Conns
    BY <1>4 DEF AddClient, Position
  <2> QED
    BY <1>0, <1>4, <2>1 DEF AddClient, loopUnchanged
<1>5. CASE SStop \/ SClose \/ SDel \/ SDeleted
  <2>1. cur \in Conns /\ wptr[cur] \in BOOLEAN
    BY <1>0, <1>5 DEF SStop, SClose, SDel, SDeleted, Position, AtClient, StreamsTyped
  <2> QED
    BY <1>5, <2>1 DEF SStop, SClose, SDel, SDeleted, loopUnchanged
<1>6. CASE Exit \/ FinalClient \/ Destruct \/ Destructed
  BY <1>0, <1>6 DEF Exit, FinalClient, Destruct, Destructed, loopUnchanged
<1>7. CASE UNCHANGED serverVars
  BY <1>7 DEF serverVars
<1>8. CASE TimerStep \/ Stop \/ Stopped \/ UNCHANGED vars
  <2>1. UNCHANGED serverVars
    BY <1>8 DEF TimerStep, Round, Sleep, Wake, TEnd, Keep, Over, StopMulticast,
                TStop, TClose, GroupGone, roundUnchanged, stopUnchanged, Stop,
                Stopped, vars
  <2> QED
    BY <1>7, <2>1
<1>9. ASSUME NEW c \in Conns, WriterStep(c) \/ WGivesUp(c)
      PROVE  ServerTyped'
  <2>1. UNCHANGED serverVars
    BY <1>9 DEF WriterStep, WCancelled, WGivesUp, WLeaves, WStop, WSelf, WClose,
                writerUnchanged
  <2> QED
    BY <1>7, <2>1
<1>10. ASSUME NEW g \in Groups, Expire(g)
       PROVE  ServerTyped'
  BY <1>7, <1>10 DEF Expire
<1> QED
  BY <1>1, <1>2, <1>3, <1>4, <1>5, <1>6, <1>8, <1>9, <1>10 DEF Next, ServerStep

LEMMA TimerKept ==
    ASSUME TypeOK, [Next]_vars
    PROVE  TimerTyped'
<1> USE IGMPAssumption DEF TimerTyped, TypeOK
<1>1. CASE Round
  BY <1>1 DEF Round, GroupsTyped, roundUnchanged
<1>2. CASE Sleep \/ Wake \/ TEnd \/ StopMulticast \/ GroupGone
  BY ZenonT(40),
     <1>2 DEF Sleep, Wake, TEnd, StopMulticast, GroupGone, roundUnchanged
<1>3. ASSUME NEW g \in Groups, Keep(g) \/ Over(g)
      PROVE  TimerTyped'
  BY <1>3 DEF Keep, Over, roundUnchanged
<1>4. CASE TClose \/ \E c \in Conns : TStop(c)
  BY ZenonT(40),
     <1>4 DEF TStop, TClose, stopUnchanged, sleepVars, StreamsTyped, Carries,
              Clients
<1>5. CASE UNCHANGED <<timerVars, sleepVars>>
  BY <1>5 DEF timerVars, sleepVars
<1>6. CASE Destruct
  BY <1>6 DEF Destruct, timerVars
<1>7. ASSUME NEW g \in Groups, NEW h \in Hosts, Leave(g, h)
      PROVE  TimerTyped'
  BY ZenonT(40), <1>7 DEF Leave, timerVars
<1>8. ASSUME NEW g \in Groups, NEW h \in Hosts, NEW isV1 \in BOOLEAN,
             Report(g, h, isV1)
      PROVE  TimerTyped'
  BY <1>5, <1>8 DEF Report
<1>9. CASE \/ AddClient \/ NoMessage \/ Visited \/ SStop \/ SClose \/ SDel
           \/ SDeleted \/ Exit \/ FinalClient \/ Destructed \/ Query \/ Stop
           \/ Stopped \/ UNCHANGED vars \/ \E c \in Conns : Visit(c)
  <2>1. UNCHANGED <<timerVars, sleepVars>>
    BY <1>9 DEF AddClient, NoMessage, Visited, Visit, SStop, SClose, SDel,
                SDeleted, Exit, FinalClient, Destructed, Query, Stop, Stopped, vars,
                loopUnchanged
  <2> QED
    BY <1>5, <2>1
<1>10. ASSUME NEW c \in Conns, WriterStep(c) \/ WGivesUp(c)
       PROVE  TimerTyped'
  <2>1. UNCHANGED <<timerVars, sleepVars>>
    BY <1>10 DEF WriterStep, WCancelled, WGivesUp, WLeaves, WStop, WSelf, WClose,
                 writerUnchanged
  <2> QED
    BY <1>5, <2>1
<1>11. ASSUME NEW g \in Groups, Expire(g)
       PROVE  TimerTyped'
  BY <1>5, <1>11 DEF Expire
<1> QED
  BY <1>1, <1>2, <1>3, <1>4, <1>6, <1>7, <1>8, <1>9, <1>10, <1>11
  DEF Next, ServerStep, TimerStep

LEMMA TypedKept ==
    ASSUME TypeOK, Position, Locking, [Next]_vars
    PROVE  TypeOK'
<1> USE DEF TypeOK
<1>1. GroupsTyped' /\ ConnsTyped' /\ StreamsTyped' /\ ServerTyped' /\ TimerTyped'
  BY GroupsKept, ConnsKept, ServerKept, TimerKept
<1>2. running' \in BOOLEAN
  <2>1. running' \in {running, FALSE}
    BY ZenonT(40)
       DEF Next, ServerStep, TimerStep, WriterStep, Query, Leave, Report, Expire,
           AddClient, NoMessage, Visited, Visit, SStop, SClose, SDel, SDeleted,
           Exit, FinalClient, Destruct, Destructed, Stop, Stopped, vars, Round,
           Sleep, Wake, TEnd, Keep, Over, StopMulticast, TStop, TClose, GroupGone,
           WCancelled, WGivesUp, WLeaves, WStop, WSelf, WClose, loopUnchanged,
           roundUnchanged, stopUnchanged, writerUnchanged
  <2> QED
    BY <2>1
<1>3. lock' \in {"free", "T"}
  <2>1. lock' \in {lock, "free", "T"}
    BY ZenonT(40)
       DEF Next, ServerStep, TimerStep, WriterStep, Query, Leave, Report, Expire,
           AddClient, NoMessage, Visited, Visit, SStop, SClose, SDel, SDeleted,
           Exit, FinalClient, Destruct, Destructed, Stop, Stopped, vars, Round,
           Sleep, Wake, TEnd, Keep, Over, StopMulticast, TStop, TClose, GroupGone,
           WCancelled, WGivesUp, WLeaves, WStop, WSelf, WClose, loopUnchanged,
           stopUnchanged, writerUnchanged
  <2> QED
    BY <2>1
<1>4. clientsLock' \in {"free", "S", "T"}
  <2>1. clientsLock' \in {clientsLock, "free", "S", "T"}
    BY ZenonT(40)
       DEF Next, ServerStep, TimerStep, WriterStep, Query, Leave, Report, Expire,
           AddClient, NoMessage, Visited, Visit, SStop, SClose, SDel, SDeleted,
           Exit, FinalClient, Destruct, Destructed, Stop, Stopped, vars, Round,
           Sleep, Wake, TEnd, Keep, Over, StopMulticast, TStop, TClose, GroupGone,
           WCancelled, WGivesUp, WLeaves, WStop, WSelf, WClose, stopUnchanged,
           writerUnchanged
  <2> QED
    BY <2>1
<1> QED
  BY <1>1, <1>2, <1>3, <1>4

-----------------------------------------------------------------------------

(* A connection that is open was made for a group and not deleted yet.     *)
LEMMA PositionKept ==
    ASSUME TypeOK, Position, Locking, [Next]_vars
    PROVE  Position'
<1>0. ConnsTyped /\ ServerTyped /\ None \notin Conns
  BY IGMPAssumption DEF TypeOK
<1> USE <1>0 DEF Position, AtNone, AtClient, Clients, ConnsTyped, ServerTyped
<1>1. ASSUME NEW g \in Groups, NEW h \in Hosts, NEW isV1 \in BOOLEAN,
             Report(g, h, isV1)
      PROVE  Position'
  <2>1. StartMulticast(g) /\ sPc = "poll" /\ final' = final
    BY <1>1 DEF Report, Handle
  <2>2. CASE UNCHANGED <<life, grp, isOpen, cur>> /\ sPc' = "visit" /\ todo' = Clients
    BY <2>1, <2>2
  <2>3. CASE /\ sPc' = "add" /\ UNCHANGED todo
             /\ cur' \in Conns /\ life[cur'] = "none"
             /\ life' = [life EXCEPT ![cur'] = "made"]
             /\ isOpen' = [isOpen EXCEPT ![cur'] = TRUE]
    BY <2>1, <2>3
  <2> QED
    BY <2>1, <2>2, <2>3, Started
<1>2. CASE AddClient
  BY <1>2 DEF AddClient, loopUnchanged
<1>3. CASE NoMessage \/ Visited \/ \E c \in Conns : Visit(c)
  BY <1>3 DEF NoMessage, Visited, Visit, Abort, connVars, loopUnchanged
<1>4. CASE Query \/ \E g \in Groups, h \in Hosts : Leave(g, h)
  BY <1>4 DEF Query, Leave, Handle, connVars
<1>5. CASE SStop \/ SClose \/ SDel
  BY <1>5 DEF SStop, SClose, SDel, Unset, loopUnchanged
<1>6. CASE SDeleted
  BY <1>6 DEF SDeleted, loopUnchanged
<1>7. CASE Exit \/ FinalClient \/ Destruct \/ Destructed
  BY <1>7 DEF Exit, FinalClient, Destruct, Destructed, connVars, loopUnchanged
<1>8. CASE /\ UNCHANGED <<serverVars, life>>
           /\ \A c \in Conns : isOpen'[c] => isOpen[c]
  BY <1>8 DEF serverVars
<1>9. CASE TimerStep \/ Stop \/ Stopped \/ UNCHANGED vars
  <2>1. UNCHANGED <<serverVars, life>> /\ \A c \in Conns : isOpen'[c] => isOpen[c]
    BY <1>9 DEF TimerStep, Round, Sleep, Wake, TEnd, Keep, Over, StopMulticast,
                TStop, TClose, Unset, GroupGone, roundUnchanged, stopUnchanged,
                Stop, Stopped, vars, connVars
  <2> QED
    BY <1>8, <2>1
<1>10. ASSUME NEW c \in Conns, WriterStep(c) \/ WGivesUp(c)
       PROVE  Position'
  <2>1. UNCHANGED <<serverVars, life>> /\ \A d \in Conns : isOpen'[d] => isOpen[d]
    BY <1>10 DEF WriterStep, WCancelled, WGivesUp, WLeaves, WStop, WSelf, WClose,
                 Unset, writerUnchanged
  <2> QED
    BY <1>8, <2>1
<1>11. ASSUME NEW g \in Groups, Expire(g)
       PROVE  Position'
  BY <1>8, <1>11 DEF Expire, connVars
<1> QED
  BY <1>1, <1>2, <1>3, <1>4, <1>5, <1>6, <1>7, <1>9, <1>10, <1>11
  DEF Next, ServerStep

(* The locks, and the group and the connection the IGMP thread is at.      *)
LEMMA LockingKept ==
    ASSUME TypeOK, Position, Locking, [Next]_vars
    PROVE  Locking'
<1>0. /\ GroupsTyped /\ ConnsTyped /\ None \notin Conns \cup Groups
      /\ Streamable \subseteq Groups
  BY IGMPAssumption DEF TypeOK
<1>p. Position
  OBVIOUS
<1> USE <1>0 DEF Locking, AtClient, Clients, GroupsTyped, ConnsTyped
<1>1. ASSUME NEW g \in Groups, NEW h \in Hosts, NEW isV1 \in BOOLEAN,
             Report(g, h, isV1)
      PROVE  Locking'
  <2>1. StartMulticast(g) /\ sPc = "poll" /\ lock = "free"
    BY <1>1 DEF Report, Handle
  <2>2. /\ tPc \notin {"groups", "over", "clients", "join"} /\ tConn = None
        /\ UNCHANGED <<timerVars, lock, final>>
        /\ timeout' = [timeout EXCEPT ![g] = "set"]
    BY <1>1, <2>1 DEF Report
  <2>3. /\ sPc' \in {"visit", "add"}
        /\ sPc' = "add" => cur' \in Conns /\ grp' = [grp EXCEPT ![cur'] = g]
    BY <2>1, Started
  <2> QED
    BY <2>2, <2>3 DEF timerVars
<1>2. ASSUME NEW g \in Groups, NEW h \in Hosts, Leave(g, h)
      PROVE  Locking'
  BY <1>2 DEF Leave, Handle, connVars, timerVars
<1>3. ASSUME NEW g \in Groups, Expire(g)
      PROVE  Locking'
  BY <1>3 DEF Expire, connVars, serverVars, timerVars
<1>4. CASE AddClient \/ SDeleted
  BY <1>4, <1>p DEF AddClient, SDeleted, loopUnchanged, groupVars, timerVars,
                    Position
<1>5. CASE NoMessage \/ Visited \/ Query \/ \E c \in Conns : Visit(c)
  BY <1>5, <1>p DEF NoMessage, Visited, Visit, Query, Handle, connVars,
                    loopUnchanged, groupVars, timerVars, Position
<1>6. CASE SStop \/ SClose \/ SDel
  BY <1>6, <1>p DEF SStop, SClose, SDel, loopUnchanged, groupVars, timerVars,
                    Position
<1>7. CASE Exit \/ FinalClient \/ Destruct \/ Destructed
  BY <1>7 DEF Exit, FinalClient, Destruct, Destructed, connVars, loopUnchanged,
              groupVars, timerVars
<1>8. CASE Stop \/ Stopped \/ UNCHANGED vars
  BY <1>8 DEF Stop, Stopped, vars, groupVars, connVars, serverVars, timerVars
<1>9. CASE Round \/ Sleep \/ Wake \/ TEnd \/ StopMulticast
  <2>1. UNCHANGED <<timeout, life, grp, sPc, cur, final>>
    BY <1>9 DEF Round, Sleep, Wake, TEnd, StopMulticast, roundUnchanged, groupVars,
                connVars, serverVars
  <2>2. CASE Round \/ Sleep \/ Wake \/ TEnd
    BY <2>1, <2>2 DEF Round, Sleep, Wake, TEnd
  <2>3. CASE StopMulticast
    BY <2>1, <2>3 DEF StopMulticast
  <2> QED
    BY <1>9, <2>2, <2>3
<1>10. ASSUME NEW g \in Groups, Keep(g) \/ Over(g)
       PROVE  Locking'
  BY <1>10 DEF Keep, Over, roundUnchanged, groupVars, connVars, serverVars
<1>11. CASE TClose \/ \E c \in Conns : TStop(c)
  BY <1>11 DEF TClose, TStop, Carries, stopUnchanged, groupVars, serverVars
<1>12. CASE GroupGone
  <2>1. sPc = "add" => grp[cur] # tGroup
    BY <1>12 DEF GroupGone
  <2> QED
    BY <1>12, <2>1, <1>p DEF GroupGone, roundUnchanged, connVars, serverVars,
                             Position
<1>13. ASSUME NEW c \in Conns, WriterStep(c) \/ WGivesUp(c)
       PROVE  Locking'
  <2>1. UNCHANGED <<groupVars, life, grp, serverVars, timerVars, lock, clientsLock>>
    BY <1>13 DEF WriterStep, WCancelled, WGivesUp, WLeaves, WStop, WSelf, WClose,
                 writerUnchanged
  <2> QED
    BY <2>1 DEF groupVars, serverVars, timerVars
<1> QED
  BY <1>1, <1>2, <1>3, <1>4, <1>5, <1>6, <1>7, <1>8, <1>9, <1>10, <1>11, <1>12,
     <1>13 DEF Next, ServerStep, TimerStep

(* An open connection has its group, which no other open one has.          *)
LEMMA GroupedKept ==
    ASSUME TypeOK, Position, Locking, StreamHasGroup, OneStream, [Next]_vars
    PROVE  StreamHasGroup' /\ OneStream'
<1>0. GroupsTyped /\ ConnsTyped
  BY DEF TypeOK
<1> USE <1>0 DEF StreamHasGroup, OneStream, GroupsTyped, ConnsTyped
<1>1. ASSUME NEW g \in Groups, NEW h \in Hosts, NEW isV1 \in BOOLEAN,
             Report(g, h, isV1)
      PROVE  StreamHasGroup' /\ OneStream'
  <2>1. StartMulticast(g) /\ sPc = "poll" /\ groups' = groups \cup {g}
    BY <1>1 DEF Report, Handle
  <2>2. CASE UNCHANGED <<grp, isOpen>>
    BY <2>1, <2>2
  <2>3. CASE /\ cur' \in Conns
             /\ grp' = [grp EXCEPT ![cur'] = g]
             /\ isOpen' = [isOpen EXCEPT ![cur'] = TRUE]
             /\ \A d \in Conns : ~(isOpen[d] /\ grp[d] = g)
    BY <2>1, <2>3
  <2> QED
    BY <2>1, <2>2, <2>3, Started
<1>2. CASE GroupGone
  <2>1. \A c \in Conns : isOpen[c] => grp[c] # tGroup
    <3> SUFFICES ASSUME NEW c \in Conns, isOpen[c], grp[c] = tGroup PROVE FALSE
      OBVIOUS
    <3>1. timeout[tGroup] = "due" /\ Carries(tGroup) = {}
      BY <1>2 DEF GroupGone, Locking
    <3>2. life[c] # "listed"
      BY <3>1 DEF Carries, Clients
    <3>3. sPc = "add" /\ cur = c
      BY <3>2 DEF Position
    <3> QED
      BY <3>1, <3>3 DEF Locking
  <2> QED
    BY <1>2, <2>1 DEF GroupGone, roundUnchanged, connVars
<1>3. CASE /\ UNCHANGED <<groups, grp>>
           /\ \A c \in Conns : isOpen'[c] => isOpen[c]
  BY <1>3
<1>4. CASE ServerStep \/ Query \/ Stop \/ Stopped \/ UNCHANGED vars
  <2>1. UNCHANGED <<groups, grp>> /\ \A c \in Conns : isOpen'[c] => isOpen[c]
    BY <1>4 DEF ServerStep, AddClient, NoMessage, Visited, Visit, SStop, SClose,
                SDel, SDeleted, Exit, FinalClient, Destruct, Destructed, Query,
                Stop, Stopped, vars, loopUnchanged, groupVars, connVars, Unset
  <2> QED
    BY <1>3, <2>1
<1>5. CASE \/ Round \/ Sleep \/ Wake \/ TEnd \/ StopMulticast \/ TClose
           \/ \E g \in Groups : Keep(g) \/ Over(g)
           \/ \E c \in Conns : TStop(c)
  <2>1. UNCHANGED <<groups, grp>> /\ \A c \in Conns : isOpen'[c] => isOpen[c]
    BY <1>5 DEF Round, Sleep, Wake, TEnd, StopMulticast, TClose, TStop, Keep, Over,
                roundUnchanged, stopUnchanged, groupVars, connVars, Unset
  <2> QED
    BY <1>3, <2>1
<1>6. ASSUME NEW c \in Conns, WriterStep(c) \/ WGivesUp(c)
      PROVE  StreamHasGroup' /\ OneStream'
  <2>1. UNCHANGED <<groups, grp>> /\ \A d \in Conns : isOpen'[d] => isOpen[d]
    BY <1>6 DEF WriterStep, WCancelled, WGivesUp, WLeaves, WStop, WSelf, WClose,
                writerUnchanged, groupVars, Unset
  <2> QED
    BY <1>3, <2>1
<1>7. ASSUME NEW g \in Groups, NEW h \in Hosts, Expire(g) \/ Leave(g, h)
      PROVE  StreamHasGroup' /\ OneStream'
  BY <1>3, <1>7 DEF Expire, Leave, connVars
<1>8. ASSUME NEW g \in Groups, Expire(g)
      PROVE  StreamHasGroup' /\ OneStream'
  BY <1>3, <1>8 DEF Expire, connVars
<1> QED
  BY <1>1, <1>2, <1>4, <1>5, <1>6, <1>7, <1>8 DEF Next, TimerStep

(* A writer that was taken from its streamer is waited for.                *)
LEMMA WritersKept ==
    ASSUME TypeOK, Position, Locking, Writers, [Next]_vars
    PROVE  Writers'
<1>0. ConnsTyped /\ StreamsTyped /\ None \notin Conns
  BY IGMPAssumption DEF TypeOK
<1>p. Position
  OBVIOUS
<1>l. Locking
  OBVIOUS
<1> USE <1>0 DEF Writers, Cancelled, ConnsTyped, StreamsTyped
<1>1. ASSUME NEW g \in Groups, NEW h \in Hosts, NEW isV1 \in BOOLEAN,
             Report(g, h, isV1)
      PROVE  Writers'
  <2>1. StartMulticast(g) /\ sPc = "poll" /\ UNCHANGED <<streamVars, timerVars, sTaken>>
    BY <1>1 DEF Report, Handle
  <2>2. CASE UNCHANGED <<life, cur>> /\ sPc' = "visit"
    BY <2>1, <2>2 DEF streamVars, timerVars
  <2>3. CASE /\ sPc' = "add" /\ cur' \in Conns /\ life[cur'] = "none"
             /\ life' = [life EXCEPT ![cur'] = "made"]
    BY <2>1, <2>3 DEF streamVars, timerVars
  <2> QED
    BY <2>1, <2>2, <2>3, Started
<1>2. CASE AddClient
  <2>1. cur \in Conns /\ life[cur] = "made"
    BY <1>2, <1>p DEF AddClient, Position
  <2>2. UNCHANGED timerVars /\ sPc = "add" /\ sPc' = "visit"
    BY <1>2 DEF AddClient, loopUnchanged
  <2>3. CASE UNCHANGED streamVars
    BY <1>2, <2>1, <2>2, <2>3 DEF AddClient, streamVars, timerVars
  <2>4. CASE /\ wptr' = [wptr EXCEPT ![cur] = TRUE]
             /\ writer' = [writer EXCEPT ![cur] = "run"]
    BY <1>2, <2>1, <2>2, <2>4 DEF AddClient, timerVars
  <2> QED
    BY <1>2, <2>3, <2>4 DEF AddClient
<1>3. CASE SStop \/ SDel
  <2>1. cur \in Conns /\ life[cur] = "listed"
    BY <1>3, <1>p DEF SStop, SDel, Position, AtClient, Clients
  <2>2. /\ wptr' = [wptr EXCEPT ![cur] = FALSE]
        /\ UNCHANGED <<life, writer, cur, timerVars>>
        /\ sPc \notin {"join", "destroy"} /\ sPc' \in {"join", "destroy"}
        /\ sTaken' = wptr[cur]
    BY <1>3 DEF SStop, SDel, TakeWriter, loopUnchanged
  <2> QED
    BY <2>1, <2>2 DEF timerVars
<1>4. CASE SClose
  BY <1>4 DEF SClose, Ended, loopUnchanged, streamVars, timerVars
<1>5. CASE SDeleted
  <2>1. cur \in Conns /\ ~wptr[cur]
    BY <1>5, <1>p DEF SDeleted, Position, AtClient, Clients
  <2>2. tPc # "join"
    BY <1>5, <1>l DEF SDeleted, Locking
  <2>3. writer[cur] \in {"none", "self", "closeself", "ended"}
    BY <1>5, <2>1, <2>2 DEF SDeleted, Ended
  <2> QED
    BY <1>5, <2>1, <2>2, <2>3 DEF SDeleted, Ended, loopUnchanged, streamVars, timerVars
<1>6. CASE /\ UNCHANGED <<life, wptr, writer, timerVars>>
           /\ sPc' \notin {"join", "destroy"} /\ sPc \notin {"join", "destroy"}
  BY <1>6 DEF timerVars
<1>7. CASE NoMessage \/ Visited \/ Query \/ Exit \/ FinalClient \/ Destruct
           \/ Destructed \/ \E c \in Conns : Visit(c)
  BY <1>6, <1>7 DEF NoMessage, Visited, Visit, Query, Handle, Exit, FinalClient,
                    Destruct, Destructed, connVars, streamVars, loopUnchanged
<1>8. ASSUME NEW g \in Groups, NEW h \in Hosts, Leave(g, h)
      PROVE  Writers'
  BY <1>6, <1>8 DEF Leave, Handle, connVars, streamVars
<1>9. CASE /\ UNCHANGED <<life, wptr, writer, serverVars>>
           /\ tPc # "join" /\ tPc' # "join"
  BY <1>9 DEF serverVars
<1>10. CASE Round \/ Sleep \/ Wake \/ TEnd \/ StopMulticast \/ GroupGone
            \/ \E g \in Groups : Keep(g) \/ Over(g)
  BY ZenonT(40),
     <1>9, <1>10 DEF Round, Sleep, Wake, TEnd, StopMulticast, GroupGone, Keep, Over,
                     roundUnchanged, connVars, streamVars
<1>11. ASSUME NEW c \in Conns, TStop(c)
       PROVE  Writers'
  <2>1. life[c] = "listed"
    BY <1>11 DEF TStop, Carries, Clients
  <2>2. sPc # "destroy"
    BY <1>11, <1>l DEF TStop, Locking
  <2> QED
    BY <1>11, <2>1, <2>2 DEF TStop, TakeWriter, stopUnchanged, serverVars
<1>12. CASE TClose
  BY <1>12 DEF TClose, Ended, stopUnchanged, streamVars, serverVars
<1>13. CASE UNCHANGED <<life, wptr, writer, serverVars, timerVars>>
  BY <1>13 DEF serverVars, timerVars
<1>14. CASE Stop \/ Stopped \/ UNCHANGED vars
  BY <1>13, <1>14 DEF Stop, Stopped, vars, connVars, streamVars
<1>15. ASSUME NEW g \in Groups, Expire(g)
       PROVE  Writers'
  BY <1>13, <1>15 DEF Expire, connVars, streamVars
<1>16. ASSUME NEW c \in Conns, WriterStep(c) \/ WGivesUp(c)
       PROVE  Writers'
  <2>0. UNCHANGED <<life, serverVars, timerVars>>
    BY <1>16 DEF WriterStep, WCancelled, WGivesUp, WLeaves, WStop, WSelf, WClose,
                 writerUnchanged
  <2>1. CASE WLeaves(c)
    BY <2>0, <2>1 DEF WLeaves, serverVars, timerVars
  <2>2. CASE WStop(c)
    BY <2>0, <2>2 DEF WStop, TakeWriter, serverVars, timerVars
  <2>3. CASE WSelf(c)
    BY <2>0, <2>3 DEF WSelf, serverVars, timerVars
  <2>4. CASE WClose(c)
    BY <2>0, <2>4 DEF WClose, serverVars, timerVars
  <2> QED
    BY <1>16, <2>1, <2>2, <2>3, <2>4 DEF WriterStep, WCancelled, WGivesUp
<1> QED
  BY <1>1, <1>2, <1>3, <1>4, <1>5, <1>7, <1>8, <1>10, <1>11, <1>12, <1>14, <1>15,
     <1>16 DEF Next, ServerStep, TimerStep

-----------------------------------------------------------------------------

(* The inductive invariant behind the theorems below.                      *)
THEOREM IGMPInvariant == Spec => []IGMPInv
<1>1. Init => IGMPInv
  <2> SUFFICES ASSUME Init PROVE IGMPInv
    OBVIOUS
  <2>1. TypeOK
    BY DEF Init, TypeOK, GroupsTyped, ConnsTyped, StreamsTyped, ServerTyped,
           TimerTyped
  <2>2. Position /\ Locking
    BY DEF Init, Position, Locking, AtNone, AtClient, Clients
  <2>3. Writers /\ StreamHasGroup /\ OneStream
    BY DEF Init, Writers, StreamHasGroup, OneStream
  <2> QED
    BY <2>1, <2>2, <2>3 DEF IGMPInv
<1>2. IGMPInv /\ [Next]_vars => IGMPInv'
  BY TypedKept, PositionKept, LockingKept, GroupedKept, WritersKept DEF IGMPInv
<1> QED
  BY <1>1, <1>2, PTL DEF Spec

(* The variables keep their types, and the groups in m_Groups are those    *)
(* that have a time.                                                       *)
THEOREM TypeCorrect == Spec => []TypeOK
<1>1. IGMPInv => TypeOK
  BY DEF IGMPInv
<1> QED
  BY <1>1, IGMPInvariant, PTL

(* However many groups, hosts and connections: one stream for a group.     *)
THEOREM OneStreamEach == Spec => []OneStream
<1>1. IGMPInv => OneStream
  BY DEF IGMPInv
<1> QED
  BY <1>1, IGMPInvariant, PTL

(* No stream is left behind when its group goes.                           *)
THEOREM NoStreamAlone == Spec => []StreamHasGroup
<1>1. IGMPInv => StreamHasGroup
  BY DEF IGMPInv
<1> QED
  BY <1>1, IGMPInvariant, PTL

(* The locks keep the IGMP thread from a connection the server deletes,    *)
(* and a connection goes when its writer is gone, but for the writer that  *)
(* deletes itself.                                                         *)
THEOREM DeletedAreQuiet == Spec => []DeletedQuiet
<1>1. IGMPInv => DeletedQuiet
  <2> SUFFICES ASSUME IGMPInv, NEW c \in Conns, life[c] = "deleted"
               PROVE  /\ writer[c] \in {"none", "self", "closeself", "ended"}
                      /\ tConn # c /\ cur # c
    BY DEF DeletedQuiet
  <2>1. writer[c] \in {"none", "self", "closeself", "ended"}
    BY DEF IGMPInv, Writers
  <2>2. tConn # c
    BY IGMPAssumption DEF IGMPInv, Locking, Clients
  <2>3. sPc \in AtNone \cup {"add"} \cup AtClient
    BY DEF IGMPInv, TypeOK, ServerTyped, AtNone, AtClient
  <2>4. cur # c
    BY <2>3, IGMPAssumption DEF IGMPInv, Position, Clients
  <2> QED
    BY <2>1, <2>2, <2>4
<1> QED
  BY <1>1, IGMPInvariant, PTL
=============================================================================
