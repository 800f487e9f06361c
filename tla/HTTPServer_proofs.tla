----------------------------- MODULE HTTPServer_proofs -----------------------
(***************************************************************************)
(* Proofs about the server thread and an HTTP connection of it. ServerLoop:*)
(* its types, that no more than MaxClients are served, and that nothing    *)
(* comes across a deleted connection. HTTPConnection: that a page is well  *)
(* nested however VDR edits its lists, that a stream follows its header    *)
(* and starts where that says, and that a page of lists VDR leaves alone   *)
(* has each item it is to have, once and in order.                         *)
(***************************************************************************)
EXTENDS ServerLoop, HTTPConnection, FiniteSetTheorems, SequenceTheorems,
        WellFoundedInduction, TLAPS

(* The server's position tells which connection it is at.                  *)
AtClient == {"read", "abort", "close", "sysclose", "clear", "del", "wait"}
AtNone == {"select", "poll", "accept", "next", "exit", "final", "stopped"}

InLoop == {"select", "poll", "accept", "add", "next", "read", "abort"}

Position ==
    /\ pc \in InLoop => exit = "no"
    /\ pc \in {"exit", "final", "stopped"} => exit # "no"
    /\ pc \in AtNone => cur = None
    /\ pc = "add" => cur \in Conns /\ life[cur] = "accepted"
    /\ pc \in AtClient => cur \in Clients
    /\ todo \subseteq Clients \ {cur}
    /\ exit # "no" \/ pc \in {"select", "poll"} => todo = {}

(* The lock is with the one who goes through the list or changes it.       *)
ServerHolds ==
    \/ pc \in {"wait", "final"}
    \/ exit # "no" /\ pc \in {"close", "sysclose", "clear", "del"}

Locking ==
    /\ ServerHolds => lock = "server"
    /\ menuPc # "idle" => lock = "menu"
    /\ picked # None => menuPc # "idle" /\ picked \in Clients

(* A writer belongs to a client, or to one that was deleted when it ended. *)
Writers ==
    \A c \in Conns :
      /\ writer[c] # "none" => life[c] \in {"listed", "deleted"}
      /\ life[c] = "deleted" => writer[c] \in {"none", "done"}

DeletedInv == Position /\ Locking /\ Writers

(* An open connection was given a descriptor.                              *)
FiledOpen == \A c \in Conns : isOpen[c] => fd[c] \in Fds

Typed == TypeOK /\ FiledOpen

-----------------------------------------------------------------------------

(* The sets of descriptors that select is asked for and answers.           *)
LEMMA QueryTyped ==
    ASSUME Typed
    PROVE  /\ [r |-> {Listen} \cup UNION {Filed(c) : c \in Clients},
               w |-> UNION {Filed(c) : c \in {d \in Clients : HasData(d)}}]
                 \in FdSets
           /\ query \in FdSets => Ready \in FdSets
           /\ Nothing \in FdSets
<1>1. \A c \in Conns : Filed(c) \subseteq Fds
  BY DEF Filed, Typed, FiledOpen
<1>2. UNION {Filed(c) : c \in Clients} \subseteq Fds
  BY <1>1 DEF Clients
<1>3. UNION {Filed(c) : c \in {d \in Clients : HasData(d)}} \subseteq Fds
  BY <1>1 DEF Clients
<1>4. query \in FdSets => Ready \in FdSets
  <2> SUFFICES ASSUME query \in FdSets PROVE Ready \in FdSets
    OBVIOUS
  <2>1. /\ query.r \subseteq {Listen} \cup Fds /\ query.w \subseteq Fds
    BY DEF FdSets
  <2>2. {f \in query.r : Readable(f)} \subseteq {Listen} \cup Fds
    BY <2>1
  <2> QED
    BY <2>1, <2>2 DEF Ready, FdSets
<1> QED
  BY <1>2, <1>3, <1>4 DEF FdSets, Nothing

(* So are the empty ones.                                                  *)
LEMMA QueryInit == Nothing \in FdSets
  BY SMTT(40) DEF Nothing, FdSets

(* No step leaves the types, or opens a connection without a descriptor.   *)
LEMMA TypedKept ==
    ASSUME Typed, Position, [Next]_vars
    PROVE  Typed'
<1> USE DEF Typed, TypeOK, FiledOpen
<1> USE DEF peerVars, connVars, loopVars, menuVars
<1>1. ASSUME NEW c \in Conns, Connect(c)
      PROVE  Typed'
  BY <1>1 DEF Connect
<1>2. ASSUME NEW c \in Conns, Request(c) \/ Leave(c)
      PROVE  Typed'
  <2>1. CASE Request(c)
    BY <2>1 DEF Request
  <2>2. CASE Leave(c)
    BY <2>2 DEF Leave
  <2> QED
    BY <1>2, <2>1, <2>2
<1>3. ASSUME NEW c \in Conns, WriterEnds(c) \/ WriterGivesUp(c)
      PROVE  Typed'
  BY <1>3 DEF WriterEnds, WriterGivesUp, WriterTests
<1>4. ASSUME NEW c \in Conns, WriterCloses(c)
      PROVE  Typed'
  <2>1. CASE CloseSys(c) /\ writer' = [writer EXCEPT ![c] = "clear"]
             /\ UNCHANGED <<peerVars, life, fd, isOpen, work, loopVars,
                            running, lock, menuVars>>
    <3>1. owner' \in [Fds -> Conns \cup {None}]
      BY <2>1 DEF CloseSys
    <3>2. writer' \in [Conns -> {"none", "run", "sysclose", "clear", "done"}]
      BY <2>1
    <3> QED
      BY <2>1, <3>1, <3>2
  <2>2. CASE CloseClear(c) /\ writer' = [writer EXCEPT ![c] = "done"]
             /\ UNCHANGED <<peerVars, life, fd, work, owner, loopVars,
                            running, lock, menuVars>>
    BY <2>2 DEF CloseClear
  <2> QED
    BY <1>4, <2>1, <2>2 DEF WriterCloses
<1>5. ASSUME NEW c \in Conns, MenuPick(c)
      PROVE  Typed'
  BY <1>5, ServerLoopAssumption DEF MenuPick
<1>6. CASE MenuStep
  <2>1. CASE CloseSys(picked) /\ menuPc' = "clear"
             /\ UNCHANGED <<peerVars, life, fd, isOpen, work, writer,
                            loopVars, running, lock, picked, disconnects>>
    BY ZenonT(40), <2>1 DEF CloseSys
  <2>2. CASE CloseClear(picked) /\ menuPc' = "unlock"
             /\ UNCHANGED <<peerVars, life, fd, work, writer, owner,
                            loopVars, running, lock, picked, disconnects>>
    BY ZenonT(40), <2>2 DEF CloseClear
  <2>3. CASE lock' = "free" /\ menuPc' = "idle" /\ picked' = None
             /\ UNCHANGED <<peerVars, connVars, loopVars, running,
                            disconnects>>
    BY <2>3
  <2> QED
    BY <1>6, <2>1, <2>2, <2>3 DEF MenuStep, MenuCloses
<1>7. CASE Build
  BY <1>7, QueryTyped DEF Build, world
<1>8. CASE SelectFails \/ SelectTimeout \/ LeaveLoop
  BY <1>8, QueryTyped DEF SelectFails, SelectTimeout, LeaveLoop, world
<1>9. CASE SelectReady \/ Poll
  <2>1. Clients \subseteq Conns
    BY DEF Clients
  <2> QED
    BY <1>9, <2>1, QueryTyped DEF SelectReady, Poll, Act, world
<1>10. ASSUME NEW c \in Conns, Accept(c)
       PROVE  Typed'
  BY <1>10 DEF Accept
<1>11. CASE AddClient
  <2>1. Clients \cup {cur} \subseteq Conns
    BY <1>11 DEF AddClient, Position, Clients
  <2>2. PICK s \in {"idle", "rejected"} :
               work' = [work EXCEPT ![cur] = s]
    BY <1>11 DEF AddClient
  <2> QED
    BY <1>11, <2>1, <2>2 DEF AddClient
<1>12. ASSUME NEW c \in Conns, Visit(c)
       PROVE  Typed'
  BY <1>12 DEF Visit, WriteTo
<1>13. CASE Read
  <2>1. /\ input' \in [Conns -> BOOLEAN]
        /\ work' \in [Conns -> {"idle", "rejected", "page", "stream",
                                  "streaming"}]
        /\ pc' \in {"abort", "close"}
    BY ZenonT(40), <1>13 DEF Read
  <2> QED
    BY <1>13, <2>1 DEF Read
<1>14. CASE CheckAbort \/ CloseTest \/ LockDel \/ Exit \/ FinalDone
  BY <1>14 DEF CheckAbort, CloseTest, LockDel, Exit, FinalDone, world
<1>15. CASE CloseSysServer
  BY ZenonT(40), <1>15 DEF CloseSysServer, CloseSys
<1>16. CASE CloseClearServer
  BY ZenonT(40), <1>16 DEF CloseClearServer, CloseClear
<1>17. CASE Delete
  BY ZenonT(40), <1>17 DEF Delete
<1>18. CASE FinalClient \/ Stop
  <2>1. CASE FinalClient
    <3>1. cur' \in Conns
      BY <2>1 DEF FinalClient, Clients
    <3> QED
      BY <2>1, <3>1 DEF FinalClient, world
  <2>2. CASE Stop
    <3>1. running' \in BOOLEAN
      BY <2>2, Zenon DEF Stop
    <3> QED
      BY <2>2, <3>1 DEF Stop
  <2> QED
    BY <1>18, <2>1, <2>2
<1>19. CASE Stopped \/ UNCHANGED vars
  BY SMTT(40), <1>19 DEF Stopped, vars
<1> QED
  BY <1>1, <1>2, <1>3, <1>4, <1>5, <1>6, <1>7, <1>8, <1>9, <1>10, <1>11,
     <1>12, <1>13, <1>14, <1>15, <1>16, <1>17, <1>18, <1>19
  DEF Next, ServerStep


(* The list changes only under the lock, and only Delete ends the life of  *)
(* a client: the one the server is at, once its writer has ended.          *)
LEMMA DeletedKept ==
    ASSUME Typed, DeletedInv, [Next]_vars
    PROVE  DeletedInv'
<1> USE DEF DeletedInv, Position, Locking, Writers, Clients
<1> USE DEF ServerHolds, AtClient, AtNone, InLoop
<1> USE DEF peerVars, connVars, loopVars, menuVars
<1>0. /\ life \in [Conns -> {"new", "backlog", "accepted", "listed", "deleted"}]
      /\ writer \in [Conns -> {"none", "run", "sysclose", "clear", "done"}]
      /\ None \notin Conns
  BY ServerLoopAssumption DEF Typed, TypeOK
<1>1. ASSUME NEW c \in Conns, Connect(c)
      PROVE  DeletedInv'
  BY <1>0, <1>1 DEF Connect
<1>2. ASSUME NEW c \in Conns, Request(c) \/ Leave(c)
      PROVE  DeletedInv'
  BY <1>2 DEF Request, Leave
<1>3. ASSUME NEW c \in Conns, WriterEnds(c) \/ WriterGivesUp(c)
      PROVE  DeletedInv'
  BY <1>0, <1>3 DEF WriterEnds, WriterGivesUp, WriterTests
<1>4. ASSUME NEW c \in Conns, WriterCloses(c)
      PROVE  DeletedInv'
  BY <1>0, <1>4 DEF WriterCloses
<1>5. ASSUME NEW c \in Conns, MenuPick(c)
      PROVE  DeletedInv'
  BY <1>0, <1>5 DEF MenuPick
<1>6. CASE MenuStep
  BY <1>6 DEF MenuStep, MenuCloses
<1>7. CASE Build \/ SelectFails \/ SelectTimeout \/ LeaveLoop
  BY <1>7 DEF Build, SelectFails, SelectTimeout, LeaveLoop, world
<1>9. CASE SelectReady \/ Poll
  <2>1. /\ pc \in {"select", "poll"} /\ pc' \in {"select", "accept", "next"}
        /\ pc' = "select" => todo' = todo
        /\ todo' \in {todo, Clients}
        /\ UNCHANGED <<life, writer, cur, exit, lock, picked, menuPc>>
    BY <1>9 DEF SelectReady, Poll, Act, world
  <2> QED
    BY <1>0, <2>1
<1>10. ASSUME NEW c \in Conns, Accept(c)
       PROVE  DeletedInv'
  BY <1>0, <1>10 DEF Accept
<1>11. CASE AddClient
  BY <1>0, <1>11 DEF AddClient
<1>12. ASSUME NEW c \in Conns, Visit(c)
       PROVE  DeletedInv'
  BY <1>0, <1>12 DEF Visit, WriteTo
<1>13. CASE Read
  BY <1>13 DEF Read
<1>8. CASE CheckAbort
  BY <1>0, <1>8 DEF CheckAbort, world
<1>14. CASE CloseTest \/ LockDel
  BY <1>0, <1>14 DEF CloseTest, LockDel, world
<1>16. CASE Exit \/ FinalDone
  BY <1>16 DEF Exit, FinalDone, world
<1>15. CASE CloseSysServer \/ CloseClearServer
  BY <1>15 DEF CloseSysServer, CloseClearServer
<1>17. CASE Delete
  BY <1>0, <1>17 DEF Delete
<1>18. CASE FinalClient
  BY <1>0, <1>18 DEF FinalClient, world
<1>20. CASE Stop
  BY <1>20 DEF Stop
<1>19. CASE Stopped \/ UNCHANGED vars
  BY <1>19 DEF Stopped, vars
<1> QED
  BY <1>1, <1>2, <1>3, <1>4, <1>5, <1>6, <1>7, <1>8, <1>9, <1>10, <1>11,
     <1>12, <1>13, <1>14, <1>15, <1>16, <1>17, <1>18, <1>19, <1>20
  DEF Next, ServerStep


(* A client is served only if it was counted when it joined.               *)
LEMMA ServedKept ==
    ASSUME Typed, Position, ServedWithin, [Next]_vars
    PROVE  ServedWithin'
<1>0. IsFiniteSet(Served) /\ IsFiniteSet(Clients \cup {cur})
  <2>1. Served \subseteq Conns /\ Clients \subseteq Conns
    BY DEF Served, Clients
  <2> QED
    BY <2>1, ServerLoopAssumption, FS_Subset, FS_AddElement
<1>1. ASSUME Served' \subseteq Served
      PROVE  ServedWithin'
  <2>1. /\ Cardinality(Served') <= Cardinality(Served)
        /\ Cardinality(Served) \in Nat /\ Cardinality(Served') \in Nat
    BY <1>0, <1>1, FS_Subset, FS_CardinalityType
  <2> QED
    BY <2>1, ServerLoopAssumption DEF ServedWithin
<1>2. CASE AddClient
  <2>1. CASE TooMany(cur)
    <3>1. Served' \subseteq Served
      BY <1>2, <2>1 DEF AddClient, Served, Clients, Typed, TypeOK, Position
    <3> QED
      BY <1>1, <3>1
  <2>2. CASE ~TooMany(cur)
    <3>1. Served' \subseteq Clients \cup {cur}
      BY <1>2 DEF AddClient, Served, Clients, Typed, TypeOK
    <3>2. /\ Cardinality(Served') <= Cardinality(Clients \cup {cur})
          /\ Cardinality(Clients \cup {cur}) \in Nat
          /\ Cardinality(Served') \in Nat
      BY <1>0, <3>1, FS_Subset, FS_CardinalityType
    <3> QED
      BY <2>2, <3>2, ServerLoopAssumption DEF ServedWithin, TooMany
  <2> QED
    BY <2>1, <2>2
<1>3. CASE ~AddClient
  <2> SUFFICES Served' \subseteq Served
    BY <1>1
  <2> USE DEF Served, Clients
  <2>0. /\ life \in [Conns -> {"new", "backlog", "accepted", "listed",
                               "deleted"}]
        /\ work \in [Conns -> {"idle", "rejected", "page", "stream",
                                 "streaming"}]
    BY DEF Typed, TypeOK
  <2>1. ASSUME NEW c \in Conns, Connect(c) \/ Accept(c)
        PROVE  Served' \subseteq Served
    BY <2>0, <2>1 DEF Connect, Accept
  <2>2. ASSUME NEW c \in Conns, Visit(c)
        PROVE  Served' \subseteq Served
    BY <2>0, <2>2 DEF Visit, WriteTo
  <2>3. CASE Read
    BY <2>0, <2>3 DEF Read
  <2>4. CASE Delete
    BY <2>0, <2>4 DEF Delete
  <2>5. ASSUME NEW c \in Conns,
               \/ Request(c) \/ Leave(c) \/ MenuPick(c)
               \/ WriterEnds(c) \/ WriterGivesUp(c) \/ WriterCloses(c)
        PROVE  UNCHANGED <<life, work>>
    BY <2>5 DEF Request, Leave, MenuPick, WriterEnds, WriterGivesUp,
                WriterTests, WriterCloses, connVars
  <2>6. CASE \/ Build \/ SelectFails \/ SelectReady \/ SelectTimeout \/ Poll
             \/ LeaveLoop \/ CheckAbort \/ CloseTest \/ CloseSysServer
             \/ CloseClearServer \/ LockDel \/ Exit \/ FinalClient
             \/ FinalDone \/ Stop \/ MenuStep \/ Stopped \/ UNCHANGED vars
    <3>1. UNCHANGED <<life, work>>
      BY <2>6 DEF Build, SelectFails, SelectReady, SelectTimeout, Poll,
                  LeaveLoop, CheckAbort, CloseTest, CloseSysServer,
                  CloseClearServer, LockDel, Exit, FinalClient, FinalDone,
                  Stop, MenuStep, MenuCloses, Stopped, vars, world, connVars
    <3> QED
      BY <3>1
  <2> QED
    BY <1>3, <2>1, <2>2, <2>3, <2>4, <2>5, <2>6 DEF Next, ServerStep
<1> QED
  BY <1>2, <1>3

-----------------------------------------------------------------------------

(* The inductive invariant behind the theorems below.                      *)
ServerInv == Typed /\ DeletedInv /\ ServedWithin

(* It holds in every state of the server.                                  *)
THEOREM ServerInvariant == Spec => []ServerInv
<1>1. Init => ServerInv
  <2> SUFFICES ASSUME Init PROVE ServerInv
    OBVIOUS
  <2>1. Clients = {} /\ Served = {}
    BY DEF Init, Clients, Served
  <2>2. Typed
    BY ServerLoopAssumption, QueryInit DEF Init, Typed, TypeOK, FiledOpen
  <2>3. DeletedInv
    BY <2>1, ServerLoopAssumption
    DEF Init, DeletedInv, Position, Locking, Writers, AtNone, AtClient,
        InLoop, ServerHolds
  <2>4. ServedWithin
    BY <2>1, FS_EmptySet, ServerLoopAssumption DEF ServedWithin
  <2> QED
    BY <2>2, <2>3, <2>4 DEF ServerInv
<1>2. ServerInv /\ [Next]_vars => ServerInv'
  BY TypedKept, DeletedKept, ServedKept DEF ServerInv, DeletedInv
<1> QED
  BY <1>1, <1>2, PTL DEF Spec

(* The variables of the loop and of the threads keep their types.          *)
THEOREM TypeCorrect == Spec => []TypeOK
<1>1. ServerInv => TypeOK
  BY DEF ServerInv, Typed
<1> QED
  BY <1>1, ServerInvariant, PTL

(* However many connect, no more than MaxClients are served at a time.     *)
THEOREM NotTooMany == Spec => []ServedWithin
<1>1. ServerInv => ServedWithin
  BY DEF ServerInv
<1> QED
  BY <1>1, ServerInvariant, PTL

(* Whatever the user disconnects and whenever writers end, no thread comes *)
(* across a deleted connection.                                            *)
THEOREM DeletedAreQuiet == Spec => []DeletedQuiet
<1>1. ServerInv => DeletedQuiet
  <2> SUFFICES ASSUME ServerInv, NEW c \in Conns, life[c] = "deleted"
               PROVE  writer[c] \in {"none", "done"} /\ picked # c /\ cur # c
    BY DEF DeletedQuiet
  <2>1. writer[c] \in {"none", "done"}
    BY DEF ServerInv, DeletedInv, Writers
  <2>2. picked # c
    BY ServerLoopAssumption DEF ServerInv, DeletedInv, Locking, Clients
  <2>3. pc \in AtNone \cup {"add"} \cup AtClient
    BY DEF ServerInv, Typed, TypeOK, AtNone, AtClient
  <2>4. cur # c
    BY <2>3, ServerLoopAssumption DEF ServerInv, DeletedInv, Position, Clients
  <2> QED
    BY <2>1, <2>2, <2>4
<1> QED
  BY <1>1, ServerInvariant, PTL

-----------------------------------------------------------------------------
(* HTTPConnection: the tags of a page and what they leave open.            *)

Tags == DOMAIN Closing

(* A sequence, of whatever is in it.                                       *)
Listing(s) == s \in Seq({s[i] : i \in DOMAIN s})
OneAtMost(s) == s = <<>> \/ s = <<s[1]>>

(* What each state of a page has left open.                                *)
InDiv == {"GroupTop", "ItemsTop", "Item", "ItemsBottom"}
InOl == {"PlainTop", "PlainItem", "ItemsTop", "Item"}
InBody == InDiv \cup InOl \cup {"PageTop", "PlainBottom", "GroupBottom"}
Unopened == {"Root", "HtmlHead", "Css", "Js"}
HtmlStates == InBody \cup Unopened \cup {"PageBottom"}
ListStates == {"First", "Continue", "Last"}

Leaves(s, tag, b) == Open(s, tag) = IF b THEN 1 ELSE 0
LeftOpen(s, st) ==
    /\ Leaves(s, "body", st \in InBody) /\ Leaves(s, "div", st \in InDiv)
    /\ Leaves(s, "ol", st \in InOl) /\ Leaves(s, "list", st = "Continue")

Writer(m) ==
    /\ DOMAIN m = {"fmt", "it", "self", "onItem", "st"}
    /\ m.st \in IF m.fmt = "html" THEN HtmlStates ELSE ListStates

(* The job of a connection, by what has become of it.                      *)
Idle == menu = Nil /\ streamer = Nil

Asking ==
    /\ status \in {"request", "headers"} /\ Idle
    /\ out = <<>> /\ sent = <<>> /\ deferClose = FALSE

Paging ==
    /\ status = "body" /\ menu # Nil /\ streamer = Nil /\ Writer(menu)
    /\ OneAtMost(out) /\ Nested(sent \o out) /\ LeftOpen(sent \o out, menu.st)
    /\ req.method = "HEAD" => sent = <<>> /\ deferClose

PageDone ==
    /\ status = "finished" /\ Idle /\ out = <<>> /\ deferClose
    /\ req.method # "HEAD"

(* A header h before a stream, and where the stream begins.                *)
NoHead == req.method = "HEAD" =>
            req.type = "EXT" \/ (req.path = "rec" /\ req.type # "TS")
Announced(h) ==
    streamer.kind = "rec" /\ req.method = "GET"
    => LET faked == range = 0 /\ req.fake
       IN /\ streamer.pos + streamer.from = h[3] + IF faked THEN 0 ELSE req.pos
          /\ h[3] # 0 => /\ h[2] = 206
                         /\ h[3] = IF faked THEN req.pos ELSE range
Good(h) ==
    /\ streamer # Nil /\ NoHead
    /\ h[1] = "header" /\ h[2] \in {200, 206} /\ Announced(h)

Answering ==
    /\ status = "body" /\ menu = Nil /\ sent = <<>>
    /\ out = <<out[1]>> /\ out[1][1] = "header"
    /\ streamer # Nil => /\ streamer.started = FALSE
                         /\ DOMAIN streamer = {"kind", "prio", "pos", "from",
                                               "started"}
    /\ deferClose \in BOOLEAN
    /\ ~deferClose => Good(out[1])

Streaming ==
    /\ status = "finished" /\ menu = Nil /\ out = <<>> /\ deferClose = FALSE
    /\ streamer # Nil /\ streamer.started
    /\ \/ sent = <<sent[1]>>
       \/ sent = <<sent[1], sent[2]>> /\ sent[2][1] = "body"
    /\ Good(sent[1])

Job == Asking \/ Paging \/ PageDone \/ Answering \/ Streaming

HTTPTypes ==
    /\ Listing(sent) /\ range \in {NoRange, 0, Offset}
    /\ req = NoReq \/ req \in Requests
    /\ status # "request" => req \in Requests

HTTPInv ==
    /\ HTTPTypes /\ Nested(sent) /\ StreamAfterHeader /\ StartsAsAsked
    /\ conn = "open" => Job

-----------------------------------------------------------------------------
(* Sequences and the tags in them.                                         *)

LEMMA ListingGrows ==
    ASSUME NEW s, Listing(s), NEW x
    PROVE  /\ Listing(s \o <<x>>) /\ Len(s) \in Nat
           /\ DOMAIN s = 1 .. Len(s)
           /\ Len(s \o <<x>>) = Len(s) + 1
           /\ \A i \in 1 .. Len(s) : (s \o <<x>>)[i] = s[i]
           /\ (s \o <<x>>)[Len(s) + 1] = x
           /\ Last(s \o <<x>>) = x /\ s \o <<x>> # <<>>
<1> DEFINE S == {s[i] : i \in DOMAIN s} \cup {x}
           t == s \o <<x>>
<1>1. s \in Seq(S) /\ <<x>> \in Seq(S) /\ x \in S
  <2>1. s \in Seq({s[i] : i \in DOMAIN s})
    BY DEF Listing
  <2>2. {s[i] : i \in DOMAIN s} \subseteq S
    OBVIOUS
  <2> HIDE DEF S
  <2> QED
    BY <2>1, <2>2 DEF S
<1> HIDE DEF S
<1>2. /\ Len(s) \in Nat /\ DOMAIN s = 1 .. Len(s) /\ Len(t) = Len(s) + 1
      /\ \A i \in 1 .. Len(s) : t[i] = s[i]
      /\ t[Len(s) + 1] = x /\ t # <<>> /\ t \in Seq(S)
  BY <1>1
<1>3. Last(t) = x
  BY <1>2 DEF Last
<1>4. Listing(t)
  BY SMTT(40), <1>2 DEF Listing
<1> QED
  BY <1>2, <1>3, <1>4

LEMMA ListingSmall ==
    /\ Listing(<<>>) /\ Len(<<>>) = 0
    /\ \A s : Listing(s) => s \o <<>> = s
    /\ \A x : <<>> \o <<x>> = <<x>>
<1>1. Listing(<<>>) /\ Len(<<>>) = 0
  BY DEF Listing
<1>2. ASSUME NEW s, Listing(s) PROVE s \o <<>> = s
  <2> DEFINE S == {s[i] : i \in DOMAIN s}
  <2>1. s \in Seq(S)
    BY <1>2 DEF Listing
  <2> QED
    BY <2>1
<1>3. ASSUME NEW x PROVE <<>> \o <<x>> = <<x>>
  <2>1. <<x>> \in Seq({x})
    OBVIOUS
  <2> QED
    BY <2>1
<1> QED
  BY <1>1, <1>2, <1>3

LEMMA CountGrows ==
    ASSUME NEW s, Listing(s), NEW x, NEW tag
    PROVE  /\ Count(s, tag) \in Nat
           /\ Count(s \o <<x>>, tag)
                = Count(s, tag) + IF x[1] = tag THEN 1 ELSE 0
<1> DEFINE t == s \o <<x>>
           n == Len(s)
           A == {i \in DOMAIN s : s[i][1] = tag}
           B == {i \in DOMAIN t : t[i][1] = tag}
<1>1. /\ n \in Nat /\ DOMAIN s = 1 .. n /\ DOMAIN t = 1 .. n + 1
      /\ \A i \in 1 .. n : t[i] = s[i]
      /\ t[n + 1] = x
  BY ListingGrows
<1> HIDE DEF n, t
<1>2. IsFiniteSet(A) /\ Cardinality(A) \in Nat /\ n + 1 \notin A
  <2>0. IsFiniteSet(1 .. n)
    <3> HIDE DEF A, B
    <3>1. n \in Int /\ 1 \in Int
      BY <1>1
    <3> QED
      BY <3>1, FS_Interval
  <2>1. A \subseteq 1 .. n
    BY <1>1
  <2>2. IsFiniteSet(A)
    BY <2>0, <2>1, FS_Subset
  <2> QED
    BY <2>1, <2>2, <1>1, FS_CardinalityType
<1>3. B = IF x[1] = tag THEN A \cup {n + 1} ELSE A
  <2>1. \A i \in 1 .. n + 1 : i = n + 1 \/ i \in 1 .. n
    BY <1>1
  <2> QED
    BY <1>1, <2>1
<1>4. Cardinality(A \cup {n + 1}) = Cardinality(A) + 1
  BY <1>2, FS_AddElement
<1> HIDE DEF A, B
<1>5. Cardinality(B) = Cardinality(A) + IF x[1] = tag THEN 1 ELSE 0
  BY <1>2, <1>3, <1>4
<1> QED
  BY <1>2, <1>5 DEF A, B, Count, t

(* What a line opens or closes.                                            *)
Change(x, tag) == (IF x[1] = tag THEN 1 ELSE 0)
                    - (IF x[1] = Closing[tag] THEN 1 ELSE 0)

LEMMA OpenGrows ==
    ASSUME NEW s, Listing(s), NEW x
    PROVE  \A tag \in Tags : /\ Open(s, tag) \in Int
                             /\ Open(s \o <<x>>, tag)
                                  = Open(s, tag) + Change(x, tag)
<1> TAKE tag \in Tags
<1>1. /\ Count(s, tag) \in Nat
      /\ Count(s \o <<x>>, tag) = Count(s, tag) + IF x[1] = tag THEN 1 ELSE 0
  BY CountGrows
<1> DEFINE c == Closing[tag]
<1> HIDE DEF c
<1>2. /\ Count(s, c) \in Nat
      /\ Count(s \o <<x>>, c) = Count(s, c) + IF x[1] = c THEN 1 ELSE 0
  BY CountGrows
<1>3. Open(s, tag) = Count(s, tag) - Count(s, c)
  BY DEF Open, c
<1>4. Open(s \o <<x>>, tag) = Count(s \o <<x>>, tag) - Count(s \o <<x>>, c)
  BY DEF Open, c
<1>5. Change(x, tag) = (IF x[1] = tag THEN 1 ELSE 0)
                         - (IF x[1] = c THEN 1 ELSE 0)
  BY DEF Change, c
<1> QED
  BY <1>1, <1>2, <1>3, <1>4, <1>5

LEMMA OpenNothing ==
    \A tag \in Tags : Open(<<>>, tag) = 0
<1>1. ASSUME NEW tag PROVE Count(<<>>, tag) = 0
  <2>1. {i \in DOMAIN <<>> : <<>>[i][1] = tag} = {}
    OBVIOUS
  <2> QED
    BY <2>1, FS_EmptySet DEF Count
<1> QED
  BY <1>1 DEF Open

(* What each line changes.                                                 *)
LEMMA Changes ==
    ASSUME NEW x
    PROVE  /\ Tags = {"body", "div", "ol", "list"}
           /\ Change(x, "body") = IF x[1] = "body" THEN 1
                                  ELSE IF x[1] = "/body" THEN -1 ELSE 0
           /\ Change(x, "div") = IF x[1] = "div" THEN 1
                                 ELSE IF x[1] = "/div" THEN -1 ELSE 0
           /\ Change(x, "ol") = IF x[1] = "ol" THEN 1
                                ELSE IF x[1] = "/ol" THEN -1 ELSE 0
           /\ Change(x, "list") = IF x[1] = "list" THEN 1
                                  ELSE IF x[1] = "/list" THEN -1 ELSE 0
<1>1. /\ Tags = {"body", "div", "ol", "list"}
      /\ Closing["body"] = "/body" /\ Closing["div"] = "/div"
      /\ Closing["ol"] = "/ol" /\ Closing["list"] = "/list"
  BY DEF Tags, Closing
<1>2. Tags = {"body", "div", "ol", "list"}
  BY <1>1
<1>3. Change(x, "body") = IF x[1] = "body" THEN 1
                                  ELSE IF x[1] = "/body" THEN -1 ELSE 0
  BY <1>1 DEF Change
<1>4. Change(x, "div") = IF x[1] = "div" THEN 1
                                 ELSE IF x[1] = "/div" THEN -1 ELSE 0
  BY <1>1 DEF Change
<1>5. Change(x, "ol") = IF x[1] = "ol" THEN 1
                                ELSE IF x[1] = "/ol" THEN -1 ELSE 0
  BY <1>1 DEF Change
<1>6. Change(x, "list") = IF x[1] = "list" THEN 1
                                  ELSE IF x[1] = "/list" THEN -1 ELSE 0
  BY <1>1 DEF Change
<1> QED
  BY <1>2, <1>3, <1>4, <1>5, <1>6


-----------------------------------------------------------------------------
(* The page and the playlist, from line to line.                           *)

Turns(st, to) ==
    \/ st \in Unopened /\ to \in Unopened \cup {"PageTop"}
    \/ st = "PageTop" /\ to \in {"PageBottom", "GroupTop", "PlainTop"}
    \/ st \in {"PlainTop", "PlainItem"} /\ to = "PlainItem"
    \/ st = "PlainItem" /\ to = "PlainBottom"
    \/ /\ st \in {"PlainBottom", "GroupBottom"}
       /\ to \in {"GroupTop", "PageBottom"}
    \/ st = "GroupTop" /\ to \in {"ItemsTop", "GroupBottom"}
    \/ st \in {"ItemsTop", "Item"} /\ to = "Item"
    \/ st = "Item" /\ to = "ItemsBottom"
    \/ st = "ItemsBottom" /\ to = "GroupBottom"

LEMMA HtmlTurns ==
    ASSUME NEW st \in HtmlStates \ {"PageBottom"}, NEW self, NEW on, NEW sep
    PROVE  Turns(st, HtmlState(st, self, on, sep))
<1> DEFINE to == HtmlState(st, self, on, sep)
<1>1. CASE st \in Unopened
  <2>1. to \in Unopened \cup {"PageTop"}
    BY <1>1, Zenon DEF HtmlState, Unopened
  <2> QED
    BY <1>1, <2>1 DEF Turns
<1>2. CASE st = "PageTop"
  <2>1. to = IF ~on THEN "PageBottom"
             ELSE IF sep THEN "GroupTop" ELSE "PlainTop"
    BY <1>2, Zenon DEF HtmlState
  <2> QED
    BY <1>2, <2>1 DEF Turns
<1>3. CASE st = "PlainTop"
  <2>1. to = "PlainItem"
    BY <1>3, Zenon DEF HtmlState
  <2> QED
    BY <1>3, <2>1 DEF Turns
<1>4. CASE st = "PlainItem"
  <2>1. to = IF on /\ ~sep THEN "PlainItem" ELSE "PlainBottom"
    BY <1>4, Zenon DEF HtmlState
  <2> QED
    BY <1>4, <2>1 DEF Turns
<1>5. CASE st \in {"PlainBottom", "GroupBottom"}
  <2>1. to = IF on THEN "GroupTop" ELSE "PageBottom"
    BY <1>5, Zenon DEF HtmlState
  <2> QED
    BY <1>5, <2>1 DEF Turns
<1>6. CASE st = "GroupTop"
  <2>1. to = BehindGroupTop(on, sep)
    BY <1>6, Zenon DEF HtmlState
  <2> QED
    BY <1>6, <2>1 DEF Turns, BehindGroupTop
<1>7. CASE st = "ItemsTop"
  <2>1. to = "Item"
    BY <1>7, Zenon DEF HtmlState
  <2> QED
    BY <1>7, <2>1 DEF Turns
<1>8. CASE st = "Item"
  <2>1. to = IF on /\ ~sep THEN "Item" ELSE "ItemsBottom"
    BY <1>8, Zenon DEF HtmlState
  <2> QED
    BY <1>8, <2>1 DEF Turns
<1>9. CASE st = "ItemsBottom"
  <2>1. to = "GroupBottom"
    BY <1>9, Zenon DEF HtmlState
  <2> QED
    BY <1>9, <2>1 DEF Turns
<1> QED
  BY <1>1, <1>2, <1>3, <1>4, <1>5, <1>6, <1>7, <1>8, <1>9
     DEF HtmlStates, InBody, InDiv, InOl

(* MenuNext changes the state and the item, and never the format.          *)
LEMMA NextState ==
    ASSUME NEW m, Writer(m), HasNext(m)
    PROVE  LET n == MenuNext(m) IN
           /\ Writer(n) /\ n.fmt = m.fmt
           /\ m.fmt = "html" => Turns(m.st, n.st)
           /\ m.fmt # "html" => n.st = IF m.st = "First" \/ n.onItem
                                         THEN "Continue" ELSE "Last"
<1> DEFINE k == IF AsksItem(m) THEN NextItem(m) ELSE m
           sep == k.it.kind # "recordings" /\ IsSep(k.it.current)
           st == IF m.fmt = "html" THEN HtmlState(m.st, m.self, k.onItem, sep)
                 ELSE ListState(m.st, k.onItem)
           n == [k EXCEPT !.st = st]
<1>1. n = MenuNext(m)
  BY Zenon DEF MenuNext
<1>2. DOMAIN k = {"fmt", "it", "self", "onItem", "st"} /\ k.fmt = m.fmt
  BY DEF Writer, NextItem
<1> HIDE DEF k
<1>3. DOMAIN n = {"fmt", "it", "self", "onItem", "st"} /\ n.st = st
      /\ n.fmt = m.fmt /\ n.onItem = k.onItem
  <2> HIDE DEF st
  <2> QED
    BY <1>2
<1> HIDE DEF n
<1>4. CASE m.fmt = "html"
  <2>1. m.st \in HtmlStates \ {"PageBottom"}
    BY <1>4 DEF Writer, HasNext
  <2>2. Turns(m.st, st)
    <3> HIDE DEF sep
    <3> QED
      BY <1>4, <2>1, HtmlTurns
  <2> HIDE DEF st
  <2>3. st \in HtmlStates
    BY <2>2 DEF Turns, HtmlStates, InBody, InDiv, InOl, Unopened
  <2>4. Writer(n)
    BY <1>3, <1>4, <2>3 DEF Writer
  <2> QED
    BY <1>1, <1>3, <1>4, <2>2, <2>4
<1>5. CASE m.fmt # "html"
  <2>1. st = IF m.st = "First" \/ n.onItem THEN "Continue" ELSE "Last"
    BY <1>3, <1>5 DEF ListState
  <2> HIDE DEF st
  <2>2. Writer(n)
    BY <1>3, <1>5, <2>1 DEF Writer, ListStates
  <2> QED
    BY <1>1, <1>3, <1>5, <2>1, <2>2
<1> QED
  BY <1>4, <1>5

(* A line that begins, ends or goes on with what the state before has left *)
(* open keeps a page nested.                                               *)
LEMMA NestedGrows ==
    ASSUME NEW s, Listing(s), NEW st, NEW x, NEW to,
           LeftOpen(s, st), LeftOpen(s \o <<x>>, to),
           x[1] = "li" => (to \in InOl /\ to # "Continue")
                          \/ (to \notin InOl /\ to = "Continue"),
           x[1] \in {"div", "/div"} => to \notin InOl,
           x[1] \in {"div", "ol"} => to \in InBody,
           x[1] \in {"/body", "/list"} =>
             to \notin InBody \cup InDiv \cup InOl \cup {"Continue"}
    PROVE  Nested(s \o <<x>>)
<1> DEFINE t == s \o <<x>>
<1>1. t # <<>> /\ Last(t) = x
  BY ListingGrows
<1> HIDE DEF t
<1>2. Tags = {"body", "div", "ol", "list"}
  BY Changes
<1>3. /\ Open(t, "body") = IF to \in InBody THEN 1 ELSE 0
      /\ Open(t, "div") = IF to \in InDiv THEN 1 ELSE 0
      /\ Open(t, "ol") = IF to \in InOl THEN 1 ELSE 0
      /\ Open(t, "list") = IF to = "Continue" THEN 1 ELSE 0
  BY DEF LeftOpen, Leaves, t
<1>4. \A tag \in Tags : Open(t, tag) \in {0, 1}
  BY <1>2, <1>3
<1>5. x[1] = "li" => Open(t, "ol") + Open(t, "list") = 1
  BY <1>3
<1>6. /\ x[1] \in {"div", "/div"} => Open(t, "ol") = 0
      /\ x[1] \in {"div", "ol"} => Open(t, "body") = 1
  BY <1>3
<1>7. x[1] \in {"/body", "/list"} => \A tag \in Tags : Open(t, tag) = 0
  BY <1>2, <1>3
<1> QED
  BY <1>1, <1>4, <1>5, <1>6, <1>7 DEF Nested, Tags, t

(* The tag of a line of a page.                                            *)
TagOf(st) ==
    IF st = "GroupTop" THEN "div"
    ELSE IF st \in {"PlainItem", "Item"} THEN "li"
    ELSE IF st \in {"PlainTop", "ItemsTop"} THEN "ol"
    ELSE IF st \in {"PlainBottom", "ItemsBottom"} THEN "/ol"
    ELSE IF st = "GroupBottom" THEN "/div"
    ELSE IF st = "PageTop" THEN "body"
    ELSE IF st = "PageBottom" THEN "/body" ELSE "head"

LEMMA HtmlTag ==
    ASSUME NEW m
    PROVE  HtmlLine(m)[1] = TagOf(m.st)
<1> DEFINE st == m.st
<1>1. CASE st = "GroupTop"
  <2>1. HtmlLine(m) = ItemLine("div", m)
    BY <1>1, Zenon DEF HtmlLine
  <2> QED
    BY <1>1, <2>1 DEF ItemLine, TagOf
<1>2. CASE st \in {"PlainItem", "Item"}
  <2>1. HtmlLine(m) = ItemLine("li", m)
    BY <1>2, Zenon DEF HtmlLine
  <2> QED
    BY <1>2, <2>1 DEF ItemLine, TagOf
<1>3. CASE st \in {"PlainTop", "ItemsTop"}
  <2>1. HtmlLine(m) = <<"ol", 0, 0>>
    BY <1>3, Zenon DEF HtmlLine
  <2> QED
    BY <1>3, <2>1 DEF TagOf
<1>4. CASE st \in {"PlainBottom", "ItemsBottom"}
  <2>1. HtmlLine(m) = <<"/ol", 0, 0>>
    BY <1>4, Zenon DEF HtmlLine
  <2> QED
    BY <1>4, <2>1 DEF TagOf
<1>5. CASE st \in {"GroupBottom", "PageTop", "PageBottom"}
  <2>1. HtmlLine(m) = IF st = "GroupBottom" THEN <<"/div", 0, 0>>
                      ELSE IF st = "PageTop" THEN <<"body", 0, 0>>
                      ELSE <<"/body", 0, 0>>
    BY <1>5, Zenon DEF HtmlLine
  <2> QED
    BY <1>5, <2>1 DEF TagOf
<1>6. CASE st \notin {"GroupTop", "PlainItem", "Item", "PlainTop", "ItemsTop",
                      "PlainBottom", "ItemsBottom", "GroupBottom", "PageTop",
                      "PageBottom"}
  <2>1. HtmlLine(m) = <<"head", 0, 0>>
    BY <1>6, Zenon DEF HtmlLine
  <2> QED
    BY <1>6, <2>1 DEF TagOf
<1> QED
  BY <1>1, <1>2, <1>3, <1>4, <1>5, <1>6

(* The next line leaves open what its state says, and a page nested.       *)
LEMMA NextLine ==
    ASSUME NEW m, Writer(m), HasNext(m),
           NEW s, Listing(s), Nested(s), LeftOpen(s, m.st)
    PROVE  LET n == MenuNext(m)
               t == s \o <<MenuLine(n, m.st)>>
           IN /\ Writer(n) /\ Nested(t) /\ LeftOpen(t, n.st)
              /\ n.st \in {"PlainItem", "Item"} => LeftOpen(s, n.st)
<1> DEFINE n == MenuNext(m)
           x == MenuLine(n, m.st)
           t == s \o <<x>>
<1> HIDE DEF n
<1>1. /\ Writer(n) /\ n.fmt = m.fmt
      /\ m.fmt = "html" => Turns(m.st, n.st)
      /\ m.fmt # "html" => n.st = IF m.st = "First" \/ n.onItem
                                    THEN "Continue" ELSE "Last"
  BY NextState DEF n
<1>2. CASE m.fmt = "html"
  <2>1. x[1] = TagOf(n.st)
    BY <1>1, <1>2, HtmlTag DEF MenuLine
  <2> HIDE DEF x
  <2>2. /\ Tags = {"body", "div", "ol", "list"}
        /\ \A tag \in Tags : /\ Open(s, tag) \in Int
                             /\ Open(t, tag) = Open(s, tag) + Change(x, tag)
    BY OpenGrows, Changes
  <2> HIDE DEF t
  <2>3. Turns(m.st, n.st)
    BY <1>1, <1>2
  <2>4. /\ Open(t, "body") = Open(s, "body")
             + IF x[1] = "body" THEN 1 ELSE IF x[1] = "/body" THEN -1 ELSE 0
        /\ Open(t, "div") = Open(s, "div")
             + IF x[1] = "div" THEN 1 ELSE IF x[1] = "/div" THEN -1 ELSE 0
        /\ Open(t, "ol") = Open(s, "ol")
             + IF x[1] = "ol" THEN 1 ELSE IF x[1] = "/ol" THEN -1 ELSE 0
        /\ Open(t, "list") = Open(s, "list")
             + IF x[1] = "list" THEN 1 ELSE IF x[1] = "/list" THEN -1 ELSE 0
    BY <2>2, Changes
  <2> DEFINE a == m.st
             b == n.st
  <2> HIDE DEF a, b
  <2>5. Turns(a, b) /\ LeftOpen(s, a) /\ x[1] = TagOf(b)
    BY <2>1, <2>3 DEF a, b
  <2>6. Leaves(t, "body", b \in InBody)
    BY <2>4, <2>5 DEF LeftOpen, Leaves, Turns, TagOf, InBody, InDiv, InOl,
                      Unopened
  <2>7. Leaves(t, "div", b \in InDiv)
    BY <2>4, <2>5 DEF LeftOpen, Leaves, Turns, TagOf, InDiv, Unopened
  <2>8. Leaves(t, "ol", b \in InOl)
    BY <2>4, <2>5 DEF LeftOpen, Leaves, Turns, TagOf, InOl, Unopened
  <2>9. Leaves(t, "list", b = "Continue")
    BY <2>4, <2>5 DEF LeftOpen, Leaves, Turns, TagOf, Unopened
  <2>10. LeftOpen(t, b)
    BY <2>6, <2>7, <2>8, <2>9 DEF LeftOpen
  <2>11. b \in {"PlainItem", "Item"} => LeftOpen(s, b)
    BY <2>5 DEF LeftOpen, Leaves, Turns, InBody, InDiv, InOl, Unopened
  <2>12. Nested(t)
    <3>1. x[1] = "li" => (b \in InOl /\ b # "Continue")
                         \/ (b \notin InOl /\ b = "Continue")
      BY <2>5 DEF TagOf, InOl
    <3>2. /\ x[1] \in {"div", "/div"} => b \notin InOl
          /\ x[1] \in {"div", "ol"} => b \in InBody
      BY <2>5 DEF TagOf, InOl, InDiv, InBody
    <3>3. x[1] \in {"/body", "/list"} =>
             b \notin InBody \cup InDiv \cup InOl \cup {"Continue"}
      BY <2>5 DEF TagOf, InOl, InDiv, InBody
    <3> QED
      BY <2>5, <2>10, <3>1, <3>2, <3>3, NestedGrows DEF t
  <2> QED
    BY <1>1, <2>10, <2>11, <2>12 DEF b, t, x, n
<1>3. CASE m.fmt # "html"
  <2>1. m.st \in {"First", "Continue"} /\ n.st \in {"Continue", "Last"}
    BY <1>1, <1>3 DEF Writer, HasNext, ListStates
  <2>2. x[1] = IF m.st = "First" THEN "list"
               ELSE IF n.st = "Continue" THEN "li" ELSE "/list"
    BY <1>1, <1>3 DEF MenuLine, ListLine, ItemLine
  <2> HIDE DEF x
  <2>3. /\ Tags = {"body", "div", "ol", "list"}
        /\ \A tag \in Tags : /\ Open(s, tag) \in Int
                             /\ Open(t, tag) = Open(s, tag) + Change(x, tag)
    BY OpenGrows, Changes
  <2>4. x[1] \in {"list", "li", "/list"}
    BY <2>2
  <2> HIDE DEF t
  <2>5. /\ Open(t, "body") = Open(s, "body") /\ Open(t, "div") = Open(s, "div")
        /\ Open(t, "ol") = Open(s, "ol")
        /\ Open(t, "list") = Open(s, "list")
             + IF x[1] = "list" THEN 1 ELSE IF x[1] = "/list" THEN -1 ELSE 0
    BY <2>3, <2>4, Changes
  <2> DEFINE a == m.st
             b == n.st
  <2>6. /\ a \notin InBody \cup InDiv \cup InOl
        /\ b \notin InBody \cup InDiv \cup InOl
    BY <2>1 DEF InBody, InDiv, InOl
  <2>7. m.st = "First" => n.st = "Continue"
    BY <1>1, <1>3
  <2>8. LeftOpen(t, b)
    BY <2>1, <2>2, <2>5, <2>6, <2>7 DEF LeftOpen, Leaves
  <2>9. Nested(t)
    <3>1. x[1] = "li" => (b \in InOl /\ b # "Continue")
                         \/ (b \notin InOl /\ b = "Continue")
      BY <2>2, <2>6
    <3>2. /\ x[1] \in {"div", "/div"} => b \notin InOl
          /\ x[1] \in {"div", "ol"} => b \in InBody
      BY <2>2
    <3>3. x[1] \in {"/body", "/list"} =>
             b \notin InBody \cup InDiv \cup InOl \cup {"Continue"}
      BY <2>1, <2>2, <2>6
    <3> HIDE DEF b
    <3>4. LeftOpen(s, a) /\ LeftOpen(s \o <<x>>, b)
      BY <2>8 DEF t
    <3> QED
      BY <3>1, <3>2, <3>3, <3>4, NestedGrows DEF t
  <2> QED
    BY <1>1, <2>1, <2>8, <2>9 DEF t, x, n
<1> QED
  BY <1>2, <1>3

(* A header opens nothing.                                                 *)
LEMMA HeaderOpens ==
    ASSUME NEW x, x[1] = "header"
    PROVE  /\ Nested(<<x>>) /\ Nested(<<>>)
           /\ \A tag \in Tags : Open(<<x>>, tag) = 0 /\ Open(<<>>, tag) = 0
<1>1. /\ \A tag \in Tags : Open(<<>>, tag) = 0
      /\ Listing(<<>>) /\ <<>> \o <<x>> = <<x>>
  BY OpenNothing, ListingSmall
<1>2. \A tag \in Tags : Open(<<x>>, tag) = 0
  <2>1. \A tag \in Tags :
          Open(<<>> \o <<x>>, tag) = Open(<<>>, tag) + Change(x, tag)
    BY <1>1, OpenGrows
  <2>2. \A tag \in Tags : Change(x, tag) = 0
    BY Changes
  <2> QED
    BY <1>1, <2>1, <2>2
<1>3. Last(<<x>>) = x
  BY DEF Last
<1>4. Nested(<<x>>)
  BY <1>2, <1>3 DEF Nested, Tags
<1>5. Nested(<<>>)
  BY DEF Nested
<1> QED
  BY <1>1, <1>2, <1>4, <1>5

-----------------------------------------------------------------------------
(* The steps.                                                              *)

LEMMA HTTPInvInit == HTTPInit => HTTPInv
<1> SUFFICES ASSUME HTTPInit PROVE HTTPInv
  OBVIOUS
<1>1. /\ status = "request" /\ req = NoReq /\ range = NoRange /\ menu = Nil
      /\ streamer = Nil /\ out = <<>> /\ deferClose = FALSE /\ sent = <<>>
      /\ conn = "open"
  BY DEF HTTPInit
<1>2. HTTPTypes
  BY <1>1, ListingSmall DEF HTTPTypes
<1>3. Nested(sent)
  BY <1>1 DEF Nested
<1>4. StreamAfterHeader /\ StartsAsAsked
  BY <1>1 DEF StreamAfterHeader, StartsAsAsked, HeadNoBody
<1>5. Job
  BY <1>1 DEF Job, Asking, Idle
<1> QED
  BY <1>2, <1>3, <1>4, <1>5 DEF HTTPInv

(* Before anything is sent only the types and the job matter.              *)
LEMMA NothingSent ==
    ASSUME sent' = <<>>, streamer' # Nil => streamer'.started = FALSE,
           HTTPTypes', conn' = "open" => Job'
    PROVE  HTTPInv'
<1>1. Nested(sent)'
  BY DEF Nested
<1>2. HeadNoBody'
  BY DEF HeadNoBody
<1>3. StreamAfterHeader' /\ StartsAsAsked'
  BY <1>2 DEF StreamAfterHeader, StartsAsAsked
<1> QED
  BY <1>1, <1>3 DEF HTTPInv

(* A step that leaves what was sent and the streamer alone.                *)
LEMMA SameSent ==
    ASSUME HTTPInv,
           UNCHANGED <<sent, streamer, req, range, out, deferClose, status>>,
           conn' = "open" => Job'
    PROVE  HTTPInv'
<1>1. HTTPTypes' /\ Nested(sent)'
  BY DEF HTTPInv, HTTPTypes
<1>2. StreamAfterHeader' /\ StartsAsAsked'
  BY DEF HTTPInv, StreamAfterHeader, HeadNoBody, StartsAsAsked
<1> QED
  BY <1>1, <1>2 DEF HTTPInv

LEMMA ClosesKept ==
    ASSUME HTTPInv, Close
    PROVE  HTTPInv'
BY SameSent DEF Close, reqVars

LEMMA RequestLineKept ==
    ASSUME HTTPInv, RequestLine
    PROVE  HTTPInv'
<1>1. CASE Close
  BY <1>1, ClosesKept
<1>2. CASE /\ \E r \in Requests : req' = r
           /\ status' = "headers"
           /\ UNCHANGED <<listVars, acceptable, auth, range, menu, streamer,
                          out, deferClose, sent, conn>>
  <2>1. Asking
    BY <1>2 DEF RequestLine, HTTPInv, Job, Asking, Paging, PageDone,
                Answering, Streaming
  <2>2. Asking'
    BY <1>2, <2>1 DEF Asking, Idle
  <2>3. HTTPTypes'
    BY <1>2 DEF HTTPInv, HTTPTypes
  <2> QED
    BY <1>2, <2>1, <2>2, <2>3, NothingSent DEF Asking, Idle, Job
<1> QED
  BY <1>1, <1>2 DEF RequestLine

LEMMA HeaderLineKept ==
    ASSUME HTTPInv, HeaderLine
    PROVE  HTTPInv'
<1>1. /\ UNCHANGED <<status, req, menu, streamer, out, deferClose, sent, conn>>
      /\ status = "headers" /\ conn = "open"
      /\ range' \in {NoRange, 0, Offset}
  BY DEF HeaderLine, HTTPInv, HTTPTypes, Authorization
<1>2. Asking
  BY <1>1 DEF HTTPInv, Job, Asking, Paging, PageDone, Answering, Streaming
<1>3. Asking'
  BY <1>1, <1>2 DEF Asking, Idle
<1>4. HTTPTypes'
  BY <1>1 DEF HTTPInv, HTTPTypes
<1> QED
  BY <1>1, <1>2, <1>3, <1>4, NothingSent DEF Asking, Idle, Job

LEMMA LateLineKept ==
    ASSUME HTTPInv, LateLine
    PROVE  HTTPInv'
BY ClosesKept DEF LateLine

(* What ProcessRequest leaves to be shown, once it has answered.           *)
Answers ==
    /\ streamer' # Nil => /\ streamer'.started = FALSE
                          /\ DOMAIN streamer' = {"kind", "prio", "pos", "from",
                                                 "started"}
    /\ conn' = "open" => Paging' \/ Answering'

LEMMA RangedAnswers ==
    ASSUME NEW code, NEW from, NEW last, Ranged(code, from, last),
           menu = Nil, sent = <<>>, sent' = sent, status' = "body",
           UNCHANGED <<menu, req, range>>, last \in BOOLEAN,
           streamer' # Nil =>
             /\ streamer'.started = FALSE
             /\ DOMAIN streamer' = {"kind", "prio", "pos", "from", "started"},
           ~last => Good(<<"header", code, from>>)'
    PROVE  Answers
<1>1. CASE Fits(req)
  <2> DEFINE h == <<"header", code, from>>
  <2>1. out' = <<h>> /\ deferClose' = last /\ h[1] = "header"
    BY <1>1 DEF Ranged
  <2>2. out'[1] = h
    BY <2>1
  <2> HIDE DEF h
  <2>3. ~deferClose' => Good(out[1])'
    BY <2>1, <2>2 DEF h, Good, Announced, NoHead
  <2>4. Answering'
    BY <2>1, <2>2, <2>3 DEF Answering
  <2> QED
    BY <2>4 DEF Answers
<1>2. CASE ~Fits(req)
  BY <1>2 DEF Ranged, Answers
<1> QED
  BY <1>1, <1>2

LEMMA NoJobAnswers ==
    ASSUME NEW code, NoJob(code), Asking, sent' = sent, status' = "body",
           UNCHANGED <<req, range>>
    PROVE  Answers
<1>1. Ranged(code, 0, TRUE) /\ menu' = menu /\ streamer' = streamer
  BY DEF NoJob, Response
<1>2. menu = Nil /\ streamer' = Nil /\ sent = <<>>
  BY <1>1 DEF Asking, Idle
<1> QED
  BY <1>1, <1>2, RangedAnswers

LEMMA PlainAnswers ==
    ASSUME Plain(200, FALSE), Asking, sent' = sent, status' = "body",
           UNCHANGED <<menu, req, range>>, streamer' # Nil,
           streamer'.started = FALSE,
           DOMAIN streamer' = {"kind", "prio", "pos", "from", "started"},
           Good(<<"header", 200, 0>>)'
    PROVE  Answers
<1> DEFINE h == <<"header", 200, 0>>
<1>1. out' = <<h>> /\ deferClose' = FALSE /\ h[1] = "header"
  BY DEF Plain
<1>2. out'[1] = h
  BY <1>1
<1> HIDE DEF h
<1>3. Good(out[1])'
  BY <1>1, <1>2 DEF h, Good, Announced, NoHead
<1>4. Answering'
  BY <1>1, <1>2, <1>3 DEF Answering, Asking, Idle
<1> QED
  BY <1>4 DEF Answers

LEMMA LiveRight ==
    ASSUME NEW prio
    PROVE  /\ Live(prio) # Nil /\ Live(prio).started = FALSE
           /\ Live(prio).kind = "live"
           /\ DOMAIN Live(prio) = {"kind", "prio", "pos", "from", "started"}
<1>1. Live(prio).kind = "live" /\ Nil.kind = "none"
  BY DEF Live, Nil
<1>2. Live(prio) # Nil
  BY <1>1
<1> QED
  BY <1>1, <1>2 DEF Live

LEMMA ChannelAnswers ==
    ASSUME ProcessChannel, Asking, sent' = sent, status' = "body",
           UNCHANGED <<req, range>>
    PROVE  Answers
<1>0. menu = Nil /\ sent = <<>>
  BY DEF Asking, Idle
<1>1. ASSUME NEW code, NoJob(code)
      PROVE  Answers
  BY <1>1, NoJobAnswers
<1>2. CASE /\ req.method = "GET"
           /\ streamer' = Live("http") /\ UNCHANGED menu
           /\ IF req.type = "EXT" THEN Plain(200, FALSE)
              ELSE Response(200, FALSE)
  <2>1. /\ streamer' # Nil /\ streamer'.started = FALSE
        /\ streamer'.kind = "live"
        /\ DOMAIN streamer' = {"kind", "prio", "pos", "from", "started"}
    BY <1>2, LiveRight
  <2>2. Good(<<"header", 200, 0>>)'
    BY <1>2, <2>1 DEF Good, Announced, NoHead
  <2>3. CASE req.type = "EXT"
    BY <1>2, <2>1, <2>2, <2>3, PlainAnswers
  <2>4. CASE req.type # "EXT"
    <3>1. Ranged(200, 0, FALSE)
      BY <1>2, <2>4 DEF Response
    <3> QED
      BY <1>0, <1>2, <2>1, <2>2, <3>1, RangedAnswers
  <2> QED
    BY <2>3, <2>4
<1>3. CASE req.type = "EXT" /\ Plain(200, FALSE) /\ streamer' = Live("idle")
           /\ UNCHANGED menu /\ req.method = "HEAD"
  <2>1. /\ streamer' # Nil /\ streamer'.started = FALSE
        /\ streamer'.kind = "live"
        /\ DOMAIN streamer' = {"kind", "prio", "pos", "from", "started"}
    BY <1>3, LiveRight
  <2>2. Good(<<"header", 200, 0>>)'
    BY <1>3, <2>1 DEF Good, Announced, NoHead
  <2> QED
    BY <1>3, <2>1, <2>2, PlainAnswers
<1> QED
  BY ZenonT(40), <1>1, <1>2, <1>3 DEF ProcessChannel

(* Where the streamer of a recording begins.                               *)
LEMMA RecStreamerRight ==
    ASSUME HTTPAssumption, range \in {NoRange, 0, Offset}, req \in Requests
    PROVE  LET faked == range = 0 /\ req.fake
               s == RecStreamer(range = 0 /\ req.fake)
               whole == [s EXCEPT !.from = 0]
           IN \A t \in {s, whole} :
                /\ t # Nil /\ t.started = FALSE /\ t.kind = "rec"
                /\ DOMAIN t = {"kind", "prio", "pos", "from", "started"}
                /\ req.method = "GET" => t.pos = IF faked THEN 0 ELSE req.pos
                /\ t.from \in Int /\ t.pos \in Int /\ req.pos \in Int
                /\ whole.from = 0
                /\ s.from = IF faked THEN req.pos ELSE range
<1> DEFINE faked == range = 0 /\ req.fake
           s == RecStreamer(range = 0 /\ req.fake)
           whole == [s EXCEPT !.from = 0]
<1>1. range \in Int /\ req.pos \in Int /\ req.fake \in BOOLEAN
  BY DEF HTTPAssumption, NoRange
<1>2. /\ s.started = FALSE /\ s.kind = "rec"
      /\ DOMAIN s = {"kind", "prio", "pos", "from", "started"}
      /\ req.method = "GET" => s.pos = IF faked THEN 0 ELSE req.pos
      /\ s.from = IF faked THEN range + req.pos ELSE range
      /\ s.pos \in Int
  BY <1>1 DEF RecStreamer
<1>3. s.from = IF faked THEN req.pos ELSE range
  BY <1>1, <1>2
<1> HIDE DEF s
<1>4. /\ whole.started = FALSE /\ whole.kind = "rec" /\ whole.from = 0
      /\ whole.pos = s.pos
      /\ DOMAIN whole = {"kind", "prio", "pos", "from", "started"}
  BY <1>2
<1> HIDE DEF whole
<1>5. Nil.kind = "none"
  BY DEF Nil
<1>6. s # Nil /\ whole # Nil
  BY <1>2, <1>4, <1>5
<1>7. s.from \in Int
  BY <1>1, <1>3
<1> HIDE DEF faked
<1>8. \A t \in {s, whole} :
                /\ t # Nil /\ t.started = FALSE /\ t.kind = "rec"
                /\ DOMAIN t = {"kind", "prio", "pos", "from", "started"}
                /\ req.method = "GET" => t.pos = IF faked THEN 0 ELSE req.pos
                /\ t.from \in Int /\ t.pos \in Int /\ req.pos \in Int
                /\ whole.from = 0
                /\ s.from = IF faked THEN req.pos ELSE range
  BY <1>1, <1>2, <1>3, <1>4, <1>6, <1>7
<1> QED
  BY <1>8 DEF faked, s, whole

LEMMA RecordingAnswers ==
    ASSUME ProcessRecording, Asking, HTTPAssumption, req.path = "rec",
           range \in {NoRange, 0, Offset}, req \in Requests,
           req.method \in {"GET", "HEAD"}, sent' = sent, status' = "body",
           UNCHANGED <<req, range>>
    PROVE  Answers
<1> DEFINE head == req.method = "HEAD"
           faked == range = 0 /\ req.fake
           rec == recordings[req.nr]
           s == RecStreamer(range = 0 /\ req.fake)
           whole == [s EXCEPT !.from = 0]
           remuxed == req.type # "TS" /\ ~rec.pes
<1>0. menu = Nil /\ sent = <<>>
  BY DEF Asking, Idle
<1>1. \A t \in {s, whole} :
        /\ t # Nil /\ t.started = FALSE /\ t.kind = "rec"
        /\ DOMAIN t = {"kind", "prio", "pos", "from", "started"}
        /\ req.method = "GET" => t.pos = IF faked THEN 0 ELSE req.pos
        /\ t.from \in Int /\ t.pos \in Int /\ req.pos \in Int
        /\ whole.from = 0
        /\ s.from = IF faked THEN req.pos ELSE range
  BY RecStreamerRight
<1>2. \/ rec.pes /\ req.type # "PES" /\ NoJob(503)
      \/ /\ ~(rec.pes /\ req.type # "PES") /\ UNCHANGED menu
         /\ \/ /\ req.type = "EXT" /\ Plain(200, FALSE)
               /\ streamer' = whole
            \/ /\ req.type = "ES" /\ req.audio /\ Response(200, head)
               /\ streamer' = whole
            \/ /\ req.type # "EXT" /\ ~(req.type = "ES" /\ req.audio)
               /\ remuxed /\ Response(200, FALSE) /\ streamer' = whole
            \/ /\ ~remuxed /\ range = NoRange
               /\ Response(200, head) /\ streamer' = whole
            \/ /\ ~remuxed /\ range # NoRange
               /\ \E t \in {s, whole} :
                    Ranged(206, t.from, head) /\ streamer' = t
            \/ /\ ~remuxed /\ range # NoRange
               /\ Response(416, TRUE) /\ streamer' = whole
  BY ZenonT(40) DEF ProcessRecording
<1> HIDE DEF s, whole, remuxed, rec, head
<1>3. CASE NoJob(503)
  BY <1>3, NoJobAnswers
<1>4. ASSUME NEW t \in {s, whole}, streamer' = t
      PROVE  /\ streamer' # Nil /\ streamer'.started = FALSE
             /\ streamer'.kind = "rec"
             /\ DOMAIN streamer' = {"kind", "prio", "pos", "from", "started"}
             /\ req.method = "GET" =>
                  streamer'.pos = IF faked THEN 0 ELSE req.pos
             /\ streamer'.from = t.from
             /\ streamer'.from \in Int /\ streamer'.pos \in Int
  BY <1>1, <1>4
(* The header announces where the streamer begins.                         *)
<1>5. ASSUME NEW t \in {s, whole}, streamer' = t, NEW code \in {200, 206},
             code = 200 => t.from = 0,
             req.method = "HEAD" => req.type # "TS"
      PROVE  Good(<<"header", code, t.from>>)'
  <2>1. NoHead'
    BY <1>5 DEF NoHead
  <2> DEFINE h == <<"header", code, t.from>>
  <2>2. h[1] = "header" /\ h[2] = code /\ h[3] = t.from
    OBVIOUS
  <2> HIDE DEF h
  <2>3. Announced(h)'
    <3>1. SUFFICES ASSUME req.method = "GET"
          PROVE  /\ streamer'.pos + streamer'.from
                      = h[3] + IF faked THEN 0 ELSE req.pos
                 /\ h[3] # 0 => /\ h[2] = 206
                                /\ h[3] = IF faked THEN req.pos ELSE range
      BY <3>1 DEF Announced
    <3>2. /\ streamer'.pos = IF faked THEN 0 ELSE req.pos
          /\ streamer'.from = t.from /\ t.from \in Int /\ req.pos \in Int
      BY <1>1, <1>4, <1>5, <3>1
    <3>3. t.from # 0 => t.from = IF faked THEN req.pos ELSE range
      BY <1>1, <1>5
    <3> HIDE DEF faked
    <3>4. streamer'.pos + streamer'.from = t.from + IF faked THEN 0 ELSE req.pos
      BY <3>2
    <3> QED
      BY <1>5, <2>2, <3>3, <3>4
  <2> QED
    BY <1>4, <1>5, <2>1, <2>2, <2>3 DEF Good, h
<1>6. ASSUME UNCHANGED menu, NEW t \in {s, whole}, streamer' = t, NEW code,
             NEW last \in BOOLEAN, Ranged(code, t.from, last),
             code = 200 => t.from = 0,
             ~last => code \in {200, 206}
                      /\ (req.method = "HEAD" => req.type # "TS")
      PROVE  Answers
  <2>1. ~last => Good(<<"header", code, t.from>>)'
    BY <1>5, <1>6
  <2>2. /\ streamer'.started = FALSE
        /\ DOMAIN streamer' = {"kind", "prio", "pos", "from", "started"}
    BY <1>4, <1>6
  <2> QED
    BY ZenonT(40), <1>0, <1>6, <2>1, <2>2, RangedAnswers
<1>7. whole \in {s, whole} /\ s \in {s, whole} /\ whole.from = 0
  BY <1>1
<1>8. head \in BOOLEAN /\ (~head => req.method # "HEAD")
  BY DEF head
<1>9. CASE UNCHANGED menu /\ req.type = "EXT" /\ Plain(200, FALSE)
           /\ streamer' = whole
  <2>1. PICK t \in {s, whole} : t = whole
    BY <1>7
  <2>2. Good(<<"header", 200, t.from>>)'
    BY <1>5, <1>7, <1>9, <2>1
  <2>3. t.from = 0
    BY <1>7, <2>1
  <2>4. Good(<<"header", 200, 0>>)'
    BY <2>2, <2>3
  <2>5. /\ streamer' # Nil /\ streamer'.started = FALSE
        /\ DOMAIN streamer' = {"kind", "prio", "pos", "from", "started"}
    BY <1>4, <1>9, <2>1
  <2> QED
    BY <1>9, <2>4, <2>5, PlainAnswers
<1>10. CASE UNCHANGED menu /\ Response(200, head) /\ streamer' = whole
  <2>1. Ranged(200, whole.from, head)
    BY <1>7, <1>10 DEF Response
  <2> QED
    BY <1>6, <1>7, <1>8, <1>10, <2>1
<1>11. CASE UNCHANGED menu /\ remuxed /\ Response(200, FALSE)
            /\ streamer' = whole
  <2>1. Ranged(200, whole.from, FALSE)
    BY <1>7, <1>11 DEF Response
  <2>2. req.type # "TS"
    BY <1>11 DEF remuxed
  <2> QED
    BY ZenonT(40), <1>6, <1>7, <1>11, <2>1, <2>2
<1>12. ASSUME UNCHANGED menu, NEW t \in {s, whole},
              Ranged(206, t.from, head), streamer' = t
       PROVE  Answers
  BY <1>6, <1>8, <1>12
<1>13. CASE UNCHANGED menu /\ Response(416, TRUE) /\ streamer' = whole
  <2>1. Ranged(416, whole.from, TRUE)
    BY ZenonT(40), <1>7, <1>13 DEF Response
  <2> QED
    BY ZenonT(40), <1>6, <1>7, <1>13, <2>1
<1>14. \/ NoJob(503)
       \/ /\ UNCHANGED menu
          /\ \/ req.type = "EXT" /\ Plain(200, FALSE) /\ streamer' = whole
             \/ Response(200, head) /\ streamer' = whole
             \/ remuxed /\ Response(200, FALSE) /\ streamer' = whole
             \/ \E t \in {s, whole} :
                  Ranged(206, t.from, head) /\ streamer' = t
             \/ Response(416, TRUE) /\ streamer' = whole
  <2> HIDE DEF faked
  <2> QED
    BY ZenonT(40), <1>2
<1>15. CASE \E t \in {s, whole} :
              UNCHANGED menu /\ Ranged(206, t.from, head) /\ streamer' = t
  BY <1>12, <1>15
<1> QED
  <2> HIDE DEF faked
  <2> QED
    BY ZenonT(40), <1>3, <1>9, <1>10, <1>11, <1>13, <1>14, <1>15

LEMMA MenuAnswers ==
    ASSUME ProcessMenu, Asking, sent' = sent, status' = "body",
           UNCHANGED <<req, range>>
    PROVE  Answers
<1> DEFINE h == <<"header", 200, 0>>
<1>1. /\ streamer' = Nil /\ sent' = <<>> /\ menu' = MenuListFromString
      /\ out' = <<h>> /\ deferClose' = (req.method = "HEAD")
  BY DEF ProcessMenu, Plain, Asking, Idle
<1>2. \A it : LET m == Menu(req.fmt, it, req.self) IN
        /\ Writer(m) /\ m # Nil
        /\ m.st \in {"Root", "First"}
  <2> TAKE it
  <2> DEFINE m == Menu(req.fmt, it, req.self)
  <2>1. /\ DOMAIN m = {"fmt", "it", "self", "onItem", "st"}
        /\ m.fmt = req.fmt
        /\ m.st = IF req.fmt = "html" THEN "Root" ELSE "First"
    BY DEF Menu
  <2>2. DOMAIN Nil = {"kind"}
    BY DEF Nil
  <2> HIDE DEF m
  <2>3. m # Nil
    BY <2>1, <2>2
  <2>4. Writer(m)
    BY <2>1 DEF Writer, HtmlStates, ListStates, Unopened
  <2> QED
    BY <2>1, <2>3, <2>4 DEF m
<1>3. Writer(menu') /\ menu' # Nil /\ menu'.st \in {"Root", "First"}
  BY <1>1, <1>2 DEF MenuListFromString
<1>4. h[1] = "header"
  OBVIOUS
<1> HIDE DEF h
<1>5. sent' \o out' = <<h>> /\ OneAtMost(out')
  <2>1. out'[1] = h
    BY <1>1
  <2> QED
    BY <1>1, <2>1, ListingSmall DEF OneAtMost
<1>6. Nested(<<h>>) /\ \A tag \in Tags : Open(<<h>>, tag) = 0
  BY <1>4, HeaderOpens
<1>7. LeftOpen(<<h>>, menu'.st)
  <2>1. Tags = {"body", "div", "ol", "list"}
    BY Changes
  <2> QED
    BY <1>3, <1>6, <2>1 DEF LeftOpen, Leaves, InBody, InDiv, InOl
<1>8. Paging'
  BY <1>1, <1>3, <1>5, <1>6, <1>7 DEF Paging
<1> QED
  BY <1>1, <1>8 DEF Answers

LEMMA ProcessRequestKept ==
    ASSUME HTTPInv, HTTPAssumption, ProcessRequest
    PROVE  HTTPInv'
<1>1. /\ conn = "open" /\ status = "headers" /\ status' = "body"
      /\ UNCHANGED <<req, range, sent>>
      /\ IF ~Authorized THEN NoJob(401)
         ELSE IF req.method \in {"GET", "HEAD"} THEN ProcessURI
         ELSE NoJob(400)
  BY DEF ProcessRequest, reqVars
<1>2. Asking
  BY <1>1 DEF HTTPInv, Job, Asking, Paging, PageDone, Answering, Streaming
<1>3. req \in Requests /\ range \in {NoRange, 0, Offset} /\ HTTPTypes'
  BY <1>1 DEF HTTPInv, HTTPTypes
<1>4. ASSUME NEW code, NoJob(code) PROVE Answers
  BY <1>1, <1>2, <1>4, NoJobAnswers
<1>5. ASSUME ProcessURI, req.method \in {"GET", "HEAD"}
      PROVE  Answers
  <2>1. \/ req.path = "menu" /\ ProcessMenu
        \/ req.path = "channel" /\ ProcessChannel
        \/ req.path = "rec" /\ ProcessRecording
        \/ NoJob(400)
    BY <1>5, Zenon DEF ProcessURI, RecPlayerFromString
  <2> QED
    BY <1>1, <1>2, <1>3, <1>4, <1>5, <2>1, MenuAnswers, ChannelAnswers,
       RecordingAnswers
<1>6. Answers
  BY <1>1, <1>4, <1>5
<1> QED
  BY <1>1, <1>2, <1>3, <1>6, NothingSent DEF Answers, Asking, Job

(* What was written: the last of it is the page so far.                    *)
LEMMA Written ==
    ASSUME Listing(sent), OneAtMost(out)
    PROVE  /\ Listing(sent \o out)
           /\ sent = <<>> => sent \o out = out /\ Len(out) <= 1
<1>1. CASE out = <<>>
  BY <1>1, ListingSmall
<1>2. CASE out = <<out[1]>>
  <2> DEFINE x == out[1]
  <2>1. out = <<x>>
    BY <1>2
  <2> HIDE DEF x
  <2>2. Listing(sent \o <<x>>) /\ <<>> \o <<x>> = <<x>> /\ Len(<<x>>) = 1
    BY ListingGrows, ListingSmall
  <2>3. Listing(sent \o out)
    BY <2>1, <2>2
  <2>4. sent = <<>> => sent \o out = out
    BY <2>1, <2>2
  <2>5. Len(out) <= 1
    BY <2>1, <2>2
  <2> QED
    BY <2>3, <2>4, <2>5
<1> QED
  BY <1>1, <1>2 DEF OneAtMost

(* A line of a page, or its end.                                           *)
LEMMA PageKept ==
    ASSUME HTTPInv, conn = "open", Paging, Write
    PROVE  HTTPInv'
<1> DEFINE t == sent \o out
<1>1. /\ status = "body" /\ menu # Nil /\ streamer = Nil /\ Writer(menu)
      /\ OneAtMost(out) /\ Nested(t) /\ LeftOpen(t, menu.st)
      /\ req.method = "HEAD" => sent = <<>> /\ deferClose
      /\ sent' = t /\ UNCHANGED <<req, range>>
      /\ HTTPTypes
  BY DEF Paging, Write, reqVars, HTTPInv
<1>2. Listing(t) /\ (sent = <<>> => Len(t) <= 1)
  BY <1>1, Written DEF HTTPTypes
<1> HIDE DEF t
<1>3. /\ streamer' = Nil
      /\ status' # "request"
      /\ req.method = "HEAD" => Len(t) <= 1
  BY <1>1, <1>2 DEF Write, Flushed, FlushedMenu
<1>4. HTTPTypes'
  BY <1>1, <1>2, <1>3 DEF HTTPTypes
<1>5. Nested(sent') /\ StreamAfterHeader' /\ StartsAsAsked'
  <2>1. HeadNoBody'
    BY <1>1, <1>3 DEF HeadNoBody
  <2> QED
    BY <1>1, <1>3, <2>1 DEF StreamAfterHeader, StartsAsAsked
<1>6. ASSUME conn' = "open" PROVE Job'
  <2>0. deferClose # TRUE /\ FlushedMenu
    BY <1>1, <1>6 DEF Write, Finished, Flushed
  <2>1. CASE HasNext(menu) /\ \E m \in {MenuNext(menu)} :
               /\ menu' = m /\ UNCHANGED status
               /\ \/ out' = <<MenuLine(m, menu.st)>> /\ UNCHANGED deferClose
                  \/ /\ m.st \in {"PlainItem", "Item"}
                     /\ deferClose' = TRUE /\ out' = <<>>
    <3> DEFINE n == MenuNext(menu)
               x == MenuLine(n, menu.st)
    <3>1. /\ Writer(n) /\ Nested(t \o <<x>>) /\ LeftOpen(t \o <<x>>, n.st)
          /\ n.st \in {"PlainItem", "Item"} => LeftOpen(t, n.st)
      BY <1>1, <1>2, <2>1, NextLine
    <3>2. n # Nil
      <4>1. DOMAIN n # DOMAIN Nil
        BY <3>1 DEF Writer, Nil
      <4> QED
        BY <4>1
    <3>3. /\ menu' = n /\ status' = "body"
          /\ \/ out' = <<x>>
             \/ out' = <<>> /\ n.st \in {"PlainItem", "Item"}
      BY <1>1, <2>1
    <3> HIDE DEF n, x
    <3>4. /\ OneAtMost(out') /\ Nested(sent' \o out')
          /\ LeftOpen(sent' \o out', menu'.st)
      <4>1. CASE out' = <<x>>
        BY <1>1, <3>1, <3>3, <4>1 DEF OneAtMost
      <4>2. CASE out' = <<>> /\ n.st \in {"PlainItem", "Item"}
        <5>1. t \o <<>> = t
          BY <1>2, ListingSmall
        <5> QED
          BY <1>1, <3>1, <3>3, <4>2, <5>1 DEF OneAtMost, t
      <4> QED
        BY <3>3, <4>1, <4>2
    <3>5. req.method # "HEAD"
      BY <1>1, <2>0
    <3>6. Paging'
      BY <1>1, <1>3, <3>1, <3>2, <3>3, <3>4, <3>5 DEF Paging
    <3> QED
      BY <3>6 DEF Job
  <2>2. CASE ~HasNext(menu) /\ menu' = Nil /\ status' = "finished"
             /\ deferClose' = TRUE /\ out' = <<>>
    <3>1. req.method # "HEAD"
      BY <1>1, <2>0
    <3>2. PageDone'
      BY <1>1, <1>3, <2>2, <3>1 DEF PageDone, Idle
    <3> QED
      BY <3>2 DEF Job
  <2> QED
    BY <2>0, <2>1, <2>2 DEF FlushedMenu
<1> QED
  BY <1>4, <1>5, <1>6 DEF HTTPInv

(* A header, and the start of the streamer behind it.                      *)
LEMMA AnswerKept ==
    ASSUME HTTPInv, conn = "open", Answering, Write
    PROVE  HTTPInv'
<1> DEFINE h == out[1]
<1>1. /\ status = "body" /\ menu = Nil /\ sent = <<>>
      /\ out = <<h>> /\ h[1] = "header"
      /\ streamer # Nil => /\ streamer.started = FALSE
                           /\ DOMAIN streamer = {"kind", "prio", "pos", "from",
                                                 "started"}
      /\ deferClose \in BOOLEAN
      /\ ~deferClose => Good(h)
      /\ sent' = sent \o out /\ UNCHANGED <<req, range>>
      /\ HTTPTypes
  BY DEF Answering, Write, reqVars, HTTPInv
<1> HIDE DEF h
<1>2. sent' = <<h>> /\ Len(<<h>>) = 1 /\ <<h>>[1] = h /\ Listing(<<h>>)
  <2>1. OneAtMost(out)
    BY <1>1 DEF OneAtMost, h
  <2> QED
    BY <1>1, <2>1, Written, ListingSmall DEF HTTPTypes
<1>3. Nested(sent')
  BY <1>1, <1>2, HeaderOpens
<1>4. HeadNoBody'
  BY <1>1, <1>2 DEF HeadNoBody
<1>5. CASE Finished
  <2>1. UNCHANGED <<streamer, status>> /\ conn' = "closed"
    BY <1>5 DEF Write
  <2>2. HTTPTypes'
    BY <1>1, <1>2, <2>1 DEF HTTPTypes
  <2>3. StreamAfterHeader' /\ StartsAsAsked'
    BY <1>1, <1>4, <2>1 DEF StreamAfterHeader, StartsAsAsked
  <2> QED
    BY <1>3, <2>1, <2>2, <2>3 DEF HTTPInv
<1>6. CASE ~Finished
  <2>1. /\ streamer' = [streamer EXCEPT !.started = TRUE]
        /\ status' = "finished" /\ out' = <<>>
        /\ UNCHANGED <<menu, deferClose>>
    BY <1>1, <1>6 DEF Write, Flushed, FlushedStart
  <2>2. Good(h) /\ deferClose = FALSE
    BY <1>1, <1>6 DEF Finished
  <2>3. /\ streamer # Nil
        /\ DOMAIN streamer = {"kind", "prio", "pos", "from", "started"}
    BY <1>1, <2>2 DEF Good
  <2>4. /\ streamer'.started = TRUE /\ streamer'.kind = streamer.kind
        /\ streamer'.pos = streamer.pos /\ streamer'.from = streamer.from
        /\ DOMAIN streamer' = DOMAIN streamer
    BY <2>1, <2>3
  <2>5. streamer' # Nil
    <3>1. DOMAIN streamer' # DOMAIN Nil
      BY <2>3, <2>4 DEF Nil
    <3> QED
      BY <3>1
  <2>6. NoHead /\ h[2] \in {200, 206} /\ Announced(h)
    BY <2>2 DEF Good
  <2>7. Good(sent[1])'
    <3>1. NoHead'
      BY <1>1, <2>6 DEF NoHead
    <3>2. sent'[1] = h
      BY <1>2
    <3>3. streamer.kind = "rec" /\ req.method = "GET"
            => LET faked == range = 0 /\ req.fake
               IN /\ streamer.pos + streamer.from
                       = h[3] + IF faked THEN 0 ELSE req.pos
                  /\ h[3] # 0 => /\ h[2] = 206
                                 /\ h[3] = IF faked THEN req.pos ELSE range
      BY <2>6 DEF Announced
    <3>4. Announced(sent[1])'
      BY <1>1, <2>4, <3>2, <3>3 DEF Announced
    <3> QED
      BY <1>1, <2>5, <2>6, <3>1, <3>2, <3>4 DEF Good
  <2>8. Streaming'
    <3>1. deferClose' = FALSE
      BY <1>1, <2>1, <1>6 DEF Finished
    <3>2. sent' = <<sent'[1]>>
      BY <1>2
    <3> QED
      BY <1>1, <2>1, <2>4, <2>5, <2>7, <3>1, <3>2 DEF Streaming
  <2>9. HTTPTypes'
    BY <1>1, <1>2, <2>1 DEF HTTPTypes
  <2>10. StreamAfterHeader' /\ StartsAsAsked'
    <3>1. \A i \in 2 .. Len(sent') : sent'[i][1] = "body"
      BY <1>2
    <3>2. sent' # <<>>
      BY <1>2
    <3> QED
      BY <1>4, <2>1, <2>7, <2>8, <3>1, <3>2
         DEF StreamAfterHeader, StartsAsAsked, Good, Announced, Streaming
  <2> QED
    BY <1>3, <2>8, <2>9, <2>10 DEF HTTPInv, Job
<1> QED
  BY <1>5, <1>6

LEMMA WriteKept ==
    ASSUME HTTPInv, Write
    PROVE  HTTPInv'
<1>1. conn = "open" /\ Job /\ (out # <<>> \/ deferClose)
  BY DEF Write, HTTPInv
<1>2. CASE Asking \/ Streaming
  BY <1>1, <1>2 DEF Asking, Streaming
<1>3. CASE PageDone
  <2>1. deferClose /\ out = <<>> /\ Listing(sent)
    BY <1>3 DEF PageDone, HTTPInv, HTTPTypes
  <2>2. /\ sent' = sent /\ conn' = "closed" /\ out' = out
        /\ UNCHANGED <<status, deferClose, streamer, req, range>>
    BY <2>1, ListingSmall DEF Write, Finished, reqVars
  <2> QED
    BY <2>2, SameSent
<1> QED
  BY <1>1, <1>2, <1>3, PageKept, AnswerKept DEF Job

(* The streamer has the socket for itself.                                 *)
LEMMA StreamKept ==
    ASSUME HTTPInv, Stream
    PROVE  HTTPInv'
<1>1. /\ conn = "open" /\ streamer # Nil /\ streamer.started
      /\ UNCHANGED <<req, range, status, menu, streamer, out, deferClose>>
  BY DEF Stream, reqVars
<1>2. CASE conn' = "closed" /\ UNCHANGED sent
  BY <1>1, <1>2, SameSent
<1>3. CASE /\ sent # <<>> /\ Last(sent)[1] # "body"
           /\ sent' = Append(sent, <<"body", 0, 0>>) /\ UNCHANGED conn
  <2>1. Streaming
    BY <1>1 DEF HTTPInv, Job, Asking, Idle, Paging, PageDone, Answering,
                Streaming
  <2> DEFINE h == sent[1]
             b == <<"body", 0, 0>>
  <2>2. sent = <<h>>
    <3>1. CASE sent = <<sent[1], sent[2]>> /\ sent[2][1] = "body"
      <4>1. Last(sent) = sent[2]
        BY <3>1 DEF Last
      <4> QED
        BY <1>3, <3>1, <4>1
    <3> QED
      BY <2>1, <3>1 DEF Streaming
  <2>3. h[1] = "header" /\ b[1] = "body" /\ Good(h)
    BY <2>1 DEF Streaming, Good
  <2> HIDE DEF h, b
  <2>4. /\ sent' = <<h, b>> /\ sent'[1] = h /\ sent'[2] = b /\ Len(sent') = 2
        /\ sent' = <<h>> \o <<b>> /\ sent' # <<>>
    <3>1. sent' = Append(<<h>>, b)
      BY <1>3, <2>2 DEF b
    <3> DEFINE S == {h, b}
    <3>0. <<h>> \in Seq(S) /\ <<b>> \in Seq(S) /\ <<h, b>> \in Seq(S)
          /\ Len(<<h>>) = 1 /\ Len(<<b>>) = 1 /\ Len(<<h, b>>) = 2
      OBVIOUS
    <3>2. Append(<<h>>, b) = <<h, b>>
      <4>1. Append(<<h>>, b) \in Seq(S) /\ Len(Append(<<h>>, b)) = 2
            /\ \A i \in 1 .. 2 : Append(<<h>>, b)[i] = <<h, b>>[i]
        BY <3>0
      <4> QED
        BY <3>0, <4>1, SeqEqual
    <3>3. <<h>> \o <<b>> = <<h, b>>
      <4>1. <<h>> \o <<b>> \in Seq(S) /\ Len(<<h>> \o <<b>>) = 2
            /\ \A i \in 1 .. 2 : (<<h>> \o <<b>>)[i] = <<h, b>>[i]
        BY <3>0
      <4> QED
        BY <3>0, <4>1, SeqEqual
    <3>4. sent' = <<h, b>>
      BY <3>1, <3>2
    <3> QED
      BY <3>3, <3>4
  <2>5. Listing(<<h>>) /\ Listing(sent')
    <3>1. Listing(sent)
      BY DEF HTTPInv, HTTPTypes
    <3>2. Listing(<<h>>)
      BY <2>2, <3>1
    <3>3. Listing(<<h>> \o <<b>>)
      BY <3>2, ListingGrows
    <3> QED
      BY <2>4, <3>2, <3>3
  <2>6. Nested(sent')
    <3>1. /\ Tags = {"body", "div", "ol", "list"}
          /\ \A tag \in Tags :
               /\ Open(<<h>>, tag) = 0
               /\ Open(sent', tag) = Open(<<h>>, tag) + Change(b, tag)
      BY <2>3, <2>4, <2>5, OpenGrows, HeaderOpens, Changes
    <3>2. \A tag \in Tags : Open(sent', tag) \in {0, 1}
      BY <2>3, <3>1, Changes
    <3>3. Last(sent') = b
      BY <2>4 DEF Last
    <3> QED
      BY <2>3, <3>2, <3>3 DEF Nested, Tags
  <2>7. HTTPTypes'
    BY <1>1, <2>5 DEF HTTPInv, HTTPTypes
  <2>8. Good(sent[1])'
    <3>1. NoHead'
      BY <1>1, <2>3 DEF NoHead, Good
    <3>2. Announced(h)'
      <4>1. Announced(h)
        BY <2>3 DEF Good
      <4> QED
        BY <1>1, <2>2, <2>4, <4>1 DEF Announced, h
    <3> QED
      BY <1>1, <2>3, <2>4, <3>1, <3>2 DEF Good, h
  <2>9. Streaming'
    BY <1>1, <2>1, <2>3, <2>4, <2>8 DEF Streaming
  <2>10. StreamAfterHeader' /\ StartsAsAsked'
    <3>1. HeadNoBody'
      BY <2>8 DEF Good, NoHead, HeadNoBody
    <3>2. \A i \in 2 .. Len(sent') : sent'[i][1] = "body"
      <4>1. \A i \in 2 .. Len(sent') : i = 2
        BY <2>4
      <4> QED
        BY <2>3, <2>4, <4>1
    <3>3. StreamAfterHeader'
      BY <2>4, <2>8, <2>9, <3>1, <3>2 DEF StreamAfterHeader, Good, Streaming
    <3>4. StartsAsAsked'
      BY <2>8 DEF StartsAsAsked, Good, Announced
    <3> QED
      BY <3>3, <3>4
  <2> QED
    BY <2>6, <2>7, <2>9, <2>10 DEF HTTPInv, Job
<1> QED
  BY <1>2, <1>3 DEF Stream

LEMMA OthersKept ==
    ASSUME HTTPInv, StaleUse \/ VDRDeletes \/ UNCHANGED httpVars
    PROVE  HTTPInv'
<1>1. /\ UNCHANGED <<sent, streamer, req, range, out, deferClose, status, menu>>
      /\ conn' = "open" => conn = "open"
  BY DEF StaleUse, VDRDeletes, httpVars, reqVars
<1>2. conn' = "open" => Job'
  <2> SUFFICES ASSUME conn' = "open" PROVE Job'
    OBVIOUS
  <2>1. Job
    BY <1>1 DEF HTTPInv
  <2>2. Asking => Asking'
    BY <1>1 DEF Asking, Idle
  <2>3. Paging => Paging'
    BY <1>1 DEF Paging, OneAtMost
  <2>4. PageDone => PageDone'
    BY <1>1 DEF PageDone, Idle
  <2>5. Good(out[1]) => Good(out[1])'
    BY <1>1 DEF Good, NoHead, Announced
  <2>6. Answering => Answering'
    BY <1>1, <2>5 DEF Answering
  <2>7. Good(sent[1]) => Good(sent[1])'
    BY <1>1 DEF Good, NoHead, Announced
  <2>8. Streaming => Streaming'
    BY <1>1, <2>7 DEF Streaming
  <2> QED
    BY <2>1, <2>2, <2>3, <2>4, <2>6, <2>8 DEF Job
<1> QED
  BY <1>1, <1>2, SameSent

LEMMA HTTPInvStep ==
    ASSUME HTTPInv, HTTPAssumption, [HTTPNext]_httpVars
    PROVE  HTTPInv'
BY RequestLineKept, HeaderLineKept, ProcessRequestKept, LateLineKept,
   WriteKept, StreamKept, OthersKept DEF HTTPNext, Ended

(* Whatever is asked for, whatever lists VDR has and however it edits them *)
(* between two lines, a page is well nested (cHtmlMenuList::Next).         *)
THEOREM PagesAreNested == HTTPSpec => []WellNested
<1>1. HTTPInv /\ [HTTPNext]_httpVars => HTTPInv'
  BY HTTPAssumption, HTTPInvStep
<1>2. HTTPInv => WellNested
  BY DEF HTTPInv, WellNested
<1> QED
  BY HTTPInvInit, <1>1, <1>2, PTL DEF HTTPSpec

(* A stream has one good header before it and nothing between, and the     *)
(* head alone is answered by no stream, but where the code forgets to      *)
(* close (cConnectionHTTP::Flushed).                                       *)
THEOREM StreamsFollowHeaders == HTTPSpec => []StreamAfterHeader
<1>1. HTTPInv /\ [HTTPNext]_httpVars => HTTPInv'
  BY HTTPAssumption, HTTPInvStep
<1>2. HTTPInv => StreamAfterHeader
  BY DEF HTTPInv
<1> QED
  BY HTTPInvInit, <1>1, <1>2, PTL DEF HTTPSpec

(* For any position and any range, the stream of a recording starts where  *)
(* its header says (cConnectionHTTP::ProcessRequest).                      *)
THEOREM StreamsStartAsAsked == HTTPSpec => []StartsAsAsked
<1>1. HTTPInv /\ [HTTPNext]_httpVars => HTTPInv'
  BY HTTPAssumption, HTTPInvStep
<1>2. HTTPInv => StartsAsAsked
  BY DEF HTTPInv
<1> QED
  BY HTTPInvInit, <1>1, <1>2, PTL DEF HTTPSpec

-----------------------------------------------------------------------------
(* A page that is told line by line: which items it has told of.           *)

AtPlace(l) == Place(Listed, l[2])
IsItem(l) == l[1] \in {"li", "div"}
Tells(s, T) ==
    /\ {AtPlace(s[i]) : i \in Items(s)} = T
    /\ \A i, k \in Items(s) : i < k => AtPlace(s[i]) < AtPlace(s[k])

(* A line of an item: its place in the list, and the id of its link.       *)
Linked(l) ==
    IsItem(l) => /\ \E j \in DOMAIN Listed : l[2] = Listed[j].id
                 /\ l[3] = ItemId(req.menu, l[2])
EndsWhole(s) ==
    s # <<>> /\ Last(s)[1] \in {"/body", "/list"} => Tells(s, Page)
Right(s) ==
    /\ req.path = "menu" => \A i \in DOMAIN s : Linked(s[i])
    /\ EndsWhole(s)

(* The group the place j is in.                                            *)
InGroup(j, q) == q \in Groups /\ q <= j /\ \A k \in Groups : k <= j => k <= q

(* The iterator at the place p, or before the first if that is 0.          *)
IteratorAt(it, p) ==
    /\ DOMAIN it = {"kind", "pes", "current", "first", "selected", "grp"}
    /\ it.kind = req.menu /\ it.pes = (req.type = "PES")
    /\ it.selected = IF req.group < 0 THEN Null ELSE GetGroup(req.group)
    /\ IF p = 0 THEN it.current = Null /\ it.first = IdOf(Listed, Page)
       ELSE p \in Page /\ it.current = Listed[p].id /\ it.first = Null
    /\ it.kind = "tree" =>
         IF p = 0 THEN it.grp = it.first
         ELSE \E q \in Groups : InGroup(p, q) /\ it.grp = channels[q].id

(* In these states the item has been told of, or is still to be; and in    *)
(* these there need not be one.                                            *)
Tellers == {"PlainItem", "GroupTop", "Item", "Continue"}
Pending == {"PlainTop", "PlainBottom", "ItemsTop", "ItemsBottom", "GroupBottom"}
Early == Unopened \cup {"PageTop", "First", "Continue"}
Late == {"PlainBottom", "ItemsBottom", "GroupBottom", "PageBottom", "Last"}

Before(p) == {j \in Page : j < p}
UpTo(p) == {j \in Page : j <= p}

(* The writer m, when s has been told.                                     *)
OnItem(m, s, p) ==
    /\ m.onItem = TRUE /\ IteratorAt(m.it, p)
    /\ p = 0 => m.st \in Early
    /\ \/ m.st \in Pending /\ Tells(s, Before(p))
       \/ m.st \in Early \cup Tellers /\ Tells(s, UpTo(p))
Past(m, s) == m.onItem = FALSE /\ m.st \in Late /\ Tells(s, Page)
Onward(m, s) == Past(m, s) \/ \E p \in {0} \cup DOMAIN Listed : OnItem(m, s, p)

Known ==
    /\ changes \in Nat
    /\ changes = 0 => \E l \in Lists : channels = l[1] /\ recordings = l[2]
(* For any s and m: what the writer m and the lines s are said to be.      *)
Progress ==
    \A s, m :
      conn = "open" /\ status = "body" /\ m = menu /\ m # Nil /\ changes = 0
        /\ s = sent \o out
      => req.path = "menu" /\ Right(s) /\ (deferClose \/ Onward(m, s))
Sound == \A s : s = sent /\ changes = 0 => Right(s)
PageInv == Known /\ Progress /\ Sound

-----------------------------------------------------------------------------
(* The lists, and the least of what is behind a place.                     *)

ChannelItem == [id : Nat \ {Null}, group : BOOLEAN, name : BOOLEAN]
RecordingItem == [id : Nat \ {Null}, pes : BOOLEAN]
ListsTyped ==
    /\ channels \in Seq(ChannelItem) /\ Unequal(channels)
    /\ recordings \in Seq(RecordingItem) /\ Unequal(recordings)

LEMMA ListsAre == ASSUME Known, changes = 0 PROVE ListsTyped
BY ListsAssumption DEF Known, ListsTyped, ChannelItem, RecordingItem

(* A list of items that are told apart.                                    *)
Itemised(s) ==
    /\ DOMAIN s \subseteq Nat \ {0}
    /\ \A j \in DOMAIN s : s[j].id # Null /\ Place(s, s[j].id) = j

LEMMA ItemisedIs ==
    ASSUME NEW s, DOMAIN s \subseteq Nat \ {0}, Unequal(s),
           \A j \in DOMAIN s : s[j].id # Null
    PROVE  Itemised(s)
<1> SUFFICES ASSUME NEW j \in DOMAIN s PROVE Place(s, s[j].id) = j
    BY DEF Itemised
<1> DEFINE e == s[j].id
           k == CHOOSE i \in DOMAIN s : s[i].id = e
<1>1. \E i \in DOMAIN s : s[i].id = e
    OBVIOUS
<1>2. Place(s, e) = k /\ k \in DOMAIN s /\ s[k].id = e
    BY <1>1 DEF Place
<1> QED
    BY <1>2 DEF Unequal

LEMMA ListsItemised ==
    ASSUME ListsTyped
    PROVE  Itemised(channels) /\ Itemised(recordings) /\ Itemised(Listed)
<1>0. /\ \A e \in ChannelItem : e.id # Null
      /\ \A e \in RecordingItem : e.id # Null
    BY DEF ChannelItem, RecordingItem
<1>1. /\ DOMAIN channels \subseteq Nat \ {0}
      /\ \A j \in DOMAIN channels : channels[j].id # Null
    BY <1>0 DEF ListsTyped
<1>2. /\ DOMAIN recordings \subseteq Nat \ {0}
      /\ \A j \in DOMAIN recordings : recordings[j].id # Null
    BY <1>0 DEF ListsTyped
<1>3. Itemised(channels) /\ Itemised(recordings)
    BY <1>1, <1>2, ItemisedIs DEF ListsTyped
<1> QED
    BY <1>3 DEF Listed

LEMMA HasLeast ==
    ASSUME NEW T, T \subseteq Nat, T # {}
    PROVE  \E x \in T : \A y \in T : x <= y
<1>1. PICK x \in T : \A y \in T : ~ (<<y, x>> \in OpToRel(<, Nat))
    BY WFMin, NatLessThanWellFounded, Zenon
<1>2. \A y \in T : y \in Nat /\ ~(y < x)
    BY <1>1 DEF OpToRel
<1>3. x \in Nat
    OBVIOUS
<1> QED
    BY <1>2, <1>3

(* The first item at one of the places T is that of the least of them.     *)
LEMMA IdOfIs ==
    ASSUME NEW s, Itemised(s), NEW T, T \subseteq DOMAIN s
    PROVE  \/ T = {} /\ IdOf(s, T) = Null
           \/ \E p \in T : /\ IdOf(s, T) = s[p].id /\ IdOf(s, T) # Null
                           /\ \A j \in T : p <= j
<1>1. CASE T = {}
    BY <1>1 DEF IdOf
<1>2. CASE T # {}
  <2> DEFINE p == CHOOSE i \in T : \A j \in T : i <= j
  <2>1. T \subseteq Nat
    BY DEF Itemised
  <2>2. p \in T /\ \A j \in T : p <= j
    BY <1>2, <2>1, HasLeast
  <2>3. IdOf(s, T) = s[p].id
    BY <1>2 DEF IdOf, Least
  <2> HIDE DEF p
  <2>4. s[p].id # Null
    BY <2>2 DEF Itemised
  <2> QED
    BY <2>2, <2>3, <2>4
<1> QED
    BY <1>1, <1>2

(* Two sets with the same least place.                                     *)
LEMMA IdOfSame ==
    ASSUME NEW s, Itemised(s), NEW S, S \subseteq DOMAIN s,
           NEW T, T \subseteq DOMAIN s,
           \A i \in S : \E j \in T : j <= i, \A j \in T : \E i \in S : i <= j
    PROVE  IdOf(s, S) = IdOf(s, T)
<1>1. CASE S = {} \/ T = {}
  <2>1. S = {} /\ T = {}
    BY <1>1
  <2> QED
    BY <2>1
<1>2. CASE S # {} /\ T # {}
  <2>1. PICK p \in S : IdOf(s, S) = s[p].id /\ \A j \in S : p <= j
    BY <1>2, IdOfIs
  <2>2. PICK q \in T : IdOf(s, T) = s[q].id /\ \A j \in T : q <= j
    BY <1>2, IdOfIs
  <2>3. PICK j \in T : j <= p
    OBVIOUS
  <2>4. PICK i \in S : i <= q
    OBVIOUS
  <2>5. p \in Nat /\ q \in Nat /\ i \in Nat /\ j \in Nat
    BY DEF Itemised
  <2>6. q <= j /\ p <= i
    BY <2>1, <2>2
  <2>7. p = q
    BY <2>3, <2>4, <2>5, <2>6
  <2> QED
    BY <2>1, <2>2, <2>7
<1> QED
    BY <1>1, <1>2

(* One that is the least of the other as well.                             *)
LEMMA IdOfLeast ==
    ASSUME NEW s, Itemised(s), NEW T, T \subseteq DOMAIN s, NEW p \in T,
           \A j \in T : p <= j
    PROVE  IdOf(s, T) = s[p].id
<1>1. PICK q \in T : IdOf(s, T) = s[q].id /\ \A j \in T : q <= j
    BY IdOfIs
<1>2. p \in Nat /\ q \in Nat /\ p <= q /\ q <= p
    BY <1>1 DEF Itemised
<1>3. p = q
    BY <1>2
<1> QED
    BY <1>1, <1>3

-----------------------------------------------------------------------------
(* The groups of the channels.                                             *)

Rank(q) == Cardinality({k \in Groups : k < q})

LEMMA GroupsAre ==
    ASSUME ListsTyped
    PROVE  /\ Groups \subseteq DOMAIN channels /\ Groups \subseteq Nat \ {0}
           /\ IsFiniteSet(Groups)
           /\ \A q : Rank(q) \in Nat
<1>1. Groups \subseteq DOMAIN channels
    BY DEF Groups
<1>2. DOMAIN channels = 1 .. Len(channels) /\ Len(channels) \in Nat
    BY DEF ListsTyped
<1>3. IsFiniteSet(1 .. Len(channels))
    BY <1>2, FS_Interval
<1>4. IsFiniteSet(Groups)
    BY <1>1, <1>2, <1>3, FS_Subset
<1>5. ASSUME NEW q PROVE Rank(q) \in Nat
  <2>1. {k \in Groups : k < q} \in SUBSET Groups
    OBVIOUS
  <2>2. IsFiniteSet({k \in Groups : k < q})
    BY <1>4, <2>1, FS_Subset
  <2> QED
    BY <2>2, FS_CardinalityType DEF Rank
<1> QED
    BY <1>1, <1>2, <1>4, <1>5

LEMMA RankGrows ==
    ASSUME ListsTyped, NEW q \in Groups, NEW r \in Groups, q < r
    PROVE  Rank(q) < Rank(r)
<1> DEFINE S == {k \in Groups : k < q}
           T == {k \in Groups : k < r}
<1>1. /\ Groups \subseteq Nat \ {0} /\ IsFiniteSet(Groups)
      /\ Rank(q) \in Nat /\ Rank(r) \in Nat
    BY GroupsAre
<1>2. IsFiniteSet(S) /\ IsFiniteSet(T)
    BY <1>1, FS_Subset
<1>3. q \notin S /\ (S \cup {q}) \in SUBSET T
  <2>1. q \in Nat /\ r \in Nat
    BY <1>1
  <2>2. q \notin S /\ q \in T
    BY <2>1
  <2>3. \A k \in S : k \in T
    BY <1>1, <2>1
  <2> QED
    BY <2>2, <2>3
<1>4. Cardinality(S \cup {q}) = Cardinality(S) + 1
    BY <1>2, <1>3, FS_AddElement
<1>5. Cardinality(S \cup {q}) <= Cardinality(T)
    BY <1>2, <1>3, FS_Subset
<1> QED
    BY <1>1, <1>4, <1>5 DEF Rank

LEMMA RankTells ==
    ASSUME ListsTyped, NEW q \in Groups, NEW r \in Groups, Rank(q) = Rank(r)
    PROVE  q = r
<1>1. q \in Nat /\ r \in Nat /\ Rank(q) \in Nat /\ Rank(r) \in Nat
    BY GroupsAre
<1>2. ~(q < r) /\ ~(r < q)
    BY <1>1, RankGrows
<1> QED
    BY <1>1, <1>2

LEMMA GetGroupIs ==
    ASSUME ListsTyped, NEW n
    PROVE  /\ \A q \in Groups : Rank(q) = n => GetGroup(n) = channels[q].id
           /\ (\A q \in Groups : Rank(q) # n) => GetGroup(n) = Null
<1> DEFINE T == {j \in Groups : Rank(j) = n}
<1>1. GetGroup(n) = IdOf(channels, T)
    BY DEF GetGroup, Rank
<1>2. T \subseteq DOMAIN channels /\ Itemised(channels)
    BY GroupsAre, ListsItemised
<1>3. ASSUME NEW q \in Groups, Rank(q) = n PROVE GetGroup(n) = channels[q].id
  <2>1. \A j \in T : j = q
    BY <1>3, RankTells
  <2>2. q \in T /\ q \in Nat
    BY <1>3, GroupsAre
  <2>3. \A j \in T : q <= j
    BY <2>1, <2>2
  <2> HIDE DEF T
  <2> QED
    BY <1>1, <1>2, <2>2, <2>3, IdOfLeast
<1>4. ASSUME \A q \in Groups : Rank(q) # n PROVE GetGroup(n) = Null
  <2>1. T = {}
    BY <1>4
  <2> QED
    BY <1>1, <2>1 DEF IdOf
<1> QED
    BY <1>3, <1>4

(* The link of a group leads to it.                                        *)
LEMMA LinkLeads ==
    ASSUME ListsTyped, NEW q \in Groups
    PROVE  GetGroup(GroupIndex(channels[q].id)) = channels[q].id
<1>1. Place(channels, channels[q].id) = q
    BY ListsItemised, GroupsAre DEF Itemised
<1>2. GroupIndex(channels[q].id) = Rank(q)
    BY <1>1 DEF GroupIndex, Rank
<1> QED
    BY <1>2, GetGroupIs

LEMMA InGroupIs ==
    ASSUME ListsTyped, NEW j \in Nat
    PROVE  /\ \A q, r : InGroup(j, q) /\ InGroup(j, r) => q = r
           /\ (\E k \in Groups : k <= j) => \E q : InGroup(j, q)
           /\ \A q, i : /\ InGroup(j, q) /\ i \in Nat /\ j <= i
                        /\ \A k \in Groups : ~(j < k /\ k <= i)
                        => InGroup(i, q)
           /\ \A q, i : InGroup(j, q) /\ i \in Nat /\ q <= i /\ i <= j
                        => InGroup(i, q)
           /\ j \in Groups => InGroup(j, j)
<1>1. Groups \subseteq Nat \ {0}
    BY GroupsAre
<1>2. ASSUME NEW q, NEW r, InGroup(j, q), InGroup(j, r) PROVE q = r
  <2>1. q \in Nat /\ r \in Nat /\ q <= r /\ r <= q
    BY <1>1, <1>2 DEF InGroup
  <2> QED
    BY <2>1
<1>3. ASSUME NEW k \in Groups, k <= j PROVE \E q : InGroup(j, q)
  <2> DEFINE U == {i \in Nat : \A g \in Groups : g <= j => g <= i}
  <2>1. j \in U /\ U \subseteq Nat
    OBVIOUS
  <2>2. PICK x \in U : \A y \in U : x <= y
    BY <2>1, HasLeast
  <2>3. x \in Nat /\ k <= x /\ x <= j /\ x > 0 /\ x - 1 \in Nat
    BY <1>1, <1>3, <2>1, <2>2
  <2>4. x - 1 \notin U
    BY <2>2, <2>3
  <2>5. PICK g \in Groups : g <= j /\ ~(g <= x - 1)
    BY <2>3, <2>4
  <2>6. g <= x /\ g \in Nat
    BY <1>1, <2>2, <2>5
  <2>7. g = x
    BY <2>3, <2>5, <2>6
  <2>8. InGroup(j, x)
    BY <2>2, <2>3, <2>5, <2>7 DEF InGroup
  <2> QED
    BY <2>8
<1>4. ASSUME NEW q, NEW i \in Nat, InGroup(j, q), j <= i,
             \A k \in Groups : ~(j < k /\ k <= i)
      PROVE  InGroup(i, q)
  <2>1. q \in Groups /\ q \in Nat /\ q <= j /\ q <= i
    BY <1>1, <1>4 DEF InGroup
  <2>2. ASSUME NEW k \in Groups, k <= i PROVE k <= q
    <3>1. k \in Nat /\ k <= j
        BY <1>1, <1>4, <2>2
    <3> QED
        BY <1>4, <3>1 DEF InGroup
  <2> QED
    BY <2>1, <2>2 DEF InGroup
<1>5. ASSUME NEW q, NEW i \in Nat, InGroup(j, q), q <= i, i <= j
      PROVE  InGroup(i, q)
  <2>1. ASSUME NEW k \in Groups, k <= i PROVE k <= q
    <3>1. k \in Nat /\ k <= j
        BY <1>1, <1>5, <2>1
    <3> QED
        BY <1>5, <3>1 DEF InGroup
  <2> QED
    BY <1>5, <2>1 DEF InGroup
<1>6. j \in Groups => InGroup(j, j)
    BY DEF InGroup
<1> QED
    BY <1>2, <1>3, <1>4, <1>5, <1>6

(* How many groups there are up to a place.                                *)
LEMMA GroupsBefore ==
    ASSUME ListsTyped, NEW j \in DOMAIN channels
    PROVE  LET n == Cardinality({k \in 1 .. j : channels[k].group
                                                /\ channels[k].name})
           IN /\ \A q : InGroup(j, q) => n = Rank(q) + 1
              /\ (\A q : ~InGroup(j, q)) => n = 0
<1> DEFINE T == {k \in 1 .. j : channels[k].group /\ channels[k].name}
<1>1. DOMAIN channels = 1 .. Len(channels) /\ Len(channels) \in Nat /\ j \in Nat
    BY DEF ListsTyped
<1>2. T = {k \in Groups : k <= j}
    BY <1>1 DEF Groups
<1>3. Groups \subseteq Nat \ {0} /\ IsFiniteSet(Groups)
    BY GroupsAre
<1> HIDE DEF T
<1>4. ASSUME NEW q, InGroup(j, q) PROVE Cardinality(T) = Rank(q) + 1
  <2> DEFINE S == {k \in Groups : k < q}
  <2>0. q \in Groups /\ q \in Nat /\ q <= j
    BY <1>3, <1>4 DEF InGroup
  <2>1. T = S \cup {q} /\ q \notin S
    <3>1. \A k \in Groups : k <= j <=> (k < q \/ k = q)
        BY <1>1, <1>3, <1>4, <2>0 DEF InGroup
    <3>2. q \notin S
        BY <2>0
    <3> QED
        BY <1>2, <2>0, <3>1, <3>2
  <2>2. IsFiniteSet(S)
    BY <1>3, FS_Subset
  <2> QED
    BY <2>1, <2>2, FS_AddElement DEF Rank
<1>5. ASSUME \A q : ~InGroup(j, q) PROVE Cardinality(T) = 0
  <2>1. T = {}
    BY <1>1, <1>2, <1>5, InGroupIs
  <2> QED
    BY <2>1, FS_EmptySet
<1> QED
    BY <1>4, <1>5 DEF T

-----------------------------------------------------------------------------
(* What a menu is to hold, by its kind.                                    *)

Kinds == {"all", "channels", "groups", "group", "tree", "recordings"}
Selection == IF req.group < 0 THEN Null ELSE GetGroup(req.group)
Selected(j) == \E q \in Groups : InGroup(j, q) /\ Selection = channels[q].id
Fake(j) == channels[j].group /\ ~channels[j].name

LEMMA SelectionIs ==
    ASSUME ListsTyped, req.group \in Int
    PROVE  /\ \A q \in Groups : Selection = channels[q].id <=> Rank(q) = req.group
           /\ Selection # Null => \E q \in Groups : Selection = channels[q].id
<1>1. /\ \A q \in Groups : Rank(q) \in Nat /\ channels[q].id # Null
      /\ \A q, r \in Groups : channels[q].id = channels[r].id => q = r
    BY GroupsAre, ListsItemised DEF Itemised, ListsTyped, Unequal
<1>2. CASE req.group < 0
    BY <1>1, <1>2 DEF Selection
<1>3. CASE req.group >= 0
  <2>1. Selection = GetGroup(req.group)
    BY <1>3 DEF Selection
  <2>2. \A q \in Groups : Rank(q) = req.group => Selection = channels[q].id
    BY <2>1, GetGroupIs
  <2>3. Selection # Null => \E r \in Groups : Rank(r) = req.group
    BY <2>1, GetGroupIs
  <2> QED
    BY <1>1, <2>2, <2>3
<1> QED
    BY <1>2, <1>3

LEMMA OfGroup ==
    ASSUME ListsTyped, req.group \in Int, NEW j \in DOMAIN channels
    PROVE  LET before == Cardinality({k \in 1 .. j : channels[k].group
                                                     /\ channels[k].name})
           IN before = req.group + 1 /\ req.group >= 0 <=> Selected(j)
<1> DEFINE before == Cardinality({k \in 1 .. j : channels[k].group
                                                 /\ channels[k].name})
<1>1. /\ \A q : InGroup(j, q) => before = Rank(q) + 1
      /\ (\A q : ~InGroup(j, q)) => before = 0
    BY GroupsBefore
<1> HIDE DEF before
<1>2. j \in Nat
    BY DEF ListsTyped
<1>3. CASE \E q : InGroup(j, q)
  <2>1. PICK q : InGroup(j, q)
    BY <1>3
  <2>2. q \in Groups /\ Rank(q) \in Nat /\ before = Rank(q) + 1
    BY <1>1, <2>1, GroupsAre DEF InGroup
  <2>3. \A r : InGroup(j, r) => r = q
    BY <1>2, <2>1, InGroupIs
  <2>4. Selected(j) <=> Selection = channels[q].id
    BY <2>1, <2>2, <2>3 DEF Selected
  <2>5. Selection = channels[q].id <=> Rank(q) = req.group
    BY <2>2, SelectionIs
  <2>6. before = req.group + 1 /\ req.group >= 0 <=> Rank(q) = req.group
    BY <2>2
  <2> QED
    BY <2>4, <2>5, <2>6 DEF before
<1>4. CASE \A q : ~InGroup(j, q)
  <2>1. before = 0 /\ ~Selected(j)
    BY <1>1, <1>4 DEF Selected
  <2>2. ~(before = req.group + 1 /\ req.group >= 0)
    BY <2>1
  <2> QED
    BY <2>1, <2>2 DEF before
<1> QED
    BY <1>3, <1>4

LEMMA WantedIs ==
    ASSUME ListsTyped, req.group \in Int, NEW j \in DOMAIN channels
    PROVE  /\ req.menu = "all" => (Wanted(j) <=> j = 1 \/ ~Fake(j))
           /\ req.menu = "channels" => (Wanted(j) <=> ~channels[j].group)
           /\ req.menu = "groups" => (Wanted(j) <=> j \in Groups)
           /\ req.menu = "group" =>
                (Wanted(j) <=> ~channels[j].group /\ Selected(j))
           /\ req.menu = "tree" =>
                (Wanted(j) <=> j \in Groups \/ (~channels[j].group /\ Selected(j)))
<1> DEFINE before == Cardinality({k \in 1 .. j : channels[k].group
                                                 /\ channels[k].name})
           c == channels[j]
           named == c.group /\ c.name
           of == ~c.group /\ before = req.group + 1
<1>1. before = req.group + 1 /\ req.group >= 0 <=> Selected(j)
    BY OfGroup
<1>2. Wanted(j) = CASE req.menu = "all" -> j = 1 \/ ~c.group \/ named
                    [] req.menu = "channels" -> ~c.group
                    [] req.menu = "groups" -> named
                    [] req.menu = "group" -> of /\ req.group >= 0
                    [] req.menu = "tree" -> named \/ (of /\ req.group >= 0)
    BY Zenon DEF Wanted
<1>3. j \in Groups <=> named
    BY DEF Groups
<1> HIDE DEF before
<1>4. of /\ req.group >= 0 <=> ~channels[j].group /\ Selected(j)
    BY <1>1
<1>5. Fake(j) <=> c.group /\ ~c.name
    BY DEF Fake
<1>6. c.group \in BOOLEAN /\ c.name \in BOOLEAN
  <2>1. c \in ChannelItem
    BY DEF ListsTyped
  <2> QED
    BY <2>1 DEF ChannelItem
<1> HIDE DEF of, c
<1>7. CASE req.menu = "all"
  <2>1. Wanted(j) = (j = 1 \/ ~c.group \/ named)
    BY <1>2, <1>7, Zenon
  <2> QED
    BY <1>5, <1>6, <1>7, <2>1
<1>8. CASE req.menu = "channels"
  <2>1. Wanted(j) = ~c.group
    BY <1>2, <1>8, Zenon
  <2> QED
    BY <1>6, <1>8, <2>1 DEF c
<1>9. CASE req.menu = "groups"
  <2>1. Wanted(j) = named
    BY <1>2, <1>9, Zenon
  <2> QED
    BY <1>3, <1>9, <2>1
<1>10. CASE req.menu = "group"
  <2>1. Wanted(j) = (of /\ req.group >= 0)
    BY <1>2, <1>10, Zenon
  <2> QED
    BY <1>4, <1>10, <2>1
<1>11. CASE req.menu = "tree"
  <2>1. Wanted(j) = (named \/ (of /\ req.group >= 0))
    BY <1>2, <1>11, Zenon
  <2> QED
    BY <1>3, <1>4, <1>11, <2>1
<1> QED
    BY <1>7, <1>8, <1>9, <1>10, <1>11

LEMMA PageIs ==
    ASSUME ListsTyped
    PROVE  /\ Page \subseteq DOMAIN Listed /\ Page \subseteq Nat \ {0}
           /\ Itemised(Listed)
           /\ req.menu # "recordings" =>
                /\ Listed = channels
                /\ \A j : j \in Page <=> j \in DOMAIN channels /\ Wanted(j)
           /\ req.menu = "recordings" =>
                /\ Listed = recordings
                /\ \A j : j \in Page <=>
                     j \in DOMAIN recordings /\ (recordings[j].pes => req.type = "PES")
<1>1. Itemised(Listed)
    BY ListsItemised
<1>2. Page \subseteq DOMAIN Listed
    BY DEF Page, Listed
<1>3. Page \subseteq Nat \ {0}
    BY <1>1, <1>2 DEF Itemised
<1> QED
    BY <1>1, <1>2, <1>3 DEF Page, Listed

(* The part of the channels behind the group that was asked for.           *)
LEMMA SelectedOnly ==
    ASSUME ListsTyped, NEW q \in Groups, Selection = channels[q].id
    PROVE  /\ \A j : Selected(j) <=> InGroup(j, q)
           /\ Place(channels, Selection) = q
<1>1. /\ \A r \in Groups : channels[r].id = channels[q].id => r = q
      /\ Place(channels, channels[q].id) = q
    BY GroupsAre, ListsItemised DEF Itemised, ListsTyped, Unequal
<1> QED
    BY <1>1 DEF Selected, InGroup

LEMMA SelectedNone ==
    ASSUME ListsTyped, Selection = Null
    PROVE  \A j : ~Selected(j)
<1>1. \A q \in Groups : channels[q].id # Null
    BY GroupsAre, ListsItemised DEF Itemised
<1> QED
    BY <1>1 DEF Selected

-----------------------------------------------------------------------------
(* Where the iterators go.                                                 *)

Ahead(p) == {j \in Page : p < j}
Real(p) == {j \in Behind(p) : channels[j].group => channels[j].name}

LEMMA ChannelsAre ==
    ASSUME ListsTyped
    PROVE  /\ DOMAIN channels = 1 .. Len(channels) /\ Len(channels) \in Nat
           /\ \A j \in DOMAIN channels : /\ channels[j].group \in BOOLEAN
                                         /\ channels[j].name \in BOOLEAN
           /\ \A j \in DOMAIN channels : /\ IsSep(channels[j].id) <=> channels[j].group
                                         /\ channels[j].id # Null
           /\ ~IsSep(Null)
<1>1. DOMAIN channels = 1 .. Len(channels) /\ Len(channels) \in Nat
    BY DEF ListsTyped
<1>2. \A e \in ChannelItem : e.group \in BOOLEAN /\ e.name \in BOOLEAN
    BY DEF ChannelItem
<1>3. \A j \in DOMAIN channels : channels[j] \in ChannelItem
    BY DEF ListsTyped
<1>4. \A j \in DOMAIN channels : /\ channels[j].id # Null
                                 /\ Place(channels, channels[j].id) = j
    BY ListsItemised DEF Itemised
<1> QED
    BY <1>1, <1>2, <1>3, <1>4 DEF IsSep, ItemAt

(* What is behind p and no nameless group.                                 *)
LEMMA RealIs ==
    ASSUME ListsTyped, NEW p \in Nat
    PROVE  /\ SkipFakeGroups(p) = IdOf(channels, Real(p))
           /\ Real(p) \subseteq DOMAIN channels
           /\ \A j : j \in Real(p) <=> j \in DOMAIN channels /\ j > p /\ ~Fake(j)
           /\ \A j \in Real(p) : channels[j].group => j \in Groups
           /\ \A j \in Groups : j > p => j \in Real(p)
BY ChannelsAre DEF Real, Behind, SkipFakeGroups, Fake, Groups

(* From a place in the group q: the next is in it too, or the next group.  *)
LEMMA StaysInGroup ==
    ASSUME ListsTyped, NEW p \in Nat, NEW q, InGroup(p, q),
           NEW r \in Real(p), \A j \in Real(p) : r <= j, ~channels[r].group
    PROVE  InGroup(r, q)
<1>1. r \in Nat /\ p <= r
    BY RealIs, ChannelsAre
<1>2. \A k \in Groups : ~(p < k /\ k <= r)
  <2> SUFFICES ASSUME NEW k \in Groups, p < k, k <= r PROVE FALSE
    OBVIOUS
  <2>1. k \in Nat /\ k \in Real(p) /\ channels[k].group
    BY RealIs, GroupsAre DEF Groups
  <2>2. r <= k
    BY <2>1
  <2>3. k = r
    BY <1>1, <2>1, <2>2
  <2> QED
    BY <2>1, <2>3
<1> QED
    BY <1>1, <1>2, InGroupIs

LEMMA WithinGroup ==
    ASSUME ListsTyped, req.group \in Int, req.menu = "group",
           NEW q \in Groups, Selection = channels[q].id,
           NEW p \in Nat, InGroup(p, q)
    PROVE  ChannelInGroup(p) = IdOf(channels, Ahead(p))
<1>1. /\ \A j : j \in Page <=> j \in DOMAIN channels /\ ~channels[j].group
                               /\ InGroup(j, q)
      /\ Page \subseteq DOMAIN channels /\ Page \subseteq Nat \ {0}
      /\ Itemised(channels)
    BY PageIs, WantedIs, SelectedOnly
<1>2. Ahead(p) \subseteq Real(p) /\ Ahead(p) \subseteq DOMAIN channels
    BY <1>1, RealIs DEF Ahead, Fake
<1>3. Real(p) \subseteq DOMAIN channels /\ SkipFakeGroups(p) = IdOf(channels, Real(p))
    BY RealIs
<1>4. CASE Real(p) = {}
  <2>1. SkipFakeGroups(p) = Null /\ Ahead(p) = {}
    BY <1>2, <1>3, <1>4 DEF IdOf
  <2> QED
    BY <2>1, ChannelsAre DEF ChannelInGroup, IdOf
<1>5. CASE Real(p) # {}
  <2>1. PICK r \in Real(p) : /\ SkipFakeGroups(p) = channels[r].id
                             /\ \A j \in Real(p) : r <= j
    BY <1>1, <1>3, <1>5, IdOfIs
  <2>2. r \in DOMAIN channels /\ r \in Nat /\ r > p
    BY RealIs, ChannelsAre
  <2>3. CASE channels[r].group
    <3>1. ChannelInGroup(p) = Null
        BY <2>1, <2>2, <2>3, ChannelsAre DEF ChannelInGroup
    <3>2. r \in Groups
        BY <2>3, RealIs
    <3>3. Ahead(p) = {}
      <4> SUFFICES ASSUME NEW j \in Ahead(p) PROVE FALSE
        OBVIOUS
      <4>1. j \in Nat /\ r <= j /\ InGroup(j, q) /\ q <= p /\ q \in Nat
        BY <1>1, <1>2, <2>1, GroupsAre DEF Ahead, InGroup
      <4>2. r <= q
        BY <3>2, <4>1 DEF InGroup
      <4> QED
        BY <2>2, <4>1, <4>2
    <3> QED
        BY <3>1, <3>3 DEF IdOf
  <2>4. CASE ~channels[r].group
    <3>1. ChannelInGroup(p) = channels[r].id
        BY <2>1, <2>2, <2>4, ChannelsAre DEF ChannelInGroup
    <3>2. InGroup(r, q)
        BY <2>1, <2>4, StaysInGroup
    <3>3. r \in Ahead(p)
        BY <1>1, <2>2, <2>4, <3>2 DEF Ahead
    <3>4. \A j \in Ahead(p) : r <= j
        BY <1>2, <2>1
    <3> QED
        BY <1>1, <1>2, <3>1, <3>3, <3>4, IdOfLeast
  <2> QED
    BY <2>3, <2>4
<1> QED
    BY <1>4, <1>5

(* In the tree, a channel has its group before it.                         *)
LEMMA TreeGroups ==
    ASSUME ListsTyped, req.group \in Int, req.menu = "tree"
    PROVE  /\ Groups \subseteq Page
           /\ \A j \in Page : \/ j \in Groups
                              \/ ~channels[j].group /\ Selected(j)
           /\ \A j \in DOMAIN channels : ~channels[j].group /\ Selected(j) => j \in Page
           /\ IdOf(channels, Page) = IdOf(channels, Groups)
           /\ \A j \in Page : j \notin Groups => \E q \in Groups : q < j
<1>1. /\ \A j : j \in Page <=>
           j \in DOMAIN channels /\ (j \in Groups \/ (~channels[j].group /\ Selected(j)))
      /\ Page \subseteq DOMAIN channels /\ Page \subseteq Nat \ {0}
      /\ Itemised(channels)
    BY PageIs, WantedIs
<1>2. Groups \subseteq Page /\ Groups \subseteq DOMAIN channels /\ Groups \subseteq Nat \ {0}
    BY <1>1, GroupsAre
<1>3. ASSUME NEW j \in Page, j \notin Groups PROVE \E q \in Groups : q < j
  <2>1. PICK q \in Groups : InGroup(j, q)
    BY <1>1, <1>3 DEF Selected
  <2>2. q <= j /\ q # j /\ q \in Nat /\ j \in Nat
    BY <1>1, <1>2, <1>3, <2>1 DEF InGroup
  <2> QED
    BY <2>2
<1>4. \A i \in Page : \E j \in Groups : j <= i
  <2> SUFFICES ASSUME NEW i \in Page PROVE \E j \in Groups : j <= i
    OBVIOUS
  <2>1. CASE i \in Groups
    <3>1. i <= i
      BY <1>1
    <3> QED
      BY <2>1, <3>1
  <2>2. CASE i \notin Groups
    <3>1. PICK q \in Groups : q < i
      BY <1>3, <2>2
    <3>2. q <= i
      BY <1>1, <1>2, <3>1
    <3> QED
      BY <3>2
  <2> QED
    BY <2>1, <2>2
<1>5. \A j \in Groups : \E i \in Page : i <= j
  <2>1. \A j \in Groups : j \in Page /\ j <= j
    BY <1>2
  <2> QED
    BY <2>1
<1>6. IdOf(channels, Page) = IdOf(channels, Groups)
    BY <1>1, <1>2, <1>4, <1>5, IdOfSame
<1> QED
    BY <1>1, <1>2, <1>3, <1>6

(* Where an iterator begins.                                               *)
LEMMA IteratorFirst ==
    ASSUME ListsTyped, req.group \in Int, req.menu \in Kinds
    PROVE  IteratorAt(Iterator(req.menu, req.group, req.type = "PES"), 0)
<1> DEFINE pes == req.type = "PES"
           it == Iterator(req.menu, req.group, pes)
           first == CASE req.menu = "all" -> NextAny(0)
                 [] req.menu = "channels" -> NextNormal(0)
                 [] req.menu \in {"groups", "tree"} -> NextGroup(0)
                 [] req.menu = "group" ->
                      IF Selection = Null THEN Null
                      ELSE ChannelInGroup(Place(channels, Selection))
                 [] req.menu = "recordings" -> Suitable(pes, 0)
<1> HIDE DEF pes
<1>1. /\ DOMAIN it = {"kind", "pes", "current", "first", "selected", "grp"}
      /\ it.kind = req.menu /\ it.pes = pes /\ it.current = Null
      /\ it.selected = Selection
      /\ it.grp = IF req.menu = "tree" THEN NextGroup(0) ELSE Null
      /\ it.first = first
  <2>1. it = [kind |-> req.menu, pes |-> pes, current |-> Null,
              first |-> first, selected |-> Selection,
              grp |-> IF req.menu = "tree" THEN NextGroup(0) ELSE Null]
    BY Zenon DEF Iterator, Selection
  <2> HIDE DEF it, first
  <2> QED
    BY <2>1
<1> HIDE DEF it
<1>2. /\ Page \subseteq DOMAIN Listed /\ Page \subseteq Nat \ {0}
      /\ Itemised(Listed)
    BY PageIs
<1>3. NextGroup(0) = IdOf(channels, Groups)
  <2>1. {j \in Behind(0) : channels[j].group /\ channels[j].name} = Groups
    BY GroupsAre DEF Behind, Groups
  <2> QED
    BY <2>1 DEF NextGroup
<1>4. first = IdOf(Listed, Page)
  <2>1. CASE req.menu = "all"
    <3>1. first = NextAny(0)
      BY <2>1, Zenon
    <3>2. Listed = channels /\ Behind(0) = DOMAIN channels
      BY <2>1, PageIs, ChannelsAre DEF Behind
    <3>3. \A i \in DOMAIN channels : \E j \in Page : j <= i
      <4> SUFFICES ASSUME NEW i \in DOMAIN channels
                   PROVE  1 \in Page /\ 1 <= i
        OBVIOUS
      <4>1. 1 \in DOMAIN channels /\ 1 <= i
        BY ChannelsAre
      <4> QED
        BY <2>1, <4>1, PageIs, WantedIs
    <3>4. \A j \in Page : \E i \in DOMAIN channels : i <= j
      <4>1. \A j \in Page : j \in DOMAIN channels /\ j <= j
        BY <1>2, <3>2
      <4> QED
        BY <4>1
    <3>5. IdOf(channels, DOMAIN channels) = IdOf(channels, Page)
      BY <1>2, <3>2, <3>3, <3>4, IdOfSame
    <3> QED
      BY <3>1, <3>2, <3>5 DEF NextAny
  <2>2. CASE req.menu = "channels"
    <3>1. first = NextNormal(0)
      BY <2>2, Zenon
    <3>2. Listed = channels
      BY <2>2, PageIs
    <3>3. {j \in Behind(0) : ~channels[j].group} = Page
      BY <2>2, PageIs, WantedIs, ChannelsAre DEF Behind
    <3> QED
      BY <3>1, <3>2, <3>3 DEF NextNormal
  <2>3. CASE req.menu = "groups"
    <3>1. first = NextGroup(0)
      BY <2>3, Zenon
    <3>2. Listed = channels /\ Page = Groups
      BY <2>3, PageIs, WantedIs, GroupsAre
    <3> QED
      BY <1>3, <3>1, <3>2
  <2>4. CASE req.menu = "tree"
    <3>1. first = NextGroup(0)
      BY <2>4, Zenon
    <3>2. Listed = channels
      BY <2>4, PageIs
    <3> QED
      BY <1>3, <2>4, <3>1, <3>2, TreeGroups
  <2>5. CASE req.menu = "group"
    <3>1. first = IF Selection = Null THEN Null
                  ELSE ChannelInGroup(Place(channels, Selection))
      BY <2>5, Zenon
    <3>2. /\ Listed = channels
          /\ \A j : j \in Page <=> j \in DOMAIN channels
                                   /\ ~channels[j].group /\ Selected(j)
      BY <2>5, PageIs, WantedIs
    <3>3. CASE Selection = Null
      <4>1. Page = {}
        BY <3>2, <3>3, SelectedNone
      <4> QED
        BY <3>1, <3>3, <4>1 DEF IdOf
    <3>4. CASE Selection # Null
      <4>1. PICK q \in Groups : Selection = channels[q].id
        BY <3>4, SelectionIs
      <4>2. Place(channels, Selection) = q /\ q \in Nat /\ channels[q].group
        BY <4>1, SelectedOnly, GroupsAre DEF Groups
      <4>3. InGroup(q, q)
        BY <4>2, InGroupIs
      <4>4. ChannelInGroup(q) = IdOf(channels, Ahead(q))
        BY <2>5, <4>1, <4>2, <4>3, WithinGroup
      <4>5. Ahead(q) = Page
        <5> SUFFICES ASSUME NEW j \in Page PROVE q < j
            BY DEF Ahead
        <5>1. InGroup(j, q) /\ j # q /\ j \in Nat
            BY <1>2, <3>2, <4>1, <4>2, SelectedOnly
        <5> QED
            BY <4>2, <5>1 DEF InGroup
      <4> QED
        BY <3>1, <3>2, <3>4, <4>2, <4>4, <4>5
    <3> QED
      BY <3>3, <3>4
  <2>6. CASE req.menu = "recordings"
    <3>1. first = Suitable(pes, 0)
      BY <2>6, Zenon
    <3>2. Listed = recordings /\ DOMAIN recordings \subseteq Nat \ {0}
      BY <2>6, PageIs, ListsItemised DEF Itemised
    <3>3. {j \in DOMAIN recordings : j > 0 /\ (recordings[j].pes => pes)} = Page
      BY <2>6, <3>2, PageIs DEF pes
    <3> QED
      BY <3>1, <3>2, <3>3 DEF Suitable
  <2> QED
    BY <2>1, <2>2, <2>3, <2>4, <2>5, <2>6 DEF Kinds
<1> HIDE DEF first
<1>5. req.menu = "tree" => it.grp = it.first
  <2>1. req.menu = "tree" => Listed = channels
    BY PageIs
  <2> QED
    BY <1>1, <1>3, <1>4, <2>1, TreeGroups
<1>6. IteratorAt(it, 0)
    BY <1>1, <1>4, <1>5 DEF IteratorAt, pes, Selection
<1> QED
    BY <1>6 DEF it, pes

(* Where it goes from the place p of the page.                             *)
Follow(p) ==
    CASE req.menu = "all" -> SkipFakeGroups(p)
      [] req.menu = "channels" -> NextNormal(p)
      [] req.menu = "groups" -> NextGroup(p)
      [] req.menu = "group" -> ChannelInGroup(p)
      [] req.menu = "recordings" -> Suitable(req.type = "PES", p)

LEMMA FollowIs ==
    ASSUME ListsTyped, req.group \in Int, req.menu \in Kinds,
           req.menu # "tree", NEW p \in Page
    PROVE  Follow(p) = IdOf(Listed, Ahead(p))
<1>1. /\ Page \subseteq DOMAIN Listed /\ Page \subseteq Nat \ {0}
      /\ Itemised(Listed) /\ p \in Nat /\ p >= 1
    BY PageIs
<1>2. CASE req.menu = "all"
  <2>1. Follow(p) = SkipFakeGroups(p)
    BY <1>2, Zenon DEF Follow
  <2>2. Listed = channels /\ \A j : j \in Page <=> j \in DOMAIN channels
                                                   /\ (j = 1 \/ ~Fake(j))
    BY <1>2, PageIs, WantedIs
  <2>3. Real(p) = Ahead(p)
    <3>1. \A j : j \in Real(p) <=> j \in DOMAIN channels /\ j > p /\ ~Fake(j)
        BY <1>1, RealIs
    <3>2. \A j : j \in Ahead(p) <=> j \in DOMAIN channels /\ p < j
                                    /\ (j = 1 \/ ~Fake(j))
        BY <2>2 DEF Ahead
    <3>3. \A j \in DOMAIN channels : j > p <=> p < j
        BY <1>1, ChannelsAre
    <3>4. \A j \in DOMAIN channels : p < j => j # 1
        BY <1>1, ChannelsAre
    <3> QED
        BY <3>1, <3>2, <3>3, <3>4
  <2> QED
    BY <1>1, <2>1, <2>2, <2>3, RealIs
<1>3. CASE req.menu = "channels"
  <2>1. Follow(p) = NextNormal(p)
    BY <1>3, Zenon DEF Follow
  <2>2. Listed = channels /\ \A j : j \in Page <=> j \in DOMAIN channels
                                                   /\ ~channels[j].group
    BY <1>3, PageIs, WantedIs
  <2>3. {j \in Behind(p) : ~channels[j].group} = Ahead(p)
    BY <1>1, <2>2, ChannelsAre DEF Behind, Ahead
  <2> QED
    BY <2>1, <2>2, <2>3 DEF NextNormal
<1>4. CASE req.menu = "groups"
  <2>1. Follow(p) = NextGroup(p)
    BY <1>4, Zenon DEF Follow
  <2>2. Listed = channels /\ Page = Groups
    BY <1>4, PageIs, WantedIs, GroupsAre
  <2>3. {j \in Behind(p) : channels[j].group /\ channels[j].name} = Ahead(p)
    BY <1>1, <2>2, ChannelsAre DEF Behind, Ahead, Groups
  <2> QED
    BY <2>1, <2>2, <2>3 DEF NextGroup
<1>5. CASE req.menu = "group"
  <2>1. Follow(p) = ChannelInGroup(p)
    BY <1>5, Zenon DEF Follow
  <2>2. Listed = channels /\ Selected(p)
    BY <1>5, PageIs, WantedIs
  <2>3. PICK q \in Groups : InGroup(p, q) /\ Selection = channels[q].id
    BY <2>2 DEF Selected, InGroup
  <2> QED
    BY <1>1, <1>5, <2>1, <2>2, <2>3, WithinGroup
<1>6. CASE req.menu = "recordings"
  <2>1. Follow(p) = Suitable(req.type = "PES", p)
    BY <1>6, Zenon DEF Follow
  <2>2. Listed = recordings /\ DOMAIN recordings \subseteq Nat \ {0}
    BY <1>6, PageIs, ListsItemised DEF Itemised
  <2> DEFINE pes == req.type = "PES"
  <2>3. {j \in DOMAIN recordings : j > p /\ (recordings[j].pes => pes)}
          = Ahead(p)
    BY <1>1, <1>6, <2>2, PageIs DEF Ahead
  <2> HIDE DEF pes
  <2>4. Suitable(pes, p) = IdOf(recordings, Ahead(p))
    BY <2>3 DEF Suitable
  <2> QED
    BY <2>1, <2>2, <2>4 DEF pes
<1> QED
    BY <1>2, <1>3, <1>4, <1>5, <1>6 DEF Kinds

(* The tree: inside the group that was selected, and outside.              *)
LEMMA TreeInside ==
    ASSUME ListsTyped, req.group \in Int, req.menu = "tree",
           NEW p \in Page, NEW q \in Groups, InGroup(p, q),
           Selection = channels[q].id
    PROVE  /\ SkipFakeGroups(p) = IdOf(channels, Ahead(p))
           /\ \A r \in Ahead(p) : (\A j \in Ahead(p) : r <= j) =>
                IF channels[r].group THEN InGroup(r, r) ELSE InGroup(r, q)
<1>1. /\ Page \subseteq DOMAIN channels /\ Page \subseteq Nat \ {0}
      /\ Itemised(channels) /\ p \in Nat
    BY PageIs
<1>2. /\ Real(p) \subseteq DOMAIN channels
      /\ SkipFakeGroups(p) = IdOf(channels, Real(p))
      /\ \A j : j \in Real(p) <=> j \in DOMAIN channels /\ j > p /\ ~Fake(j)
      /\ \A j \in Real(p) : channels[j].group => j \in Groups
    BY <1>1, RealIs
<1>3. Ahead(p) \subseteq Real(p)
  <2> SUFFICES ASSUME NEW j \in Ahead(p) PROVE j \in Real(p)
    OBVIOUS
  <2>1. j \in Page /\ j > p /\ j \in DOMAIN channels
    BY <1>1 DEF Ahead
  <2>2. ~Fake(j)
    BY <2>1, TreeGroups DEF Fake, Groups
  <2> QED
    BY <1>2, <2>1, <2>2
<1>4. ASSUME NEW r \in Real(p), \A j \in Real(p) : r <= j
      PROVE  r \in Ahead(p)
  <2>1. r \in DOMAIN channels /\ p < r
    BY <1>1, <1>2, ChannelsAre
  <2>2. CASE channels[r].group
    BY <1>2, <2>1, <2>2, TreeGroups DEF Ahead
  <2>3. CASE ~channels[r].group
    <3>1. InGroup(r, q)
        BY <1>1, <1>4, <2>3, StaysInGroup
    <3>2. Selected(r)
        BY <3>1 DEF Selected
    <3> QED
        BY <2>1, <2>3, <3>2, TreeGroups DEF Ahead
  <2> QED
    BY <2>2, <2>3
<1>5. Ahead(p) \subseteq DOMAIN channels
    BY <1>2, <1>3
<1>6. CASE Real(p) = {}
    BY <1>2, <1>3, <1>6
<1>7. CASE Real(p) # {}
  <2>1. PICK r \in Real(p) : /\ SkipFakeGroups(p) = channels[r].id
                             /\ \A j \in Real(p) : r <= j
    BY <1>1, <1>2, <1>7, IdOfIs
  <2>2. r \in Ahead(p) /\ \A j \in Ahead(p) : r <= j
    BY <1>3, <1>4, <2>1
  <2>3. IdOf(channels, Ahead(p)) = channels[r].id
    BY <1>1, <1>5, <2>2, IdOfLeast
  <2>4. ASSUME NEW k \in Ahead(p), \A j \in Ahead(p) : k <= j
        PROVE  IF channels[k].group THEN InGroup(k, k) ELSE InGroup(k, q)
    <3>1. k = r
      <4>1. k <= r /\ r <= k /\ k \in Nat /\ r \in Nat
        BY <2>2, <2>4, <1>1 DEF Ahead
      <4> QED
        BY <4>1
    <3>2. CASE channels[k].group
      <4>1. k \in Groups /\ k \in Nat
        BY <1>1, <1>2, <2>1, <3>1, <3>2 DEF Ahead
      <4> QED
        BY <3>2, <4>1, InGroupIs
    <3>3. CASE ~channels[k].group
        BY <1>1, <2>1, <3>1, <3>3, StaysInGroup
    <3> QED
        BY <3>2, <3>3
  <2> QED
    BY <2>1, <2>3, <2>4
<1> QED
    BY <1>6, <1>7

LEMMA TreeOutside ==
    ASSUME ListsTyped, req.group \in Int, req.menu = "tree",
           NEW p \in Page, NEW q \in Groups, InGroup(p, q),
           Selection # channels[q].id
    PROVE  /\ NextGroup(p) = IdOf(channels, Ahead(p))
           /\ \A r \in Ahead(p) : (\A j \in Ahead(p) : r <= j) => InGroup(r, r)
<1>1. /\ Page \subseteq DOMAIN channels /\ Page \subseteq Nat \ {0}
      /\ Itemised(channels) /\ p \in Nat
    BY PageIs
<1>2. Groups \subseteq DOMAIN channels /\ Groups \subseteq Nat \ {0}
    BY GroupsAre
<1> DEFINE G == {j \in Groups : p < j}
<1>3. {j \in Behind(p) : channels[j].group /\ channels[j].name} = G
    BY <1>1, <1>2 DEF Behind, Groups
<1>4. G \subseteq Ahead(p)
    BY TreeGroups DEF Ahead
<1>5. \A j \in Ahead(p) : \E g \in G : g <= j
  <2> SUFFICES ASSUME NEW j \in Ahead(p) PROVE \E g \in G : g <= j
    OBVIOUS
  <2>1. j \in Page /\ p < j /\ j \in Nat
    BY <1>1 DEF Ahead
  <2>2. CASE j \in Groups
    <3>1. j \in G /\ j <= j
        BY <2>1, <2>2
    <3> QED
        BY <3>1
  <2>3. CASE j \notin Groups
    <3>1. PICK g \in Groups : InGroup(j, g) /\ Selection = channels[g].id
        BY <2>1, <2>3, TreeGroups DEF Selected
    <3>2. g \in Nat /\ g <= j
        BY <1>2, <3>1 DEF InGroup
    <3>3. ~(g <= p)
      <4> SUFFICES ASSUME g <= p PROVE FALSE
        OBVIOUS
      <4>0. p <= j
        BY <1>1, <2>1
      <4>1. InGroup(p, g)
        BY <1>1, <2>1, <3>1, <4>0, InGroupIs
      <4>2. g = q
        BY <1>1, <4>1, InGroupIs
      <4> QED
        BY <3>1, <4>2
    <3>4. p < g
        BY <1>1, <3>2, <3>3
    <3> QED
        BY <3>2, <3>4
  <2> QED
    BY <2>2, <2>3
<1>6. \A g \in G : \E j \in Ahead(p) : j <= g
  <2>1. \A g \in G : g \in Ahead(p) /\ g <= g
    BY <1>2, <1>4
  <2> QED
    BY <2>1
<1>7. NextGroup(p) = IdOf(channels, G)
    BY <1>3 DEF NextGroup
<1>8. Ahead(p) \subseteq DOMAIN channels /\ G \subseteq DOMAIN channels
    BY <1>1, <1>2 DEF Ahead
<1>9. IdOf(channels, G) = IdOf(channels, Ahead(p))
  <2> HIDE DEF G
  <2> QED
    BY <1>1, <1>5, <1>6, <1>8, IdOfSame
<1>10. ASSUME NEW r \in Ahead(p), \A j \in Ahead(p) : r <= j
       PROVE  InGroup(r, r)
  <2>1. PICK g \in G : g <= r
    BY <1>5
  <2>2. r <= g /\ r \in Nat /\ g \in Nat
    BY <1>1, <1>2, <1>4, <1>10, <2>1 DEF Ahead
  <2>3. r = g
    BY <2>1, <2>2
  <2> QED
    BY <2>1, <2>2, <2>3, InGroupIs
<1> QED
    BY <1>7, <1>9, <1>10

Fields == {"kind", "pes", "current", "first", "selected", "grp"}

(* From what Next returns, by the kind of the iterator.                    *)
LEMMA NextBegins ==
    ASSUME NEW it, DOMAIN it = Fields, it.first # Null
    PROVE  LET n == IteratorNext(it) IN
           /\ DOMAIN n = Fields /\ n.kind = it.kind /\ n.pes = it.pes
           /\ n.selected = it.selected /\ n.grp = it.grp
           /\ n.current = it.first /\ n.first = Null
<1> DEFINE n == [it EXCEPT !.current = it.first, !.first = Null]
<1>1. IteratorNext(it) = n
    BY DEF IteratorNext
<1>2. /\ DOMAIN n = Fields /\ n.kind = it.kind /\ n.pes = it.pes
      /\ n.selected = it.selected /\ n.grp = it.grp
      /\ n.current = it.first /\ n.first = Null
    BY DEF Fields
<1> QED
    BY <1>1, <1>2

LEMMA NextFollows ==
    ASSUME NEW it, DOMAIN it = Fields, it.first = Null, it.current # Null,
           it.kind = req.menu, it.pes = (req.type = "PES"),
           req.menu \in Kinds, req.menu # "tree",
           NEW p, Place(Listed, it.current) = p
    PROVE  LET n == IteratorNext(it) IN
           /\ DOMAIN n = Fields /\ n.kind = it.kind /\ n.pes = it.pes
           /\ n.selected = it.selected /\ n.first = Null
           /\ n.current = Follow(p)
<1> DEFINE n == IteratorNext(it)
           e == [it EXCEPT !.current = Follow(p)]
<1>1. n = e
  <2>1. CASE req.menu = "recordings"
    <3>1. Follow(p) = Suitable(req.type = "PES", p)
      BY <2>1, Zenon DEF Follow
    <3>2. Suitable(it.pes, Place(recordings, it.current)) = Follow(p)
      BY <2>1, <3>1 DEF Listed
    <3>3. n = [it EXCEPT !.current = Suitable(it.pes,
                                           Place(recordings, it.current))]
      BY <2>1, Zenon DEF IteratorNext
    <3> QED
      BY <3>2, <3>3
  <2>2. CASE req.menu # "recordings"
    <3>1. Place(channels, it.current) = p
      BY <2>2 DEF Listed
    <3>2. n = CASE it.kind = "all" -> [it EXCEPT !.current = SkipFakeGroups(p)]
           [] it.kind = "channels" -> [it EXCEPT !.current = NextNormal(p)]
           [] it.kind = "groups" -> [it EXCEPT !.current = NextGroup(p)]
           [] it.kind = "group" -> [it EXCEPT !.current = ChannelInGroup(p)]
           [] it.kind = "tree" -> TreeNext(it, p)
      BY <2>2, <3>1, Zenon DEF IteratorNext
    <3>3. CASE req.menu = "all"
      <4>1. Follow(p) = SkipFakeGroups(p)
        BY <3>3, Zenon DEF Follow
      <4>2. n = [it EXCEPT !.current = SkipFakeGroups(p)]
        BY <3>2, <3>3, Zenon
      <4> QED
        BY <4>1, <4>2
    <3>4. CASE req.menu = "channels"
      <4>1. Follow(p) = NextNormal(p)
        BY <3>4, Zenon DEF Follow
      <4>2. n = [it EXCEPT !.current = NextNormal(p)]
        BY <3>2, <3>4, Zenon
      <4> QED
        BY <4>1, <4>2
    <3>5. CASE req.menu = "groups"
      <4>1. Follow(p) = NextGroup(p)
        BY <3>5, Zenon DEF Follow
      <4>2. n = [it EXCEPT !.current = NextGroup(p)]
        BY <3>2, <3>5, Zenon
      <4> QED
        BY <4>1, <4>2
    <3>6. CASE req.menu = "group"
      <4>1. Follow(p) = ChannelInGroup(p)
        BY <3>6, Zenon DEF Follow
      <4>2. n = [it EXCEPT !.current = ChannelInGroup(p)]
        BY <3>2, <3>6, Zenon
      <4> QED
        BY <4>1, <4>2
    <3> QED
      BY <2>2, <3>3, <3>4, <3>5, <3>6 DEF Kinds
  <2> QED
    BY <2>1, <2>2
<1> HIDE DEF n
<1>2. /\ DOMAIN e = Fields /\ e.kind = it.kind /\ e.pes = it.pes
      /\ e.selected = it.selected /\ e.first = Null
      /\ e.current = Follow(p)
    BY DEF Fields
<1> QED
    BY <1>1, <1>2 DEF n

LEMMA NextInTree ==
    ASSUME NEW it, DOMAIN it = Fields, it.first = Null, it.current # Null,
           it.kind = "tree", NEW p, Place(channels, it.current) = p
    PROVE  LET n == IteratorNext(it)
               inside == it.grp = it.selected
               c == IF inside THEN SkipFakeGroups(p) ELSE NextGroup(p)
           IN
           /\ DOMAIN n = Fields /\ n.kind = it.kind /\ n.pes = it.pes
           /\ n.selected = it.selected /\ n.first = Null
           /\ n.current = c
           /\ n.grp = IF ~inside \/ IsSep(c) THEN c ELSE it.grp
<1> DEFINE n == IteratorNext(it)
           c == IF it.grp = it.selected THEN SkipFakeGroups(p) ELSE NextGroup(p)
           g == IF ~(it.grp = it.selected) \/ IsSep(c) THEN c ELSE it.grp
           e == [it EXCEPT !.current = c, !.grp = g]
<1>1. n = TreeNext(it, p)
  <2>1. n = CASE it.kind = "all" -> [it EXCEPT !.current = SkipFakeGroups(p)]
           [] it.kind = "channels" -> [it EXCEPT !.current = NextNormal(p)]
           [] it.kind = "groups" -> [it EXCEPT !.current = NextGroup(p)]
           [] it.kind = "group" -> [it EXCEPT !.current = ChannelInGroup(p)]
           [] it.kind = "tree" -> TreeNext(it, p)
    BY Zenon DEF IteratorNext
  <2> HIDE DEF n
  <2> QED
    BY <2>1, Zenon
<1>2. TreeNext(it, p) = e
    BY DEF TreeNext
<1> HIDE DEF n, c, g
<1>3. /\ DOMAIN e = Fields /\ e.kind = it.kind /\ e.pes = it.pes
      /\ e.selected = it.selected /\ e.first = Null
      /\ e.current = c /\ e.grp = g
    BY DEF Fields
<1>4. n = e
    BY <1>1, <1>2
<1>5. /\ DOMAIN n = Fields /\ n.kind = it.kind /\ n.pes = it.pes
      /\ n.selected = it.selected /\ n.first = Null
      /\ n.current = c /\ n.grp = g
    BY <1>3, <1>4
<1> QED
    BY <1>5 DEF n, c, g

(* An item the iterator is asked for is the next one of the page, or there *)
(* is none.                                                                *)
Moves(n, p) ==
    \/ n.current = Null /\ Ahead(p) = {}
    \/ \E r \in Ahead(p) : /\ IteratorAt(n, r) /\ n.current # Null
                           /\ \A j \in Ahead(p) : r <= j

LEMMA IteratorMoves ==
    ASSUME ListsTyped, req.group \in Int, req.menu \in Kinds,
           NEW p, NEW it, IteratorAt(it, p),
           ~(it.kind = "recordings" /\ it.first = Null /\ it.current = Null)
    PROVE  Moves(IteratorNext(it), p)
<1> DEFINE n == IteratorNext(it)
<1>0. /\ DOMAIN it = Fields /\ it.kind = req.menu /\ it.pes = (req.type = "PES")
      /\ it.selected = Selection
    BY DEF IteratorAt, Fields, Selection
<1>1. /\ Page \subseteq DOMAIN Listed /\ Page \subseteq Nat \ {0}
      /\ Itemised(Listed)
    BY PageIs
<1>2. CASE p = 0
  <2>1. it.current = Null /\ it.first = IdOf(Listed, Page)
        /\ (it.kind = "tree" => it.grp = it.first)
    BY <1>2 DEF IteratorAt
  <2>2. Ahead(0) = Page
    BY <1>1 DEF Ahead
  <2>3. CASE Page = {}
    <3>1. it.first = Null /\ it.kind # "recordings"
      BY <2>1, <2>3 DEF IdOf
    <3>2. n = it
      BY <2>1, <3>1 DEF IteratorNext
    <3> QED
      BY <1>2, <2>1, <2>2, <2>3, <3>2 DEF Moves
  <2>4. CASE Page # {}
    <3>1. PICK r \in Page : /\ IdOf(Listed, Page) = Listed[r].id
                            /\ IdOf(Listed, Page) # Null
                            /\ \A j \in Page : r <= j
      BY <1>1, <2>4, IdOfIs
    <3>2. /\ DOMAIN n = Fields /\ n.kind = it.kind /\ n.pes = it.pes
          /\ n.selected = it.selected /\ n.grp = it.grp
          /\ n.current = it.first /\ n.first = Null
      BY <1>0, <2>1, <3>1, NextBegins
    <3> HIDE DEF n
    <3>3. req.menu = "tree" => r \in Groups /\ InGroup(r, r)
      <4> SUFFICES ASSUME req.menu = "tree" PROVE r \in Groups /\ InGroup(r, r)
        OBVIOUS
      <4>1. ASSUME r \notin Groups PROVE FALSE
        <5>1. PICK q \in Groups : q < r
            BY <4>1, TreeGroups
        <5>2. q \in Page /\ q \in Nat /\ r \in Nat
            BY <1>1, <5>1, TreeGroups
        <5> QED
            BY <3>1, <5>1, <5>2
      <4>2. r \in Nat
        BY <1>1
      <4> QED
        BY <4>1, <4>2, InGroupIs
    <3>4. req.menu = "tree" => Listed = channels
      BY PageIs
    <3>5. r # 0
      BY <1>1
    <3>6. IteratorAt(n, r)
      BY <1>0, <2>1, <3>1, <3>2, <3>3, <3>4, <3>5 DEF IteratorAt, Fields, Selection
    <3> QED
      BY <1>2, <2>1, <2>2, <3>1, <3>2, <3>6 DEF Moves, n
  <2> QED
    BY <2>3, <2>4
<1>3. CASE p # 0
  <2>1. p \in Page /\ it.current = Listed[p].id /\ it.first = Null
        /\ (it.kind = "tree" => \E q \in Groups : InGroup(p, q) /\ it.grp = channels[q].id)
    BY <1>3 DEF IteratorAt
  <2>2. Place(Listed, it.current) = p /\ it.current # Null /\ p \in Nat
    BY <1>1, <2>1 DEF Itemised
  <2>3. Ahead(p) \subseteq DOMAIN Listed /\ Ahead(p) \subseteq Page
    BY <1>1 DEF Ahead
  <2>4. \/ Ahead(p) = {} /\ IdOf(Listed, Ahead(p)) = Null
        \/ \E r \in Ahead(p) : /\ IdOf(Listed, Ahead(p)) = Listed[r].id
                               /\ IdOf(Listed, Ahead(p)) # Null
                               /\ \A j \in Ahead(p) : r <= j
    BY <1>1, <2>3, IdOfIs
  <2>5. CASE req.menu # "tree"
    <3>1. /\ DOMAIN n = Fields /\ n.kind = it.kind /\ n.pes = it.pes
          /\ n.selected = it.selected /\ n.first = Null
          /\ n.current = Follow(p)
      BY <1>0, <2>1, <2>2, <2>5, NextFollows
    <3>2. Follow(p) = IdOf(Listed, Ahead(p))
      BY <2>1, <2>5, FollowIs
    <3> HIDE DEF n
    <3>3. ASSUME NEW r \in Ahead(p), IdOf(Listed, Ahead(p)) = Listed[r].id
          PROVE  IteratorAt(n, r)
      <4>1. r \in Page /\ r # 0
        BY <1>1, <2>3
      <4> QED
        BY <1>0, <2>5, <3>1, <3>2, <3>3, <4>1 DEF IteratorAt, Fields, Selection
    <3> QED
      BY <2>4, <3>1, <3>2, <3>3 DEF Moves, n
  <2>6. CASE req.menu = "tree"
    <3>0. Listed = channels
      BY <2>6, PageIs
    <3>1. PICK q \in Groups : InGroup(p, q) /\ it.grp = channels[q].id
      BY <1>0, <2>1, <2>6
    <3> DEFINE inside == it.grp = it.selected
               c == IF inside THEN SkipFakeGroups(p) ELSE NextGroup(p)
    <3>2. /\ DOMAIN n = Fields /\ n.kind = it.kind /\ n.pes = it.pes
          /\ n.selected = it.selected /\ n.first = Null
          /\ n.current = c
          /\ n.grp = IF ~inside \/ IsSep(c) THEN c ELSE it.grp
      BY <1>0, <2>1, <2>2, <2>6, <3>0, NextInTree
    <3> HIDE DEF n
    <3>3. c = IdOf(channels, Ahead(p))
      <4>1. CASE inside
        BY <1>0, <2>1, <2>6, <3>1, <4>1, TreeInside
      <4>2. CASE ~inside
        BY <1>0, <2>1, <2>6, <3>1, <4>2, TreeOutside
      <4> QED
        BY <4>1, <4>2
    <3>4. ASSUME NEW r \in Ahead(p), c = channels[r].id,
                 \A j \in Ahead(p) : r <= j
          PROVE  IteratorAt(n, r)
      <4>1. r \in Page /\ r # 0 /\ r \in DOMAIN channels
        BY <1>1, <2>3, <3>0
      <4>2. IsSep(c) <=> channels[r].group
        BY <3>4, <4>1, ChannelsAre
      <4> HIDE DEF c
      <4>3. \E g \in Groups : InGroup(r, g) /\ n.grp = channels[g].id
        <5>1. CASE ~inside
            <6>1. InGroup(r, r) /\ n.grp = channels[r].id
                BY <1>0, <2>1, <2>6, <3>1, <3>2, <3>4, <5>1, TreeOutside
            <6> QED
                BY <6>1 DEF InGroup
        <5>2. CASE inside /\ channels[r].group
            <6>1. InGroup(r, r) /\ n.grp = channels[r].id
                BY <1>0, <2>1, <2>6, <3>1, <3>2, <3>4, <4>2, <5>2, TreeInside
            <6> QED
                BY <6>1 DEF InGroup
        <5>3. CASE inside /\ ~channels[r].group
            <6>1. InGroup(r, q) /\ n.grp = channels[q].id
                BY <1>0, <2>1, <2>6, <3>1, <3>2, <3>4, <4>2, <5>3, TreeInside
            <6> QED
                BY <3>1, <6>1
        <5> QED
            BY <5>1, <5>2, <5>3
      <4> QED
        BY <1>0, <3>0, <3>2, <3>4, <4>1, <4>3 DEF IteratorAt, Fields, Selection
    <3> HIDE DEF c
    <3>5. \/ Ahead(p) = {} /\ n.current = Null
          \/ \E r \in Ahead(p) : /\ n.current = channels[r].id
                                 /\ n.current # Null
                                 /\ \A j \in Ahead(p) : r <= j
      BY <2>4, <3>0, <3>2, <3>3
    <3> QED
      BY <3>2, <3>4, <3>5 DEF Moves, n
  <2> QED
    BY <2>5, <2>6
<1> QED
    BY <1>2, <1>3

-----------------------------------------------------------------------------
(* What a page tells, line by line.                                        *)

LEMMA ItemsGrow ==
    ASSUME NEW s, Listing(s), NEW x
    PROVE  LET t == s \o <<x>> IN
           /\ Items(t) = IF IsItem(x) THEN Items(s) \cup {Len(s) + 1} ELSE Items(s)
           /\ Items(s) \subseteq 1 .. Len(s)
           /\ Len(s) \in Nat
           /\ \A i \in Items(s) : t[i] = s[i]
           /\ t[Len(s) + 1] = x
<1> DEFINE t == s \o <<x>>
<1>1. /\ Listing(t) /\ Len(s) \in Nat /\ DOMAIN s = 1 .. Len(s)
      /\ Len(t) = Len(s) + 1
      /\ \A i \in 1 .. Len(s) : t[i] = s[i]
      /\ t[Len(s) + 1] = x
    BY ListingGrows
<1>2. DOMAIN t = 1 .. Len(t)
    BY <1>1 DEF Listing
<1> HIDE DEF t
<1>3. DOMAIN t = DOMAIN s \cup {Len(s) + 1}
    BY <1>1, <1>2
<1>4. Items(s) \subseteq 1 .. Len(s) /\ Len(s) + 1 \notin 1 .. Len(s)
    BY <1>1 DEF Items
<1>5. \A i : i \in Items(t) <=> i \in Items(s) \/ (i = Len(s) + 1 /\ IsItem(x))
    BY <1>1, <1>3 DEF Items, IsItem
<1> QED
    BY <1>1, <1>4, <1>5 DEF t

LEMMA TellsGrows ==
    ASSUME NEW s, Listing(s), NEW T, Tells(s, T), NEW x
    PROVE  /\ ~IsItem(x) => Tells(s \o <<x>>, T)
           /\ IsItem(x) /\ (\A j \in T : j < AtPlace(x))
                => Tells(s \o <<x>>, T \cup {AtPlace(x)})
<1> DEFINE t == s \o <<x>>
<1>1. /\ Items(t) = IF IsItem(x) THEN Items(s) \cup {Len(s) + 1} ELSE Items(s)
      /\ Items(s) \subseteq 1 .. Len(s)
      /\ Len(s) \in Nat
      /\ \A i \in Items(s) : t[i] = s[i]
      /\ t[Len(s) + 1] = x
    BY ItemsGrow
<1> HIDE DEF t
<1>2. /\ {AtPlace(s[i]) : i \in Items(s)} = T
      /\ \A i, k \in Items(s) : i < k => AtPlace(s[i]) < AtPlace(s[k])
    BY DEF Tells
<1>3. ASSUME ~IsItem(x) PROVE Tells(t, T)
  <2>1. {AtPlace(t[i]) : i \in Items(t)} = {AtPlace(s[i]) : i \in Items(s)}
    BY <1>1, <1>3
  <2>2. \A i, k \in Items(t) : i < k => AtPlace(t[i]) < AtPlace(t[k])
    BY <1>1, <1>2, <1>3
  <2> QED
    BY <1>2, <2>1, <2>2 DEF Tells
<1>4. ASSUME IsItem(x), \A j \in T : j < AtPlace(x)
      PROVE  Tells(t, T \cup {AtPlace(x)})
  <2>0. Items(t) = Items(s) \cup {Len(s) + 1}
    BY <1>1, <1>4
  <2>1. {AtPlace(t[i]) : i \in Items(t)}
          = {AtPlace(s[i]) : i \in Items(s)} \cup {AtPlace(x)}
    BY <1>1, <2>0
  <2>2. ASSUME NEW i \in Items(t), NEW k \in Items(t), i < k
        PROVE  AtPlace(t[i]) < AtPlace(t[k])
    <3>1. i \in Items(s)
        BY <1>1, <2>0, <2>2
    <3>2. CASE k \in Items(s)
        BY <1>1, <1>2, <2>2, <3>1, <3>2
    <3>3. CASE k = Len(s) + 1
      <4>1. AtPlace(s[i]) \in T
        BY <1>2, <3>1
      <4> QED
        BY <1>1, <1>4, <3>1, <3>3, <4>1
    <3> QED
        BY <2>0, <3>2, <3>3
  <2> QED
    BY <1>2, <2>1, <2>2 DEF Tells
<1> QED
    BY <1>3, <1>4 DEF t

LEMMA TellsNothing ==
    /\ Tells(<<>>, {})
    /\ \A h : ~IsItem(h) => Tells(<<h>>, {})
<1>1. Tells(<<>>, {})
  <2>1. Items(<<>>) = {}
    BY DEF Items
  <2> QED
    BY <2>1 DEF Tells
<1>2. ASSUME NEW h, ~IsItem(h) PROVE Tells(<<h>>, {})
  <2>1. Listing(<<>>) /\ <<>> \o <<h>> = <<h>>
    BY ListingSmall
  <2> QED
    BY <1>1, <1>2, <2>1, TellsGrows
<1> QED
    BY <1>1, <1>2

LEMMA RightGrows ==
    ASSUME NEW s, Listing(s), Right(s), NEW x,
           req.path = "menu" => Linked(x),
           x[1] \in {"/body", "/list"} => Tells(s, Page)
    PROVE  Right(s \o <<x>>)
<1> DEFINE t == s \o <<x>>
<1>1. /\ Listing(t) /\ Len(s) \in Nat /\ DOMAIN s = 1 .. Len(s)
      /\ Len(t) = Len(s) + 1 /\ Last(t) = x
      /\ \A i \in 1 .. Len(s) : t[i] = s[i]
      /\ t[Len(s) + 1] = x
    BY ListingGrows
<1>2. DOMAIN t = 1 .. Len(t)
    BY <1>1 DEF Listing
<1>3. x[1] \in {"/body", "/list"} => Tells(t, Page)
    BY TellsGrows DEF IsItem
<1> HIDE DEF t
<1>4. DOMAIN t = DOMAIN s \cup {Len(s) + 1}
    BY <1>1, <1>2
<1>5. req.path = "menu" => \A i \in DOMAIN t : Linked(t[i])
  <2> SUFFICES ASSUME req.path = "menu", NEW i \in DOMAIN t PROVE Linked(t[i])
    OBVIOUS
  <2>1. CASE i \in DOMAIN s
    <3>1. t[i] = s[i] /\ Linked(s[i])
        BY <1>1, <2>1 DEF Right
    <3> QED
        BY <3>1
  <2>2. CASE i = Len(s) + 1
    BY <1>1, <2>2
  <2> QED
    BY <1>4, <2>1, <2>2
<1>6. EndsWhole(t)
    BY <1>1, <1>3 DEF EndsWhole
<1> QED
    BY <1>5, <1>6 DEF Right, t

LEMMA RightHeader ==
    ASSUME NEW h, h[1] = "header"
    PROVE  Right(<<>>) /\ Right(<<h>>) /\ Right(<<>> \o <<h>>)
<1>1. Right(<<>>)
    BY DEF Right, EndsWhole
<1>2. Listing(<<>>) /\ <<>> \o <<h>> = <<h>>
    BY ListingSmall
<1>3. Linked(h)
    BY DEF Linked, IsItem
<1>4. Right(<<>> \o <<h>>)
    BY <1>1, <1>2, <1>3, RightGrows
<1> QED
    BY <1>1, <1>2, <1>4

-----------------------------------------------------------------------------
(* What the writers do with the item they are on, or without one.          *)

Asks == {"PageTop", "PlainItem", "GroupTop", "Item", "Continue"}
Telling(st, to) == to \in Tellers /\ st # "First"

Goes(st, to, on) ==
    /\ st \in Unopened \cup {"First"} =>
         to \in Unopened \cup {"PageTop", "Continue"} /\ ~Telling(st, to)
    /\ st \in Pending /\ on => to \in Tellers \/ to = "GroupBottom"
    /\ st \in Asks /\ on => to \in Tellers \cup Pending
    /\ st \in Asks \cup Pending /\ ~on => to \in Late
    /\ to \in {"PageBottom", "Last"} => ~on

LEMMA HtmlGoes ==
    ASSUME NEW st \in HtmlStates \ {"PageBottom"}, NEW self, NEW on, NEW sep,
           ~on => st \notin {"PlainTop", "ItemsTop"}
    PROVE  Goes(st, HtmlState(st, self, on, sep), on)
<1> DEFINE to == HtmlState(st, self, on, sep)
<1> USE DEF Goes, Telling, Tellers, Pending, Asks, Late
<1>1. CASE st \in Unopened
  <2>1. to \in Unopened \cup {"PageTop"}
    BY <1>1, Zenon DEF HtmlState, Unopened
  <2> HIDE DEF to
  <2> QED
    BY <1>1, <2>1 DEF Unopened, to
<1>2. CASE st = "PageTop"
  <2>1. to = IF ~on THEN "PageBottom"
             ELSE IF sep THEN "GroupTop" ELSE "PlainTop"
    BY <1>2, Zenon DEF HtmlState
  <2> QED
    BY <1>2, <2>1 DEF Unopened
<1>3. CASE st = "PlainTop"
  <2>1. to = "PlainItem"
    BY <1>3, Zenon DEF HtmlState
  <2> QED
    BY <1>3, <2>1 DEF Unopened
<1>4. CASE st = "PlainItem"
  <2>1. to = IF on /\ ~sep THEN "PlainItem" ELSE "PlainBottom"
    BY <1>4, Zenon DEF HtmlState
  <2> QED
    BY <1>4, <2>1 DEF Unopened
<1>5. CASE st \in {"PlainBottom", "GroupBottom"}
  <2>1. to = IF on THEN "GroupTop" ELSE "PageBottom"
    BY <1>5, Zenon DEF HtmlState
  <2> QED
    BY <1>5, <2>1 DEF Unopened
<1>6. CASE st = "GroupTop"
  <2>1. to = BehindGroupTop(on, sep)
    BY <1>6, Zenon DEF HtmlState
  <2> QED
    BY <1>6, <2>1 DEF Unopened, BehindGroupTop
<1>7. CASE st = "ItemsTop"
  <2>1. to = "Item"
    BY <1>7, Zenon DEF HtmlState
  <2> QED
    BY <1>7, <2>1 DEF Unopened
<1>8. CASE st = "Item"
  <2>1. to = IF on /\ ~sep THEN "Item" ELSE "ItemsBottom"
    BY <1>8, Zenon DEF HtmlState
  <2> QED
    BY <1>8, <2>1 DEF Unopened
<1>9. CASE st = "ItemsBottom"
  <2>1. to = "GroupBottom"
    BY <1>9, Zenon DEF HtmlState
  <2> QED
    BY <1>9, <2>1 DEF Unopened
<1> QED
  BY <1>1, <1>2, <1>3, <1>4, <1>5, <1>6, <1>7, <1>8, <1>9
     DEF HtmlStates, InBody, InDiv, InOl

LEMMA MenuGoes ==
    ASSUME NEW m, Writer(m), HasNext(m),
           m.onItem \in BOOLEAN,
           m.onItem = FALSE => m.st \in Late
    PROVE  LET n == MenuNext(m) IN
           /\ n.fmt = m.fmt /\ Writer(n)
           /\ n.it = IF m.st \in Asks THEN IteratorNext(m.it) ELSE m.it
           /\ n.onItem = IF m.st \in Asks THEN n.it.current # Null ELSE m.onItem
           /\ Goes(m.st, n.st, n.onItem)
<1> DEFINE k == IF AsksItem(m) THEN NextItem(m) ELSE m
           sep == k.it.kind # "recordings" /\ IsSep(k.it.current)
           st == IF m.fmt = "html" THEN HtmlState(m.st, m.self, k.onItem, sep)
                 ELSE ListState(m.st, k.onItem)
           n == [k EXCEPT !.st = st]
<1>1. n = MenuNext(m)
  BY Zenon DEF MenuNext
<1>2. /\ DOMAIN k = {"fmt", "it", "self", "onItem", "st"} /\ k.fmt = m.fmt
      /\ k.it = IF m.st \in Asks THEN IteratorNext(m.it) ELSE m.it
      /\ k.onItem = IF m.st \in Asks THEN k.it.current # Null ELSE m.onItem
  BY DEF Writer, NextItem, AsksItem, Asks
<1> HIDE DEF k
<1>3. /\ n.st = st /\ n.it = k.it /\ n.onItem = k.onItem
  <2> HIDE DEF st
  <2> QED
    BY <1>2
<1>4. n.fmt = m.fmt /\ Writer(n)
    BY <1>1, NextState
<1> HIDE DEF n
<1>5. ~k.onItem => m.st \notin {"PlainTop", "ItemsTop"}
    BY <1>2 DEF Late, Asks
<1>6. Goes(m.st, st, k.onItem)
  <2>1. CASE m.fmt = "html"
    <3>1. m.st \in HtmlStates \ {"PageBottom"}
      BY <2>1 DEF Writer, HasNext
    <3> HIDE DEF sep
    <3> QED
      BY <1>5, <2>1, <3>1, HtmlGoes
  <2>2. CASE m.fmt # "html"
    <3>1. m.st \in {"First", "Continue"}
      BY <2>2 DEF Writer, HasNext, ListStates
    <3>2. st = IF m.st = "First" THEN "Continue"
               ELSE IF k.onItem THEN "Continue" ELSE "Last"
      BY <2>2 DEF ListState
    <3> HIDE DEF st
    <3>3. m.st \notin Unopened
      BY <3>1 DEF Unopened
    <3> QED
      BY <3>1, <3>2, <3>3 DEF Goes, Telling, Tellers, Pending, Asks, Late
  <2> QED
    BY <2>1, <2>2
<1> HIDE DEF st
<1> QED
    BY <1>1, <1>2, <1>3, <1>4, <1>6

(* The line of the state it has gone to.                                   *)
LEMMA LineIs ==
    ASSUME NEW m, Writer(m), HasNext(m)
    PROVE  LET n == MenuNext(m)
               x == MenuLine(n, m.st)
           IN /\ IsItem(x) <=> Telling(m.st, n.st)
              /\ IsItem(x) => /\ x[2] = n.it.current
                              /\ x[3] = ItemId(n.it.kind, n.it.current)
              /\ x[1] \in {"/body", "/list"} => n.st \in {"PageBottom", "Last"}
<1> DEFINE n == MenuNext(m)
           x == MenuLine(n, m.st)
<1>1. /\ Writer(n) /\ n.fmt = m.fmt
      /\ m.fmt # "html" => n.st = IF m.st = "First" \/ n.onItem
                                    THEN "Continue" ELSE "Last"
  BY NextState
<1> HIDE DEF n
<1>2. CASE m.fmt = "html"
  <2>1. x = HtmlLine(n) /\ x[1] = TagOf(n.st)
    BY <1>1, <1>2, HtmlTag DEF MenuLine
  <2>2. n.st \in HtmlStates /\ m.st \in HtmlStates
    BY <1>1, <1>2 DEF Writer
  <2>3. m.st # "First" /\ n.st # "Continue"
    BY <2>2 DEF HtmlStates, InBody, InDiv, InOl, Unopened
  <2>4. IsItem(x) <=> n.st \in {"GroupTop", "PlainItem", "Item"}
    BY <2>1 DEF IsItem, TagOf
  <2>5. n.st = "GroupTop" => x = ItemLine("div", n)
    BY <2>1, Zenon DEF HtmlLine
  <2>6. n.st \in {"PlainItem", "Item"} => x = ItemLine("li", n)
    BY <2>1, Zenon DEF HtmlLine
  <2>7. IsItem(x) => x[2] = n.it.current /\ x[3] = ItemId(n.it.kind, n.it.current)
    BY <2>4, <2>5, <2>6 DEF ItemLine
  <2>8. x[1] \in {"/body", "/list"} => n.st \in {"PageBottom", "Last"}
    BY <2>1 DEF TagOf
  <2> QED
    BY <2>3, <2>4, <2>7, <2>8 DEF Telling, Tellers, n
<1>3. CASE m.fmt # "html"
  <2>1. x = ListLine(n, m.st) /\ n.st \in {"Continue", "Last"}
    BY <1>1, <1>3 DEF MenuLine
  <2>2. CASE m.st = "First"
    <3>1. x[1] = "list"
        BY <2>1, <2>2 DEF ListLine
    <3> QED
        BY <2>2, <3>1 DEF IsItem, Telling, n
  <2>3. CASE m.st # "First" /\ n.st = "Continue"
    <3>1. x = ItemLine("li", n)
        BY <2>1, <2>3 DEF ListLine
    <3>2. x[1] = "li" /\ x[2] = n.it.current /\ x[3] = ItemId(n.it.kind, n.it.current)
        BY <3>1 DEF ItemLine
    <3> HIDE DEF x
    <3> QED
        BY <2>3, <3>2 DEF IsItem, Telling, Tellers, n, x
  <2>4. CASE m.st # "First" /\ n.st = "Last"
    <3>1. x[1] = "/list"
        BY <2>1, <2>4 DEF ListLine
    <3> QED
        BY <2>4, <3>1 DEF IsItem, Telling, Tellers, n
  <2> QED
    BY <2>1, <2>2, <2>3, <2>4
<1> QED
    BY <1>2, <1>3

Empty(it) == it.kind = "recordings" /\ it.first = Null /\ it.current = Null

LEMMA UpToIs ==
    ASSUME ListsTyped, NEW p \in {0} \cup Page
    PROVE  /\ UpTo(0) = {}
           /\ p # 0 => UpTo(p) = Before(p) \cup {p} /\ \A j \in Before(p) : j < p
           /\ Ahead(p) = {} => UpTo(p) = Page
           /\ \A r \in Ahead(p) : (\A j \in Ahead(p) : r <= j) =>
                /\ Before(r) = UpTo(p) /\ UpTo(r) = UpTo(p) \cup {r}
                /\ r # 0 /\ \A j \in UpTo(p) : j < r
<1>1. Page \subseteq Nat \ {0} /\ p \in Nat
    BY PageIs
<1>2. UpTo(0) = {}
  <2>1. \A j \in Page : ~(j <= 0)
    BY <1>1
  <2> QED
    BY <2>1 DEF UpTo
<1>3. p # 0 => UpTo(p) = Before(p) \cup {p} /\ \A j \in Before(p) : j < p
  <2> SUFFICES ASSUME p # 0 PROVE UpTo(p) = Before(p) \cup {p}
    BY DEF Before
  <2>1. p \in Page /\ \A j \in Page : j <= p <=> j < p \/ j = p
    BY <1>1
  <2> QED
    BY <2>1 DEF UpTo, Before
<1>4. Ahead(p) = {} => UpTo(p) = Page
  <2> SUFFICES ASSUME Ahead(p) = {} PROVE UpTo(p) = Page
    OBVIOUS
  <2>1. \A j \in Page : ~(p < j)
    BY DEF Ahead
  <2>2. \A j \in Page : j <= p
    BY <1>1, <2>1
  <2> QED
    BY <2>2 DEF UpTo
<1>5. ASSUME NEW r \in Ahead(p), \A j \in Ahead(p) : r <= j
      PROVE  /\ Before(r) = UpTo(p) /\ UpTo(r) = UpTo(p) \cup {r}
             /\ r # 0 /\ \A j \in UpTo(p) : j < r
  <2>1. r \in Page /\ r \in Nat /\ p < r /\ r # 0
    BY <1>1 DEF Ahead
  <2>2. \A j \in Page : p < j => r <= j
    BY <1>5 DEF Ahead
  <2>3. \A j \in Page : /\ j < r <=> j <= p
                        /\ j <= r <=> j <= p \/ j = r
    BY <1>1, <2>1, <2>2
  <2> QED
    BY <2>1, <2>3 DEF Before, UpTo
<1> QED
    BY <1>2, <1>3, <1>4, <1>5

(* A line of an item of the page, at the place p.                          *)
LEMMA LineOfItem ==
    ASSUME ListsTyped, NEW it, NEW p, p # 0, IteratorAt(it, p), NEW x,
           x[2] = it.current, x[3] = ItemId(it.kind, it.current)
    PROVE  AtPlace(x) = p /\ Linked(x) /\ p \in Page /\ p \in DOMAIN Listed
<1>1. p \in Page /\ it.current = Listed[p].id /\ it.kind = req.menu
    BY DEF IteratorAt
<1>2. p \in DOMAIN Listed /\ Place(Listed, Listed[p].id) = p
    BY <1>1, PageIs DEF Itemised
<1> QED
    BY <1>1, <1>2 DEF AtPlace, Linked

(* The next line of a page goes on with the page.                          *)
LEMMA PageStep ==
    ASSUME ListsTyped, req.group \in Int, req.menu \in Kinds,
           NEW m, Writer(m), HasNext(m), NEW s, Listing(s), Right(s),
           Onward(m, s), m.st \in Asks => ~Empty(m.it)
    PROVE  LET n == MenuNext(m)
               t == s \o <<MenuLine(n, m.st)>>
           IN Onward(n, t) /\ Right(t)
<1> DEFINE n == MenuNext(m)
           x == MenuLine(n, m.st)
           t == s \o <<x>>
<1>1. /\ IsItem(x) <=> Telling(m.st, n.st)
      /\ IsItem(x) => /\ x[2] = n.it.current
                      /\ x[3] = ItemId(n.it.kind, n.it.current)
      /\ x[1] \in {"/body", "/list"} => n.st \in {"PageBottom", "Last"}
    BY LineIs
<1>2. /\ m.onItem \in BOOLEAN
      /\ m.onItem = FALSE => m.st \in Late
    BY DEF Onward, OnItem, Past
<1>3. /\ n.it = IF m.st \in Asks THEN IteratorNext(m.it) ELSE m.it
      /\ n.onItem = IF m.st \in Asks THEN n.it.current # Null ELSE m.onItem
      /\ Goes(m.st, n.st, n.onItem)
    BY <1>2, MenuGoes
<1> HIDE DEF n, x
<1>4. /\ \A T : Tells(s, T) /\ ~IsItem(x) => Tells(t, T)
      /\ \A T : Tells(s, T) /\ IsItem(x) /\ (\A j \in T : j < AtPlace(x))
                => Tells(t, T \cup {AtPlace(x)})
    BY TellsGrows
<1> HIDE DEF t
<1>5. /\ Tellers \cap Pending = {} /\ Tellers \cap Late = {}
      /\ Early \cap Pending = {} /\ Asks \subseteq Early \cup Tellers
      /\ Late \cap Asks = {}
      /\ Early \cup Tellers = Unopened \cup {"First"} \cup Asks
      /\ (Unopened \cup {"First"}) \cap Asks = {}
      /\ Asks \cap Pending = {}
      /\ Tellers \subseteq Early \cup Tellers
      /\ {"PageBottom", "Last"} \cap (Early \cup Tellers \cup Pending) = {}
      /\ "First" \notin Pending /\ "First" \notin Asks
      /\ "GroupBottom" \in Pending /\ "GroupBottom" \notin Tellers
      /\ Unopened \cup {"PageTop", "Continue"} \subseteq Early
    BY DEF Tellers, Pending, Late, Early, Asks, Unopened
<1>6. CASE Past(m, s)
  <2>1. m.onItem = FALSE /\ m.st \in Late /\ Tells(s, Page)
    BY <1>6 DEF Past
  <2>2. m.st \in Pending
    BY <2>1 DEF HasNext, Late, Pending
  <2>3. n.onItem = FALSE /\ n.st \in Late
    BY <1>3, <1>5, <2>1, <2>2 DEF Goes
  <2>4. ~IsItem(x)
    BY <1>1, <1>5, <2>3 DEF Telling
  <2>5. Past(n, t)
    BY <1>4, <2>1, <2>3, <2>4 DEF Past
  <2>6. Right(t)
    BY <2>1, <2>4, RightGrows DEF Linked, t
  <2> QED
    BY <2>5, <2>6 DEF Onward, n, t, x
<1>7. ASSUME NEW p \in {0} \cup DOMAIN Listed, OnItem(m, s, p)
      PROVE  Onward(n, t) /\ Right(t)
  <2>1. /\ m.onItem = TRUE /\ IteratorAt(m.it, p)
        /\ p = 0 => m.st \in Early
        /\ \/ m.st \in Pending /\ Tells(s, Before(p))
           \/ m.st \in Early \cup Tellers /\ Tells(s, UpTo(p))
    BY <1>7 DEF OnItem
  <2>2. p \in {0} \cup Page
    BY <2>1 DEF IteratorAt
  <2>3. /\ UpTo(0) = {}
        /\ p # 0 => UpTo(p) = Before(p) \cup {p} /\ \A j \in Before(p) : j < p
        /\ Ahead(p) = {} => UpTo(p) = Page
        /\ \A r \in Ahead(p) : (\A j \in Ahead(p) : r <= j) =>
                /\ Before(r) = UpTo(p) /\ UpTo(r) = UpTo(p) \cup {r}
                /\ r # 0 /\ \A j \in UpTo(p) : j < r
    BY <2>2, UpToIs
  <2>4. CASE m.st \in Unopened \cup {"First"}
    <3>1. /\ n.it = m.it /\ n.onItem = TRUE /\ Tells(s, UpTo(p))
          /\ n.st \in Unopened \cup {"PageTop", "Continue"}
          /\ ~Telling(m.st, n.st)
      BY <1>3, <1>5, <2>1, <2>4 DEF Goes
    <3>2. Tells(t, UpTo(p)) /\ ~IsItem(x)
      BY <1>1, <1>4, <3>1
    <3>3. OnItem(n, t, p)
      BY <1>5, <2>1, <3>1, <3>2 DEF OnItem
    <3>4. Right(t)
      <4>1. x[1] \notin {"/body", "/list"}
        BY <1>1, <1>5, <3>1
      <4> QED
        BY <3>2, <4>1, RightGrows DEF Linked, t
    <3> QED
      BY <3>3, <3>4 DEF Onward
  <2>5. CASE m.st \in Pending
    <3>1. /\ n.it = m.it /\ n.onItem = TRUE /\ Tells(s, Before(p)) /\ p # 0
          /\ n.st \in Tellers \/ n.st = "GroupBottom"
          /\ m.st # "First"
      BY <1>3, <1>5, <2>1, <2>5 DEF Goes
    <3>2. x[1] \notin {"/body", "/list"}
      BY <1>1, <1>5, <3>1
    <3>3. CASE n.st \in Tellers
      <4>1. IsItem(x)
        BY <1>1, <3>1, <3>3 DEF Telling
      <4>2. AtPlace(x) = p /\ Linked(x)
        BY <1>1, <2>1, <3>1, <4>1, LineOfItem
      <4>3. Tells(t, UpTo(p))
        BY <1>4, <2>3, <3>1, <4>1, <4>2
      <4>4. OnItem(n, t, p)
        BY <2>1, <3>1, <3>3, <4>3 DEF OnItem
      <4>5. Right(t)
        BY <3>2, <4>2, RightGrows DEF t
      <4> QED
        BY <4>4, <4>5 DEF Onward
    <3>4. CASE n.st = "GroupBottom"
      <4>1. ~IsItem(x)
        BY <1>1, <1>5, <3>4 DEF Telling
      <4>2. OnItem(n, t, p)
        BY <1>4, <1>5, <2>1, <3>1, <3>4, <4>1 DEF OnItem
      <4>3. Right(t)
        BY <3>2, <4>1, RightGrows DEF Linked, t
      <4> QED
        BY <4>2, <4>3 DEF Onward
    <3> QED
      BY <3>1, <3>3, <3>4
  <2>6. CASE m.st \in Asks
    <3>1. /\ n.it = IteratorNext(m.it) /\ n.onItem = (n.it.current # Null)
          /\ Tells(s, UpTo(p)) /\ m.st # "First"
      BY <1>3, <1>5, <2>1, <2>6
    <3>2. Moves(n.it, p)
      BY <2>1, <2>6, <3>1, IteratorMoves DEF Empty
    <3>3. CASE n.it.current = Null /\ Ahead(p) = {}
      <4>1. n.onItem = FALSE /\ n.st \in Late /\ Tells(s, Page)
        BY <1>3, <2>3, <2>6, <3>1, <3>3 DEF Goes
      <4>2. ~IsItem(x)
        BY <1>1, <1>5, <4>1 DEF Telling
      <4>3. Past(n, t)
        BY <1>4, <4>1, <4>2 DEF Past
      <4>4. Right(t)
        BY <4>1, <4>2, RightGrows DEF Linked, t
      <4> QED
        BY <4>3, <4>4 DEF Onward
    <3>4. ASSUME NEW r \in Ahead(p), IteratorAt(n.it, r), n.it.current # Null,
                 \A j \in Ahead(p) : r <= j
          PROVE  Onward(n, t) /\ Right(t)
      <4>1. /\ Before(r) = UpTo(p) /\ UpTo(r) = UpTo(p) \cup {r}
            /\ r # 0 /\ \A j \in UpTo(p) : j < r
        BY <2>3, <3>4
      <4>2. n.onItem = TRUE /\ n.st \in Tellers \cup Pending
        BY <1>3, <2>6, <3>1, <3>4 DEF Goes
      <4>3. x[1] \notin {"/body", "/list"}
        BY <1>1, <1>5, <4>2
      <4>4. r \in DOMAIN Listed
        BY PageIs DEF Ahead
      <4>5. CASE n.st \in Tellers
        <5>1. IsItem(x)
            BY <1>1, <3>1, <4>5 DEF Telling
        <5>2. AtPlace(x) = r /\ Linked(x)
            BY <1>1, <3>4, <4>1, <5>1, LineOfItem
        <5>3. Tells(t, UpTo(r))
            BY <1>4, <3>1, <4>1, <5>1, <5>2
        <5>4. OnItem(n, t, r)
            BY <3>4, <4>1, <4>2, <4>5, <5>3 DEF OnItem
        <5>5. Right(t)
            BY <4>3, <5>2, RightGrows DEF t
        <5> QED
            BY <4>4, <5>4, <5>5 DEF Onward
      <4>6. CASE n.st \in Pending
        <5>1. ~IsItem(x)
            BY <1>1, <1>5, <4>6 DEF Telling
        <5>2. Tells(t, Before(r))
            BY <1>4, <3>1, <4>1, <5>1
        <5>3. OnItem(n, t, r)
            BY <3>4, <4>1, <4>2, <4>6, <5>2 DEF OnItem
        <5>4. Right(t)
            BY <4>3, <5>1, RightGrows DEF Linked, t
        <5> QED
            BY <4>4, <5>3, <5>4 DEF Onward
      <4> QED
        BY <4>2, <4>5, <4>6
    <3> QED
      BY <3>2, <3>3, <3>4 DEF Moves
  <2> QED
    BY <1>5, <2>1, <2>4, <2>5, <2>6
<1>8. CASE \E p \in {0} \cup DOMAIN Listed : OnItem(m, s, p)
    BY <1>7, <1>8 DEF n, t, x
<1> QED
    BY <1>6, <1>8 DEF Onward

-----------------------------------------------------------------------------
(* While VDR leaves its lists alone, what is said of them stays.           *)

LEMMA SamePage ==
    ASSUME UNCHANGED <<channels, recordings, req>>
    PROVE  /\ \A s : Right(s)' <=> Right(s)
           /\ \A m, s : Onward(m, s)' <=> Onward(m, s)
<1>1. Listed' = Listed /\ Groups' = Groups
    BY DEF Listed, Groups
<1>2. \A j : Wanted(j)' <=> Wanted(j)
    BY DEF Wanted
<1>3. Page' = Page
  <2>1. CASE req.menu = "recordings"
    BY <2>1 DEF Page
  <2>2. CASE req.menu # "recordings"
    BY <1>2, <2>2 DEF Page
  <2> QED
    BY <2>1, <2>2
<1>4. \A id : IsSep(id)' <=> IsSep(id)
    BY DEF IsSep, ItemAt
<1>5. \A id : GroupIndex(id)' = GroupIndex(id)
    BY <1>1 DEF GroupIndex
<1>6. \A it, id : ItemId(it, id)' = ItemId(it, id)
    BY <1>4, <1>5 DEF ItemId
<1>7. \A n : GetGroup(n)' = GetGroup(n)
    BY <1>1 DEF GetGroup
<1>8. \A l : AtPlace(l)' = AtPlace(l)
    BY <1>1 DEF AtPlace
<1>9. \A l : Linked(l)' <=> Linked(l)
    BY <1>1, <1>6 DEF Linked
<1>10. \A s, T : Tells(s, T)' <=> Tells(s, T)
    BY <1>8 DEF Tells
<1>11. \A s : EndsWhole(s)' <=> EndsWhole(s)
    BY <1>3, <1>10 DEF EndsWhole
<1>12. \A s : Right(s)' <=> Right(s)
    BY <1>9, <1>11 DEF Right
<1>13. \A j, q : InGroup(j, q)' <=> InGroup(j, q)
    BY <1>1 DEF InGroup
<1>14. \A it, p : IteratorAt(it, p)' <=> IteratorAt(it, p)
    BY <1>1, <1>3, <1>7, <1>13 DEF IteratorAt
<1>15. \A p : Before(p)' = Before(p) /\ UpTo(p)' = UpTo(p)
    BY <1>3 DEF Before, UpTo
<1>16. \A m, s, p : OnItem(m, s, p)' <=> OnItem(m, s, p)
    BY <1>10, <1>14, <1>15 DEF OnItem
<1>17. \A m, s : Past(m, s)' <=> Past(m, s)
    BY <1>3, <1>10 DEF Past
<1>18. \A m, s : Onward(m, s)' <=> Onward(m, s)
    BY <1>1, <1>16, <1>17 DEF Onward
<1> QED
    BY <1>12, <1>18

LEMMA RightNothing == Right(<<>>)
BY DEF Right, EndsWhole

LEMMA PageInvInit == HTTPInit => PageInv
<1> SUFFICES ASSUME HTTPInit PROVE PageInv
    OBVIOUS
<1>1. /\ \E l \in Lists : channels = l[1] /\ recordings = l[2]
      /\ status = "request" /\ sent = <<>> /\ changes = 0
    BY DEF HTTPInit
<1> QED
    BY <1>1, RightNothing DEF PageInv, Known, Progress, Sound

(* The lines that have been sent stay, and no page goes on.                *)
LEMMA NoPageKept ==
    ASSUME PageInv, UNCHANGED <<listVars, req, sent>>,
           conn' = "open" /\ status' = "body" => menu' = Nil
    PROVE  PageInv'
<1>1. Known' /\ changes' = changes
    BY DEF PageInv, Known, listVars
<1>2. UNCHANGED <<channels, recordings, req>>
    BY DEF listVars
<1>3. Sound'
    BY <1>1, <1>2, SamePage DEF PageInv, Sound
<1>4. Progress'
    BY DEF Progress
<1> QED
    BY <1>1, <1>3, <1>4 DEF PageInv

(* Nor do they when they grow by what is Right.                            *)
LEMMA SentKept ==
    ASSUME PageInv, UNCHANGED <<listVars, req>>,
           NEW t, sent' = t, changes = 0 => Right(t),
           conn' = "open" /\ status' = "body" => menu' = Nil
    PROVE  PageInv'
<1>1. Known' /\ changes' = changes
    BY DEF PageInv, Known, listVars
<1>2. UNCHANGED <<channels, recordings, req>>
    BY DEF listVars
<1>3. Sound'
    BY <1>1, <1>2, SamePage DEF PageInv, Sound
<1>4. Progress'
    BY DEF Progress
<1> QED
    BY <1>1, <1>3, <1>4 DEF PageInv

(* A page goes on.                                                         *)
LEMMA GoesOn ==
    ASSUME PageInv, UNCHANGED <<listVars, req>>,
           NEW t, sent' = t, NEW s, sent' \o out' = s, NEW m, menu' = m,
           changes = 0 => /\ Right(t) /\ req.path = "menu" /\ Right(s)
                          /\ deferClose' \/ Onward(m, s)
    PROVE  PageInv'
<1>1. Known' /\ changes' = changes
    BY DEF PageInv, Known, listVars
<1>2. UNCHANGED <<channels, recordings, req>>
    BY DEF listVars
<1>3. Sound'
    BY <1>1, <1>2, SamePage DEF Sound
<1>4. Progress'
    BY <1>1, <1>2, SamePage DEF Progress
<1> QED
    BY <1>1, <1>3, <1>4 DEF PageInv

LEMMA ChangedKept ==
    ASSUME changes' \in Nat \ {0}
    PROVE  PageInv'
BY DEF PageInv, Known, Progress, Sound

LEMMA RequestLinePage ==
    ASSUME HTTPInv, PageInv, RequestLine
    PROVE  PageInv'
<1>1. CASE Close
    BY <1>1, NoPageKept DEF Close, reqVars
<1>2. CASE /\ \E r \in Requests : req' = r
           /\ status' = "headers"
           /\ UNCHANGED <<listVars, acceptable, auth, range, menu, streamer,
                          out, deferClose, sent, conn>>
  <2>1. sent = <<>> /\ sent' = <<>>
    BY <1>2 DEF RequestLine, HTTPInv, Job, Asking, Paging, PageDone,
                Answering, Streaming
  <2>2. Known'
    BY <1>2 DEF PageInv, Known, listVars
  <2>3. Right(<<>>)'
    BY DEF Right, EndsWhole
  <2>4. Sound' /\ Progress'
    BY <1>2, <2>1, <2>3 DEF Sound, Progress
  <2> QED
    BY <2>2, <2>4 DEF PageInv
<1> QED
    BY <1>1, <1>2 DEF RequestLine

LEMMA MenuBegins ==
    ASSUME HTTPInv, HTTPAssumption, PageInv, Asking, status = "headers",
           ProcessMenu, req.path = "menu", sent' = sent,
           UNCHANGED <<listVars, req>>
    PROVE  PageInv'
<1> DEFINE h == <<"header", 200, 0>>
           it == Iterator(req.menu, req.group, req.type = "PES")
           m == Menu(req.fmt, it, req.self)
<1>0. req \in Requests
    BY DEF HTTPInv, HTTPTypes
<1>1. req.group \in Int /\ req.menu \in Kinds
    BY <1>0 DEF HTTPAssumption, Kinds
<1>2. sent' = <<>> /\ out' = <<h>> /\ menu' = m
    BY DEF ProcessMenu, Plain, MenuListFromString, Asking
<1>3. m.it = it /\ m.onItem = TRUE /\ m.st \in {"Root", "First"}
  <2> HIDE DEF it
  <2> QED
    BY DEF Menu
<1>4. h[1] = "header" /\ ~IsItem(h)
    BY DEF IsItem
<1> HIDE DEF h, it, m
<1>5. <<>> \o <<h>> = <<h>>
    BY ListingSmall
<1>6. Right(<<>>) /\ Right(<<h>>)
    BY <1>4, RightHeader
<1>7. changes = 0 => Onward(m, <<h>>)
  <2> SUFFICES ASSUME changes = 0 PROVE OnItem(m, <<h>>, 0)
    BY DEF Onward
  <2>1. ListsTyped
    BY ListsAre DEF PageInv
  <2>2. IteratorAt(it, 0)
    BY <1>1, <2>1, IteratorFirst DEF it
  <2>3. Tells(<<h>>, {}) /\ UpTo(0) = {}
    BY <1>4, <2>1, TellsNothing, UpToIs
  <2> QED
    BY <1>3, <2>2, <2>3 DEF OnItem, Early, Unopened
<1> QED
    BY <1>2, <1>5, <1>6, <1>7, GoesOn

LEMMA ProcessRequestPage ==
    ASSUME HTTPInv, HTTPAssumption, PageInv, ProcessRequest
    PROVE  PageInv'
<1>1. /\ conn = "open" /\ status = "headers" /\ status' = "body"
      /\ UNCHANGED <<listVars, req, sent>>
      /\ IF ~Authorized THEN NoJob(401)
         ELSE IF req.method \in {"GET", "HEAD"} THEN ProcessURI
         ELSE NoJob(400)
  BY DEF ProcessRequest, reqVars
<1>2. Asking
  BY <1>1 DEF HTTPInv, Job, Asking, Paging, PageDone, Answering, Streaming
<1>3. menu = Nil
  BY <1>2 DEF Asking, Idle
<1>4. ASSUME UNCHANGED menu PROVE PageInv'
  BY <1>1, <1>3, <1>4, NoPageKept
<1>5. \A code : NoJob(code) => UNCHANGED menu
  BY DEF NoJob
<1>6. ProcessURI => \/ req.path = "menu" /\ ProcessMenu
                    \/ ProcessChannel \/ ProcessRecording \/ NoJob(400)
  BY Zenon DEF ProcessURI
<1>7. ProcessChannel \/ ProcessRecording => UNCHANGED menu
  BY <1>5 DEF ProcessChannel, ProcessRecording
<1> QED
  BY <1>1, <1>2, <1>4, <1>5, <1>6, <1>7, MenuBegins

LEMMA PagePage ==
    ASSUME HTTPInv, HTTPAssumption, PageInv, conn = "open", Paging, Write
    PROVE  PageInv'
<1> DEFINE t == sent \o out
<1>0. CASE changes # 0
  <2>1. changes' \in Nat \ {0}
    BY <1>0 DEF PageInv, Known, Write, listVars
  <2> QED
    BY <2>1, ChangedKept
<1>1. CASE changes = 0
  <2>1. /\ status = "body" /\ menu # Nil /\ Writer(menu)
        /\ sent' = t /\ UNCHANGED <<listVars, req>>
        /\ Listing(t)
    BY Written DEF Paging, Write, reqVars, HTTPInv, HTTPTypes
  <2>2. req.path = "menu" /\ Right(t) /\ (deferClose \/ Onward(menu, t))
    BY <1>1, <2>1 DEF PageInv, Progress
  <2>3. req \in Requests
    BY <2>1 DEF HTTPInv, HTTPTypes
  <2>4. req.group \in Int /\ req.menu \in Kinds
    BY <2>2, <2>3 DEF HTTPAssumption, Kinds
  <2>5. ListsTyped
    BY <1>1, ListsAre DEF PageInv
  <2> HIDE DEF t
  <2>6. CASE Finished
    <3>1. conn' = "closed"
      BY <2>6 DEF Write
    <3> QED
      BY <2>1, <2>2, <3>1, SentKept
  <2>7. CASE ~Finished
    <3>1. FlushedMenu /\ ~StaleLine /\ Onward(menu, t)
      BY <2>1, <2>2, <2>7 DEF Write, Follows, Flushed, Finished
    <3>2. CASE ~HasNext(menu) /\ menu' = Nil
      BY <2>1, <2>2, <3>2, SentKept
    <3>3. CASE HasNext(menu) /\ \E m \in {MenuNext(menu)} :
               /\ menu' = m /\ UNCHANGED status
               /\ \/ out' = <<MenuLine(m, menu.st)>> /\ UNCHANGED deferClose
                  \/ /\ m.st \in {"PlainItem", "Item"}
                     /\ deferClose' = TRUE /\ out' = <<>>
      <4> DEFINE n == MenuNext(menu)
                 x == MenuLine(n, menu.st)
                 u == t \o <<x>>
      <4>1. menu.st \in Asks => ~Empty(menu.it)
        BY <3>1 DEF StaleLine, AsksItem, Asks, Undefined, Empty
      <4>2. Onward(n, u) /\ Right(u)
        BY <2>1, <2>2, <2>4, <2>5, <3>1, <3>3, <4>1, PageStep
      <4>3. /\ menu' = n
            /\ \/ out' = <<x>>
               \/ out' = <<>> /\ deferClose' = TRUE
        BY <3>3
      <4> HIDE DEF n, x
      <4>4. CASE out' = <<x>>
        <5>1. sent' \o out' = u
            BY <2>1, <4>4
        <5> HIDE DEF u
        <5> QED
            BY <2>1, <2>2, <4>2, <4>3, <5>1, GoesOn
      <4>5. CASE out' = <<>> /\ deferClose' = TRUE
        <5>1. sent' \o out' = t
            BY <2>1, <4>5, ListingSmall
        <5> QED
            BY <2>1, <2>2, <4>3, <4>5, <5>1, GoesOn
      <4> QED
        BY <4>3, <4>4, <4>5
    <3> QED
      BY <3>1, <3>2, <3>3 DEF FlushedMenu
  <2> QED
    BY <2>6, <2>7
<1> QED
    BY <1>0, <1>1

LEMMA WritePage ==
    ASSUME HTTPInv, HTTPAssumption, PageInv, Write
    PROVE  PageInv'
<1>1. /\ conn = "open" /\ Job /\ (out # <<>> \/ deferClose) /\ Listing(sent)
      /\ sent' = sent \o out /\ UNCHANGED <<listVars, req>>
  BY DEF Write, HTTPInv, HTTPTypes, reqVars
<1>2. CASE Asking \/ Streaming
  BY <1>1, <1>2 DEF Asking, Streaming
<1>3. CASE PageDone
  <2>1. deferClose /\ out = <<>>
    BY <1>3 DEF PageDone
  <2>2. sent' = sent /\ conn' = "closed"
    BY <1>1, <2>1, ListingSmall DEF Write, Finished
  <2> QED
    BY <1>1, <2>2, NoPageKept
<1>4. CASE Answering
  <2> DEFINE h == out[1]
  <2>1. menu = Nil /\ sent = <<>> /\ out = <<h>> /\ h[1] = "header"
        /\ status = "body"
    BY <1>4 DEF Answering
  <2>2. menu' = Nil
    BY <2>1 DEF Write, Flushed, FlushedStart
  <2> HIDE DEF h
  <2>3. sent' = <<h>>
    BY <1>1, <2>1, ListingSmall
  <2>4. Right(<<h>>)
    BY <2>1, RightHeader
  <2> QED
    BY <1>1, <2>2, <2>3, <2>4, SentKept
<1> QED
  BY <1>1, <1>2, <1>3, <1>4, PagePage DEF Job

LEMMA StreamPage ==
    ASSUME HTTPInv, PageInv, Stream
    PROVE  PageInv'
<1>1. /\ conn = "open" /\ streamer # Nil /\ streamer.started
      /\ UNCHANGED <<listVars, req, status, menu>>
  BY DEF Stream, reqVars
<1>2. Streaming
  BY <1>1 DEF HTTPInv, Job, Asking, Idle, Paging, PageDone, Answering,
              Streaming
<1>3. menu' = Nil
  BY <1>1, <1>2 DEF Streaming
<1>4. CASE UNCHANGED sent
  BY <1>1, <1>3, <1>4, NoPageKept
<1>5. CASE sent' = Append(sent, <<"body", 0, 0>>)
  <2> DEFINE b == <<"body", 0, 0>>
             S == {sent[i] : i \in DOMAIN sent} \cup {b}
             t == sent \o <<b>>
  <2>0. b[1] = "body"
    OBVIOUS
  <2> HIDE DEF b
  <2>1. Listing(sent)
    BY DEF HTTPInv, HTTPTypes
  <2>2. sent \in Seq(S) /\ b \in S
    <3>1. {sent[i] : i \in DOMAIN sent} \subseteq S
      OBVIOUS
    <3>2. sent \in Seq({sent[i] : i \in DOMAIN sent})
      BY <2>1 DEF Listing
    <3> HIDE DEF S
    <3> QED
      BY <3>1, <3>2 DEF S
  <2> HIDE DEF S
  <2>3. Append(sent, b) = t
    <3>1. /\ Append(sent, b) \in Seq(S) /\ t \in Seq(S)
          /\ Len(Append(sent, b)) = Len(t)
      BY <2>2
    <3>2. \A i \in 1 .. Len(t) : Append(sent, b)[i] = t[i]
      BY <2>2
    <3> HIDE DEF t
    <3> QED
      BY <3>1, <3>2, SeqEqual
  <2>4. changes = 0 => Right(t)
    <3>1. changes = 0 => Right(sent)
      BY DEF PageInv, Sound
    <3>2. Linked(b) /\ b[1] \notin {"/body", "/list"}
      BY <2>0 DEF Linked, IsItem
    <3> QED
      BY <2>1, <3>1, <3>2, RightGrows
  <2> HIDE DEF t
  <2>5. sent' = t
    BY <1>5, <2>3 DEF b
  <2> QED
    BY <1>1, <1>3, <2>4, <2>5, SentKept
<1> QED
  BY <1>4, <1>5 DEF Stream

LEMMA OthersPage ==
    ASSUME HTTPInv, PageInv,
           HeaderLine \/ LateLine \/ StaleUse \/ VDRDeletes \/ UNCHANGED httpVars
    PROVE  PageInv'
<1>1. CASE HeaderLine
  <2>1. status' = "headers" /\ UNCHANGED <<listVars, req, sent>>
    BY <1>1 DEF HeaderLine
  <2> QED
    BY <2>1, NoPageKept
<1>2. CASE LateLine
    BY <1>2, NoPageKept DEF LateLine, Close, reqVars
<1>3. CASE StaleUse
  <2>1. conn' = "undefined" /\ UNCHANGED <<listVars, req, sent>>
    BY <1>3 DEF StaleUse, reqVars
  <2> QED
    BY <2>1, NoPageKept
<1>4. CASE VDRDeletes
  <2>1. changes' \in Nat \ {0}
    BY <1>4 DEF VDRDeletes, PageInv, Known
  <2> QED
    BY <2>1, ChangedKept
<1>5. CASE UNCHANGED httpVars
  <2>1. /\ UNCHANGED <<listVars, req, sent, out, menu, conn, status, deferClose>>
        /\ UNCHANGED <<channels, recordings, changes>>
    BY <1>5 DEF httpVars, reqVars, listVars
  <2>2. Known'
    BY <2>1 DEF PageInv, Known
  <2>3. Sound'
    BY <2>1, SamePage DEF PageInv, Sound
  <2>4. Progress'
    BY <2>1, SamePage DEF PageInv, Progress
  <2> QED
    BY <2>2, <2>3, <2>4 DEF PageInv
<1> QED
    BY <1>1, <1>2, <1>3, <1>4, <1>5

LEMMA PageInvStep ==
    ASSUME HTTPInv, HTTPAssumption, PageInv, [HTTPNext]_httpVars
    PROVE  PageInv'
BY RequestLinePage, ProcessRequestPage, WritePage, StreamPage, OthersPage
   DEF HTTPNext, Ended

LEMMA PageInvExact ==
    ASSUME PageInv
    PROVE  PageExact
<1>1. changes = 0 => Right(sent) /\ ListsTyped
    BY ListsAre DEF PageInv, Sound
<1>2. WholePage => LET At(i) == Place(Listed, sent[i][2]) IN
         /\ {At(i) : i \in Items(sent)} = Page
         /\ \A i, k \in Items(sent) : i < k => At(i) < At(k)
  <2> SUFFICES ASSUME WholePage PROVE Tells(sent, Page)
    BY DEF Tells, AtPlace
  <2> QED
    BY <1>1 DEF WholePage, Right, EndsWhole
<1>3. GroupLinks
  <2> SUFFICES ASSUME NEW i \in DOMAIN sent,
                      changes = 0, sent[i][1] \in {"li", "div"},
                      req.path = "menu", req.menu # "recordings",
                      IsSep(sent[i][2]), ItemAt(channels, sent[i][2]).name
               PROVE  GetGroup(sent[i][3]) = sent[i][2]
    BY DEF GroupLinks
  <2> DEFINE l == sent[i]
  <2>1. Linked(l) /\ IsItem(l)
    BY <1>1 DEF Right, IsItem
  <2>2. Listed = channels
    BY DEF Listed
  <2>3. PICK j \in DOMAIN channels : l[2] = channels[j].id
    BY <2>1, <2>2 DEF Linked
  <2>4. Place(channels, l[2]) = j
    BY <1>1, <2>3, ListsItemised DEF Itemised
  <2>5. j \in Groups
    BY <2>3, <2>4 DEF Groups, IsSep, ItemAt
  <2>6. l[3] = GroupIndex(l[2])
    BY <2>1 DEF Linked, ItemId
  <2> QED
    BY <1>1, <2>3, <2>5, <2>6, LinkLeads
<1> QED
    BY <1>2, <1>3 DEF PageExact

(* For any lists of channels and recordings, and any menu of any kind: a   *)
(* page that has been sent in full, while VDR leaves the lists alone, has  *)
(* each item it is to have, once and in the order of the list, and the     *)
(* links of its groups lead to them (cMenuList, cItemIterator).            *)
THEOREM PagesAreExact == HTTPSpec => []PageExact
<1>1. HTTPInit => HTTPInv /\ PageInv
  BY HTTPInvInit, PageInvInit
<1>2. HTTPInv /\ PageInv /\ [HTTPNext]_httpVars => (HTTPInv /\ PageInv)'
  BY HTTPAssumption, HTTPInvStep, PageInvStep
<1> QED
  BY <1>1, <1>2, PageInvExact, PTL DEF HTTPSpec

=============================================================================
