----------------------------- MODULE ServerLoop -----------------------------
(***************************************************************************)
(* The server thread (cStreamdevServer::Action, server/server.c): one      *)
(* select over the listening socket and all client connections, and the    *)
(* other threads that close a connection: the writer of an HTTP stream,    *)
(* whose socket is the connection (server/streamer.c), and VDR's main      *)
(* thread, on behalf of the OSD menu or of the SVDRP command DISC.         *)
(* A descriptor is a number the kernel hands out again once it is closed.  *)
(***************************************************************************)
EXTENDS Integers, FiniteSets

CONSTANTS
    Conns,           \* connections, each made at most once
    MaxClients,      \* StreamdevServerSetup.MaxClients
    MaxDisconnects,  \* bound: disconnects by the user
    None

ASSUME ServerLoopAssumption ==
    /\ IsFiniteSet(Conns) /\ None \notin Conns
    /\ MaxClients \in Nat /\ MaxDisconnects \in Nat

Listen == 0                     \* the descriptor of m_Listen
Fds == 1..Cardinality(Conns)

VARIABLES
    life,         \* of a connection: its way through accept and m_Clients
    fd,           \* the descriptor it was given, 0 before accept
    isOpen,       \* m_Filed is that descriptor (and not -1)
    work,       \* what the server does for it
    writer,       \* the writer thread of its streamer
    input,        \* a request of the peer waits in the socket
    left,         \* the peer has closed its end
    owner,        \* of a descriptor: the connection it is a socket of
    pc,           \* of the server thread
    query, ready, \* m_FdsQuery, m_FdsResult: [r, w] sets of descriptors
    todo, cur,    \* clients not visited yet in this cycle, the one visited
    exit,         \* why the loop was left
    running,      \* Running() of the server thread
    lock,         \* the server thread's mutex, see Clients(cThreadLock&)
    picked,       \* the connection the user disconnects
    menuPc,
    disconnects   \* how many there were

peerVars == <<input, left>>
connVars == <<life, fd, isOpen, work, writer, owner>>
loopVars == <<pc, query, ready, todo, cur, exit>>
menuVars == <<picked, menuPc, disconnects>>
vars == <<peerVars, connVars, loopVars, running, lock, menuVars>>

(* What a step of the loop leaves alone, most often.                       *)
world == <<peerVars, connVars, running, menuVars>>

Nothing == [r |-> {}, w |-> {}]
Clients == {c \in Conns : life[c] = "listed"}       \* m_Clients
Backlog == {c \in Conns : life[c] = "backlog"}

Filed(c) == IF isOpen[c] THEN {fd[c]} ELSE {}       \* empty: m_Filed = -1
HasData(c) == work[c] \in {"rejected", "page", "stream"}
DeferClose(c) == work[c] \in {"rejected", "page"}

Init ==
    /\ life = [c \in Conns |-> "new"] /\ fd = [c \in Conns |-> 0]
    /\ isOpen = [c \in Conns |-> FALSE] /\ work = [c \in Conns |-> "idle"]
    /\ writer = [c \in Conns |-> "none"]
    /\ input = [c \in Conns |-> FALSE] /\ left = [c \in Conns |-> FALSE]
    /\ owner = [f \in Fds |-> None]
    /\ pc = "next" /\ query = Nothing /\ ready = Nothing
    /\ todo = {} /\ cur = None /\ exit = "no" /\ running = TRUE
    /\ lock = "free" /\ picked = None /\ menuPc = "idle" /\ disconnects = 0

-----------------------------------------------------------------------------
(* The peers: each connects, sends one request, and may leave any time.    *)

Connect(c) ==
    /\ life[c] = "new" /\ pc # "stopped"
    /\ life' = [life EXCEPT ![c] = "backlog"]
    /\ UNCHANGED <<peerVars, fd, isOpen, work, writer, owner, loopVars,
                   running, lock, menuVars>>

Request(c) ==
    /\ life[c] \notin {"new", "deleted"} /\ ~left[c]
    /\ ~input[c] /\ work[c] = "idle"
    /\ input' = [input EXCEPT ![c] = TRUE]
    /\ UNCHANGED <<left, connVars, loopVars, running, lock, menuVars>>

Leave(c) ==
    /\ life[c] \notin {"new", "deleted"} /\ ~left[c]
    /\ left' = [left EXCEPT ![c] = TRUE]
    /\ UNCHANGED <<input, connVars, loopVars, running, lock, menuVars>>

-----------------------------------------------------------------------------
(* cTBSocket::Close of c in three steps: the test of IsOpen, ::close of    *)
(* the number in m_Filed, and m_Filed = -1. Any thread may come between.   *)

CloseSys(c) == owner' = [owner EXCEPT ![fd[c]] = None]
CloseClear(c) == isOpen' = [isOpen EXCEPT ![c] = FALSE]

-----------------------------------------------------------------------------
(* The select loop.                                                        *)

(* All clients are visited: the next cycle asks anew what to poll.         *)
Build ==
    /\ pc = "next" /\ todo = {} /\ running
    /\ query' = [r |-> {Listen} \cup UNION {Filed(c) : c \in Clients},
                 w |-> UNION {Filed(c) : c \in {d \in Clients : HasData(d)}}]
    /\ pc' = "select" /\ ready' = Nothing
    /\ UNCHANGED <<world, todo, cur, exit, lock>>

(* What ::select finds: sockets with data or an end of file, and room in   *)
(* the socket buffers. A descriptor that is closed makes it fail (EBADF).  *)
Readable(f) == IF f = Listen THEN Backlog # {}
               ELSE owner[f] # None /\ (input[owner[f]] \/ left[owner[f]])
Ready == [r |-> {f \in query.r : Readable(f)}, w |-> query.w]
BadFiled == \E f \in (query.r \cup query.w) \ {Listen} : owner[f] = None

SelectFails ==
    /\ pc = "select" /\ BadFiled
    /\ pc' = "exit" /\ exit' = IF running THEN "fatal" ELSE "stop"
    /\ query' = Nothing
    /\ UNCHANGED <<world, ready, todo, cur, lock>>

(* Components act first, then all clients.                                 *)
Act(sets) ==
    /\ ready' = sets /\ query' = Nothing
    /\ IF Listen \in sets.r THEN pc' = "accept" /\ UNCHANGED todo
                             ELSE pc' = "next" /\ todo' = Clients

SelectReady ==
    /\ pc = "select" /\ running /\ ~BadFiled /\ Ready # Nothing
    /\ Act(Ready)
    /\ UNCHANGED <<world, cur, exit, lock>>

SelectTimeout ==
    /\ pc = "select" /\ running /\ ~BadFiled /\ Ready = Nothing
    /\ pc' = "poll"
    /\ UNCHANGED <<world, query, ready, todo, cur, exit, lock>>

(* The streamer aborts once its writer has ended; it never starts anew.    *)
Abort(c) == ~isOpen[c] \/ writer[c] = "done"

(* After a timeout: is a client to be removed? If not, the same sets of    *)
(* descriptors are polled again.                                           *)
Poll ==
    /\ pc = "poll" /\ running
    /\ IF \E c \in Clients : Abort(c)
         THEN Act(Nothing)
         ELSE pc' = "select" /\ UNCHANGED <<query, ready, todo>>
    /\ UNCHANGED <<world, cur, exit, lock>>

(* Slip: it is left between accept and Add.                                *)
LeaveLoopAccepted ==
    /\ \/ pc \in {"select", "poll", "add"}
       \/ pc = "next" /\ todo = {}
    /\ ~running
    /\ pc' = "exit" /\ exit' = "stop" /\ query' = Nothing
    /\ UNCHANGED <<world, ready, todo, cur, lock>>

LeaveLoop ==
    /\ \/ pc \in {"select", "poll"}
       \/ pc = "next" /\ todo = {}
    /\ ~running
    /\ pc' = "exit" /\ exit' = "stop" /\ query' = Nothing
    /\ UNCHANGED <<world, ready, todo, cur, lock>>

-----------------------------------------------------------------------------
(* A new connection gets the lowest free descriptor, joins m_Clients, and  *)
(* is counted. One from a host that is not acceptable is rejected, too.    *)

Lowest(f) == owner[f] = None /\ \A g \in Fds : owner[g] = None => f <= g

Accept(c) ==
    /\ pc = "accept" /\ life[c] = "backlog"
    /\ \E f \in Fds :
         /\ Lowest(f)
         /\ owner' = [owner EXCEPT ![f] = c]
         /\ fd' = [fd EXCEPT ![c] = f]
    /\ isOpen' = [isOpen EXCEPT ![c] = TRUE]
    /\ life' = [life EXCEPT ![c] = "accepted"]
    /\ pc' = "add" /\ cur' = c
    /\ UNCHANGED <<peerVars, work, writer, query, ready, todo, exit,
                   running, lock, menuVars>>

(* Slip: the new client is not counted.                                    *)
TooManyBefore(c) == Cardinality(Clients) > MaxClients
TooMany(c) == Cardinality(Clients \cup {c}) > MaxClients

AddClient ==
    /\ pc = "add" /\ lock = "free"
    /\ life' = [life EXCEPT ![cur] = "listed"]
    /\ \E s \in IF TooMany(cur) THEN {"rejected"} ELSE {"idle", "rejected"} :
         work' = [work EXCEPT ![cur] = s]
    /\ pc' = "next" /\ todo' = Clients \cup {cur} /\ cur' = None
    /\ UNCHANGED <<peerVars, fd, isOpen, writer, owner, query, ready, exit,
                   running, lock, menuVars>>

-----------------------------------------------------------------------------
(* Each client in turn. A socket is tested with the descriptor its         *)
(* connection has now, in the results of the select before.                *)

CanWrite(c) == \E f \in Filed(c) : f \in ready.w
CanRead(c) == \E f \in Filed(c) : f \in ready.r

(* All output goes at once; then the connection is closed or, its header   *)
(* sent, the writer starts. A write fails without a peer.                  *)
WriteTo(c) ==
    \/ /\ ~DeferClose(c) /\ owner[fd[c]] # None
       /\ work' = [work EXCEPT ![c] = IF @ = "stream" THEN "streaming"
                                          ELSE @]
       /\ writer' = [writer EXCEPT ![c] = IF work[c] = "stream" THEN "run"
                                          ELSE @]
       /\ pc' = "read"
    \/ /\ DeferClose(c) \/ owner[fd[c]] = None \/ left[c]
       /\ pc' = "close" /\ UNCHANGED <<work, writer>>

Visit(c) ==
    /\ pc = "next" /\ c \in todo
    /\ todo' = todo \ {c} /\ cur' = c
    /\ IF CanWrite(c) THEN WriteTo(c)
                      ELSE pc' = "read" /\ UNCHANGED <<work, writer>>
    /\ UNCHANGED <<peerVars, life, fd, isOpen, owner, query, ready, exit,
                   running, lock, menuVars>>

(* A request is for a page, for a stream, no good, or to be ignored. It is *)
(* whoever's socket now has the number m_Filed that is read. The socket is *)
(* non-blocking: without data or an end the read fails (EAGAIN).           *)
Read ==
    /\ pc = "read"
    /\ \/ ~CanRead(cur) /\ pc' = "abort" /\ UNCHANGED <<input, work>>
       \/ /\ CanRead(cur)
          /\ LET src == owner[fd[cur]] IN
             IF src # None /\ input[src]
               THEN /\ input' = [input EXCEPT ![src] = FALSE]
                    /\ \/ /\ work[cur] = "idle"
                          /\ \E s \in {"page", "stream"} :
                               work' = [work EXCEPT ![cur] = s]
                          /\ pc' = "abort"
                       \/ pc' \in {"abort", "close"} /\ UNCHANGED work
               ELSE pc' = "close" /\ UNCHANGED <<input, work>>
    /\ UNCHANGED <<left, life, fd, isOpen, writer, owner, query, ready, todo,
                   cur, exit, running, lock, menuVars>>

CheckAbort ==
    /\ pc = "abort"
    /\ pc' = IF Abort(cur) THEN "close" ELSE "next"
    /\ cur' = IF Abort(cur) THEN cur ELSE None
    /\ UNCHANGED <<world, query, ready, todo, exit, lock>>

-----------------------------------------------------------------------------
(* A client is closed and deleted, under the lock; its destructor stops    *)
(* the writer and waits for it. After the loop all of them are.            *)

CloseTest ==
    /\ pc = "close"
    /\ pc' = IF isOpen[cur] THEN "sysclose" ELSE "del"
    /\ UNCHANGED <<world, query, ready, todo, cur, exit, lock>>

CloseSysServer ==
    /\ pc = "sysclose" /\ CloseSys(cur)
    /\ pc' = "clear"
    /\ UNCHANGED <<peerVars, life, fd, isOpen, work, writer, query, ready,
                   todo, cur, exit, running, lock, menuVars>>

CloseClearServer ==
    /\ pc = "clear" /\ CloseClear(cur)
    /\ pc' = "del"
    /\ UNCHANGED <<peerVars, life, fd, work, writer, owner, query, ready,
                   todo, cur, exit, running, lock, menuVars>>

(* Slip: the list is changed while the user's disconnect goes through it.  *)
LockDelWithout ==
    /\ pc = "del" /\ lock' = "server" /\ pc' = "wait"
    /\ UNCHANGED <<world, query, ready, todo, cur, exit>>

LockDel ==
    /\ pc = "del"
    /\ lock = "free" \/ exit # "no"
    /\ lock' = "server" /\ pc' = "wait"
    /\ UNCHANGED <<world, query, ready, todo, cur, exit>>

Delete ==
    /\ pc = "wait" /\ writer[cur] \in {"none", "done"}
    /\ life' = [life EXCEPT ![cur] = "deleted"]
    /\ input' = [input EXCEPT ![cur] = FALSE]
    /\ left' = [left EXCEPT ![cur] = FALSE]
    /\ work' = [work EXCEPT ![cur] = "idle"]
    /\ cur' = None
    /\ IF exit = "no" THEN pc' = "next" /\ lock' = "free"
                      ELSE pc' = "final" /\ UNCHANGED lock
    /\ UNCHANGED <<fd, isOpen, writer, owner, query, ready, todo, exit,
                   running, menuVars>>

Exit ==
    /\ pc = "exit" /\ lock = "free"
    /\ lock' = "server" /\ pc' = "final"
    /\ UNCHANGED <<world, query, ready, todo, cur, exit>>

FinalClient ==
    /\ pc = "final" /\ \E c \in Clients : cur' = c
    /\ pc' = "close"
    /\ UNCHANGED <<world, query, ready, todo, exit, lock>>

FinalDone ==
    /\ pc = "final" /\ Clients = {}
    /\ lock' = "free" /\ pc' = "stopped"
    /\ UNCHANGED <<world, query, ready, todo, cur, exit>>

(* The plugin is stopped.                                                  *)
Stop ==
    /\ running /\ running' = FALSE
    /\ UNCHANGED <<peerVars, connVars, loopVars, lock, menuVars>>

-----------------------------------------------------------------------------
(* The writer: it ends when it is cancelled, cannot write or has no more   *)
(* to write, and closes its socket.                                        *)

Cancelled(c) == pc = "wait" /\ cur = c

WriterTests(c) ==
    /\ writer' = [writer EXCEPT ![c] = IF isOpen[c] THEN "sysclose"
                                       ELSE "done"]
    /\ UNCHANGED <<peerVars, life, fd, isOpen, work, owner, loopVars,
                   running, lock, menuVars>>

WriterEnds(c) ==
    /\ writer[c] = "run" /\ (left[c] \/ ~isOpen[c] \/ Cancelled(c))
    /\ WriterTests(c)

WriterGivesUp(c) == writer[c] = "run" /\ WriterTests(c)

WriterCloses(c) ==
    \/ /\ writer[c] = "sysclose" /\ CloseSys(c)
       /\ writer' = [writer EXCEPT ![c] = "clear"]
       /\ UNCHANGED <<peerVars, life, fd, isOpen, work, loopVars, running,
                   lock, menuVars>>
    \/ /\ writer[c] = "clear" /\ CloseClear(c)
       /\ writer' = [writer EXCEPT ![c] = "done"]
       /\ UNCHANGED <<peerVars, life, fd, work, owner, loopVars, running, lock,
                   menuVars>>

-----------------------------------------------------------------------------
(* The user disconnects a client (menu.c Disconnect, SVDRP DISC).          *)

MenuPick(c) ==
    /\ menuPc = "idle" /\ lock = "free" /\ disconnects < MaxDisconnects
    /\ life[c] = "listed"
    /\ lock' = "menu" /\ picked' = c /\ disconnects' = disconnects + 1
    /\ menuPc' = IF isOpen[c] THEN "sysclose" ELSE "unlock"
    /\ UNCHANGED <<peerVars, connVars, loopVars, running>>

MenuCloses ==
    \/ /\ menuPc = "sysclose" /\ CloseSys(picked)
       /\ menuPc' = "clear"
       /\ UNCHANGED <<life, fd, isOpen, work, writer, lock, picked>>
    \/ /\ menuPc = "clear" /\ CloseClear(picked)
       /\ menuPc' = "unlock"
       /\ UNCHANGED <<life, fd, work, writer, owner, lock, picked>>
    \/ /\ menuPc = "unlock"
       /\ lock' = "free" /\ menuPc' = "idle" /\ picked' = None
       /\ UNCHANGED connVars

MenuStep ==
    /\ MenuCloses
    /\ UNCHANGED <<peerVars, loopVars, running, disconnects>>

-----------------------------------------------------------------------------

ServerStep ==
    \/ Build \/ SelectFails \/ SelectReady \/ SelectTimeout \/ Poll \/ LeaveLoop
    \/ \E c \in Conns : Accept(c) \/ Visit(c)
    \/ AddClient \/ Read \/ CheckAbort
    \/ CloseTest \/ CloseSysServer \/ CloseClearServer \/ LockDel \/ Delete
    \/ Exit \/ FinalClient \/ FinalDone

Stopped == pc = "stopped" /\ UNCHANGED vars

Next ==
    \/ \E c \in Conns :
         \/ Connect(c) \/ Request(c) \/ Leave(c)
         \/ WriterEnds(c) \/ WriterGivesUp(c) \/ WriterCloses(c)
         \/ MenuPick(c)
    \/ ServerStep \/ Stop \/ MenuStep \/ Stopped

Spec == Init /\ [][Next]_vars

(* Threads that can run do; peers, user and VDR need not do anything.      *)
Fairness ==
    /\ WF_vars(ServerStep) /\ WF_vars(MenuStep)
    /\ \A c \in Conns : WF_vars(WriterEnds(c)) /\ WF_vars(WriterCloses(c))

FairSpec == Spec /\ Fairness

-----------------------------------------------------------------------------

FdSets == [r : SUBSET ({Listen} \cup Fds), w : SUBSET Fds]

TypeOK ==
    /\ life \in [Conns -> {"new", "backlog", "accepted", "listed", "deleted"}]
    /\ fd \in [Conns -> {0} \cup Fds] /\ isOpen \in [Conns -> BOOLEAN]
    /\ work \in [Conns -> {"idle", "rejected", "page", "stream",
                             "streaming"}]
    /\ writer \in [Conns -> {"none", "run", "sysclose", "clear", "done"}]
    /\ input \in [Conns -> BOOLEAN] /\ left \in [Conns -> BOOLEAN]
    /\ owner \in [Fds -> Conns \cup {None}]
    /\ pc \in {"select", "poll", "accept", "add", "next", "read",
               "abort", "close", "sysclose", "clear", "del", "wait",
               "exit", "final", "stopped"}
    /\ query \in FdSets /\ ready \in FdSets
    /\ todo \subseteq Conns /\ cur \in Conns \cup {None}
    /\ exit \in {"no", "stop", "fatal"} /\ running \in BOOLEAN
    /\ lock \in {"free", "server", "menu"} /\ picked \in Conns \cup {None}
    /\ menuPc \in {"idle", "sysclose", "clear", "unlock"}
    /\ disconnects \in 0..MaxDisconnects

(* No thread comes across a connection that is deleted: neither its writer *)
(* nor the disconnect of the user, which found it in m_Clients.            *)
DeletedQuiet ==
    \A c \in Conns : life[c] = "deleted" =>
      writer[c] \in {"none", "done"} /\ picked # c /\ cur # c

(* Not more than MaxClients are served, although those that are rejected   *)
(* are in the list as well.                                                *)
Served == {c \in Clients : work[c] # "rejected"}
ServedWithin == Cardinality(Served) <= MaxClients

(* A client is removed whose connection is closed, by whomever, and a      *)
(* client that has left or is rejected, whatever the server was doing for  *)
(* it - unless another one's close has taken the descriptor of the latter. *)
Robbed(c) == isOpen[c] /\ owner[fd[c]] # c

GoneRemoved ==
    \A c \in Conns :
      life[c] = "listed" /\ (~isOpen[c] \/ left[c] \/ DeferClose(c))
        ~> life[c] = "deleted" \/ Robbed(c)

(* Once it is told to stop, the server closes all connections and ends: no *)
(* descriptor is left over, not that of a client it was about to accept    *)
(* either.                                                                 *)
StopReleases ==
    ~running ~> pc = "stopped" /\ \A f \in Fds : owner[f] = None

(* Every client goes in the end that is gone, rejected or disconnected, or *)
(* whose server is told to stop, and its descriptor with it.               *)
AllReleased == GoneRemoved /\ StopReleases
=============================================================================
