----------------------------- MODULE VTPSession -----------------------------
(***************************************************************************)
(* A client's VTP session: the threads of the client device and its one    *)
(* command socket (client/device.c, client/socket.c), the connections of   *)
(* the server that serve it (server/connectionVTP.c), and the data sockets *)
(* between them. CheckConnection and the command it is for are two         *)
(* critical sections: another thread may lose the connection in between.   *)
(* Replies may be late, the server may go away; both have versions of the  *)
(* protocol that negotiate by VERS.                                        *)
(***************************************************************************)
EXTENDS Integers, Sequences, FiniteSets

CONSTANTS
    Threads,    \* of the client that use the device
    Calls,      \* what each thread calls
    Channels, Priorities,
    MaxOps, MaxConns, MaxFaults, \* bounds
    MaxEvents   \* bound: calls and faults together

ASSUME SessionAssumption ==
    /\ "nobody" \notin Threads
    /\ Channels \subseteq Nat \ {0} /\ Priorities \subseteq Nat \ {0}
    /\ MaxOps \in Nat /\ MaxConns \in Nat /\ MaxFaults \in Nat
    /\ MaxEvents \in Nat

VARIABLES
    job,      \* what each thread is at, see Idle
    cmdLock,  \* the thread that has CMD_LOCK, or Nobody
    devLock,  \* the thread that has the device, LOCK_THREAD
    cmd,      \* the connection of the command socket, or 0
    data,     \* m_DataSockets[siLive], or 0
    tsBuffer, \* m_TSBuffer reads this data socket
    priority, \* m_Priority
    sendABRT, abort,  \* m_SendABRT, m_Abort
    channel, tuned,   \* m_Channel, and whether it was tuned last
    conns,    \* the connections, see Conn
    socks,    \* the data sockets, see Sock
    mismatch, \* history: an answer was taken for another command's
    ops, faults  \* history: so many so far

clientVars == <<data, tsBuffer, priority, sendABRT, channel, tuned>>
vars == <<job, cmdLock, devLock, cmd, clientVars, abort, conns, socks,
          mismatch, ops, faults>>

Nobody == "nobody"
NoPriority == -100
NoCommand == <<"none", 0, 0>>
NoStreamer == [ch |-> 0, prio |-> 0]

(* A thread at an operation op with a channel and a priority: stage says   *)
(* which command of it is next, and pc whether the connection is to be     *)
(* checked, the command to be sent, or its answer, to sent, awaited.       *)
Idle == [op |-> "none", ch |-> 0, prio |-> 0, stage |-> "none",
         pc |-> "idle", sent |-> NoCommand, sock |-> 0]

(* A connection, of which each side may have closed its end: the commands  *)
(* and answers on the way, and of cConnectionVTP m_TuneChannel,            *)
(* m_TunePriority, the streamer, m_LiveSocket.                             *)
Conn == [server |-> TRUE, client |-> TRUE, in |-> <<>>,
         out |-> <<[of |-> <<"HELLO", 0, 0>>, code |-> 220]>>,
         tune |-> 0, prio |-> 0, streamer |-> NoStreamer, live |-> 0,
         running |-> FALSE]

(* A data socket: the client listens for it, a connection came and can be  *)
(* accepted, the client has it, the server has it, the connection it       *)
(* belongs to, and the channels that came through it.                      *)
Sock(c) == [listen |-> TRUE, came |-> FALSE, client |-> FALSE,
            server |-> FALSE, conn |-> c, chans |-> {}]

Init ==
    /\ job = [t \in Threads |-> Idle]
    /\ cmdLock = Nobody /\ devLock = Nobody /\ cmd = 0 /\ data = 0
    /\ tsBuffer = 0 /\ priority = NoPriority /\ sendABRT = TRUE
    /\ abort = FALSE /\ channel = 0 /\ tuned = FALSE
    /\ conns = <<>> /\ socks = <<>> /\ mismatch = FALSE
    /\ ops = 0 /\ faults = 0

-----------------------------------------------------------------------------
(* The client                                                              *)

MayCall == ops < MaxOps /\ ops + faults < MaxEvents
MayFail == faults < MaxFaults /\ ops + faults < MaxEvents

UsesDevice(op) == op \in {"TUNE", "PRIO", "CLOSE", "OPEN", "QUIT"}

(* VDR calls the device. ReInit aborts what waits for an answer before it  *)
(* has the lock, and never takes that back.                                *)
Begin(t, op, ch, prio) ==
    /\ job[t] = Idle /\ op \in Calls[t] /\ MayCall /\ ops' = ops + 1
    /\ UsesDevice(op) => devLock = Nobody
    /\ devLock' = IF UsesDevice(op) THEN t ELSE devLock
    /\ job' = [job EXCEPT ![t] =
         [Idle EXCEPT !.op = op, !.ch = ch, !.prio = prio,
                      !.stage = IF op = "OPEN" THEN "close" ELSE "first",
                      !.pc = IF op = "QUIT" THEN "send" ELSE "check"]]
    /\ abort' = (abort \/ op = "QUIT")
    /\ channel' = IF op = "TUNE" THEN ch ELSE channel
    /\ tuned' = (tuned /\ op # "TUNE")
    /\ UNCHANGED <<cmdLock, cmd, data, tsBuffer, priority, sendABRT, conns,
                   socks, mismatch, faults>>

ProvidesChannel(t) == \E ch \in Channels, p \in Priorities :
                        Begin(t, "PROV", ch, p)
SetChannelDevice(t) == \E ch \in Channels : Begin(t, "TUNE", ch, 0)
SetPriority(t) == \E p \in Priorities \ {priority} : Begin(t, "PRIO", 0, p)
OpenDvr(t) == Begin(t, "OPEN", 0, 0)
CloseDvr(t) == Begin(t, "CLOSE", 0, 0)
ReInit(t) == Begin(t, "QUIT", 0, 0)

CloseClient(cs, c) == IF c = 0 THEN cs ELSE [cs EXCEPT ![c].client = FALSE]
CloseSock(ss, s) == IF s = 0 THEN ss
                    ELSE [ss EXCEPT ![s].client = FALSE, ![s].listen = FALSE]

(* The command that is next.                                               *)
Command(t) ==
    LET j == job[t] IN
    CASE j.op = "PROV" -> <<"PROV", j.ch, j.prio>>
      [] j.op = "TUNE" /\ j.stage = "first" -> <<"ABRT", 0, 0>>
      [] j.op = "TUNE" /\ j.stage = "second" -> <<"TUNE", j.ch, 0>>
      [] j.op = "PRIO" -> <<"PRIO", j.prio, 0>>
      [] j.op = "CLOSE" \/ j.stage = "close" -> <<"ABRT", 0, 0>>
      [] j.op = "OPEN" /\ j.stage = "first" -> <<"PORT", j.sock, 0>>
      [] j.op = "QUIT" -> <<"QUIT", 0, 0>>

(* Slip: the command socket stays locked when a call is over.              *)
DoneLocked(t) == job' = [job EXCEPT ![t] = Idle] /\ UNCHANGED cmdLock
                 /\ devLock' = IF devLock = t THEN Nobody ELSE devLock

(* The thread is done, or goes on with stage and pc; it has the connection *)
(* no more, unless keep.                                                   *)
Done(t) ==
    /\ job' = [job EXCEPT ![t] = Idle] /\ cmdLock' = Nobody
    /\ devLock' = IF devLock = t THEN Nobody ELSE devLock
GoOn(t, stage, pc, keep) ==
    /\ job' = [job EXCEPT ![t].stage = stage, ![t].pc = pc, ![t].sock = 0]
    /\ cmdLock' = IF keep THEN t ELSE Nobody
    /\ UNCHANGED devLock

(* The device's CloseDvr drops the buffer whatever the socket's came to;   *)
(* the data socket stays if the server could not be told.                  *)
Closed(t, ok) ==
    /\ tsBuffer' = 0
    /\ IF ok THEN data' = 0 /\ sendABRT' = TRUE /\ socks' = CloseSock(socks, data)
       ELSE UNCHANGED <<data, sendABRT, socks>>
    /\ IF job[t].op = "OPEN" THEN GoOn(t, "first", "check", FALSE) ELSE Done(t)
    /\ UNCHANGED <<priority, channel, tuned>>

(* PORT was answered: well, the connection is to be accepted, with all     *)
(* locks held; else nobody listens for it any more.                        *)
Opened(t, ok) ==
    /\ IF ok THEN /\ job' = [job EXCEPT ![t].pc = "accept"]
                  /\ cmdLock' = t /\ UNCHANGED <<devLock, socks>>
       ELSE socks' = CloseSock(socks, job[t].sock) /\ Done(t)
    /\ UNCHANGED clientVars

(* Reset: the buffer is left to read what was closed.                      *)
Reset(t) ==
    /\ data' = 0 /\ priority' = NoPriority /\ socks' = CloseSock(socks, data)
    /\ Done(t) /\ UNCHANGED <<tsBuffer, sendABRT, channel, tuned>>

(* The command in hand was answered, well or not.                          *)
After(t, ok) ==
    LET j == job[t] IN
    CASE j.op = "PROV" -> Done(t) /\ UNCHANGED <<clientVars, socks>>
      [] j.op = "PRIO" ->
           /\ Done(t) /\ priority' = IF ok THEN j.prio ELSE priority
           /\ UNCHANGED <<data, tsBuffer, sendABRT, channel, tuned, socks>>
      [] j.op = "TUNE" /\ j.stage = "first" ->
           /\ GoOn(t, "second", "send", TRUE) /\ sendABRT' = ~ok
           /\ UNCHANGED <<data, tsBuffer, priority, channel, tuned, socks>>
      [] j.op = "TUNE" /\ j.stage = "second" ->
           /\ Done(t) /\ tuned' = ok
           /\ UNCHANGED <<data, tsBuffer, priority, sendABRT, channel, socks>>
      [] j.op = "CLOSE" \/ j.stage = "close" -> Closed(t, ok)
      [] j.op = "OPEN" /\ j.stage = "first" -> Opened(t, ok)
      [] j.op = "QUIT" -> Reset(t)

(* CheckConnection failed.                                                 *)
Unconnected(t) ==
    CASE job[t].op = "CLOSE" \/ job[t].stage = "close" -> Closed(t, FALSE)
      [] OTHER -> Done(t) /\ UNCHANGED <<clientVars, socks>>

Readable(c) == conns[c].out # <<>> \/ ~conns[c].server

(* An open connection with nothing to read is taken for good.              *)
CheckConnection(t) ==
    /\ job[t].pc = "check" /\ cmdLock = Nobody
    /\ cmd # 0 /\ ~Readable(cmd)
    /\ job' = [job EXCEPT ![t].pc = "send"]
    /\ UNCHANGED <<cmdLock, devLock, cmd, clientVars, abort, conns, socks,
                   mismatch, ops, faults>>

Connect(t) ==
    /\ job[t].pc = "check" /\ cmdLock = Nobody
    /\ cmd # 0 => Readable(cmd)
    /\ UNCHANGED <<abort, mismatch, ops>>
    /\ \/ /\ Len(conns) < MaxConns
          /\ conns' = Append(CloseClient(conns, cmd), Conn)
          /\ cmd' = Len(conns) + 1 /\ cmdLock' = t
          /\ job' = [job EXCEPT ![t].pc = "greet",
                                ![t].sent = <<"HELLO", 0, 0>>]
          /\ UNCHANGED <<devLock, clientVars, socks, faults>>
       \/ /\ MayFail \/ Len(conns) = MaxConns
          /\ faults' = IF MayFail THEN faults + 1 ELSE faults
          /\ conns' = CloseClient(conns, cmd) /\ cmd' = 0
          /\ Unconnected(t)

(* A data connection is listened for before its PORT; a data socket the    *)
(* client still has is closed first. CloseDvr without one tells nothing.   *)
Send(t) ==
    /\ job[t].pc = "send" /\ cmdLock \in {Nobody, t}
    /\ UNCHANGED <<abort, mismatch, ops, faults>>
    /\ \/ /\ Command(t)[1] = "ABRT" /\ job[t].op # "TUNE"
          /\ ~(data # 0 /\ sendABRT)
          /\ Closed(t, data # 0) /\ UNCHANGED <<cmd, conns>>
       \/ /\ Command(t)[1] = "ABRT" /\ job[t].op # "TUNE"
             => data # 0 /\ sendABRT
          /\ Command(t)[1] = "PORT" => job[t].sock # 0
          /\ IF cmd = 0 THEN After(t, FALSE) /\ UNCHANGED <<cmd, conns>>
             ELSE /\ conns' = [conns EXCEPT ![cmd].in = Append(@, Command(t))]
                  /\ job' = [job EXCEPT ![t].pc = "reply",
                                        ![t].sent = Command(t)]
                  /\ cmdLock' = t
                  /\ UNCHANGED <<devLock, cmd, clientVars, socks>>
       \/ /\ Command(t)[1] = "PORT" /\ job[t].sock = 0
          /\ socks' = Append(CloseSock(socks, data), Sock(cmd))
          /\ data' = 0
          /\ job' = [job EXCEPT ![t].sock = Len(socks) + 1]
          /\ UNCHANGED <<cmdLock, devLock, cmd, tsBuffer, priority, sendABRT,
                         channel, tuned, conns>>

(* Slip: a late answer is waited for no more, and the connection kept.     *)
DropKept(keep) == UNCHANGED <<cmd, conns>>

(* Close of the command socket, unless keep.                               *)
Drop(keep) ==
    IF keep THEN UNCHANGED <<cmd, conns>>
    ELSE cmd' = 0 /\ conns' = CloseClient(conns, cmd)

(* What awaits a greeting answers it with VERS.                            *)
Answer(t) ==
    LET j == job[t]
        r == Head(conns[cmd].out)
        read == [conns EXCEPT ![cmd].out = Tail(@)]
        vers == <<"VERS", 0, 0>>
    IN /\ j.pc \in {"greet", "vers", "reply"} /\ cmd # 0
       /\ conns[cmd].out # <<>>
       /\ mismatch' = (mismatch \/ r.of # j.sent)
       /\ UNCHANGED <<abort, ops, faults>>
       /\ \/ /\ j.pc = "greet" /\ r.code = 220
             /\ conns' = [read EXCEPT ![cmd].in = Append(@, vers)]
             /\ job' = [job EXCEPT ![t].pc = "vers", ![t].sent = vers]
             /\ UNCHANGED <<cmdLock, devLock, cmd, clientVars, socks>>
          \/ /\ j.pc = "vers" /\ r.code = 220 /\ conns' = read
             /\ job' = [job EXCEPT ![t].pc = "send"] /\ cmdLock' = Nobody
             /\ UNCHANGED <<devLock, cmd, clientVars, socks>>
          \/ /\ j.pc # "reply" /\ r.code # 220
             /\ Drop(FALSE) /\ Unconnected(t)
          \/ /\ j.pc = "reply" /\ After(t, r.code = 220)
             /\ IF j.op = "QUIT" THEN Drop(FALSE)
                ELSE conns' = read /\ UNCHANGED cmd

(* Receive fails: at the end of the connection, or late. Once aborted, it  *)
(* is left to its caller to close the connection.                          *)
Fails(t) ==
    /\ IF job[t].pc = "reply"
         THEN Drop(abort /\ job[t].op # "QUIT") /\ After(t, FALSE)
         ELSE Drop(FALSE) /\ Unconnected(t)
    /\ UNCHANGED <<abort, mismatch, ops>>
Waits(t) == job[t].pc \in {"greet", "vers", "reply"} /\ cmd # 0
            /\ conns[cmd].out = <<>>
Eof(t) == Waits(t) /\ ~conns[cmd].server /\ Fails(t) /\ UNCHANGED faults
Timeout(t) ==
    /\ Waits(t) /\ MayFail /\ faults' = faults + 1
    /\ Fails(t)

(* accept() waits for a connection and knows no timeout. One that was made *)
(* is there, even if the server has closed it since.                       *)
Accept(t) ==
    LET s == job[t].sock IN
    /\ job[t].pc = "accept" /\ socks[s].came
    /\ data' = s /\ tsBuffer' = s
    /\ socks' = [socks EXCEPT ![s].listen = FALSE, ![s].client = TRUE]
    /\ Done(t)
    /\ UNCHANGED <<cmd, priority, sendABRT, abort, channel, tuned, conns,
                   mismatch, ops, faults>>

-----------------------------------------------------------------------------
(* The server: a command of a connection, in one cycle of its thread       *)

noClient == <<job, cmdLock, devLock, cmd, clientVars, abort, mismatch, ops>>

Asked(c, name) == /\ conns[c].server /\ conns[c].in # <<>>
                  /\ Head(conns[c].in)[1] = name
Arg(c, i) == Head(conns[c].in)[i + 1]

(* The connection is k, and the command in hand answered.                  *)
Respond(c, code, k) ==
    conns' = [conns EXCEPT ![c] =
        [k EXCEPT !.in = Tail(@),
                  !.out = Append(@, [of |-> Head(k.in), code |-> code])]]

CloseServer(ss, s) == IF s = 0 THEN ss ELSE [ss EXCEPT ![s].server = FALSE]

(* The streamer of k is started on its data socket, if it has both.        *)
Start(k) == [k EXCEPT !.running = k.live # 0 /\ k.streamer # NoStreamer]
Streamed(ss, k) ==
    IF k.live # 0 /\ k.streamer # NoStreamer
      THEN [ss EXCEPT ![k.live].chans = @ \cup {k.streamer.ch}] ELSE ss

CmdVERS(c) == Asked(c, "VERS") /\ Respond(c, 220, conns[c]) /\ UNCHANGED socks

CmdPROV(c) ==
    /\ Asked(c, "PROV") /\ UNCHANGED socks
    /\ \/ Respond(c, 220, [conns[c] EXCEPT !.tune = Arg(c, 1),
                                           !.prio = Arg(c, 2)])
       \/ Respond(c, 560, [conns[c] EXCEPT !.tune = 0])

(* The streamer there is goes only when the new one has its device; a data *)
(* socket is handed from the one to the other.                             *)
CmdTUNE(c) ==
    LET k == conns[c]
        prio == IF Arg(c, 1) = k.tune THEN k.prio ELSE 0
        n == [k EXCEPT !.streamer = [ch |-> Arg(c, 1), prio |-> prio]]
    IN /\ Asked(c, "TUNE")
       /\ \/ Respond(c, 560, k) /\ UNCHANGED socks
          \/ Respond(c, 220, Start(n)) /\ socks' = Streamed(socks, n)

CmdPORT(c) ==
    LET k == conns[c]
        s == Arg(c, 1)
        n == [k EXCEPT !.live = IF socks[s].listen THEN s ELSE 0,
                       !.running = FALSE]
        ss == CloseServer(socks, k.live)
    IN /\ Asked(c, "PORT")
       /\ IF n.live = 0 THEN Respond(c, 551, n) /\ socks' = ss
          ELSE /\ Respond(c, 220, Start(n))
               /\ socks' = Streamed([ss EXCEPT ![s].came = TRUE,
                                                ![s].server = TRUE], n)

(* Slip: the streamer is stopped and keeps its data socket.                *)
CmdABRTKeeps(c) ==
    /\ Asked(c, "ABRT") /\ UNCHANGED socks
    /\ Respond(c, 220, [conns[c] EXCEPT !.running = FALSE])

CmdABRT(c) ==
    /\ Asked(c, "ABRT") /\ socks' = CloseServer(socks, conns[c].live)
    /\ Respond(c, 220, [conns[c] EXCEPT !.running = FALSE, !.live = 0])

(* PRIO needs a streamer.                                                  *)
CmdPRIO(c) ==
    LET k == conns[c] IN
    /\ Asked(c, "PRIO") /\ UNCHANGED socks
    /\ IF k.streamer = NoStreamer THEN Respond(c, 550, k)
       ELSE Respond(c, 220, [k EXCEPT !.streamer.prio = Arg(c, 1)])

(* The destructor of the connection: streamer and sockets go.              *)
Gone(k) == [k EXCEPT !.server = FALSE, !.in = <<>>, !.streamer = NoStreamer,
                     !.live = 0, !.running = FALSE, !.tune = 0, !.prio = 0]

CmdQUIT(c) ==
    /\ Asked(c, "QUIT") /\ socks' = CloseServer(socks, conns[c].live)
    /\ conns' = [conns EXCEPT ![c] =
          [Gone(conns[c]) EXCEPT !.out = Append(@, [of |-> <<"QUIT", 0, 0>>,
                                                    code |-> 221])]]

Serve(c) ==
    /\ \/ CmdVERS(c) \/ CmdPROV(c) \/ CmdTUNE(c) \/ CmdPORT(c) \/ CmdABRT(c)
       \/ CmdPRIO(c) \/ CmdQUIT(c)
    /\ UNCHANGED <<noClient, faults>>

(* The client closed its end of the connection, or of the data socket a    *)
(* streamer writes to (Abort).                                             *)
Leave(c) ==
    LET k == conns[c] IN
    /\ k.server
    /\ \/ ~k.client
       \/ k.running /\ ~socks[k.live].client /\ ~socks[k.live].listen
    /\ conns' = [conns EXCEPT ![c] = Gone(@)]
    /\ socks' = CloseServer(socks, k.live)
    /\ UNCHANGED <<noClient, faults>>

(* The server goes away and comes back: its answers on the way are lost.   *)
Restart ==
    /\ MayFail /\ faults' = faults + 1
    /\ \E c \in DOMAIN conns : conns[c].server
    /\ conns' = [c \in DOMAIN conns |->
                  IF conns[c].server THEN [Gone(conns[c]) EXCEPT !.out = <<>>]
                  ELSE conns[c]]
    /\ socks' = [s \in DOMAIN socks |-> [socks[s] EXCEPT !.server = FALSE]]
    /\ UNCHANGED noClient

-----------------------------------------------------------------------------

Step(t) == \/ CheckConnection(t) \/ Connect(t) \/ Send(t) \/ Answer(t)
           \/ Eof(t) \/ Accept(t)
Call(t) == \/ ProvidesChannel(t) \/ SetChannelDevice(t) \/ SetPriority(t)
           \/ OpenDvr(t) \/ CloseDvr(t) \/ ReInit(t)
Next ==
    \/ \E t \in Threads : Step(t) \/ Call(t) \/ Timeout(t)
    \/ \E c \in DOMAIN conns : Serve(c) \/ Leave(c)
    \/ Restart

Spec == Init /\ [][Next]_vars

(* Threads run, and the server's thread comes to each of its connections.  *)
FairSpec ==
    /\ Spec /\ \A t \in Threads : WF_vars(Step(t))
    /\ \A c \in 1 .. MaxConns :
         WF_vars(c \in DOMAIN conns /\ (Serve(c) \/ Leave(c)))

-----------------------------------------------------------------------------
(* Properties                                                              *)

(* What a command waits for is its own answer, although answers come late, *)
(* connections are lost and other threads reconnect between the check and  *)
(* the command: Receive closes what is late, CheckConnection what can be   *)
(* read. A device that was initialised again closes nothing any more       *)
(* (m_Abort), and there it does not hold.                                  *)
AnswersMatch == mismatch => abort

(* A data socket carries one channel, and that of the connection in use,   *)
(* once the client was told it is tuned, the channel it asked for: never   *)
(* what was left of the one before, whoever opened the socket when.        *)
RightChannel ==
    /\ \A s \in DOMAIN socks : Cardinality(socks[s].chans) <= 1
    /\ tuned /\ ~mismatch /\ cmd # 0 /\ data # 0 /\ socks[data].server
         /\ socks[data].conn = cmd
       => socks[data].chans \subseteq {channel}

(* The thread waits in accept() for a connection that nobody will make.    *)
Deserted(t) ==
    /\ job[t].pc = "accept" /\ ~socks[job[t].sock].came
    /\ \A c \in DOMAIN conns : \A i \in DOMAIN conns[c].in :
         conns[c].in[i] # job[t].sent

(* Every call of VDR returns: locks, lost answers and a server that goes   *)
(* away leave no thread waiting. The code has one exception: after ReInit  *)
(* a late answer may pass for that of PORT (mismatch), and if the server   *)
(* goes away then, before it has connected, the thread that opened the     *)
(* device waits for good, and with it whoever needs a lock it holds.       *)
CallsReturn ==
    \A t \in Threads : job[t] # Idle ~>
        (job[t] = Idle \/ (mismatch /\ \E u \in Threads : Deserted(u)))
=============================================================================
