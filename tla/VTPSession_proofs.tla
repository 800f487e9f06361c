------------------------- MODULE VTPSession_proofs -------------------------
(***************************************************************************)
(* That no command of a client takes the answer of another for its own,    *)
(* for any number of threads, calls, reconnections, lost connections and   *)
(* late answers, until the device is initialised again; and that what      *)
(* comes through the data socket is the channel the client is tuned to.    *)
(***************************************************************************)
EXTENDS VTPSession, FiniteSetTheorems, TLAPS

-----------------------------------------------------------------------------
(* Types                                                                   *)

Fixed == {<<"none", 0, 0>>, <<"HELLO", 0, 0>>, <<"VERS", 0, 0>>, <<"QUIT", 0, 0>>}
Commands == Fixed \cup ({"PROV", "TUNE", "PRIO", "ABRT", "PORT"} \X Int \X Int)
Reply == [of : Commands, code : Nat]
Connection ==
    [server : BOOLEAN, client : BOOLEAN, in : Seq(Commands), out : Seq(Reply),
     tune : Int, prio : Int, streamer : [ch : Int, prio : Int], live : Int,
     running : BOOLEAN]

Waiting == {"greet", "vers", "reply"}
Job == [op : {"none", "PROV", "TUNE", "PRIO", "CLOSE", "OPEN", "QUIT"},
        ch : Int, prio : Int, stage : {"none", "first", "second", "close"},
        pc : {"idle", "check", "send", "accept"} \cup Waiting,
        sent : Commands, sock : Int]

IsSequence(s) == \E S : s \in Seq(S)

(* A thread that does anything is at a command of its operation.           *)
AtCommand(j) ==
    j.pc # "idle" =>
      /\ j.op # "none" /\ j.stage # "none"
      /\ j.stage = "second" => j.op = "TUNE"
      /\ j.stage = "close" => j.op = "OPEN"

Typed ==
    /\ job \in [Threads -> Job]
    /\ \A t \in Threads : AtCommand(job[t])
    /\ cmdLock \in Threads \cup {Nobody}
    /\ conns \in Seq(Connection)
    /\ cmd \in 0 .. Len(conns)
    /\ IsSequence(socks)
    /\ mismatch \in BOOLEAN /\ abort \in BOOLEAN

-----------------------------------------------------------------------------
(* The invariant                                                           *)

HasToWait(t) == t \in Threads /\ job[t].pc \in Waiting

(* Nothing is on its way, or one command or its answer.                    *)
Quiet(k) == k.in = <<>> /\ k.out = <<>>
Exchange(k, sent) ==
    \/ k.in \in {<<>>, <<sent>>} /\ k.out = <<>>
    \/ k.in = <<>> /\ \E code \in Nat : k.out = <<[of |-> sent, code |-> code]>>

(* Who waits has the command socket, and on it is what it waits for. Who   *)
(* accepts has it too, but awaits no answer any more.                      *)
Locked == \A t \in Threads : /\ HasToWait(t) => cmdLock = t /\ cmd # 0
                             /\ job[t].pc = "accept" => cmdLock = t
LockStep ==
    cmd # 0 => IF HasToWait(cmdLock)
                 THEN Exchange(conns[cmd], job[cmdLock].sent)
                 ELSE Quiet(conns[cmd])

(* ReInit ends it: an answer may then be given up without a close.         *)
IInv == Typed /\ (~abort => Locked /\ LockStep /\ ~mismatch)

-----------------------------------------------------------------------------
(* Sequences                                                               *)

LEMMA OneToN ==
    ASSUME NEW S, NEW n \in Nat, NEW f \in [1 .. n -> S] PROVE f \in Seq(S)
OBVIOUS

LEMMA ExceptSequence ==
    ASSUME NEW s, IsSequence(s), NEW i, NEW x
    PROVE  IsSequence([s EXCEPT ![i] = x])
<1>1. PICK S : s \in Seq(S)
    BY DEF IsSequence
<1>2. s \in [1 .. Len(s) -> S] /\ Len(s) \in Nat
    BY <1>1
<1>3. [s EXCEPT ![i] = x] \in [1 .. Len(s) -> S \cup {x}]
    BY <1>2
<1>4. [s EXCEPT ![i] = x] \in Seq(S \cup {x})
    BY <1>2, <1>3, OneToN
<1> QED
    BY <1>4 DEF IsSequence

LEMMA AppendSequence ==
    ASSUME NEW s, IsSequence(s), NEW x
    PROVE  IsSequence(Append(s, x)) /\ Len(s) + 1 \in Int
<1>1. PICK S : s \in Seq(S)
    BY DEF IsSequence
<1>2. s \in Seq(S \cup {x})
    BY <1>1
<1>3. Append(s, x) \in Seq(S \cup {x})
    BY <1>2
<1> QED
    BY <1>1, <1>3 DEF IsSequence

LEMMA CloseSockSequence ==
    ASSUME NEW ss, IsSequence(ss), NEW s
    PROVE  IsSequence(CloseSock(ss, s))
<1> DEFINE r == [ss EXCEPT ![s] = [ss[s] EXCEPT !.client = FALSE]]
           q == [r EXCEPT ![s] = [r[s] EXCEPT !.listen = FALSE]]
<1>1. IsSequence(r)
    BY ExceptSequence
<1>2. IsSequence(q)
  <2> HIDE DEF r
  <2> QED
    BY <1>1, ExceptSequence
<1>3. [ss EXCEPT ![s].client = FALSE, ![s].listen = FALSE] = q
    OBVIOUS
<1> HIDE DEF q
<1> QED
    BY <1>2, <1>3 DEF CloseSock

LEMMA CloseServerSequence ==
    ASSUME NEW ss, IsSequence(ss), NEW s
    PROVE  IsSequence(CloseServer(ss, s))
<1>1. IsSequence([ss EXCEPT ![s] = [ss[s] EXCEPT !.server = FALSE]])
    BY ExceptSequence
<1> QED
    BY <1>1 DEF CloseServer

LEMMA StreamedSequence ==
    ASSUME NEW ss, IsSequence(ss), NEW k
    PROVE  IsSequence(Streamed(ss, k))
<1> DEFINE s == k.live
<1>1. IsSequence([ss EXCEPT ![s] =
                    [ss[s] EXCEPT !.chans = @ \cup {k.streamer.ch}]])
    BY ExceptSequence
<1> QED
    BY <1>1 DEF Streamed

-----------------------------------------------------------------------------
(* Two kinds of step of a client's thread                                  *)

(* The thread waits for nothing now.                                       *)
Rested(t) ==
    \E x \in Job : /\ AtCommand(x) /\ x.pc \notin Waiting
                   /\ job' = [job EXCEPT ![t] = x] /\ cmdLock' \in {t, Nobody}
                   /\ x.pc = "accept" => cmdLock' = t

LEMMA RestStep ==
    ASSUME IInv, NEW t \in Threads, ~abort => cmdLock \in {t, Nobody},
           Rested(t), IsSequence(socks'),
           conns' \in Seq(Connection), cmd' \in 0 .. Len(conns'),
           mismatch' \in BOOLEAN, UNCHANGED abort,
           ~abort => ~mismatch' /\ (cmd' # 0 => Quiet(conns'[cmd']))
    PROVE  IInv'
<1>1. PICK x \in Job :
        /\ AtCommand(x) /\ x.pc \notin Waiting
        /\ job' = [job EXCEPT ![t] = x] /\ cmdLock' \in {t, Nobody}
        /\ x.pc = "accept" => cmdLock' = t
    BY DEF Rested
<1>2. job \in [Threads -> Job]
    BY DEF IInv, Typed
<1>3. /\ job' \in [Threads -> Job] /\ job'[t] = x
      /\ \A u \in Threads \ {t} : job'[u] = job[u]
  <2>1. job' = [job EXCEPT ![t] = x]
    BY <1>1
  <2> QED
    BY <2>1, <1>2
<1>4. Typed'
    BY <1>1, <1>3 DEF IInv, Typed
<1>5. ASSUME ~abort
      PROVE  Locked' /\ LockStep' /\ ~mismatch'
  <2>1. ASSUME NEW u \in Threads
        PROVE  job'[u].pc \notin Waiting /\ (job'[u].pc = "accept" => cmdLock' = u)
    <3>1. CASE u = t
        BY <3>1, <1>1, <1>3
    <3>2. CASE u # t
      <4>1. cmdLock # u
        BY <3>2, <1>5, SessionAssumption DEF Nobody
      <4>2. job'[u] = job[u] /\ ~HasToWait(u) /\ job[u].pc # "accept"
        BY <3>2, <4>1, <1>3, <1>5 DEF IInv, Locked
      <4> QED
        BY <4>2 DEF HasToWait
    <3> QED
        BY <3>1, <3>2
  <2> QED
    BY <1>5, <2>1 DEF Locked, LockStep, HasToWait
<1> QED
    BY <1>4, <1>5 DEF IInv

LEMMA WaitStep ==
    ASSUME IInv, NEW t \in Threads, ~abort => cmdLock \in {t, Nobody},
           NEW x \in Job, IsSequence(socks'), AtCommand(x), x.pc \in Waiting,
           job' = [job EXCEPT ![t] = x],
           cmdLock' \in Threads \cup {Nobody}, ~abort => cmdLock' = t,
           conns' \in Seq(Connection), cmd' \in 1 .. Len(conns'),
           mismatch' \in BOOLEAN, UNCHANGED abort,
           ~abort => ~mismatch' /\ Exchange(conns'[cmd'], x.sent)
    PROVE  IInv'
<1>2. job \in [Threads -> Job]
    BY DEF IInv, Typed
<1>3. /\ job' \in [Threads -> Job] /\ job'[t] = x
      /\ \A u \in Threads \ {t} : job'[u] = job[u]
    BY <1>2
<1>4. Typed'
    BY <1>3 DEF IInv, Typed
<1>5. ASSUME ~abort
      PROVE  Locked' /\ LockStep' /\ ~mismatch'
  <2>1. ASSUME NEW u \in Threads \ {t}
        PROVE  job'[u].pc \notin Waiting /\ job'[u].pc # "accept"
    BY <1>3, <1>5, SessionAssumption DEF IInv, Locked, HasToWait, Nobody
  <2>2. job'[t].pc # "accept"
    BY <1>3 DEF Waiting
  <2> QED
    BY <1>3, <1>5, <2>1, <2>2 DEF Locked, LockStep, HasToWait
<1> QED
    BY <1>4, <1>5 DEF IInv

(* A thread that does not wait and may have the socket finds it quiet.     *)
LEMMA QuietBefore ==
    ASSUME IInv, ~abort, NEW t \in Threads, job[t].pc \notin Waiting,
           cmdLock \in {t, Nobody}, cmd # 0
    PROVE  Quiet(conns[cmd])
BY SessionAssumption DEF IInv, LockStep, HasToWait, Nobody

-----------------------------------------------------------------------------
(* What comes after a command                                              *)

LEMMA IdleJob == /\ Idle \in Job /\ AtCommand(Idle)
                 /\ Idle.pc \notin Waiting /\ Idle.pc # "accept"
BY DEF Idle, Job, AtCommand, Waiting, NoCommand, Commands, Fixed

LEMMA DoneRests ==
    ASSUME NEW t \in Threads, Done(t) PROVE Rested(t)
BY IdleJob DEF Done, Rested

LEMMA GoOnRests ==
    ASSUME Typed, NEW t \in Threads, NEW stage \in {"first", "second"},
           NEW pc \in {"check", "send"}, NEW keep \in BOOLEAN,
           stage = "second" => job[t].op = "TUNE", job[t].op # "none",
           GoOn(t, stage, pc, keep)
    PROVE  Rested(t)
<1> DEFINE x == [job[t] EXCEPT !.stage = stage, !.pc = pc, !.sock = 0]
<1>1. job \in [Threads -> Job] /\ job[t] \in Job
    BY DEF Typed
<1>2. x \in Job /\ AtCommand(x) /\ x.pc \notin Waiting /\ x.pc # "accept"
  <2> DEFINE j == job[t]
  <2>0. j \in Job
    BY <1>1
  <2> HIDE DEF j
  <2>1. x \in Job /\ x.op = j.op /\ x.stage = stage /\ x.pc = pc
    <3>1. x = [j EXCEPT !.stage = stage, !.pc = pc, !.sock = 0]
      BY DEF j
    <3> HIDE DEF x
    <3>2. x = [op |-> j.op, ch |-> j.ch, prio |-> j.prio, stage |-> stage,
               pc |-> pc, sent |-> j.sent, sock |-> 0]
      BY <2>0, <3>1 DEF Job
    <3> QED
      BY <2>0, <3>2 DEF Job
  <2> HIDE DEF x
  <2> QED
    BY <2>1 DEF AtCommand, Waiting, j
<1>3. job' = [job EXCEPT ![t] = x]
    BY <1>1 DEF GoOn
<1>4. cmdLock' \in {t, Nobody}
    BY DEF GoOn
<1> QED
    BY <1>2, <1>3, <1>4 DEF Rested

LEMMA ClosedRests ==
    ASSUME Typed, NEW t \in Threads, job[t].pc # "idle", NEW ok, Closed(t, ok)
    PROVE  Rested(t)
<1>1. CASE job[t].op = "OPEN"
  <2>1. GoOn(t, "first", "check", FALSE)
    BY <1>1 DEF Closed
  <2> QED
    BY <1>1, <2>1, GoOnRests
<1>2. CASE job[t].op # "OPEN"
    BY <1>2, DoneRests DEF Closed
<1> QED
    BY <1>1, <1>2

LEMMA OpenedRests ==
    ASSUME Typed, NEW t \in Threads, job[t].op = "OPEN", job[t].stage = "first",
           NEW ok, Opened(t, ok)
    PROVE  Rested(t)
<1>1. CASE ok
  <2> DEFINE x == [job[t] EXCEPT !.pc = "accept"]
  <2>1. job \in [Threads -> Job] /\ job[t] \in Job
    BY DEF Typed
  <2>2. x \in Job /\ AtCommand(x) /\ x.pc \notin Waiting
    BY <2>1 DEF Job, AtCommand, Waiting
  <2>3. job' = [job EXCEPT ![t] = x] /\ cmdLock' = t
    BY <1>1, <2>1 DEF Opened
  <2> QED
    BY <2>2, <2>3 DEF Rested
<1>2. CASE ~ok
    BY <1>2, DoneRests DEF Opened
<1> QED
    BY <1>1, <1>2

LEMMA AfterRests ==
    ASSUME Typed, NEW t \in Threads, job[t].pc # "idle", NEW ok, After(t, ok)
    PROVE  Rested(t)
<1>1. job[t] \in Job /\ AtCommand(job[t])
    BY DEF Typed
<1>2. CASE job[t].op = "TUNE"
  <2>1. job[t].stage \in {"first", "second"}
    BY <1>1, <1>2 DEF Job, AtCommand
  <2>2. CASE job[t].stage = "first"
    <3>1. GoOn(t, "second", "send", TRUE)
      BY <1>2, <2>2 DEF After
    <3> QED
      BY <1>2, <3>1, GoOnRests
  <2>3. CASE job[t].stage = "second"
    BY <1>2, <2>3, DoneRests DEF After
  <2> QED
    BY <2>1, <2>2, <2>3
<1>3. CASE job[t].op \in {"PROV", "PRIO"}
  <2>1. CASE job[t].op = "PROV"
    BY <1>1, <2>1, DoneRests DEF After, AtCommand
  <2>2. CASE job[t].op = "PRIO"
    BY <1>1, <2>2, DoneRests DEF After, AtCommand
  <2> QED
    BY <1>3, <2>1, <2>2
<1>4. CASE job[t].op = "CLOSE" \/ (job[t].op = "OPEN" /\ job[t].stage = "close")
    BY <1>4, ClosedRests DEF After
<1>5. CASE job[t].op = "OPEN" /\ job[t].stage # "close"
  <2>1. job[t].stage = "first"
    BY <1>1, <1>5 DEF Job, AtCommand
  <2>2. Opened(t, ok)
    BY <1>5, <2>1 DEF After
  <2> QED
    BY <1>1, <1>5, <2>1, <2>2, OpenedRests
<1>6. CASE job[t].op = "QUIT"
  <2>1. job[t].stage = "first"
    BY <1>1, <1>6 DEF Job, AtCommand
  <2> QED
    BY <1>6, <2>1, DoneRests DEF After, Reset
<1> QED
    BY <1>1, <1>2, <1>3, <1>4, <1>5, <1>6 DEF Job, AtCommand

LEMMA UnconnectedRests ==
    ASSUME Typed, NEW t \in Threads, job[t].pc # "idle", Unconnected(t)
    PROVE  Rested(t)
BY ClosedRests, DoneRests DEF Unconnected

(* What comes after a command leaves the data sockets a sequence.          *)
LEMMA ClosedSocks ==
    ASSUME IsSequence(socks), NEW t, NEW ok, Closed(t, ok)
    PROVE  IsSequence(socks')
BY CloseSockSequence DEF Closed

LEMMA AfterSocks ==
    ASSUME Typed, NEW t \in Threads, job[t].pc # "idle", NEW ok, After(t, ok)
    PROVE  IsSequence(socks')
<1>1. job[t] \in Job /\ AtCommand(job[t]) /\ IsSequence(socks)
    BY DEF Typed
<1>2. CASE job[t].op \in {"PROV", "PRIO", "TUNE"}
  <2>1. job[t].op = "TUNE" => job[t].stage \in {"first", "second"}
    BY <1>1 DEF Job, AtCommand
  <2>2. CASE job[t].op = "PROV"
    BY <1>1, <2>2 DEF After, AtCommand
  <2>3. CASE job[t].op = "PRIO"
    BY <1>1, <2>3 DEF After, AtCommand
  <2>4. CASE job[t].op = "TUNE" /\ job[t].stage = "first"
    BY <1>1, <2>4 DEF After
  <2>5. CASE job[t].op = "TUNE" /\ job[t].stage = "second"
    BY <1>1, <2>5 DEF After
  <2> QED
    BY <1>2, <2>1, <2>2, <2>3, <2>4, <2>5
<1>3. CASE job[t].op = "CLOSE" \/ (job[t].op = "OPEN" /\ job[t].stage = "close")
  <2>1. Closed(t, ok)
    BY <1>1, <1>3 DEF After
  <2> QED
    BY <1>1, <2>1, ClosedSocks
<1>4. CASE job[t].op = "OPEN" /\ job[t].stage # "close"
  <2>1. job[t].stage = "first"
    BY <1>1, <1>4 DEF Job, AtCommand
  <2>2. Opened(t, ok)
    BY <1>4, <2>1 DEF After
  <2> QED
    BY <1>1, <2>2, CloseSockSequence DEF Opened
<1>5. CASE job[t].op = "QUIT"
  <2>1. job[t].stage = "first"
    BY <1>1, <1>5 DEF Job, AtCommand
  <2>2. Reset(t)
    BY <1>5, <2>1 DEF After
  <2> QED
    BY <1>1, <2>2, CloseSockSequence DEF Reset
<1>6. job[t].op # "none"
    BY <1>1 DEF AtCommand
<1> QED
    BY <1>1, <1>2, <1>3, <1>4, <1>5, <1>6 DEF Job

LEMMA UnconnectedSocks ==
    ASSUME Typed, NEW t \in Threads, Unconnected(t)
    PROVE  IsSequence(socks')
<1>1. IsSequence(socks)
    BY DEF Typed
<1> QED
    BY <1>1, ClosedSocks DEF Unconnected, clientVars

LEMMA CommandTyped ==
    ASSUME Typed, NEW t \in Threads, job[t].pc # "idle"
    PROVE  Command(t) \in Commands
<1>1. job[t] \in Job /\ AtCommand(job[t])
    BY DEF Typed
<1>2. job[t].ch \in Int /\ job[t].prio \in Int /\ job[t].sock \in Int
    BY <1>1 DEF Job
<1>3. /\ <<"PROV", job[t].ch, job[t].prio>> \in Commands
      /\ <<"ABRT", 0, 0>> \in Commands /\ <<"TUNE", job[t].ch, 0>> \in Commands
      /\ <<"PRIO", job[t].prio, 0>> \in Commands
      /\ <<"PORT", job[t].sock, 0>> \in Commands
      /\ <<"QUIT", 0, 0>> \in Commands
    BY <1>2 DEF Commands, Fixed
<1>4. /\ job[t].op \in {"PROV", "TUNE", "PRIO", "CLOSE", "OPEN", "QUIT"}
      /\ job[t].op = "TUNE" => job[t].stage \in {"first", "second"}
      /\ job[t].op = "OPEN" => job[t].stage \in {"first", "close"}
    BY <1>1 DEF Job, AtCommand
<1> QED
    BY <1>3, <1>4 DEF Command

-----------------------------------------------------------------------------
(* The steps of the client                                                 *)

LEMMA CloseClientTyped ==
    ASSUME NEW cs \in Seq(Connection), NEW c \in 0 .. Len(cs)
    PROVE  CloseClient(cs, c) \in Seq(Connection) /\ Len(CloseClient(cs, c)) = Len(cs)
<1>1. CASE c = 0
    BY <1>1 DEF CloseClient
<1>2. CASE c # 0
  <2>1. c \in 1 .. Len(cs) /\ cs[c] \in Connection
    BY <1>2
  <2>2. [cs[c] EXCEPT !.client = FALSE] \in Connection
    BY <2>1 DEF Connection
  <2>3. CloseClient(cs, c) = [cs EXCEPT ![c] = [cs[c] EXCEPT !.client = FALSE]]
    BY <1>2 DEF CloseClient
  <2> QED
    BY <2>1, <2>2, <2>3
<1> QED
    BY <1>1, <1>2

(* A command put into a connection, and an answer taken from it.           *)
LEMMA PutIn ==
    ASSUME NEW k \in Connection, NEW command \in Commands
    PROVE  LET n == [k EXCEPT !.in = Append(@, command)]
           IN /\ n \in Connection /\ n.in = Append(k.in, command)
              /\ n.out = k.out
<1> DEFINE o == Append(k.in, command)
<1>1. o \in Seq(Commands)
    BY DEF Connection
<1> HIDE DEF o
<1>2. /\ [k EXCEPT !.in = o] \in Connection /\ [k EXCEPT !.in = o].in = o
      /\ [k EXCEPT !.in = o].out = k.out
    BY <1>1 DEF Connection
<1> QED
    BY <1>2 DEF o

LEMMA TakeOut ==
    ASSUME NEW k \in Connection, k.out # <<>>
    PROVE  LET n == [k EXCEPT !.out = Tail(@)]
           IN n \in Connection /\ n.in = k.in /\ n.out = Tail(k.out)
<1> DEFINE o == Tail(k.out)
<1>1. o \in Seq(Reply)
    BY DEF Connection
<1> HIDE DEF o
<1>2. /\ [k EXCEPT !.out = o] \in Connection /\ [k EXCEPT !.out = o].out = o
      /\ [k EXCEPT !.out = o].in = k.in
    BY <1>1 DEF Connection
<1> QED
    BY <1>2 DEF o

LEMMA BeginInv ==
    ASSUME IInv, NEW t \in Threads, NEW ch \in Int, NEW prio \in Int,
           NEW op \in {"PROV", "TUNE", "PRIO", "CLOSE", "OPEN", "QUIT"},
           Begin(t, op, ch, prio)
    PROVE  IInv'
<1> DEFINE stage == IF op = "OPEN" THEN "close" ELSE "first"
           pc == IF op = "QUIT" THEN "send" ELSE "check"
           x == [Idle EXCEPT !.op = op, !.ch = ch, !.prio = prio,
                             !.stage = stage, !.pc = pc]
<1>1. /\ stage \in {"first", "close"} /\ (stage = "close" => op = "OPEN")
      /\ pc \in {"check", "send"}
    OBVIOUS
<1>2. x \in Job /\ AtCommand(x) /\ x.pc \notin Waiting /\ x.pc # "accept"
  <2> HIDE DEF stage, pc
  <2> DEFINE i == Idle
  <2>1. i \in Job
    BY IdleJob
  <2>2. x = [i EXCEPT !.op = op, !.ch = ch, !.prio = prio, !.stage = stage,
                      !.pc = pc]
    OBVIOUS
  <2> HIDE DEF i, x
  <2>3. x = [op |-> op, ch |-> ch, prio |-> prio, stage |-> stage, pc |-> pc,
             sent |-> i.sent, sock |-> i.sock]
    BY <2>1, <2>2 DEF Job
  <2> QED
    BY <1>1, <2>1, <2>3 DEF Job, AtCommand, Waiting
<1>3. /\ job' = [job EXCEPT ![t] = x] /\ job[t] = Idle
      /\ abort' = (abort \/ op = "QUIT")
      /\ UNCHANGED <<cmdLock, cmd, conns, socks, mismatch>>
    BY DEF Begin
<1> HIDE DEF x
<1>4. /\ job' \in [Threads -> Job] /\ job'[t] = x
      /\ \A u \in Threads \ {t} : job'[u] = job[u]
    BY <1>2, <1>3 DEF IInv, Typed
<1>5. Typed'
  <2>1. abort' \in BOOLEAN
    BY <1>3
  <2> QED
    BY <1>2, <1>3, <1>4, <2>1 DEF IInv, Typed
<1>6. ASSUME ~abort'
      PROVE  Locked' /\ LockStep' /\ ~mismatch'
  <2>1. ~abort /\ Locked /\ LockStep /\ ~mismatch
    BY <1>3, <1>6 DEF IInv
  <2>2. job[t].pc \notin Waiting
    BY <1>3, IdleJob
  <2>3. \A u : HasToWait(u)' = HasToWait(u)
    BY <1>2, <1>4, <2>2 DEF HasToWait
  <2>4. \A u : HasToWait(u) => u \in Threads \ {t} /\ job'[u] = job[u]
    BY <1>4, <2>2 DEF HasToWait
  <2>5. Locked'
    <3>1. \A u \in Threads : job'[u].pc = "accept" => job[u].pc = "accept"
      BY <1>2, <1>4
    <3> QED
      BY <1>3, <2>1, <2>3, <3>1 DEF Locked
  <2>6. LockStep'
    BY <1>3, <2>1, <2>3, <2>4 DEF LockStep
  <2> QED
    BY <1>3, <2>1, <2>5, <2>6
<1> QED
    BY <1>5, <1>6 DEF IInv

LEMMA CheckConnectionInv ==
    ASSUME IInv, NEW t \in Threads, CheckConnection(t)
    PROVE  IInv'
<1> DEFINE x == [job[t] EXCEPT !.pc = "send"]
<1>1. Typed /\ job[t] \in Job /\ AtCommand(job[t]) /\ job[t].pc = "check"
    BY DEF IInv, Typed, CheckConnection
<1>2. x \in Job /\ AtCommand(x) /\ x.pc \notin Waiting /\ x.pc # "accept"
    BY <1>1 DEF Job, AtCommand, Waiting
<1>3. /\ job' = [job EXCEPT ![t] = x] /\ cmdLock = Nobody
      /\ UNCHANGED <<cmdLock, cmd, conns, socks, mismatch, abort>>
    BY DEF CheckConnection
<1>4. Rested(t)
    BY <1>2, <1>3 DEF Rested
<1>5. ~abort => ~mismatch' /\ (cmd' # 0 => Quiet(conns'[cmd']))
    BY <1>1, <1>3, QuietBefore DEF IInv, Waiting
<1> QED
    BY <1>1, <1>3, <1>4, <1>5, RestStep DEF Typed

LEMMA ConnectInv ==
    ASSUME IInv, NEW t \in Threads, Connect(t)
    PROVE  IInv'
<1> DEFINE cs == CloseClient(conns, cmd)
<1>1. /\ Typed /\ job[t] \in Job /\ AtCommand(job[t]) /\ job[t].pc = "check"
      /\ cmdLock = Nobody /\ UNCHANGED <<abort, mismatch>>
      /\ conns \in Seq(Connection) /\ cmd \in 0 .. Len(conns)
    BY DEF IInv, Typed, Connect
<1>2. cs \in Seq(Connection) /\ Len(cs) = Len(conns)
    BY <1>1, CloseClientTyped
<1>3. ~abort => ~mismatch'
    BY <1>1 DEF IInv
<1> HIDE DEF cs
<1>4. CASE /\ conns' = Append(cs, Conn) /\ cmd' = Len(conns) + 1 /\ cmdLock' = t
           /\ socks' = socks
           /\ job' = [job EXCEPT ![t].pc = "greet", ![t].sent = <<"HELLO", 0, 0>>]
  <2> DEFINE x == [job[t] EXCEPT !.pc = "greet", !.sent = <<"HELLO", 0, 0>>]
  <2>1. x \in Job /\ AtCommand(x) /\ x.pc \in Waiting /\ x.sent = <<"HELLO", 0, 0>>
    <3>1. <<"HELLO", 0, 0>> \in Commands
      BY DEF Commands, Fixed
    <3> QED
      BY <1>1, <3>1 DEF Job, AtCommand, Waiting
  <2>2. job' = [job EXCEPT ![t] = x]
    BY <1>1, <1>4 DEF Typed
  <2>3. Conn \in Connection
    BY DEF Conn, Connection, Reply, Commands, Fixed, NoStreamer
  <2>4. Exchange(Conn, <<"HELLO", 0, 0>>)
    BY DEF Conn, Exchange
  <2> HIDE DEF x
  <2>5. /\ conns' \in Seq(Connection) /\ cmd' \in 1 .. Len(conns')
        /\ conns'[cmd'] = Conn
    BY SMTT(40), <1>1, <1>2, <1>4, <2>3
  <2> QED
    BY <1>1, <1>3, <1>4, <2>1, <2>2, <2>4, <2>5, WaitStep DEF Typed
<1>5. CASE conns' = cs /\ cmd' = 0 /\ Unconnected(t)
    BY <1>1, <1>2, <1>3, <1>5, UnconnectedRests, UnconnectedSocks, RestStep
       DEF Typed
<1> QED
    BY <1>4, <1>5 DEF Connect, cs, clientVars

LEMMA SendInv ==
    ASSUME IInv, NEW t \in Threads, Send(t)
    PROVE  IInv'
<1>1. /\ Typed /\ job[t] \in Job /\ AtCommand(job[t]) /\ job[t].pc = "send"
      /\ cmdLock \in {t, Nobody} /\ UNCHANGED <<abort, mismatch>>
      /\ conns \in Seq(Connection) /\ cmd \in 0 .. Len(conns)
    BY DEF IInv, Typed, Send
<1>2. /\ ~abort => ~mismatch' /\ (cmd # 0 => Quiet(conns[cmd]))
      /\ mismatch' \in BOOLEAN
    BY <1>1, QuietBefore DEF IInv, Waiting, Typed
<1>3. CASE Closed(t, data # 0) /\ UNCHANGED <<cmd, conns>>
    BY <1>1, <1>2, <1>3, ClosedRests, ClosedSocks, RestStep DEF Typed
<1>4. CASE cmd = 0 /\ After(t, FALSE) /\ UNCHANGED <<cmd, conns>>
    BY <1>1, <1>2, <1>4, AfterRests, AfterSocks, RestStep DEF Typed
<1>5. CASE /\ cmd # 0 /\ cmdLock' = t /\ cmd' = cmd /\ socks' = socks
           /\ conns' = [conns EXCEPT ![cmd].in = Append(@, Command(t))]
           /\ job' = [job EXCEPT ![t].pc = "reply", ![t].sent = Command(t)]
  <2> DEFINE x == [job[t] EXCEPT !.pc = "reply", !.sent = Command(t)]
             k == [conns[cmd] EXCEPT !.in = Append(@, Command(t))]
  <2>1. Command(t) \in Commands
    BY <1>1, CommandTyped
  <2>2. x \in Job /\ AtCommand(x) /\ x.pc \in Waiting /\ x.sent = Command(t)
    BY <1>1, <2>1 DEF Job, AtCommand, Waiting
  <2>3. job' = [job EXCEPT ![t] = x]
    BY <1>1, <1>5 DEF Typed
  <2>4. cmd \in 1 .. Len(conns) /\ conns[cmd] \in Connection
    BY <1>1, <1>5
  <2>5. /\ k \in Connection /\ k.in = Append(conns[cmd].in, Command(t))
        /\ k.out = conns[cmd].out
    BY <2>1, <2>4, PutIn
  <2>6. Quiet(conns[cmd]) => Exchange(k, Command(t))
    BY <2>5 DEF Quiet, Exchange
  <2>7. conns' = [conns EXCEPT ![cmd] = k]
    BY <1>5
  <2> HIDE DEF x, k
  <2>8. conns' \in Seq(Connection) /\ Len(conns') = Len(conns) /\ conns'[cmd] = k
    BY <1>1, <2>4, <2>5, <2>7
  <2> QED
    BY <1>1, <1>2, <1>5, <2>2, <2>3, <2>4, <2>6, <2>8, WaitStep DEF Typed
<1>6. CASE /\ job' = [job EXCEPT ![t].sock = Len(socks) + 1]
           /\ socks' = Append(CloseSock(socks, data), Sock(cmd))
           /\ UNCHANGED <<cmdLock, cmd, conns>>
  <2> DEFINE j == job[t]
             n == Len(socks) + 1
             x == [j EXCEPT !.sock = n]
  <2>1. IsSequence(socks') /\ n \in Int
    BY <1>1, <1>6, AppendSequence, CloseSockSequence DEF Typed
  <2>2. job' = [job EXCEPT ![t] = x]
    BY <1>1, <1>6 DEF Typed
  <2>3. j \in Job /\ AtCommand(j) /\ j.pc = "send"
    BY <1>1
  <2> HIDE DEF j, n
  <2>4. x = [op |-> j.op, ch |-> j.ch, prio |-> j.prio, stage |-> j.stage,
             pc |-> j.pc, sent |-> j.sent, sock |-> n]
    BY <2>3 DEF Job
  <2> HIDE DEF x
  <2>5. x \in Job /\ AtCommand(x) /\ x.pc \notin Waiting /\ x.pc # "accept"
    BY <2>1, <2>3, <2>4 DEF Job, AtCommand, Waiting
  <2>6. Rested(t)
    BY <1>1, <1>6, <2>2, <2>5 DEF Rested
  <2> QED
    BY <1>1, <1>2, <1>6, <2>1, <2>6, RestStep
<1> QED
    BY <1>3, <1>4, <1>5, <1>6 DEF Send, clientVars

LEMMA AnswerInv ==
    ASSUME IInv, NEW t \in Threads, Answer(t)
    PROVE  IInv'
<1> DEFINE k == conns[cmd]
           r == Head(k.out)
           m == [k EXCEPT !.out = Tail(@)]
           read == [conns EXCEPT ![cmd].out = Tail(@)]
           vers == <<"VERS", 0, 0>>
<1>1. /\ Typed /\ job[t] \in Job /\ AtCommand(job[t]) /\ job[t].pc \in Waiting
      /\ job \in [Threads -> Job] /\ IsSequence(socks)
      /\ cmd # 0 /\ cmd \in 1 .. Len(conns) /\ conns \in Seq(Connection)
      /\ k \in Connection /\ k.out # <<>> /\ UNCHANGED abort
    BY DEF IInv, Typed, Answer, Waiting
<1>2. ~abort => cmdLock = t /\ Exchange(k, job[t].sent) /\ ~mismatch
    BY <1>1 DEF IInv, Locked, LockStep, HasToWait
<1>3. ASSUME ~abort
      PROVE  k.in = <<>> /\ Tail(k.out) = <<>> /\ r.of = job[t].sent
  <2> DEFINE sent == job[t].sent
  <2>1. Exchange(k, sent)
    BY <1>2, <1>3
  <2> HIDE DEF k, sent
  <2>2. k.in = <<>> /\ \E code \in Nat : k.out = <<[of |-> sent, code |-> code]>>
    BY <1>1, <2>1 DEF Exchange
  <2>3. PICK code \in Nat : k.out = <<[of |-> sent, code |-> code]>>
    BY <2>2
  <2>4. Head(k.out) = [of |-> sent, code |-> code] /\ Tail(k.out) = <<>>
    BY <2>3
  <2> QED
    BY <2>2, <2>4 DEF sent
<1>4. m \in Connection /\ m.in = k.in /\ m.out = Tail(k.out)
    BY <1>1, TakeOut
<1>5. /\ read = [conns EXCEPT ![cmd] = m] /\ read \in Seq(Connection)
      /\ Len(read) = Len(conns) /\ read[cmd] = m
  <2>1. read = [conns EXCEPT ![cmd] = m]
    BY SMTT(40)
  <2> HIDE DEF m, read
  <2> QED
    BY <1>1, <1>4, <2>1
<1>6. mismatch' \in BOOLEAN
    BY SMTT(40) DEF Answer
<1>7. ~abort => ~mismatch'
    BY <1>2, <1>3 DEF Answer
<1> HIDE DEF k, m, read
<1>8. ~abort => Quiet(m)
    BY <1>3, <1>4 DEF Quiet
<1>9. CASE /\ conns' = [read EXCEPT ![cmd].in = Append(@, vers)]
           /\ job' = [job EXCEPT ![t].pc = "vers", ![t].sent = vers]
           /\ UNCHANGED <<cmdLock, cmd, socks>>
  <2> DEFINE x == [job[t] EXCEPT !.pc = "vers", !.sent = vers]
             n == [m EXCEPT !.in = Append(@, vers)]
  <2>1. vers \in Commands
    BY DEF Commands, Fixed
  <2>2. x \in Job /\ AtCommand(x) /\ x.pc \in Waiting /\ x.sent = vers
    <3> HIDE DEF vers
    <3> QED
      BY <1>1, <2>1 DEF Job, AtCommand, Waiting
  <2>3. job' = [job EXCEPT ![t] = x]
    BY <1>1, <1>9
  <2>4. n \in Connection /\ n.in = Append(m.in, vers) /\ n.out = m.out
    BY <1>4, <2>1, PutIn
  <2>5. Quiet(m) => Exchange(n, vers)
    BY <2>4 DEF Quiet, Exchange
  <2>6. conns' = [read EXCEPT ![cmd] = n]
    BY <1>5, <1>9
  <2>7. cmdLock' = cmdLock /\ cmd' = cmd /\ socks' = socks
    BY <1>9
  <2> HIDE DEF x, n, vers
  <2>8. conns' \in Seq(Connection) /\ Len(conns') = Len(conns) /\ conns'[cmd] = n
    BY <1>1, <1>5, <2>4, <2>6
  <2>9. ~abort => cmdLock' = t
    BY <1>2, <2>7
  <2>10. cmdLock' \in Threads \cup {Nobody}
    BY <1>1, <2>7 DEF Typed
  <2> QED
    BY <1>1, <1>2, <1>6, <1>7, <1>8, <2>2, <2>3, <2>5, <2>7, <2>8, <2>9, <2>10,
       WaitStep
<1>10. CASE /\ conns' = read /\ cmd' = cmd /\ socks' = socks /\ cmdLock' = Nobody
            /\ job' = [job EXCEPT ![t].pc = "send"]
  <2> DEFINE x == [job[t] EXCEPT !.pc = "send"]
  <2>1. x \in Job /\ AtCommand(x) /\ x.pc \notin Waiting /\ x.pc # "accept"
    BY <1>1 DEF Job, AtCommand, Waiting
  <2>2. job' = [job EXCEPT ![t] = x]
    BY <1>1, <1>10
  <2>3. Rested(t)
    BY <1>10, <2>1, <2>2 DEF Rested
  <2> QED
    BY <1>1, <1>2, <1>5, <1>6, <1>7, <1>8, <1>10, <2>3, RestStep
<1>11. CASE Drop(FALSE) /\ Unconnected(t)
  <2>1. cmd' = 0 /\ conns' \in Seq(Connection)
    BY <1>1, <1>11, CloseClientTyped DEF Drop
  <2>2. Rested(t) /\ IsSequence(socks')
    BY <1>1, <1>11, UnconnectedRests, UnconnectedSocks DEF Waiting
  <2> QED
    BY <1>1, <1>2, <1>6, <1>7, <2>1, <2>2, RestStep
<1>12. CASE /\ \E ok \in BOOLEAN : After(t, ok)
            /\ Drop(FALSE) \/ (conns' = read /\ cmd' = cmd)
  <2>1. Rested(t) /\ IsSequence(socks')
    BY <1>1, <1>12, AfterRests, AfterSocks DEF Waiting
  <2>2. CASE Drop(FALSE)
    <3>1. cmd' = 0 /\ conns' \in Seq(Connection)
      BY <1>1, <2>2, CloseClientTyped DEF Drop
    <3> QED
      BY <1>1, <1>2, <1>6, <1>7, <2>1, <3>1, RestStep
  <2>3. CASE conns' = read /\ cmd' = cmd
    BY <1>1, <1>2, <1>5, <1>6, <1>7, <1>8, <2>1, <2>3, RestStep
  <2> QED
    BY <1>12, <2>2, <2>3
<1> QED
    BY ZenonT(40), <1>9, <1>10, <1>11, <1>12 DEF Answer, clientVars, read

LEMMA FailsInv ==
    ASSUME IInv, NEW t \in Threads, Waits(t), Fails(t)
    PROVE  IInv'
<1>1. /\ Typed /\ job[t].pc \in Waiting /\ cmd # 0 /\ cmd \in 1 .. Len(conns)
      /\ conns \in Seq(Connection) /\ UNCHANGED <<abort, mismatch>>
      /\ mismatch' \in BOOLEAN
    BY DEF IInv, Typed, Waits, Fails, Waiting
<1>2. ~abort => cmdLock = t /\ ~mismatch'
    BY <1>1 DEF IInv, Locked, HasToWait
<1>3. Rested(t) /\ IsSequence(socks')
    BY <1>1, AfterRests, AfterSocks, UnconnectedRests, UnconnectedSocks
       DEF Fails, Waiting
<1>4. \E keep \in BOOLEAN : Drop(keep) /\ (keep => abort)
  <2>1. CASE job[t].pc = "reply"
    BY <2>1 DEF Fails
  <2>2. CASE job[t].pc # "reply"
    BY <2>2 DEF Fails
  <2> QED
    BY <2>1, <2>2
<1>5. CASE Drop(FALSE)
  <2>1. cmd' = 0 /\ conns' \in Seq(Connection)
    BY <1>1, <1>5, CloseClientTyped DEF Drop
  <2> QED
    BY <1>1, <1>2, <1>3, <2>1, RestStep
<1>6. CASE Drop(TRUE) /\ abort
  <2>1. cmd' = cmd /\ conns' = conns
    BY <1>6 DEF Drop
  <2> QED
    BY <1>1, <1>3, <1>6, <2>1, RestStep
<1> QED
    BY <1>4, <1>5, <1>6

LEMMA AcceptInv ==
    ASSUME IInv, NEW t \in Threads, Accept(t)
    PROVE  IInv'
<1>1. /\ Typed /\ job[t].pc = "accept" /\ Done(t) /\ conns \in Seq(Connection)
      /\ cmd \in 0 .. Len(conns) /\ mismatch \in BOOLEAN
      /\ UNCHANGED <<cmd, conns, mismatch, abort>>
    BY DEF IInv, Typed, Accept
<1>2. ~abort => cmdLock = t /\ ~mismatch /\ (cmd # 0 => Quiet(conns[cmd]))
  <2>1. job[t].pc \notin Waiting
    BY <1>1 DEF Waiting
  <2> QED
    BY <1>1, <2>1, QuietBefore DEF IInv, Locked
<1>3. IsSequence(socks')
  <2> DEFINE s == job[t].sock
             r == [socks EXCEPT ![s] = [socks[s] EXCEPT !.listen = FALSE]]
             q == [r EXCEPT ![s] = [r[s] EXCEPT !.client = TRUE]]
  <2>1. socks' = [socks EXCEPT ![s].listen = FALSE, ![s].client = TRUE]
    BY DEF Accept
  <2>2. IsSequence(r)
    BY <1>1, ExceptSequence DEF Typed
  <2>3. IsSequence(q)
    <3> HIDE DEF r
    <3> QED
      BY <2>2, ExceptSequence
  <2>4. socks' = q
    BY <2>1
  <2> HIDE DEF q
  <2> QED
    BY <2>3, <2>4
<1> QED
    BY <1>1, <1>2, <1>3, DoneRests, RestStep

-----------------------------------------------------------------------------
(* The steps of the server                                                 *)

(* A connection that becomes k: what was quiet stays so, and an exchange   *)
(* comes no further than to its answer.                                    *)
LEMMA ServerStep ==
    ASSUME IInv, NEW c \in DOMAIN conns, NEW k \in Connection,
           conns' = [conns EXCEPT ![c] = k], UNCHANGED noClient,
           IsSequence(socks'), Quiet(conns[c]) => Quiet(k),
           \A sent \in Commands : Exchange(conns[c], sent) => Exchange(k, sent)
    PROVE  IInv'
<1>1. /\ Typed /\ conns \in Seq(Connection) /\ cmd \in 0 .. Len(conns)
      /\ job \in [Threads -> Job] /\ c \in 1 .. Len(conns)
      /\ UNCHANGED <<job, cmdLock, cmd, abort, mismatch>>
    BY DEF IInv, Typed, noClient
<1>2. /\ conns' \in Seq(Connection) /\ Len(conns') = Len(conns)
      /\ conns'[c] = k /\ \A d \in DOMAIN conns \ {c} : conns'[d] = conns[d]
    BY <1>1
<1>3. Typed'
    BY <1>1, <1>2 DEF Typed
<1>4. ASSUME ~abort
      PROVE  Locked' /\ LockStep' /\ ~mismatch'
  <2>1. Locked /\ LockStep /\ ~mismatch
    BY <1>4 DEF IInv
  <2>2. \A t : HasToWait(t)' = HasToWait(t)
    BY <1>1 DEF HasToWait
  <2>3. Locked' /\ ~mismatch'
    BY <1>1, <2>1, <2>2 DEF Locked
  <2>4. ASSUME cmd # 0, HasToWait(cmdLock)
        PROVE  Exchange(conns'[cmd], job[cmdLock].sent)
    <3>1. job[cmdLock].sent \in Commands
      BY <1>1, <2>4 DEF HasToWait, Job
    <3>2. Exchange(conns[cmd], job[cmdLock].sent)
      BY <2>1, <2>4 DEF LockStep
    <3> QED
      BY <1>1, <1>2, <2>4, <3>1, <3>2
  <2>5. ASSUME cmd # 0, ~HasToWait(cmdLock)
        PROVE  Quiet(conns'[cmd])
    <3>1. Quiet(conns[cmd])
      BY <2>1, <2>5 DEF LockStep
    <3> QED
      BY <1>1, <1>2, <2>5, <3>1
  <2>6. LockStep'
    BY <1>1, <2>2, <2>4, <2>5 DEF LockStep
  <2> QED
    BY <2>3, <2>6
<1> QED
    BY <1>1, <1>3, <1>4 DEF IInv

(* An answer to the command in hand, and the connection k otherwise.       *)
LEMMA RespondInv ==
    ASSUME IInv, NEW c \in DOMAIN conns, conns[c].in # <<>>,
           NEW code \in Nat, NEW k \in Connection, k.in = conns[c].in,
           k.out = conns[c].out, Respond(c, code, k), UNCHANGED noClient,
           IsSequence(socks')
    PROVE  IInv'
<1> DEFINE reply == [of |-> Head(k.in), code |-> code]
           in == Tail(k.in)
           out == Append(k.out, reply)
           n == [k EXCEPT !.in = in, !.out = out]
<1>1. k.in \in Seq(Commands) /\ k.out \in Seq(Reply) /\ k.in # <<>>
    BY DEF Connection
<1>2. in \in Seq(Commands) /\ out \in Seq(Reply)
  <2>1. Head(k.in) \in Commands
    BY <1>1
  <2>2. reply \in Reply
    BY <2>1 DEF Reply
  <2> HIDE DEF reply
  <2> QED
    BY <1>1, <2>2
<1>3. conns' = [conns EXCEPT ![c] = n]
    BY DEF Respond
<1>4. n \in Connection /\ n.in = in /\ n.out = out
  <2> HIDE DEF in, out
  <2> QED
    BY <1>2 DEF Connection
<1> HIDE DEF n
<1>5. Quiet(conns[c]) => Quiet(n)
    BY DEF Quiet
<1>6. ASSUME NEW sent \in Commands, Exchange(conns[c], sent)
      PROVE  Exchange(n, sent)
  <2>1. k.in = <<sent>> /\ k.out = <<>>
    BY <1>1, <1>6 DEF Exchange
  <2>2. in = <<>> /\ out = <<[of |-> sent, code |-> code]>>
    BY <2>1
  <2> HIDE DEF in, out
  <2> QED
    BY <1>4, <2>2 DEF Exchange
<1> QED
    BY <1>3, <1>4, <1>5, <1>6, ServerStep

LEMMA ArgInt ==
    ASSUME NEW c, conns[c] \in Connection, conns[c].in # <<>>
    PROVE  Arg(c, 1) \in Int /\ Arg(c, 2) \in Int
<1> DEFINE h == Head(conns[c].in)
<1>1. h \in Commands
    BY DEF Connection
<1> HIDE DEF h
<1>2. h[2] \in Int /\ h[3] \in Int
  <2>1. CASE h \in Fixed
    BY <2>1 DEF Fixed
  <2>2. CASE h \in {"PROV", "TUNE", "PRIO", "ABRT", "PORT"} \X Int \X Int
    BY <2>2
  <2> QED
    BY <1>1, <2>1, <2>2 DEF Commands
<1> QED
    BY <1>2 DEF Arg, h

(* The destructor of a connection; its answers on the way may arrive.      *)
LEMMA GoneTyped ==
    ASSUME NEW k \in Connection, NEW o \in Seq(Reply)
    PROVE  LET n == [Gone(k) EXCEPT !.out = o]
           IN /\ n \in Connection /\ n.in = <<>> /\ n.out = o
              /\ n.live = 0 /\ ~n.server
<1> DEFINE zero == 0
           q1 == [k EXCEPT !.server = FALSE]
           q2 == [q1 EXCEPT !.in = <<>>]
           q3 == [q2 EXCEPT !.streamer = NoStreamer]
           q4 == [q3 EXCEPT !.live = zero]
           q5 == [q4 EXCEPT !.running = FALSE]
           q6 == [q5 EXCEPT !.tune = zero]
           q7 == [q6 EXCEPT !.prio = zero]
           q8 == [q7 EXCEPT !.out = o]
<1>0. /\ NoStreamer \in [ch : Int, prio : Int] /\ <<>> \in Seq(Commands)
      /\ zero \in Int
    BY DEF NoStreamer
<1>10. [Gone(k) EXCEPT !.out = o] = q8
    BY DEF Gone
<1> HIDE DEF zero
<1>1. q1 \in Connection /\ ~q1.server
    BY DEF Connection
<1> HIDE DEF q1
<1>2. q2 \in Connection /\ q2.in = <<>> /\ ~q2.server
    BY <1>0, <1>1 DEF Connection
<1> HIDE DEF q2
<1>3. q3 \in Connection /\ q3.in = <<>> /\ ~q3.server
    BY <1>0, <1>2 DEF Connection
<1> HIDE DEF q3
<1>4. q4 \in Connection /\ q4.in = <<>> /\ ~q4.server /\ q4.live = zero
    BY <1>0, <1>3 DEF Connection
<1> HIDE DEF q4
<1>5. q5 \in Connection /\ q5.in = <<>> /\ ~q5.server /\ q5.live = zero
    BY <1>0, <1>4 DEF Connection
<1> HIDE DEF q5
<1>6. q6 \in Connection /\ q6.in = <<>> /\ ~q6.server /\ q6.live = zero
    BY <1>0, <1>5 DEF Connection
<1> HIDE DEF q6
<1>7. q7 \in Connection /\ q7.in = <<>> /\ ~q7.server /\ q7.live = zero
    BY <1>0, <1>6 DEF Connection
<1> HIDE DEF q7
<1>8. q8 \in Connection /\ q8.in = <<>> /\ q8.out = o
      /\ ~q8.server /\ q8.live = zero
    BY <1>0, <1>7 DEF Connection
<1> HIDE DEF q8
<1> QED
    BY <1>8, <1>10 DEF zero

LEMMA ServeInv ==
    ASSUME IInv, NEW c \in DOMAIN conns, Serve(c)
    PROVE  IInv'
<1> DEFINE k == conns[c]
<1>1. /\ k \in Connection /\ k.in # <<>> /\ IsSequence(socks)
      /\ UNCHANGED noClient
    BY DEF IInv, Typed, Serve, CmdVERS, CmdPROV, CmdTUNE, CmdPORT, CmdABRT,
           CmdPRIO, CmdQUIT, Asked
<1>2. Arg(c, 1) \in Int /\ Arg(c, 2) \in Int
    BY <1>1, ArgInt
<1>3. ASSUME NEW code \in Nat, NEW n \in Connection, n.in = k.in, n.out = k.out,
             Respond(c, code, n), IsSequence(socks')
      PROVE  IInv'
    BY <1>1, <1>3, RespondInv
<1>4. ASSUME NEW n \in Connection, n.in = k.in, n.out = k.out
      PROVE  /\ Start(n) \in Connection /\ Start(n).in = k.in
             /\ Start(n).out = k.out
  <2> DEFINE b == n.live # 0 /\ n.streamer # NoStreamer
  <2>1. b \in BOOLEAN
    OBVIOUS
  <2> HIDE DEF b
  <2>2. /\ [n EXCEPT !.running = b] \in Connection
        /\ [n EXCEPT !.running = b].in = k.in
        /\ [n EXCEPT !.running = b].out = k.out
    BY <1>4, <2>1 DEF Connection
  <2> QED
    BY <2>2 DEF Start, b
<1> DEFINE a == Arg(c, 1)
           b == Arg(c, 2)
<1>args. a \in Int /\ b \in Int
    BY <1>2
<1> HIDE DEF k, a, b
<1>5. CASE CmdVERS(c)
    BY <1>1, <1>3, <1>5 DEF CmdVERS, k
<1>6. CASE CmdPROV(c)
  <2> DEFINE n == [k EXCEPT !.tune = a, !.prio = b]
             m == [k EXCEPT !.tune = 0]
  <2>1. n \in Connection /\ n.in = k.in /\ n.out = k.out
    <3> DEFINE q == [k EXCEPT !.tune = a]
    <3>1. q \in Connection /\ q.in = k.in /\ q.out = k.out
      BY <1>1, <1>args DEF Connection
    <3>2. n = [q EXCEPT !.prio = b]
      OBVIOUS
    <3> HIDE DEF q, n
    <3> QED
      BY <1>args, <3>1, <3>2 DEF Connection
  <2>3. m \in Connection /\ m.in = k.in /\ m.out = k.out
    BY SMTT(40), <1>1 DEF Connection
  <2>2. (Respond(c, 220, n) \/ Respond(c, 560, m)) /\ socks' = socks
    BY <1>6 DEF CmdPROV, k, a, b
  <2> HIDE DEF n, m
  <2> QED
    BY <1>1, <1>3, <2>1, <2>2, <2>3
<1>7. CASE CmdTUNE(c)
  <2> DEFINE prio == IF a = k.tune THEN k.prio ELSE 0
             n == [k EXCEPT !.streamer = [ch |-> a, prio |-> prio]]
  <2>1. prio \in Int
    BY <1>1 DEF Connection
  <2>2. n \in Connection /\ n.in = k.in /\ n.out = k.out
    <3>1. [ch |-> a, prio |-> prio] \in [ch : Int, prio : Int]
      BY <1>2, <2>1 DEF a
    <3> DEFINE st == [ch |-> a, prio |-> prio]
    <3> HIDE DEF st
    <3>2. /\ [k EXCEPT !.streamer = st] \in Connection
          /\ [k EXCEPT !.streamer = st].in = k.in
          /\ [k EXCEPT !.streamer = st].out = k.out
      BY <1>1, <3>1 DEF Connection, st
    <3> QED
      BY <3>2 DEF st
  <2>3. \/ Respond(c, 560, k) /\ socks' = socks
        \/ Respond(c, 220, Start(n)) /\ socks' = Streamed(socks, n)
    BY <1>7 DEF CmdTUNE, k, a
  <2> HIDE DEF n
  <2>4. CASE Respond(c, 560, k) /\ socks' = socks
    BY <1>1, <1>3, <2>4
  <2>5. CASE Respond(c, 220, Start(n)) /\ socks' = Streamed(socks, n)
    BY <1>1, <1>3, <1>4, <2>2, <2>5, StreamedSequence
  <2> QED
    BY <2>3, <2>4, <2>5
<1>8. CASE CmdPORT(c)
  <2> DEFINE live == IF socks[a].listen THEN a ELSE 0
             n == [k EXCEPT !.live = live, !.running = FALSE]
             ss == CloseServer(socks, k.live)
             st == [ss EXCEPT ![a].came = TRUE, ![a].server = TRUE]
  <2>1. live \in Int
    BY <1>2 DEF a
  <2>2. IF n.live = 0 THEN Respond(c, 551, n) /\ socks' = ss
        ELSE Respond(c, 220, Start(n)) /\ socks' = Streamed(st, n)
    BY <1>8 DEF CmdPORT, k, a
  <2>3. n \in Connection /\ n.in = k.in /\ n.out = k.out
    <3> HIDE DEF live
    <3> QED
      BY <1>1, <2>1 DEF Connection
  <2>4. IsSequence(ss)
    BY <1>1, CloseServerSequence
  <2>5. IsSequence(st)
    <3> DEFINE r == [ss EXCEPT ![a] = [ss[a] EXCEPT !.came = TRUE]]
               q == [r EXCEPT ![a] = [r[a] EXCEPT !.server = TRUE]]
    <3> HIDE DEF ss
    <3>1. IsSequence(r)
      BY <2>4, ExceptSequence
    <3>2. IsSequence(q)
      <4> HIDE DEF r
      <4> QED
        BY <3>1, ExceptSequence
    <3>3. st = q
      OBVIOUS
    <3> HIDE DEF q, st
    <3> QED
      BY <3>2, <3>3
  <2> HIDE DEF n, ss, st
  <2>6. CASE n.live = 0
    BY <1>1, <1>3, <2>2, <2>3, <2>4, <2>6
  <2>7. CASE n.live # 0
    BY <1>1, <1>3, <1>4, <2>2, <2>3, <2>5, <2>7, StreamedSequence
  <2> QED
    BY <2>6, <2>7
<1>9. CASE CmdABRT(c)
  <2> DEFINE q == [k EXCEPT !.running = FALSE]
             n == [k EXCEPT !.running = FALSE, !.live = 0]
  <2>1. n \in Connection /\ n.in = k.in /\ n.out = k.out
    <3>1. q \in Connection /\ q.in = k.in /\ q.out = k.out
      BY <1>1 DEF Connection
    <3>2. n = [q EXCEPT !.live = 0]
      OBVIOUS
    <3> HIDE DEF q, n
    <3> QED
      BY SMTT(40), <3>1, <3>2 DEF Connection
  <2>2. Respond(c, 220, n) /\ socks' = CloseServer(socks, k.live)
    BY <1>9 DEF CmdABRT, k
  <2> HIDE DEF n
  <2> QED
    BY <1>1, <1>3, <2>1, <2>2, CloseServerSequence
<1>10. CASE CmdPRIO(c)
  <2> DEFINE n == [k EXCEPT !.streamer.prio = a]
  <2>1. n \in Connection /\ n.in = k.in /\ n.out = k.out
    <3> DEFINE st == [k.streamer EXCEPT !.prio = a]
    <3>1. st \in [ch : Int, prio : Int]
      BY <1>1, <1>2 DEF Connection, a
    <3> HIDE DEF st
    <3>2. /\ [k EXCEPT !.streamer = st] \in Connection
          /\ [k EXCEPT !.streamer = st].in = k.in
          /\ [k EXCEPT !.streamer = st].out = k.out
      BY <1>1, <3>1 DEF Connection
    <3> QED
      BY <3>2 DEF st
  <2>2. (Respond(c, 550, k) \/ Respond(c, 220, n)) /\ socks' = socks
    BY <1>10 DEF CmdPRIO, k, a
  <2> HIDE DEF n
  <2> QED
    BY <1>1, <1>3, <2>1, <2>2
<1>11. CASE CmdQUIT(c)
  <2> DEFINE h == Head(k.in)
             quit == <<"QUIT", 0, 0>>
             reply == [of |-> quit, code |-> 221]
             o == Append(k.out, reply)
             n == [Gone(k) EXCEPT !.out = o]
  <2>1. h = quit
    <3>1. h \in Commands /\ h[1] = "QUIT"
      BY <1>1, <1>11 DEF CmdQUIT, Asked, Connection, k
    <3> HIDE DEF h
    <3>2. h \notin {"PROV", "TUNE", "PRIO", "ABRT", "PORT"} \X Int \X Int
      BY <3>1
    <3> QED
      BY <3>1, <3>2 DEF Commands, Fixed
  <2>2. o \in Seq(Reply)
    <3>1. reply \in Reply
      BY DEF Reply, Commands, Fixed
    <3> HIDE DEF reply
    <3> QED
      BY <1>1, <3>1 DEF Connection
  <2>3. conns' = [conns EXCEPT ![c] = n]
    <3>1. Gone(k).out = k.out
      BY <1>1 DEF Gone, Connection
    <3>2. conns' = [conns EXCEPT ![c] =
                      [Gone(k) EXCEPT !.out = Append(Gone(k).out, reply)]]
      <4> HIDE DEF n
      <4>1. conns' = [conns EXCEPT ![c] =
              [Gone(conns[c]) EXCEPT !.out = Append(Gone(conns[c]).out, reply)]]
        BY <1>11 DEF CmdQUIT
      <4> QED
        BY <4>1 DEF k
    <3> QED
      BY <3>1, <3>2
  <2>4. IsSequence(socks')
    BY <1>1, <1>11, CloseServerSequence DEF CmdQUIT, k
  <2> HIDE DEF o
  <2>5. n \in Connection /\ n.in = <<>> /\ n.out = o
    BY <1>1, <2>2, GoneTyped
  <2> HIDE DEF n, h, quit, reply
  <2>6. Quiet(conns[c]) => Quiet(n)
    BY <1>1 DEF Quiet, k
  <2>7. ASSUME NEW sent \in Commands, Exchange(conns[c], sent)
        PROVE  Exchange(n, sent)
    <3>1. k.in = <<sent>> /\ k.out = <<>>
      BY <1>1, <2>7 DEF Exchange, k
    <3>2. sent = quit
      BY <2>1, <3>1 DEF h
    <3>3. o = <<[of |-> sent, code |-> 221]>>
      BY <3>1, <3>2 DEF o, reply
    <3> QED
      BY SMTT(40), <2>5, <3>3 DEF Exchange
  <2> QED
    BY <1>1, <2>3, <2>4, <2>5, <2>6, <2>7, ServerStep
<1> QED
    BY <1>5, <1>6, <1>7, <1>8, <1>9, <1>10, <1>11 DEF Serve

LEMMA LeaveInv ==
    ASSUME IInv, NEW c \in DOMAIN conns, Leave(c)
    PROVE  IInv'
<1> DEFINE k == conns[c]
           o == k.out
           n == [Gone(k) EXCEPT !.out = o]
<1>1. k \in Connection /\ IsSequence(socks) /\ UNCHANGED noClient
    BY DEF IInv, Typed, Leave
<1>2. o \in Seq(Reply)
    BY <1>1 DEF Connection
<1>3. n = Gone(k)
    BY <1>1 DEF Connection, Gone
<1>4. conns' = [conns EXCEPT ![c] = n] /\ IsSequence(socks')
    BY <1>1, <1>3, CloseServerSequence DEF Leave
<1>5. n \in Connection /\ n.in = <<>> /\ n.out = k.out
    BY <1>1, <1>2, GoneTyped
<1> HIDE DEF n
<1>6. /\ Quiet(conns[c]) => Quiet(n)
      /\ \A sent \in Commands : Exchange(conns[c], sent) => Exchange(n, sent)
    BY <1>5 DEF Quiet, Exchange
<1> QED
    BY <1>1, <1>4, <1>5, <1>6, ServerStep

(* All connections at once, and every answer on the way is lost.           *)
LEMMA RestartInv ==
    ASSUME IInv, Restart
    PROVE  IInv'
<1>1. /\ Typed /\ conns \in Seq(Connection) /\ cmd \in 0 .. Len(conns)
      /\ UNCHANGED <<job, cmdLock, cmd, abort, mismatch>>
      /\ DOMAIN conns = 1 .. Len(conns) /\ Len(conns) \in Nat
    BY DEF IInv, Typed, Restart, noClient
<1>2. ASSUME NEW c \in DOMAIN conns
      PROVE  /\ conns'[c] \in Connection
             /\ conns'[c] = conns[c] \/ Quiet(conns'[c])
  <2>1. conns[c] \in Connection
    BY <1>1
  <2>2. [Gone(conns[c]) EXCEPT !.out = <<>>] \in Connection
        /\ Quiet([Gone(conns[c]) EXCEPT !.out = <<>>])
    <3>1. <<>> \in Seq(Reply)
      OBVIOUS
    <3> QED
      BY <2>1, <3>1, GoneTyped DEF Quiet
  <2>3. \/ conns'[c] = conns[c]
        \/ conns'[c] = [Gone(conns[c]) EXCEPT !.out = <<>>]
    BY DEF Restart
  <2> QED
    BY <2>1, <2>2, <2>3
<1>3. conns' \in Seq(Connection) /\ Len(conns') = Len(conns)
  <2>1. conns' \in [1 .. Len(conns) -> Connection]
    BY <1>1, <1>2 DEF Restart
  <2>2. conns' \in Seq(Connection)
    BY <1>1, <2>1, OneToN
  <2> QED
    BY <1>1, <2>1, <2>2
<1>4. IsSequence(socks')
  <2>1. PICK S : socks \in Seq(S)
    BY <1>1 DEF Typed, IsSequence
  <2>2. DOMAIN socks = 1 .. Len(socks) /\ Len(socks) \in Nat
    BY <2>1
  <2>3. socks' = [s \in DOMAIN socks |-> [socks[s] EXCEPT !.server = FALSE]]
    BY DEF Restart
  <2> DEFINE T == {socks'[s] : s \in 1 .. Len(socks)}
  <2>4. socks' \in [1 .. Len(socks) -> T]
    BY <2>2, <2>3
  <2> HIDE DEF T
  <2>5. socks' \in Seq(T)
    BY <2>2, <2>4, OneToN
  <2> QED
    BY <2>5 DEF IsSequence
<1>5. Typed'
    BY <1>1, <1>3, <1>4 DEF Typed
<1>6. ASSUME ~abort
      PROVE  Locked' /\ LockStep' /\ ~mismatch'
  <2>1. Locked /\ LockStep /\ ~mismatch
    BY <1>6 DEF IInv
  <2>2. \A t : HasToWait(t)' = HasToWait(t)
    BY <1>1 DEF HasToWait
  <2>3. Locked' /\ ~mismatch'
    BY <1>1, <2>1, <2>2 DEF Locked
  <2>4. \A k, sent : Quiet(k) => Exchange(k, sent)
    BY DEF Quiet, Exchange
  <2>5. cmd # 0 => conns'[cmd] = conns[cmd] \/ Quiet(conns'[cmd])
    BY <1>1, <1>2
  <2>6. LockStep'
    BY <1>1, <2>1, <2>2, <2>4, <2>5 DEF LockStep
  <2> QED
    BY <2>3, <2>6
<1> QED
    BY <1>1, <1>5, <1>6 DEF IInv

-----------------------------------------------------------------------------
(* The theorem                                                             *)

LEMMA InitInv == Init => IInv
<1> SUFFICES ASSUME Init PROVE IInv
    OBVIOUS
<1>1. /\ job \in [Threads -> Job] /\ \A t \in Threads : AtCommand(job[t])
      /\ \A t \in Threads : job[t].pc \notin Waiting \cup {"accept"}
    BY IdleJob DEF Init
<1>2. /\ conns = <<>> /\ socks = <<>> /\ cmd = 0 /\ cmdLock = Nobody
      /\ mismatch = FALSE /\ abort = FALSE
    BY DEF Init
<1>3. conns \in Seq(Connection) /\ IsSequence(socks) /\ cmd \in 0 .. Len(conns)
  <2>1. conns \in Seq(Connection) /\ Len(conns) = 0 /\ socks \in Seq({})
    BY <1>2
  <2> QED
    BY <1>2, <2>1 DEF IsSequence
<1>4. Typed
    BY <1>1, <1>2, <1>3 DEF Typed
<1>5. \A t \in Threads : ~HasToWait(t) /\ job[t].pc # "accept"
    BY <1>1 DEF HasToWait
<1> QED
    BY <1>2, <1>4, <1>5 DEF IInv, Locked, LockStep

LEMMA NextInv == IInv /\ [Next]_vars => IInv'
<1> SUFFICES ASSUME IInv, [Next]_vars PROVE IInv'
    OBVIOUS
<1>1. CASE \E t \in Threads : Call(t)
  <2>1. PICK t \in Threads : Call(t)
    BY <1>1
  <2>2. Channels \subseteq Int /\ Priorities \subseteq Int
    BY SessionAssumption
  <2>3. CASE ProvidesChannel(t)
    <3>1. PICK ch \in Channels, p \in Priorities : Begin(t, "PROV", ch, p)
      BY <2>3 DEF ProvidesChannel
    <3> QED
      BY <2>2, <3>1, BeginInv
  <2>4. CASE SetChannelDevice(t)
    <3>1. PICK ch \in Channels : Begin(t, "TUNE", ch, 0)
      BY <2>4 DEF SetChannelDevice
    <3> QED
      BY <2>2, <3>1, BeginInv
  <2>5. CASE SetPriority(t)
    <3>1. PICK p \in Priorities : Begin(t, "PRIO", 0, p)
      BY <2>5 DEF SetPriority
    <3> QED
      BY <2>2, <3>1, BeginInv
  <2>6. CASE OpenDvr(t) \/ CloseDvr(t) \/ ReInit(t)
    BY <2>6, BeginInv DEF OpenDvr, CloseDvr, ReInit
  <2> QED
    BY <2>1, <2>3, <2>4, <2>5, <2>6 DEF Call
<1>2. CASE \E t \in Threads : Step(t) \/ Timeout(t)
  <2>1. PICK t \in Threads : Step(t) \/ Timeout(t)
    BY <1>2
  <2>2. CASE CheckConnection(t)
    BY <2>2, CheckConnectionInv
  <2>3. CASE Connect(t)
    BY <2>3, ConnectInv
  <2>4. CASE Send(t)
    BY <2>4, SendInv
  <2>5. CASE Answer(t)
    BY <2>5, AnswerInv
  <2>6. CASE Eof(t) \/ Timeout(t)
    BY <2>6, FailsInv DEF Eof, Timeout
  <2>7. CASE Accept(t)
    BY <2>7, AcceptInv
  <2> QED
    BY <2>1, <2>2, <2>3, <2>4, <2>5, <2>6, <2>7 DEF Step
<1>3. CASE \E c \in DOMAIN conns : Serve(c) \/ Leave(c)
    BY <1>3, ServeInv, LeaveInv
<1>4. CASE Restart
    BY <1>4, RestartInv
<1>5. CASE UNCHANGED vars
  <2>1. UNCHANGED <<job, cmdLock, cmd, conns, socks, mismatch, abort>>
    BY <1>5 DEF vars
  <2>2. \A t : HasToWait(t)' = HasToWait(t)
    BY <2>1 DEF HasToWait
  <2> QED
    BY <2>1, <2>2 DEF IInv, Typed, Locked, LockStep
<1> QED
    BY <1>1, <1>2, <1>3, <1>4, <1>5 DEF Next

(* Every command is answered with its own answer, whatever comes late, is  *)
(* lost or reconnected, until ReInit sets m_Abort (Receive, CheckConnection*)
(* and Close of client/socket.c).                                          *)
THEOREM AnswersAreOwn == Spec => []AnswersMatch
<1>1. IInv => AnswersMatch
    BY DEF IInv, AnswersMatch
<1> QED
    BY <1>1, InitInv, NextInv, PTL DEF Spec

-----------------------------------------------------------------------------
(* The channel that comes through a data socket                            *)

Sockets == [listen : BOOLEAN, came : BOOLEAN, client : BOOLEAN, server : BOOLEAN,
            conn : Nat, chans : SUBSET Int]

IsPort(x, s) == x[1] = "PORT" /\ x[2] = s

(* No data socket is set when command i of the connection is handled: an   *)
(* ABRT comes before it, and no PORT in between.                           *)
Untapped(k, i) ==
    \/ k.live = 0 /\ \A l \in 1 .. i - 1 : k.in[l][1] # "PORT"
    \/ \E j \in 1 .. i - 1 : /\ k.in[j][1] = "ABRT"
                             /\ \A l \in j + 1 .. i - 1 : k.in[l][1] # "PORT"
UntappedNow == cmd # 0 => Untapped(conns[cmd], Len(conns[cmd].in) + 1)

(* Who waits, accepts or is in the middle of a TUNE, has the command       *)
(* socket; who tunes or opens has the device; and what a PORT has told of  *)
(* a socket.                                                               *)
JobInv(t) ==
    LET j == job[t] IN
    /\ j.pc \in Waiting => cmdLock = t /\ cmd # 0
    /\ j.stage = "second" => cmdLock = t /\ j.pc \in {"send", "reply"}
    /\ j.op \in {"TUNE", "OPEN"} => devLock = t
    /\ j.op = "TUNE" => j.ch = channel /\ ~tuned
    /\ j.op = "TUNE" /\ (j.pc = "reply" \/ j.stage = "second") => UntappedNow
    /\ j.pc = "greet" => j.sent = <<"HELLO", 0, 0>>
    /\ j.pc = "vers" => j.sent = <<"VERS", 0, 0>>
    /\ j.pc = "reply" => j.sent = Command(t)
    /\ j.sock # 0 => /\ j.op = "OPEN" /\ j.stage = "first"
                     /\ j.pc \in {"send", "reply", "accept"}
                     /\ j.sock \in DOMAIN socks
    /\ j.pc = "reply" /\ j.op = "OPEN" /\ j.stage = "first" => j.sock # 0
    /\ j.pc = "accept" => /\ cmdLock = t /\ j.sock # 0
                          /\ j.op = "OPEN" /\ j.stage = "first"
JobsInv == \A t \in Threads : JobInv(t)

(* What is said of a socket is said of one there is, and not in a          *)
(* connection that was there before it.                                    *)
Placed(k, c, ss) ==
    /\ k.live \in 0 .. Len(ss) /\ (k.live # 0 => ss[k.live].conn <= c)
    /\ \A i \in DOMAIN k.in : k.in[i][1] = "PORT" =>
         k.in[i][2] \in DOMAIN ss /\ ss[k.in[i][2]].conn <= c
    /\ \A i \in DOMAIN k.out : k.out[i].of[1] = "PORT" =>
         k.out[i].of[2] \in DOMAIN ss
PlacesInv ==
    /\ socks \in Seq(Sockets) /\ data \in 0 .. Len(socks)
    /\ cmd \in {0, Len(conns)}
    /\ \A s \in DOMAIN socks : socks[s].conn <= Len(conns)
    /\ \A c \in DOMAIN conns : Placed(conns[c], c, socks)

(* A PORT is said once; until it is handled, nothing is known of its       *)
(* socket.                                                                 *)
Fresh(cs, ss, d, s) ==
    /\ ss[s].chans = {} /\ ~ss[s].came /\ ~ss[s].server /\ d # s
    /\ \A c \in DOMAIN cs :
         cs[c].live # s /\ \A i \in DOMAIN cs[c].out : ~IsPort(cs[c].out[i].of, s)
Absent(cs, s) ==
    \A c \in DOMAIN cs : \A i \in DOMAIN cs[c].in : ~IsPort(cs[c].in[i], s)
Once(p, q, c, d) ==
    \A i \in DOMAIN p, j \in DOMAIN q :
      \A s : IsPort(p[i], s) /\ IsPort(q[j], s) => c = d /\ i = j
OnceInv == \A c, d \in DOMAIN conns : Once(conns[c].in, conns[d].in, c, d)
PendingInv ==
    \A c \in DOMAIN conns : \A i \in DOMAIN conns[c].in :
      \A s : IsPort(conns[c].in[i], s) => Fresh(conns, socks, data, s)
PreparedInv ==
    \A t \in Threads : job[t].sock # 0 /\ job[t].pc = "send" =>
      Fresh(conns, socks, data, job[t].sock) /\ Absent(conns, job[t].sock)

(* So a socket gets one channel, from the connection that serves it.       *)
SocketInv ==
    \A s \in DOMAIN socks :
      /\ socks[s].chans = {} \/ \E x \in Int : socks[s].chans = {x}
      /\ socks[s].server => \E c \in DOMAIN conns : conns[c].live = s
UntappedInv ==
    \A c \in DOMAIN conns : \A i \in DOMAIN conns[c].in :
      conns[c].in[i][1] = "TUNE" => Untapped(conns[c], i)

(* Of the connection in use, while no answer was given up: what is on its  *)
(* way is what is waited for, and its streamer has the channel tuned.      *)
Way(k) == Len(k.in) + Len(k.out)
FirstOf(k) == IF k.in # <<>> THEN k.in[1] ELSE k.out[1].of
Waited == HasToWait(cmdLock)
StepInv(k) ==
    /\ Waited => Way(k) >= 1 /\ (Way(k) = 1 => FirstOf(k) = job[cmdLock].sent)
    /\ ~mismatch /\ tuned /\ (Way(k) = 0 \/ (Way(k) = 1 /\ Waited)) =>
         k.streamer = NoStreamer \/ k.streamer.ch = channel
    /\ Waited /\ Way(k) = 1 /\ k.out # <<>>
         /\ k.out[1].of[1] = "TUNE" /\ k.out[1].code = 220 =>
         k.streamer.ch = k.out[1].of[2]
StepsInv == cmd # 0 /\ conns[cmd].server => StepInv(conns[cmd])

(* The answer to a PORT is the last one that comes.                        *)
LastPort(k, s) ==
    /\ \A i \in DOMAIN k.in : IsPort(k.in[i], s) => i = Len(k.in)
    /\ \A i \in DOMAIN k.out : IsPort(k.out[i].of, s) => i = Len(k.out) /\ k.in = <<>>
    /\ tuned /\ ~mismatch /\ Len(k.out) = 1 /\ IsPort(k.out[1].of, s) =>
         socks[s].chans \subseteq {channel}
LastInv == \A t \in Threads : job[t].sock # 0 /\ job[t].pc = "reply" =>
             LastPort(conns[cmd], job[t].sock)

(* The data socket of the connection in use: no TUNE since its PORT. The   *)
(* same holds of one that waits to be accepted, and its PORT was handled.  *)
Using(d) == cmd # 0 /\ d # 0 /\ ~mismatch /\ socks[d].server /\ socks[d].conn = cmd
Right(d) == /\ \A i \in DOMAIN conns[cmd].out : conns[cmd].out[i].of[1] # "TUNE"
            /\ tuned => socks[d].chans \subseteq {channel}
DataInv == Using(data) => Right(data)
AwaitedInv ==
    \A t \in Threads : job[t].pc = "accept" =>
      /\ ~mismatch => Absent(conns, job[t].sock)
      /\ Using(job[t].sock) => Right(job[t].sock)

ChanInv == /\ JobsInv /\ PlacesInv /\ OnceInv /\ PendingInv /\ PreparedInv
           /\ SocketInv /\ UntappedInv /\ StepsInv /\ LastInv /\ DataInv
           /\ AwaitedInv

-----------------------------------------------------------------------------
(* What a step of the client leaves of its thread and of the sockets       *)

SocksQuiet ==
    /\ socks' \in Seq(Sockets) /\ Len(socks') = Len(socks)
    /\ \A s \in DOMAIN socks : /\ socks'[s].chans = socks[s].chans
                               /\ socks'[s].came = socks[s].came
                               /\ socks'[s].server = socks[s].server
                               /\ socks'[s].conn = socks[s].conn

JobDone(t) ==
    /\ job' = [job EXCEPT ![t] = Idle] /\ cmdLock' = Nobody
    /\ devLock' = IF devLock = t THEN Nobody ELSE devLock
JobGoesOn(t, stage, pc, lock) ==
    /\ job' = [job EXCEPT ![t] = [job[t] EXCEPT !.stage = stage, !.pc = pc, !.sock = 0]]
    /\ cmdLock' = lock /\ devLock' = devLock
JobAccepts(t) ==
    /\ job' = [job EXCEPT ![t] = [job[t] EXCEPT !.pc = "accept"]]
    /\ cmdLock' = t /\ devLock' = devLock

(* The command in hand is over, well or not.                               *)
Over(t, ok) ==
    /\ \/ JobDone(t)
       \/ /\ job[t].op = "TUNE" /\ job[t].stage = "first"
          /\ JobGoesOn(t, "second", "send", t)
       \/ job[t].op = "OPEN" /\ JobGoesOn(t, "first", "check", Nobody)
       \/ /\ job[t].op = "OPEN" /\ job[t].stage = "first" /\ ok
          /\ job[t].pc = "reply" /\ JobAccepts(t)
    /\ SocksQuiet /\ channel' = channel
    /\ tuned' => \/ tuned
                 \/ /\ job[t].op = "TUNE" /\ job[t].stage = "second" /\ ok
                    /\ data' = data
    /\ \/ data' \in {data, 0}
       \/ /\ job[t].pc = "accept" /\ data' = job[t].sock
          /\ data' \in DOMAIN socks /\ socks[data'].came

LEMMA SetSock ==
    ASSUME NEW ss \in Seq(Sockets), NEW s \in DOMAIN ss, NEW x \in Sockets
    PROVE  LET r == [ss EXCEPT ![s] = x]
           IN /\ r \in Seq(Sockets) /\ Len(r) = Len(ss) /\ DOMAIN r = DOMAIN ss
              /\ \A i \in DOMAIN ss : r[i] = IF i = s THEN x ELSE ss[i]
OBVIOUS

LEMMA EndSock ==
    ASSUME NEW x \in Sockets, NEW l \in BOOLEAN, NEW u \in BOOLEAN
    PROVE  LET y == [x EXCEPT !.listen = l, !.client = u]
           IN /\ y \in Sockets /\ y.chans = x.chans /\ y.came = x.came
              /\ y.server = x.server /\ y.conn = x.conn
BY DEF Sockets

(* The sockets r are those of ss but for the client's end.                 *)
QuietOf(ss, r) ==
    /\ r \in Seq(Sockets) /\ Len(r) = Len(ss)
    /\ \A s \in DOMAIN ss : /\ r[s].chans = ss[s].chans
                            /\ r[s].came = ss[s].came
                            /\ r[s].server = ss[s].server
                            /\ r[s].conn = ss[s].conn

LEMMA QuietEndOf ==
    ASSUME NEW ss \in Seq(Sockets), NEW s \in DOMAIN ss,
           NEW l \in BOOLEAN, NEW u \in BOOLEAN
    PROVE  QuietOf(ss, [ss EXCEPT ![s] = [ss[s] EXCEPT !.listen = l, !.client = u]])
<1> DEFINE y == [ss[s] EXCEPT !.listen = l, !.client = u]
           r == [ss EXCEPT ![s] = y]
<1>1. ss[s] \in Sockets
    OBVIOUS
<1>2. /\ y \in Sockets /\ y.chans = ss[s].chans /\ y.came = ss[s].came
      /\ y.server = ss[s].server /\ y.conn = ss[s].conn
    BY ZenonT(40), <1>1, EndSock
<1> HIDE DEF y
<1>3. /\ r \in Seq(Sockets) /\ Len(r) = Len(ss)
      /\ \A i \in DOMAIN ss : r[i] = IF i = s THEN y ELSE ss[i]
    BY <1>2, SetSock
<1> HIDE DEF r
<1>4. QuietOf(ss, r)
    BY <1>2, <1>3 DEF QuietOf
<1> QED
    BY <1>4 DEF r, y

LEMMA QuietCloseOf ==
    ASSUME NEW ss \in Seq(Sockets), NEW s \in 0 .. Len(ss)
    PROVE  QuietOf(ss, CloseSock(ss, s))
<1>1. CASE s = 0
    BY <1>1 DEF CloseSock, QuietOf
<1>2. CASE s # 0
  <2>1. s \in DOMAIN ss /\ ss[s] \in Sockets
    BY <1>2
  <2>2. CloseSock(ss, s) = [ss EXCEPT ![s] = [ss[s] EXCEPT !.listen = FALSE, !.client = FALSE]]
    BY <1>2, <2>1 DEF CloseSock, Sockets
  <2> QED
    BY <2>1, <2>2, QuietEndOf
<1> QED
    BY <1>1, <1>2

LEMMA QuietEnd ==
    ASSUME socks \in Seq(Sockets), NEW s \in DOMAIN socks,
           NEW l \in BOOLEAN, NEW u \in BOOLEAN,
           socks' = [socks EXCEPT ![s] = [socks[s] EXCEPT !.listen = l, !.client = u]]
    PROVE  SocksQuiet
<1>1. QuietOf(socks, socks')
    BY QuietEndOf
<1> QED
    BY <1>1 DEF QuietOf, SocksQuiet

LEMMA QuietClose ==
    ASSUME socks \in Seq(Sockets), NEW s \in 0 .. Len(socks),
           socks' = CloseSock(socks, s)
    PROVE  SocksQuiet
BY QuietCloseOf DEF QuietOf, SocksQuiet

LEMMA DoneOver == ASSUME NEW t \in Threads, Done(t) PROVE JobDone(t)
BY DEF Done, JobDone

LEMMA GoOnOver ==
    ASSUME Typed, NEW t \in Threads, NEW stage, NEW pc, NEW keep \in BOOLEAN,
           GoOn(t, stage, pc, keep)
    PROVE  JobGoesOn(t, stage, pc, IF keep THEN t ELSE Nobody)
BY DEF GoOn, JobGoesOn, Typed

LEMMA ClosedOver ==
    ASSUME Typed, PlacesInv, NEW t \in Threads, NEW good \in BOOLEAN,
           NEW ok \in BOOLEAN, Closed(t, good)
    PROVE  Over(t, ok)
<1>1. JobDone(t) \/ (job[t].op = "OPEN" /\ JobGoesOn(t, "first", "check", Nobody))
  <2>1. CASE job[t].op = "OPEN"
    <3>1. GoOn(t, "first", "check", FALSE)
        BY <2>1 DEF Closed
    <3> QED
        BY <2>1, <3>1, GoOnOver
  <2>2. CASE job[t].op # "OPEN"
    BY <2>2, DoneOver DEF Closed
  <2> QED
    BY <2>1, <2>2
<1>2. SocksQuiet
  <2>1. socks \in Seq(Sockets) /\ data \in 0 .. Len(socks)
    BY DEF PlacesInv
  <2>2. socks' = socks \/ socks' = CloseSock(socks, data)
    BY DEF Closed
  <2>3. CASE socks' = socks
    BY <2>1, <2>3 DEF SocksQuiet
  <2> QED
    BY <2>1, <2>2, <2>3, QuietClose
<1>3. channel' = channel /\ tuned' = tuned /\ data' \in {data, 0}
    BY DEF Closed
<1> QED
    BY <1>1, <1>2, <1>3 DEF Over

LEMMA UnconnectedOver ==
    ASSUME Typed, PlacesInv, NEW t \in Threads, NEW ok \in BOOLEAN, Unconnected(t)
    PROVE  Over(t, ok)
<1>1. CASE job[t].op = "CLOSE" \/ job[t].stage = "close"
  <2>1. Closed(t, FALSE)
    BY <1>1 DEF Unconnected
  <2> QED
    BY <2>1, ClosedOver
<1>2. CASE ~(job[t].op = "CLOSE" \/ job[t].stage = "close")
  <2>1. Done(t) /\ UNCHANGED <<clientVars, socks>>
    BY <1>2 DEF Unconnected
  <2>2. SocksQuiet
    BY <2>1 DEF SocksQuiet, PlacesInv
  <2> QED
    BY <2>1, <2>2, DoneOver DEF Over, clientVars
<1> QED
    BY <1>1, <1>2

LEMMA AfterOver ==
    ASSUME Typed, PlacesInv, NEW t \in Threads, job[t].pc # "idle",
           job[t].op = "OPEN" /\ job[t].stage = "first" => job[t].sock \in DOMAIN socks,
           NEW ok \in BOOLEAN, NEW any \in BOOLEAN, After(t, ok),
           any = ok \/ job[t].op = "QUIT", ok => job[t].pc = "reply"
    PROVE  Over(t, any)
<1>1. job[t] \in Job /\ AtCommand(job[t])
    BY DEF Typed
<1>2. UNCHANGED socks => SocksQuiet
    BY DEF SocksQuiet, PlacesInv
<1>3. CASE job[t].op = "TUNE"
  <2>1. job[t].stage \in {"first", "second"}
    BY <1>1, <1>3 DEF Job, AtCommand
  <2>2. CASE job[t].stage = "first"
    <3>1. /\ GoOn(t, "second", "send", TRUE)
          /\ UNCHANGED <<data, channel, tuned, socks>>
      BY <1>3, <2>2 DEF After
    <3>2. JobGoesOn(t, "second", "send", t)
      BY <3>1, GoOnOver
    <3> QED
      BY <1>2, <1>3, <2>2, <3>1, <3>2 DEF Over
  <2>3. CASE job[t].stage = "second"
    <3>1. Done(t) /\ tuned' = ok /\ UNCHANGED <<data, channel, socks>>
      BY <1>3, <2>3 DEF After
    <3> QED
      BY <1>2, <1>3, <2>3, <3>1, DoneOver DEF Over
  <2> QED
    BY <2>1, <2>2, <2>3
<1>4. CASE job[t].op \in {"PROV", "PRIO"}
  <2>1. job[t].stage # "close"
    BY <1>1, <1>4 DEF AtCommand
  <2>2. Done(t) /\ UNCHANGED <<data, channel, tuned, socks>>
    <3>1. CASE job[t].op = "PROV"
      BY <2>1, <3>1 DEF After, clientVars
    <3>2. CASE job[t].op = "PRIO"
      BY <2>1, <3>2 DEF After
    <3> QED
      BY <1>4, <3>1, <3>2
  <2> QED
    BY <1>2, <2>2, DoneOver DEF Over
<1>5. CASE job[t].op = "CLOSE" \/ (job[t].op = "OPEN" /\ job[t].stage = "close")
    BY <1>5, ClosedOver DEF After
<1>6. CASE job[t].op = "OPEN" /\ job[t].stage # "close"
  <2> DEFINE s == job[t].sock
  <2>1. job[t].stage = "first" /\ s \in DOMAIN socks
    BY <1>1, <1>6 DEF Job, AtCommand
  <2>2. Opened(t, ok) /\ any = ok
    BY <1>6, <2>1 DEF After
  <2>3. UNCHANGED <<data, channel, tuned>>
    BY <2>2 DEF Opened, clientVars
  <2>4. CASE ok
    <3>1. JobAccepts(t) /\ socks' = socks
        BY <2>2, <2>4 DEF Opened, JobAccepts, Typed
    <3> QED
        BY <1>2, <1>6, <2>1, <2>2, <2>3, <2>4, <3>1 DEF Over
  <2>5. CASE ~ok
    <3>1. Done(t) /\ socks' = CloseSock(socks, s)
        BY <2>2, <2>5 DEF Opened
    <3>2. socks \in Seq(Sockets) /\ s \in 0 .. Len(socks)
        BY <2>1 DEF PlacesInv
    <3>3. SocksQuiet
        BY <3>1, <3>2, QuietClose
    <3> QED
        BY <2>3, <3>1, <3>3, DoneOver DEF Over
  <2> QED
    BY <2>4, <2>5
<1>7. CASE job[t].op = "QUIT"
  <2>1. job[t].stage = "first"
    BY <1>1, <1>7 DEF Job, AtCommand
  <2>2. Reset(t)
    BY <1>7, <2>1 DEF After
  <2>3. SocksQuiet
    BY <2>2, QuietClose DEF Reset, PlacesInv
  <2> QED
    BY <2>2, <2>3, DoneOver DEF Over, Reset
<1> QED
    BY <1>1, <1>3, <1>4, <1>5, <1>6, <1>7 DEF Job, AtCommand

-----------------------------------------------------------------------------
(* Steps that leave the connections, but for an answer that is taken       *)

SameConn(k, n) ==
    /\ n.in = k.in /\ n.live = k.live /\ n.server = k.server
    /\ n.streamer = k.streamer
    /\ n.out = k.out \/ (k.out # <<>> /\ n.out = Tail(k.out))
SameConns == /\ DOMAIN conns' = DOMAIN conns
             /\ \A c \in DOMAIN conns : SameConn(conns[c], conns'[c])

LEMMA OutOf ==
    ASSUME NEW S, NEW o \in Seq(S), NEW p, p = o \/ (o # <<>> /\ p = Tail(o))
    PROVE  \A i \in DOMAIN p : \E j \in DOMAIN o : p[i] = o[j]
<1>1. CASE p = o
    BY <1>1
<1>2. CASE o # <<>> /\ p = Tail(o)
  <2>1. /\ DOMAIN p = 1 .. Len(o) - 1 /\ DOMAIN o = 1 .. Len(o)
        /\ \A l \in 1 .. Len(o) - 1 : p[l] = o[l + 1]
    BY <1>2
  <2> QED
    BY <2>1
<1> QED
    BY <1>1, <1>2

LEMMA SameOut ==
    ASSUME NEW k \in Connection, NEW n, SameConn(k, n), NEW i \in DOMAIN n.out
    PROVE  \E j \in DOMAIN k.out : n.out[i] = k.out[j]
<1>1. k.out \in Seq(Reply)
    BY DEF Connection
<1>2. n.out = k.out \/ (k.out # <<>> /\ n.out = Tail(k.out))
    BY DEF SameConn
<1> DEFINE o == k.out
           p == n.out
<1>3. o \in Seq(Reply) /\ (p = o \/ (o # <<>> /\ p = Tail(o)))
    BY <1>1, <1>2
<1> HIDE DEF o, p
<1>4. \A l \in DOMAIN p : \E j \in DOMAIN o : p[l] = o[j]
    BY <1>3, OutOf
<1> QED
    BY <1>4 DEF o, p

LEMMA ConnTyped ==
    ASSUME Typed, NEW c \in DOMAIN conns
    PROVE  conns[c] \in Connection
BY DEF Typed

LEMMA PlacesKept ==
    ASSUME Typed, PlacesInv, SameConns, SocksQuiet, data' \in 0 .. Len(socks),
           cmd' \in {cmd, 0}, Typed'
    PROVE  PlacesInv'
<1>1. DOMAIN socks' = DOMAIN socks /\ Len(socks') = Len(socks) /\ Len(conns') = Len(conns)
      /\ DOMAIN conns = 1 .. Len(conns)
    BY DEF SocksQuiet, PlacesInv, SameConns, Typed
<1>2. ASSUME NEW c \in DOMAIN conns
      PROVE  Placed(conns'[c], c, socks')
  <2>1. SameConn(conns[c], conns'[c]) /\ conns[c] \in Connection /\ Placed(conns[c], c, socks)
    BY ConnTyped DEF SameConns, PlacesInv
  <2> DEFINE k == conns[c]
             n == conns'[c]
  <2>2. \A i \in DOMAIN n.out : \E j \in DOMAIN k.out : n.out[i] = k.out[j]
    BY <2>1, SameOut
  <2>3. \A s \in DOMAIN socks : socks'[s].conn = socks[s].conn
    BY DEF SocksQuiet
  <2>4. k.live # 0 => k.live \in DOMAIN socks
    BY <2>1 DEF Placed, PlacesInv
  <2>5. n.in = k.in /\ n.live = k.live
    BY <2>1 DEF SameConn
  <2> HIDE DEF k, n
  <2>6. Placed(k, c, socks)
    BY <2>1 DEF k
  <2>7. Placed(n, c, socks')
    <3>1. n.live \in 0 .. Len(socks') /\ (n.live # 0 => socks'[n.live].conn <= c)
        BY <1>1, <2>3, <2>4, <2>5, <2>6 DEF Placed
    <3>2. ASSUME NEW i \in DOMAIN n.in, n.in[i][1] = "PORT"
          PROVE  n.in[i][2] \in DOMAIN socks' /\ socks'[n.in[i][2]].conn <= c
        BY <1>1, <2>3, <2>5, <2>6, <3>2 DEF Placed
    <3>3. ASSUME NEW i \in DOMAIN n.out, n.out[i].of[1] = "PORT"
          PROVE  n.out[i].of[2] \in DOMAIN socks'
        BY <1>1, <2>2, <2>6, <3>3 DEF Placed
    <3> QED
        BY <3>1, <3>2, <3>3 DEF Placed
  <2> QED
    BY <2>7 DEF n
<1>3. \A s \in DOMAIN socks' : socks'[s].conn <= Len(conns')
    BY <1>1 DEF SocksQuiet, PlacesInv
<1>4. socks' \in Seq(Sockets) /\ data' \in 0 .. Len(socks') /\ cmd' \in {0, Len(conns')}
    BY <1>1 DEF SocksQuiet, PlacesInv
<1> QED
    BY <1>2, <1>3, <1>4 DEF PlacesInv, SameConns

LEMMA OnceKept ==
    ASSUME OnceInv, SameConns
    PROVE  OnceInv'
<1>1. \A c \in DOMAIN conns : conns'[c].in = conns[c].in
    BY DEF SameConns, SameConn
<1>2. DOMAIN conns' = DOMAIN conns
    BY DEF SameConns
<1> QED
    BY <1>1, <1>2 DEF OnceInv

LEMMA FreshKept ==
    ASSUME Typed, SameConns, SocksQuiet, NEW s \in DOMAIN socks,
           Fresh(conns, socks, data, s), data' # s
    PROVE  Fresh(conns', socks', data', s)
<1>1. socks'[s].chans = {} /\ ~socks'[s].came /\ ~socks'[s].server
    BY DEF Fresh, SocksQuiet
<1>2. ASSUME NEW c \in DOMAIN conns'
      PROVE  conns'[c].live # s /\ \A i \in DOMAIN conns'[c].out : ~IsPort(conns'[c].out[i].of, s)
  <2>1. c \in DOMAIN conns /\ SameConn(conns[c], conns'[c]) /\ conns[c] \in Connection
    BY <1>2, ConnTyped DEF SameConns
  <2>2. conns[c].live # s /\ \A i \in DOMAIN conns[c].out : ~IsPort(conns[c].out[i].of, s)
    BY <2>1 DEF Fresh
  <2>3. conns'[c].live # s
    BY <2>1, <2>2 DEF SameConn
  <2>4. ASSUME NEW i \in DOMAIN conns'[c].out
        PROVE  ~IsPort(conns'[c].out[i].of, s)
    <3>1. PICK j \in DOMAIN conns[c].out : conns'[c].out[i] = conns[c].out[j]
        BY <2>1, SameOut
    <3> QED
        BY <2>2, <3>1
  <2> QED
    BY <2>3, <2>4
<1> QED
    BY <1>1, <1>2 DEF Fresh

LEMMA AbsentKept ==
    ASSUME SameConns, NEW s, Absent(conns, s)
    PROVE  Absent(conns', s)
BY DEF Absent, SameConns, SameConn

LEMMA PendingKept ==
    ASSUME Typed, PlacesInv, PendingInv, SameConns, SocksQuiet,
           data' \in {data, 0} \/ (data' \in DOMAIN socks /\ socks[data'].came)
    PROVE  PendingInv'
<1> SUFFICES ASSUME NEW c \in DOMAIN conns, NEW i \in DOMAIN conns[c].in, NEW s,
                    IsPort(conns[c].in[i], s)
             PROVE  Fresh(conns', socks', data', s)
  <2>1. DOMAIN conns' = DOMAIN conns /\ \A c \in DOMAIN conns : conns'[c].in = conns[c].in
    BY DEF SameConns, SameConn
  <2> QED
    BY <2>1, Zenon DEF PendingInv
<1>1. Fresh(conns, socks, data, s)
    BY DEF PendingInv
<1>2. s \in DOMAIN socks /\ s # 0
  <2>1. Placed(conns[c], c, socks)
    BY DEF PlacesInv
  <2>2. conns[c].in[i][1] = "PORT" /\ conns[c].in[i][2] = s
    BY DEF IsPort
  <2>3. s \in DOMAIN socks
    BY <2>1, <2>2 DEF Placed
  <2> QED
    BY <2>3 DEF PlacesInv
<1>3. data' # s
    BY <1>1, <1>2 DEF Fresh
<1> QED
    BY <1>1, <1>2, <1>3, FreshKept

LEMMA SocketKept ==
    ASSUME SocketInv, PlacesInv, SameConns, SocksQuiet
    PROVE  SocketInv'
<1>1. DOMAIN socks' = DOMAIN socks
    BY DEF SocksQuiet, PlacesInv
<1> SUFFICES ASSUME NEW s \in DOMAIN socks
             PROVE  /\ socks'[s].chans = {} \/ \E x \in Int : socks'[s].chans = {x}
                    /\ socks'[s].server => \E c \in DOMAIN conns' : conns'[c].live = s
    BY <1>1 DEF SocketInv
<1>2. socks'[s].chans = socks[s].chans /\ socks'[s].server = socks[s].server
    BY DEF SocksQuiet
<1>3. ASSUME socks[s].server PROVE \E c \in DOMAIN conns' : conns'[c].live = s
  <2>1. PICK c \in DOMAIN conns : conns[c].live = s
    BY <1>3 DEF SocketInv
  <2> QED
    BY <2>1 DEF SameConns, SameConn
<1> QED
    BY <1>2, <1>3 DEF SocketInv

LEMMA UntappedSame ==
    ASSUME NEW k, NEW n, n.in = k.in, n.live = k.live, NEW i
    PROVE  Untapped(n, i) <=> Untapped(k, i)
BY DEF Untapped

LEMMA UntappedKept ==
    ASSUME UntappedInv, SameConns
    PROVE  UntappedInv'
<1>1. /\ DOMAIN conns' = DOMAIN conns
      /\ \A c \in DOMAIN conns : conns'[c].in = conns[c].in /\ conns'[c].live = conns[c].live
    BY DEF SameConns, SameConn
<1> SUFFICES ASSUME NEW c \in DOMAIN conns, NEW i \in DOMAIN conns[c].in,
                    conns[c].in[i][1] = "TUNE"
             PROVE  Untapped(conns'[c], i)
    BY <1>1, Zenon DEF UntappedInv
<1>2. Untapped(conns[c], i)
    BY DEF UntappedInv
<1> QED
    BY <1>1, <1>2, UntappedSame

LEMMA UntappedNowKept ==
    ASSUME Typed, UntappedNow, SameConns, cmd' \in {cmd, 0}
    PROVE  UntappedNow'
<1>1. ASSUME cmd' # 0
      PROVE  Untapped(conns'[cmd], Len(conns'[cmd].in) + 1)
  <2>1. cmd # 0 /\ cmd \in DOMAIN conns
    BY <1>1 DEF Typed
  <2>2. conns'[cmd].in = conns[cmd].in /\ conns'[cmd].live = conns[cmd].live
    BY <2>1 DEF SameConns, SameConn
  <2>3. Untapped(conns[cmd], Len(conns[cmd].in) + 1)
    BY <2>1 DEF UntappedNow
  <2>4. Untapped(conns'[cmd], Len(conns[cmd].in) + 1)
    BY <2>2, <2>3, UntappedSame
  <2> QED
    BY <2>2, <2>4
<1> QED
    BY <1>1 DEF UntappedNow

-----------------------------------------------------------------------------
(* A command of the client is over                                         *)

EndKept(t) ==
    /\ Over(t, FALSE) /\ UNCHANGED <<mismatch, conns, cmd>>
    /\ job[t].op = "TUNE" /\ job[t].stage = "first" => cmd = 0 \/ job[t].pc = "reply"
EndDropped(t) ==
    /\ Over(t, FALSE) /\ (mismatch => mismatch')
    /\ cmd' = 0 /\ conns' = CloseClient(conns, cmd)
EndRead(t) ==
    /\ job[t].pc = "reply" /\ cmd # 0 /\ conns[cmd].out # <<>>
    /\ Over(t, Head(conns[cmd].out).code = 220)
    /\ mismatch' = (mismatch \/ Head(conns[cmd].out).of # job[t].sent)
    /\ conns' = [conns EXCEPT ![cmd].out = Tail(@)] /\ cmd' = cmd
EndStep(t) ==
    /\ job[t].pc # "idle" /\ cmdLock \in {Nobody, t}
    /\ EndKept(t) \/ EndDropped(t) \/ EndRead(t)

LEMMA CloseSame ==
    ASSUME Typed, conns' = CloseClient(conns, cmd)
    PROVE  SameConns
<1>1. CASE cmd = 0
    BY <1>1 DEF CloseClient, SameConns, SameConn
<1>2. CASE cmd # 0
  <2>1. cmd \in DOMAIN conns /\ conns[cmd] \in Connection
    BY <1>2 DEF Typed
  <2>2. conns' = [conns EXCEPT ![cmd] = [conns[cmd] EXCEPT !.client = FALSE]]
    BY <1>2 DEF CloseClient
  <2>3. SameConn(conns[cmd], [conns[cmd] EXCEPT !.client = FALSE])
    BY <2>1 DEF SameConn, Connection
  <2> QED
    BY <2>1, <2>2, <2>3 DEF SameConns, SameConn
<1> QED
    BY <1>1, <1>2

LEMMA ReadSame ==
    ASSUME Typed, cmd # 0, conns[cmd].out # <<>>,
           conns' = [conns EXCEPT ![cmd].out = Tail(@)]
    PROVE  /\ SameConns /\ conns'[cmd].in = conns[cmd].in
           /\ conns'[cmd].out = Tail(conns[cmd].out)
<1>1. cmd \in DOMAIN conns /\ conns[cmd] \in Connection
    BY DEF Typed
<1> DEFINE k == conns[cmd]
           n == [k EXCEPT !.out = Tail(@)]
<1>2. n.out = Tail(k.out) /\ SameConn(k, n)
    BY <1>1 DEF SameConn, Connection
<1>3. conns' = [conns EXCEPT ![cmd] = n]
    OBVIOUS
<1> HIDE DEF n
<1> QED
    BY <1>1, <1>2, <1>3 DEF SameConns, SameConn

LEMMA EndSame ==
    ASSUME Typed, NEW t \in Threads, EndStep(t)
    PROVE  /\ SameConns /\ SocksQuiet /\ cmd' \in {cmd, 0} /\ channel' = channel
           /\ \E ok : Over(t, ok)
<1>1. CASE EndKept(t)
    BY <1>1 DEF EndKept, Over, SameConns, SameConn
<1>2. CASE EndDropped(t)
    BY <1>2, CloseSame DEF EndDropped, Over
<1>3. CASE EndRead(t)
    BY <1>3, ReadSame DEF EndRead, Over
<1> QED
    BY <1>1, <1>2, <1>3 DEF EndStep

LEMMA OverThread ==
    ASSUME Typed, NEW t \in Threads, NEW ok, Over(t, ok)
    PROVE  /\ job'[t].pc \notin Waiting
           /\ job'[t].sock # 0 => job'[t].pc = "accept"
           /\ cmdLock' \in {t, Nobody}
           /\ \A u \in Threads : u # t => job'[u] = job[u]
<1>1. job \in [Threads -> Job] /\ job[t] \in Job
    BY DEF Typed
<1>2. CASE JobDone(t)
    BY <1>1, <1>2 DEF JobDone, Idle, Waiting
<1>3. ASSUME NEW stage, NEW pc \in {"send", "check"}, NEW lock \in {t, Nobody},
             JobGoesOn(t, stage, pc, lock)
      PROVE  /\ job'[t].pc \notin Waiting /\ job'[t].sock = 0
             /\ cmdLock' \in {t, Nobody}
             /\ \A u \in Threads : u # t => job'[u] = job[u]
    BY <1>1, <1>3 DEF JobGoesOn, Waiting, Job
<1>4. CASE JobAccepts(t)
    BY <1>1, <1>4 DEF JobAccepts, Waiting, Job
<1> QED
    BY <1>2, <1>3, <1>4 DEF Over

(* No other thread waits for an answer, accepts or is in the middle of a   *)
(* TUNE.                                                                   *)
LEMMA Others ==
    ASSUME Typed, JobsInv, NEW t \in Threads, cmdLock \in {Nobody, t},
           NEW u \in Threads, u # t
    PROVE  job[u].pc \notin Waiting /\ job[u].pc # "accept" /\ job[u].stage # "second"
BY SessionAssumption DEF JobsInv, JobInv, Nobody

LEMMA NoneAccepts ==
    ASSUME \A u \in Threads : job'[u].pc # "accept" PROVE AwaitedInv'
BY DEF AwaitedInv

LEMMA OverJobs ==
    ASSUME Typed, JobsInv, PlacesInv, NEW t \in Threads, cmdLock \in {Nobody, t},
           NEW ok, Over(t, ok),
           job[t].op = "TUNE" /\ job[t].stage = "first" => UntappedNow'
    PROVE  JobsInv'
<1>1. job \in [Threads -> Job] /\ job[t] \in Job /\ JobInv(t)
    BY DEF Typed, JobsInv
<1>2. DOMAIN socks' = DOMAIN socks
    BY DEF Over, SocksQuiet, PlacesInv
<1>3. ASSUME NEW u \in Threads, u # t
      PROVE  JobInv(u)'
  <2>1. /\ job'[u] = job[u] /\ job[u].pc \notin Waiting /\ job[u].stage # "second"
        /\ job[u].pc # "accept" /\ JobInv(u)
    BY <1>3, OverThread, Others DEF JobsInv
  <2>2. job[u].pc \notin {"greet", "vers", "reply", "accept"}
    BY <2>1 DEF Waiting
  <2>3. job[u].op \in {"TUNE", "OPEN"} => devLock = u /\ devLock' = u
    BY <1>3, <2>1 DEF Over, JobDone, JobGoesOn, JobAccepts, JobInv
  <2>4. job[u].op = "TUNE" => job[u].ch = channel' /\ ~tuned'
    BY <1>1, <1>3, <2>1, <2>3 DEF Over, JobInv
  <2> QED
    BY <1>2, <2>1, <2>2, <2>3, <2>4 DEF JobInv, Waiting
<1>4. JobInv(t)'
  <2>1. CASE JobDone(t)
    <3>1. job'[t] = Idle
        BY <1>1, <2>1 DEF JobDone
    <3> QED
        BY <3>1 DEF JobInv, Idle, Waiting
  <2>2. CASE /\ job[t].op = "TUNE" /\ job[t].stage = "first"
             /\ JobGoesOn(t, "second", "send", t)
    <3>1. /\ job'[t].op = "TUNE" /\ job'[t].stage = "second" /\ job'[t].pc = "send"
          /\ job'[t].sock = 0 /\ job'[t].ch = job[t].ch
          /\ cmdLock' = t /\ devLock' = devLock
        BY <1>1, <2>2 DEF JobGoesOn, Job
    <3>2. devLock = t /\ job[t].ch = channel /\ ~tuned
        BY <1>1, <2>2 DEF JobInv
    <3>3. channel' = channel /\ ~tuned'
        BY <2>2, <3>2 DEF Over
    <3> QED
        BY <2>2, <3>1, <3>2, <3>3 DEF JobInv, Waiting
  <2>3. CASE job[t].op = "OPEN" /\ JobGoesOn(t, "first", "check", Nobody)
    <3>1. /\ job'[t].op = "OPEN" /\ job'[t].stage = "first" /\ job'[t].pc = "check"
          /\ job'[t].sock = 0 /\ devLock' = devLock
        BY <1>1, <2>3 DEF JobGoesOn, Job
    <3>2. devLock = t
        BY <1>1, <2>3 DEF JobInv
    <3> QED
        BY <3>1, <3>2 DEF JobInv, Waiting
  <2>4. CASE /\ job[t].op = "OPEN" /\ job[t].stage = "first"
             /\ job[t].pc = "reply" /\ JobAccepts(t)
    <3>1. /\ job'[t].op = "OPEN" /\ job'[t].stage = "first" /\ job'[t].pc = "accept"
          /\ job'[t].sock = job[t].sock /\ cmdLock' = t /\ devLock' = devLock
        BY <1>1, <2>4 DEF JobAccepts, Job
    <3>2. devLock = t /\ job[t].sock # 0 /\ job[t].sock \in DOMAIN socks
        BY <1>1, <2>4 DEF JobInv
    <3> QED
        BY <1>2, <3>1, <3>2 DEF JobInv, Waiting
  <2> QED
    BY <2>1, <2>2, <2>3, <2>4 DEF Over
<1> QED
    BY <1>3, <1>4 DEF JobsInv

LEMMA EndJobs ==
    ASSUME Typed, JobsInv, PlacesInv, NEW t \in Threads, EndStep(t)
    PROVE  JobsInv'
<1>1. SameConns /\ cmd' \in {cmd, 0}
    BY EndSame
<1>2. ASSUME job[t].op = "TUNE", job[t].stage = "first"
      PROVE  UntappedNow'
  <2>1. job[t].pc = "reply" => UntappedNow
    BY <1>2 DEF JobsInv, JobInv
  <2>2. cmd' = 0 => UntappedNow'
    BY DEF UntappedNow
  <2>3. cmd' # 0 => job[t].pc = "reply"
    BY <1>2 DEF EndStep, EndKept, EndDropped, EndRead
  <2> QED
    BY <1>1, <2>1, <2>2, <2>3, UntappedNowKept
<1>3. cmdLock \in {Nobody, t} /\ \E ok : Over(t, ok)
    BY EndSame DEF EndStep
<1> QED
    BY <1>2, <1>3, OverJobs

(* What was prepared stays so while its thread and the sockets do.         *)
LEMMA PreparedKept ==
    ASSUME Typed, PlacesInv, JobsInv, PreparedInv, SameConns, SocksQuiet,
           data' \in {data, 0} \/ (data' \in DOMAIN socks /\ socks[data'].came),
           \A u \in Threads : job'[u].sock # 0 /\ job'[u].pc = "send" =>
             job[u].sock = job'[u].sock /\ job[u].pc = "send"
    PROVE  PreparedInv'
<1> SUFFICES ASSUME NEW u \in Threads, job'[u].sock # 0, job'[u].pc = "send"
             PROVE  /\ Fresh(conns', socks', data', job'[u].sock)
                    /\ Absent(conns', job'[u].sock)
    BY DEF PreparedInv
<1> DEFINE s == job'[u].sock
<1>1. job[u].sock = s /\ job[u].pc = "send"
    OBVIOUS
<1>2. s # 0 /\ s \in DOMAIN socks
    BY <1>1 DEF JobsInv, JobInv
<1>3. Fresh(conns, socks, data, s) /\ Absent(conns, s)
    BY <1>1, <1>2 DEF PreparedInv
<1> HIDE DEF s
<1>4. data' # s
    BY <1>2, <1>3 DEF Fresh
<1>5. Fresh(conns', socks', data', s) /\ Absent(conns', s)
    BY <1>2, <1>3, <1>4, FreshKept, AbsentKept
<1> QED
    BY <1>5 DEF s

LEMMA CommandIs ==
    ASSUME Typed, NEW t \in Threads, job[t].pc # "idle"
    PROVE  /\ job[t].op = "TUNE" /\ job[t].stage = "first" => Command(t) = <<"ABRT", 0, 0>>
           /\ job[t].op = "TUNE" /\ job[t].stage = "second"
                => Command(t) = <<"TUNE", job[t].ch, 0>>
           /\ job[t].op = "OPEN" /\ job[t].stage = "first"
                => Command(t) = <<"PORT", job[t].sock, 0>>
           /\ Command(t)[1] = "TUNE" => job[t].op = "TUNE" /\ job[t].stage = "second"
           /\ Command(t)[1] = "PORT" => job[t].op = "OPEN" /\ job[t].stage = "first"
<1>1. job[t] \in Job /\ AtCommand(job[t])
    BY DEF Typed
<1>2. /\ job[t].op \in {"PROV", "TUNE", "PRIO", "CLOSE", "OPEN", "QUIT"}
      /\ job[t].stage \in {"first", "second", "close"}
      /\ job[t].op # "OPEN" => job[t].stage # "close"
      /\ job[t].op # "TUNE" => job[t].stage # "second"
    BY <1>1 DEF Job, AtCommand
<1>3. CASE job[t].op = "TUNE"
    BY <1>2, <1>3 DEF Command
<1>4. CASE job[t].op = "OPEN" /\ job[t].stage = "first"
    BY <1>4 DEF Command
<1>6. CASE job[t].op = "OPEN" /\ job[t].stage = "close"
  <2>1. Command(t) = <<"ABRT", 0, 0>>
    BY SMTT(40), <1>6 DEF Command
  <2> QED
    BY <1>6, <2>1
<1>5. CASE job[t].op \in {"PROV", "PRIO", "CLOSE", "QUIT"}
    BY <1>2, <1>5 DEF Command
<1> QED
    BY <1>2, <1>3, <1>4, <1>5, <1>6

LEMMA OneTail ==
    ASSUME NEW S, NEW o \in Seq(S), Len(o) = 1, o # <<>>
    PROVE  DOMAIN Tail(o) = {}
<1>1. Tail(o) \in Seq(S) /\ Len(Tail(o)) = 0
    OBVIOUS
<1> DEFINE q == Tail(o)
<1>2. q \in Seq(S) /\ Len(q) = 0
    BY <1>1
<1> HIDE DEF q
<1>3. DOMAIN q = {}
    BY <1>2
<1> QED
    BY <1>3 DEF q

LEMMA OverData ==
    ASSUME PlacesInv, NEW t, NEW ok, Over(t, ok)
    PROVE  /\ data' \in 0 .. Len(socks)
           /\ data' \in {data, 0} \/ (data' \in DOMAIN socks /\ socks[data'].came)
BY DEF Over, PlacesInv

LEMMA EndLast ==
    ASSUME Typed, JobsInv, NEW t \in Threads, cmdLock \in {Nobody, t},
           NEW ok, Over(t, ok)
    PROVE  LastInv' /\ ~Waited'
<1>1. ASSUME NEW u \in Threads PROVE ~(job'[u].sock # 0 /\ job'[u].pc = "reply")
    BY OverThread, Others DEF Waiting
<1>2. ~Waited'
    BY OverThread, SessionAssumption DEF Waited, HasToWait, Nobody
<1> QED
    BY <1>1, <1>2 DEF LastInv

(* What an answer that was read says.                                      *)
LEMMA ReadIs ==
    ASSUME Typed, JobsInv, NEW t \in Threads, EndRead(t), ~mismatch'
    PROVE  /\ ~mismatch /\ cmd' = cmd /\ cmd \in DOMAIN conns /\ Waited
           /\ cmdLock = t /\ conns[cmd] \in Connection
           /\ conns[cmd].out # <<>> /\ conns[cmd].out \in Seq(Reply)
           /\ conns[cmd].out[1].of = Command(t)
           /\ conns'[cmd].in = conns[cmd].in
           /\ conns'[cmd].out = Tail(conns[cmd].out)
           /\ Over(t, conns[cmd].out[1].code = 220)
<1>1. job[t].pc = "reply" /\ cmd # 0 /\ cmd' = cmd /\ conns[cmd].out # <<>>
      /\ ~mismatch /\ Head(conns[cmd].out).of = job[t].sent
      /\ Over(t, Head(conns[cmd].out).code = 220)
      /\ conns' = [conns EXCEPT ![cmd].out = Tail(@)]
    BY DEF EndRead
<1>2. cmd \in DOMAIN conns /\ conns[cmd] \in Connection
    BY <1>1 DEF Typed
<1>3. conns[cmd].out \in Seq(Reply)
    BY <1>2 DEF Connection
<1>4. Head(conns[cmd].out) = conns[cmd].out[1]
    BY <1>1, <1>3
<1>5. job[t].sent = Command(t) /\ cmdLock = t
    BY <1>1 DEF JobsInv, JobInv, Waiting
<1>6. Waited
    BY <1>1, <1>5 DEF Waited, HasToWait, Waiting
<1> QED
    BY <1>1, <1>2, <1>3, <1>4, <1>5, <1>6, ReadSame

LEMMA WayTail ==
    ASSUME NEW k \in Connection, k.out # <<>>, Len(k.in) + Len(Tail(k.out)) = 0
    PROVE  Way(k) = 1
<1> DEFINE i == k.in
           o == k.out
<1>1. Way(k) = Len(i) + Len(o)
    BY DEF Way
<1>2. /\ i \in Seq(Commands) /\ o \in Seq(Reply) /\ o # <<>>
      /\ Len(i) + Len(Tail(o)) = 0
    BY DEF Connection
<1> HIDE DEF i, o
<1> QED
    BY <1>1, <1>2

LEMMA EndSteps ==
    ASSUME Typed, JobsInv, StepsInv, NEW t \in Threads, EndStep(t)
    PROVE  StepsInv'
<1>1. ~Waited' /\ channel' = channel /\ SameConns
    BY EndSame, EndLast DEF EndStep
<1> SUFFICES ASSUME cmd' # 0, conns'[cmd'].server, ~mismatch', tuned',
                    Way(conns'[cmd']) = 0
             PROVE  \/ conns'[cmd'].streamer = NoStreamer
                    \/ conns'[cmd'].streamer.ch = channel'
    BY <1>1 DEF StepsInv, StepInv
<1>2. CASE EndKept(t)
  <2>1. conns' = conns /\ cmd' = cmd /\ tuned /\ ~mismatch
    BY <1>2 DEF EndKept, Over
  <2> QED
    BY <1>1, <2>1 DEF StepsInv, StepInv
<1>3. CASE EndRead(t)
  <2> DEFINE k == conns[cmd]
  <2>1. /\ ~mismatch /\ cmd' = cmd /\ cmd \in DOMAIN conns /\ Waited
        /\ k \in Connection /\ k.out # <<>> /\ k.out \in Seq(Reply)
        /\ k.out[1].of = Command(t)
        /\ conns'[cmd].in = k.in /\ conns'[cmd].out = Tail(k.out)
        /\ Over(t, k.out[1].code = 220)
    BY <1>3, ReadIs
  <2>2. Way(k) = 1
    <3>1. Len(k.in) + Len(Tail(k.out)) = 0
        BY <2>1 DEF Way
    <3> QED
        BY <2>1, <3>1, WayTail
  <2>3. k.server /\ conns'[cmd].streamer = k.streamer /\ cmd # 0
    BY <1>1, <2>1 DEF SameConns, SameConn
  <2>4. StepInv(k)
    BY <2>3 DEF StepsInv
  <2>5. CASE tuned
    BY <1>1, <2>1, <2>2, <2>3, <2>4, <2>5 DEF StepInv
  <2>6. CASE ~tuned
    <3>1. job[t].op = "TUNE" /\ job[t].stage = "second" /\ k.out[1].code = 220
        BY SMTT(40), <2>1, <2>6 DEF Over
    <3>2. job[t].pc # "idle" /\ job[t].ch = channel
        BY <1>3, <3>1 DEF EndRead, JobsInv, JobInv
    <3>3. Command(t) = <<"TUNE", channel, 0>>
        BY <3>1, <3>2, CommandIs
    <3>4. k.streamer.ch = k.out[1].of[2] /\ k.out[1].of[2] = channel
        BY <2>1, <2>2, <2>4, <3>1, <3>3 DEF StepInv
    <3> QED
        BY <1>1, <2>1, <2>3, <3>4
  <2> QED
    BY <2>5, <2>6
<1> QED
    BY <1>2, <1>3 DEF EndStep, EndDropped

LEMMA EndData ==
    ASSUME Typed, JobsInv, PlacesInv, DataInv, AwaitedInv, NEW t \in Threads,
           EndStep(t)
    PROVE  DataInv'
<1>1. SameConns /\ SocksQuiet /\ channel' = channel
    BY EndSame
<1> SUFFICES ASSUME Using(data)'
             PROVE  /\ \A i \in DOMAIN conns'[cmd'].out :
                         conns'[cmd'].out[i].of[1] # "TUNE"
                    /\ tuned' => socks'[data'].chans \subseteq {channel'}
    BY DEF DataInv, Right
<1>2. /\ cmd' = cmd /\ cmd # 0 /\ data' # 0 /\ ~mismatch /\ ~mismatch'
      /\ cmd \in DOMAIN conns /\ conns[cmd] \in Connection
      /\ EndKept(t) \/ EndRead(t)
  <2>1. cmd' # 0 /\ data' # 0 /\ ~mismatch'
    BY DEF Using
  <2>2. EndKept(t) \/ EndRead(t)
    BY <2>1 DEF EndStep, EndDropped
  <2>3. cmd' = cmd /\ ~mismatch
    <3>1. CASE EndKept(t)
        BY <2>1, <3>1 DEF EndKept
    <3>2. CASE EndRead(t)
        <4>1. cmd' = cmd
            BY <3>2 DEF EndRead
        <4>2. mismatch => mismatch'
            BY <3>2, Zenon DEF EndRead
        <4> QED
            BY <2>1, <4>1, <4>2
    <3> QED
        BY <2>2, <3>1, <3>2
  <2> QED
    BY <2>1, <2>2, <2>3 DEF Typed
<1>3. CASE data' = data
  <2>1. data \in DOMAIN socks
    BY <1>2, <1>3 DEF PlacesInv
  <2>2. Using(data) /\ socks'[data'].chans = socks[data].chans
    BY <1>1, <1>2, <1>3, <2>1 DEF Using, SocksQuiet
  <2>3. \A i \in DOMAIN conns[cmd].out : conns[cmd].out[i].of[1] # "TUNE"
    BY <2>2 DEF DataInv, Right
  <2>4. \A i \in DOMAIN conns'[cmd'].out : conns'[cmd'].out[i].of[1] # "TUNE"
    <3>1. SameConn(conns[cmd], conns'[cmd])
        BY <1>1, <1>2 DEF SameConns
    <3> QED
        BY <1>2, <2>3, <3>1, SameOut
  <2>5. ASSUME tuned', ~tuned PROVE FALSE
    <3>1. CASE EndKept(t)
        BY <2>5, <3>1 DEF EndKept, Over
    <3>2. CASE EndRead(t)
        <4>1. /\ conns[cmd].out # <<>> /\ conns[cmd].out \in Seq(Reply)
              /\ conns[cmd].out[1].of = Command(t)
              /\ Over(t, conns[cmd].out[1].code = 220)
            BY <1>2, <3>2, ReadIs
        <4>2. job[t].op = "TUNE" /\ job[t].stage = "second" /\ job[t].pc # "idle"
            BY <2>5, <3>2, <4>1 DEF Over, EndRead
        <4>3. Command(t) = <<"TUNE", job[t].ch, 0>>
            BY <4>2, CommandIs
        <4>4. 1 \in DOMAIN conns[cmd].out /\ conns[cmd].out[1].of[1] = "TUNE"
            BY <4>1, <4>3
        <4> QED
            BY <2>3, <4>4
    <3> QED
        BY <1>2, <3>1, <3>2
  <2> QED
    BY <1>1, <2>2, <2>4, <2>5 DEF DataInv, Right
<1>4. CASE data' # data
  <2> DEFINE s == job[t].sock
  <2>1. /\ job[t].pc = "accept" /\ data' = s /\ s \in DOMAIN socks /\ EndKept(t)
        /\ tuned' => tuned
    <3>1. PICK ok : Over(t, ok)
        BY EndSame
    <3>2. job[t].pc = "accept" /\ data' = s /\ s \in DOMAIN socks
        BY <1>2, <1>4, <3>1 DEF Over
    <3>3. EndKept(t)
        BY <1>2, <3>2 DEF EndRead
    <3> QED
        BY <3>2, <3>3 DEF EndKept, Over
  <2>2. /\ socks'[s].chans = socks[s].chans /\ socks'[s].server = socks[s].server
        /\ socks'[s].conn = socks[s].conn /\ conns' = conns
    BY <1>1, <2>1 DEF SocksQuiet, EndKept
  <2>3. Using(s)
    BY <1>2, <2>1, <2>2 DEF Using
  <2>4. Right(s)
    BY <2>1, <2>3 DEF AwaitedInv
  <2> QED
    BY <1>1, <1>2, <2>1, <2>2, <2>4 DEF Right
<1> QED
    BY <1>3, <1>4

(* A thread comes to accept only with the answer to its PORT.              *)
LEMMA EndAwaited ==
    ASSUME Typed, JobsInv, PlacesInv, PendingInv, LastInv, NEW t \in Threads,
           EndStep(t)
    PROVE  AwaitedInv'
<1>1. SameConns /\ SocksQuiet /\ channel' = channel
    BY EndSame
<1> DEFINE k == conns[cmd]
           s == job[t].sock
<1> SUFFICES ASSUME NEW u \in Threads, job'[u].pc = "accept", ~mismatch'
             PROVE  /\ Absent(conns', job'[u].sock)
                    /\ Using(job[u].sock)' => Right(job[u].sock)'
    BY DEF AwaitedInv, Using
<1>2. PICK ok : Over(t, ok)
    BY EndSame
<1>3. u = t
  <2>1. u # t => job'[u] = job[u] /\ job[u].pc # "accept"
    BY <1>2, OverThread, Others DEF EndStep
  <2> QED
    BY <2>1
<1>4. /\ JobAccepts(t) /\ job[t].op = "OPEN" /\ job[t].stage = "first"
      /\ job[t].pc = "reply" /\ EndRead(t) /\ data' \in {data, 0}
      /\ tuned' => tuned
  <2>1. job \in [Threads -> Job]
    BY DEF Typed
  <2>2. ~JobDone(t)
    BY <1>3, <2>1 DEF JobDone, Idle
  <2>3. ASSUME NEW stage, NEW pc \in {"send", "check"}, NEW lock
        PROVE  ~JobGoesOn(t, stage, pc, lock)
    BY <1>3, <2>1 DEF JobGoesOn, Job
  <2>4. ~Over(t, FALSE)
    BY <2>2, <2>3 DEF Over
  <2>5. EndRead(t)
    BY <2>4 DEF EndStep, EndKept, EndDropped
  <2> QED
    BY <1>2, <2>2, <2>3, <2>5 DEF Over, EndRead
<1>5. /\ cmd \in DOMAIN conns /\ cmd' = cmd /\ k \in Connection
      /\ k.out # <<>> /\ k.out \in Seq(Reply) /\ k.out[1].of = Command(t)
      /\ conns'[cmd].out = Tail(k.out) /\ ~mismatch
  <2>1. EndRead(t) /\ cmd' = cmd
    BY <1>4 DEF EndRead
  <2>2. /\ ~mismatch /\ cmd \in DOMAIN conns /\ conns[cmd] \in Connection
        /\ conns[cmd].out # <<>> /\ conns[cmd].out \in Seq(Reply)
        /\ conns[cmd].out[1].of = Command(t)
        /\ conns'[cmd].out = Tail(conns[cmd].out)
    BY <2>1, ReadIs
  <2> QED
    BY <2>1, <2>2
<1>6. job'[t].sock = s
    BY <1>4 DEF JobAccepts, Typed, Job
<1>7. s # 0 /\ s \in DOMAIN socks
    BY <1>4 DEF JobsInv, JobInv
<1>8. LastPort(k, s)
    BY <1>4, <1>7 DEF LastInv
<1>9. 1 \in DOMAIN k.out /\ IsPort(k.out[1].of, s)
  <2>1. Command(t) = <<"PORT", s, 0>>
    BY <1>4, CommandIs
  <2> QED
    BY <1>5, <2>1 DEF IsPort
<1>10. Absent(conns', s)
  <2>1. ASSUME NEW c \in DOMAIN conns, NEW i \in DOMAIN conns[c].in,
               IsPort(conns[c].in[i], s)
        PROVE  FALSE
    <3>1. Fresh(conns, socks, data, s)
        BY <2>1 DEF PendingInv
    <3> QED
        BY <1>5, <1>9, <3>1 DEF Fresh
  <2>2. Absent(conns, s)
    BY <2>1 DEF Absent
  <2> QED
    BY <1>1, <2>2, AbsentKept
<1>11. Right(job[t].sock)'
  <2>1. Len(k.out) = 1
    BY <1>8, <1>9 DEF LastPort
  <2>2. DOMAIN conns'[cmd].out = {}
    <3> DEFINE o == k.out
    <3>1. o \in Seq(Reply) /\ Len(o) = 1 /\ o # <<>>
        BY <1>5, <2>1
    <3> HIDE DEF o
    <3>2. DOMAIN Tail(o) = {}
        BY <3>1, OneTail
    <3> QED
        BY <1>5, <3>2 DEF o
  <2>3. tuned => socks[s].chans \subseteq {channel}
    BY <1>5, <1>8, <1>9, <2>1 DEF LastPort
  <2>4. tuned' => socks'[s].chans \subseteq {channel'}
    BY <1>1, <1>4, <1>7, <2>3 DEF SocksQuiet
  <2>5. \A i \in DOMAIN conns'[cmd'].out : conns'[cmd'].out[i].of[1] # "TUNE"
    BY <1>5, <2>2
  <2> QED
    BY <1>6, <2>4, <2>5 DEF Right
<1> QED
    BY <1>3, <1>6, <1>10, <1>11

LEMMA EndInv ==
    ASSUME Typed, Typed', ChanInv, NEW t \in Threads, EndStep(t)
    PROVE  ChanInv'
<1>1. /\ JobsInv /\ PlacesInv /\ OnceInv /\ PendingInv /\ PreparedInv
      /\ SocketInv /\ UntappedInv /\ StepsInv /\ LastInv /\ DataInv /\ AwaitedInv
    BY DEF ChanInv
<1>2. /\ SameConns /\ SocksQuiet /\ cmd' \in {cmd, 0} /\ cmdLock \in {Nobody, t}
    BY EndSame DEF EndStep
<1>3. PICK ok : Over(t, ok)
    BY EndSame
<1>4. /\ data' \in 0 .. Len(socks)
      /\ data' \in {data, 0} \/ (data' \in DOMAIN socks /\ socks[data'].came)
    BY <1>1, <1>3, OverData
<1>5. \A u \in Threads : job'[u].sock # 0 /\ job'[u].pc = "send" =>
             job[u].sock = job'[u].sock /\ job[u].pc = "send"
    BY <1>3, OverThread
<1>6. JobsInv' /\ LastInv' /\ StepsInv' /\ DataInv' /\ AwaitedInv'
    BY <1>1, <1>2, <1>3, EndJobs, EndLast, EndSteps, EndData, EndAwaited
<1>7. PlacesInv' /\ OnceInv' /\ PendingInv' /\ SocketInv' /\ UntappedInv'
    BY <1>1, <1>2, <1>4, PlacesKept, OnceKept, PendingKept, SocketKept, UntappedKept
<1>8. PreparedInv'
    BY <1>1, <1>2, <1>4, <1>5, PreparedKept
<1> QED
    BY <1>6, <1>7, <1>8 DEF ChanInv

-----------------------------------------------------------------------------
(* Steps of a thread before its command is sent                            *)

(* Nothing happens but to threads that have no socket prepared.            *)
LEMMA CalmInv ==
    ASSUME Typed, Typed', ChanInv, SameConns, socks' = socks, data' = data,
           cmd' = cmd, mismatch => mismatch',
           tuned' => tuned /\ channel' = channel,
           \A u \in Threads : job'[u].sock # 0 => job'[u] = job[u],
           JobsInv', StepsInv', LastInv'
    PROVE  ChanInv'
<1>1. /\ JobsInv /\ PlacesInv /\ OnceInv /\ PendingInv /\ PreparedInv
      /\ SocketInv /\ UntappedInv /\ DataInv /\ AwaitedInv
    BY DEF ChanInv
<1>2. SocksQuiet
    BY <1>1 DEF SocksQuiet, PlacesInv
<1>3. data' \in 0 .. Len(socks)
    BY <1>1 DEF PlacesInv
<1>4. PlacesInv' /\ OnceInv' /\ PendingInv' /\ SocketInv' /\ UntappedInv'
    BY <1>1, <1>2, <1>3, PlacesKept, OnceKept, PendingKept, SocketKept, UntappedKept
<1>5. PreparedInv'
    BY <1>1, <1>2, PreparedKept
<1>6. ASSUME NEW d, Using(d)', Using(d) => Right(d)
      PROVE  Right(d)'
  <2>1. Using(d) /\ Right(d) /\ cmd \in DOMAIN conns
    BY <1>6 DEF Using, Typed
  <2>2. \A i \in DOMAIN conns[cmd].out : conns[cmd].out[i].of[1] # "TUNE"
    BY <2>1 DEF Right
  <2>3. SameConn(conns[cmd], conns'[cmd]) /\ conns[cmd] \in Connection
    BY <2>1, ConnTyped DEF SameConns
  <2>4. \A i \in DOMAIN conns'[cmd].out : conns'[cmd].out[i].of[1] # "TUNE"
    BY <2>2, <2>3, SameOut
  <2>5. tuned' => socks'[d].chans \subseteq {channel'}
    BY <2>1 DEF Right
  <2> QED
    BY <2>4, <2>5 DEF Right
<1>7. DataInv'
    BY <1>1, <1>6 DEF DataInv
<1>8. AwaitedInv'
  <2> SUFFICES ASSUME NEW u \in Threads, job'[u].pc = "accept"
               PROVE  /\ ~mismatch' => Absent(conns', job'[u].sock)
                      /\ Using(job[u].sock)' => Right(job[u].sock)'
    BY DEF AwaitedInv
  <2>1. job'[u] = job[u]
    BY DEF JobsInv, JobInv
  <2>2. ~mismatch' => Absent(conns', job[u].sock)
    BY <1>1, <2>1, AbsentKept DEF AwaitedInv
  <2>3. PICK d : d = job[u].sock
    OBVIOUS
  <2>4. Using(d) => Right(d)
    BY <1>1, <2>1, <2>3 DEF AwaitedInv
  <2>5. Using(d)' => Right(d)'
    BY <1>6, <2>4
  <2>6. Using(job[u].sock)' => Right(job[u].sock)'
    BY <2>1, <2>3, <2>5 DEF Using, Right
  <2> QED
    BY <2>1, <2>2, <2>6
<1> QED
    BY <1>4, <1>5, <1>7, <1>8 DEF ChanInv

LEMMA SameConnections == ASSUME Typed, conns' = conns PROVE SameConns
BY DEF SameConns, SameConn

(* The invariants of what is on the way see of a thread what it waits for. *)
LEMMA CalmSteps ==
    ASSUME Typed, StepsInv, LastInv, NEW t \in Threads,
           UNCHANGED <<conns, socks, cmd, cmdLock, mismatch>>,
           tuned' => tuned /\ channel' = channel,
           job[t].pc \notin Waiting, job'[t].pc \notin Waiting,
           \A u \in Threads : u # t => job'[u] = job[u]
    PROVE  StepsInv' /\ LastInv'
<1>1. Waited' <=> Waited
    BY DEF Waited, HasToWait
<1>2. Waited => job'[cmdLock] = job[cmdLock]
    BY DEF Waited, HasToWait
<1>3. StepsInv'
  <2> SUFFICES ASSUME cmd # 0, conns[cmd].server PROVE StepInv(conns[cmd])'
    BY DEF StepsInv
  <2>1. StepInv(conns[cmd])
    BY DEF StepsInv
  <2> DEFINE k == conns[cmd]
  <2>2. Way(k)' = Way(k) /\ FirstOf(k)' = FirstOf(k) /\ k' = k
    BY DEF Way, FirstOf
  <2> QED
    BY <1>1, <1>2, <2>1, <2>2 DEF StepInv
<1>4. LastInv'
  <2> SUFFICES ASSUME NEW u \in Threads, job'[u].sock # 0, job'[u].pc = "reply"
               PROVE  LastPort(conns[cmd], job[u].sock)'
    BY DEF LastInv
  <2>1. job'[u] = job[u]
    BY DEF Waiting
  <2>2. LastPort(conns[cmd], job[u].sock)
    BY <2>1 DEF LastInv
  <2> QED
    BY <2>1, <2>2 DEF LastPort
<1> QED
    BY <1>3, <1>4

LEMMA BeginChan ==
    ASSUME Typed, Typed', ChanInv, NEW t \in Threads,
           NEW op \in {"PROV", "TUNE", "PRIO", "CLOSE", "OPEN", "QUIT"},
           NEW ch, NEW prio, Begin(t, op, ch, prio)
    PROVE  ChanInv'
<1>1. /\ job[t] = Idle /\ (UsesDevice(op) => devLock = Nobody /\ devLock' = t)
      /\ ~UsesDevice(op) => devLock' = devLock
      /\ channel' = (IF op = "TUNE" THEN ch ELSE channel)
      /\ tuned' => tuned /\ op # "TUNE"
      /\ UNCHANGED <<cmdLock, cmd, data, conns, socks, mismatch>>
    BY DEF Begin
<1>2. /\ job'[t].op = op /\ job'[t].ch = ch /\ job'[t].sock = 0
      /\ job'[t].stage \in {"close", "first"} /\ job'[t].pc \in {"send", "check"}
      /\ \A u \in Threads : u # t => job'[u] = job[u]
    BY DEF Begin, Typed, Idle
<1>3. ASSUME NEW u \in Threads, u # t PROVE JobInv(u)'
  <2>1. JobInv(u) /\ job'[u] = job[u]
    BY <1>2, <1>3 DEF ChanInv, JobsInv
  <2>2. UntappedNow' <=> UntappedNow
    BY <1>1 DEF UntappedNow, Untapped
  <2>3. job[u].op \in {"TUNE", "OPEN"} => devLock' = u
    BY <1>1, <2>1, SessionAssumption DEF JobInv, Nobody
  <2>4. job[u].op = "TUNE" => channel' = channel /\ ~tuned'
    BY <1>1, <2>1, SessionAssumption DEF JobInv, Nobody, UsesDevice
  <2>5. Command(u)' = Command(u)
    BY <2>1 DEF Command
  <2> QED
    BY <1>1, <2>1, <2>2, <2>3, <2>4, <2>5 DEF JobInv
<1>4. JobInv(t)'
  <2>1. op = "TUNE" => ch = channel' /\ ~tuned'
    BY <1>1
  <2>2. op \in {"TUNE", "OPEN"} => devLock' = t
    BY <1>1 DEF UsesDevice
  <2> QED
    BY <1>2, <2>1, <2>2 DEF JobInv, Waiting
<1>5. JobsInv'
    BY <1>3, <1>4 DEF JobsInv
<1>6. tuned' => tuned /\ channel' = channel
    BY <1>1
<1>7. job[t].pc \notin Waiting /\ job'[t].pc \notin Waiting
    BY <1>1, <1>2 DEF Idle, Waiting
<1>8. StepsInv' /\ LastInv'
    BY <1>1, <1>2, <1>6, <1>7, CalmSteps DEF ChanInv
<1>9. SameConns
    BY <1>1, SameConnections
<1> QED
    BY <1>1, <1>2, <1>5, <1>6, <1>8, <1>9, CalmInv

(* A thread goes on to what it does next, and keeps what it has.           *)
LEMMA PcJobs ==
    ASSUME Typed, JobsInv, NEW t \in Threads, cmdLock \in {Nobody, t},
           job[t].pc \in {"check", "vers"}, NEW pc \in {"greet", "send"},
           NEW sent, pc = "greet" => sent = <<"HELLO", 0, 0>>,
           job' = [job EXCEPT ![t].pc = pc, ![t].sent = sent],
           pc # "send" => cmdLock' = t /\ cmd' # 0,
           UNCHANGED <<devLock, channel, tuned, socks>>
    PROVE  /\ JobsInv' /\ job'[t].pc = pc /\ job'[t].sock = 0 /\ job'[t].sent = sent
           /\ \A u \in Threads : u # t => job'[u] = job[u]
<1>1. job \in [Threads -> Job] /\ job[t] \in Job /\ JobInv(t)
    BY DEF Typed, JobsInv
<1>2. /\ job'[t].pc = pc /\ job'[t].sent = sent /\ job'[t].sock = job[t].sock
      /\ job'[t].op = job[t].op /\ job'[t].stage = job[t].stage
      /\ job'[t].ch = job[t].ch
      /\ \A u \in Threads : u # t => job'[u] = job[u]
    BY <1>1 DEF Job
<1>3. job[t].sock = 0 /\ job[t].stage # "second"
    BY <1>1 DEF JobInv
<1>4. JobInv(t)'
    BY <1>1, <1>2, <1>3 DEF JobInv, Waiting
<1>5. ASSUME NEW u \in Threads, u # t PROVE JobInv(u)'
  <2>1. /\ job'[u] = job[u] /\ job[u].pc \notin Waiting /\ job[u].stage # "second"
        /\ job[u].pc # "accept" /\ JobInv(u)
    BY <1>2, <1>5, Others DEF JobsInv
  <2> QED
    BY <2>1 DEF JobInv, Waiting
<1> QED
    BY <1>2, <1>3, <1>4, <1>5 DEF JobsInv

LEMMA CheckChan ==
    ASSUME Typed, Typed', ChanInv, NEW t \in Threads, CheckConnection(t)
    PROVE  ChanInv'
<1>1. /\ job[t].pc = "check" /\ cmdLock = Nobody /\ job \in [Threads -> Job]
      /\ job' = [job EXCEPT ![t].pc = "send"]
      /\ UNCHANGED <<cmdLock, devLock, cmd, data, tuned, channel, conns, socks, mismatch>>
    BY DEF CheckConnection, clientVars, Typed
<1>2. job' = [job EXCEPT ![t].pc = "send", ![t].sent = job[t].sent]
    BY <1>1 DEF Job
<1>3. /\ JobsInv' /\ job'[t].pc = "send" /\ job'[t].sock = 0
      /\ \A u \in Threads : u # t => job'[u] = job[u]
    BY <1>1, <1>2, PcJobs DEF ChanInv
<1>4. job[t].pc \notin Waiting /\ job'[t].pc \notin Waiting
    BY <1>1, <1>3 DEF Waiting
<1>5. StepsInv' /\ LastInv'
    BY <1>1, <1>3, <1>4, CalmSteps DEF ChanInv
<1>6. SameConns
    BY <1>1, SameConnections
<1> QED
    BY <1>1, <1>3, <1>5, <1>6, CalmInv

(* The answer to VERS is read.                                             *)
LEMMA VersChan ==
    ASSUME Typed, Typed', ChanInv, NEW t \in Threads, job[t].pc = "vers",
           cmd # 0, conns[cmd].out # <<>>,
           conns' = [conns EXCEPT ![cmd].out = Tail(@)],
           job' = [job EXCEPT ![t].pc = "send"], cmdLock' = Nobody,
           mismatch => mismatch',
           UNCHANGED <<devLock, cmd, clientVars, socks>>
    PROVE  ChanInv'
<1>1. /\ JobsInv /\ StepsInv /\ job \in [Threads -> Job]
      /\ UNCHANGED <<data, channel, tuned>>
    BY DEF ChanInv, Typed, clientVars
<1>2. cmdLock = t
    BY <1>1 DEF JobsInv, JobInv, Waiting
<1>3. job' = [job EXCEPT ![t].pc = "send", ![t].sent = job[t].sent]
    BY <1>1 DEF Job
<1>4. /\ JobsInv' /\ job'[t].pc = "send" /\ job'[t].sock = 0
      /\ \A u \in Threads : u # t => job'[u] = job[u]
    BY <1>1, <1>2, <1>3, PcJobs
<1>5. /\ SameConns /\ conns'[cmd].in = conns[cmd].in
      /\ conns'[cmd].out = Tail(conns[cmd].out)
    BY ReadSame
<1>6. ~Waited' /\ Waited
  <2>1. Waited
    BY <1>2 DEF Waited, HasToWait, Waiting
  <2>2. ~Waited'
    BY SessionAssumption DEF Waited, HasToWait, Nobody
  <2> QED
    BY <2>1, <2>2
<1>7. LastInv'
  <2>1. ASSUME NEW u \in Threads PROVE ~(job'[u].sock # 0 /\ job'[u].pc = "reply")
    BY <1>1, <1>2, <1>4, Others DEF Waiting
  <2> QED
    BY <2>1 DEF LastInv
<1>8. StepsInv'
  <2> SUFFICES ASSUME conns'[cmd].server, ~mismatch', tuned, Way(conns'[cmd]) = 0
               PROVE  \/ conns'[cmd].streamer = NoStreamer
                      \/ conns'[cmd].streamer.ch = channel
    BY <1>1, <1>6 DEF StepsInv, StepInv
  <2> DEFINE k == conns[cmd]
  <2>6. cmd \in DOMAIN conns /\ k \in Connection
    BY DEF Typed
  <2>1. cmd \in DOMAIN conns /\ k \in Connection /\ SameConn(k, conns'[cmd])
    BY <1>5, <2>6 DEF SameConns
  <2>2. k.server /\ conns'[cmd].streamer = k.streamer
    BY <2>1 DEF SameConn
  <2>3. StepInv(k)
    BY <1>1, <2>2 DEF StepsInv
  <2>4. Len(k.in) + Len(Tail(k.out)) = 0
    BY <1>5 DEF Way
  <2>5. Way(k) = 1
    BY <2>1, <2>4, WayTail
  <2> QED
    BY <1>6, <2>2, <2>3, <2>5 DEF StepInv
<1> QED
    BY <1>1, <1>4, <1>5, <1>7, <1>8, CalmInv

(* A data connection is listened for.                                      *)
LEMMA ListenPlaces ==
    ASSUME Typed, PlacesInv, socks' = Append(CloseSock(socks, data), Sock(cmd)),
           data' = 0, UNCHANGED <<conns, cmd>>
    PROVE  /\ PlacesInv' /\ Len(socks') = Len(socks) + 1
           /\ \A s \in DOMAIN socks : /\ socks'[s].chans = socks[s].chans
                                      /\ socks'[s].came = socks[s].came
                                      /\ socks'[s].server = socks[s].server
                                      /\ socks'[s].conn = socks[s].conn
           /\ socks'[Len(socks) + 1] = Sock(cmd)
<1> DEFINE ss == CloseSock(socks, data)
<1>1. /\ ss \in Seq(Sockets) /\ Len(ss) = Len(socks)
      /\ \A s \in DOMAIN socks : /\ ss[s].chans = socks[s].chans
                                 /\ ss[s].came = socks[s].came
                                 /\ ss[s].server = socks[s].server
                                 /\ ss[s].conn = socks[s].conn
  <2>1. socks \in Seq(Sockets) /\ data \in 0 .. Len(socks)
    BY DEF PlacesInv
  <2> QED
    BY <2>1, QuietCloseOf DEF QuietOf
<1>2. Sock(cmd) \in Sockets /\ Sock(cmd).conn = cmd
  <2>1. cmd \in Nat
    BY DEF Typed
  <2> QED
    BY <2>1 DEF Sock, Sockets
<1>3. socks' = Append(ss, Sock(cmd))
    OBVIOUS
<1>4. socks \in Seq(Sockets)
    BY DEF PlacesInv
<1> HIDE DEF ss
<1>5. /\ socks' \in Seq(Sockets) /\ Len(socks') = Len(socks) + 1
      /\ \A s \in DOMAIN socks : socks'[s] = ss[s]
      /\ socks'[Len(socks) + 1] = Sock(cmd)
    BY <1>1, <1>2, <1>3, <1>4
<1>6. \A s \in DOMAIN socks : /\ socks'[s].chans = socks[s].chans
                              /\ socks'[s].came = socks[s].came
                              /\ socks'[s].server = socks[s].server
                              /\ socks'[s].conn = socks[s].conn
    BY <1>1, <1>5
<1>7. DOMAIN socks = 1 .. Len(socks) /\ DOMAIN socks' = 1 .. Len(socks) + 1
      /\ Len(socks) \in Nat
    BY <1>4, <1>5
<1>8. ASSUME NEW c \in DOMAIN conns PROVE Placed(conns[c], c, socks')
  <2>1. Placed(conns[c], c, socks)
    BY DEF PlacesInv
  <2> QED
    BY SMTT(40), <1>5, <1>6, <1>7, <2>1 DEF Placed
<1>9. \A s \in DOMAIN socks' : socks'[s].conn <= Len(conns)
  <2>1. cmd \in 0 .. Len(conns)
    BY DEF Typed
  <2>2. \A s \in DOMAIN socks : socks[s].conn <= Len(conns)
    BY DEF PlacesInv
  <2>3. ASSUME NEW s \in DOMAIN socks' PROVE socks'[s].conn <= Len(conns)
    <3>1. CASE s \in DOMAIN socks
        BY <1>6, <2>2, <3>1
    <3>2. CASE s = Len(socks) + 1
        BY <1>2, <1>5, <2>1, <3>2
    <3> QED
        BY <1>7, <3>1, <3>2
  <2> QED
    BY <2>3
<1>10. data' \in 0 .. Len(socks')
    BY <1>5, <1>7
<1>11. PlacesInv'
    BY <1>5, <1>8, <1>9, <1>10 DEF PlacesInv
<1> QED
    BY <1>5, <1>6, <1>11

(* No connection says anything of a socket that is new.                    *)
LEMMA NewIsFresh ==
    ASSUME PlacesInv, NEW ss, NEW n, n = Len(socks) + 1,
           ss[n].chans = {}, ~ss[n].came, ~ss[n].server
    PROVE  Fresh(conns, ss, 0, n) /\ Absent(conns, n)
<1>1. n # 0 /\ n \notin DOMAIN socks /\ n \notin 0 .. Len(socks)
    BY DEF PlacesInv
<1>2. ASSUME NEW c \in DOMAIN conns
      PROVE  /\ conns[c].live # n
             /\ \A i \in DOMAIN conns[c].out : ~IsPort(conns[c].out[i].of, n)
             /\ \A i \in DOMAIN conns[c].in : ~IsPort(conns[c].in[i], n)
  <2>1. Placed(conns[c], c, socks)
    BY DEF PlacesInv
  <2> QED
    BY <1>1, <2>1 DEF Placed, IsPort
<1> QED
    BY <1>1, <1>2 DEF Fresh, Absent

LEMMA ListenChan ==
    ASSUME Typed, Typed', ChanInv, NEW t \in Threads,
           job[t].pc = "send", cmdLock \in {Nobody, t},
           Command(t)[1] = "PORT", job[t].sock = 0,
           socks' = Append(CloseSock(socks, data), Sock(cmd)), data' = 0,
           job' = [job EXCEPT ![t].sock = Len(socks) + 1],
           UNCHANGED <<cmdLock, devLock, cmd, channel, tuned, conns, mismatch>>
    PROVE  ChanInv'
<1>1. /\ JobsInv /\ PlacesInv /\ OnceInv /\ PendingInv /\ PreparedInv
      /\ SocketInv /\ UntappedInv /\ StepsInv /\ LastInv /\ DataInv
    BY DEF ChanInv
<1>2. /\ PlacesInv' /\ Len(socks') = Len(socks) + 1
      /\ \A s \in DOMAIN socks : /\ socks'[s].chans = socks[s].chans
                                 /\ socks'[s].came = socks[s].came
                                 /\ socks'[s].server = socks[s].server
                                 /\ socks'[s].conn = socks[s].conn
      /\ socks'[Len(socks) + 1] = Sock(cmd)
    BY <1>1, ListenPlaces
<1> DEFINE n == Len(socks) + 1
<1>3. /\ DOMAIN socks = 1 .. Len(socks) /\ DOMAIN socks' = 1 .. n /\ Len(socks) \in Nat
      /\ n # 0 /\ n \in DOMAIN socks'
    BY <1>1, <1>2 DEF PlacesInv
<1>4. socks'[n].chans = {} /\ ~socks'[n].came /\ ~socks'[n].server
    BY <1>2 DEF Sock
<1> HIDE DEF n
<1>5. job[t].op = "OPEN" /\ job[t].stage = "first" /\ devLock = t
  <2>1. job[t].op = "OPEN" /\ job[t].stage = "first"
    BY CommandIs
  <2> QED
    BY <1>1, <2>1 DEF JobsInv, JobInv
<1>6. /\ job'[t].sock = n /\ job'[t].pc = "send" /\ job'[t].op = "OPEN"
      /\ job'[t].stage = "first"
      /\ \A u \in Threads : u # t => job'[u] = job[u]
    BY <1>5 DEF Typed, Job, n
<1>7. ASSUME NEW u \in Threads, u # t
      PROVE  /\ job'[u] = job[u] /\ JobInv(u) /\ job[u].sock = 0 /\ job[u].op # "OPEN"
             /\ job[u].pc \notin Waiting /\ job[u].stage # "second"
             /\ job[u].pc # "accept"
    BY <1>1, <1>5, <1>6, <1>7, Others DEF JobsInv, JobInv
<1>8. JobsInv'
  <2>1. JobInv(t)'
    BY <1>3, <1>5, <1>6 DEF JobInv, Waiting
  <2>2. ASSUME NEW u \in Threads, u # t PROVE JobInv(u)'
    BY <1>7, <2>2 DEF JobInv, Waiting
  <2> QED
    BY <2>1, <2>2 DEF JobsInv
<1>9. OnceInv' /\ UntappedInv'
    BY <1>1 DEF OnceInv, UntappedInv, Untapped
<1>10. PendingInv'
  <2> SUFFICES ASSUME NEW c \in DOMAIN conns, NEW i \in DOMAIN conns[c].in, NEW s,
                      IsPort(conns[c].in[i], s)
               PROVE  Fresh(conns, socks', 0, s)
    BY Zenon DEF PendingInv
  <2>1. Fresh(conns, socks, data, s) /\ Placed(conns[c], c, socks)
    BY <1>1 DEF PendingInv, PlacesInv
  <2>2. s \in DOMAIN socks
    BY <2>1 DEF Placed, IsPort
  <2> QED
    BY <1>2, <1>3, <2>1, <2>2 DEF Fresh
<1>11. PreparedInv'
  <2>1. Fresh(conns, socks', 0, n) /\ Absent(conns, n)
    BY <1>1, <1>4, NewIsFresh DEF n
  <2>2. \A u \in Threads : job'[u].sock # 0 => job'[u].sock = n
    BY <1>6, <1>7
  <2> QED
    BY <2>1, <2>2 DEF PreparedInv
<1>12. SocketInv'
  <2> SUFFICES ASSUME NEW s \in DOMAIN socks'
               PROVE  /\ socks'[s].chans = {} \/ \E x \in Int : socks'[s].chans = {x}
                      /\ socks'[s].server => \E c \in DOMAIN conns : conns[c].live = s
    BY DEF SocketInv
  <2>1. CASE s = n
    BY <1>4, <2>1
  <2>2. CASE s \in DOMAIN socks
    BY ZenonT(40), <1>1, <1>2, <2>2 DEF SocketInv
  <2> QED
    BY <1>3, <2>1, <2>2 DEF n
<1>13. ~Waited /\ ~Waited'
  <2>1. \A u \in Threads : job[u].pc \notin Waiting \/ u # cmdLock
    BY <1>7 DEF Waiting
  <2>2. \A u \in Threads : job'[u].pc \notin Waiting \/ u # cmdLock
    BY <1>6, <1>7 DEF Waiting
  <2> QED
    BY <2>1, <2>2 DEF Waited, HasToWait
<1>14. StepsInv'
    BY <1>1, <1>13 DEF StepsInv, StepInv, Way
<1>15. LastInv'
  <2>1. ASSUME NEW u \in Threads PROVE ~(job'[u].sock # 0 /\ job'[u].pc = "reply")
    BY <1>6, <1>7
  <2> QED
    BY <2>1 DEF LastInv
<1>16. DataInv'
    BY DEF DataInv, Using
<1>17. AwaitedInv'
    BY <1>6, <1>7 DEF AwaitedInv
<1> QED
    BY <1>2, <1>8, <1>9, <1>10, <1>11, <1>12, <1>14, <1>15, <1>16, <1>17 DEF ChanInv

(* The client connects.                                                    *)
LEMMA ConnectConns ==
    ASSUME Typed, conns' = Append(CloseClient(conns, cmd), Conn)
    PROVE  LET n == Len(conns) + 1
           IN /\ Len(conns') = n /\ DOMAIN conns = 1 .. Len(conns) /\ DOMAIN conns' = 1 .. n
              /\ Len(conns) \in Nat /\ conns'[n] = Conn
              /\ \A c \in DOMAIN conns : /\ conns'[c].in = conns[c].in
                                         /\ conns'[c].out = conns[c].out
                                         /\ conns'[c].live = conns[c].live
<1> DEFINE cs == CloseClient(conns, cmd)
<1>1. conns \in Seq(Connection) /\ cmd \in 0 .. Len(conns)
    BY DEF Typed
<1>2. cs \in Seq(Connection) /\ Len(cs) = Len(conns)
    BY <1>1, CloseClientTyped
<1>3. \A c \in DOMAIN conns : /\ cs[c].in = conns[c].in /\ cs[c].out = conns[c].out
                              /\ cs[c].live = conns[c].live
  <2>1. CASE cmd = 0
    BY <2>1 DEF CloseClient
  <2>2. CASE cmd # 0
    <3>1. conns[cmd] \in Connection /\ cmd \in DOMAIN conns
        BY <1>1, <2>2
    <3> DEFINE k == [conns[cmd] EXCEPT !.client = FALSE]
    <3>2. k.in = conns[cmd].in /\ k.out = conns[cmd].out /\ k.live = conns[cmd].live
        BY <3>1 DEF Connection
    <3>3. cs = [conns EXCEPT ![cmd] = k]
        BY <2>2 DEF CloseClient
    <3> HIDE DEF k, cs
    <3> QED
        BY <3>1, <3>2, <3>3
  <2> QED
    BY <2>1, <2>2
<1>4. conns' = Append(cs, Conn)
    OBVIOUS
<1> HIDE DEF cs
<1>5. /\ Len(conns') = Len(cs) + 1 /\ DOMAIN conns' = 1 .. Len(cs) + 1
      /\ conns'[Len(cs) + 1] = Conn
      /\ \A c \in 1 .. Len(cs) : conns'[c] = cs[c]
    BY <1>2, <1>4
<1>6. DOMAIN conns = 1 .. Len(conns) /\ Len(conns) \in Nat
    BY <1>1
<1> QED
    BY <1>2, <1>3, <1>5, <1>6

LEMMA ConnIs ==
    /\ Conn.in = <<>> /\ DOMAIN Conn.in = {} /\ Conn.live = 0 /\ Len(Conn.in) = 0
    /\ DOMAIN Conn.out = {1} /\ Len(Conn.out) = 1
    /\ Conn.out[1].of = <<"HELLO", 0, 0>> /\ Conn.streamer = NoStreamer
BY DEF Conn

LEMMA ConnectChan ==
    ASSUME Typed, Typed', ChanInv, NEW t \in Threads,
           job[t].pc = "check", cmdLock = Nobody,
           conns' = Append(CloseClient(conns, cmd), Conn), cmd' = Len(conns) + 1,
           cmdLock' = t,
           job' = [job EXCEPT ![t].pc = "greet", ![t].sent = <<"HELLO", 0, 0>>],
           UNCHANGED <<devLock, data, channel, tuned, socks, mismatch>>
    PROVE  ChanInv'
<1> DEFINE n == Len(conns) + 1
<1>1. /\ JobsInv /\ PlacesInv /\ OnceInv /\ PendingInv /\ PreparedInv
      /\ SocketInv /\ UntappedInv
    BY DEF ChanInv
<1>2. /\ Len(conns') = n /\ DOMAIN conns = 1 .. Len(conns) /\ DOMAIN conns' = 1 .. n
      /\ Len(conns) \in Nat /\ conns'[n] = Conn
      /\ \A c \in DOMAIN conns : /\ conns'[c].in = conns[c].in
                                 /\ conns'[c].out = conns[c].out
                                 /\ conns'[c].live = conns[c].live
    BY ConnectConns
<1>3. cmd' = n /\ n # 0 /\ n \in Nat /\ DOMAIN conns' = DOMAIN conns \cup {n}
    BY <1>2
<1> HIDE DEF n
<1>4. /\ JobsInv' /\ job'[t].pc = "greet" /\ job'[t].sock = 0
      /\ job'[t].sent = <<"HELLO", 0, 0>>
      /\ \A u \in Threads : u # t => job'[u] = job[u]
    BY <1>1, <1>3, PcJobs
<1>5. ASSUME NEW u \in Threads, u # t
      PROVE  job'[u] = job[u] /\ job[u].pc \notin Waiting /\ job[u].pc # "accept"
    BY <1>1, <1>4, <1>5, Others
<1>6. PlacesInv'
  <2>1. ASSUME NEW c \in DOMAIN conns' PROVE Placed(conns'[c], c, socks)
    <3>1. CASE c = n
        BY SMTT(40), <1>1, <1>2, <3>1, ConnIs DEF Placed, PlacesInv
    <3>2. CASE c \in DOMAIN conns
        <4>1. Placed(conns[c], c, socks)
            BY <1>1, <3>2 DEF PlacesInv
        <4> QED
            BY ZenonT(40), <1>2, <3>2, <4>1 DEF Placed
    <3> QED
        BY SMTT(40), <1>3, <2>1, <3>1, <3>2
  <2>2. \A s \in DOMAIN socks : socks[s].conn <= Len(conns')
    <3> SUFFICES ASSUME NEW s \in DOMAIN socks PROVE socks[s].conn <= Len(conns')
        OBVIOUS
    <3>1. socks[s].conn <= Len(conns) /\ socks \in Seq(Sockets)
        BY <1>1 DEF PlacesInv
    <3>4. socks[s] \in Sockets
        BY <3>1
    <3>2. socks[s].conn \in Nat
        BY <3>4 DEF Sockets
    <3> QED
        BY <1>2, <3>1, <3>2 DEF n
  <2>3. cmd' \in {0, Len(conns')}
    BY <1>2, <1>3
  <2> QED
    BY <1>1, <2>1, <2>2, <2>3 DEF PlacesInv
<1>7. OnceInv'
  <2> SUFFICES ASSUME NEW c \in DOMAIN conns', NEW d \in DOMAIN conns'
               PROVE  Once(conns'[c].in, conns'[d].in, c, d)
    BY DEF OnceInv
  <2>1. CASE c = n \/ d = n
    BY <1>2, <2>1, ConnIs DEF Once
  <2>2. CASE c \in DOMAIN conns /\ d \in DOMAIN conns
    BY <1>1, <1>2, <2>2 DEF OnceInv
  <2> QED
    BY <1>3, <2>1, <2>2
<1>8. ASSUME NEW s \in DOMAIN socks, Fresh(conns, socks, data, s)
      PROVE  Fresh(conns', socks, data, s)
  <2>1. s # 0
    BY <1>1 DEF PlacesInv
  <2>2. ASSUME NEW c \in DOMAIN conns'
        PROVE  conns'[c].live # s /\ \A i \in DOMAIN conns'[c].out : ~IsPort(conns'[c].out[i].of, s)
    <3>1. CASE c = n
        BY <1>2, <2>1, <3>1, ConnIs DEF IsPort
    <3>2. CASE c \in DOMAIN conns
        BY <1>2, <1>8, <3>2 DEF Fresh
    <3> QED
        BY <1>3, <3>1, <3>2
  <2> QED
    BY <1>8, <2>2 DEF Fresh
<1>9. PendingInv'
  <2> SUFFICES ASSUME NEW c \in DOMAIN conns', NEW i \in DOMAIN conns'[c].in, NEW s,
                      IsPort(conns'[c].in[i], s)
               PROVE  Fresh(conns', socks, data, s)
    BY Zenon DEF PendingInv
  <2>1. c \in DOMAIN conns /\ conns'[c].in = conns[c].in
    BY <1>2, <1>3, ConnIs
  <2>2. Fresh(conns, socks, data, s) /\ Placed(conns[c], c, socks)
    BY <1>1, <2>1 DEF PendingInv, PlacesInv
  <2>3. s \in DOMAIN socks
    BY <2>1, <2>2 DEF Placed, IsPort
  <2> QED
    BY <1>8, <2>2, <2>3
<1>10. PreparedInv'
  <2> SUFFICES ASSUME NEW u \in Threads, job'[u].sock # 0, job'[u].pc = "send"
               PROVE  Fresh(conns', socks, data, job'[u].sock) /\ Absent(conns', job'[u].sock)
    BY DEF PreparedInv
  <2>1. job'[u] = job[u] /\ u # t
    BY <1>4
  <2> DEFINE s == job[u].sock
  <2>2. Fresh(conns, socks, data, s) /\ Absent(conns, s) /\ s \in DOMAIN socks
    BY <1>1, <2>1 DEF PreparedInv, JobsInv, JobInv
  <2> HIDE DEF s
  <2>3. Fresh(conns', socks, data, s)
    BY <1>8, <2>2
  <2>4. Absent(conns', s)
    BY <1>2, <1>3, <2>2, ConnIs DEF Absent
  <2> QED
    BY <2>1, <2>3, <2>4 DEF s
<1>11. SocketInv'
  <2> SUFFICES ASSUME NEW s \in DOMAIN socks
               PROVE  /\ socks[s].chans = {} \/ \E x \in Int : socks[s].chans = {x}
                      /\ socks[s].server => \E c \in DOMAIN conns' : conns'[c].live = s
    BY DEF SocketInv
  <2>1. socks[s].server => \E c \in DOMAIN conns : conns[c].live = s
    BY <1>1 DEF SocketInv
  <2> QED
    BY SMTT(40), <1>1, <1>2, <1>3, <2>1 DEF SocketInv
<1>12. UntappedInv'
  <2> SUFFICES ASSUME NEW c \in DOMAIN conns', NEW i \in DOMAIN conns'[c].in,
                      conns'[c].in[i][1] = "TUNE"
               PROVE  Untapped(conns'[c], i)
    BY DEF UntappedInv
  <2>1. c \in DOMAIN conns /\ conns'[c].in = conns[c].in /\ conns'[c].live = conns[c].live
    BY <1>2, <1>3, ConnIs
  <2>2. Untapped(conns[c], i)
    BY <1>1, <2>1 DEF UntappedInv
  <2> QED
    BY <2>1, <2>2, UntappedSame
<1>13. StepsInv'
  <2>1. Way(Conn) = 1 /\ FirstOf(Conn) = <<"HELLO", 0, 0>> /\ cmdLock' = t
    BY ConnIs DEF Way, FirstOf
  <2>3. conns'[cmd'] = Conn /\ job'[cmdLock'].sent = <<"HELLO", 0, 0>>
    BY <1>2, <1>3, <1>4, <2>1
  <2>4. Way(conns[cmd])' = 1 /\ FirstOf(conns[cmd])' = <<"HELLO", 0, 0>>
    BY <2>1, <2>3 DEF Way, FirstOf
  <2>5. Conn.out[1].of[1] # "TUNE"
    BY ConnIs
  <2>2. StepInv(conns[cmd])'
    <3>3. Way(conns[cmd])' >= 1
        BY <2>4
    <3>4. FirstOf(conns[cmd])' = job'[cmdLock'].sent
        BY <2>3, <2>4, Zenon
    <3>1. Way(conns[cmd])' >= 1 /\ FirstOf(conns[cmd])' = job'[cmdLock'].sent
        BY <3>3, <3>4
    <3>2. conns'[cmd'].streamer = NoStreamer /\ conns'[cmd'].out[1].of[1] # "TUNE"
        BY <2>3, <2>5, ConnIs
    <3> QED
        BY <3>1, <3>2, Zenon DEF StepInv
  <2> QED
    BY <2>2 DEF StepsInv
<1>14. LastInv'
  <2>1. ASSUME NEW u \in Threads PROVE ~(job'[u].sock # 0 /\ job'[u].pc = "reply")
    BY <1>4, <1>5 DEF Waiting
  <2> QED
    BY <2>1 DEF LastInv
<1>15. DataInv'
  <2>1. ASSUME Using(data)' PROVE FALSE
    <3>1. data # 0 /\ socks[data].conn = n
        BY <1>3, <2>1 DEF Using
    <3>2. data \in DOMAIN socks
        BY <1>1, <3>1 DEF PlacesInv
    <3>3. socks[data].conn <= Len(conns)
        BY <1>1, <3>2 DEF PlacesInv
    <3> QED
        BY <1>2, <3>1, <3>3 DEF n
  <2> QED
    BY <2>1 DEF DataInv
<1>16. AwaitedInv'
  <2>1. \A u \in Threads : job'[u].pc # "accept"
    BY <1>4, <1>5
  <2> QED
    BY <2>1, NoneAccepts
<1> QED
    BY <1>4, <1>6, <1>7, <1>9, <1>10, <1>11, <1>12, <1>13, <1>14, <1>15, <1>16
    DEF ChanInv

-----------------------------------------------------------------------------
(* A command is sent, maybe after an answer was read                       *)

Sent(x) ==
    /\ cmd # 0 /\ cmd \in DOMAIN conns /\ DOMAIN conns' = DOMAIN conns
    /\ \A c \in DOMAIN conns \ {cmd} : conns'[c] = conns[c]
    /\ LET k == conns[cmd]
           n == conns'[cmd]
       IN /\ n.in = Append(k.in, x) /\ n.live = k.live /\ n.server = k.server
          /\ n.streamer = k.streamer
          /\ n.out = k.out \/ (k.out # <<>> /\ n.out = Tail(k.out))

LEMMA Appended ==
    ASSUME NEW S, NEW q \in Seq(S), NEW x, NEW r, r = Append(q, x)
    PROVE  /\ DOMAIN q = 1 .. Len(q) /\ Len(q) \in Nat
           /\ Len(r) = Len(q) + 1 /\ DOMAIN r = 1 .. Len(q) + 1
           /\ r[Len(q) + 1] = x /\ \A i \in 1 .. Len(q) : r[i] = q[i]
OBVIOUS

(* What the connections say of a socket after that.                        *)
LEMMA SentSays ==
    ASSUME Typed, NEW x, Sent(x), NEW c \in DOMAIN conns
    PROVE  /\ conns'[c].live = conns[c].live
           /\ \A i \in DOMAIN conns'[c].out : \E j \in DOMAIN conns[c].out :
                conns'[c].out[i] = conns[c].out[j]
           /\ \A i \in DOMAIN conns'[c].in :
                \/ i \in DOMAIN conns[c].in /\ conns'[c].in[i] = conns[c].in[i]
                \/ c = cmd /\ i = Len(conns[c].in) + 1 /\ conns'[c].in[i] = x
<1>1. conns[c] \in Connection
    BY ConnTyped
<1>2. CASE c # cmd
  <2>1. conns'[c] = conns[c]
    BY <1>2 DEF Sent
  <2> QED
    BY <2>1
<1>3. CASE c = cmd
  <2> DEFINE k == conns[c]
             n == conns'[c]
             m == [n EXCEPT !.in = k.in]
  <2>1. n.in = Append(k.in, x) /\ n.live = k.live
    BY <1>3 DEF Sent
  <2>2. \A i \in DOMAIN n.out : \E j \in DOMAIN k.out : n.out[i] = k.out[j]
    <3>1. k.out \in Seq(Reply)
        BY <1>1 DEF Connection
    <3>2. n.out = k.out \/ (k.out # <<>> /\ n.out = Tail(k.out))
        BY <1>3 DEF Sent
    <3> DEFINE o == k.out
               p == n.out
    <3>4. o \in Seq(Reply) /\ (p = o \/ (o # <<>> /\ p = Tail(o)))
        BY <3>1, <3>2
    <3> HIDE DEF o, p
    <3>3. \A i \in DOMAIN p : \E j \in DOMAIN o : p[i] = o[j]
        BY <3>4, OutOf
    <3> QED
        BY <3>3 DEF o, p
  <2>3. k.in \in Seq(Commands)
    BY <1>1 DEF Connection
  <2>4. \A i \in DOMAIN n.in : \/ i \in DOMAIN k.in /\ n.in[i] = k.in[i]
                               \/ i = Len(k.in) + 1 /\ n.in[i] = x
    <3> DEFINE q == k.in
               r == n.in
    <3>1. q \in Seq(Commands) /\ r = Append(q, x)
        BY <2>1, <2>3
    <3> HIDE DEF q, r
    <3>2. \A i \in DOMAIN r : \/ i \in DOMAIN q /\ r[i] = q[i]
                              \/ i = Len(q) + 1 /\ r[i] = x
        BY SMTT(40), <3>1, Appended
    <3> QED
        BY <3>2 DEF q, r
  <2> QED
    BY <1>3, <2>1, <2>2, <2>4
<1> QED
    BY <1>2, <1>3

LEMMA SentPlaces ==
    ASSUME Typed, Typed', PlacesInv, NEW x, Sent(x),
           \A s : IsPort(x, s) => s \in DOMAIN socks /\ socks[s].conn <= cmd,
           UNCHANGED <<socks, data, cmd>>
    PROVE  PlacesInv'
<1>1. DOMAIN conns' = DOMAIN conns /\ Len(conns') = Len(conns)
  <2>1. DOMAIN conns' = DOMAIN conns
    BY DEF Sent
  <2>2. /\ DOMAIN conns = 1 .. Len(conns) /\ DOMAIN conns' = 1 .. Len(conns')
        /\ Len(conns) \in Nat /\ Len(conns') \in Nat
    BY DEF Typed
  <2> QED
    BY <2>1, <2>2
<1>2. ASSUME NEW c \in DOMAIN conns
      PROVE  Placed(conns'[c], c, socks)
  <2>1. Placed(conns[c], c, socks)
    BY DEF PlacesInv
  <2> DEFINE k == conns[c]
             n == conns'[c]
  <2>2. /\ n.live = k.live
        /\ \A i \in DOMAIN n.out : \E j \in DOMAIN k.out : n.out[i] = k.out[j]
        /\ \A i \in DOMAIN n.in :
                \/ i \in DOMAIN k.in /\ n.in[i] = k.in[i]
                \/ c = cmd /\ n.in[i] = x
    BY SentSays
  <2>3. Placed(k, c, socks)
    BY <2>1
  <2> HIDE DEF k, n
  <2>4. \A i \in DOMAIN n.in : n.in[i][1] = "PORT" =>
          n.in[i][2] \in DOMAIN socks /\ socks[n.in[i][2]].conn <= c
    <3> SUFFICES ASSUME NEW i \in DOMAIN n.in, n.in[i][1] = "PORT"
                 PROVE  n.in[i][2] \in DOMAIN socks /\ socks[n.in[i][2]].conn <= c
        OBVIOUS
    <3>1. CASE i \in DOMAIN k.in /\ n.in[i] = k.in[i]
        BY <2>3, <3>1 DEF Placed
    <3>2. CASE c = cmd /\ n.in[i] = x
        BY <3>2 DEF IsPort
    <3> QED
        BY <2>2, <3>1, <3>2
  <2>5. \A i \in DOMAIN n.out : n.out[i].of[1] = "PORT" => n.out[i].of[2] \in DOMAIN socks
    BY <2>2, <2>3 DEF Placed
  <2>6. Placed(n, c, socks)
    BY <2>2, <2>3, <2>4, <2>5 DEF Placed
  <2> QED
    BY <2>6 DEF n
<1> QED
    BY <1>1, <1>2 DEF PlacesInv

LEMMA SentOnce ==
    ASSUME Typed, OnceInv, NEW x, Sent(x), \A s : IsPort(x, s) => Absent(conns, s)
    PROVE  OnceInv'
<1> SUFFICES ASSUME NEW c \in DOMAIN conns, NEW d \in DOMAIN conns,
                    NEW i \in DOMAIN conns'[c].in, NEW j \in DOMAIN conns'[d].in,
                    NEW s, IsPort(conns'[c].in[i], s), IsPort(conns'[d].in[j], s)
             PROVE  c = d /\ i = j
  <2>1. DOMAIN conns' = DOMAIN conns
    BY DEF Sent
  <2>2. ASSUME NEW c \in DOMAIN conns, NEW d \in DOMAIN conns
        PROVE  Once(conns'[c].in, conns'[d].in, c, d)
    BY Zenon DEF Once
  <2> QED
    BY <2>1, <2>2 DEF OnceInv
<1>1. /\ \/ i \in DOMAIN conns[c].in /\ conns'[c].in[i] = conns[c].in[i]
         \/ c = cmd /\ i = Len(conns[c].in) + 1 /\ conns'[c].in[i] = x
      /\ \/ j \in DOMAIN conns[d].in /\ conns'[d].in[j] = conns[d].in[j]
         \/ d = cmd /\ j = Len(conns[d].in) + 1 /\ conns'[d].in[j] = x
    BY SentSays
<1>2. CASE IsPort(x, s)
  <2>1. \A e \in DOMAIN conns : \A l \in DOMAIN conns[e].in : ~IsPort(conns[e].in[l], s)
    BY <1>2 DEF Absent
  <2> QED
    BY <1>1, <2>1
<1>3. CASE ~IsPort(x, s)
  <2>1. /\ i \in DOMAIN conns[c].in /\ IsPort(conns[c].in[i], s)
        /\ j \in DOMAIN conns[d].in /\ IsPort(conns[d].in[j], s)
    BY <1>1, <1>3
  <2>2. Once(conns[c].in, conns[d].in, c, d)
    BY DEF OnceInv
  <2> QED
    BY <2>1, <2>2 DEF Once
<1> QED
    BY <1>2, <1>3

LEMMA SentFresh ==
    ASSUME Typed, NEW x, Sent(x), NEW s, Fresh(conns, socks, data, s)
    PROVE  Fresh(conns', socks, data, s)
<1>1. ASSUME NEW c \in DOMAIN conns
      PROVE  conns'[c].live # s /\ \A i \in DOMAIN conns'[c].out : ~IsPort(conns'[c].out[i].of, s)
  <2>1. conns[c].live # s /\ \A i \in DOMAIN conns[c].out : ~IsPort(conns[c].out[i].of, s)
    BY DEF Fresh
  <2>2. /\ conns'[c].live = conns[c].live
        /\ \A i \in DOMAIN conns'[c].out : \E j \in DOMAIN conns[c].out :
                conns'[c].out[i] = conns[c].out[j]
    BY SentSays
  <2> QED
    BY <2>1, <2>2
<1>2. DOMAIN conns' = DOMAIN conns
    BY DEF Sent
<1> QED
    BY <1>1, <1>2 DEF Fresh

LEMMA SentPending ==
    ASSUME Typed, PendingInv, NEW x, Sent(x),
           \A s : IsPort(x, s) => Fresh(conns, socks, data, s),
           UNCHANGED <<socks, data>>
    PROVE  PendingInv'
<1> SUFFICES ASSUME NEW c \in DOMAIN conns, NEW i \in DOMAIN conns'[c].in, NEW s,
                    IsPort(conns'[c].in[i], s)
             PROVE  Fresh(conns', socks, data, s)
  <2>1. DOMAIN conns' = DOMAIN conns
    BY DEF Sent
  <2> QED
    BY <2>1, Zenon DEF PendingInv
<1>1. \/ i \in DOMAIN conns[c].in /\ conns'[c].in[i] = conns[c].in[i]
      \/ conns'[c].in[i] = x
    BY SentSays
<1>2. Fresh(conns, socks, data, s)
    BY <1>1 DEF PendingInv
<1> QED
    BY <1>2, SentFresh

LEMMA UntappedPrefix ==
    ASSUME NEW k, NEW n, n.live = k.live, NEW i \in Int,
           \A l \in 1 .. i - 1 : n.in[l] = k.in[l], Untapped(k, i)
    PROVE  Untapped(n, i)
<1>1. CASE k.live = 0 /\ \A l \in 1 .. i - 1 : k.in[l][1] # "PORT"
    BY <1>1 DEF Untapped
<1>2. ASSUME NEW j \in 1 .. i - 1, k.in[j][1] = "ABRT",
             \A l \in j + 1 .. i - 1 : k.in[l][1] # "PORT"
      PROVE  Untapped(n, i)
  <2>1. n.in[j][1] = "ABRT"
    BY <1>2
  <2>2. \A l \in j + 1 .. i - 1 : n.in[l][1] # "PORT"
    BY <1>2
  <2> QED
    BY <2>1, <2>2 DEF Untapped
<1> QED
    BY <1>1, <1>2 DEF Untapped

LEMMA UntappedAppend ==
    ASSUME NEW k, NEW n, n.live = k.live, NEW x, k.in \in Seq(Commands),
           n.in = Append(k.in, x),
           x[1] = "ABRT" \/ (Untapped(k, Len(k.in) + 1) /\ x[1] # "PORT")
    PROVE  Untapped(n, Len(n.in) + 1)
<1> DEFINE q == k.in
           r == n.in
           m == Len(q) + 1
<1>1. q \in Seq(Commands) /\ r = Append(q, x)
    OBVIOUS
<1> HIDE DEF q, r
<1>2. /\ Len(r) = m /\ r[m] = x /\ m \in Nat /\ m >= 1
      /\ \A i \in 1 .. m - 1 : r[i] = q[i]
    BY <1>1, Appended
<1> HIDE DEF m
<1>3. CASE x[1] = "ABRT"
  <2>1. m \in 1 .. (m + 1) - 1 /\ r[m][1] = "ABRT"
        /\ \A l \in m + 1 .. (m + 1) - 1 : r[l][1] # "PORT"
    BY <1>2, <1>3
  <2>2. Untapped(n, m + 1)
    BY <2>1 DEF Untapped, r
  <2> QED
    BY <1>2, <2>2 DEF r
<1>4. CASE Untapped(k, m) /\ x[1] # "PORT"
  <2>1. \A l \in 1 .. (m + 1) - 1 : l = m \/ l \in 1 .. m - 1
    BY <1>2
  <2>2. Untapped(n, m + 1)
    <3>1. CASE k.live = 0 /\ \A l \in 1 .. m - 1 : q[l][1] # "PORT"
        <4>1. \A l \in 1 .. (m + 1) - 1 : r[l][1] # "PORT"
            BY <1>2, <1>4, <2>1, <3>1
        <4> QED
            BY <3>1, <4>1 DEF Untapped, r
    <3>2. ASSUME NEW j \in 1 .. m - 1, q[j][1] = "ABRT",
                 \A l \in j + 1 .. m - 1 : q[l][1] # "PORT"
          PROVE  Untapped(n, m + 1)
        <4>1. j \in 1 .. (m + 1) - 1 /\ r[j][1] = "ABRT"
            BY <1>2, <3>2
        <4>2. ASSUME NEW l \in j + 1 .. (m + 1) - 1 PROVE r[l][1] # "PORT"
            <5>1. CASE l = m
                BY <5>1, <1>2, <1>4
            <5>2. CASE l # m
              <6>1. l \in j + 1 .. m - 1 /\ l \in 1 .. m - 1
                BY <5>2, <1>2
              <6> QED
                BY <6>1, <1>2, <3>2
            <5> QED
                BY <5>1, <5>2
        <4> QED
            BY <4>1, <4>2 DEF Untapped, r
    <3> QED
        BY <1>4, <3>1, <3>2 DEF Untapped, q
  <2> QED
    BY <1>2, <2>2 DEF r
<1> QED
    BY <1>3, <1>4 DEF m, q

LEMMA SentUntapped ==
    ASSUME Typed, UntappedInv, NEW x, Sent(x), x[1] = "TUNE" => UntappedNow
    PROVE  UntappedInv'
<1> SUFFICES ASSUME NEW c \in DOMAIN conns, NEW i \in DOMAIN conns'[c].in,
                    conns'[c].in[i][1] = "TUNE"
             PROVE  Untapped(conns'[c], i)
  <2>1. DOMAIN conns' = DOMAIN conns
    BY DEF Sent
  <2> QED
    BY <2>1, Zenon DEF UntappedInv
<1> DEFINE k == conns[c]
           n == conns'[c]
<1>1. CASE c # cmd
  <2>1. conns'[c] = conns[c]
    BY <1>1 DEF Sent
  <2> QED
    BY <2>1 DEF UntappedInv
<1>2. CASE c = cmd
  <2>1. k.in \in Seq(Commands) /\ n.in = Append(k.in, x) /\ n.live = k.live
    BY <1>2, ConnTyped DEF Sent, Connection
  <2> DEFINE q == k.in
             r == n.in
  <2>2. q \in Seq(Commands) /\ r = Append(q, x) /\ i \in DOMAIN r
    BY <2>1
  <2> HIDE DEF q, r
  <2>3. /\ DOMAIN q = 1 .. Len(q) /\ Len(q) \in Nat /\ DOMAIN r = 1 .. Len(q) + 1
        /\ r[Len(q) + 1] = x /\ \A l \in 1 .. Len(q) : r[l] = q[l]
    BY <2>2, Appended
  <2>4. i \in Int /\ \A l \in 1 .. i - 1 : r[l] = q[l]
    BY <2>2, <2>3
  <2>5. Untapped(k, i)
    <3>1. CASE i \in DOMAIN q
        <4>1. k.in[i][1] = "TUNE"
            BY <2>3, <3>1 DEF q, r
        <4> QED
            BY <3>1, <4>1 DEF UntappedInv, q
    <3>2. CASE i = Len(q) + 1
        <4>1. UntappedNow /\ cmd # 0
            BY <2>3, <3>2 DEF r, Sent
        <4> QED
            BY <1>2, <3>2, <4>1 DEF UntappedNow, q
    <3> QED
        BY <2>2, <2>3, <3>1, <3>2
  <2>6. \A l \in 1 .. i - 1 : n.in[l] = k.in[l]
    BY <2>4 DEF q, r
  <2> HIDE DEF n, k
  <2>7. n.live = k.live
    BY <2>1
  <2>8. Untapped(n, i)
    BY <2>4, <2>5, <2>6, <2>7, UntappedPrefix
  <2> QED
    BY <2>8 DEF n
<1> QED
    BY <1>1, <1>2

LEMMA SentChan ==
    ASSUME Typed, Typed', ChanInv, NEW t \in Threads, NEW x, Sent(x),
           cmdLock' = t, job'[t].sent = x,
           x[1] = "TUNE" => UntappedNow,
           \A s : IsPort(x, s) =>
             /\ s \in DOMAIN socks /\ socks[s].conn <= cmd
             /\ Fresh(conns, socks, data, s) /\ Absent(conns, s),
           \A u \in Threads : job'[u].sock # 0 /\ job'[u].pc = "send" =>
             job'[u] = job[u] /\ ~IsPort(x, job[u].sock),
           \A u \in Threads : job'[u].sock # 0 /\ job'[u].pc = "reply" =>
             IsPort(x, job'[u].sock),
           \A u \in Threads : job'[u].pc # "accept",
           JobsInv', UNCHANGED <<data, channel, tuned, socks, cmd>>,
           mismatch => mismatch',
           conns[cmd].server /\ tuned /\ ~mismatch' /\ Way(conns'[cmd]) = 1 =>
             conns[cmd].streamer = NoStreamer \/ conns[cmd].streamer.ch = channel
    PROVE  ChanInv'
<1>1. /\ JobsInv /\ PlacesInv /\ OnceInv /\ PendingInv /\ PreparedInv
      /\ SocketInv /\ UntappedInv /\ DataInv
    BY DEF ChanInv
<1>2. /\ cmd # 0 /\ cmd \in DOMAIN conns /\ DOMAIN conns' = DOMAIN conns
      /\ conns[cmd] \in Connection
    BY ConnTyped DEF Sent
<1>3. PlacesInv' /\ OnceInv' /\ PendingInv' /\ UntappedInv'
    BY <1>1, SentPlaces, SentOnce, SentPending, SentUntapped
<1>4. PreparedInv'
  <2> SUFFICES ASSUME NEW u \in Threads, job'[u].sock # 0, job'[u].pc = "send"
               PROVE  Fresh(conns', socks, data, job'[u].sock) /\ Absent(conns', job'[u].sock)
    BY DEF PreparedInv
  <2> DEFINE s == job[u].sock
  <2>1. job'[u] = job[u] /\ ~IsPort(x, s) /\ Fresh(conns, socks, data, s) /\ Absent(conns, s)
    BY <1>1 DEF PreparedInv
  <2> HIDE DEF s
  <2>2. Fresh(conns', socks, data, s)
    BY <2>1, SentFresh
  <2>3. Absent(conns', s)
    <3> SUFFICES ASSUME NEW c \in DOMAIN conns, NEW i \in DOMAIN conns'[c].in
                 PROVE  ~IsPort(conns'[c].in[i], s)
        BY <1>2 DEF Absent
    <3>1. \/ i \in DOMAIN conns[c].in /\ conns'[c].in[i] = conns[c].in[i]
          \/ conns'[c].in[i] = x
        BY SentSays
    <3> QED
        BY <2>1, <3>1 DEF Absent
  <2> QED
    BY <2>1, <2>2, <2>3 DEF s
<1>5. SocketInv'
  <2> SUFFICES ASSUME NEW s \in DOMAIN socks
               PROVE  /\ socks[s].chans = {} \/ \E y \in Int : socks[s].chans = {y}
                      /\ socks[s].server => \E c \in DOMAIN conns' : conns'[c].live = s
    BY DEF SocketInv
  <2>1. socks[s].server => \E c \in DOMAIN conns : conns[c].live = s
    BY <1>1 DEF SocketInv
  <2>2. \A c \in DOMAIN conns : conns'[c].live = conns[c].live
    BY SentSays
  <2> QED
    BY <1>1, <1>2, <2>1, <2>2 DEF SocketInv
<1> DEFINE k == conns[cmd]
           n == conns'[cmd]
<1>6. /\ n.in = Append(k.in, x) /\ n.server = k.server /\ n.streamer = k.streamer
      /\ n.out = k.out \/ (k.out # <<>> /\ n.out = Tail(k.out))
      /\ k.in \in Seq(Commands) /\ n \in Connection
      /\ \A i \in DOMAIN n.out : \E j \in DOMAIN k.out : n.out[i] = k.out[j]
  <2>1. /\ n.in = Append(k.in, x) /\ n.server = k.server /\ n.streamer = k.streamer
        /\ n.out = k.out \/ (k.out # <<>> /\ n.out = Tail(k.out))
    BY DEF Sent
  <2>4. k.in \in Seq(Commands)
    BY <1>2 DEF Connection
  <2>2. k.in \in Seq(Commands) /\ n \in Connection
    BY <1>2, <2>4 DEF Typed
  <2>3. \A i \in DOMAIN n.out : \E j \in DOMAIN k.out : n.out[i] = k.out[j]
    BY <1>2, SentSays
  <2> QED
    BY <2>1, <2>2, <2>3
<1>7. /\ n.in # <<>> /\ Way(n) >= 1
      /\ Way(n) = 1 => n.in[1] = x /\ n.out = <<>>
  <2> DEFINE q == k.in
             r == n.in
             o == n.out
  <2>1. q \in Seq(Commands) /\ r = Append(q, x) /\ o \in Seq(Reply)
    BY <1>6 DEF Connection
  <2>2. Way(n) = Len(r) + Len(o)
    BY DEF Way
  <2> HIDE DEF q, r, o
  <2>3. r # <<>> /\ Len(r) + Len(o) >= 1 /\ (Len(r) + Len(o) = 1 => r[1] = x /\ o = <<>>)
    BY <2>1, Appended
  <2> QED
    BY <2>2, <2>3 DEF r, o
<1>8. StepsInv'
  <2> SUFFICES ASSUME n.server PROVE StepInv(conns[cmd])'
    BY DEF StepsInv
  <2>1. FirstOf(n) = n.in[1]
    BY <1>7 DEF FirstOf
  <2>2. Way(n) = 1 => FirstOf(n) = job'[cmdLock'].sent
    BY <1>7, <2>1
  <2>3. ~mismatch' /\ tuned /\ Way(n) = 1 =>
          n.streamer = NoStreamer \/ n.streamer.ch = channel
    BY <1>6
  <2>4. Way(n) # 0
    BY <1>7
  <2>5. /\ Way(conns[cmd])' = Way(n) /\ FirstOf(conns[cmd])' = FirstOf(n)
        /\ conns'[cmd'] = n
    BY DEF Way, FirstOf
  <2> HIDE DEF n
  <2> QED
    BY <1>7, <2>2, <2>3, <2>4, <2>5 DEF StepInv
<1>9. LastInv'
  <2> SUFFICES ASSUME NEW u \in Threads, job'[u].sock # 0, job'[u].pc = "reply"
               PROVE  LastPort(conns[cmd], job[u].sock)'
    BY DEF LastInv
  <2> DEFINE s == job'[u].sock
  <2>1. IsPort(x, s)
    OBVIOUS
  <2> HIDE DEF s
  <2>2. Fresh(conns, socks, data, s) /\ Absent(conns, s)
    BY <2>1
  <2>3. \A i \in DOMAIN n.out : ~IsPort(n.out[i].of, s)
    BY <1>2, <2>2, SentFresh DEF Fresh
  <2>4. \A i \in DOMAIN n.in : IsPort(n.in[i], s) => i = Len(n.in)
    <3>1. \A i \in DOMAIN k.in : ~IsPort(k.in[i], s)
        BY <1>2, <2>2 DEF Absent
    <3>2. \A i \in DOMAIN n.in : \/ i \in DOMAIN k.in /\ n.in[i] = k.in[i]
                                 \/ i = Len(k.in) + 1
        BY <1>2, SentSays
    <3>3. Len(n.in) = Len(k.in) + 1
        BY <1>6, Appended
    <3> QED
        BY <3>1, <3>2, <3>3
  <2>5. Len(n.out) = 1 => 1 \in DOMAIN n.out
    BY <1>6 DEF Connection
  <2> HIDE DEF n
  <2>6. /\ \A i \in DOMAIN n.in : IsPort(n.in[i], s) => i = Len(n.in)
        /\ \A i \in DOMAIN n.out : IsPort(n.out[i].of, s) => i = Len(n.out) /\ n.in = <<>>
        /\ tuned' /\ ~mismatch' /\ Len(n.out) = 1 /\ IsPort(n.out[1].of, s) =>
             socks'[s].chans \subseteq {channel'}
    BY <2>3, <2>4, <2>5
  <2> QED
    BY <2>6 DEF LastPort, n, s
<1>10. DataInv'
  <2> SUFFICES ASSUME Using(data)'
               PROVE  /\ \A i \in DOMAIN n.out : n.out[i].of[1] # "TUNE"
                      /\ tuned => socks[data].chans \subseteq {channel}
    BY DEF DataInv, Right
  <2>1. Using(data)
    BY DEF Using
  <2>2. /\ \A i \in DOMAIN k.out : k.out[i].of[1] # "TUNE"
        /\ tuned => socks[data].chans \subseteq {channel}
    BY <1>1, <2>1 DEF DataInv, Right
  <2> QED
    BY <1>6, <2>2
<1>11. AwaitedInv'
    BY NoneAccepts
<1> QED
    BY <1>3, <1>4, <1>5, <1>8, <1>9, <1>10, <1>11 DEF ChanInv

LEMMA SendJobs ==
    ASSUME Typed, JobsInv, NEW t \in Threads, job[t].pc = "send",
           cmdLock \in {Nobody, t}, cmd # 0,
           Command(t)[1] = "PORT" => job[t].sock # 0,
           Sent(Command(t)),
           job' = [job EXCEPT ![t].pc = "reply", ![t].sent = Command(t)],
           cmdLock' = t, UNCHANGED <<devLock, cmd, channel, tuned, socks>>
    PROVE  /\ JobsInv' /\ job'[t].sent = Command(t) /\ job'[t].pc = "reply"
           /\ job'[t].sock = job[t].sock
           /\ \A u \in Threads : u # t => job'[u] = job[u]
<1>1. job \in [Threads -> Job] /\ job[t] \in Job /\ JobInv(t) /\ job[t].pc # "idle"
    BY DEF Typed, JobsInv
<1>2. /\ job'[t].pc = "reply" /\ job'[t].sent = Command(t)
      /\ job'[t].op = job[t].op /\ job'[t].stage = job[t].stage
      /\ job'[t].ch = job[t].ch /\ job'[t].sock = job[t].sock
      /\ job'[t].prio = job[t].prio
      /\ \A u \in Threads : u # t => job'[u] = job[u]
    BY <1>1 DEF Job
<1>3. Command(t)' = Command(t)
    BY ZenonT(40), <1>2 DEF Command
<1>4. ASSUME job[t].op = "TUNE" PROVE UntappedNow'
  <2> DEFINE k == conns[cmd]
             n == conns'[cmd]
  <2>1. /\ n.in = Append(k.in, Command(t)) /\ n.live = k.live /\ k.in \in Seq(Commands)
    BY ConnTyped DEF Sent, Connection
  <2>2. job[t].stage \in {"first", "second"}
    BY <1>1, <1>4 DEF Typed, Job, AtCommand
  <2>3. \/ Command(t)[1] = "ABRT"
        \/ Untapped(k, Len(k.in) + 1) /\ Command(t)[1] # "PORT"
    <3>1. CASE job[t].stage = "first"
        <4>1. Command(t) = <<"ABRT", 0, 0>>
            BY <1>1, <1>4, <3>1, CommandIs
        <4> QED
            BY <4>1
    <3>2. CASE job[t].stage = "second"
        <4>1. Command(t) = <<"TUNE", job[t].ch, 0>> /\ UntappedNow
            BY <1>1, <1>4, <3>2, CommandIs DEF JobInv
        <4> QED
            BY <4>1 DEF UntappedNow
    <3> QED
        BY <2>2, <3>1, <3>2
  <2> HIDE DEF k, n
  <2>4. Untapped(n, Len(n.in) + 1)
    BY <2>1, <2>3, UntappedAppend
  <2> QED
    BY <2>4 DEF UntappedNow, n
<1>5. job[t].op = "OPEN" /\ job[t].stage = "first" => job[t].sock # 0
    BY <1>1, CommandIs
<1>6. JobInv(t)'
    BY <1>1, <1>2, <1>3, <1>4, <1>5 DEF JobInv, Waiting
<1>7. ASSUME NEW u \in Threads, u # t PROVE JobInv(u)'
  <2>1. /\ job'[u] = job[u] /\ job[u].pc \notin Waiting /\ job[u].stage # "second"
        /\ job[u].pc # "accept" /\ JobInv(u)
    BY <1>2, <1>7, Others DEF JobsInv
  <2> QED
    BY <2>1 DEF JobInv, Waiting
<1> QED
    BY <1>2, <1>6, <1>7 DEF JobsInv

LEMMA WayPut ==
    ASSUME NEW k \in Connection, NEW n, NEW x, n.in = Append(k.in, x),
           n.out = k.out \/ (k.out # <<>> /\ n.out = Tail(k.out)), Way(n) = 1
    PROVE  Way(k) = 0 \/ (Way(k) = 1 /\ n.out # k.out)
<1> DEFINE q == k.in
           r == n.in
           o == k.out
           p == n.out
<1>1. q \in Seq(Commands) /\ r = Append(q, x) /\ o \in Seq(Reply)
      /\ (p = o \/ (o # <<>> /\ p = Tail(o)))
    BY DEF Connection
<1>2. Len(r) + Len(p) = 1 /\ Way(k) = Len(q) + Len(o)
    BY DEF Way
<1> HIDE DEF q, r, o, p
<1>3. Len(r) = Len(q) + 1 /\ Len(q) \in Nat
    BY <1>1, Appended
<1>4. CASE p = o
    BY <1>1, <1>2, <1>3, <1>4
<1>5. CASE o # <<>> /\ p = Tail(o) /\ p # o
  <2>1. Len(p) = Len(o) - 1 /\ Len(o) \in Nat
    BY <1>1, <1>5
  <2>2. Len(q) + Len(o) = 1
    BY <1>2, <1>3, <2>1
  <2> QED
    BY <1>2, <1>5, <2>2 DEF o, p
<1> QED
    BY <1>1, <1>4, <1>5

LEMMA PutChan ==
    ASSUME Typed, Typed', ChanInv, NEW t \in Threads, job[t].pc = "send",
           cmdLock \in {Nobody, t}, cmd # 0,
           Command(t)[1] = "PORT" => job[t].sock # 0,
           conns' = [conns EXCEPT ![cmd].in = Append(@, Command(t))],
           job' = [job EXCEPT ![t].pc = "reply", ![t].sent = Command(t)],
           cmdLock' = t, UNCHANGED <<devLock, cmd, clientVars, socks, mismatch>>
    PROVE  ChanInv'
<1> DEFINE x == Command(t)
<1>1. /\ JobsInv /\ PlacesInv /\ PreparedInv /\ StepsInv /\ JobInv(t)
      /\ UNCHANGED <<data, channel, tuned>> /\ job[t].pc # "idle"
    BY DEF ChanInv, JobsInv, clientVars
<1>2. conns[cmd] \in Connection /\ cmd \in DOMAIN conns
    BY DEF Typed
<1> HIDE DEF x
<1>3. Sent(x)
  <2> DEFINE k == conns[cmd]
             n == [k EXCEPT !.in = Append(k.in, x)]
  <2>1. conns' = [conns EXCEPT ![cmd] = n]
    BY DEF x
  <2>2. /\ n.in = Append(k.in, x) /\ n.live = k.live /\ n.server = k.server
        /\ n.streamer = k.streamer /\ n.out = k.out
    BY <1>2 DEF Connection
  <2> HIDE DEF n
  <2>3. /\ conns'[cmd] = n /\ DOMAIN conns' = DOMAIN conns
        /\ \A c \in DOMAIN conns \ {cmd} : conns'[c] = conns[c]
    BY <1>2, <2>1
  <2> QED
    BY <1>2, <2>2, <2>3 DEF Sent
<1>4. /\ JobsInv' /\ job'[t].sent = x /\ job'[t].pc = "reply"
      /\ job'[t].sock = job[t].sock
      /\ \A u \in Threads : u # t => job'[u] = job[u]
    BY <1>1, <1>3, SendJobs DEF x
<1>5. x[1] = "TUNE" => UntappedNow
    BY <1>1, CommandIs DEF JobInv, x
<1>6. ASSUME NEW s, IsPort(x, s)
      PROVE  /\ s = job[t].sock /\ devLock = t /\ s \in DOMAIN socks
             /\ socks[s].conn <= cmd
             /\ Fresh(conns, socks, data, s) /\ Absent(conns, s)
  <2>1. job[t].op = "OPEN" /\ job[t].stage = "first"
    BY <1>1, <1>6, CommandIs DEF IsPort, x
  <2>2. s = job[t].sock /\ s # 0 /\ devLock = t /\ s \in DOMAIN socks
    <3>1. x = <<"PORT", job[t].sock, 0>> /\ job[t].sock # 0
        BY <1>1, <1>6, <2>1, CommandIs DEF IsPort, x
    <3>2. s = job[t].sock
        BY <1>6, <3>1 DEF IsPort
    <3> QED
        BY <1>1, <2>1, <3>1, <3>2 DEF JobInv
  <2>3. Fresh(conns, socks, data, s) /\ Absent(conns, s)
    BY <1>1, <2>2 DEF PreparedInv
  <2>4. socks[s].conn <= cmd
    BY <1>1, <2>2 DEF PlacesInv
  <2> QED
    BY <2>2, <2>3, <2>4
<1>7. ASSUME NEW u \in Threads, job'[u].sock # 0, job'[u].pc = "send"
      PROVE  job'[u] = job[u] /\ ~IsPort(x, job[u].sock)
  <2>1. u # t /\ job'[u] = job[u]
    BY <1>4, <1>7
  <2>2. devLock = u
    BY <1>1, <1>7, <2>1 DEF JobsInv, JobInv
  <2> QED
    BY <1>6, <2>1, <2>2
<1>8. ASSUME NEW u \in Threads, job'[u].sock # 0, job'[u].pc = "reply"
      PROVE  IsPort(x, job'[u].sock)
  <2>1. u = t
    BY <1>1, <1>4, <1>8, Others DEF Waiting
  <2>2. job[t].op = "OPEN" /\ job[t].stage = "first"
    BY <1>1, <1>4, <1>8, <2>1 DEF JobInv
  <2>3. x = <<"PORT", job[t].sock, 0>>
    BY <1>1, <2>2, CommandIs DEF x
  <2>4. IsPort(x, job[t].sock)
    BY <2>3 DEF IsPort
  <2>5. job'[u].sock = job[t].sock
    BY <1>4, <2>1
  <2> QED
    BY <2>4, <2>5
<1>9. ASSUME conns[cmd].server, tuned, ~mismatch', Way(conns'[cmd]) = 1
      PROVE  conns[cmd].streamer = NoStreamer \/ conns[cmd].streamer.ch = channel
  <2>1. StepInv(conns[cmd]) /\ ~mismatch
    BY <1>1, <1>9 DEF StepsInv
  <2>2. conns'[cmd].in = Append(conns[cmd].in, x) /\ conns'[cmd].out = conns[cmd].out
    BY <1>2 DEF x, Connection
  <2>3. Way(conns[cmd]) = 0
    BY <1>2, <1>9, <2>2, WayPut
  <2> QED
    BY <1>9, <2>1, <2>3 DEF StepInv
<1>10. \A u \in Threads : job'[u].pc # "accept"
    BY <1>1, <1>4, Others
<1> QED
    BY ZenonT(40), <1>1, <1>3, <1>4, <1>5, <1>6, <1>7, <1>8, <1>9, <1>10, SentChan

(* The greeting is answered.                                               *)
LEMMA GreetChan ==
    ASSUME Typed, Typed', ChanInv, NEW t \in Threads, job[t].pc = "greet",
           cmd # 0, conns[cmd].out # <<>>,
           conns' = [[conns EXCEPT ![cmd].out = Tail(@)]
                       EXCEPT ![cmd].in = Append(@, <<"VERS", 0, 0>>)],
           job' = [job EXCEPT ![t].pc = "vers", ![t].sent = <<"VERS", 0, 0>>],
           mismatch => mismatch',
           UNCHANGED <<cmdLock, devLock, cmd, clientVars, socks>>
    PROVE  ChanInv'
<1> DEFINE x == <<"VERS", 0, 0>>
<1>1. /\ JobsInv /\ PlacesInv /\ PreparedInv /\ StepsInv /\ JobInv(t)
      /\ UNCHANGED <<data, channel, tuned>> /\ cmdLock = t
    BY DEF ChanInv, JobsInv, JobInv, Waiting, clientVars
<1>2. conns[cmd] \in Connection /\ cmd \in DOMAIN conns
    BY DEF Typed
<1>3. x[1] = "VERS"
    OBVIOUS
<1> DEFINE k == conns[cmd]
           m == [k EXCEPT !.out = Tail(@)]
           n == [m EXCEPT !.in = Append(@, x)]
           read == [conns EXCEPT ![cmd] = m]
<1>4. /\ n.in = Append(k.in, x) /\ n.live = k.live /\ n.server = k.server
      /\ n.streamer = k.streamer /\ n.out = Tail(k.out)
    BY <1>2 DEF Connection
<1>5. conns' = [conns EXCEPT ![cmd] = n]
  <2>1. read[cmd] = m
    BY <1>2
  <2>2. conns' = [read EXCEPT ![cmd] = [read[cmd] EXCEPT !.in = Append(@, x)]]
    OBVIOUS
  <2>3. conns' = [read EXCEPT ![cmd] = n]
    BY <2>1, <2>2
  <2> HIDE DEF m, n
  <2> QED
    BY <1>2, <2>3
<1> HIDE DEF n, m, read, x
<1>6. /\ conns'[cmd] = n /\ DOMAIN conns' = DOMAIN conns
      /\ \A c \in DOMAIN conns \ {cmd} : conns'[c] = conns[c]
    BY <1>2, <1>5
<1>7. Sent(x)
    BY <1>2, <1>4, <1>6 DEF Sent
<1>8. /\ job'[t].pc = "vers" /\ job'[t].sent = x /\ job'[t].sock = 0
      /\ job'[t].op = job[t].op /\ job'[t].stage # "second"
      /\ job'[t].ch = job[t].ch
      /\ \A u \in Threads : u # t => job'[u] = job[u]
    BY <1>1 DEF Typed, Job, JobInv, x
<1>9. JobsInv'
  <2>1. JobInv(t)'
    BY <1>1, <1>8 DEF JobInv, Waiting, x
  <2>2. ASSUME NEW u \in Threads, u # t PROVE JobInv(u)'
    <3>1. /\ job'[u] = job[u] /\ job[u].pc \notin Waiting /\ job[u].stage # "second"
          /\ job[u].pc # "accept" /\ JobInv(u)
        BY <1>1, <1>8, <2>2, Others DEF JobsInv
    <3> QED
        BY <1>1, <3>1 DEF JobInv, Waiting
  <2> QED
    BY <2>1, <2>2 DEF JobsInv
<1>10. x[1] = "TUNE" => UntappedNow
    BY <1>3
<1>11. \A s : ~IsPort(x, s)
    BY <1>3 DEF IsPort
<1>12. ASSUME NEW u \in Threads, job'[u].sock # 0, job'[u].pc = "send"
       PROVE  job'[u] = job[u] /\ ~IsPort(x, job[u].sock)
    BY <1>8, <1>11, <1>12
<1>13. ASSUME NEW u \in Threads, job'[u].sock # 0, job'[u].pc = "reply"
       PROVE  FALSE
    BY <1>1, <1>8, <1>13, Others DEF Waiting
<1>14. ASSUME conns[cmd].server, tuned, ~mismatch', Way(conns'[cmd]) = 1
       PROVE  conns[cmd].streamer = NoStreamer \/ conns[cmd].streamer.ch = channel
  <2>1. StepInv(conns[cmd]) /\ ~mismatch
    BY <1>1, <1>14 DEF StepsInv
  <2>2. Waited
    BY <1>1 DEF Waited, HasToWait, Waiting
  <2>3. Way(conns[cmd]) = 0 \/ Way(conns[cmd]) = 1
    BY ZenonT(40), <1>2, <1>4, <1>6, <1>14, WayPut
  <2> QED
    BY <1>14, <2>1, <2>2, <2>3 DEF StepInv
<1>15. cmdLock' = t
    BY <1>1
<1>16. \A u \in Threads : job'[u].pc # "accept"
    BY <1>1, <1>8, Others
<1> QED
    BY <1>1, <1>7, <1>8, <1>9, <1>10, <1>11, <1>12, <1>13, <1>14, <1>15, <1>16, SentChan

-----------------------------------------------------------------------------
(* The actions of the client                                               *)

LEMMA SockThere ==
    ASSUME Typed, JobsInv, NEW t \in Threads, job[t].pc = "reply" \/ job[t].sock # 0,
           job[t].op = "OPEN", job[t].stage = "first"
    PROVE  job[t].sock \in DOMAIN socks
BY DEF JobsInv, JobInv

LEMMA ConnectStep ==
    ASSUME Typed, Typed', ChanInv, NEW t \in Threads, Connect(t)
    PROVE  ChanInv'
<1>1. job[t].pc = "check" /\ cmdLock = Nobody /\ UNCHANGED mismatch /\ PlacesInv
    BY DEF Connect, ChanInv
<1>2. CASE /\ conns' = Append(CloseClient(conns, cmd), Conn)
           /\ cmd' = Len(conns) + 1 /\ cmdLock' = t
           /\ job' = [job EXCEPT ![t].pc = "greet",
                                 ![t].sent = <<"HELLO", 0, 0>>]
           /\ UNCHANGED <<devLock, clientVars, socks>>
    BY <1>1, <1>2, ConnectChan DEF clientVars
<1>3. CASE conns' = CloseClient(conns, cmd) /\ cmd' = 0 /\ Unconnected(t)
  <2>1. EndDropped(t)
    BY <1>1, <1>3, UnconnectedOver DEF EndDropped
  <2>2. EndStep(t)
    BY <1>1, <2>1 DEF EndStep
  <2> QED
    BY <2>2, EndInv
<1> QED
    BY <1>2, <1>3 DEF Connect

LEMMA SendStep ==
    ASSUME Typed, Typed', ChanInv, NEW t \in Threads, Send(t)
    PROVE  ChanInv'
<1>1. /\ job[t].pc = "send" /\ cmdLock \in {Nobody, t} /\ UNCHANGED mismatch
      /\ PlacesInv /\ JobsInv /\ job[t].pc # "idle"
    BY DEF Send, ChanInv
<1>2. CASE /\ job[t].op # "TUNE" /\ Closed(t, data # 0) /\ UNCHANGED <<cmd, conns>>
  <2>1. Over(t, FALSE)
    BY <1>1, <1>2, ClosedOver
  <2>2. EndStep(t)
    BY <1>1, <1>2, <2>1 DEF EndStep, EndKept
  <2> QED
    BY <2>2, EndInv
<1>3. CASE /\ Command(t)[1] = "PORT" => job[t].sock # 0
           /\ cmd = 0 /\ After(t, FALSE) /\ UNCHANGED <<cmd, conns>>
  <2>1. job[t].op = "OPEN" /\ job[t].stage = "first" => job[t].sock \in DOMAIN socks
    BY <1>1, <1>3, CommandIs, SockThere
  <2>2. Over(t, FALSE)
    BY <1>1, <1>3, <2>1, AfterOver
  <2>3. EndStep(t)
    BY <1>1, <1>3, <2>2 DEF EndStep, EndKept
  <2> QED
    BY <2>3, EndInv
<1>4. CASE /\ Command(t)[1] = "PORT" => job[t].sock # 0
           /\ cmd # 0
           /\ conns' = [conns EXCEPT ![cmd].in = Append(@, Command(t))]
           /\ job' = [job EXCEPT ![t].pc = "reply", ![t].sent = Command(t)]
           /\ cmdLock' = t
           /\ UNCHANGED <<devLock, cmd, clientVars, socks>>
    BY <1>1, <1>4, PutChan
<1>5. CASE /\ Command(t)[1] = "PORT" /\ job[t].sock = 0
           /\ socks' = Append(CloseSock(socks, data), Sock(cmd))
           /\ data' = 0
           /\ job' = [job EXCEPT ![t].sock = Len(socks) + 1]
           /\ UNCHANGED <<cmdLock, devLock, cmd, tsBuffer, priority, sendABRT,
                          channel, tuned, conns>>
    BY <1>1, <1>5, ListenChan
<1> QED
    BY <1>2, <1>3, <1>4, <1>5, Zenon DEF Send

LEMMA AnswerStep ==
    ASSUME Typed, Typed', ChanInv, NEW t \in Threads, Answer(t)
    PROVE  ChanInv'
<1> DEFINE r == Head(conns[cmd].out)
           read == [conns EXCEPT ![cmd].out = Tail(@)]
<1>1. /\ job[t].pc \in {"greet", "vers", "reply"} /\ cmd # 0 /\ conns[cmd].out # <<>>
      /\ mismatch' = (mismatch \/ r.of # job[t].sent)
      /\ PlacesInv /\ JobsInv /\ job[t].pc # "idle"
    BY DEF Answer, ChanInv
<1>2. mismatch => mismatch'
    BY <1>1, Zenon
<1>3. cmdLock \in {Nobody, t}
    BY <1>1 DEF JobsInv, JobInv, Waiting
<1>4. CASE /\ job[t].pc = "greet"
           /\ conns' = [read EXCEPT ![cmd].in = Append(@, <<"VERS", 0, 0>>)]
           /\ job' = [job EXCEPT ![t].pc = "vers", ![t].sent = <<"VERS", 0, 0>>]
           /\ UNCHANGED <<cmdLock, devLock, cmd, clientVars, socks>>
    BY <1>1, <1>2, <1>4, GreetChan
<1>5. CASE /\ job[t].pc = "vers" /\ conns' = read
           /\ job' = [job EXCEPT ![t].pc = "send"] /\ cmdLock' = Nobody
           /\ UNCHANGED <<devLock, cmd, clientVars, socks>>
    BY <1>1, <1>2, <1>5, VersChan
<1>6. CASE Drop(FALSE) /\ Unconnected(t)
  <2>1. EndDropped(t)
    BY <1>1, <1>2, <1>6, UnconnectedOver DEF EndDropped, Drop
  <2>2. EndStep(t)
    BY <1>1, <1>3, <2>1 DEF EndStep
  <2> QED
    BY <2>2, EndInv
<1>7. CASE /\ job[t].pc = "reply" /\ After(t, r.code = 220)
           /\ IF job[t].op = "QUIT" THEN Drop(FALSE)
              ELSE conns' = read /\ UNCHANGED cmd
  <2>1. job[t].op = "OPEN" /\ job[t].stage = "first" => job[t].sock \in DOMAIN socks
    BY <1>1, <1>7, SockThere
  <2>2. CASE job[t].op = "QUIT"
    <3>1. Over(t, FALSE)
        BY <1>1, <1>7, <2>1, <2>2, AfterOver
    <3>2. EndDropped(t)
        BY <1>2, <1>7, <2>2, <3>1 DEF EndDropped, Drop
    <3>3. EndStep(t)
        BY <1>1, <1>3, <3>2 DEF EndStep
    <3> QED
        BY <3>3, EndInv
  <2>3. CASE job[t].op # "QUIT"
    <3>1. Over(t, r.code = 220)
        BY <1>1, <1>7, <2>1, AfterOver
    <3>2. EndRead(t)
        BY <1>1, <1>7, <2>3, <3>1 DEF EndRead
    <3>3. EndStep(t)
        BY <1>1, <1>3, <3>2 DEF EndStep
    <3> QED
        BY <3>3, EndInv
  <2> QED
    BY <2>2, <2>3
<1> QED
    BY <1>4, <1>5, <1>6, <1>7, ZenonT(40) DEF Answer

LEMMA FailsStep ==
    ASSUME Typed, Typed', ChanInv, NEW t \in Threads, Waits(t), Fails(t)
    PROVE  ChanInv'
<1>1. /\ job[t].pc \in {"greet", "vers", "reply"} /\ cmd # 0 /\ UNCHANGED mismatch
      /\ PlacesInv /\ JobsInv /\ job[t].pc # "idle"
    BY DEF Waits, Fails, ChanInv
<1>2. cmdLock \in {Nobody, t}
    BY <1>1 DEF JobsInv, JobInv, Waiting
<1>3. CASE job[t].pc = "reply"
  <2>1. job[t].op = "OPEN" /\ job[t].stage = "first" => job[t].sock \in DOMAIN socks
    BY <1>1, <1>3, SockThere
  <2>2. After(t, FALSE) /\ Drop(abort /\ job[t].op # "QUIT")
    BY <1>3 DEF Fails
  <2>3. Over(t, FALSE)
    BY <1>1, <2>1, <2>2, AfterOver
  <2>4. UNCHANGED <<cmd, conns>> \/ (cmd' = 0 /\ conns' = CloseClient(conns, cmd))
    BY <2>2 DEF Drop
  <2>5. EndKept(t) \/ EndDropped(t)
    BY <1>1, <1>3, <2>3, <2>4 DEF EndKept, EndDropped
  <2>6. EndStep(t)
    BY <1>1, <1>2, <2>5 DEF EndStep
  <2> QED
    BY <2>6, EndInv
<1>4. CASE job[t].pc # "reply"
  <2>1. Drop(FALSE) /\ Unconnected(t)
    BY <1>4 DEF Fails
  <2>2. EndDropped(t)
    BY <1>1, <2>1, UnconnectedOver DEF EndDropped, Drop
  <2>3. EndStep(t)
    BY <1>1, <1>2, <2>2 DEF EndStep
  <2> QED
    BY <2>3, EndInv
<1> QED
    BY <1>3, <1>4

LEMMA AcceptStep ==
    ASSUME Typed, Typed', ChanInv, NEW t \in Threads, Accept(t)
    PROVE  ChanInv'
<1> DEFINE s == job[t].sock
<1>1. /\ job[t].pc = "accept" /\ socks[s].came /\ data' = s
      /\ socks' = [socks EXCEPT ![s].listen = FALSE, ![s].client = TRUE]
      /\ Done(t) /\ UNCHANGED <<cmd, channel, tuned, conns, mismatch>>
    BY DEF Accept
<1>2. /\ cmdLock = t /\ job[t].op = "OPEN" /\ s \in DOMAIN socks
      /\ socks \in Seq(Sockets)
    BY <1>1 DEF ChanInv, JobsInv, JobInv, PlacesInv
<1>3. SocksQuiet
  <2>1. socks[s] \in Sockets
    BY <1>2
  <2>2. socks' = [socks EXCEPT ![s] = [socks[s] EXCEPT !.listen = FALSE, !.client = TRUE]]
    BY <1>1, <1>2, <2>1 DEF Sockets
  <2> HIDE DEF s
  <2> QED
    BY <1>2, <2>2, QuietEnd
<1>4. JobDone(t)
    BY <1>1, DoneOver
<1>5. Over(t, FALSE)
    BY <1>1, <1>2, <1>3, <1>4 DEF Over
<1>6. EndKept(t)
    BY <1>1, <1>2, <1>5 DEF EndKept
<1>7. EndStep(t)
    BY <1>1, <1>2, <1>6 DEF EndStep
<1> QED
    BY <1>7, EndInv

LEMMA ClientStep ==
    ASSUME Typed, Typed', ChanInv, NEW t \in Threads,
           Step(t) \/ Call(t) \/ Timeout(t)
    PROVE  ChanInv'
<1>1. CASE Step(t)
  <2>1. CASE Eof(t)
    BY <2>1, FailsStep DEF Eof
  <2> QED
    BY <1>1, <2>1, CheckChan, ConnectStep, SendStep, AnswerStep,
       AcceptStep DEF Step
<1>2. CASE Call(t)
    BY <1>2, BeginChan DEF Call, ProvidesChannel, SetChannelDevice, SetPriority,
       OpenDvr, CloseDvr, ReInit
<1>3. CASE Timeout(t)
    BY <1>3, FailsStep DEF Timeout
<1> QED
    BY <1>1, <1>2, <1>3

-----------------------------------------------------------------------------
(* A command is served                                                     *)

Shown(c, n, r) ==
    /\ \/ r[1] # "ABRT" /\ n.live = conns[c].live
       \/ r[1] = "ABRT" /\ n.live = 0
       \/ r[1] = "PORT" /\ (n.live = 0 \/ n.live = r[2])
    /\ \/ n.streamer = conns[c].streamer
       \/ conns[c].streamer # NoStreamer /\ n.streamer.ch = conns[c].streamer.ch
       \/ r[1] = "TUNE"

(* What a socket had it keeps, unless the command is its PORT.             *)
Carried(c, n, r) ==
    /\ socks' \in Seq(Sockets) /\ Len(socks') = Len(socks)
    /\ \A s \in DOMAIN socks :
         /\ socks'[s].conn = socks[s].conn
         /\ \/ socks'[s].chans = socks[s].chans
            \/ /\ IsPort(r, s) /\ n.streamer # NoStreamer
               /\ socks'[s].chans = socks[s].chans \cup {n.streamer.ch}
         /\ socks'[s].came => socks[s].came \/ IsPort(r, s)
         /\ socks'[s].server =>
              \/ socks[s].server /\ (conns[c].live = s => n.live = s)
              \/ n.live = s /\ IsPort(r, s)

Served(c, r, code) ==
    /\ c \in DOMAIN conns /\ conns[c].server /\ conns[c].in # <<>>
    /\ r = conns[c].in[1]
    /\ DOMAIN conns' = DOMAIN conns
    /\ \A d \in DOMAIN conns \ {c} : conns'[d] = conns[d]
    /\ conns'[c].in = Tail(conns[c].in)
    /\ conns'[c].out = Append(conns[c].out, [of |-> r, code |-> code])
    /\ conns'[c].server = conns[c].server
    /\ r[1] = "TUNE" /\ code = 220 => conns'[c].streamer.ch = r[2]
    /\ Shown(c, conns'[c], r) /\ Carried(c, conns'[c], r)
    /\ UNCHANGED <<job, cmdLock, devLock, cmd, data, channel, tuned, mismatch>>

LEMMA Tailed ==
    ASSUME NEW S, NEW q \in Seq(S), q # <<>>, NEW r, r = Tail(q)
    PROVE  /\ DOMAIN q = 1 .. Len(q) /\ Len(q) \in Nat /\ Len(q) >= 1
           /\ Len(r) = Len(q) - 1 /\ DOMAIN r = 1 .. Len(q) - 1
           /\ \A i \in 1 .. Len(q) - 1 : r[i] = q[i + 1]
OBVIOUS

(* What the connections say of a socket after that.                        *)
LEMMA ServedAsked ==
    ASSUME Typed, NEW c, NEW r, NEW code, Served(c, r, code)
    PROVE  /\ c \in DOMAIN conns /\ conns[c] \in Connection
           /\ conns[c].in \in Seq(Commands) /\ conns[c].in # <<>>
           /\ 1 \in DOMAIN conns[c].in /\ r = conns[c].in[1]
<1>1. c \in DOMAIN conns /\ conns[c] \in Connection
    BY ConnTyped DEF Served
<1>2. conns[c].in \in Seq(Commands) /\ conns[c].in # <<>> /\ r = conns[c].in[1]
    BY <1>1 DEF Served, Connection
<1>3. 1 \in DOMAIN conns[c].in
    BY <1>2
<1> QED
    BY <1>1, <1>2, <1>3

LEMMA ServedAnswers ==
    ASSUME Typed, NEW c, NEW r, NEW code, Served(c, r, code)
    PROVE  LET o == conns[c].out
               p == conns'[c].out
           IN /\ o \in Seq(Reply) /\ Len(o) \in Nat /\ DOMAIN o = 1 .. Len(o)
              /\ Len(p) = Len(o) + 1 /\ DOMAIN p = 1 .. Len(o) + 1
              /\ p[Len(o) + 1].of = r /\ p[Len(o) + 1].code = code
              /\ \A i \in 1 .. Len(o) : p[i] = o[i]
<1> DEFINE o == conns[c].out
           p == conns'[c].out
           a == [of |-> r, code |-> code]
<1>1. o \in Seq(Reply) /\ p = Append(o, a)
    BY ZenonT(40), ServedAsked DEF Served, Connection
<1>2. a.of = r /\ a.code = code
    OBVIOUS
<1> HIDE DEF o, p, a
<1>3. /\ DOMAIN o = 1 .. Len(o) /\ Len(o) \in Nat
      /\ Len(p) = Len(o) + 1 /\ DOMAIN p = 1 .. Len(o) + 1
      /\ p[Len(o) + 1] = a /\ \A i \in 1 .. Len(o) : p[i] = o[i]
    BY <1>1, Appended
<1> QED
    BY <1>1, <1>2, <1>3 DEF o, p

LEMMA ServedOut ==
    ASSUME Typed, NEW c, NEW r, NEW code, Served(c, r, code),
           NEW d \in DOMAIN conns, NEW i \in DOMAIN conns'[d].out
    PROVE  \/ i \in DOMAIN conns[d].out /\ conns'[d].out[i] = conns[d].out[i]
           \/ d = c /\ conns'[d].out[i].of = r
<1>1. CASE d = c
  <2> DEFINE o == conns[c].out
             p == conns'[c].out
  <2>1. /\ Len(o) \in Nat /\ DOMAIN o = 1 .. Len(o) /\ DOMAIN p = 1 .. Len(o) + 1
        /\ p[Len(o) + 1].of = r /\ \A l \in 1 .. Len(o) : p[l] = o[l]
    BY ServedAnswers
  <2> HIDE DEF o, p
  <2>2. \A l \in DOMAIN p : (l \in DOMAIN o /\ p[l] = o[l]) \/ p[l].of = r
    BY <2>1
  <2> QED
    BY <1>1, <2>2 DEF o, p
<1>2. CASE d # c
  <2>1. conns'[d] = conns[d]
    BY <1>2 DEF Served
  <2> QED
    BY <2>1
<1> QED
    BY <1>1, <1>2

LEMMA ServedIn ==
    ASSUME Typed, NEW c, NEW r, NEW code, Served(c, r, code),
           NEW d \in DOMAIN conns, NEW i \in DOMAIN conns'[d].in
    PROVE  \E j \in DOMAIN conns[d].in :
             /\ conns'[d].in[i] = conns[d].in[j]
             /\ d = c => j = i + 1
             /\ d # c => j = i
<1>1. CASE d = c
  <2> DEFINE q == conns[c].in
             p == conns'[c].in
  <2>1. q \in Seq(Commands) /\ q # <<>> /\ p = Tail(q)
    BY ZenonT(40), ServedAsked DEF Served
  <2> HIDE DEF q, p
  <2>2. /\ DOMAIN q = 1 .. Len(q) /\ Len(q) \in Nat /\ DOMAIN p = 1 .. Len(q) - 1
        /\ \A l \in 1 .. Len(q) - 1 : p[l] = q[l + 1]
    BY <2>1, Tailed
  <2>3. \A l \in DOMAIN p : l + 1 \in DOMAIN q /\ p[l] = q[l + 1]
    BY <2>2
  <2> QED
    BY <1>1, <2>3 DEF q, p
<1>2. CASE d # c
  <2>1. conns'[d] = conns[d]
    BY SMTT(40), <1>2 DEF Served
  <2> QED
    BY <1>2, <2>1
<1> QED
    BY <1>1, <1>2

LEMMA ServedPlaces ==
    ASSUME Typed, Typed', PlacesInv, NEW c, NEW r, NEW code, Served(c, r, code)
    PROVE  PlacesInv'
<1>1. DOMAIN conns' = DOMAIN conns /\ Len(conns') = Len(conns)
  <2>1. DOMAIN conns' = DOMAIN conns
    BY DEF Served
  <2>2. /\ DOMAIN conns = 1 .. Len(conns) /\ DOMAIN conns' = 1 .. Len(conns')
        /\ Len(conns) \in Nat /\ Len(conns') \in Nat
    BY DEF Typed
  <2> QED
    BY <2>1, <2>2
<1>2. /\ socks' \in Seq(Sockets) /\ Len(socks') = Len(socks)
      /\ DOMAIN socks' = DOMAIN socks /\ DOMAIN socks = 1 .. Len(socks)
      /\ \A s \in DOMAIN socks : socks'[s].conn = socks[s].conn
    BY DEF Served, Carried, PlacesInv
<1>3. ASSUME NEW d \in DOMAIN conns
      PROVE  Placed(conns'[d], d, socks')
  <2> DEFINE k == conns[d]
             n == conns'[d]
  <2>1. Placed(k, d, socks)
    BY DEF PlacesInv
  <2>9. 1 \in DOMAIN conns[c].in /\ r = conns[c].in[1]
    BY ServedAsked
  <2>10. \A i \in DOMAIN n.out : \/ \E j \in DOMAIN k.out : n.out[i] = k.out[j]
                                 \/ d = c /\ n.out[i].of = r
    BY ServedOut
  <2>2. /\ \A i \in DOMAIN n.out : \/ \E j \in DOMAIN k.out : n.out[i] = k.out[j]
                                   \/ d = c /\ n.out[i].of = r
        /\ \A i \in DOMAIN n.in : \E j \in DOMAIN k.in : n.in[i] = k.in[j]
        /\ 1 \in DOMAIN conns[c].in /\ r = conns[c].in[1]
    BY <2>9, <2>10, ServedIn
  <2>3. ASSUME d = c, r[1] = "PORT"
        PROVE  r[2] \in DOMAIN socks /\ socks[r[2]].conn <= d
    BY <2>1, <2>2, <2>3 DEF Placed
  <2>4. \/ n.live = k.live \/ n.live = 0
        \/ d = c /\ r[1] = "PORT" /\ n.live = r[2]
    <3>1. CASE d = c
        BY <3>1 DEF Served, Shown
    <3>2. CASE d # c
        BY <3>2 DEF Served
    <3> QED
        BY <3>1, <3>2
  <2> HIDE DEF k, n
  <2>5. n.live \in 0 .. Len(socks') /\ (n.live # 0 => socks'[n.live].conn <= d)
    <3>1. CASE n.live = k.live
        <4>1. k.live # 0 => k.live \in DOMAIN socks
            BY <1>2, <2>1 DEF Placed
        <4> QED
            BY <1>2, <2>1, <3>1, <4>1 DEF Placed
    <3>2. CASE n.live = 0
        BY <1>2, <2>1, <3>2 DEF Placed, PlacesInv
    <3>3. CASE d = c /\ r[1] = "PORT" /\ n.live = r[2]
        BY <1>2, <2>3, <3>3
    <3> QED
        BY <2>4, <3>1, <3>2, <3>3
  <2>6. \A i \in DOMAIN n.in : n.in[i][1] = "PORT" =>
          n.in[i][2] \in DOMAIN socks' /\ socks'[n.in[i][2]].conn <= d
    BY SMTT(40), <1>2, <2>1, <2>2 DEF Placed
  <2>7. \A i \in DOMAIN n.out : n.out[i].of[1] = "PORT" => n.out[i].of[2] \in DOMAIN socks'
    BY <1>2, <2>1, <2>2, <2>3 DEF Placed
  <2>8. Placed(n, d, socks')
    BY SMTT(40), <2>5, <2>6, <2>7 DEF Placed
  <2> QED
    BY <2>8 DEF n
<1>4. \A s \in DOMAIN socks' : socks'[s].conn <= Len(conns')
    BY <1>1, <1>2 DEF PlacesInv
<1>5. data' = data /\ cmd' = cmd
    BY DEF Served
<1> QED
    BY <1>1, <1>2, <1>3, <1>4, <1>5 DEF PlacesInv

LEMMA ServedOnce ==
    ASSUME Typed, Typed', OnceInv, NEW c, NEW r, NEW code, Served(c, r, code)
    PROVE  OnceInv'
<1> SUFFICES ASSUME NEW d \in DOMAIN conns, NEW e \in DOMAIN conns,
                    NEW i \in DOMAIN conns'[d].in, NEW j \in DOMAIN conns'[e].in,
                    NEW s, IsPort(conns'[d].in[i], s), IsPort(conns'[e].in[j], s)
             PROVE  d = e /\ i = j
  <2>1. DOMAIN conns' = DOMAIN conns
    BY DEF Served
  <2>2. ASSUME NEW d \in DOMAIN conns, NEW e \in DOMAIN conns
        PROVE  Once(conns'[d].in, conns'[e].in, d, e)
    BY Zenon DEF Once
  <2> QED
    BY <2>1, <2>2 DEF OnceInv
<1>1. PICK k \in DOMAIN conns[d].in :
        conns'[d].in[i] = conns[d].in[k] /\ (d = c => k = i + 1) /\ (d # c => k = i)
    BY ServedIn
<1>5. PICK l \in DOMAIN conns[e].in :
        conns'[e].in[j] = conns[e].in[l] /\ (e = c => l = j + 1) /\ (e # c => l = j)
    BY ServedIn
<1>2. Once(conns[d].in, conns[e].in, d, e)
    BY DEF OnceInv
<1>3. d = e /\ k = l
    BY <1>1, <1>2, <1>5 DEF Once
<1>4. i \in Int /\ j \in Int
  <2>1. conns'[d] \in Connection /\ conns'[e] \in Connection
    BY DEF Typed, Served
  <2>2. conns'[d].in \in Seq(Commands) /\ conns'[e].in \in Seq(Commands)
    BY <2>1 DEF Connection
  <2> QED
    BY <2>2
<1> QED
    BY <1>1, <1>3, <1>4, <1>5

LEMMA ServedFresh ==
    ASSUME Typed, NEW c, NEW r, NEW code, Served(c, r, code),
           NEW s \in DOMAIN socks, s # 0, Fresh(conns, socks, data, s), ~IsPort(r, s)
    PROVE  Fresh(conns', socks', data', s)
<1>1. c \in DOMAIN conns /\ Shown(c, conns'[c], r) /\ Carried(c, conns'[c], r)
      /\ data' = data /\ DOMAIN conns' = DOMAIN conns
      /\ \A d \in DOMAIN conns \ {c} : conns'[d] = conns[d]
    BY DEF Served
<1>2. conns'[c].live # s
    BY <1>1 DEF Shown, Fresh, IsPort
<1>3. socks'[s].chans = {} /\ ~socks'[s].came /\ ~socks'[s].server
    BY <1>1, <1>2 DEF Carried, Fresh
<1>4. ASSUME NEW d \in DOMAIN conns
      PROVE  conns'[d].live # s /\ \A i \in DOMAIN conns'[d].out : ~IsPort(conns'[d].out[i].of, s)
  <2>1. conns[d].live # s /\ \A i \in DOMAIN conns[d].out : ~IsPort(conns[d].out[i].of, s)
    BY DEF Fresh
  <2>2. conns'[d].live # s
    BY <1>1, <1>2, <2>1
  <2>3. \A i \in DOMAIN conns'[d].out :
                \/ i \in DOMAIN conns[d].out /\ conns'[d].out[i] = conns[d].out[i]
                \/ conns'[d].out[i].of = r
    BY ServedOut
  <2> QED
    BY <2>1, <2>2, <2>3
<1> QED
    BY <1>1, <1>3, <1>4 DEF Fresh

(* Of the command served, if it is a PORT, nothing was known.              *)
LEMMA ServedPort ==
    ASSUME Typed, PlacesInv, PendingInv, NEW c, NEW r, NEW code, Served(c, r, code),
           NEW s, IsPort(r, s)
    PROVE  Fresh(conns, socks, data, s) /\ s \in DOMAIN socks /\ s # 0
<1>1. c \in DOMAIN conns /\ 1 \in DOMAIN conns[c].in /\ r = conns[c].in[1]
    BY ServedAsked
<1>2. Fresh(conns, socks, data, s)
    BY <1>1 DEF PendingInv
<1>3. Placed(conns[c], c, socks)
    BY <1>1 DEF PlacesInv
<1>4. s \in DOMAIN socks
    BY <1>1, <1>3 DEF Placed, IsPort
<1> QED
    BY <1>2, <1>4 DEF PlacesInv

LEMMA ServedPending ==
    ASSUME Typed, Typed', PlacesInv, OnceInv, PendingInv,
           NEW c, NEW r, NEW code, Served(c, r, code)
    PROVE  PendingInv'
<1> SUFFICES ASSUME NEW d \in DOMAIN conns, NEW i \in DOMAIN conns'[d].in, NEW s,
                    IsPort(conns'[d].in[i], s)
             PROVE  Fresh(conns', socks', data', s)
  <2>1. DOMAIN conns' = DOMAIN conns
    BY DEF Served
  <2> QED
    BY <2>1, Zenon DEF PendingInv
<1>5. PICK j \in DOMAIN conns[d].in :
        conns'[d].in[i] = conns[d].in[j] /\ (d = c => j = i + 1)
    BY ServedIn
<1>1. /\ j \in DOMAIN conns[d].in /\ IsPort(conns[d].in[j], s)
      /\ c \in DOMAIN conns /\ 1 \in DOMAIN conns[c].in /\ r = conns[c].in[1]
    BY <1>5, ServedAsked
<1>2. Fresh(conns, socks, data, s) /\ Placed(conns[d], d, socks)
    BY <1>1 DEF PendingInv, PlacesInv
<1>3. s \in DOMAIN socks /\ s # 0
    BY <1>1, <1>2 DEF Placed, IsPort, PlacesInv
<1>4. ~IsPort(r, s)
  <2>1. Once(conns[c].in, conns[d].in, c, d)
    BY <1>1 DEF OnceInv
  <2>2. d = c => j # 1
    <3>1. conns'[d] \in Connection
        BY DEF Typed, Served
    <3>2. conns'[d].in \in Seq(Commands)
        BY <3>1 DEF Connection
    <3> QED
        BY <1>5, <3>2
  <2> QED
    BY <1>1, <2>1, <2>2 DEF Once
<1> QED
    BY <1>2, <1>3, <1>4, ServedFresh

LEMMA AbsentServed ==
    ASSUME Typed, NEW c, NEW r, NEW code, Served(c, r, code), NEW s, Absent(conns, s)
    PROVE  Absent(conns', s) /\ ~IsPort(r, s)
<1>1. c \in DOMAIN conns /\ 1 \in DOMAIN conns[c].in /\ r = conns[c].in[1]
    BY ServedAsked
<1>2. ~IsPort(r, s)
    BY <1>1 DEF Absent
<1>3. Absent(conns', s)
  <2> SUFFICES ASSUME NEW d \in DOMAIN conns, NEW i \in DOMAIN conns'[d].in
               PROVE  ~IsPort(conns'[d].in[i], s)
    BY DEF Absent, Served
  <2>1. \E j \in DOMAIN conns[d].in : conns'[d].in[i] = conns[d].in[j]
    BY ServedIn
  <2> QED
    BY <2>1 DEF Absent
<1> QED
    BY <1>2, <1>3

LEMMA ServedPrepared ==
    ASSUME Typed, JobsInv, PlacesInv, PreparedInv, NEW c, NEW r, NEW code,
           Served(c, r, code)
    PROVE  PreparedInv'
<1> SUFFICES ASSUME NEW u \in Threads, job[u].sock # 0, job[u].pc = "send"
             PROVE  /\ Fresh(conns', socks', data', job[u].sock)
                    /\ Absent(conns', job[u].sock)
    BY DEF PreparedInv, Served
<1> DEFINE s == job[u].sock
<1>1. s \in DOMAIN socks /\ s # 0 /\ Fresh(conns, socks, data, s) /\ Absent(conns, s)
    BY DEF PreparedInv, JobsInv, JobInv
<1> HIDE DEF s
<1>2. Absent(conns', s) /\ ~IsPort(r, s)
    BY <1>1, AbsentServed
<1>3. Fresh(conns', socks', data', s)
    BY <1>1, <1>2, ServedFresh
<1> QED
    BY <1>2, <1>3 DEF s

LEMMA ServedSocket ==
    ASSUME Typed, PlacesInv, PendingInv, SocketInv, NEW c, NEW r, NEW code,
           Served(c, r, code), conns'[c] \in Connection
    PROVE  SocketInv'
<1>1. /\ c \in DOMAIN conns /\ Shown(c, conns'[c], r) /\ Carried(c, conns'[c], r)
      /\ DOMAIN conns' = DOMAIN conns
      /\ \A d \in DOMAIN conns \ {c} : conns'[d] = conns[d]
    BY DEF Served
<1>2. DOMAIN socks' = DOMAIN socks
    BY <1>1 DEF Carried, PlacesInv
<1> SUFFICES ASSUME NEW s \in DOMAIN socks
             PROVE  /\ socks'[s].chans = {} \/ \E x \in Int : socks'[s].chans = {x}
                    /\ socks'[s].server => \E d \in DOMAIN conns : conns'[d].live = s
    BY <1>1, <1>2 DEF SocketInv
<1>3. socks'[s].chans = {} \/ \E x \in Int : socks'[s].chans = {x}
  <2>1. CASE socks'[s].chans = socks[s].chans
    BY <2>1 DEF SocketInv
  <2>2. CASE IsPort(r, s) /\ socks'[s].chans = socks[s].chans \cup {conns'[c].streamer.ch}
    <3>1. socks[s].chans = {}
        BY <2>2, ServedPort DEF Fresh
    <3>2. conns'[c].streamer.ch \in Int
        <4>1. conns'[c].streamer \in [ch : Int, prio : Int]
            BY DEF Connection
        <4> QED
            BY <4>1
    <3> QED
        BY <2>2, <3>1, <3>2
  <2> QED
    BY <1>1, <2>1, <2>2 DEF Carried
<1>4. ASSUME socks'[s].server PROVE \E d \in DOMAIN conns : conns'[d].live = s
  <2>1. CASE conns'[c].live = s
    BY <1>1, <2>1
  <2>2. CASE socks[s].server /\ (conns[c].live = s => conns'[c].live = s)
    <3>1. PICK d \in DOMAIN conns : conns[d].live = s
        BY <2>2 DEF SocketInv
    <3>2. CASE d = c
        BY <2>2, <3>1, <3>2
    <3>3. CASE d # c
        BY <1>1, <3>1, <3>3
    <3> QED
        BY <3>2, <3>3
  <2> QED
    BY <1>1, <1>4, <2>1, <2>2 DEF Carried
<1> QED
    BY <1>3, <1>4

LEMMA UntappedTail ==
    ASSUME NEW k, NEW n, NEW r, NEW i \in Nat, i >= 1,
           r = k.in[1], \A l \in 1 .. i - 1 : n.in[l] = k.in[l + 1],
           \/ r[1] # "ABRT" /\ n.live = k.live
           \/ r[1] = "ABRT" /\ n.live = 0
           \/ r[1] = "PORT",
           Untapped(k, i + 1)
    PROVE  Untapped(n, i)
<1>1. CASE k.live = 0 /\ \A l \in 1 .. (i + 1) - 1 : k.in[l][1] # "PORT"
  <2>1. r[1] # "PORT"
    BY <1>1
  <2>2. \A l \in 1 .. i - 1 : n.in[l][1] # "PORT"
    BY <1>1
  <2>3. n.live = 0
    BY <1>1, <2>1
  <2> QED
    BY <2>2, <2>3 DEF Untapped
<1>2. ASSUME NEW j \in 1 .. (i + 1) - 1, k.in[j][1] = "ABRT",
             \A l \in j + 1 .. (i + 1) - 1 : k.in[l][1] # "PORT"
      PROVE  Untapped(n, i)
  <2>1. CASE j = 1
    <3>1. r[1] = "ABRT"
        BY <1>2, <2>1
    <3>2. \A l \in 1 .. i - 1 : n.in[l][1] # "PORT"
        BY <1>2, <2>1
    <3>3. CASE n.live = 0
        BY <3>2, <3>3 DEF Untapped
    <3>4. CASE n.live # 0
        BY <3>1, <3>4
    <3> QED
        BY <3>3, <3>4
  <2>2. CASE j # 1
    <3>1. j - 1 \in 1 .. i - 1 /\ n.in[j - 1][1] = "ABRT"
        BY <1>2, <2>2
    <3>2. \A l \in (j - 1) + 1 .. i - 1 : n.in[l][1] # "PORT"
        BY <1>2, <2>2
    <3> QED
        BY <3>1, <3>2 DEF Untapped
  <2> QED
    BY <2>1, <2>2
<1> QED
    BY <1>1, <1>2 DEF Untapped

(* What was said of one command is said of it when it moves up.            *)
LEMMA ServedUntapped ==
    ASSUME Typed, NEW c, NEW r, NEW code, Served(c, r, code)
    PROVE  /\ \A i \in DOMAIN conns'[c].in :
                Untapped(conns[c], i + 1) => Untapped(conns'[c], i)
           /\ Untapped(conns[c], Len(conns[c].in) + 1)
                => Untapped(conns'[c], Len(conns'[c].in) + 1)
<1> DEFINE k == conns[c]
           n == conns'[c]
           q == k.in
           p == n.in
<1>1. q \in Seq(Commands) /\ q # <<>> /\ p = Tail(q) /\ r = k.in[1]
    BY ZenonT(40), ServedAsked DEF Served
<1>2. \/ r[1] # "ABRT" /\ n.live = k.live
      \/ r[1] = "ABRT" /\ n.live = 0
      \/ r[1] = "PORT"
    BY DEF Served, Shown
<1> HIDE DEF q, p
<1>3. /\ DOMAIN q = 1 .. Len(q) /\ Len(q) \in Nat /\ Len(q) >= 1
      /\ Len(p) = Len(q) - 1 /\ DOMAIN p = 1 .. Len(q) - 1
      /\ \A i \in 1 .. Len(q) - 1 : p[i] = q[i + 1]
    BY <1>1, Tailed
<1>4. ASSUME NEW i \in 1 .. Len(q), Untapped(k, i + 1) PROVE Untapped(n, i)
  <2>1. \A l \in 1 .. i - 1 : n.in[l] = k.in[l + 1]
    BY <1>3 DEF q, p
  <2>2. i \in Nat /\ i >= 1
    BY <1>3
  <2> HIDE DEF k, n
  <2> QED
    BY <1>1, <1>2, <1>4, <2>1, <2>2, UntappedTail
<1>5. \A i \in DOMAIN p : i \in 1 .. Len(q)
    BY <1>3
<1>6. Len(p) + 1 = Len(q) /\ Len(q) \in 1 .. Len(q)
    BY <1>3
<1>7. Untapped(k, Len(q) + 1) => Untapped(n, Len(p) + 1)
    BY <1>4, <1>6
<1> QED
    BY <1>4, <1>5, <1>7 DEF k, n, q, p

LEMMA ServedTunes ==
    ASSUME Typed, UntappedInv, NEW c, NEW r, NEW code, Served(c, r, code)
    PROVE  UntappedInv'
<1> SUFFICES ASSUME NEW d \in DOMAIN conns, NEW i \in DOMAIN conns'[d].in,
                    conns'[d].in[i][1] = "TUNE"
             PROVE  Untapped(conns'[d], i)
  <2>1. DOMAIN conns' = DOMAIN conns
    BY DEF Served
  <2> QED
    BY <2>1, Zenon DEF UntappedInv
<1>1. CASE d = c
  <2>1. i + 1 \in DOMAIN conns[c].in /\ conns[c].in[i + 1][1] = "TUNE"
    BY <1>1, ServedIn
  <2>2. Untapped(conns[c], i + 1)
    BY <1>1, <2>1 DEF UntappedInv
  <2> QED
    BY <1>1, <2>2, ServedUntapped
<1>2. CASE d # c
  <2>1. conns'[d] = conns[d]
    BY <1>2 DEF Served
  <2> QED
    BY <2>1 DEF UntappedInv
<1> QED
    BY <1>1, <1>2

LEMMA ServedJobs ==
    ASSUME Typed, JobsInv, PlacesInv, NEW c, NEW r, NEW code, Served(c, r, code)
    PROVE  JobsInv'
<1>1. UntappedNow => UntappedNow'
  <2> SUFFICES ASSUME UntappedNow, cmd # 0
               PROVE  Untapped(conns'[cmd], Len(conns'[cmd].in) + 1)
    BY DEF UntappedNow, Served
  <2>1. Untapped(conns[cmd], Len(conns[cmd].in) + 1) /\ cmd \in DOMAIN conns
    BY DEF UntappedNow, Typed
  <2>2. CASE cmd = c
    BY <2>1, <2>2, ServedUntapped
  <2>3. CASE cmd # c
    <3>1. conns'[cmd] = conns[cmd]
        BY <2>1, <2>3 DEF Served
    <3> QED
        BY <2>1, <3>1
  <2> QED
    BY <2>2, <2>3
<1>2. UNCHANGED <<job, cmdLock, devLock, cmd, channel, tuned>> /\ DOMAIN socks' = DOMAIN socks
    BY DEF Served, Carried, PlacesInv
<1> SUFFICES ASSUME NEW t \in Threads PROVE JobInv(t)'
    BY DEF JobsInv
<1>3. JobInv(t) /\ Command(t)' = Command(t)
    BY <1>2 DEF JobsInv, Command
<1> QED
    BY <1>1, <1>2, <1>3 DEF JobInv

LEMMA ServedWay ==
    ASSUME Typed, NEW c, NEW r, NEW code, Served(c, r, code)
    PROVE  /\ Way(conns'[c]) = Way(conns[c]) /\ Way(conns[c]) \in Nat
           /\ Way(conns[c]) # 0
           /\ Way(conns[c]) = 1 =>
                /\ FirstOf(conns[c]) = r /\ FirstOf(conns'[c]) = r
                /\ conns'[c].in = <<>>
                /\ conns'[c].out[1].of = r /\ conns'[c].out[1].code = code
<1> DEFINE q == conns[c].in
           p == conns'[c].in
           o == conns[c].out
           u == conns'[c].out
<1>1. q \in Seq(Commands) /\ q # <<>> /\ p = Tail(q) /\ r = q[1]
    BY ZenonT(40), ServedAsked DEF Served
<1>2. /\ Len(o) \in Nat /\ Len(u) = Len(o) + 1
      /\ u[Len(o) + 1].of = r /\ u[Len(o) + 1].code = code
    BY ServedAnswers
<1>3. Way(conns[c]) = Len(q) + Len(o) /\ Way(conns'[c]) = Len(p) + Len(u)
    BY DEF Way
<1>4. FirstOf(conns[c]) = (IF q # <<>> THEN q[1] ELSE o[1].of)
      /\ FirstOf(conns'[c]) = (IF p # <<>> THEN p[1] ELSE u[1].of)
    BY DEF FirstOf
<1> HIDE DEF q, p, o, u
<1>5. Len(p) = Len(q) - 1 /\ Len(q) \in Nat /\ Len(q) >= 1 /\ p \in Seq(Commands)
    BY <1>1, Tailed
<1>6. ASSUME Len(q) + Len(o) = 1
      PROVE  Len(o) = 0 /\ p = <<>>
    BY <1>2, <1>5, <1>6
<1> QED
    BY <1>1, <1>2, <1>3, <1>4, <1>5, <1>6 DEF p, u

LEMMA ServedSteps ==
    ASSUME Typed, JobsInv, StepsInv, NEW c, NEW r, NEW code, Served(c, r, code)
    PROVE  StepsInv'
<1>1. UNCHANGED <<job, cmdLock, cmd, channel, tuned, mismatch>>
    BY DEF Served
<1>2. Waited' <=> Waited
    BY <1>1 DEF Waited, HasToWait
<1> SUFFICES ASSUME cmd # 0, conns'[cmd].server PROVE StepInv(conns[cmd])'
    BY <1>1 DEF StepsInv
<1>3. cmd \in DOMAIN conns
    BY DEF Typed
<1>4. CASE cmd # c
  <2>1. conns'[cmd] = conns[cmd]
    BY <1>3, <1>4 DEF Served
  <2>2. StepInv(conns[cmd])
    BY <2>1 DEF StepsInv
  <2>3. Way(conns[cmd])' = Way(conns[cmd]) /\ FirstOf(conns[cmd])' = FirstOf(conns[cmd])
    BY <1>1, <2>1 DEF Way, FirstOf
  <2> QED
    BY <1>1, <1>2, <2>1, <2>2, <2>3 DEF StepInv
<1>5. CASE cmd = c
  <2> DEFINE k == conns[c]
             n == conns'[c]
  <2>1. StepInv(k)
    BY <1>5 DEF StepsInv, Served
  <2>2. /\ Way(n) = Way(k) /\ Way(k) \in Nat /\ Way(k) # 0
        /\ Way(k) = 1 => /\ FirstOf(k) = r /\ FirstOf(n) = r /\ n.in = <<>>
                         /\ n.out[1].of = r /\ n.out[1].code = code
    BY ServedWay
  <2>3. /\ \/ n.streamer = k.streamer
           \/ k.streamer # NoStreamer /\ n.streamer.ch = k.streamer.ch
           \/ r[1] = "TUNE"
        /\ r[1] = "TUNE" /\ code = 220 => n.streamer.ch = r[2]
    BY DEF Served, Shown
  <2>4. Waited /\ Way(k) = 1 /\ r[1] = "TUNE" => ~tuned
    <3> SUFFICES ASSUME Waited, Way(k) = 1, r[1] = "TUNE" PROVE ~tuned
        OBVIOUS
    <3>1. job[cmdLock].sent = r /\ cmdLock \in Threads /\ job[cmdLock].pc \in Waiting
        BY <2>1, <2>2 DEF StepInv, Waited, HasToWait
    <3>2. JobInv(cmdLock)
        BY <3>1 DEF JobsInv
    <3>3. job[cmdLock].pc = "reply" /\ Command(cmdLock) = r
        BY <3>1, <3>2 DEF JobInv, Waiting
    <3>4. job[cmdLock].op = "TUNE"
        BY <3>1, <3>3, CommandIs
    <3> QED
        BY <3>2, <3>4 DEF JobInv
  <2>5. Waited => Way(n) >= 1 /\ (Way(n) = 1 => FirstOf(n) = job[cmdLock].sent)
    BY <2>1, <2>2 DEF StepInv
  <2>6. ~mismatch /\ tuned /\ (Way(n) = 0 \/ (Way(n) = 1 /\ Waited)) =>
          n.streamer = NoStreamer \/ n.streamer.ch = channel
    <3> SUFFICES ASSUME ~mismatch, tuned, Way(n) = 1, Waited
                 PROVE  n.streamer = NoStreamer \/ n.streamer.ch = channel
        BY <2>2
    <3>1. r[1] # "TUNE" /\ (k.streamer = NoStreamer \/ k.streamer.ch = channel)
        BY <2>1, <2>2, <2>4 DEF StepInv
    <3> QED
        BY <2>3, <3>1
  <2>7. Waited /\ Way(n) = 1 /\ n.out[1].of[1] = "TUNE" /\ n.out[1].code = 220 =>
          n.streamer.ch = n.out[1].of[2]
    BY <2>2, <2>3
  <2> HIDE DEF k, n
  <2>8. /\ conns'[cmd'] = n /\ Way(conns[cmd])' = Way(n)
        /\ FirstOf(conns[cmd])' = FirstOf(n)
    BY <1>1, <1>5 DEF n, Way, FirstOf
  <2> QED
    BY <1>1, <1>2, <2>5, <2>6, <2>7, <2>8 DEF StepInv
<1> QED
    BY <1>4, <1>5

(* What is right of a socket stays so, when the command is not its PORT.   *)
LEMMA ServedRight ==
    ASSUME Typed, PlacesInv, SocketInv, UntappedInv,
           NEW c, NEW r, NEW code, Served(c, r, code),
           NEW d \in DOMAIN socks, ~IsPort(r, d), Using(d) => Right(d), Using(d)'
    PROVE  Right(d)'
<1>1. UNCHANGED <<cmd, channel, tuned, mismatch>> /\ Carried(c, conns'[c], r)
    BY DEF Served
<1>2. d # 0 /\ cmd # 0 /\ cmd \in DOMAIN conns
  <2>1. d # 0 /\ cmd # 0
    BY <1>1 DEF Using
  <2> QED
    BY <2>1 DEF Typed
<1>3. Using(d) /\ socks'[d].chans = socks[d].chans
    BY <1>1, <1>2 DEF Using, Carried
<1>4. /\ \A i \in DOMAIN conns[cmd].out : conns[cmd].out[i].of[1] # "TUNE"
      /\ tuned => socks[d].chans \subseteq {channel}
    BY <1>3 DEF Right
<1>5. conns[cmd].live = d
  <2>1. PICK e \in DOMAIN conns : conns[e].live = d
    BY <1>2, <1>3 DEF SocketInv, Using
  <2>2. Placed(conns[e], e, socks)
    BY <2>1 DEF PlacesInv
  <2>3. cmd <= e /\ cmd = Len(conns)
    BY <1>2, <1>3, <2>1, <2>2 DEF Placed, Using, PlacesInv
  <2>4. e \in 1 .. Len(conns)
    BY DEF Typed
  <2>5. e = cmd
    BY <2>3, <2>4
  <2> QED
    BY <2>1, <2>5
<1>6. cmd = c => r[1] # "TUNE"
  <2> SUFFICES ASSUME cmd = c, r[1] = "TUNE" PROVE FALSE
    OBVIOUS
  <2>1. Untapped(conns[c], 1)
    BY ServedAsked DEF UntappedInv
  <2>2. conns[c].live = 0
    BY <2>1 DEF Untapped
  <2> QED
    BY <1>2, <1>5, <2>2
<1>7. \A i \in DOMAIN conns'[cmd].out : conns'[cmd].out[i].of[1] # "TUNE"
    BY <1>2, <1>4, <1>6, ServedOut
<1> QED
    BY <1>1, <1>3, <1>4, <1>7 DEF Right

LEMMA ServedData ==
    ASSUME Typed, PlacesInv, PendingInv, SocketInv, UntappedInv, DataInv,
           NEW c, NEW r, NEW code, Served(c, r, code)
    PROVE  DataInv'
<1>1. UNCHANGED <<cmd, data, mismatch>>
    BY DEF Served
<1> SUFFICES ASSUME Using(data)' PROVE Right(data)'
    BY DEF DataInv
<1> PICK d : d = data
    OBVIOUS
<1>2. d \in DOMAIN socks
    BY <1>1 DEF Using, PlacesInv
<1>3. ~IsPort(r, d)
  <2>1. IsPort(r, data) => Fresh(conns, socks, data, data)
    BY ServedPort
  <2> QED
    BY <2>1 DEF Fresh
<1>4. Using(d) => Right(d)
    BY DEF DataInv
<1>5. Using(d)'
    BY <1>1 DEF Using
<1>6. Right(d)'
    BY <1>2, <1>3, <1>4, <1>5, ServedRight
<1> QED
    BY <1>1, <1>6 DEF Right

LEMMA ServedAwaited ==
    ASSUME Typed, JobsInv, PlacesInv, SocketInv, UntappedInv, AwaitedInv,
           NEW c, NEW r, NEW code, Served(c, r, code)
    PROVE  AwaitedInv'
<1>1. UNCHANGED <<job, cmd, mismatch>>
    BY DEF Served
<1> SUFFICES ASSUME NEW u \in Threads, job[u].pc = "accept", ~mismatch
             PROVE  /\ Absent(conns', job[u].sock)
                    /\ Using(job[u].sock)' => Right(job[u].sock)'
    BY <1>1 DEF AwaitedInv, Using
<1> PICK s : s = job[u].sock
    OBVIOUS
<1>2. s \in DOMAIN socks /\ Absent(conns, s) /\ (Using(s) => Right(s))
    BY DEF JobsInv, JobInv, AwaitedInv
<1>3. Absent(conns', s) /\ ~IsPort(r, s)
    BY <1>2, AbsentServed
<1>4. Using(s)' => Right(s)'
    BY <1>2, <1>3, ServedRight
<1> QED
    BY <1>1, <1>3, <1>4 DEF Using, Right

LEMMA ServedLast ==
    ASSUME Typed, Typed', JobsInv, PlacesInv, PendingInv, StepsInv, LastInv,
           NEW c, NEW r, NEW code, Served(c, r, code)
    PROVE  LastInv'
<1>1. UNCHANGED <<job, cmdLock, cmd, channel, tuned, mismatch>> /\ Carried(c, conns'[c], r)
    BY DEF Served
<1> SUFFICES ASSUME NEW u \in Threads, job[u].sock # 0, job[u].pc = "reply"
             PROVE  LastPort(conns[cmd], job[u].sock)'
    BY <1>1 DEF LastInv
<1> DEFINE s == job[u].sock
           k == conns[cmd]
           n == conns'[cmd]
<1>2. LastPort(k, s) /\ s \in DOMAIN socks /\ cmd # 0 /\ cmd \in DOMAIN conns /\ cmdLock = u
    BY DEF LastInv, JobsInv, JobInv, Waiting, Typed
<1>3. Waited
    BY <1>2 DEF Waited, HasToWait, Waiting
<1> SUFFICES /\ \A i \in DOMAIN n.in : IsPort(n.in[i], s) => i = Len(n.in)
             /\ \A i \in DOMAIN n.out : IsPort(n.out[i].of, s) => i = Len(n.out) /\ n.in = <<>>
             /\ tuned /\ ~mismatch /\ Len(n.out) = 1 /\ IsPort(n.out[1].of, s) =>
                  socks'[s].chans \subseteq {channel}
    BY <1>1 DEF LastPort
<1>4. CASE cmd # c
  <2>1. n = k
    BY <1>2, <1>4 DEF Served
  <2>2. ASSUME 1 \in DOMAIN k.out, IsPort(k.out[1].of, s)
        PROVE  socks'[s].chans = socks[s].chans
    <3>1. ~IsPort(r, s)
        BY <1>2, <2>2, ServedPort DEF Fresh
    <3> QED
        BY <1>1, <1>2, <3>1 DEF Carried
  <2>3. Len(k.out) = 1 => 1 \in DOMAIN k.out
    BY <1>2, ConnTyped DEF Connection
  <2> HIDE DEF k, n, s
  <2> QED
    BY <1>2, <2>1, <2>2, <2>3 DEF LastPort
<1>5. CASE cmd = c
  <2> DEFINE q == k.in
             p == n.in
             o == k.out
             v == n.out
  <2>1. q \in Seq(Commands) /\ q # <<>> /\ p = Tail(q) /\ r = q[1]
    BY ZenonT(40), <1>5, ServedAsked DEF Served
  <2>2. /\ Len(o) \in Nat /\ DOMAIN o = 1 .. Len(o)
        /\ Len(v) = Len(o) + 1 /\ DOMAIN v = 1 .. Len(o) + 1
        /\ v[Len(o) + 1].of = r /\ v[Len(o) + 1].code = code
        /\ \A i \in 1 .. Len(o) : v[i] = o[i]
    BY <1>5, ServedAnswers
  <2>3. /\ \A i \in DOMAIN q : IsPort(q[i], s) => i = Len(q)
        /\ \A i \in DOMAIN o : ~IsPort(o[i].of, s)
    BY <1>2, <2>1 DEF LastPort
  <2> HIDE DEF q, p, o, v
  <2>4. /\ DOMAIN q = 1 .. Len(q) /\ Len(q) \in Nat /\ Len(q) >= 1 /\ p \in Seq(Commands)
        /\ Len(p) = Len(q) - 1 /\ DOMAIN p = 1 .. Len(q) - 1
        /\ \A i \in 1 .. Len(q) - 1 : p[i] = q[i + 1]
    BY <2>1, Tailed
  <2>5. \A i \in DOMAIN p : IsPort(p[i], s) => i = Len(p)
    <3> SUFFICES ASSUME NEW i \in DOMAIN p, IsPort(p[i], s) PROVE i = Len(p)
        OBVIOUS
    <3>1. i \in 1 .. Len(q) - 1 /\ i + 1 \in DOMAIN q /\ IsPort(q[i + 1], s)
        BY <2>4
    <3>2. i + 1 = Len(q)
        BY <2>3, <3>1
    <3> QED
        BY <2>4, <3>1, <3>2
  <2>6. IsPort(r, s) => p = <<>>
    <3> SUFFICES ASSUME IsPort(r, s) PROVE p = <<>>
        OBVIOUS
    <3>1. 1 = Len(q)
        BY <2>1, <2>3, <2>4
    <3>3. Len(p) = Len(q) - 1 /\ p \in Seq(Commands)
        BY <2>4
    <3>2. p \in Seq(Commands) /\ Len(p) = 0
        BY <3>1, <3>3
    <3> QED
        BY <3>2
  <2>7. \A i \in DOMAIN v : IsPort(v[i].of, s) => i = Len(v) /\ p = <<>>
    <3> SUFFICES ASSUME NEW i \in DOMAIN v, IsPort(v[i].of, s)
                 PROVE  i = Len(v) /\ p = <<>>
        OBVIOUS
    <3>1. i = Len(o) + 1
        BY <2>2, <2>3
    <3> QED
        BY <2>2, <2>6, <3>1
  <2>8. ASSUME tuned, ~mismatch, Len(v) = 1, IsPort(v[1].of, s)
        PROVE  socks'[s].chans \subseteq {channel}
    <3>1. IsPort(r, s) /\ Len(o) = 0 /\ Len(q) = 1
        <4>4. Len(o) \in Nat /\ Len(v) = Len(o) + 1 /\ Len(v) = 1
            BY <2>2, <2>8
        <4>2. Len(o) = 0
            BY SMTT(40), <4>4
        <4>3. Len(o) + 1 = 1
            BY <4>2
        <4>1. Len(o) = 0 /\ IsPort(r, s)
            BY <2>2, <2>8, <4>2, <4>3
        <4> QED
            BY <2>1, <2>3, <2>4, <4>1
    <3>2. Way(k) = 1 /\ k.server
        BY <1>5, <3>1 DEF Way, q, o, Served
    <3>3. k.streamer = NoStreamer \/ k.streamer.ch = channel
        BY <1>2, <1>3, <2>8, <3>2 DEF StepsInv, StepInv
    <3>4. n.streamer = NoStreamer \/ n.streamer.ch = channel
        <4>1. r[1] # "TUNE"
            BY <3>1 DEF IsPort
        <4> QED
            BY <1>5, <3>3, <4>1 DEF Served, Shown
    <3>5. socks[s].chans = {}
        BY <3>1, ServedPort DEF Fresh
    <3> HIDE DEF s
    <3> QED
        BY <1>1, <1>2, <1>5, <3>4, <3>5 DEF Carried
  <2> QED
    BY <2>5, <2>7, <2>8 DEF p, v
<1> QED
    BY <1>4, <1>5

LEMMA ServedInv ==
    ASSUME Typed, Typed', ChanInv, NEW c, NEW r, NEW code, Served(c, r, code)
    PROVE  ChanInv'
<1>1. conns'[c] \in Connection
    BY ServedAsked DEF Served, Typed
<1>2. /\ JobsInv /\ PlacesInv /\ OnceInv /\ PendingInv /\ PreparedInv
      /\ SocketInv /\ UntappedInv /\ StepsInv /\ LastInv /\ DataInv /\ AwaitedInv
    BY DEF ChanInv
<1>3. JobsInv' /\ PlacesInv' /\ OnceInv' /\ PendingInv' /\ PreparedInv'
    BY <1>2, ServedJobs, ServedPlaces, ServedOnce, ServedPending, ServedPrepared
<1>4. SocketInv' /\ UntappedInv' /\ StepsInv' /\ LastInv' /\ DataInv'
    BY <1>1, <1>2, ServedSocket, ServedTunes, ServedSteps, ServedLast, ServedData
<1>5. AwaitedInv'
    BY <1>2, ServedAwaited
<1> QED
    BY <1>3, <1>4, <1>5 DEF ChanInv

-----------------------------------------------------------------------------
(* The data sockets under the server's operations                          *)

LEMMA SockField ==
    ASSUME NEW x \in Sockets
    PROVE  /\ \A b \in BOOLEAN :
                LET y == [x EXCEPT !.server = b]
                IN /\ y \in Sockets /\ y.chans = x.chans /\ y.conn = x.conn
                   /\ y.server = b
                   /\ y.came = x.came
           /\ \A b \in BOOLEAN :
                LET y == [x EXCEPT !.came = b]
                IN /\ y \in Sockets /\ y.chans = x.chans /\ y.conn = x.conn
                   /\ y.server = x.server /\ y.came = b
           /\ \A v \in SUBSET Int :
                LET y == [x EXCEPT !.chans = v]
                IN /\ y \in Sockets /\ y.chans = v /\ y.conn = x.conn
                   /\ y.server = x.server /\ y.came = x.came
BY DEF Sockets

(* One end of socket s is set to b at the server.                          *)
LEMMA ServerEnd ==
    ASSUME NEW ss \in Seq(Sockets), NEW s \in DOMAIN ss, NEW b \in BOOLEAN
    PROVE  LET r == [ss EXCEPT ![s].server = b]
           IN /\ r \in Seq(Sockets) /\ Len(r) = Len(ss) /\ DOMAIN r = DOMAIN ss
              /\ \A i \in DOMAIN ss : /\ r[i].chans = ss[i].chans /\ r[i].conn = ss[i].conn
                                      /\ r[i].came = ss[i].came
                                      /\ r[i].server = IF i = s THEN b ELSE ss[i].server
<1> DEFINE y == [ss[s] EXCEPT !.server = b]
           r == [ss EXCEPT ![s] = y]
<1>1. ss[s] \in Sockets
    OBVIOUS
<1>2. y \in Sockets /\ y.chans = ss[s].chans /\ y.conn = ss[s].conn /\ y.server = b
      /\ y.came = ss[s].came
    BY <1>1, SockField
<1> HIDE DEF y
<1>3. /\ r \in Seq(Sockets) /\ Len(r) = Len(ss) /\ DOMAIN r = DOMAIN ss
      /\ \A i \in DOMAIN ss : r[i] = IF i = s THEN y ELSE ss[i]
    BY <1>2, SetSock
<1> HIDE DEF r
<1>4. /\ r \in Seq(Sockets) /\ Len(r) = Len(ss) /\ DOMAIN r = DOMAIN ss
      /\ \A i \in DOMAIN ss : /\ r[i].chans = ss[i].chans /\ r[i].conn = ss[i].conn
                              /\ r[i].came = ss[i].came
                              /\ r[i].server = IF i = s THEN b ELSE ss[i].server
    BY <1>2, <1>3
<1> QED
    BY <1>4 DEF r, y

(* The client comes to socket s.                                           *)
LEMMA ServerCame ==
    ASSUME NEW ss \in Seq(Sockets), NEW s \in DOMAIN ss, NEW b \in BOOLEAN
    PROVE  LET r == [ss EXCEPT ![s].came = b]
           IN /\ r \in Seq(Sockets) /\ Len(r) = Len(ss) /\ DOMAIN r = DOMAIN ss
              /\ \A i \in DOMAIN ss : /\ r[i].chans = ss[i].chans /\ r[i].conn = ss[i].conn
                                      /\ r[i].server = ss[i].server
                                      /\ r[i].came = IF i = s THEN b ELSE ss[i].came
<1> DEFINE y == [ss[s] EXCEPT !.came = b]
           r == [ss EXCEPT ![s] = y]
<1>1. ss[s] \in Sockets
    OBVIOUS
<1>2. y \in Sockets /\ y.chans = ss[s].chans /\ y.conn = ss[s].conn /\ y.came = b
      /\ y.server = ss[s].server
    BY <1>1, SockField
<1> HIDE DEF y
<1>3. /\ r \in Seq(Sockets) /\ Len(r) = Len(ss) /\ DOMAIN r = DOMAIN ss
      /\ \A i \in DOMAIN ss : r[i] = IF i = s THEN y ELSE ss[i]
    BY <1>2, SetSock
<1> HIDE DEF r
<1>4. /\ r \in Seq(Sockets) /\ Len(r) = Len(ss) /\ DOMAIN r = DOMAIN ss
      /\ \A i \in DOMAIN ss : /\ r[i].chans = ss[i].chans /\ r[i].conn = ss[i].conn
                              /\ r[i].server = ss[i].server
                              /\ r[i].came = IF i = s THEN b ELSE ss[i].came
    BY <1>2, <1>3
<1> QED
    BY <1>4 DEF r, y

LEMMA CloseServerIs ==
    ASSUME NEW ss \in Seq(Sockets), NEW s \in 0 .. Len(ss)
    PROVE  LET r == CloseServer(ss, s)
           IN /\ r \in Seq(Sockets) /\ Len(r) = Len(ss) /\ DOMAIN r = DOMAIN ss
              /\ \A i \in DOMAIN ss : /\ r[i].chans = ss[i].chans /\ r[i].conn = ss[i].conn
                                      /\ r[i].came = ss[i].came
                                      /\ r[i].server => ss[i].server /\ i # s
<1>1. CASE s = 0
    BY <1>1 DEF CloseServer
<1>2. CASE s # 0
  <2>1. s \in DOMAIN ss
    BY <1>2
  <2> DEFINE b == FALSE
             r == [ss EXCEPT ![s].server = b]
  <2>2. CloseServer(ss, s) = r
    BY <1>2 DEF CloseServer
  <2>3. b \in BOOLEAN /\ ~b
    OBVIOUS
  <2> HIDE DEF b
  <2>4. /\ r \in Seq(Sockets) /\ Len(r) = Len(ss) /\ DOMAIN r = DOMAIN ss
        /\ \A i \in DOMAIN ss : /\ r[i].chans = ss[i].chans /\ r[i].conn = ss[i].conn
                                /\ r[i].came = ss[i].came
                                /\ r[i].server = IF i = s THEN b ELSE ss[i].server
    BY <2>1, <2>3, ServerEnd
  <2> HIDE DEF r
  <2> QED
    BY <2>2, <2>3, <2>4
<1> QED
    BY <1>1, <1>2

LEMMA StreamedIs ==
    ASSUME NEW ss \in Seq(Sockets), NEW k, k.live \in 0 .. Len(ss),
           k.streamer.ch \in Int
    PROVE  LET r == Streamed(ss, k)
           IN /\ r \in Seq(Sockets) /\ Len(r) = Len(ss) /\ DOMAIN r = DOMAIN ss
              /\ \A i \in DOMAIN ss :
                   /\ r[i].server = ss[i].server /\ r[i].conn = ss[i].conn
                   /\ r[i].came = ss[i].came
                   /\ \/ r[i].chans = ss[i].chans
                      \/ /\ i = k.live /\ k.streamer # NoStreamer
                         /\ r[i].chans = ss[i].chans \cup {k.streamer.ch}
<1>1. CASE k.live # 0 /\ k.streamer # NoStreamer
  <2> DEFINE s == k.live
             x == k.streamer.ch
             v == ss[s].chans \cup {x}
             y == [ss[s] EXCEPT !.chans = v]
             r == [ss EXCEPT ![s] = y]
  <2>1. s \in DOMAIN ss
    BY <1>1
  <2>2. ss[s] \in Sockets
    BY <2>1
  <2>3. v \in SUBSET Int
    BY <2>2 DEF Sockets
  <2>4. Streamed(ss, k) = r
    BY <1>1 DEF Streamed
  <2> HIDE DEF v
  <2>5. y \in Sockets /\ y.chans = v /\ y.conn = ss[s].conn /\ y.server = ss[s].server
        /\ y.came = ss[s].came
    <3> DEFINE z == ss[s]
    <3>1. z \in Sockets
        BY <2>2
    <3> HIDE DEF z
    <3>2. LET w == [z EXCEPT !.chans = v]
          IN /\ w \in Sockets /\ w.chans = v /\ w.conn = z.conn
             /\ w.server = z.server /\ w.came = z.came
        BY <2>3, <3>1, SMTT(30) DEF Sockets
    <3> QED
        BY <3>2 DEF y, z
  <2> HIDE DEF y, s
  <2>6. /\ r \in Seq(Sockets) /\ Len(r) = Len(ss) /\ DOMAIN r = DOMAIN ss
        /\ \A i \in DOMAIN ss : r[i] = IF i = s THEN y ELSE ss[i]
    BY <2>1, <2>5, SetSock
  <2> HIDE DEF r
  <2>7. \A i \in DOMAIN ss : /\ r[i].server = ss[i].server /\ r[i].conn = ss[i].conn
                             /\ r[i].came = ss[i].came
                             /\ \/ r[i].chans = ss[i].chans
                                \/ i = s /\ r[i].chans = v
    BY <2>5, <2>6
  <2>8. v = ss[s].chans \cup {x}
    BY DEF v
  <2> QED
    BY <1>1, <2>4, <2>6, <2>7, <2>8 DEF s
<1>2. CASE ~(k.live # 0 /\ k.streamer # NoStreamer)
    BY <1>2 DEF Streamed
<1> QED
    BY <1>1, <1>2

-----------------------------------------------------------------------------
(* The commands                                                            *)

LEMMA RespondServed ==
    ASSUME Typed, NEW c \in DOMAIN conns, conns[c].server, conns[c].in # <<>>,
           NEW n \in Connection, n.in = conns[c].in, n.out = conns[c].out,
           n.server = conns[c].server, NEW code \in Nat, Respond(c, code, n),
           Head(conns[c].in)[1] = "TUNE" /\ code = 220 =>
             n.streamer.ch = Head(conns[c].in)[2],
           Shown(c, n, Head(conns[c].in)), Carried(c, n, Head(conns[c].in)),
           UNCHANGED noClient
    PROVE  \E r : Served(c, r, code)
<1> DEFINE r == Head(conns[c].in)
           a == [of |-> r, code |-> code]
           i == Tail(n.in)
           o == Append(n.out, a)
           m == [n EXCEPT !.in = i, !.out = o]
<1>1. r = conns[c].in[1] /\ n.in \in Seq(Commands) /\ n.out \in Seq(Reply)
    BY ConnTyped DEF Connection
<1>2. conns' = [conns EXCEPT ![c] = m]
    BY DEF Respond
<1>3. i = Tail(conns[c].in) /\ o = Append(conns[c].out, [of |-> r, code |-> code])
    OBVIOUS
<1> HIDE DEF a, i, o
<1>4. /\ m.in = i /\ m.out = o /\ m.server = n.server /\ m.live = n.live
      /\ m.streamer = n.streamer
    BY DEF Connection
<1> HIDE DEF m
<1>5. /\ conns'[c] = m /\ DOMAIN conns' = DOMAIN conns
      /\ \A d \in DOMAIN conns \ {c} : conns'[d] = conns[d]
    BY <1>2
<1>6. Shown(c, m, r) /\ Carried(c, m, r)
    BY <1>4 DEF Shown, Carried
<1>7. UNCHANGED <<job, cmdLock, devLock, cmd, data, channel, tuned, mismatch>>
    BY DEF noClient, clientVars
<1>8. r[1] = "TUNE" /\ code = 220 => m.streamer.ch = r[2]
    BY <1>4
<1> HIDE DEF r
<1>9. Served(c, r, code)
    BY <1>1, <1>3, <1>4, <1>5, <1>6, <1>7, <1>8 DEF Served
<1> QED
    BY <1>9

LEMMA CarriedSame ==
    ASSUME PlacesInv, NEW c, NEW n, NEW r, n.live = conns[c].live, socks' = socks
    PROVE  Carried(c, n, r)
BY DEF Carried, PlacesInv

LEMMA CarriedClosed ==
    ASSUME PlacesInv, NEW c \in DOMAIN conns, NEW n, NEW r,
           socks' = CloseServer(socks, conns[c].live)
    PROVE  Carried(c, n, r)
<1>1. socks \in Seq(Sockets) /\ conns[c].live \in 0 .. Len(socks)
    BY DEF PlacesInv, Placed
<1>2. /\ socks' \in Seq(Sockets) /\ Len(socks') = Len(socks)
      /\ \A i \in DOMAIN socks : /\ socks'[i].chans = socks[i].chans
                                 /\ socks'[i].conn = socks[i].conn
                                 /\ socks'[i].came = socks[i].came
                                 /\ socks'[i].server => socks[i].server /\ i # conns[c].live
    BY <1>1, CloseServerIs
<1> QED
    BY <1>2 DEF Carried

(* What of a connection a command does not change.                         *)
Like(k, n) == n \in Connection /\ n.in = k.in /\ n.out = k.out /\ n.server = k.server

LEMMA StartLike ==
    ASSUME NEW k, NEW n, Like(k, n)
    PROVE  Like(k, Start(n)) /\ Start(n).live = n.live /\ Start(n).streamer = n.streamer
<1> DEFINE b == n.live # 0 /\ n.streamer # NoStreamer
<1>1. b \in BOOLEAN
    OBVIOUS
<1> HIDE DEF b
<1>2. /\ Like(k, [n EXCEPT !.running = b])
      /\ [n EXCEPT !.running = b].live = n.live
      /\ [n EXCEPT !.running = b].streamer = n.streamer
    BY <1>1 DEF Connection, Like
<1> QED
    BY <1>2 DEF Start, b

LEMMA SetRunning ==
    ASSUME NEW k \in Connection
    PROVE  LET n == [k EXCEPT !.running = FALSE]
           IN Like(k, n) /\ n.live = k.live /\ n.streamer = k.streamer
BY DEF Connection, Like

LEMMA SetLive ==
    ASSUME NEW k \in Connection, NEW s \in Int
    PROVE  LET n == [k EXCEPT !.live = s]
           IN Like(k, n) /\ n.live = s /\ n.streamer = k.streamer
BY DEF Connection, Like

LEMMA SetStreamer ==
    ASSUME NEW k \in Connection, NEW st \in [ch : Int, prio : Int]
    PROVE  LET n == [k EXCEPT !.streamer = st]
           IN Like(k, n) /\ n.live = k.live /\ n.streamer = st
BY DEF Connection, Like

LEMMA SetTune ==
    ASSUME NEW k \in Connection, NEW x \in Int
    PROVE  LET n == [k EXCEPT !.tune = x]
           IN Like(k, n) /\ n.live = k.live /\ n.streamer = k.streamer
BY DEF Connection, Like

LEMMA SetTuneAndPrio ==
    ASSUME NEW k \in Connection, NEW x \in Int, NEW y \in Int
    PROVE  LET n == [k EXCEPT !.tune = x, !.prio = y]
           IN Like(k, n) /\ n.live = k.live /\ n.streamer = k.streamer
<1> DEFINE q == [k EXCEPT !.tune = x]
           n == [q EXCEPT !.prio = y]
<1>1. Like(k, q) /\ q.live = k.live /\ q.streamer = k.streamer
    BY SetTune
<1>2. [k EXCEPT !.tune = x, !.prio = y] = n
    OBVIOUS
<1> HIDE DEF q
<1>3. Like(k, n) /\ n.live = k.live /\ n.streamer = k.streamer
    BY <1>1 DEF Connection, Like
<1> HIDE DEF n
<1> QED
    BY <1>2, <1>3

LEMMA LikeServed ==
    ASSUME Typed, Typed', ChanInv, NEW c \in DOMAIN conns, conns[c].server, conns[c].in # <<>>,
           NEW n, Like(conns[c], n), NEW code \in Nat, Respond(c, code, n),
           Head(conns[c].in)[1] = "TUNE" /\ code = 220 =>
             n.streamer.ch = Head(conns[c].in)[2],
           Shown(c, n, Head(conns[c].in)), Carried(c, n, Head(conns[c].in)),
           UNCHANGED noClient
    PROVE  ChanInv'
<1>1. PICK r : Served(c, r, code)
    BY RespondServed DEF Like
<1> QED
    BY <1>1, ServedInv

LEMMA AskedIs ==
    ASSUME Typed, NEW c \in DOMAIN conns, NEW name, Asked(c, name)
    PROVE  /\ conns[c] \in Connection /\ conns[c].server /\ conns[c].in # <<>>
           /\ Head(conns[c].in)[1] = name /\ Arg(c, 1) = Head(conns[c].in)[2]
           /\ Head(conns[c].in) = conns[c].in[1]
           /\ Arg(c, 1) \in Int /\ Arg(c, 2) \in Int
<1>1. conns[c] \in Connection /\ conns[c].in # <<>>
    BY ConnTyped DEF Asked
<1>2. Arg(c, 1) \in Int /\ Arg(c, 2) \in Int
    BY <1>1, ArgInt
<1>3. Arg(c, 1) = Head(conns[c].in)[2]
    BY DEF Arg
<1>4. Head(conns[c].in) = conns[c].in[1]
    BY <1>1 DEF Connection
<1> QED
    BY <1>1, <1>2, <1>3, <1>4 DEF Asked

LEMMA LikeSelf == ASSUME NEW k \in Connection PROVE Like(k, k)
BY DEF Like

LEMMA VERSChan ==
    ASSUME Typed, Typed', ChanInv, NEW c \in DOMAIN conns, CmdVERS(c), UNCHANGED noClient
    PROVE  ChanInv'
<1> DEFINE k == conns[c]
           r == Head(k.in)
<1>1. /\ k \in Connection /\ k.server /\ k.in # <<>> /\ r[1] = "VERS"
      /\ Respond(c, 220, k) /\ socks' = socks /\ PlacesInv
    BY AskedIs DEF CmdVERS, ChanInv
<1> HIDE DEF r
<1>2. Shown(c, k, r) /\ Carried(c, k, r)
    BY <1>1, CarriedSame DEF Shown
<1>3. Like(k, k)
    BY <1>1, LikeSelf
<1> QED
    BY <1>1, <1>2, <1>3, LikeServed DEF r

LEMMA PROVChan ==
    ASSUME Typed, Typed', ChanInv, NEW c \in DOMAIN conns, CmdPROV(c), UNCHANGED noClient
    PROVE  ChanInv'
<1> DEFINE k == conns[c]
           r == Head(k.in)
<1>1. /\ k \in Connection /\ k.server /\ k.in # <<>> /\ r[1] = "PROV"
      /\ socks' = socks /\ PlacesInv /\ Arg(c, 1) \in Int /\ Arg(c, 2) \in Int
    BY AskedIs DEF CmdPROV, ChanInv
<1>2. ASSUME NEW n, Like(k, n), n.live = k.live, n.streamer = k.streamer,
             NEW code \in Nat, Respond(c, code, n)
      PROVE  ChanInv'
  <2> HIDE DEF r
  <2>1. Shown(c, n, r) /\ Carried(c, n, r)
    BY <1>1, <1>2, CarriedSame DEF Shown
  <2> QED
    BY <1>1, <1>2, <2>1, LikeServed DEF r
<1>3. CASE Respond(c, 220, [k EXCEPT !.tune = Arg(c, 1), !.prio = Arg(c, 2)])
  <2> DEFINE x == Arg(c, 1)
             y == Arg(c, 2)
             n == [k EXCEPT !.tune = x, !.prio = y]
  <2>1. x \in Int /\ y \in Int /\ Respond(c, 220, n)
    BY <1>1, <1>3
  <2> HIDE DEF x, y, k
  <2>2. Like(k, n) /\ n.live = k.live /\ n.streamer = k.streamer
    BY ZenonT(40), <1>1, <2>1, SetTuneAndPrio
  <2> HIDE DEF n
  <2> QED
    BY <1>2, <2>1, <2>2
<1>4. CASE Respond(c, 560, [k EXCEPT !.tune = 0])
  <2> DEFINE x == 0
             n == [k EXCEPT !.tune = x]
  <2>1. x \in Int /\ Respond(c, 560, n)
    BY <1>4
  <2> HIDE DEF x, k
  <2>2. Like(k, n) /\ n.live = k.live /\ n.streamer = k.streamer
    BY <1>1, <2>1, SetTune
  <2> HIDE DEF n
  <2> QED
    BY <1>2, <2>1, <2>2
<1> QED
    BY <1>3, <1>4 DEF CmdPROV

LEMMA TUNEChan ==
    ASSUME Typed, Typed', ChanInv, NEW c \in DOMAIN conns, CmdTUNE(c), UNCHANGED noClient
    PROVE  ChanInv'
<1> DEFINE k == conns[c]
           r == Head(k.in)
           prio == IF Arg(c, 1) = k.tune THEN k.prio ELSE 0
           st == [ch |-> Arg(c, 1), prio |-> prio]
           n == [k EXCEPT !.streamer = st]
<1>1. /\ k \in Connection /\ k.server /\ k.in # <<>> /\ r[1] = "TUNE"
      /\ Arg(c, 1) = r[2] /\ Arg(c, 1) \in Int /\ PlacesInv /\ r = k.in[1]
    BY AskedIs DEF CmdTUNE, ChanInv
<1>2. \/ Respond(c, 560, k) /\ UNCHANGED socks
      \/ Respond(c, 220, Start(n)) /\ socks' = Streamed(socks, n)
    BY DEF CmdTUNE
<1>3. CASE Respond(c, 560, k) /\ UNCHANGED socks
  <2> HIDE DEF r
  <2>1. Shown(c, k, r) /\ Carried(c, k, r)
    BY <1>1, <1>3, CarriedSame DEF Shown
  <2>2. Like(k, k)
    BY <1>1, LikeSelf
  <2> QED
    BY <1>1, <1>3, <2>1, <2>2, LikeServed DEF r
<1>4. CASE Respond(c, 220, Start(n)) /\ socks' = Streamed(socks, n)
  <2>1. k.live = 0
    <3>1. 1 \in DOMAIN k.in
        BY <1>1 DEF Connection
    <3>2. Untapped(k, 1)
        BY <1>1, <3>1 DEF ChanInv, UntappedInv
    <3> QED
        BY <3>2 DEF Untapped
  <2>2. prio \in Int
    BY <1>1 DEF Connection
  <2>3. st \in [ch : Int, prio : Int] /\ st.ch = r[2]
    BY <1>1, <2>2
  <2> HIDE DEF st, prio
  <2>4. Like(k, n) /\ n.live = k.live /\ n.streamer = st
    BY <1>1, <2>3, SetStreamer
  <2> DEFINE m == Start(n)
  <2> HIDE DEF n, r
  <2>5. Like(k, m) /\ m.live = k.live /\ m.streamer = st
    BY <2>4, StartLike
  <2>6. socks' = socks
    BY <1>4, <2>1, <2>4 DEF Streamed
  <2>7. Respond(c, 220, m)
    BY <1>4
  <2> HIDE DEF m
  <2>8. Shown(c, m, r) /\ Carried(c, m, r)
    BY <1>1, <2>5, <2>6, CarriedSame DEF Shown
  <2> QED
    BY <1>1, <2>3, <2>5, <2>7, <2>8, LikeServed DEF r
<1> QED
    BY <1>2, <1>3, <1>4

LEMMA ABRTChan ==
    ASSUME Typed, Typed', ChanInv, NEW c \in DOMAIN conns, CmdABRT(c), UNCHANGED noClient
    PROVE  ChanInv'
<1> DEFINE k == conns[c]
           r == Head(k.in)
           q == [k EXCEPT !.running = FALSE]
           n == [q EXCEPT !.live = 0]
<1>1. /\ k \in Connection /\ k.server /\ k.in # <<>> /\ r[1] = "ABRT"
      /\ socks' = CloseServer(socks, k.live) /\ PlacesInv
      /\ Respond(c, 220, [k EXCEPT !.running = FALSE, !.live = 0])
    BY AskedIs DEF CmdABRT, ChanInv
<1>2. Respond(c, 220, n)
    BY <1>1
<1>3. Like(k, q) /\ q.streamer = k.streamer /\ q \in Connection
    BY <1>1, SetRunning DEF Like
<1> HIDE DEF q
<1>4. Like(q, n) /\ n.live = 0 /\ n.streamer = q.streamer
    BY <1>3, SetLive
<1> HIDE DEF n, r
<1>5. Like(k, n) /\ n.live = 0 /\ n.streamer = k.streamer
    BY <1>3, <1>4 DEF Like
<1>6. Shown(c, n, r) /\ Carried(c, n, r)
    BY <1>1, <1>5, CarriedClosed DEF Shown
<1> QED
    BY <1>1, <1>2, <1>5, <1>6, LikeServed DEF r

LEMMA SetPrio ==
    ASSUME NEW k \in Connection, NEW p \in Int
    PROVE  LET n == [k EXCEPT !.streamer.prio = p]
           IN Like(k, n) /\ n.live = k.live /\ n.streamer.ch = k.streamer.ch
<1> DEFINE st == [k.streamer EXCEPT !.prio = p]
<1>1. st \in [ch : Int, prio : Int] /\ st.ch = k.streamer.ch
    BY DEF Connection
<1> HIDE DEF st
<1>2. LET n == [k EXCEPT !.streamer = st]
      IN Like(k, n) /\ n.live = k.live /\ n.streamer.ch = k.streamer.ch
    BY <1>1, SetStreamer
<1> QED
    BY <1>2 DEF st

LEMMA PRIOChan ==
    ASSUME Typed, Typed', ChanInv, NEW c \in DOMAIN conns, CmdPRIO(c), UNCHANGED noClient
    PROVE  ChanInv'
<1> DEFINE k == conns[c]
           r == Head(k.in)
           n == [k EXCEPT !.streamer.prio = Arg(c, 1)]
<1>1. /\ k \in Connection /\ k.server /\ k.in # <<>> /\ r[1] = "PRIO"
      /\ socks' = socks /\ PlacesInv /\ Arg(c, 1) \in Int
      /\ IF k.streamer = NoStreamer THEN Respond(c, 550, k) ELSE Respond(c, 220, n)
    BY AskedIs DEF CmdPRIO, ChanInv
<1>2. CASE k.streamer = NoStreamer
  <2> HIDE DEF r
  <2>1. Shown(c, k, r) /\ Carried(c, k, r)
    BY <1>1, CarriedSame DEF Shown
  <2>2. Like(k, k)
    BY <1>1, LikeSelf
  <2> QED
    BY <1>1, <1>2, <2>1, <2>2, LikeServed DEF r
<1>3. CASE k.streamer # NoStreamer
  <2>1. Like(k, n) /\ n.live = k.live /\ n.streamer.ch = k.streamer.ch
    BY <1>1, SetPrio
  <2>2. Respond(c, 220, n)
    BY <1>1, <1>3
  <2> HIDE DEF n, r
  <2>3. Shown(c, n, r) /\ Carried(c, n, r)
    BY <1>1, <1>3, <2>1, CarriedSame DEF Shown
  <2> QED
    BY <1>1, <2>1, <2>2, <2>3, LikeServed DEF r
<1> QED
    BY <1>2, <1>3

(* After a PORT the socket is the connection's, and gets its channel.      *)
LEMMA CarriedPort ==
    ASSUME PlacesInv, NEW c \in DOMAIN conns, NEW n, NEW s \in DOMAIN socks, NEW r,
           IsPort(r, s), n.live = s, n.streamer.ch \in Int,
           socks' = Streamed([CloseServer(socks, conns[c].live)
                                EXCEPT ![s].came = TRUE, ![s].server = TRUE], n)
    PROVE  Carried(c, n, r)
<1> DEFINE l == conns[c].live
           ss == CloseServer(socks, l)
           b == TRUE
           cc == [ss EXCEPT ![s].came = b]
           v == [cc EXCEPT ![s].server = b]
           w == Streamed(v, n)
<1>1. socks \in Seq(Sockets) /\ l \in 0 .. Len(socks)
    BY DEF PlacesInv, Placed
<1>2. /\ ss \in Seq(Sockets) /\ Len(ss) = Len(socks) /\ DOMAIN ss = DOMAIN socks
      /\ \A i \in DOMAIN socks : /\ ss[i].chans = socks[i].chans
                                 /\ ss[i].conn = socks[i].conn
                                 /\ ss[i].came = socks[i].came
                                 /\ ss[i].server => socks[i].server /\ i # l
    BY <1>1, CloseServerIs
<1>3. b \in BOOLEAN /\ w = socks'
    OBVIOUS
<1> HIDE DEF ss, b
<1>8. /\ cc \in Seq(Sockets) /\ Len(cc) = Len(ss) /\ DOMAIN cc = DOMAIN ss
      /\ \A i \in DOMAIN ss : /\ cc[i].chans = ss[i].chans /\ cc[i].conn = ss[i].conn
                              /\ cc[i].server = ss[i].server
                              /\ cc[i].came = IF i = s THEN b ELSE ss[i].came
    BY SMTT(40), <1>2, <1>3, ServerCame
<1> HIDE DEF cc
<1>9. /\ v \in Seq(Sockets) /\ Len(v) = Len(cc) /\ DOMAIN v = DOMAIN cc
      /\ \A i \in DOMAIN cc : /\ v[i].chans = cc[i].chans /\ v[i].conn = cc[i].conn
                              /\ v[i].came = cc[i].came
                              /\ v[i].server = IF i = s THEN b ELSE cc[i].server
    BY SMTT(40), <1>2, <1>3, <1>8, ServerEnd
<1> HIDE DEF v
<1>4. /\ v \in Seq(Sockets) /\ Len(v) = Len(ss) /\ DOMAIN v = DOMAIN ss
      /\ \A i \in DOMAIN ss : /\ v[i].chans = ss[i].chans /\ v[i].conn = ss[i].conn
                              /\ v[i].came = IF i = s THEN b ELSE ss[i].came
                              /\ v[i].server = IF i = s THEN b ELSE ss[i].server
    BY <1>8, <1>9
<1>5. n.live \in 0 .. Len(v)
    BY <1>2, <1>4
<1>6. /\ w \in Seq(Sockets) /\ Len(w) = Len(v) /\ DOMAIN w = DOMAIN v
      /\ \A i \in DOMAIN v :
           /\ w[i].server = v[i].server /\ w[i].conn = v[i].conn
           /\ w[i].came = v[i].came
           /\ \/ w[i].chans = v[i].chans
              \/ /\ i = n.live /\ n.streamer # NoStreamer
                 /\ w[i].chans = v[i].chans \cup {n.streamer.ch}
    BY <1>4, <1>5, StreamedIs
<1> HIDE DEF w, l
<1>7. ASSUME NEW i \in DOMAIN socks
      PROVE  /\ w[i].conn = socks[i].conn
             /\ \/ w[i].chans = socks[i].chans
                \/ /\ IsPort(r, i) /\ n.streamer # NoStreamer
                   /\ w[i].chans = socks[i].chans \cup {n.streamer.ch}
             /\ w[i].came => socks[i].came \/ IsPort(r, i)
             /\ w[i].server =>
                  \/ socks[i].server /\ (l = i => n.live = i)
                  \/ n.live = i /\ IsPort(r, i)
  <2>1. /\ w[i].server = v[i].server /\ w[i].conn = socks[i].conn
        /\ w[i].came = v[i].came
        /\ \/ w[i].chans = socks[i].chans
           \/ /\ i = s /\ n.streamer # NoStreamer
              /\ w[i].chans = socks[i].chans \cup {n.streamer.ch}
    BY <1>2, <1>4, <1>6
  <2>2. v[i].server = (IF i = s THEN b ELSE ss[i].server)
        /\ (ss[i].server => socks[i].server /\ i # l)
        /\ v[i].came = (IF i = s THEN b ELSE socks[i].came)
    BY <1>2, <1>4
  <2>3. i = s => IsPort(r, i)
    OBVIOUS
  <2> QED
    BY <2>1, <2>2, <2>3
<1> QED
    BY <1>2, <1>3, <1>4, <1>6, <1>7 DEF Carried, l

LEMMA PORTChan ==
    ASSUME Typed, Typed', ChanInv, NEW c \in DOMAIN conns, CmdPORT(c), UNCHANGED noClient
    PROVE  ChanInv'
<1> DEFINE k == conns[c]
           r == Head(k.in)
           s == Arg(c, 1)
           x == IF socks[s].listen THEN s ELSE 0
           q == [k EXCEPT !.live = x]
           n == [q EXCEPT !.running = FALSE]
           ss == CloseServer(socks, k.live)
<1>1. /\ k \in Connection /\ k.server /\ k.in # <<>> /\ r[1] = "PORT"
      /\ s = r[2] /\ s \in Int /\ PlacesInv /\ r = k.in[1]
    BY AskedIs DEF CmdPORT, ChanInv
<1>2. [k EXCEPT !.live = x, !.running = FALSE] = n
    OBVIOUS
<1>3. IF n.live = 0 THEN Respond(c, 551, n) /\ socks' = ss
      ELSE /\ Respond(c, 220, Start(n))
           /\ socks' = Streamed([ss EXCEPT ![s].came = TRUE, ![s].server = TRUE], n)
    BY <1>2 DEF CmdPORT
<1>4. IsPort(r, s) /\ s \in DOMAIN socks /\ x \in Int /\ x \in {s, 0}
  <2>1. 1 \in DOMAIN k.in
    BY <1>1 DEF Connection
  <2>2. Placed(k, c, socks)
    BY <1>1 DEF PlacesInv
  <2> QED
    BY <1>1, <2>1, <2>2 DEF Placed, IsPort
<1> HIDE DEF x
<1>5. Like(k, q) /\ q.live = x /\ q.streamer = k.streamer
    BY <1>1, <1>4, SetLive
<1>6. q \in Connection
    BY <1>5 DEF Like
<1> HIDE DEF q
<1>7. Like(q, n) /\ n.live = q.live /\ n.streamer = q.streamer
    BY <1>6, SetRunning
<1> HIDE DEF n
<1>8. Like(k, n) /\ n.live = x /\ n.streamer = k.streamer
    BY <1>5, <1>7 DEF Like
<1>9. CASE x = 0
  <2>1. Respond(c, 551, n) /\ socks' = ss
    BY <1>3, <1>8, <1>9
  <2> HIDE DEF r
  <2>2. Shown(c, n, r) /\ Carried(c, n, r)
    BY SMTT(40), <1>1, <1>8, <1>9, <2>1, CarriedClosed DEF Shown
  <2> QED
    BY <1>1, <1>8, <2>1, <2>2, LikeServed DEF r
<1>10. CASE x # 0
  <2> DEFINE m == Start(n)
  <2>1. n.live = s /\ Respond(c, 220, m)
        /\ socks' = Streamed([ss EXCEPT ![s].came = TRUE, ![s].server = TRUE], n)
    BY <1>3, <1>4, <1>8, <1>10
  <2>2. Like(k, m) /\ m.live = s /\ m.streamer = n.streamer
    BY <1>8, <2>1, StartLike
  <2>3. n.streamer.ch \in Int
    BY SMTT(40), <1>8 DEF Like, Connection
  <2> HIDE DEF r, s, m
  <2>4. Carried(c, n, r)
    BY <1>1, <1>4, <2>1, <2>3, CarriedPort
  <2>5. Carried(c, m, r)
    BY <2>1, <2>2, <2>4 DEF Carried
  <2>6. Shown(c, m, r)
    BY <1>1, <1>8, <2>2 DEF Shown
  <2> QED
    BY <1>1, <2>1, <2>2, <2>5, <2>6, LikeServed DEF r
<1> QED
    BY <1>9, <1>10

-----------------------------------------------------------------------------
(* The server's end of connections goes                                    *)

LeftConn(k, n) ==
    /\ n.in = <<>> /\ n.live = 0 /\ ~n.server
    /\ \/ n.out = k.out
       \/ n.out = <<>>
       \/ /\ k.in # <<>>
          /\ n.out = Append(k.out, [of |-> <<"QUIT", 0, 0>>, code |-> 221])
Left ==
    /\ DOMAIN conns' = DOMAIN conns
    /\ \A c \in DOMAIN conns : conns'[c] = conns[c] \/ LeftConn(conns[c], conns'[c])
    /\ socks' \in Seq(Sockets) /\ Len(socks') = Len(socks)
    /\ \A s \in DOMAIN socks :
         /\ socks'[s].chans = socks[s].chans /\ socks'[s].conn = socks[s].conn
         /\ socks'[s].came = socks[s].came
         /\ socks'[s].server => socks[s].server
    /\ \A s \in DOMAIN socks : \A c \in DOMAIN conns :
         socks'[s].server /\ conns[c].live = s => conns'[c] = conns[c]
    /\ UNCHANGED <<job, cmdLock, devLock, cmd, data, channel, tuned, mismatch>>

LEMMA Reply221 == [of |-> <<"QUIT", 0, 0>>, code |-> 221] \in Reply
BY DEF Reply, Commands, Fixed

(* What is still to be read was there, or tells the end.                   *)
LEMMA LeftAnswer ==
    ASSUME NEW k \in Connection, NEW n, LeftConn(k, n), NEW i \in DOMAIN n.out
    PROVE  \/ n.out[i].of = <<"QUIT", 0, 0>>
           \/ /\ i \in DOMAIN k.out /\ n.out[i] = k.out[i]
              /\ n.out = k.out \/ k.in # <<>>
<1> DEFINE o == k.out
           a == [of |-> <<"QUIT", 0, 0>>, code |-> 221]
<1>1. o \in Seq(Reply) /\ a.of = <<"QUIT", 0, 0>>
    BY DEF Connection
<1> HIDE DEF a
<1>2. CASE n.out = o
    BY <1>2
<1>3. CASE n.out = <<>>
    BY <1>3
<1>4. CASE k.in # <<>> /\ n.out = Append(o, a)
  <2> DEFINE p == n.out
  <2>1. p = Append(o, a) /\ i \in DOMAIN p
    BY <1>4
  <2> HIDE DEF o, p
  <2>2. p[i] = a \/ (i \in DOMAIN o /\ p[i] = o[i])
    BY <1>1, <2>1, Appended
  <2> QED
    BY <1>1, <1>4, <2>2 DEF o, p
<1> QED
    BY <1>2, <1>3, <1>4 DEF LeftConn, a

LEMMA LeftOut ==
    ASSUME Typed, Left, NEW c \in DOMAIN conns, NEW i \in DOMAIN conns'[c].out
    PROVE  \/ conns'[c].out[i].of = <<"QUIT", 0, 0>>
           \/ i \in DOMAIN conns[c].out /\ conns'[c].out[i] = conns[c].out[i]
<1>1. conns[c] \in Connection
    BY ConnTyped
<1>2. CASE conns'[c] = conns[c]
    BY <1>2
<1>3. CASE LeftConn(conns[c], conns'[c])
    BY <1>1, <1>3, LeftAnswer
<1> QED
    BY <1>2, <1>3 DEF Left

LEMMA LeftIn ==
    ASSUME Left, NEW c \in DOMAIN conns, NEW i \in DOMAIN conns'[c].in
    PROVE  conns'[c] = conns[c]
BY SMTT(40) DEF Left, LeftConn

LEMMA LeftPlaces ==
    ASSUME Typed, Typed', PlacesInv, Left
    PROVE  PlacesInv'
<1>1. DOMAIN conns' = DOMAIN conns /\ Len(conns') = Len(conns)
  <2>1. DOMAIN conns' = DOMAIN conns
    BY DEF Left
  <2>2. /\ DOMAIN conns = 1 .. Len(conns) /\ DOMAIN conns' = 1 .. Len(conns')
        /\ Len(conns) \in Nat /\ Len(conns') \in Nat
    BY DEF Typed
  <2> QED
    BY <2>1, <2>2
<1>2. /\ socks' \in Seq(Sockets) /\ Len(socks') = Len(socks)
      /\ DOMAIN socks' = DOMAIN socks /\ DOMAIN socks = 1 .. Len(socks)
      /\ \A s \in DOMAIN socks : socks'[s].conn = socks[s].conn
    BY DEF Left, PlacesInv
<1>3. ASSUME NEW d \in DOMAIN conns
      PROVE  Placed(conns'[d], d, socks')
  <2> DEFINE k == conns[d]
             n == conns'[d]
  <2>1. Placed(k, d, socks)
    BY DEF PlacesInv
  <2>2. \A i \in DOMAIN n.out : \/ n.out[i].of = <<"QUIT", 0, 0>>
                                \/ i \in DOMAIN k.out /\ n.out[i] = k.out[i]
    BY LeftOut
  <2>3. n.live = k.live \/ n.live = 0
    BY DEF Left, LeftConn
  <2>4. \A i \in DOMAIN n.in : n = k
    BY LeftIn
  <2> HIDE DEF k, n
  <2>5. n.live \in 0 .. Len(socks') /\ (n.live # 0 => socks'[n.live].conn <= d)
    <3>1. CASE n.live = k.live
        <4>1. k.live # 0 => k.live \in DOMAIN socks
            BY <1>2, <2>1 DEF Placed
        <4> QED
            BY <1>2, <2>1, <3>1, <4>1 DEF Placed
    <3>2. CASE n.live = 0
        BY <1>2, <2>1, <3>2 DEF Placed, PlacesInv
    <3> QED
        BY <2>3, <3>1, <3>2
  <2>6. \A i \in DOMAIN n.in : n.in[i][1] = "PORT" =>
          n.in[i][2] \in DOMAIN socks' /\ socks'[n.in[i][2]].conn <= d
    BY <1>2, <2>1, <2>4 DEF Placed
  <2>7. \A i \in DOMAIN n.out : n.out[i].of[1] = "PORT" => n.out[i].of[2] \in DOMAIN socks'
    BY <1>2, <2>1, <2>2 DEF Placed
  <2>8. Placed(n, d, socks')
    BY SMTT(40), <2>5, <2>6, <2>7 DEF Placed
  <2> QED
    BY <2>8 DEF n
<1>4. \A s \in DOMAIN socks' : socks'[s].conn <= Len(conns')
    BY <1>1, <1>2 DEF PlacesInv
<1>5. data' = data /\ cmd' = cmd
    BY DEF Left
<1> QED
    BY <1>1, <1>2, <1>3, <1>4, <1>5 DEF PlacesInv

LEMMA LeftFresh ==
    ASSUME Typed, Left, NEW s \in DOMAIN socks, s # 0, Fresh(conns, socks, data, s)
    PROVE  Fresh(conns', socks', data', s)
<1>1. /\ socks'[s].chans = {} /\ ~socks'[s].came /\ ~socks'[s].server
      /\ data' # s /\ DOMAIN conns' = DOMAIN conns
    BY DEF Left, Fresh
<1>2. ASSUME NEW d \in DOMAIN conns
      PROVE  conns'[d].live # s /\ \A i \in DOMAIN conns'[d].out : ~IsPort(conns'[d].out[i].of, s)
  <2>1. conns[d].live # s /\ \A i \in DOMAIN conns[d].out : ~IsPort(conns[d].out[i].of, s)
    BY DEF Fresh
  <2>2. conns'[d].live # s
    BY <2>1 DEF Left, LeftConn
  <2>3. \A i \in DOMAIN conns'[d].out :
                \/ conns'[d].out[i].of = <<"QUIT", 0, 0>>
                \/ i \in DOMAIN conns[d].out /\ conns'[d].out[i] = conns[d].out[i]
    BY LeftOut
  <2>4. ~IsPort(<<"QUIT", 0, 0>>, s)
    BY DEF IsPort
  <2> QED
    BY <2>1, <2>2, <2>3, <2>4
<1> QED
    BY <1>1, <1>2 DEF Fresh

LEMMA LeftOnce ==
    ASSUME OnceInv, Left
    PROVE  OnceInv'
<1> SUFFICES ASSUME NEW d \in DOMAIN conns, NEW e \in DOMAIN conns,
                    NEW i \in DOMAIN conns'[d].in, NEW j \in DOMAIN conns'[e].in,
                    NEW s, IsPort(conns'[d].in[i], s), IsPort(conns'[e].in[j], s)
             PROVE  d = e /\ i = j
  <2>1. DOMAIN conns' = DOMAIN conns
    BY DEF Left
  <2>2. ASSUME NEW d \in DOMAIN conns, NEW e \in DOMAIN conns
        PROVE  Once(conns'[d].in, conns'[e].in, d, e)
    BY Zenon DEF Once
  <2> QED
    BY <2>1, <2>2 DEF OnceInv
<1>1. conns'[d] = conns[d] /\ conns'[e] = conns[e]
    BY LeftIn
<1>2. Once(conns[d].in, conns[e].in, d, e)
    BY DEF OnceInv
<1> QED
    BY <1>1, <1>2 DEF Once

LEMMA LeftPending ==
    ASSUME Typed, PlacesInv, PendingInv, Left
    PROVE  PendingInv'
<1> SUFFICES ASSUME NEW d \in DOMAIN conns, NEW i \in DOMAIN conns'[d].in, NEW s,
                    IsPort(conns'[d].in[i], s)
             PROVE  Fresh(conns', socks', data', s)
  <2>1. DOMAIN conns' = DOMAIN conns
    BY DEF Left
  <2> QED
    BY <2>1, Zenon DEF PendingInv
<1>1. i \in DOMAIN conns[d].in /\ IsPort(conns[d].in[i], s)
    BY LeftIn
<1>2. Fresh(conns, socks, data, s) /\ Placed(conns[d], d, socks)
    BY <1>1 DEF PendingInv, PlacesInv
<1>3. s \in DOMAIN socks /\ s # 0
    BY <1>1, <1>2 DEF Placed, IsPort, PlacesInv
<1> QED
    BY <1>2, <1>3, LeftFresh

LEMMA AbsentLeft ==
    ASSUME Left, NEW s, Absent(conns, s)
    PROVE  Absent(conns', s)
<1> SUFFICES ASSUME NEW d \in DOMAIN conns, NEW i \in DOMAIN conns'[d].in
             PROVE  ~IsPort(conns'[d].in[i], s)
    BY DEF Absent, Left
<1>1. conns'[d] = conns[d]
    BY LeftIn
<1> QED
    BY <1>1 DEF Absent

LEMMA LeftPrepared ==
    ASSUME Typed, JobsInv, PlacesInv, PreparedInv, Left
    PROVE  PreparedInv'
<1> SUFFICES ASSUME NEW u \in Threads, job[u].sock # 0, job[u].pc = "send"
             PROVE  /\ Fresh(conns', socks', data', job[u].sock)
                    /\ Absent(conns', job[u].sock)
    BY DEF PreparedInv, Left
<1> DEFINE s == job[u].sock
<1>1. s \in DOMAIN socks /\ s # 0 /\ Fresh(conns, socks, data, s) /\ Absent(conns, s)
    BY DEF PreparedInv, JobsInv, JobInv
<1> HIDE DEF s
<1>2. Fresh(conns', socks', data', s)
    BY <1>1, LeftFresh
<1>3. Absent(conns', s)
    BY <1>1, AbsentLeft
<1> QED
    BY <1>2, <1>3 DEF s

LEMMA LeftSocket ==
    ASSUME PlacesInv, SocketInv, Left
    PROVE  SocketInv'
<1>1. DOMAIN socks' = DOMAIN socks /\ DOMAIN conns' = DOMAIN conns
    BY DEF Left, PlacesInv
<1> SUFFICES ASSUME NEW s \in DOMAIN socks
             PROVE  /\ socks'[s].chans = {} \/ \E x \in Int : socks'[s].chans = {x}
                    /\ socks'[s].server => \E d \in DOMAIN conns : conns'[d].live = s
    BY <1>1 DEF SocketInv
<1>2. socks'[s].chans = {} \/ \E x \in Int : socks'[s].chans = {x}
    BY SMTT(40) DEF SocketInv, Left
<1>3. ASSUME socks'[s].server PROVE \E d \in DOMAIN conns : conns'[d].live = s
  <2>1. PICK d \in DOMAIN conns : conns[d].live = s
    BY <1>3 DEF SocketInv, Left
  <2>2. conns'[d] = conns[d]
    BY <1>3, <2>1 DEF Left
  <2> QED
    BY <2>1, <2>2
<1> QED
    BY <1>2, <1>3

LEMMA LeftTunes ==
    ASSUME UntappedInv, Left
    PROVE  UntappedInv'
<1> SUFFICES ASSUME NEW d \in DOMAIN conns, NEW i \in DOMAIN conns'[d].in,
                    conns'[d].in[i][1] = "TUNE"
             PROVE  Untapped(conns'[d], i)
  <2>1. DOMAIN conns' = DOMAIN conns
    BY DEF Left
  <2> QED
    BY <2>1, Zenon DEF UntappedInv
<1>1. conns'[d] = conns[d]
    BY LeftIn
<1> QED
    BY <1>1 DEF UntappedInv

LEMMA LeftJobs ==
    ASSUME Typed, JobsInv, PlacesInv, Left
    PROVE  JobsInv'
<1>1. UntappedNow => UntappedNow'
  <2> SUFFICES ASSUME UntappedNow, cmd # 0
               PROVE  Untapped(conns'[cmd], Len(conns'[cmd].in) + 1)
    BY DEF UntappedNow, Left
  <2>1. Untapped(conns[cmd], Len(conns[cmd].in) + 1) /\ cmd \in DOMAIN conns
    BY DEF UntappedNow, Typed
  <2>2. CASE conns'[cmd] = conns[cmd]
    BY <2>1, <2>2
  <2>3. CASE LeftConn(conns[cmd], conns'[cmd])
    <3>1. conns'[cmd].in = <<>> /\ conns'[cmd].live = 0
        BY <2>3 DEF LeftConn
    <3>2. 1 .. (Len(conns'[cmd].in) + 1) - 1 = {}
        BY <3>1
    <3> QED
        BY <3>1, <3>2 DEF Untapped
  <2> QED
    BY <2>1, <2>2, <2>3 DEF Left
<1>2. UNCHANGED <<job, cmdLock, devLock, cmd, channel, tuned>> /\ DOMAIN socks' = DOMAIN socks
    BY DEF Left, PlacesInv
<1> SUFFICES ASSUME NEW t \in Threads PROVE JobInv(t)'
    BY DEF JobsInv
<1>3. JobInv(t) /\ Command(t)' = Command(t)
    BY <1>2 DEF JobsInv, Command
<1> QED
    BY <1>1, <1>2, <1>3 DEF JobInv

LEMMA LeftSteps ==
    ASSUME Typed, StepsInv, Left
    PROVE  StepsInv'
<1>1. UNCHANGED <<job, cmdLock, cmd, channel, tuned, mismatch>>
    BY DEF Left
<1>2. Waited' <=> Waited
    BY <1>1 DEF Waited, HasToWait
<1> SUFFICES ASSUME cmd # 0, conns'[cmd].server PROVE StepInv(conns[cmd])'
    BY <1>1 DEF StepsInv
<1>3. cmd \in DOMAIN conns
    BY DEF Typed
<1>4. conns'[cmd] = conns[cmd]
    BY <1>3 DEF Left, LeftConn
<1>5. StepInv(conns[cmd])
    BY <1>4 DEF StepsInv
<1>6. Way(conns[cmd])' = Way(conns[cmd]) /\ FirstOf(conns[cmd])' = FirstOf(conns[cmd])
    BY <1>1, <1>4 DEF Way, FirstOf
<1> QED
    BY <1>1, <1>2, <1>4, <1>5, <1>6 DEF StepInv

LEMMA LeftRight ==
    ASSUME Typed, Left, NEW d \in DOMAIN socks, Using(d) => Right(d), Using(d)'
    PROVE  Right(d)'
<1>1. UNCHANGED <<cmd, channel, tuned, mismatch>>
    BY DEF Left
<1>2. cmd # 0 /\ cmd \in DOMAIN conns
  <2>1. cmd # 0
    BY <1>1 DEF Using
  <2> QED
    BY <2>1 DEF Typed
<1>3. Using(d) /\ socks'[d].chans = socks[d].chans
    BY <1>1 DEF Using, Left
<1>4. /\ \A i \in DOMAIN conns[cmd].out : conns[cmd].out[i].of[1] # "TUNE"
      /\ tuned => socks[d].chans \subseteq {channel}
    BY <1>3 DEF Right
<1>5. ASSUME NEW i \in DOMAIN conns'[cmd].out
      PROVE  conns'[cmd].out[i].of[1] # "TUNE"
  <2>1. \/ conns'[cmd].out[i].of = <<"QUIT", 0, 0>>
        \/ i \in DOMAIN conns[cmd].out /\ conns'[cmd].out[i] = conns[cmd].out[i]
    BY <1>2, LeftOut
  <2> QED
    BY <1>4, <2>1
<1> QED
    BY <1>1, <1>3, <1>4, <1>5 DEF Right

LEMMA LeftData ==
    ASSUME Typed, PlacesInv, DataInv, Left
    PROVE  DataInv'
<1>1. UNCHANGED <<cmd, data, mismatch>>
    BY DEF Left
<1> SUFFICES ASSUME Using(data)' PROVE Right(data)'
    BY DEF DataInv
<1> PICK d : d = data
    OBVIOUS
<1>2. d \in DOMAIN socks
    BY <1>1 DEF Using, PlacesInv
<1>3. Using(d) => Right(d)
    BY DEF DataInv
<1>4. Using(d)'
    BY <1>1 DEF Using
<1>5. Right(d)'
    BY <1>2, <1>3, <1>4, LeftRight
<1> QED
    BY <1>1, <1>5 DEF Right

LEMMA LeftAwaited ==
    ASSUME Typed, JobsInv, PlacesInv, AwaitedInv, Left
    PROVE  AwaitedInv'
<1>1. UNCHANGED <<job, cmd, mismatch>>
    BY DEF Left
<1> SUFFICES ASSUME NEW u \in Threads, job[u].pc = "accept", ~mismatch
             PROVE  /\ Absent(conns', job[u].sock)
                    /\ Using(job[u].sock)' => Right(job[u].sock)'
    BY <1>1 DEF AwaitedInv, Using
<1> PICK s : s = job[u].sock
    OBVIOUS
<1>2. s \in DOMAIN socks /\ Absent(conns, s) /\ (Using(s) => Right(s))
    BY DEF JobsInv, JobInv, AwaitedInv
<1>3. Absent(conns', s)
    BY <1>2, AbsentLeft
<1>4. Using(s)' => Right(s)'
    BY <1>2, LeftRight
<1> QED
    BY <1>1, <1>3, <1>4 DEF Using, Right

LEMMA LeftLast ==
    ASSUME Typed, JobsInv, LastInv, Left
    PROVE  LastInv'
<1>1. UNCHANGED <<job, cmdLock, cmd, channel, tuned, mismatch>>
    BY DEF Left
<1> SUFFICES ASSUME NEW u \in Threads, job[u].sock # 0, job[u].pc = "reply"
             PROVE  LastPort(conns[cmd], job[u].sock)'
    BY <1>1 DEF LastInv
<1> DEFINE s == job[u].sock
           k == conns[cmd]
           n == conns'[cmd]
<1>2. LastPort(k, s) /\ s \in DOMAIN socks /\ cmd # 0 /\ cmd \in DOMAIN conns
      /\ k \in Connection /\ socks'[s].chans = socks[s].chans
  <2>1. LastPort(k, s) /\ s \in DOMAIN socks /\ cmd # 0 /\ cmd \in DOMAIN conns
    BY DEF LastInv, JobsInv, JobInv, Waiting, Typed
  <2> QED
    BY <2>1, ConnTyped DEF Left
<1> SUFFICES /\ \A i \in DOMAIN n.in : IsPort(n.in[i], s) => i = Len(n.in)
             /\ \A i \in DOMAIN n.out : IsPort(n.out[i].of, s) => i = Len(n.out) /\ n.in = <<>>
             /\ tuned /\ ~mismatch /\ Len(n.out) = 1 /\ IsPort(n.out[1].of, s) =>
                  socks'[s].chans \subseteq {channel}
    BY <1>1 DEF LastPort
<1>3. CASE n = k
  <2> HIDE DEF k, n, s
  <2> QED
    BY <1>2, <1>3 DEF LastPort
<1>4. CASE LeftConn(k, n)
  <2>1. \A i \in DOMAIN n.out : IsPort(n.out[i].of, s) => n.out = k.out
    <3> SUFFICES ASSUME NEW i \in DOMAIN n.out, IsPort(n.out[i].of, s)
                 PROVE  n.out = k.out
        OBVIOUS
    <3>1. ~IsPort(<<"QUIT", 0, 0>>, s)
        BY DEF IsPort
    <3>2. i \in DOMAIN k.out /\ n.out[i] = k.out[i] /\ (n.out = k.out \/ k.in # <<>>)
        BY <1>2, <1>4, <3>1, LeftAnswer
    <3> QED
        BY <1>2, <3>2 DEF LastPort
  <2>2. n.in = <<>>
    BY <1>4 DEF LeftConn
  <2>3. Len(n.out) = 1 /\ IsPort(n.out[1].of, s) => n.out = k.out
    <3>1. CASE n.out = <<>>
        BY <3>1
    <3>2. CASE n.out # <<>>
      <4>3. k.out \in Seq(Reply)
        BY <1>2 DEF Connection
      <4>4. \/ n.out = k.out
            \/ n.out = Append(k.out, [of |-> <<"QUIT", 0, 0>>, code |-> 221])
        BY <1>4, <3>2 DEF LeftConn
      <4> DEFINE o == k.out
                 p == n.out
                 a == [of |-> <<"QUIT", 0, 0>>, code |-> 221]
      <4>5. o \in Seq(Reply) /\ a \in Reply /\ (p = o \/ p = Append(o, a))
        BY <4>3, <4>4, Reply221
      <4> HIDE DEF a, o, p
      <4>6. p \in Seq(Reply)
        BY <4>5
      <4>1. n.out \in Seq(Reply)
        BY <4>6 DEF p
      <4>2. 1 \in DOMAIN n.out
        BY <3>2, <4>1
      <4> QED
        BY <2>1, <4>2
    <3> QED
        BY <3>1, <3>2
  <2> HIDE DEF k, n, s
  <2> QED
    BY <1>2, <2>1, <2>2, <2>3 DEF LastPort
<1> QED
    BY <1>2, <1>3, <1>4 DEF Left

LEMMA LeftInv ==
    ASSUME Typed, Typed', ChanInv, Left
    PROVE  ChanInv'
<1>2. /\ JobsInv /\ PlacesInv /\ OnceInv /\ PendingInv /\ PreparedInv
      /\ SocketInv /\ UntappedInv /\ StepsInv /\ LastInv /\ DataInv /\ AwaitedInv
    BY DEF ChanInv
<1>3. JobsInv' /\ PlacesInv' /\ OnceInv' /\ PendingInv' /\ PreparedInv'
    BY <1>2, LeftJobs, LeftPlaces, LeftOnce, LeftPending, LeftPrepared
<1>4. SocketInv' /\ UntappedInv' /\ StepsInv' /\ LastInv' /\ DataInv'
    BY <1>2, LeftSocket, LeftTunes, LeftSteps, LeftLast, LeftData
<1>5. AwaitedInv'
    BY <1>2, LeftAwaited
<1> QED
    BY <1>3, <1>4, <1>5 DEF ChanInv

(* One connection goes, with its data socket.                              *)
LEMMA OneLeft ==
    ASSUME Typed, Typed', ChanInv, NEW c \in DOMAIN conns, NEW n,
           LeftConn(conns[c], n), conns' = [conns EXCEPT ![c] = n],
           socks' = CloseServer(socks, conns[c].live), UNCHANGED noClient
    PROVE  ChanInv'
<1>1. /\ socks \in Seq(Sockets) /\ conns[c].live \in 0 .. Len(socks)
      /\ \A s \in DOMAIN socks : s # 0
    BY DEF ChanInv, PlacesInv, Placed
<1>2. /\ socks' \in Seq(Sockets) /\ Len(socks') = Len(socks)
      /\ \A s \in DOMAIN socks : /\ socks'[s].chans = socks[s].chans
                                 /\ socks'[s].conn = socks[s].conn
                                 /\ socks'[s].came = socks[s].came
                                 /\ socks'[s].server => socks[s].server /\ s # conns[c].live
    BY <1>1, CloseServerIs
<1>3. /\ DOMAIN conns' = DOMAIN conns /\ conns'[c] = n
      /\ \A d \in DOMAIN conns \ {c} : conns'[d] = conns[d]
    OBVIOUS
<1>4. UNCHANGED <<job, cmdLock, devLock, cmd, data, channel, tuned, mismatch>>
    BY DEF noClient, clientVars
<1>5. \A d \in DOMAIN conns : conns'[d] = conns[d] \/ LeftConn(conns[d], conns'[d])
    BY <1>3
<1>6. ASSUME NEW s \in DOMAIN socks, NEW d \in DOMAIN conns,
             socks'[s].server, conns[d].live = s
      PROVE  conns'[d] = conns[d]
    BY <1>2, <1>3, <1>6
<1>7. Left
    BY <1>2, <1>3, <1>4, <1>5, <1>6 DEF Left
<1> QED
    BY <1>7, LeftInv

LEMMA QUITChan ==
    ASSUME Typed, Typed', ChanInv, NEW c \in DOMAIN conns, CmdQUIT(c), UNCHANGED noClient
    PROVE  ChanInv'
<1> DEFINE k == conns[c]
           o == Append(k.out, [of |-> <<"QUIT", 0, 0>>, code |-> 221])
           n == [Gone(k) EXCEPT !.out = o]
<1>1. k \in Connection /\ k.in # <<>> /\ socks' = CloseServer(socks, k.live)
    BY AskedIs DEF CmdQUIT
<1>2. k.out \in Seq(Reply) /\ Gone(k).out = k.out
    BY <1>1 DEF Connection, Gone
<1>3. conns' = [conns EXCEPT ![c] = n]
    BY <1>2 DEF CmdQUIT
<1>4. o \in Seq(Reply)
    BY <1>2, Reply221
<1>5. o = Append(k.out, [of |-> <<"QUIT", 0, 0>>, code |-> 221])
    OBVIOUS
<1> HIDE DEF o
<1>6. n.in = <<>> /\ n.out = o /\ n.live = 0 /\ ~n.server
    BY <1>1, <1>4, GoneTyped
<1> HIDE DEF n
<1>7. LeftConn(k, n)
    BY <1>1, <1>5, <1>6 DEF LeftConn
<1> QED
    BY <1>1, <1>3, <1>7, OneLeft

LEMMA LeaveChan ==
    ASSUME Typed, Typed', ChanInv, NEW c \in DOMAIN conns, Leave(c)
    PROVE  ChanInv'
<1> DEFINE k == conns[c]
           o == k.out
           n == [Gone(k) EXCEPT !.out = o]
<1>1. /\ k \in Connection /\ socks' = CloseServer(socks, k.live)
      /\ UNCHANGED noClient
    BY ConnTyped DEF Leave
<1>2. o \in Seq(Reply)
    BY <1>1 DEF Connection
<1>3. n = Gone(k)
    BY <1>1 DEF Connection, Gone
<1>4. conns' = [conns EXCEPT ![c] = n]
    BY <1>3 DEF Leave
<1>5. n.in = <<>> /\ n.out = k.out /\ n.live = 0 /\ ~n.server
    BY <1>1, <1>2, GoneTyped
<1> HIDE DEF n
<1>6. LeftConn(k, n)
    BY <1>5 DEF LeftConn
<1> QED
    BY <1>1, <1>4, <1>6, OneLeft

LEMMA RestartChan ==
    ASSUME Typed, Typed', ChanInv, Restart
    PROVE  ChanInv'
<1>1. /\ socks \in Seq(Sockets) /\ DOMAIN socks = 1 .. Len(socks) /\ Len(socks) \in Nat
      /\ socks' = [s \in DOMAIN socks |-> [socks[s] EXCEPT !.server = FALSE]]
    BY DEF ChanInv, PlacesInv, Restart
<1>2. ASSUME NEW s \in DOMAIN socks
      PROVE  /\ socks'[s] \in Sockets /\ ~socks'[s].server
             /\ socks'[s].chans = socks[s].chans /\ socks'[s].conn = socks[s].conn
             /\ socks'[s].came = socks[s].came
  <2> DEFINE b == FALSE
             x == socks[s]
             y == [x EXCEPT !.server = b]
  <2>1. x \in Sockets /\ b \in BOOLEAN /\ ~b /\ socks'[s] = y
    BY <1>1
  <2> HIDE DEF b, x
  <2>2. /\ y \in Sockets /\ y.chans = x.chans /\ y.conn = x.conn /\ y.server = b
        /\ y.came = x.came
    BY <2>1, SockField
  <2> HIDE DEF y
  <2> QED
    BY <2>1, <2>2 DEF x
<1>3. socks' \in Seq(Sockets) /\ Len(socks') = Len(socks)
  <2>1. socks' \in [1 .. Len(socks) -> Sockets]
    BY <1>1, <1>2
  <2>2. socks' \in Seq(Sockets)
    BY <1>1, <2>1, OneToN
  <2> QED
    BY <1>1, <2>1, <2>2
<1>4. ASSUME NEW c \in DOMAIN conns
      PROVE  conns'[c] = conns[c] \/ LeftConn(conns[c], conns'[c])
  <2> DEFINE n == [Gone(conns[c]) EXCEPT !.out = <<>>]
  <2>1. conns[c] \in Connection /\ <<>> \in Seq(Reply)
    BY ConnTyped
  <2>2. n.in = <<>> /\ n.out = <<>> /\ n.live = 0 /\ ~n.server
    BY <2>1, GoneTyped
  <2>3. conns'[c] = conns[c] \/ conns'[c] = n
    BY DEF Restart
  <2> QED
    BY <2>2, <2>3 DEF LeftConn
<1>5. DOMAIN conns' = DOMAIN conns
    BY DEF Restart
<1>6. UNCHANGED <<job, cmdLock, devLock, cmd, data, channel, tuned, mismatch>>
    BY DEF noClient, clientVars, Restart
<1>7. Left
    BY <1>2, <1>3, <1>4, <1>5, <1>6 DEF Left
<1> QED
    BY <1>7, LeftInv

-----------------------------------------------------------------------------
(* The theorem                                                             *)

LEMMA InitChan == Init => ChanInv
<1> SUFFICES ASSUME Init PROVE ChanInv
    OBVIOUS
<1>1. /\ conns = <<>> /\ socks = <<>> /\ cmd = 0 /\ data = 0
      /\ \A t \in Threads : job[t] = Idle
    BY DEF Init
<1>2. DOMAIN conns = {} /\ DOMAIN socks = {} /\ Len(conns) = 0 /\ Len(socks) = 0
      /\ socks \in Seq(Sockets)
    BY <1>1
<1>3. JobsInv
    BY <1>1 DEF JobsInv, JobInv, Idle, Waiting
<1>4. PlacesInv
    BY <1>1, <1>2 DEF PlacesInv
<1>5. OnceInv /\ PendingInv /\ SocketInv /\ UntappedInv
    BY <1>2 DEF OnceInv, PendingInv, SocketInv, UntappedInv
<1>6. PreparedInv /\ LastInv
    BY <1>1 DEF PreparedInv, LastInv, Idle
<1>7. StepsInv /\ DataInv /\ AwaitedInv
    BY <1>1 DEF StepsInv, DataInv, AwaitedInv, Using, Idle
<1> QED
    BY <1>3, <1>4, <1>5, <1>6, <1>7 DEF ChanInv

LEMMA ServeChan ==
    ASSUME Typed, Typed', ChanInv, NEW c \in DOMAIN conns, Serve(c)
    PROVE  ChanInv'
<1>1. UNCHANGED noClient
    BY DEF Serve
<1> QED
    BY <1>1, VERSChan, PROVChan, TUNEChan, PORTChan, ABRTChan, PRIOChan, QUITChan
       DEF Serve

LEMMA NextChan == IInv /\ ChanInv /\ [Next]_vars => ChanInv'
<1> SUFFICES ASSUME IInv, ChanInv, [Next]_vars PROVE ChanInv'
    OBVIOUS
<1>1. IInv'
    BY NextInv
<1>2. Typed /\ Typed'
    BY <1>1 DEF IInv
<1>3. CASE \E t \in Threads : Step(t) \/ Call(t) \/ Timeout(t)
    BY <1>2, <1>3, ClientStep
<1>4. CASE \E c \in DOMAIN conns : Serve(c) \/ Leave(c)
    BY <1>2, <1>4, ServeChan, LeaveChan
<1>5. CASE Restart
    BY <1>2, <1>5, RestartChan
<1>6. CASE UNCHANGED vars
  <2>1. UNCHANGED <<job, cmdLock, devLock, cmd, data, channel, tuned, conns, socks, mismatch>>
    BY <1>6 DEF vars, clientVars
  <2>2. JobsInv'
    <3>1. \A t \in Threads : Command(t)' = Command(t)
        BY <2>1 DEF Command
    <3>2. UntappedNow' = UntappedNow
        BY <2>1 DEF UntappedNow
    <3> QED
        BY <2>1, <3>1, <3>2 DEF ChanInv, JobsInv, JobInv
  <2>5. PlacesInv' /\ OnceInv'
    BY <2>1 DEF ChanInv, PlacesInv, OnceInv
  <2>3. PendingInv' /\ PreparedInv' /\ SocketInv' /\ UntappedInv'
    BY SMTT(40),
       <2>1 DEF ChanInv, PendingInv, PreparedInv, SocketInv, UntappedInv, Absent
  <2>4. StepsInv' /\ LastInv' /\ DataInv'
    BY <2>1 DEF ChanInv, StepsInv, StepInv, Waited, HasToWait, LastInv, LastPort,
                DataInv, Using, Right
  <2>6. AwaitedInv'
    BY <2>1 DEF ChanInv, AwaitedInv, Absent, Using, Right
  <2> QED
    BY <2>2, <2>3, <2>4, <2>5, <2>6 DEF ChanInv
<1> QED
    BY <1>3, <1>4, <1>5, <1>6 DEF Next

(* What the data socket the client reads carries is the channel it was     *)
(* told it is tuned to, and nothing of another channel came through any    *)
(* data socket (CmdTUNE, CmdPORT and CmdABRT of connectionVTP.c under      *)
(* SetChannelDevice and CreateDataConnection of client/socket.c).          *)
THEOREM RightChannelComes == Spec => []RightChannel
<1>1. ChanInv => RightChannel
  <2> SUFFICES ASSUME ChanInv PROVE RightChannel
    OBVIOUS
  <2>1. ASSUME NEW s \in DOMAIN socks
        PROVE  Cardinality(socks[s].chans) <= 1
    <3>1. socks[s].chans = {} \/ \E x \in Int : socks[s].chans = {x}
        BY DEF ChanInv, SocketInv
    <3>2. CASE socks[s].chans = {}
        BY <3>2, FS_EmptySet
    <3>3. CASE \E x \in Int : socks[s].chans = {x}
        BY <3>3, FS_Singleton
    <3> QED
        BY <3>1, <3>2, <3>3
  <2>2. DataInv
    BY DEF ChanInv
  <2> QED
    BY <2>1, <2>2 DEF RightChannel, DataInv, Using, Right
<1> QED
    BY <1>1, InitInv, NextInv, InitChan, NextChan, PTL DEF Spec

=============================================================================
