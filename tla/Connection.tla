----------------------------- MODULE Connection -----------------------------
(***************************************************************************)
(* A client's connection to the server: the line reader and the response   *)
(* queue of cServerConnection (server/connection.c), and above them how a  *)
(* VTP connection answers a command at once or, LSTx, one line per server  *)
(* cycle (server/connectionVTP.c). A line is a number of equal bytes, its  *)
(* place among the lines the client sent; a reply is two units long.       *)
(***************************************************************************)
EXTENDS Integers, Sequences

CONSTANTS
    Size,      \* of the read buffer (MAXPARSEBUFFER)
    OutSize,   \* of the write buffer, in units
    Clients,   \* kinds of clients: the lengths and the kinds of their lines,
               \* and whether they wait for an answer before the next line
    ListLen,   \* replies of a list
    MaxLines   \* bound: lines of the client

ASSUME ConnectionAssumption ==
    /\ Size \in Nat \ {0, 1} /\ OutSize \in Nat
    /\ \A c \in Clients :
         /\ c.lens \subseteq Nat \ {0}
         /\ c.kinds \subseteq {"header", "simple", "list", "quit"}
         /\ c.lockStep \in BOOLEAN
         /\ c.lockStep => "header" \notin c.kinds
    /\ ListLen \in Nat \ {0} /\ MaxLines \in Nat

(* A reply fits the empty write buffer, and a line of a client that waits  *)
(* the empty read buffer.                                                  *)
ASSUME BuffersSuffice ==
    /\ OutSize >= 2
    /\ \A c \in Clients : c.lockStep => \A len \in c.lens : len + 1 < Size

(* A "header" line is not answered, a "list" one is with several lines.    *)
Lens == UNION {c.lens : c \in Clients}
Kinds == UNION {c.kinds : c \in Clients}

NUL == 0
NL == -1

VARIABLES
    client,     \* the kind of client
    sent,       \* the lines the client sent
    wire,       \* the bytes of them not read yet
    buf,        \* m_ReadBuffer
    rb,         \* m_ReadBytes
    pc,         \* "select", or "parse" while in the loop of Read
    got,        \* history: what Command was called with
    last,       \* m_LastCommand: its line, or Idle
    item,       \* the next line of the LSTx handler, 0 if there is none
    out,        \* m_WriteBuffer up to m_WriteBytes: units <<line, reply, half>>
    wi,         \* m_WriteIndex
    pending,    \* m_Pending
    deferClose, \* m_DeferClose
    recv,       \* what the client received
    conn,       \* "open", "closed", or how the process crashed
    gone        \* the client has closed its socket

readVars == <<wire, buf, rb, pc>>
cmdVars == <<last, item>>
writeVars == <<out, wi, pending, deferClose>>
vars == <<client, sent, readVars, got, cmdVars, writeVars, recv, conn, gone>>

LockStep == client.lockStep

Idle == -1
Bytes == Nat \cup {NL}
Line(n, len) == [i \in 1..len |-> n]
Reply(n, j, len) == [h \in 1..len |-> <<n, j, h>>]
Replies(n) == IF n > 0 /\ sent[n].kind = "list" THEN ListLen ELSE 1
Answered(n) == \E i \in DOMAIN recv : recv[i] = <<n, Replies(n), 2>>

Init ==
    /\ client \in Clients
    /\ sent = <<>> /\ wire = <<>>
    /\ buf = [i \in 0 .. Size - 1 |-> NUL] /\ rb = 0 /\ pc = "select"
    /\ got = <<>> /\ last = Idle /\ item = 0
    /\ out = Reply(0, 1, 2) /\ wi = 0  \* Welcome or Reject
    /\ pending = FALSE /\ deferClose \in BOOLEAN
    /\ recv = <<>> /\ conn = "open" /\ gone = FALSE

-----------------------------------------------------------------------------
(* The client.                                                             *)

Welcomed == \E i \in DOMAIN recv : recv[i] = <<0, 1, 2>>

Send ==
    /\ ~gone /\ Len(sent) < MaxLines
    /\ LockStep => Welcomed /\ (sent # <<>> => Answered(Len(sent)))
    /\ \E len \in client.lens, kind \in client.kinds :
         /\ sent' = Append(sent, [len |-> len, kind |-> kind])
         /\ wire' = wire \o Line(Len(sent) + 1, len) \o <<NL>>
    /\ UNCHANGED <<client, buf, rb, pc, got, cmdVars, writeVars, recv, conn,
                   gone>>

Leave ==
    /\ ~gone /\ gone' = TRUE
    /\ UNCHANGED <<client, sent, readVars, got, cmdVars, writeVars, recv, conn>>

-----------------------------------------------------------------------------
(* Read: any part of what the client sent, and a NUL behind it.            *)
Read ==
    /\ conn = "open" /\ pc = "select"
    /\ \E b \in 1..Len(wire) :
         /\ b < Size - rb
         /\ buf' = [i \in 0 .. Size - 1 |->
                      IF i \in rb .. rb + b - 1 THEN wire[i - rb + 1]
                      ELSE IF i = rb + b THEN NUL ELSE buf[i]]
         /\ rb' = rb + b
         /\ wire' = SubSeq(wire, b + 1, Len(wire))
    /\ pc' = "parse"
    /\ UNCHANGED <<client, sent, got, cmdVars, writeVars, recv, conn, gone>>

ReadEnd ==
    /\ conn = "open" /\ pc = "select"
    /\ gone /\ wire = <<>>
    /\ conn' = "closed"
    /\ UNCHANGED <<client, sent, readVars, got, cmdVars, writeVars, recv, gone>>

(* Respond: a line of len units behind o, if it fits; pending if more are  *)
(* to follow.                                                              *)
Fits(o, len) == Len(o) + len <= OutSize

(* Slip: the caller's lines to follow are forgotten.                       *)
RespondForgets(o, n, j, len, final) ==
    /\ out' = o \o Reply(n, j, len)
    /\ pending' = FALSE

Respond(o, n, j, len, final) ==
    /\ out' = o \o Reply(n, j, len)
    /\ pending' = ~final

(* CmdLSTX: the handler posts its next line behind o. A handler that fails *)
(* is deleted, a final line ends the command even if it does not fit.      *)
ListNext(o, n, j) ==
    /\ IF Fits(o, 2)
         THEN Respond(o, n, j, 2, j = ListLen)
         ELSE out' = o /\ UNCHANGED pending
    /\ item' = IF Fits(o, 2) /\ j # ListLen THEN j + 1 ELSE 0
    /\ last' = IF j = ListLen THEN Idle ELSE n

(* Command(Cmd) with the bytes of a line; FALSE closes the connection.     *)
LineOf(cmd) ==
    IF /\ cmd # <<>> /\ cmd[1] \in DOMAIN sent
       /\ cmd = Line(cmd[1], sent[cmd[1]].len)
      THEN cmd[1] ELSE 0
KindOf(cmd) == IF LineOf(cmd) = 0 THEN "simple" ELSE sent[LineOf(cmd)].kind

Refused(cmd) ==
    KindOf(cmd) # "header" /\ (last # Idle \/ ~Fits(out, 2))

Command(cmd) ==
    LET n == LineOf(cmd) IN
    /\ got' = Append(got, cmd)
    /\ \/ KindOf(cmd) = "header" /\ UNCHANGED <<cmdVars, writeVars>>
       \/ /\ KindOf(cmd) = "simple"
          /\ Respond(out, n, 1, 2, TRUE)
          /\ UNCHANGED <<cmdVars, wi, deferClose>>
       \/ /\ KindOf(cmd) = "quit"
          /\ deferClose' = TRUE
          /\ Respond(out, n, 1, 2, TRUE)
          /\ UNCHANGED <<cmdVars, wi>>
       \/ /\ KindOf(cmd) = "list"
          /\ ListNext(out, n, 1)
          /\ UNCHANGED <<wi, deferClose>>

(* strchr: the first newline before a NUL.                                 *)
IsEnd(e) == buf[e] = NL /\ \A i \in 0 .. e - 1 : buf[i] \notin {NL, NUL}
HasLine == \E e \in 0 .. Size - 1 : IsEnd(e)
Cmd(e) == [i \in 1..e |-> buf[i - 1]]

(* Slip: the newline stays in a buffer nothing is moved in.                *)
MovedKeepsEnd(e) == [i \in 0 .. Size - 1 |->
                       IF i < rb - (e + 1) THEN buf[i + e + 1] ELSE buf[i]]

(* What the buffer holds once the line that ends at e is moved out; the    *)
(* bytes behind it stay where they are.                                    *)
Moved(e) == [i \in 0 .. Size - 1 |->
               IF i < rb - (e + 1) THEN buf[i + e + 1]
               ELSE IF i = e THEN NUL ELSE buf[i]]

(* One round of the loop; m_ReadBytes is unsigned, and the memmove of a    *)
(* wrapped count leaves the process' memory.                               *)
ParseLine ==
    /\ conn = "open" /\ pc = "parse"
    /\ \E e \in 0 .. Size - 1 :
         /\ IsEnd(e) /\ ~Refused(Cmd(e))
         /\ Command(Cmd(e))
         /\ IF e < rb
              THEN /\ buf' = Moved(e) /\ rb' = rb - (e + 1)
                   /\ UNCHANGED conn
              ELSE conn' = "overrun" /\ UNCHANGED <<buf, rb>>
    /\ UNCHANGED <<client, sent, wire, pc, recv, gone>>

ParseRefused ==
    /\ conn = "open" /\ pc = "parse"
    /\ \E e \in 0 .. Size - 1 : IsEnd(e) /\ Refused(Cmd(e))
    /\ conn' = "closed"
    /\ UNCHANGED <<client, sent, readVars, got, cmdVars, writeVars, recv, gone>>

Overflow == rb = Size - 1

ParseDone ==
    /\ conn = "open" /\ pc = "parse" /\ ~HasLine
    /\ pc' = "select"
    /\ conn' = IF Overflow THEN "closed" ELSE "open"
    /\ UNCHANGED <<client, sent, wire, buf, rb, got, cmdVars, writeVars, recv,
                   gone>>

-----------------------------------------------------------------------------

HasData == out # <<>> \/ pending \/ deferClose

(* Slip: the buffer is not emptied before the next line is posted.         *)
NextCycleAppends ==
    IF pending /\ item > 0
      THEN ListNext(out, last, item)
      ELSE out' = <<>> /\ UNCHANGED <<pending, cmdVars>>

(* Command(NULL): without a handler nothing happens, and the result is not *)
(* looked at. m_LastCommand must be there: it is compared with strcasecmp. *)
NextCycle ==
    IF pending /\ item > 0
      THEN ListNext(<<>>, last, item)
      ELSE out' = <<>> /\ UNCHANGED <<pending, cmdVars>>

AfterWrite == IF pending /\ last = Idle THEN "null"
              ELSE IF deferClose THEN "closed" ELSE "open"

(* Slip: a connection to be closed is closed after the first write.        *)
AllOutOrClosing(b) == wi + b = Len(out) \/ deferClose
AllOut(b) == wi + b = Len(out)

(* Write: as much as the socket takes; what comes next once all is out.    *)
Write ==
    /\ conn = "open" /\ pc = "select" /\ HasData
    /\ \E b \in 0 .. Len(out) - wi :
         /\ b = 0 => out = <<>>
         /\ recv' = recv \o SubSeq(out, wi + 1, wi + b)
         /\ IF AllOut(b)
              THEN wi' = 0 /\ NextCycle /\ conn' = AfterWrite
              ELSE wi' = wi + b /\ UNCHANGED <<out, pending, cmdVars, conn>>
    /\ UNCHANGED <<client, sent, readVars, got, deferClose, gone>>

WriteFails ==
    /\ conn = "open" /\ pc = "select" /\ HasData /\ gone
    /\ conn' = "closed"
    /\ UNCHANGED <<client, sent, readVars, got, cmdVars, writeVars, recv, gone>>

Ended == conn # "open" /\ UNCHANGED vars

Next ==
    \/ Send \/ Leave
    \/ Read \/ ReadEnd \/ ParseLine \/ ParseRefused \/ ParseDone
    \/ Write \/ WriteFails
    \/ Ended

Spec == Init /\ [][Next]_vars

(* The server polls every connection that is readable or has data to send. *)
Fairness == /\ WF_vars(Read \/ ReadEnd)
            /\ WF_vars(ParseLine \/ ParseRefused \/ ParseDone)
            /\ WF_vars(Write \/ WriteFails)

FairSpec == Spec /\ Fairness

-----------------------------------------------------------------------------

Units == Nat \X (Nat \ {0}) \X (Nat \ {0})

(* "Will be called when a command terminated by a newline has been         *)
(* received" (connection.h:42): Command gets the lines of the client, each *)
(* once and in order, however they are cut into reads. The code breaks     *)
(* this for a client that sends lines of different lengths and does not    *)
(* wait: behind the moved rest the newline of a line that was read before  *)
(* is found again, Command gets bytes of two lines, and m_ReadBytes wraps. *)
Mixed == ~LockStep /\ \E m, n \in DOMAIN sent : sent[m].len # sent[n].len

OwnLines ==
    /\ Len(got) <= Len(sent)
    /\ \A k \in DOMAIN got : got[k] = Line(k, sent[k].len)

CommandsAreLines == IF conn = "overrun" THEN Mixed ELSE OwnLines

(* Nothing of the answers is lost, repeated or swapped on the way through  *)
(* the write buffer: what the client has received, with what is queued,    *)
(* are the answers to the commands in their order, each of them whole.     *)
Follows(u, v) ==
    \/ v = <<u[1], u[2], u[3] + 1>> /\ u[3] < 2
    \/ v = <<u[1], u[2] + 1, 1>> /\ u[3] = 2 /\ u[2] < Replies(u[1])
    \/ v[1] > u[1] /\ v[2] = 1 /\ v[3] = 1 /\ u[3] = 2
       /\ u[2] = Replies(u[1])

AnswersInOrder ==
    LET s == recv \o SubSeq(out, wi + 1, Len(out)) IN
    conn # "overrun" =>
      \A k \in 1 .. Len(s) - 1 : Follows(s[k], s[k + 1])

(* "Will make the socket close after sending all queued output data"       *)
(* (connection.h:100): a client that waits for each answer is closed for   *)
(* its own QUIT or because it was rejected, never for an overflow or a     *)
(* protocol violation, and not before the last reply is out.               *)
DeferredCloseFlushes ==
    LockStep /\ ~gone /\ conn # "open" =>
      conn = "closed" /\ deferClose /\ Answered(Len(got))

(* Each line sent is answered to its end, in so many server cycles, unless *)
(* the client leaves or the server closes the connection.                  *)
Waiting(n) ==
    /\ n <= Len(sent) /\ sent[n].kind # "header" /\ ~Answered(n)
    /\ ~gone /\ conn = "open"

LinesAnswered == \A n \in 1..MaxLines : Waiting(n) ~> ~Waiting(n)
=============================================================================
