-------------------------- MODULE Connection_proofs -------------------------
(***************************************************************************)
(* The lines of a client that waits for its answers are the commands, for  *)
(* any sizes, any lengths and any way the lines are cut into reads; what   *)
(* answers them arrives whole and in order; and the connection is not      *)
(* closed before the last answer is out.                                   *)
(***************************************************************************)
EXTENDS Connection, SequenceTheorems, TLAPS

Tagged(n) == (0..n) \X Nat \X Nat

Queues ==
    /\ out \in Seq(Tagged(Len(got))) /\ wi \in 0..Len(out)
    /\ recv \in Seq(Tagged(Len(got)))
    /\ last \in {Idle} \cup 0..Len(got) /\ item \in Nat
    /\ item > 0 => last # Idle

Buffers ==
    /\ sent \in Seq([len : Lens, kind : Kinds])
    /\ wire \in Seq(Bytes) /\ got \in Seq(Seq(Bytes))
    /\ buf \in [0 .. Size - 1 -> Bytes] /\ rb \in 0 .. Size - 1

(* Byte i of line n and the newline behind it.                             *)
ByteAt(n, i) == IF i < sent[n].len THEN n ELSE NL

(* What was sent and is no command yet is one line at most, cut between    *)
(* the read buffer and the wire.                                           *)
OneLine ==
    \/ Len(sent) = Len(got) /\ rb = 0 /\ wire = <<>>
    \/ /\ Len(sent) = Len(got) + 1
       /\ rb + Len(wire) = sent[Len(sent)].len + 1
       /\ \A i \in 0 .. rb - 1 : buf[i] = ByteAt(Len(sent), i)
       /\ \A i \in 1..Len(wire) : wire[i] = ByteAt(Len(sent), rb + i - 1)

(* Behind the bytes that count, a NUL comes before any newline.            *)
Stops ==
    pc = "parse" =>
      \E z \in rb .. Size - 1 :
        buf[z] = NUL /\ \A i \in rb .. z - 1 : buf[i] # NL

(* The commands are the lines, and no wrapped count has been used.         *)
AllOwn == conn # "overrun" /\ OwnLines

Inv == Queues /\ Buffers /\ OneLine /\ Stops /\ AllOwn

LEMMA LengthsPositive == Lens \subseteq Nat \ {0}
BY ConnectionAssumption DEF ConnectionAssumption, Lens

(* A wider set of tags.                                                    *)
LEMMA TaggedGrows ==
    ASSUME NEW m \in Nat, NEW n \in Nat, m <= n, NEW s \in Seq(Tagged(m))
    PROVE  s \in Seq(Tagged(n))
<1>1. Tagged(m) \subseteq Tagged(n)
    BY DEF Tagged
<1> QED
    BY <1>1

LEMMA LastOf ==
    ASSUME NEW S, NEW s \in Seq(S), Len(s) > 0
    PROVE  s[Len(s)] \in S
OBVIOUS

(* Something is put behind a sequence, or not.                             *)
LEMMA JoinedOrNot ==
    ASSUME NEW S, NEW s \in Seq(S), NEW t \in Seq(S), NEW u,
           u = s \o t \/ u = s
    PROVE  u \in Seq(S) /\ Len(u) >= Len(s)
BY SMTT(40)

LEMMA ReplyTagged ==
    ASSUME NEW m \in Nat, NEW n \in 0..m, NEW j \in Nat, NEW len \in Nat
    PROVE  Reply(n, j, len) \in Seq(Tagged(m))
<1>1. \A h \in 1..len : <<n, j, h>> \in Tagged(m)
    BY DEF Tagged
<1> QED
    BY <1>1 DEF Reply

LEMMA InitInv == Init => Inv
<1> SUFFICES ASSUME Init PROVE Inv
    OBVIOUS
<1> USE ConnectionAssumption DEF ConnectionAssumption, Init
<1>1. Queues
  <2>1. Reply(0, 1, 2) \in Seq(Tagged(0))
    BY ReplyTagged
  <2> QED
    BY <2>1 DEF Queues, Idle
<1>2. Buffers
    BY DEF Buffers, Bytes, NUL
<1>3. OneLine /\ Stops /\ AllOwn
    BY DEF OneLine, Stops, AllOwn, OwnLines
<1> QED
    BY <1>1, <1>2, <1>3 DEF Inv

(* A client that has an answer to its last line has no line under way.     *)
LEMMA AnsweredMeansGot ==
    ASSUME Inv, sent # <<>> => Answered(Len(sent))
    PROVE  Len(sent) = Len(got) /\ rb = 0 /\ wire = <<>>
<1>1. Len(sent) \in Nat /\ Len(got) \in Nat
    BY DEF Inv, Buffers
<1>2. CASE sent = <<>>
    BY <1>1, <1>2 DEF Inv, OneLine
<1>3. CASE sent # <<>>
  <2>1. PICK i \in DOMAIN recv : recv[i] = <<Len(sent), Replies(Len(sent)), 2>>
    BY <1>3 DEF Answered
  <2>2. recv[i] \in Tagged(Len(got))
    BY DEF Inv, Queues
  <2>3. Len(sent) <= Len(got)
    BY <1>1, <2>1, <2>2 DEF Tagged
  <2> QED
    BY <1>1, <2>3 DEF Inv, OneLine
<1> QED
    BY <1>2, <1>3

LEMMA SendInv ==
    ASSUME client \in Clients, LockStep, Inv, Send PROVE Inv'
<1> USE ConnectionAssumption DEF ConnectionAssumption
<1>1. Len(sent) = Len(got) /\ rb = 0 /\ wire = <<>>
    BY AnsweredMeansGot DEF Send
<1>2. PICK len \in Lens, kind \in Kinds :
        /\ sent' = Append(sent, [len |-> len, kind |-> kind])
        /\ wire' = wire \o Line(Len(sent) + 1, len) \o <<NL>>
  <2>1. client.lens \subseteq Lens /\ client.kinds \subseteq Kinds
    BY DEF Lens, Kinds
  <2> QED
    BY <2>1 DEF Send
<1> DEFINE n == Len(sent) + 1
<1>3. /\ len \in Nat \ {0} /\ n \in Nat
      /\ sent \in Seq([len : Lens, kind : Kinds])
    BY LengthsPositive DEF Inv, Buffers
<1>4. /\ UNCHANGED <<buf, rb, pc, got, cmdVars, writeVars, recv>>
    BY DEF Send
<1>5. /\ sent' \in Seq([len : Lens, kind : Kinds]) /\ Len(sent') = n
      /\ sent'[n].len = len
      /\ \A k \in 1..Len(sent) : sent'[k] = sent[k]
    BY <1>2, <1>3
<1>6. Line(n, len) \in Seq(Bytes) /\ Len(Line(n, len)) = len
      /\ \A i \in 1..len : Line(n, len)[i] = n
    BY <1>3 DEF Line, Bytes
<1>7. /\ wire' \in Seq(Bytes) /\ Len(wire') = len + 1
      /\ \A i \in 1 .. len + 1 : wire'[i] = IF i <= len THEN n ELSE NL
  <2>1. wire' = Line(n, len) \o <<NL>>
    BY <1>1, <1>2, <1>6
  <2> HIDE DEF n
  <2> QED
    BY SMTT(40), <2>1, <1>3, <1>6 DEF Bytes
<1>8. Queues'
    BY <1>4 DEF Inv, Queues, cmdVars, writeVars
<1>9. Buffers'
    BY <1>4, <1>5, <1>7 DEF Inv, Buffers
<1>10. OneLine'
  <2>1. Len(sent)' = Len(got)' + 1 /\ rb' = 0
    BY <1>1, <1>4, <1>5
  <2>2. rb' + Len(wire') = sent'[n].len + 1
    BY <2>1, <1>3, <1>5, <1>7
  <2>3. \A i \in 1..Len(wire') :
          wire'[i] = IF rb' + i - 1 < sent'[n].len THEN n ELSE NL
    BY <2>1, <1>3, <1>5, <1>7
  <2> HIDE DEF n
  <2> QED
    BY <2>1, <2>2, <2>3, <1>3, <1>5 DEF OneLine, ByteAt
<1>11. Stops'
    BY <1>4 DEF Inv, Stops
<1>12. AllOwn'
  <2>1. conn' = conn
    BY DEF Send
  <2>2. \A k \in DOMAIN got : k \in 1..Len(sent)
    BY <1>1, <1>3 DEF Inv, Buffers
  <2> QED
    BY <2>1, <2>2, <1>1, <1>3, <1>4, <1>5 DEF Inv, AllOwn, OwnLines
<1> QED
    BY <1>8, <1>9, <1>10, <1>11, <1>12 DEF Inv

LEMMA ReadInv == ASSUME Inv, Read PROVE Inv'
<1>0. Size \in Nat \ {0, 1}
    BY ConnectionAssumption DEF ConnectionAssumption
<1> USE <1>0
<1>1. PICK b \in 1..Len(wire) :
        /\ b < Size - rb
        /\ buf' = [i \in 0 .. Size - 1 |->
                     IF i \in rb .. rb + b - 1 THEN wire[i - rb + 1]
                     ELSE IF i = rb + b THEN NUL ELSE buf[i]]
        /\ rb' = rb + b
        /\ wire' = SubSeq(wire, b + 1, Len(wire))
    BY DEF Read
<1>2. UNCHANGED <<sent, got, cmdVars, writeVars, recv, conn>>
    BY DEF Read
<1>3. /\ wire \in Seq(Bytes) /\ rb \in 0 .. Size - 1 /\ Len(wire) \in Nat
      /\ buf \in [0 .. Size - 1 -> Bytes]
    BY DEF Inv, Buffers
<1>4. /\ wire' \in Seq(Bytes) /\ Len(wire') = Len(wire) - b
      /\ \A i \in 1..Len(wire') : wire'[i] = wire[b + i]
    BY <1>1, <1>3
<1>5. /\ rb' \in 0 .. Size - 1 /\ buf'[rb'] = NUL
      /\ \A i \in 0 .. rb - 1 : buf'[i] = buf[i]
      /\ \A i \in rb .. rb' - 1 : buf'[i] = wire[i - rb + 1]
    BY <1>1, <1>3
<1>6. buf' \in [0 .. Size - 1 -> Bytes]
  <2>1. \A i \in rb .. rb + b - 1 : wire[i - rb + 1] \in Bytes
    BY <1>1, <1>3
  <2> QED
    BY <2>1, <1>1, <1>3 DEF Bytes, NUL
<1>7. Queues'
    BY <1>2 DEF Inv, Queues, cmdVars, writeVars
<1>8. Buffers'
    BY <1>2, <1>4, <1>5, <1>6 DEF Inv, Buffers
<1>9. OneLine'
  <2>1. /\ Len(sent) = Len(got) + 1
        /\ rb + Len(wire) = sent[Len(sent)].len + 1
        /\ \A i \in 0 .. rb - 1 : buf[i] = ByteAt(Len(sent), i)
        /\ \A i \in 1..Len(wire) : wire[i] = ByteAt(Len(sent), rb + i - 1)
    BY <1>1, <1>3 DEF Inv, OneLine
  <2>2. rb' + Len(wire') = rb + Len(wire)
    <3>1. rb' = rb + b /\ b \in Nat
        BY <1>1, <1>3
    <3>2. Len(wire') = Len(wire) - b
        BY <1>4
    <3> QED
        BY <3>1, <3>2, <1>3
  <2>3. \A i \in 0 .. rb' - 1 : buf'[i] = ByteAt(Len(sent), i)
    <3> SUFFICES ASSUME NEW i \in 0 .. rb' - 1
                 PROVE  buf'[i] = ByteAt(Len(sent), i)
        OBVIOUS
    <3>1. CASE i < rb
        BY <3>1, <2>1, <1>3, <1>5
    <3>2. CASE i >= rb
      <4>1. i - rb + 1 \in 1..Len(wire) /\ i \in rb .. rb' - 1
        BY <3>2, <1>1, <1>3
      <4>2. buf'[i] = ByteAt(Len(sent), rb + (i - rb + 1) - 1)
        BY <4>1, <1>5, <2>1
      <4>3. rb + (i - rb + 1) - 1 = i
        BY <1>3
      <4> QED
        BY <4>2, <4>3
    <3> QED
        BY <3>1, <3>2, <1>3
  <2>4. \A i \in 1..Len(wire') : wire'[i] = ByteAt(Len(sent), rb' + i - 1)
    <3> SUFFICES ASSUME NEW i \in 1..Len(wire')
                 PROVE  wire'[i] = ByteAt(Len(sent), rb' + i - 1)
        OBVIOUS
    <3>1. b + i \in 1..Len(wire) /\ rb' + i - 1 = rb + (b + i) - 1
        BY <1>1, <1>3, <1>4
    <3>2. wire'[i] = ByteAt(Len(sent), rb + (b + i) - 1)
        BY <3>1, <1>4, <2>1
    <3> QED
        BY <3>1, <3>2
  <2>5. \A i : ByteAt(Len(sent), i)' = ByteAt(Len(sent), i)
    BY <1>2 DEF ByteAt
  <2> QED
    BY <2>1, <2>2, <2>3, <2>4, <2>5, <1>2 DEF OneLine, ByteAt
<1>10. Stops'
    BY <1>3, <1>5 DEF Stops
<1>11. AllOwn'
    BY <1>2 DEF Inv, AllOwn, OwnLines
<1> QED
    BY <1>7, <1>8, <1>9, <1>10, <1>11 DEF Inv

(* The only line the parser can find is the one under way, all of it read. *)
LEMMA LineFound ==
    ASSUME Inv, pc = "parse", NEW e \in 0 .. Size - 1, IsEnd(e)
    PROVE  /\ Len(sent) = Len(got) + 1 /\ wire = <<>>
           /\ e = sent[Len(sent)].len /\ rb = e + 1
           /\ Cmd(e) = Line(Len(sent), e)
           /\ \A i \in 0 .. e - 1 : buf[i] = Len(sent)
<1> USE ConnectionAssumption DEF ConnectionAssumption
<1>1. PICK z \in rb .. Size - 1 :
        buf[z] = NUL /\ \A i \in rb .. z - 1 : buf[i] # NL
    BY DEF Inv, Stops
<1>2. rb \in 0 .. Size - 1 /\ wire \in Seq(Bytes) /\ Len(wire) \in Nat
    BY DEF Inv, Buffers
<1>3. buf[e] = NL /\ \A i \in 0 .. e - 1 : buf[i] \notin {NL, NUL}
    BY DEF IsEnd
<1>4. e < rb
    BY <1>1, <1>2, <1>3 DEF NL, NUL
<1>5. /\ Len(sent) = Len(got) + 1
      /\ rb + Len(wire) = sent[Len(sent)].len + 1
      /\ \A i \in 0 .. rb - 1 : buf[i] = ByteAt(Len(sent), i)
    BY <1>2, <1>4 DEF Inv, OneLine
<1>6. /\ Len(sent) \in Nat /\ Len(sent) > 0 /\ Len(got) \in Nat
      /\ sent \in Seq([len : Lens, kind : Kinds])
    BY <1>5 DEF Inv, Buffers
<1>7. sent[Len(sent)].len \in Nat
  <2>1. sent[Len(sent)] \in [len : Lens, kind : Kinds]
    BY <1>6, LastOf, Zenon
  <2> QED
    BY <2>1, LengthsPositive
<1>8. e >= sent[Len(sent)].len
  <2>1. buf[e] = ByteAt(Len(sent), e)
    BY <1>2, <1>4, <1>5
  <2> QED
    BY <2>1, <1>3, <1>6, <1>7 DEF ByteAt, NL
<1>9. e = sent[Len(sent)].len /\ rb = e + 1 /\ Len(wire) = 0
    BY <1>2, <1>4, <1>5, <1>7, <1>8
<1>10. \A i \in 0 .. e - 1 : buf[i] = Len(sent)
    BY SMTT(40), <1>5, <1>9, <1>7 DEF ByteAt
<1>11. Cmd(e) = Line(Len(sent), e)
    BY SMTT(40), <1>10, <1>9, <1>7 DEF Cmd, Line
<1>12. wire = <<>>
    BY <1>2, <1>9
<1> QED
    BY <1>5, <1>9, <1>10, <1>11, <1>12

(* Posting the next line of a list keeps the tags.                         *)
LEMMA ListNextQueues ==
    ASSUME NEW m \in Nat, NEW o \in Seq(Tagged(m)), NEW n \in 0..m,
           NEW j \in Nat, j > 0, ListNext(o, n, j)
    PROVE  /\ out' \in Seq(Tagged(m)) /\ Len(out') >= Len(o)
           /\ last' \in {Idle} \cup 0..m /\ item' \in Nat
           /\ item' > 0 => last' # Idle
<1> USE ConnectionAssumption DEF ConnectionAssumption
<1>2. Reply(n, j, 2) \in Seq(Tagged(m))
    BY ReplyTagged
<1>3. out' = o \o Reply(n, j, 2) \/ out' = o
    BY DEF ListNext, Respond
<1>4. out' \in Seq(Tagged(m)) /\ Len(out') >= Len(o)
    BY <1>2, <1>3, JoinedOrNot, Zenon
<1>5. /\ item' = j + 1 \/ item' = 0
      /\ last' = IF j = ListLen THEN Idle ELSE n
      /\ item' > 0 => j # ListLen
    BY DEF ListNext
<1> QED
    BY <1>4, <1>5 DEF Idle

LEMMA CommandQueues ==
    ASSUME Inv, NEW cmd \in Seq(Bytes), Command(cmd),
           UNCHANGED <<recv, sent>>, Len(got) + 1 = Len(sent)
    PROVE  Queues'
<1> DEFINE m == Len(got) + 1
           n == LineOf(cmd)
<1>1. Len(got) \in Nat /\ Len(got') = m /\ m \in Nat
    BY DEF Inv, Buffers, Command
<1>2. /\ out \in Seq(Tagged(m)) /\ recv \in Seq(Tagged(m))
      /\ wi \in 0..Len(out) /\ last \in {Idle} \cup 0..m /\ item \in Nat
      /\ item > 0 => last # Idle
  <2>1. /\ out \in Seq(Tagged(Len(got))) /\ recv \in Seq(Tagged(Len(got)))
        /\ Len(got) <= m
    BY <1>1 DEF Inv, Queues
  <2>2. out \in Seq(Tagged(m)) /\ recv \in Seq(Tagged(m))
    BY <2>1, <1>1, TaggedGrows
  <2> QED
    BY <2>2, <1>1 DEF Inv, Queues
<1>3. n \in 0..m
    BY <1>1 DEF LineOf, Inv, Buffers
<1>4. wi' = wi
    BY DEF Command, writeVars
<1>5. CASE UNCHANGED cmdVars /\ (UNCHANGED out \/ Respond(out, n, 1, 2, TRUE))
  <2>1. Reply(n, 1, 2) \in Seq(Tagged(m))
    BY <1>1, <1>3, ReplyTagged
  <2>2. out' \in Seq(Tagged(m)) /\ Len(out') >= Len(out)
    <3>1. out' = out \o Reply(n, 1, 2) \/ out' = out
        BY <1>5 DEF Respond
    <3> HIDE DEF n, m
    <3> QED
        BY <3>1, <2>1, <1>2, JoinedOrNot, Zenon
  <2> QED
    BY <2>2, <1>1, <1>2, <1>4, <1>5 DEF Queues, cmdVars
<1>6. CASE ListNext(out, n, 1)
  <2>1. /\ out' \in Seq(Tagged(m)) /\ Len(out') >= Len(out)
        /\ last' \in {Idle} \cup 0..m /\ item' \in Nat
        /\ item' > 0 => last' # Idle
    BY <1>1, <1>2, <1>3, <1>6, ListNextQueues
  <2> QED
    BY <2>1, <1>1, <1>2, <1>4 DEF Queues
<1> QED
    BY <1>5, <1>6 DEF Command, writeVars

LEMMA ParseLineInv == ASSUME Inv, ParseLine PROVE Inv'
<1> USE ConnectionAssumption DEF ConnectionAssumption
<1>1. PICK e \in 0 .. Size - 1 :
        /\ IsEnd(e) /\ Command(Cmd(e))
        /\ IF e < rb
             THEN /\ buf' = Moved(e) /\ rb' = rb - (e + 1)
                  /\ UNCHANGED conn
             ELSE conn' = "overrun" /\ UNCHANGED <<buf, rb>>
    BY DEF ParseLine
<1>2. UNCHANGED <<sent, wire, pc, recv>> /\ pc = "parse"
    BY DEF ParseLine
<1>3. /\ Len(sent) = Len(got) + 1 /\ wire = <<>>
      /\ e = sent[Len(sent)].len /\ rb = e + 1
      /\ Cmd(e) = Line(Len(sent), e)
      /\ \A i \in 0 .. e - 1 : buf[i] = Len(sent)
    BY <1>1, <1>2, LineFound
<1>4. rb' = 0 /\ conn' = conn /\ buf' = Moved(e)
    BY <1>1, <1>3
<1>5. /\ buf \in [0 .. Size - 1 -> Bytes] /\ got \in Seq(Seq(Bytes))
      /\ Len(sent) \in Nat /\ Len(got) \in Nat
    BY DEF Inv, Buffers
<1>6. got' = Append(got, Cmd(e))
    BY <1>1 DEF Command
<1>7. Cmd(e) \in Seq(Bytes)
  <2>1. Line(Len(sent), e) \in Seq(Nat)
    BY <1>5 DEF Line
  <2> QED
    BY SMTT(40), <2>1, <1>3 DEF Bytes
<1>8. /\ buf' \in [0 .. Size - 1 -> Bytes] /\ buf'[e] = NUL
      /\ \A i \in 0 .. e - 1 : buf'[i] = Len(sent)
    BY SMTT(40), <1>3, <1>4, <1>5 DEF Moved, Bytes, NUL
<1>9. Queues'
    BY <1>1, <1>2, <1>3, <1>7, CommandQueues
<1>10. Buffers'
    BY <1>2, <1>4, <1>5, <1>6, <1>7, <1>8 DEF Inv, Buffers
<1>11. OneLine'
    BY <1>2, <1>3, <1>4, <1>5, <1>6 DEF OneLine
<1>12. Stops'
    BY SMTT(40), <1>2, <1>4, <1>5, <1>8 DEF Stops, NL
<1>13. AllOwn'
  <2>1. got' \in Seq(Seq(Bytes)) /\ Len(got') = Len(sent)
        /\ got'[Len(sent)] = Line(Len(sent), sent[Len(sent)].len)
        /\ \A k \in 1..Len(got) : got'[k] = got[k]
    BY <1>3, <1>5, <1>6, <1>7
  <2>2. /\ conn # "overrun"
        /\ \A k \in DOMAIN got : got[k] = Line(k, sent[k].len)
    BY DEF Inv, AllOwn, OwnLines
  <2>3. DOMAIN got = 1..Len(got) /\ DOMAIN got' = 1 .. Len(got) + 1
    BY <2>1, <1>3, <1>5
  <2>4. \A k \in DOMAIN got' : got'[k] = Line(k, sent[k].len)
    <3> SUFFICES ASSUME NEW k \in DOMAIN got'
                 PROVE  got'[k] = Line(k, sent[k].len)
        OBVIOUS
    <3>1. CASE k = Len(sent)
        BY <3>1, <2>1
    <3>2. CASE k # Len(sent)
      <4>1. k \in 1..Len(got)
        BY <3>2, <2>3, <1>3, <1>5
      <4> QED
        BY <4>1, <2>1, <2>2, <2>3
    <3> QED
        BY <3>1, <3>2
  <2> QED
    BY <2>1, <2>2, <2>4, <1>2, <1>4, <1>5 DEF AllOwn, OwnLines
<1> QED
    BY <1>9, <1>10, <1>11, <1>12, <1>13 DEF Inv

LEMMA WriteInv == ASSUME Inv, Write PROVE Inv'
<1> USE ConnectionAssumption DEF ConnectionAssumption
<1> DEFINE m == Len(got)
<1>1. PICK b \in 0 .. Len(out) - wi :
        /\ recv' = recv \o SubSeq(out, wi + 1, wi + b)
        /\ IF AllOut(b)
             THEN wi' = 0 /\ NextCycle /\ conn' = AfterWrite
             ELSE wi' = wi + b /\ UNCHANGED <<out, pending, cmdVars, conn>>
    BY DEF Write
<1>2. UNCHANGED <<sent, readVars, got>>
    BY DEF Write
<1>3. /\ out \in Seq(Tagged(m)) /\ recv \in Seq(Tagged(m)) /\ wi \in 0..Len(out)
      /\ last \in {Idle} \cup 0..m /\ item \in Nat /\ m \in Nat
      /\ item > 0 => last # Idle
    BY DEF Inv, Queues, Buffers
<1>4. recv' \in Seq(Tagged(m))
  <2> HIDE DEF m
  <2>1. SubSeq(out, wi + 1, wi + b) \in Seq(Tagged(m))
    BY <1>3
  <2> QED
    BY <2>1, <1>1, <1>3
<1>5. Queues'
  <2>1. CASE AllOut(b) /\ pending /\ item > 0
    <3>1. ListNext(<<>>, last, item) /\ wi' = 0 /\ last \in 0..m
        BY <2>1, <1>1, <1>3 DEF NextCycle
    <3>2. <<>> \in Seq(Tagged(m))
        OBVIOUS
    <3>3. /\ out' \in Seq(Tagged(m))
          /\ last' \in {Idle} \cup 0..m /\ item' \in Nat
          /\ item' > 0 => last' # Idle
        BY <3>1, <3>2, <2>1, <1>3, ListNextQueues
    <3>4. 0 \in 0..Len(out')
        BY <3>3
    <3> QED
        BY <3>1, <3>3, <3>4, <1>2, <1>4 DEF Queues
  <2>2. CASE AllOut(b) /\ ~(pending /\ item > 0)
    <3>1. out' = <<>> /\ UNCHANGED cmdVars /\ wi' = 0
        BY <2>2, <1>1 DEF NextCycle
    <3> QED
        BY <3>1, <1>2, <1>3, <1>4 DEF Queues, cmdVars
  <2>3. CASE ~AllOut(b)
    <3>1. UNCHANGED <<out, cmdVars>> /\ wi' = wi + b
        BY <2>3, <1>1
    <3> QED
        BY <3>1, <1>1, <1>2, <1>3, <1>4 DEF Queues, cmdVars
  <2> QED
    BY <2>1, <2>2, <2>3
<1>6. conn' = conn \/ conn' \in {"null", "closed", "open"}
    BY <1>1 DEF AfterWrite
<1>7. AllOwn'
    BY <1>2, <1>6 DEF Inv, AllOwn, OwnLines
<1> QED
    BY <1>2, <1>5, <1>7
    DEF Inv, Buffers, OneLine, ByteAt, Stops, readVars

(* The other steps leave all of it alone, or only leave the loop.          *)
LEMMA OtherInv ==
    ASSUME Inv,
           \/ Leave \/ ReadEnd \/ ParseRefused \/ ParseDone \/ WriteFails
           \/ Ended \/ UNCHANGED vars
    PROVE  Inv'
<1>1. UNCHANGED <<sent, wire, buf, rb, got, cmdVars, out, wi, recv>>
    BY DEF Leave, ReadEnd, ParseRefused, ParseDone, WriteFails, Ended, vars,
           readVars, writeVars
<1>2. pc' = pc \/ pc' = "select"
    BY DEF Leave, ReadEnd, ParseRefused, ParseDone, WriteFails, Ended, vars,
           readVars
<1>3. conn' = conn \/ conn' \in {"open", "closed"}
    BY DEF Leave, ReadEnd, ParseRefused, ParseDone, WriteFails, Ended, vars
<1>4. Queues' /\ Buffers'
    BY <1>1 DEF Inv, Queues, Buffers, cmdVars
<1>5. OneLine' /\ Stops'
    BY <1>1, <1>2 DEF Inv, OneLine, ByteAt, Stops
<1>6. AllOwn'
    BY <1>1, <1>3 DEF Inv, AllOwn, OwnLines
<1> QED
    BY <1>4, <1>5, <1>6 DEF Inv

(* A client never changes its kind.                                        *)
LEMMA ClientKept == [Next]_vars => client' = client
BY DEF Next, vars, Send, Leave, Read, ReadEnd, ParseLine, ParseRefused,
   ParseDone, Write, WriteFails, Ended

LEMMA NextInv ==
    ASSUME client \in Clients, LockStep => Inv, [Next]_vars, LockStep'
    PROVE  Inv'
<1>1. client \in Clients /\ LockStep /\ Inv
    BY ClientKept DEF LockStep
<1>2. CASE Send
    BY <1>1, <1>2, SendInv
<1>3. CASE Read
    BY <1>1, <1>3, ReadInv
<1>4. CASE ParseLine
    BY <1>1, <1>4, ParseLineInv
<1>5. CASE Write
    BY <1>1, <1>5, WriteInv
<1>6. CASE \/ Leave \/ ReadEnd \/ ParseRefused \/ ParseDone \/ WriteFails
           \/ Ended \/ UNCHANGED vars
    BY <1>1, <1>6, OtherInv
<1> QED
    BY <1>2, <1>3, <1>4, <1>5, <1>6 DEF Next

-----------------------------------------------------------------------------
(* The answers, for every client: as long as the commands are its lines.   *)

(* All bytes anywhere are of lines that were sent.                         *)
Seen(n) == {NL} \cup 0..n

Known ==
    /\ sent \in Seq([len : Lens, kind : Kinds])
    /\ wire \in Seq(Seen(Len(sent))) /\ got \in Seq(Seq(Seen(Len(sent))))
    /\ buf \in [0 .. Size - 1 -> Seen(Len(sent))] /\ rb \in 0 .. Size - 1

(* What the client has been or will be sent of what is posted by now.      *)
Rest == SubSeq(out, wi + 1, Len(out))
Said == recv \o Rest

Top(s) == s[Len(s)]

(* Its units follow each other, and the last one is the greatest.          *)
Chain(s) ==
    /\ Len(s) > 0
    /\ \A k \in 1 .. Len(s) - 1 : Follows(s[k], s[k + 1])
    /\ \A k \in 1 .. Len(s) - 1 :
         s[k][1] <= Top(s)[1] /\ s[k] # Top(s)
         /\ (s[k][1] = Top(s)[1] => s[k][2] <= Top(s)[2])
    /\ Top(s)[3] = 2

(* Where the handler is: behind the last line posted, with more to come,   *)
(* or nowhere, behind a last one.                                          *)
Handler(u) ==
    \/ /\ pending /\ last = u[1] /\ item = u[2] + 1 /\ u[2] < ListLen
       /\ Replies(u[1]) = ListLen /\ OutSize >= 2
    \/ ~pending /\ last = Idle /\ item = 0 /\ u[2] = Replies(u[1])

Answers ==
    /\ out \in Seq(Tagged(Len(got))) /\ recv \in Seq(Tagged(Len(got)))
    /\ wi \in Nat /\ (wi < Len(out) \/ (out = <<>> /\ wi = 0))
    /\ Chain(Said) /\ Handler(Top(Said))

AnswerInv == Known /\ (AllOwn => Answers)

(* A client that waits: its last line has been answered to its end when    *)
(* the next one is under way, and a connection that is to be closed has    *)
(* the last answer in its queue.                                           *)
FlushInv ==
    LockStep =>
      /\ \A k \in DOMAIN sent :
           sent[k].len \in client.lens /\ sent[k].kind \in client.kinds
      /\ Top(Said)[1] = Len(got)
      /\ Len(sent) = Len(got) + 1 => Answered(Len(got))
      /\ conn = "open" /\ deferClose => ~pending /\ out # <<>>
      /\ ~gone => \/ conn = "open"
                  \/ conn = "closed" /\ deferClose /\ Answered(Len(got))

LEMMA AnswersAreChained == Answers => AnswersInOrder
BY DEF Answers, Chain, AnswersInOrder, Said, Rest

LEMMA RestIs ==
    ASSUME NEW S, NEW o \in Seq(S), NEW w \in 0..Len(o)
    PROVE  /\ SubSeq(o, w + 1, Len(o)) \in Seq(S)
           /\ Len(SubSeq(o, w + 1, Len(o))) = Len(o) - w
           /\ \A k \in 1 .. Len(o) - w : SubSeq(o, w + 1, Len(o))[k] = o[k + w]
<1>1. Len(o) \in Nat /\ w \in Nat
    OBVIOUS
<1> QED
    BY <1>1

LEMMA Joined ==
    ASSUME NEW S, NEW s \in Seq(S), NEW r \in Seq(S)
    PROVE  /\ s \o r \in Seq(S) /\ Len(s \o r) = Len(s) + Len(r)
           /\ \A k \in 1..Len(s) : (s \o r)[k] = s[k]
           /\ \A k \in 1..Len(r) : (s \o r)[Len(s) + k] = r[k]
OBVIOUS

(* Another whole reply is put behind what is posted: the next of the same  *)
(* line, or the first of a later one behind the last of another.           *)
Continues(s, n, j) ==
    \/ n = Top(s)[1] /\ j = Top(s)[2] + 1 /\ Top(s)[2] < Replies(n)
    \/ n > Top(s)[1] /\ j = 1 /\ Top(s)[2] = Replies(Top(s)[1])

LEMMA ChainGrows ==
    ASSUME NEW m \in Nat, NEW s \in Seq(Tagged(m)), Chain(s),
           NEW n \in 0..m, NEW j \in Nat, Continues(s, n, j)
    PROVE  LET t == s \o Reply(n, j, 2) IN
           t \in Seq(Tagged(m)) /\ Chain(t) /\ Top(t) = <<n, j, 2>>
<1> DEFINE r == Reply(n, j, 2)
           t == s \o r
           l == Len(s)
<1>1. r \in Seq(Tagged(m))
    BY ReplyTagged
<1>2. Len(r) = 2 /\ r[1] = <<n, j, 1>> /\ r[2] = <<n, j, 2>>
    BY DEF Reply
<1>3. l \in Nat /\ l > 0
    BY DEF Chain
<1>4. /\ t \in Seq(Tagged(m)) /\ Len(t) = l + 2
      /\ \A k \in 1..l : t[k] = s[k]
      /\ t[l + 1] = <<n, j, 1>> /\ t[l + 2] = <<n, j, 2>>
  <2> HIDE DEF r
  <2>1. /\ t \in Seq(Tagged(m)) /\ Len(t) = l + Len(r)
        /\ \A k \in 1..l : t[k] = s[k]
        /\ \A k \in 1..Len(r) : t[l + k] = r[k]
    BY <1>1, Joined
  <2> HIDE DEF t, l
  <2>2. t[l + 1] = r[1] /\ t[l + 2] = r[2]
    BY <2>1, <1>2
  <2> QED
    BY <2>1, <2>2, <1>2
<1>5. \A k \in 1..l : s[k][1] \in 0..m /\ s[k][2] \in Nat /\ s[k][3] \in Nat
    BY SMTT(40) DEF Tagged
<1>6. Top(t) = <<n, j, 2>>
    BY <1>4 DEF Top
<1>7. Top(s) = s[l] /\ Top(s)[1] \in 0..m /\ Top(s)[2] \in Nat
    BY <1>3, <1>5 DEF Top
<1> HIDE DEF t, r
<1>8. \A k \in 1..l : /\ s[k][1] <= Top(s)[1]
                      /\ s[k][1] = Top(s)[1] => s[k][2] <= Top(s)[2]
  <2> SUFFICES ASSUME NEW k \in 1..l
               PROVE  /\ s[k][1] <= Top(s)[1]
                      /\ s[k][1] = Top(s)[1] => s[k][2] <= Top(s)[2]
    OBVIOUS
  <2>1. CASE k = l
    BY SMTT(40), <2>1, <1>5, <1>7
  <2>2. CASE k # l
    BY SMTT(40), <2>2, <1>3 DEF Chain
  <2> QED
    BY <2>1, <2>2
<1>9. \A k \in 1..l : /\ s[k][1] <= n /\ (s[k][1] = n => s[k][2] < j)
    BY SMTT(40), <1>5, <1>7, <1>8 DEF Continues
<1>10. \A k \in 1 .. l + 1 :
          t[k][1] <= n /\ t[k] # <<n, j, 2>> /\ (t[k][1] = n => t[k][2] <= j)
  <2> SUFFICES ASSUME NEW k \in 1 .. l + 1
               PROVE  t[k][1] <= n /\ t[k] # <<n, j, 2>>
                      /\ (t[k][1] = n => t[k][2] <= j)
    OBVIOUS
  <2>1. CASE k = l + 1
    BY <2>1, <1>3, <1>4
  <2>2. CASE k # l + 1
    <3>1. k \in 1..l
      BY <2>2, <1>3
    <3>2. t[k] = s[k] /\ s[k][1] <= n /\ (s[k][1] = n => s[k][2] < j)
      BY <3>1, <1>4, <1>9
    <3>3. s[k][1] \in Nat /\ s[k][2] \in Nat
      BY SMTT(40), <3>1, <1>5
    <3> QED
      BY SMTT(40), <3>2, <3>3
  <2> QED
    BY <2>1, <2>2
<1>11. \A k \in 1 .. l + 1 : Follows(t[k], t[k + 1])
  <2> SUFFICES ASSUME NEW k \in 1 .. l + 1 PROVE Follows(t[k], t[k + 1])
    OBVIOUS
  <2>1. CASE k = l + 1
    <3>1. t[k] = <<n, j, 1>> /\ t[k + 1] = <<n, j, 2>>
      BY <2>1, <1>3, <1>4
    <3> QED
      BY <3>1 DEF Follows
  <2>2. CASE k = l
    <3>1. t[k] = Top(s) /\ t[k + 1] = <<n, j, 1>> /\ Top(s)[3] = 2
      BY <2>2, <1>3, <1>4, <1>7 DEF Chain
    <3>2. CASE n = Top(s)[1] /\ j = Top(s)[2] + 1 /\ Top(s)[2] < Replies(n)
      BY <3>1, <3>2 DEF Follows
    <3>3. CASE n > Top(s)[1] /\ j = 1 /\ Top(s)[2] = Replies(Top(s)[1])
      BY <3>1, <3>3 DEF Follows
    <3> QED
      BY <3>2, <3>3 DEF Continues
  <2>3. CASE k < l
    <3>1. t[k] = s[k] /\ t[k + 1] = s[k + 1] /\ k \in 1 .. l - 1
      <4>1. k \in 1..l /\ k + 1 \in 1..l /\ k \in 1 .. l - 1
        BY <2>3, <1>3
      <4> QED
        BY <4>1, <1>4
    <3>2. Follows(s[k], s[k + 1])
      BY <3>1 DEF Chain
    <3>3. Follows(t[k], t[k + 1]) = Follows(s[k], s[k + 1])
      BY <3>1, Zenon
    <3> QED
      BY <3>2, <3>3, Zenon
  <2> QED
    BY <2>1, <2>2, <2>3, <1>3
<1>12. Chain(t)
    BY <1>3, <1>4, <1>6, <1>10, <1>11 DEF Chain
<1> QED
    BY <1>4, <1>6, <1>12 DEF t, r

(* Where the handler is after reply j of line n was posted.                *)
HandlerAfter(n, j) ==
    \/ /\ pending' /\ last' = n /\ item' = j + 1 /\ j < ListLen
       /\ Replies(n) = ListLen /\ OutSize >= 2
    \/ ~pending' /\ last' = Idle /\ item' = 0 /\ j = Replies(n)

(* What a command or the handler posted is one more reply of the chain.    *)
LEMMA Posted ==
    ASSUME NEW m \in Nat, Said \in Seq(Tagged(m)), Chain(Said),
           NEW n \in 0..m, NEW j \in Nat, Continues(Said, n, j),
           Said' = Said \o Reply(n, j, 2), Len(got') = m, UNCHANGED sent,
           recv' \in Seq(Tagged(m)), out' \in Seq(Tagged(m)),
           wi' \in Nat, wi' < Len(out'), HandlerAfter(n, j)
    PROVE  Answers' /\ Top(Said)' = <<n, j, 2>>
<1>1. Chain(Said') /\ Top(Said') = <<n, j, 2>>
    BY SMTT(40), ChainGrows
<1>2. Chain(Said)' /\ Top(Said)' = <<n, j, 2>>
    BY ZenonT(40), <1>1 DEF Chain, Follows, Replies, Top
<1>3. Handler(Top(Said))'
  <2>1. Top(Said)'[1] = n /\ Top(Said)'[2] = j
    BY SMTT(40), <1>2
  <2>2. Replies(Top(Said)[1])' = Replies(n)
    BY <2>1 DEF Replies
  <2> QED
    BY <2>1, <2>2 DEF Handler, HandlerAfter
<1> QED
    BY <1>2, <1>3 DEF Answers

(* Units that move from the queue to the client.                           *)
LEMMA Moves ==
    ASSUME NEW S, NEW o \in Seq(S), NEW r \in Seq(S),
           NEW w \in 0..Len(o), NEW b \in 0 .. Len(o) - w
    PROVE  (r \o SubSeq(o, w + 1, w + b)) \o SubSeq(o, w + b + 1, Len(o))
             = r \o SubSeq(o, w + 1, Len(o))
<1> DEFINE x == SubSeq(o, w + 1, w + b)
           y == SubSeq(o, w + b + 1, Len(o))
<1>1. Len(o) \in Nat /\ w \in Nat /\ b \in Nat
    OBVIOUS
<1>2. x \in Seq(S) /\ y \in Seq(S)
    BY <1>1
<1>3. x \o y = SubSeq(o, w + 1, Len(o))
  <2>1. /\ w + 1 \in 1 .. Len(o) + 1 /\ w + b \in (w + 1) - 1 .. Len(o)
        /\ Len(o) \in w + b .. Len(o)
    BY <1>1
  <2> QED
    BY <2>1, ConcatAdjacentSubSeq
<1> HIDE DEF x, y
<1>4. (r \o x) \o y = r \o (x \o y)
    BY SMTT(40), <1>2, ConcatAssociative
<1> QED
    BY <1>3, <1>4 DEF x, y

(* A reply behind the queue is behind all that was posted.                 *)
LEMMA PostedBehind ==
    ASSUME NEW S, NEW o \in Seq(S), NEW a \in Seq(S), a # <<>>,
           NEW w \in 0..Len(o)
    PROVE  SubSeq(o \o a, w + 1, Len(o \o a)) = SubSeq(o, w + 1, Len(o)) \o a
<1> DEFINE z == SubSeq(o, w + 1, Len(o))
           q == o \o a
<1>1. Len(o) \in Nat /\ w \in Nat /\ Len(a) \in Nat /\ Len(a) > 0
    OBVIOUS
<1>2. z \in Seq(S)
    BY <1>1
<1>3. q \in Seq(S) /\ Len(q) = Len(o) + Len(a)
    BY ConcatProperties
<1>4. SubSeq(q, w + 1, Len(o)) = z
  <2>1. CASE w < Len(o)
    <3>1. w + 1 \in 1..Len(o) /\ Len(o) \in 1..Len(o)
      BY <2>1, <1>1
    <3> QED
      BY <3>1, SubSeqOfConcat1
  <2>2. CASE w = Len(o)
    <3>1. w + 1 \in Int /\ Len(o) \in Int /\ Len(o) < w + 1
      BY <2>2, <1>1
    <3> QED
      BY <3>1, SubSeqEmpty
  <2> QED
    BY <2>1, <2>2, <1>1
<1>5. SubSeq(q, Len(o) + 1, Len(q)) = a
  <2>1. /\ Len(o) + 1 \in Len(o) + 1 .. Len(o) + Len(a)
        /\ Len(q) \in Len(o) + 1 .. Len(o) + Len(a)
    BY <1>1, <1>3
  <2>2. SubSeq(q, Len(o) + 1, Len(q))
          = SubSeq(a, Len(o) + 1 - Len(o), Len(q) - Len(o))
    BY <2>1, SubSeqOfConcat2
  <2>3. Len(o) + 1 - Len(o) = 1 /\ Len(q) - Len(o) = Len(a)
    BY <1>1, <1>3
  <2> QED
    BY <2>2, <2>3, SubSeqFull
<1> HIDE DEF q
<1>6. SubSeq(q, w + 1, Len(q))
        = SubSeq(q, w + 1, Len(o)) \o SubSeq(q, Len(o) + 1, Len(q))
  <2>1. /\ w + 1 \in 1 .. Len(q) + 1 /\ Len(o) \in (w + 1) - 1 .. Len(q)
        /\ Len(q) \in Len(o) .. Len(q)
    BY <1>1, <1>3
  <2> QED
    BY <2>1, <1>3, ConcatAdjacentSubSeq
<1> QED
    BY <1>4, <1>5, <1>6 DEF q

(* Nothing posted, nothing written: a longer history changes nothing.      *)
LEMMA AnswersKept ==
    ASSUME Answers, Len(got) \in Nat, Len(got') \in Nat, Len(got) <= Len(got'),
           UNCHANGED <<out, recv, wi, last, item, pending>>,
           \A n \in 0..Len(got) : Replies(n)' = Replies(n)
    PROVE  Answers'
<1>1. out' \in Seq(Tagged(Len(got'))) /\ recv' \in Seq(Tagged(Len(got')))
    BY TaggedGrows DEF Answers
<1>2. wi' \in Nat /\ (wi' < Len(out') \/ (out' = <<>> /\ wi' = 0))
    BY DEF Answers
<1>3. Said' = Said /\ Said \in Seq(Tagged(Len(got))) /\ Len(Said) > 0
  <2>1. recv \in Seq(Tagged(Len(got))) /\ Rest \in Seq(Tagged(Len(got)))
    BY DEF Answers, Rest
  <2> QED
    BY <2>1 DEF Answers, Chain, Said, Rest
<1>4. \A k \in 1..Len(Said) : Said[k][1] \in 0..Len(got)
    BY SMTT(40), <1>3 DEF Tagged
<1>5. \A k \in 1..Len(Said) : Replies(Said[k][1])' = Replies(Said[k][1])
    BY <1>3, <1>4
<1>6. Top(Said)' = Top(Said) /\ Replies(Top(Said)[1])' = Replies(Top(Said)[1])
    BY <1>3, <1>5 DEF Top
<1>7. Chain(Said)'
  <2>1. \A k \in 1 .. Len(Said) - 1 : Follows(Said[k], Said[k + 1])'
    <3> SUFFICES ASSUME NEW k \in 1 .. Len(Said) - 1
                 PROVE  Follows(Said[k], Said[k + 1])'
        OBVIOUS
    <3>1. Follows(Said[k], Said[k + 1]) /\ k \in 1..Len(Said)
        BY SMTT(40), <1>3 DEF Answers, Chain
    <3> QED
        BY <3>1, <1>3, <1>5 DEF Follows
  <2> QED
    BY <2>1, <1>3, <1>6 DEF Answers, Chain
<1>8. Handler(Top(Said))'
    BY <1>6 DEF Answers, Handler
<1> QED
    BY <1>1, <1>2, <1>7, <1>8 DEF Answers

LEMMA InitAnswers == Init => AnswerInv
<1> SUFFICES ASSUME Init PROVE AnswerInv
    OBVIOUS
<1> USE ConnectionAssumption DEF ConnectionAssumption, Init
<1>1. Known
    BY DEF Known, Seen, NUL
<1>2. out \in Seq(Tagged(0)) /\ Len(out) = 2
  <2>1. Reply(0, 1, 2) \in Seq(Tagged(0))
    BY ReplyTagged
  <2> QED
    BY <2>1 DEF Reply
<1>3. Said = out
  <2>1. Rest = out
    BY <1>2 DEF Rest
  <2> QED
    BY <2>1, <1>2 DEF Said
<1>4. out[1] = <<0, 1, 1>> /\ out[2] = <<0, 1, 2>>
    BY DEF Reply
<1>5. Chain(Said)
    BY SMTT(40), <1>2, <1>3, <1>4 DEF Chain, Top, Follows
<1>6. Top(Said) = <<0, 1, 2>>
    BY <1>2, <1>3, <1>4 DEF Top
<1>7. Handler(Top(Said))
    BY <1>6 DEF Handler, Replies
<1> QED
    BY <1>1, <1>2, <1>5, <1>7 DEF AnswerInv, Answers

(* A command is no line that was not sent yet.                             *)
LEMMA SendCommands ==
    ASSUME client \in Clients, Known, Send, AllOwn'
    PROVE  AllOwn
<1>1. PICK len \in client.lens, kind \in client.kinds :
        sent' = Append(sent, [len |-> len, kind |-> kind])
    BY DEF Send
<1>2. got' = got /\ conn' = conn
    BY DEF Send
<1>3. /\ Len(sent) \in Nat /\ Len(got) \in Nat
      /\ got \in Seq(Seq(Seen(Len(sent))))
    BY DEF Known
<1>4. len \in Nat \ {0}
    BY ConnectionAssumption DEF ConnectionAssumption
<1> DEFINE n == Len(sent) + 1
<1>5. /\ Len(sent') = n /\ sent'[n].len = len
      /\ \A k \in 1..Len(sent) : sent'[k] = sent[k]
    BY <1>1 DEF Known
<1>6. /\ conn # "overrun" /\ Len(got) <= n
      /\ \A k \in DOMAIN got : got[k] = Line(k, sent'[k].len)
    BY <1>2, <1>5 DEF AllOwn, OwnLines, Line
<1>7. Len(got) # n
  <2> SUFFICES ASSUME Len(got) = n PROVE FALSE
    OBVIOUS
  <2>1. got[n] = Line(n, len) /\ got[n] \in Seq(Seen(Len(sent)))
    BY <1>3, <1>5, <1>6
  <2>2. Line(n, len)[1] = n /\ Len(Line(n, len)) >= 1
    BY <1>4 DEF Line
  <2>3. got[n][1] \in Seen(Len(sent))
    BY <2>1, <2>2
  <2> QED
    BY <2>1, <2>2, <2>3, <1>3 DEF Seen, NL
<1>8. \A k \in DOMAIN got : k \in 1..Len(sent)
    BY <1>3, <1>6, <1>7
<1> QED
    BY <1>3, <1>5, <1>6, <1>7, <1>8 DEF AllOwn, OwnLines

LEMMA SendAnswers ==
    ASSUME client \in Clients, AnswerInv, Send PROVE AnswerInv'
<1> USE ConnectionAssumption DEF ConnectionAssumption
<1>1. PICK len \in client.lens, kind \in client.kinds :
        /\ sent' = Append(sent, [len |-> len, kind |-> kind])
        /\ wire' = wire \o Line(Len(sent) + 1, len) \o <<NL>>
    BY DEF Send
<1>2. UNCHANGED <<buf, rb, got, out, recv, wi, last, item, pending>>
    BY DEF Send, cmdVars, writeVars
<1> DEFINE n == Len(sent) + 1
<1>3. /\ len \in Nat \ {0} /\ len \in Lens /\ kind \in Kinds
      /\ sent \in Seq([len : Lens, kind : Kinds]) /\ Len(sent) \in Nat
    BY DEF Lens, Kinds, AnswerInv, Known
<1>4. /\ sent' \in Seq([len : Lens, kind : Kinds]) /\ Len(sent') = n
      /\ \A k \in 1..Len(sent) : sent'[k] = sent[k]
    BY <1>1, <1>3
<1>5. Seen(Len(sent)) \subseteq Seen(n)
    BY <1>3 DEF Seen
<1>6. Known'
  <2>1. wire' \in Seq(Seen(n))
    <3>1. Line(n, len) \in Seq(Seen(n)) /\ <<NL>> \in Seq(Seen(n))
        BY <1>3 DEF Line, Seen
    <3>2. wire \in Seq(Seen(n))
        BY <1>5 DEF AnswerInv, Known
    <3> HIDE DEF n
    <3> QED
        BY <3>1, <3>2, <1>1 DEF n
  <2>2. got' \in Seq(Seq(Seen(n)))
    <3>1. Seq(Seen(Len(sent))) \subseteq Seq(Seen(n))
        BY <1>5
    <3> QED
        BY <3>1, <1>2 DEF AnswerInv, Known
  <2>3. buf' \in [0 .. Size - 1 -> Seen(n)] /\ rb' \in 0 .. Size - 1
    BY <1>2, <1>5 DEF AnswerInv, Known
  <2> QED
    BY <2>1, <2>2, <2>3, <1>4 DEF Known
<1>7. ASSUME AllOwn' PROVE Answers'
  <2>1. AllOwn /\ Answers
    BY <1>7, SendCommands DEF AnswerInv
  <2>2. \A k \in 0..Len(got) : Replies(k)' = Replies(k)
    BY SMTT(40),
       <2>1, <1>3, <1>4 DEF AllOwn, OwnLines, Replies, AnswerInv, Known
  <2>3. Len(got) \in Nat /\ Len(got') = Len(got)
    BY <1>2 DEF AnswerInv, Known
  <2> QED
    BY <2>1, <2>2, <2>3, <1>2, AnswersKept
<1> QED
    BY <1>6, <1>7 DEF AnswerInv

LEMMA ReadAnswers == ASSUME AnswerInv, Read PROVE AnswerInv'
<1>0. Size \in Nat \ {0, 1}
    BY ConnectionAssumption DEF ConnectionAssumption
<1>1. PICK b \in 1..Len(wire) :
        /\ b < Size - rb
        /\ buf' = [i \in 0 .. Size - 1 |->
                     IF i \in rb .. rb + b - 1 THEN wire[i - rb + 1]
                     ELSE IF i = rb + b THEN NUL ELSE buf[i]]
        /\ rb' = rb + b
        /\ wire' = SubSeq(wire, b + 1, Len(wire))
    BY DEF Read
<1>2. UNCHANGED <<sent, got, conn, out, recv, wi, last, item, pending>>
    BY DEF Read, cmdVars, writeVars
<1> DEFINE X == Seen(Len(sent))
<1>3. /\ wire \in Seq(X) /\ rb \in 0 .. Size - 1 /\ Len(wire) \in Nat
      /\ buf \in [0 .. Size - 1 -> X] /\ Len(sent) \in Nat /\ Len(got) \in Nat
    BY DEF AnswerInv, Known
<1>4. wire' \in Seq(X) /\ rb' \in 0 .. Size - 1
  <2> HIDE DEF X
  <2> QED
    BY <1>0, <1>1, <1>3
<1>5. buf' \in [0 .. Size - 1 -> X]
  <2>1. NUL \in X
    BY <1>3 DEF Seen, NUL
  <2> HIDE DEF X
  <2>2. \A i \in rb .. rb + b - 1 : wire[i - rb + 1] \in X
    BY <1>1, <1>3
  <2> QED
    BY <2>1, <2>2, <1>1, <1>3
<1>6. Known'
    BY <1>2, <1>4, <1>5 DEF AnswerInv, Known
<1>7. ASSUME AllOwn' PROVE Answers'
  <2>1. AllOwn
    BY <1>2, <1>7 DEF AllOwn, OwnLines
  <2>2. \A k \in 0..Len(got) : Replies(k)' = Replies(k)
    BY <1>2 DEF Replies
  <2> QED
    BY <2>1, <2>2, <1>2, <1>3, AnswersKept DEF AnswerInv
<1> QED
    BY <1>6, <1>7 DEF AnswerInv

(* The other steps leave the lines and the answers alone.                  *)
LEMMA OtherAnswers ==
    ASSUME AnswerInv,
           \/ Leave \/ ReadEnd \/ ParseRefused \/ ParseDone \/ WriteFails
           \/ Ended \/ UNCHANGED vars
    PROVE  AnswerInv'
<1>1. UNCHANGED <<sent, wire, buf, rb, got, out, wi, recv, last, item, pending>>
    BY DEF Leave, ReadEnd, ParseRefused, ParseDone, WriteFails, Ended, vars,
           readVars, writeVars, cmdVars
<1>2. conn = "overrun" => conn' = "overrun"
    BY DEF Leave, ReadEnd, ParseRefused, ParseDone, WriteFails, Ended, vars
<1>3. Known'
    BY <1>1 DEF AnswerInv, Known
<1>4. ASSUME AllOwn' PROVE Answers'
  <2>1. AllOwn
    BY <1>1, <1>2, <1>4 DEF AllOwn, OwnLines
  <2>2. \A k \in 0..Len(got) : Replies(k)' = Replies(k)
    BY <1>1 DEF Replies
  <2>3. Len(got) \in Nat
    BY DEF AnswerInv, Known
  <2> QED
    BY <2>1, <2>2, <2>3, <1>1, AnswersKept DEF AnswerInv
<1> QED
    BY <1>3, <1>4 DEF AnswerInv

LEMMA Regroup ==
    ASSUME NEW T, recv \in Seq(T), Rest \in Seq(T), NEW a \in Seq(T)
    PROVE  (recv \o Rest) \o a = recv \o (Rest \o a)
BY ConcatAssociative, SMTT(40)

LEMMA SaidGrows ==
    ASSUME NEW T, out \in Seq(T), recv \in Seq(T), NEW a \in Seq(T), a # <<>>,
           wi \in 0..Len(out), out' = out \o a, UNCHANGED <<wi, recv>>
    PROVE  Said' = Said \o a
<1>1. SubSeq(out \o a, wi + 1, Len(out \o a))
        = SubSeq(out, wi + 1, Len(out)) \o a
    BY PostedBehind, Zenon
<1>2. Rest' = Rest \o a
  <2>1. wi' = wi /\ out' = out \o a
    OBVIOUS
  <2>2. SubSeq(out', wi' + 1, Len(out')) = SubSeq(out, wi + 1, Len(out)) \o a
    BY <1>1, <2>1, Zenon
  <2> QED
    BY <2>2, Zenon DEF Rest
<1>3. Rest \in Seq(T)
    BY DEF Rest
<1>4. (recv \o Rest) \o a = recv \o (Rest \o a)
    BY <1>3, Regroup, Zenon
<1> QED
    BY <1>2, <1>4 DEF Said

(* A line that is answered: its first reply is put behind the queue.       *)
LEMMA CommandPosts ==
    ASSUME Known, Answers, NEW n, n = Len(got) + 1, n <= Len(sent),
           NEW cmd, LineOf(cmd) = n, KindOf(cmd) = sent[n].kind,
           KindOf(cmd) # "header", ~Refused(cmd), Command(cmd),
           UNCHANGED <<sent, recv>>
    PROVE  Answers' /\ Top(Said)'[1] = n
<1>0. ListLen \in Nat \ {0} /\ Size \in Nat \ {0, 1} /\ OutSize \in Nat
    BY ConnectionAssumption DEF ConnectionAssumption
<1> USE <1>0
<1>1. last = Idle /\ Fits(out, 2)
    BY DEF Refused
<1>2. Len(got) \in Nat /\ n \in Nat /\ n > 0 /\ Len(got') = n
    BY DEF Known, Command
<1>3. out \in Seq(Tagged(n)) /\ recv \in Seq(Tagged(n)) /\ wi \in 0..Len(out)
    BY <1>2, TaggedGrows DEF Answers
<1>4. Rest \in Seq(Tagged(n)) /\ Said \in Seq(Tagged(n))
    BY <1>3 DEF Said, Rest
<1>5. Chain(Said) /\ Top(Said)[1] \in 0..Len(got)
  <2>1. Said \in Seq(Tagged(Len(got))) /\ Len(Said) > 0
    BY SMTT(40) DEF Answers, Chain, Said, Rest
  <2>2. Top(Said) \in Tagged(Len(got))
    BY <2>1 DEF Top
  <2> QED
    BY <2>2 DEF Answers, Tagged
<1>6. Top(Said)[2] = Replies(Top(Said)[1])
    BY <1>1, <1>2, <1>5 DEF Answers, Handler, Idle
<1>7. Continues(Said, n, 1)
    BY <1>2, <1>5, <1>6 DEF Continues
<1>8. OutSize >= 2
    BY <1>1, <1>3 DEF Fits
<1>9. ~pending /\ item = 0
    BY <1>1, <1>5 DEF Answers, Handler, Idle
<1>10. /\ out' = out \o Reply(n, 1, 2) /\ wi' = wi
       /\ HandlerAfter(n, 1)
  <2>1. CASE /\ KindOf(cmd) \in {"simple", "quit"}
             /\ Respond(out, n, 1, 2, TRUE)
             /\ UNCHANGED <<cmdVars, wi>>
    <3>1. Replies(n) = 1
        BY <2>1 DEF Replies
    <3>2. out' = out \o Reply(n, 1, 2) /\ ~pending'
        BY <2>1 DEF Respond
    <3> QED
        BY <2>1, <3>1, <3>2, <1>1, <1>9 DEF HandlerAfter, cmdVars
  <2>2. CASE /\ KindOf(cmd) = "list"
             /\ ListNext(out, n, 1)
             /\ UNCHANGED <<wi, deferClose>>
    <3>1. Replies(n) = ListLen
        BY <2>2, <1>2 DEF Replies
    <3>2. Respond(out, n, 1, 2, 1 = ListLen)
        BY <2>2, <1>1 DEF ListNext
    <3>3. /\ item' = IF 1 # ListLen THEN 2 ELSE 0
          /\ last' = IF 1 = ListLen THEN Idle ELSE n
        BY <2>2, <1>1 DEF ListNext
    <3>4. pending' <=> 1 # ListLen
        BY <3>2 DEF Respond
    <3>5. HandlerAfter(n, 1)
      <4>1. CASE ListLen = 1
        BY <4>1, <3>1, <3>3, <3>4 DEF HandlerAfter
      <4>2. CASE ListLen # 1
        BY <4>2, <3>1, <3>3, <3>4, <1>8 DEF HandlerAfter
      <4> QED
        BY <4>1, <4>2
    <3> QED
        BY <2>2, <3>2, <3>5 DEF Respond
  <2> QED
    BY <2>1, <2>2 DEF Command
<1> DEFINE a == Reply(n, 1, 2)
<1>11. a \in Seq(Tagged(n)) /\ Len(a) = 2
  <2>1. n \in 0..n /\ 1 \in Nat /\ 2 \in Nat
    BY <1>2
  <2>2. a \in Seq(Tagged(n))
    BY <2>1, <1>2, ReplyTagged
  <2> QED
    BY <2>2 DEF Reply
<1>12. out' = out \o a
    BY <1>10
<1> HIDE DEF a
<1>13. Said' = Said \o a
  <2>1. a # <<>>
    BY SMTT(40), <1>11
  <2> DEFINE T == Tagged(n)
  <2>2. out \in Seq(T) /\ recv \in Seq(T) /\ a \in Seq(T)
    BY <1>3, <1>11
  <2> HIDE DEF T
  <2> QED
    BY <2>1, <2>2, <1>3, <1>10, <1>12, SaidGrows
<1>17. out' \in Seq(Tagged(n)) /\ Len(out') = Len(out) + 2
  <2>1. out \o a \in Seq(Tagged(n)) /\ Len(out \o a) = Len(out) + Len(a)
    BY <1>3, <1>11, Joined, ZenonT(40)
  <2> QED
    BY <2>1, <1>11, <1>12
<1>14. wi' \in Nat /\ wi' < Len(out')
    BY <1>3, <1>10, <1>17
<1>18. n \in 0..n /\ 1 \in Nat /\ recv' \in Seq(Tagged(n))
    BY <1>2, <1>3
<1>15. Answers' /\ Top(Said)' = <<n, 1, 2>>
    BY <1>2, <1>4, <1>5, <1>7, <1>10, <1>13, <1>14, <1>17, <1>18, Posted DEF a
<1> QED
    BY <1>15

LEMMA FoundIs ==
    ASSUME Known, NEW n \in 1..Len(sent), NEW cmd, cmd = Line(n, sent[n].len)
    PROVE  LineOf(cmd) = n /\ KindOf(cmd) = sent[n].kind
<1>1. sent[n] \in [len : Lens, kind : Kinds] /\ sent[n].len \in Nat \ {0}
  <2>1. sent[n] \in [len : Lens, kind : Kinds]
    BY ElementOfSeq DEF Known
  <2> QED
    BY <2>1, LengthsPositive
<1>2. cmd # <<>> /\ cmd[1] = n /\ n \in DOMAIN sent
    BY <1>1 DEF Line, Known
<1>3. LineOf(cmd) = n
    BY <1>2 DEF LineOf
<1> QED
    BY <1>3 DEF KindOf

LEMMA ParseLineAnswers == ASSUME AnswerInv, ParseLine PROVE AnswerInv'
<1>0. ListLen \in Nat \ {0} /\ Size \in Nat \ {0, 1} /\ OutSize \in Nat
    BY ConnectionAssumption DEF ConnectionAssumption
<1> USE <1>0
<1>1. PICK e \in 0 .. Size - 1 :
        /\ IsEnd(e) /\ ~Refused(Cmd(e)) /\ Command(Cmd(e))
        /\ IF e < rb
             THEN /\ buf' = Moved(e) /\ rb' = rb - (e + 1)
                  /\ UNCHANGED conn
             ELSE conn' = "overrun" /\ UNCHANGED <<buf, rb>>
    BY DEF ParseLine
<1>2. UNCHANGED <<sent, wire, recv>> /\ conn = "open"
    BY DEF ParseLine
<1> DEFINE X == Seen(Len(sent))
           n == Len(got) + 1
<1>3. /\ buf \in [0 .. Size - 1 -> X] /\ got \in Seq(Seq(X))
      /\ rb \in 0 .. Size - 1 /\ Len(sent) \in Nat /\ Len(got) \in Nat
    BY DEF AnswerInv, Known
<1>4. got' = Append(got, Cmd(e))
    BY <1>1 DEF Command
<1>5. Cmd(e) \in Seq(X) /\ Len(Cmd(e)) = e
  <2> HIDE DEF X
  <2>1. \A i \in 1..e : buf[i - 1] \in X
    <3>1. \A i \in 1..e : i - 1 \in 0 .. Size - 1
        OBVIOUS
    <3> QED
        BY <3>1, <1>3
  <2> QED
    BY <2>1 DEF Cmd
<1>6. Known'
  <2>1. NUL \in X
    BY <1>3 DEF Seen, NUL
  <2> HIDE DEF X
  <2>2. got' \in Seq(Seq(X))
    BY <1>3, <1>4, <1>5
  <2>3. buf' \in [0 .. Size - 1 -> X] /\ rb' \in 0 .. Size - 1
    <3>1. CASE e < rb
      <4>1. \A i \in 0 .. Size - 1 : i < rb - (e + 1) => buf[i + e + 1] \in X
        BY <1>3
      <4>2. \A i \in 0 .. Size - 1 : buf[i] \in X
        BY <1>3
      <4>3. Moved(e) \in [0 .. Size - 1 -> X]
        BY <4>1, <4>2, <2>1 DEF Moved
      <4> QED
        BY <4>3, <3>1, <1>1, <1>3
    <3>2. CASE ~(e < rb)
        BY <3>2, <1>1, <1>3
    <3> QED
        BY <3>1, <3>2
  <2> QED
    BY <2>2, <2>3, <1>2 DEF AnswerInv, Known, X
<1>7. ASSUME AllOwn' PROVE Answers'
  <2>1. /\ got' \in Seq(Seq(X)) /\ Len(got') = n /\ got'[n] = Cmd(e)
        /\ \A k \in 1..Len(got) : got'[k] = got[k]
    <3> HIDE DEF X
    <3> QED
        BY <1>3, <1>4, <1>5
  <2>2. /\ n <= Len(sent) /\ Cmd(e) = Line(n, sent[n].len)
        /\ \A k \in 1..Len(got) : got[k] = Line(k, sent[k].len)
    <3>1. /\ Len(got') <= Len(sent)
          /\ \A k \in DOMAIN got' : got'[k] = Line(k, sent[k].len)
        BY <1>2, <1>7 DEF AllOwn, OwnLines, Line
    <3>2. DOMAIN got' = 1..n
        BY <2>1
    <3>3. n <= Len(sent) /\ n \in 1..n /\ \A k \in 1..Len(got) : k \in 1..n
        BY <3>1, <2>1, <1>3
    <3> QED
        BY <3>1, <3>2, <3>3, <2>1
  <2>3. AllOwn /\ Answers
    <3>1. DOMAIN got = 1..Len(got)
        BY <1>3
    <3>2. AllOwn
        BY SMTT(40), <3>1, <2>2, <1>2, <1>3 DEF AllOwn, OwnLines
    <3> QED
        BY <3>2 DEF AnswerInv
  <2>5. LineOf(Cmd(e)) = n /\ KindOf(Cmd(e)) = sent[n].kind
    <3>1. n \in 1..Len(sent)
        BY <2>2, <1>3
    <3> QED
        BY <3>1, <2>2, FoundIs DEF AnswerInv
  <2>6. CASE KindOf(Cmd(e)) = "header"
    <3>1. UNCHANGED <<out, wi, last, item, pending>>
        BY <2>6, <1>1 DEF Command, cmdVars, writeVars
    <3>2. \A k \in 0..Len(got) : Replies(k)' = Replies(k)
        BY <1>2 DEF Replies
    <3> QED
        BY <3>1, <3>2, <2>1, <2>3, <1>2, <1>3, AnswersKept
  <2>7. CASE KindOf(Cmd(e)) # "header"
    BY <2>2, <2>3, <2>5, <2>7, <1>1, <1>2, CommandPosts DEF AnswerInv
  <2> QED
    BY <2>6, <2>7
<1> QED
    BY <1>6, <1>7 DEF AnswerInv

(* What is written moves on, and the handler posts the next line.          *)
LEMMA WriteMoves ==
    ASSUME Answers, Len(got) \in Nat, NEW b \in 0 .. Len(out) - wi,
           b = 0 => out = <<>>,
           recv' = recv \o SubSeq(out, wi + 1, wi + b),
           IF AllOut(b)
             THEN wi' = 0 /\ NextCycle
             ELSE wi' = wi + b /\ UNCHANGED <<out, pending, cmdVars>>,
           UNCHANGED <<sent, got>>
    PROVE  /\ Answers' /\ Top(Said)'[1] = Top(Said)[1]
           /\ AllOut(b) /\ ~pending => recv' = Said /\ ~pending'
           /\ AllOut(b) /\ pending => last \in 0..Len(got) /\ out' # <<>>
           /\ ~AllOut(b) => out' # <<>>
<1>0. ListLen \in Nat \ {0} /\ Size \in Nat \ {0, 1} /\ OutSize \in Nat
    BY ConnectionAssumption DEF ConnectionAssumption
<1> USE <1>0
<1> DEFINE m == Len(got)
<1>1. /\ out \in Seq(Tagged(m)) /\ recv \in Seq(Tagged(m))
      /\ wi \in 0..Len(out) /\ b \in Nat
    BY DEF Answers
<1>2. Said \in Seq(Tagged(m)) /\ Len(Said) > 0 /\ Chain(Said)
  <2>1. Said \in Seq(Tagged(m))
    BY <1>1 DEF Said, Rest
  <2> QED
    BY <2>1 DEF Answers, Chain
<1>3. Top(Said) \in Tagged(m) /\ Top(Said)[1] \in 0..m /\ Top(Said)[2] \in Nat
  <2>1. Top(Said) \in Tagged(m)
    BY <1>2 DEF Top
  <2> QED
    BY <2>1 DEF Tagged
<1> HIDE DEF m
<1>4. recv' \in Seq(Tagged(m))
  <2>1. SubSeq(out, wi + 1, wi + b) \in Seq(Tagged(m))
    BY <1>1
  <2> QED
    BY <2>1, <1>1
<1>5. CASE ~AllOut(b)
  <2>1. wi' = wi + b /\ UNCHANGED <<out, pending, last, item>>
    BY <1>5 DEF cmdVars
  <2>2. Said' = Said
    <3>1. (recv \o SubSeq(out, wi + 1, wi + b)) \o SubSeq(out, wi + b + 1, Len(out))
            = recv \o SubSeq(out, wi + 1, Len(out))
        BY ZenonT(60), <1>1, Moves
    <3> QED
        BY <3>1, <2>1 DEF Said, Rest
  <2>3. wi' \in Nat /\ wi' < Len(out')
    BY <2>1, <1>1, <1>5 DEF AllOut
  <2>4. Chain(Said)' /\ Handler(Top(Said))' /\ Top(Said)' = Top(Said)
    BY SMTT(40), <2>1, <2>2 DEF Answers, Chain, Handler, Follows, Replies, Top
  <2>5. Answers'
    BY <2>1, <2>3, <2>4, <1>1, <1>4 DEF Answers, m
  <2>6. out' # <<>>
    BY <2>3
  <2> QED
    BY <2>4, <2>5, <2>6, <1>5
<1>6. CASE AllOut(b)
  <2>1. recv' = Said /\ wi' = 0 /\ NextCycle
    BY <1>1, <1>6 DEF AllOut, Said, Rest
  <2>2. CASE pending
    <3>1. /\ last = Top(Said)[1] /\ item = Top(Said)[2] + 1
          /\ Top(Said)[2] < ListLen /\ Replies(Top(Said)[1]) = ListLen
          /\ OutSize >= 2
        BY <2>2 DEF Answers, Handler
    <3> DEFINE n == last
               j == item
    <3>2. n \in 0..m /\ j \in Nat /\ j > 0 /\ j <= ListLen
        BY SMTT(40), <3>1, <1>3
    <3>3. ListNext(<<>>, n, j) /\ Fits(<<>>, 2)
      <4>1. ListNext(<<>>, n, j)
        BY <2>1, <2>2, <3>2 DEF NextCycle
      <4>2. Fits(<<>>, 2)
        BY <3>1 DEF Fits
      <4> QED
        BY <4>1, <4>2
    <3>4. /\ out' = <<>> \o Reply(n, j, 2) /\ (pending' <=> j # ListLen)
          /\ item' = IF j # ListLen THEN j + 1 ELSE 0
          /\ last' = IF j = ListLen THEN Idle ELSE n
        BY <3>3 DEF ListNext, Respond
    <3>5. Reply(n, j, 2) \in Seq(Tagged(m))
        BY <3>2, ReplyTagged DEF m
    <3>6. Len(Reply(n, j, 2)) = 2
        BY DEF Reply
    <3>7. out' = Reply(n, j, 2) /\ Len(out') = 2
        BY <3>4, <3>5, <3>6
    <3>8. Rest' = Reply(n, j, 2)
        BY <3>5, <3>7, <2>1 DEF Rest
    <3>9. Said' = Said \o Reply(n, j, 2)
        BY <3>8, <2>1 DEF Said
    <3>10. Continues(Said, n, j)
      <4>1. Top(Said)[2] < Replies(n)
        BY <3>1
      <4> QED
        BY <4>1, <3>1 DEF Continues
    <3>11. HandlerAfter(n, j)
      <4>1. Replies(n) = ListLen
        BY <3>1
      <4>2. CASE j = ListLen
        BY <4>1, <4>2, <3>4 DEF HandlerAfter
      <4>3. CASE j # ListLen
        <5>1. j < ListLen /\ j \in Nat
            BY <4>3, <3>2
        <5>2. pending' /\ last' = n /\ item' = j + 1
            BY <4>3, <3>4
        <5> QED
            BY <4>1, <5>1, <5>2, <3>1 DEF HandlerAfter
      <4> QED
        BY <4>2, <4>3
    <3>12. m \in Nat /\ Len(got') = m
        BY DEF m
    <3>13. /\ wi' \in Nat /\ wi' < Len(out') /\ out' \in Seq(Tagged(m))
           /\ sent' = sent
      <4>1. wi' = 0 /\ Len(out') = 2
        BY <3>7, <2>1, Zenon
      <4>2. out' \in Seq(Tagged(m))
        BY <3>5, <3>7, Zenon
      <4> QED
        BY <4>1, <4>2
    <3> HIDE DEF n, j
    <3>14. Answers' /\ Top(Said)' = <<n, j, 2>>
        BY <3>2, <3>9, <3>10, <3>11, <3>12, <3>13, <1>2, <1>4, Posted
    <3>15. Top(Said)'[1] = Top(Said)[1]
        BY <3>1, <3>14 DEF n
    <3>16. last \in 0..Len(got) /\ out' # <<>>
        BY SMTT(40), <3>2, <3>7 DEF n, m
    <3> QED
        BY <3>14, <3>15, <3>16, <2>2, <1>6
  <2>3. CASE ~pending
    <3>1. out' = <<>> /\ UNCHANGED <<pending, last, item>>
        BY <2>1, <2>3 DEF NextCycle, cmdVars
    <3>2. Said' = Said
      <4>1. Rest' = <<>>
        BY <3>1, <2>1 DEF Rest
      <4>2. Said \o <<>> = Said
        BY SMTT(40), <1>2, ConcatEmptySeq
      <4> QED
        BY <4>1, <4>2, <2>1 DEF Said
    <3>3. Chain(Said)' /\ Handler(Top(Said))' /\ Top(Said)' = Top(Said)
        BY ZenonT(40),
           <3>1, <3>2 DEF Answers, Chain, Handler, Follows, Replies, Top
    <3>4. Answers'
        BY <3>1, <3>3, <2>1, <1>4 DEF Answers, m
    <3> QED
        BY <3>1, <3>3, <3>4, <2>1, <2>3, <1>6
  <2> QED
    BY <2>2, <2>3
<1> QED
    BY <1>5, <1>6

LEMMA WriteAnswers == ASSUME AnswerInv, Write PROVE AnswerInv'
<1>1. PICK b \in 0 .. Len(out) - wi :
        /\ b = 0 => out = <<>>
        /\ recv' = recv \o SubSeq(out, wi + 1, wi + b)
        /\ IF AllOut(b)
             THEN wi' = 0 /\ NextCycle
             ELSE wi' = wi + b /\ UNCHANGED <<out, pending, cmdVars>>
    BY DEF Write
<1>2. UNCHANGED <<sent, wire, buf, rb, got>> /\ conn = "open"
    BY DEF Write, readVars
<1>3. Known' /\ Len(got) \in Nat
    BY <1>2 DEF AnswerInv, Known
<1>4. AllOwn' => AllOwn
    BY <1>2 DEF AllOwn, OwnLines
<1>5. Answers => Answers'
    BY <1>1, <1>2, <1>3, WriteMoves
<1> QED
    BY <1>3, <1>4, <1>5 DEF AnswerInv

LEMMA NextAnswers ==
    ASSUME client \in Clients, AnswerInv, [Next]_vars PROVE AnswerInv'
<1>1. CASE Send
    BY <1>1, SendAnswers
<1>2. CASE Read
    BY <1>2, ReadAnswers
<1>3. CASE ParseLine
    BY <1>3, ParseLineAnswers
<1>4. CASE Write
    BY <1>4, WriteAnswers
<1>5. CASE \/ Leave \/ ReadEnd \/ ParseRefused \/ ParseDone \/ WriteFails
           \/ Ended \/ UNCHANGED vars
    BY <1>5, OtherAnswers
<1> QED
    BY <1>1, <1>2, <1>3, <1>4, <1>5 DEF Next

-----------------------------------------------------------------------------
(* The lines of every client, and when the stale newline is found.         *)

(* What was read and what was not yet, as one stream of bytes.             *)
ByteIn(b, r, w, j) == IF j < r THEN b[j] ELSE w[j - r + 1]
EndsAt(len, n, i) == IF i < len THEN n ELSE NL

(* The stream is the lines that are no commands yet, line n from start[n]. *)
Streams(start) ==
    /\ start \in [Len(got) + 1 .. Len(sent) + 1 -> Nat]
    /\ start[Len(got) + 1] = 0 /\ start[Len(sent) + 1] = rb + Len(wire)
    /\ \A k, n \in Len(got) + 1 .. Len(sent) + 1 : k <= n => start[k] <= start[n]
    /\ \A n \in Len(got) + 1 .. Len(sent) :
         /\ start[n + 1] = start[n] + sent[n].len + 1
         /\ start[n + 1] <= rb + Len(wire)
         /\ \A i \in 0 .. sent[n].len :
              ByteIn(buf, rb, wire, start[n] + i) = EndsAt(sent[n].len, n, i)

Stream == OwnLines /\ \E start : Streams(start)

Alike == \A m, n \in DOMAIN sent : sent[m].len = sent[n].len

(* With lines of one length, a rest shorter than a line is followed by a   *)
(* NUL before any newline: the end of the line before it was cleared.      *)
Cleared ==
    rb <= sent[1].len =>
      \E z \in rb .. Size - 1 :
        buf[z] = NUL /\ \A i \in rb .. z - 1 : buf[i] # NL

LinesInv ==
    /\ conn # "overrun" => Stream
    /\ pc = "parse" => sent # <<>> /\ (Alike => Cleared)
    /\ conn = "overrun" => Mixed

LEMMA InitLines == Init => LinesInv
<1> SUFFICES ASSUME Init PROVE LinesInv
    OBVIOUS
<1> USE DEF Init
<1>1. Streams([n \in {1} |-> 0])
    BY DEF Streams
<1>2. OwnLines
    BY DEF OwnLines
<1> QED
    BY <1>1, <1>2 DEF LinesInv, Stream

LEMMA LineLength ==
    ASSUME Known, NEW n \in 1..Len(sent) PROVE sent[n].len \in Nat \ {0}
<1>1. sent[n] \in [len : Lens, kind : Kinds]
  <2>1. sent \in Seq([len : Lens, kind : Kinds])
    BY DEF Known
  <2> QED
    BY <2>1, ElementOfSeq, Zenon
<1> QED
    BY <1>1, LengthsPositive

(* A line of len bytes n, and x, are put behind a sequence.                *)
Joins(q, s, n, len, x) ==
    /\ Len(q) = Len(s) + len + 1
    /\ \A i \in 1..Len(s) : q[i] = s[i]
    /\ \A i \in 1..len : q[Len(s) + i] = n
    /\ q[Len(s) + len + 1] = x

LEMMA LineJoined ==
    ASSUME NEW s \in Seq(Int), NEW n \in Nat, NEW len \in Nat, NEW x \in Int
    PROVE  Joins(s \o Line(n, len) \o <<x>>, s, n, len, x)
<1> DEFINE l == Line(n, len)
           y == <<x>>
<1>1. l \in Seq(Int) /\ Len(l) = len /\ \A i \in 1..len : l[i] = n
    BY DEF Line
<1>2. y \in Seq(Int) /\ Len(y) = 1 /\ y[1] = x
    OBVIOUS
<1> HIDE DEF l, y
<1> DEFINE o == s \o l
<1>3. /\ o \in Seq(Int) /\ Len(o) = Len(s) + Len(l)
      /\ \A i \in 1..Len(s) : o[i] = s[i]
      /\ \A i \in 1..Len(l) : o[Len(s) + i] = l[i]
    BY SMTT(40), <1>1
<1> HIDE DEF o
<1> DEFINE q == o \o y
<1>4. /\ Len(q) = Len(o) + Len(y)
      /\ \A i \in 1..Len(o) : q[i] = o[i]
      /\ \A i \in 1..Len(y) : q[Len(o) + i] = y[i]
  <2>1. o \in Seq(Int) /\ y \in Seq(Int)
    BY <1>2, <1>3
  <2> QED
    BY SMTT(40), <2>1
<1> HIDE DEF q
<1>5. PICK w \in Nat : w = Len(s)
    OBVIOUS
<1>6. Len(o) = w + len /\ Len(q) = w + len + 1 /\ q[w + len + 1] = x
  <2>1. Len(o) = w + len
    BY <1>1, <1>3, <1>5
  <2>2. 1 \in 1..Len(y)
    BY <1>2
  <2> QED
    BY <2>1, <2>2, <1>2, <1>4
<1>7. \A i \in 1..w : q[i] = s[i]
  <2> SUFFICES ASSUME NEW i \in 1..w PROVE q[i] = s[i]
    OBVIOUS
  <2>1. i \in 1..Len(o) /\ i \in 1..Len(s)
    BY <1>5, <1>6
  <2> QED
    BY <2>1, <1>3, <1>4
<1>8. \A i \in 1..len : q[w + i] = n
  <2> SUFFICES ASSUME NEW i \in 1..len PROVE q[w + i] = n
    OBVIOUS
  <2>1. w + i \in 1..Len(o) /\ i \in 1..Len(l)
    BY <1>1, <1>6
  <2> QED
    BY <2>1, <1>1, <1>3, <1>4, <1>5
<1>9. Joins(q, s, n, len, x)
    BY <1>5, <1>6, <1>7, <1>8 DEF Joins
<1> QED
    BY <1>9 DEF q, o, l, y

LEMMA SendLines ==
    ASSUME client \in Clients, Known, Known', LinesInv, Send PROVE LinesInv'
<1>1. PICK len \in client.lens, kind \in client.kinds :
        /\ sent' = Append(sent, [len |-> len, kind |-> kind])
        /\ wire' = wire \o Line(Len(sent) + 1, len) \o <<NL>>
    BY DEF Send
<1>2. UNCHANGED <<client, buf, rb, pc, got, conn>>
    BY DEF Send
<1>3. PICK m \in Nat, g \in Nat, w \in Nat, t \in Nat :
        m = Len(sent) /\ g = Len(got) /\ w = Len(wire) /\ t = rb + w
    BY DEF Known
<1>4. /\ len \in Nat \ {0} /\ rb \in Nat
      /\ wire \in Seq(Int) /\ got \in Seq(Seq(Seen(m)))
    BY <1>3, ConnectionAssumption DEF ConnectionAssumption, Known, Seen, NL
<1>5. /\ Len(sent') = m + 1 /\ sent'[m + 1].len = len
      /\ \A k \in 1..m : sent'[k] = sent[k]
    BY <1>1, <1>3 DEF Known
<1>6. /\ Len(wire') = w + len + 1
      /\ \A i \in 1..w : wire'[i] = wire[i]
      /\ \A i \in 1..len : wire'[w + i] = m + 1
      /\ wire'[w + len + 1] = NL
  <2>1. NL \in Int /\ m + 1 \in Nat /\ len \in Nat
    BY <1>4 DEF NL
  <2> DEFINE q == wire \o Line(m + 1, len) \o <<NL>>
  <2>2. /\ Len(q) = Len(wire) + len + 1
        /\ \A i \in 1..Len(wire) : q[i] = wire[i]
        /\ \A i \in 1..len : q[Len(wire) + i] = m + 1
        /\ q[Len(wire) + len + 1] = NL
    <3>1. Joins(q, wire, m + 1, len, NL)
        BY <2>1, <1>4, LineJoined
    <3> HIDE DEF q
    <3> QED
        BY <3>1 DEF Joins
  <2>3. wire' = q
    BY <1>1, <1>3
  <2> HIDE DEF q
  <2> QED
    BY <2>2, <2>3, <1>3
<1>7. ASSUME conn' # "overrun" PROVE Stream'
  <2>1. OwnLines /\ \E start : Streams(start)
    BY <1>2, <1>7 DEF LinesInv, Stream
  <2>2. PICK start : Streams(start)
    BY <2>1
  <2>3. /\ g <= m /\ start \in [g + 1 .. m + 1 -> Nat]
        /\ start[g + 1] = 0 /\ start[m + 1] = t
    BY <2>1, <2>2, <1>3 DEF OwnLines, Streams
  <2>4. OwnLines'
    BY <2>1, <2>3, <1>2, <1>3, <1>4, <1>5 DEF OwnLines, Line
  <2>5. PICK u \in Nat : u = t + len + 1
    BY <1>4
  <2>6. PICK next \in [g + 1 .. m + 2 -> Nat] :
          /\ next[m + 2] = u
          /\ \A n \in g + 1 .. m + 1 : next[n] = start[n]
    <3>1. g <= m /\ start \in [g + 1 .. m + 1 -> Nat]
        BY <2>3
    <3> DEFINE f == [n \in g + 1 .. m + 2 |-> IF n = m + 2 THEN u ELSE start[n]]
    <3>2. /\ f \in [g + 1 .. m + 2 -> Nat] /\ f[m + 2] = u
          /\ \A n \in g + 1 .. m + 1 : f[n] = start[n]
        BY <3>1
    <3> QED
        BY <3>2
  <2>7. ASSUME NEW j \in 0 .. t - 1
        PROVE  ByteIn(buf', rb', wire', j) = ByteIn(buf, rb, wire, j)
    <3>1. CASE j < rb
        BY <3>1, <1>2 DEF ByteIn
    <3>2. CASE ~(j < rb)
      <4>1. j - rb + 1 \in 1..w
        BY <3>2, <1>3, <1>4
      <4> QED
        BY <4>1, <3>2, <1>2, <1>6 DEF ByteIn
    <3> QED
        BY <3>1, <3>2
  <2>8. ASSUME NEW i \in 0..len
        PROVE  ByteIn(buf', rb', wire', t + i) = EndsAt(len, m + 1, i)
    <3>1. ~(t + i < rb) /\ (t + i) - rb + 1 = w + (i + 1)
        BY <1>3, <1>4
    <3>2. ByteIn(buf', rb', wire', t + i) = wire'[w + (i + 1)]
        BY <3>1, <1>2 DEF ByteIn
    <3>3. CASE i < len
      <4>1. i + 1 \in 1..len
        BY <3>3, <1>4
      <4> QED
        BY <4>1, <3>2, <3>3, <1>6 DEF EndsAt
    <3>4. CASE ~(i < len)
      <4>1. len \in Nat
        BY <1>4
      <4>2. w + (i + 1) = w + len + 1
        BY <3>4, <4>1
      <4> QED
        BY <4>2, <3>2, <3>4, <1>6 DEF EndsAt
    <3> QED
        BY <3>3, <3>4
  <2>9. ASSUME NEW n \in g + 1 .. m + 1
        PROVE  /\ next[n + 1] = next[n] + sent'[n].len + 1
               /\ next[n + 1] <= u
               /\ \A i \in 0 .. sent'[n].len :
                    ByteIn(buf', rb', wire', next[n] + i)
                      = EndsAt(sent'[n].len, n, i)
    <3>1. CASE n # m + 1
      <4>1. /\ n \in g + 1 .. m /\ n \in 1..m
            /\ n \in g + 1 .. m + 1 /\ n + 1 \in g + 1 .. m + 1
        BY <3>1
      <4>2. /\ start[n + 1] = start[n] + sent[n].len + 1
            /\ start[n + 1] <= t
        BY <4>1, <1>3, <2>2 DEF Streams
      <4>3. \A i \in 0 .. sent[n].len :
              ByteIn(buf, rb, wire, start[n] + i) = EndsAt(sent[n].len, n, i)
        BY <4>1, <1>3, <2>2 DEF Streams
      <4>4. sent'[n] = sent[n] /\ start[n] \in Nat /\ start[n + 1] \in Nat
        BY <4>1, <2>3, <1>5
      <4>5. next[n] = start[n] /\ next[n + 1] = start[n + 1]
        BY <4>1, <2>6
      <4>6. sent[n].len \in Nat
        BY <4>1, <1>3, LineLength
      <4>7. \A i \in 0 .. sent[n].len : start[n] + i \in 0 .. t - 1
        BY <4>2, <4>4, <4>6
      <4>8. start[n + 1] <= u
        BY <4>2, <4>4, <2>5, <1>4
      <4> QED
        BY <4>2, <4>3, <4>4, <4>5, <4>7, <4>8, <2>7
    <3>2. CASE n = m + 1
      <4>1. n \in g + 1 .. m + 1 /\ n + 1 = m + 2
        BY <3>2, <2>3
      <4>2. next[n] = t /\ next[n + 1] = u
        BY <3>2, <4>1, <2>3, <2>6
      <4>3. sent'[n].len = len /\ len \in Nat
        BY <3>2, <1>4, <1>5
      <4> QED
        BY <4>2, <4>3, <3>2, <2>5, <2>8
    <3> QED
        BY <3>1, <3>2
  <2>10. /\ rb' + Len(wire') = u /\ Len(got') = g
         /\ Len(sent') = m + 1 /\ Len(sent') + 1 = m + 2
    BY <1>2, <1>3, <1>4, <1>5, <1>6, <2>5
  <2>11. g + 1 \in g + 1 .. m + 1 /\ next[g + 1] = 0
    BY <2>3, <2>6
  <2>12. \A k, n \in g + 1 .. m + 2 : k <= n => next[k] <= next[n]
    <3>1. \A k, n \in g + 1 .. m + 1 : k <= n => next[k] <= next[n]
      <4>1. \A k, n \in g + 1 .. m + 1 : k <= n => start[k] <= start[n]
        BY <1>3, <2>2 DEF Streams
      <4> QED
        BY <4>1, <2>6
    <3>2. \A k \in g + 1 .. m + 1 : next[k] <= u
      <4> SUFFICES ASSUME NEW k \in g + 1 .. m + 1 PROVE next[k] <= u
        OBVIOUS
      <4>1. m + 1 \in g + 1 .. m + 1 /\ k <= m + 1
        BY <2>3
      <4>2. next[k] <= next[m + 1] /\ next[m + 1] = t
        BY <4>1, <3>1, <2>3, <2>6
      <4>3. next[k] \in Nat /\ len \in Nat
        BY <2>6, <1>4
      <4> QED
        BY <4>2, <4>3, <2>5
    <3> QED
        BY <3>1, <3>2, <2>6
  <2>13. Streams(next)'
    BY <2>6, <2>9, <2>10, <2>11, <2>12 DEF Streams
  <2> QED
    BY <2>4, <2>13 DEF Stream
<1>8. DOMAIN sent = 1..m /\ DOMAIN sent' = 1 .. m + 1
    BY <1>1, <1>3 DEF Known
<1>9. ASSUME pc' = "parse" PROVE sent' # <<>> /\ (Alike' => Cleared')
  <2>1. sent # <<>> /\ (Alike => Cleared) /\ m >= 1
    BY <1>2, <1>3, <1>9 DEF LinesInv, Known
  <2>2. Alike' => Alike
    BY <1>5, <1>8 DEF Alike
  <2>3. sent'[1] = sent[1]
    BY <2>1, <1>5
  <2>4. Cleared => Cleared'
    BY <2>3, <1>2 DEF Cleared
  <2> QED
    BY <2>1, <2>2, <2>4, <1>5
<1>10. ASSUME conn' = "overrun" PROVE Mixed'
  <2>1. Mixed
    BY <1>2, <1>10 DEF LinesInv
  <2> QED
    BY <2>1, <1>2, <1>5, <1>8 DEF Mixed, LockStep
<1> QED
    BY <1>7, <1>9, <1>10 DEF LinesInv

(* What a step keeps that touches neither the lines nor the buffer.        *)
LEMMA OtherLines ==
    ASSUME LinesInv,
           UNCHANGED <<client, sent, wire, buf, rb, got>>,
           pc' = "parse" => pc = "parse",
           conn' = "overrun" <=> conn = "overrun"
    PROVE  LinesInv'
<1>1. OwnLines' = OwnLines
    BY DEF OwnLines
<1>2. \A start : Streams(start)' = Streams(start)
    BY DEF Streams
<1>3. Alike' = Alike /\ Cleared' = Cleared /\ Mixed' = Mixed
    BY DEF Alike, Cleared, Mixed, LockStep
<1> QED
    BY <1>1, <1>2, <1>3 DEF LinesInv, Stream

LEMMA ReadLines == ASSUME Known, Known', LinesInv, Read PROVE LinesInv'
<1>1. PICK b \in 1..Len(wire) :
        /\ b < Size - rb
        /\ buf' = [i \in 0 .. Size - 1 |->
                     IF i \in rb .. rb + b - 1 THEN wire[i - rb + 1]
                     ELSE IF i = rb + b THEN NUL ELSE buf[i]]
        /\ rb' = rb + b
        /\ wire' = SubSeq(wire, b + 1, Len(wire))
    BY DEF Read
<1>2. UNCHANGED <<client, sent, got, conn>> /\ conn = "open"
    BY DEF Read
<1>3. /\ Size \in Nat \ {0, 1} /\ rb \in 0 .. Size - 1 /\ Len(wire) \in Nat
      /\ wire \in Seq(Seen(Len(sent))) /\ Len(sent) \in Nat
      /\ Len(got) \in Nat
    BY ConnectionAssumption DEF ConnectionAssumption, Known
<1>4. /\ Len(wire') = Len(wire) - b
      /\ \A i \in 1 .. Len(wire) - b : wire'[i] = wire[b + i]
    BY <1>1, <1>3
<1>5. rb' + Len(wire') = rb + Len(wire)
  <2>1. rb' = rb + b /\ b \in Nat
    BY <1>1, <1>3
  <2>2. Len(wire') = Len(wire) - b
    BY <1>4
  <2> QED
    BY <2>1, <2>2, <1>3
<1>6. ASSUME NEW j \in 0 .. rb + Len(wire) - 1
      PROVE  ByteIn(buf', rb', wire', j) = ByteIn(buf, rb, wire, j)
  <2>1. CASE j < rb
    BY <2>1, <1>1, <1>3 DEF ByteIn
  <2>2. CASE j >= rb /\ j < rb + b
    BY <2>2, <1>1, <1>3 DEF ByteIn
  <2>3. CASE j >= rb + b
    <3>1. ByteIn(buf', rb', wire', j) = wire'[j - (rb + b) + 1]
        BY <2>3, <1>1, <1>3 DEF ByteIn
    <3>2. /\ j - (rb + b) + 1 \in 1 .. Len(wire) - b
          /\ b + (j - (rb + b) + 1) = j - rb + 1
        BY <2>3, <1>1, <1>3
    <3>3. ByteIn(buf, rb, wire, j) = wire[j - rb + 1]
        BY <2>3, <1>1, <1>3 DEF ByteIn
    <3> QED
        BY <3>1, <3>2, <3>3, <1>4
  <2> QED
    BY <2>1, <2>2, <2>3, <1>1, <1>3
<1>7. OwnLines /\ \E start : Streams(start)
    BY <1>2 DEF LinesInv, Stream
<1>8. PICK start : Streams(start)
    BY <1>7
<1>9. ASSUME NEW n \in Len(got) + 1 .. Len(sent), NEW i \in 0 .. sent[n].len
      PROVE  ByteIn(buf', rb', wire', start[n] + i) = EndsAt(sent[n].len, n, i)
  <2>1. Len(got) \in Nat /\ Len(sent) \in Nat /\ rb \in Nat /\ Len(wire) \in Nat
    BY <1>3
  <2>2. /\ n \in 1..Len(sent)
        /\ n \in Len(got) + 1 .. Len(sent) + 1
        /\ n + 1 \in Len(got) + 1 .. Len(sent) + 1
    BY <2>1
  <2>3. start[n] + i \in 0 .. rb + Len(wire) - 1
    <3>1. /\ start[n + 1] = start[n] + sent[n].len + 1
          /\ start[n + 1] <= rb + Len(wire)
          /\ start \in [Len(got) + 1 .. Len(sent) + 1 -> Nat]
        BY <1>8 DEF Streams
    <3>2. PICK a \in Nat, b1 \in Nat : a = start[n] /\ b1 = start[n + 1]
        BY <2>2, <3>1
    <3>3. PICK l \in Nat : l = sent[n].len
        BY <2>2, LineLength
    <3>4. PICK t \in Nat : t = rb + Len(wire)
        BY <2>1
    <3>5. b1 = a + l + 1 /\ b1 <= t /\ i \in 0..l
        BY <3>1, <3>2, <3>3, <3>4
    <3>6. a + i \in 0 .. t - 1
        BY <3>5
    <3>7. 0 .. t - 1 = 0 .. rb + Len(wire) - 1
        BY <3>4, <2>1
    <3> QED
        BY <3>2, <3>6, <3>7
  <2>4. ByteIn(buf, rb, wire, start[n] + i) = EndsAt(sent[n].len, n, i)
    BY <1>8 DEF Streams
  <2> QED
    BY <2>3, <2>4, <1>6
<1>10. Streams(start)'
    BY <1>2, <1>5, <1>8, <1>9 DEF Streams
<1>11. Stream'
    BY <1>2, <1>7, <1>10 DEF Stream, OwnLines
<1>12. sent # <<>>
  <2> SUFFICES ASSUME sent = <<>> PROVE FALSE
    OBVIOUS
  <2>1. Len(sent) = 0 /\ Len(got) = 0
    BY <1>3, <1>7 DEF OwnLines
  <2> QED
    BY <2>1, <1>1, <1>3, <1>8 DEF Streams
<1>13. Cleared'
  <2>1. rb' \in 0 .. Size - 1 /\ buf'[rb'] = NUL
    BY <1>1, <1>3
  <2> QED
    BY <2>1 DEF Cleared
<1> QED
    BY <1>2, <1>11, <1>12, <1>13 DEF LinesInv

(* What was read begins with the next line of the client.                  *)
LEMMA NextLine ==
    ASSUME Known, Stream, rb > 0
    PROVE  LET n == Len(got) + 1 IN
           /\ n \in 1..Len(sent)
           /\ \A i \in 0 .. sent[n].len :
                i < rb => buf[i] = EndsAt(sent[n].len, n, i)
<1> DEFINE n == Len(got) + 1
<1>1. PICK start : Streams(start)
    BY DEF Stream
<1>2. /\ rb \in 0 .. Size - 1 /\ Len(wire) \in Nat /\ Len(sent) \in Nat
      /\ Len(got) \in Nat
    BY DEF Known
<1>3. n \in 1..Len(sent)
  <2>1. Len(got) <= Len(sent)
    BY DEF Stream, OwnLines
  <2>2. Len(got) # Len(sent)
    BY <1>1, <1>2 DEF Streams
  <2> QED
    BY <2>1, <2>2, <1>2
<1>4. sent[n].len \in Nat \ {0}
    BY <1>3, LineLength
<1>5. \A i \in 0 .. sent[n].len :
        ByteIn(buf, rb, wire, i) = EndsAt(sent[n].len, n, i)
    BY <1>1, <1>2, <1>3, <1>4 DEF Streams
<1>6. \A i \in 0 .. sent[n].len : i < rb => buf[i] = EndsAt(sent[n].len, n, i)
    BY <1>5 DEF ByteIn
<1> QED
    BY <1>3, <1>6

(* A line that ends among the bytes read is the next one of the client.    *)
LEMMA GenuineLine ==
    ASSUME Known, Stream, NEW e \in 0 .. Size - 1, IsEnd(e), e < rb
    PROVE  LET n == Len(got) + 1 IN
           n \in 1..Len(sent) /\ e = sent[n].len /\ Cmd(e) = Line(n, e)
<1> DEFINE n == Len(got) + 1
<1>1. rb \in 0 .. Size - 1 /\ Len(got) \in Nat
    BY DEF Known
<1>2. /\ n \in 1..Len(sent)
      /\ \A i \in 0 .. sent[n].len : i < rb => buf[i] = EndsAt(sent[n].len, n, i)
    BY <1>1, NextLine
<1>3. sent[n].len \in Nat \ {0}
    BY <1>2, LineLength
<1>4. buf[e] = NL /\ \A i \in 0 .. e - 1 : buf[i] \notin {NL, NUL}
    BY DEF IsEnd
<1>5. e >= sent[n].len
    BY <1>1, <1>2, <1>3, <1>4 DEF EndsAt, NL
<1>6. e <= sent[n].len
    BY <1>1, <1>2, <1>3, <1>4 DEF EndsAt
<1>7. e = sent[n].len
    BY <1>3, <1>5, <1>6
<1>8. \A i \in 0 .. e - 1 : buf[i] = n
    BY <1>1, <1>2, <1>3, <1>7 DEF EndsAt
<1>9. Cmd(e) = Line(n, e)
    BY <1>7, <1>3, <1>8 DEF Cmd, Line
<1> QED
    BY <1>2, <1>7, <1>9

(* A newline behind the bytes read is found only after lines of different  *)
(* lengths of a client that did not wait.                                  *)
LEMMA StaleLine ==
    ASSUME Known, LockStep => Inv, LinesInv, conn = "open", pc = "parse",
           NEW e \in 0 .. Size - 1, IsEnd(e), ~(e < rb)
    PROVE  Mixed /\ ~Alike
<1>1. ~LockStep
    BY LineFound
<1>2. Stream /\ sent # <<>> /\ (Alike => Cleared)
    BY DEF LinesInv
<1>3. rb \in 0 .. Size - 1 /\ Len(got) \in Nat /\ Len(sent) \in Nat
    BY DEF Known
<1>4. buf[e] = NL /\ \A i \in 0 .. e - 1 : buf[i] \notin {NL, NUL}
    BY DEF IsEnd
<1>5. 1 \in 1..Len(sent)
    BY <1>2, <1>3 DEF Known
<1>6. sent[1].len \in Nat \ {0}
    BY <1>5, LineLength
<1>7. ~Alike
  <2> SUFFICES ASSUME Alike PROVE FALSE
    OBVIOUS
  <2>1. CASE rb <= sent[1].len
    <3>1. PICK z \in rb .. Size - 1 :
            buf[z] = NUL /\ \A i \in rb .. z - 1 : buf[i] # NL
        BY <2>1, <1>2 DEF Cleared
    <3> QED
        BY <3>1, <1>3, <1>4 DEF NL, NUL
  <2>2. CASE ~(rb <= sent[1].len)
    <3> DEFINE n == Len(got) + 1
    <3>1. rb > 0
        BY <2>2, <1>3, <1>6
    <3>2. /\ n \in 1..Len(sent)
          /\ \A i \in 0 .. sent[n].len :
               i < rb => buf[i] = EndsAt(sent[n].len, n, i)
        BY <3>1, <1>2, NextLine
    <3> HIDE DEF n
    <3>3. sent[n].len = sent[1].len
        BY <3>2, <1>5 DEF Alike
    <3>4. buf[sent[1].len] = NL
        BY <2>2, <3>2, <3>3, <1>3, <1>6 DEF EndsAt
    <3>5. sent[1].len \in 0 .. e - 1
        BY <2>2, <1>3, <1>6
    <3> QED
        BY <3>4, <3>5, <1>4
  <2> QED
    BY <2>1, <2>2
<1> QED
    BY <1>1, <1>7 DEF Mixed, Alike

LEMMA ParseLineLines ==
    ASSUME Known, LockStep => Inv, LinesInv, ParseLine PROVE LinesInv'
<1>1. PICK e \in 0 .. Size - 1 :
        /\ IsEnd(e) /\ Command(Cmd(e))
        /\ IF e < rb
             THEN /\ buf' = Moved(e) /\ rb' = rb - (e + 1)
                  /\ UNCHANGED conn
             ELSE conn' = "overrun" /\ UNCHANGED <<buf, rb>>
    BY DEF ParseLine
<1>2. /\ UNCHANGED <<client, sent, wire, pc>>
      /\ conn = "open" /\ pc = "parse"
    BY DEF ParseLine
<1>3. Mixed' = Mixed /\ Alike' = Alike
    BY <1>2 DEF Mixed, Alike, LockStep
<1>4. Stream /\ sent # <<>>
    BY <1>2 DEF LinesInv
<1>5. CASE ~(e < rb)
  <2>1. Mixed /\ ~Alike
    BY <1>1, <1>2, <1>5, StaleLine
  <2>2. conn' = "overrun"
    BY <1>1, <1>5
  <2> QED
    BY <2>1, <2>2, <1>2, <1>3, <1>4 DEF LinesInv
<1>6. CASE e < rb
  <2>1. conn' = "open" /\ buf' = Moved(e) /\ rb' = rb - (e + 1)
    BY <1>1, <1>2, <1>6
  <2>2. PICK g \in Nat, m \in Nat, w \in Nat, r \in Nat :
          /\ g = Len(got) /\ m = Len(sent) /\ w = Len(wire) /\ r = rb
          /\ r < Size /\ e < r
    BY <1>6, ConnectionAssumption DEF ConnectionAssumption, Known
  <2>3. g + 1 \in 1..m /\ e = sent[g + 1].len /\ Cmd(e) = Line(g + 1, e)
    BY <1>1, <1>4, <1>6, <2>2, GenuineLine
  <2>4. /\ Len(got') = g + 1 /\ got'[g + 1] = Line(g + 1, e)
        /\ \A k \in 1..g : got'[k] = got[k]
    <3>1. got' = Append(got, Cmd(e))
        BY <1>1 DEF Command
    <3> QED
        BY <3>1, <2>2, <2>3 DEF Known
  <2>5. DOMAIN got = 1..g /\ DOMAIN got' = 1 .. g + 1
    <3>1. got' = Append(got, Cmd(e))
        BY <1>1 DEF Command
    <3> QED
        BY <3>1, <2>2 DEF Known
  <2>6. OwnLines'
    <3>1. \A k \in 1..g : got[k] = Line(k, sent[k].len)
        BY <1>4, <2>5 DEF Stream, OwnLines
    <3>2. ASSUME NEW k \in 1 .. g + 1 PROVE got'[k] = Line(k, sent[k].len)
      <4>1. CASE k = g + 1
        BY <4>1, <2>3, <2>4
      <4>2. CASE k # g + 1
        BY <4>2, <2>4, <3>1
      <4> QED
        BY <4>1, <4>2
    <3>3. g + 1 <= m
        BY <2>3
    <3> QED
        BY <3>2, <3>3, <1>2, <2>2, <2>4, <2>5 DEF OwnLines, Line
  <2>7. ASSUME NEW i \in Nat, i < r - (e + 1)
        PROVE  buf'[i] = buf[i + e + 1]
    <3>1. buf' = [k \in 0 .. Size - 1 |-> IF k < rb - (e + 1)
                                             THEN buf[k + e + 1]
                                           ELSE IF k = e THEN NUL ELSE buf[k]]
        BY <2>1 DEF Moved
    <3>2. i \in 0 .. Size - 1 /\ i < rb - (e + 1)
        BY <2>2, <2>7, ConnectionAssumption DEF ConnectionAssumption
    <3> QED
        BY <3>1, <3>2
  <2>8. PICK start : Streams(start)
    BY <1>4 DEF Stream
  <2>9. /\ start \in [g + 1 .. m + 1 -> Nat]
        /\ start[g + 1] = 0 /\ start[m + 1] = r + w
        /\ \A k, n \in g + 1 .. m + 1 : k <= n => start[k] <= start[n]
        /\ \A n \in g + 1 .. m : start[n + 1] = start[n] + sent[n].len + 1
        /\ \A n \in g + 1 .. m : start[n + 1] <= r + w
    BY <2>2, <2>8 DEF Streams
  <2>10. ASSUME NEW n \in g + 1 .. m, NEW i \in 0 .. sent[n].len
         PROVE  ByteIn(buf, rb, wire, start[n] + i) = EndsAt(sent[n].len, n, i)
    BY <2>2, <2>8 DEF Streams
  <2>11. ASSUME NEW j \in Nat
         PROVE  ByteIn(buf', rb', wire', j) = ByteIn(buf, rb, wire, j + (e + 1))
    <3>1. CASE j < r - (e + 1)
      <4>1. j \in 0 .. r - (e + 1) - 1 /\ j + (e + 1) < r /\ j + e + 1 = j + (e + 1)
        BY <3>1, <2>2
      <4> QED
        BY <3>1, <4>1, <2>1, <2>2, <2>7 DEF ByteIn
    <3>2. CASE ~(j < r - (e + 1))
      <4>1. /\ ~(j + (e + 1) < r)
            /\ j - (r - (e + 1)) + 1 = (j + (e + 1)) - r + 1
        BY <3>2, <2>2
      <4> QED
        BY <3>2, <4>1, <2>1, <2>2, <1>2 DEF ByteIn
    <3> QED
        BY <3>1, <3>2
  <2>12. /\ g + 2 \in g + 1 .. m + 1 /\ g + 1 \in g + 1 .. m
         /\ start[g + 2] = e + 1
    <3>1. g + 2 \in g + 1 .. m + 1 /\ g + 1 \in g + 1 .. m /\ (g + 1) + 1 = g + 2
        BY <2>3
    <3> QED
        BY <3>1, <2>3, <2>9
  <2>13. ASSUME NEW n \in g + 2 .. m + 1
         PROVE  n \in g + 1 .. m + 1 /\ start[n] - (e + 1) \in Nat
    <3>1. n \in g + 1 .. m + 1 /\ g + 2 <= n
        OBVIOUS
    <3>2. start[g + 2] <= start[n] /\ start[n] \in Nat
        BY <3>1, <2>9, <2>12
    <3> QED
        BY <3>1, <3>2, <2>12
  <2>14. PICK next \in [g + 2 .. m + 1 -> Nat] :
           \A n \in g + 2 .. m + 1 : next[n] = start[n] - (e + 1)
    <3> DEFINE f == [n \in g + 2 .. m + 1 |-> start[n] - (e + 1)]
    <3>1. f \in [g + 2 .. m + 1 -> Nat]
        BY <2>13
    <3> QED
        BY <3>1
  <2>15. /\ next[g + 2] = 0
         /\ next[m + 1] = r + w - (e + 1)
         /\ \A k, n \in g + 2 .. m + 1 : k <= n => next[k] <= next[n]
    <3>1. g + 2 \in g + 2 .. m + 1 /\ m + 1 \in g + 2 .. m + 1
        BY <2>3
    <3>2. next[g + 2] = 0 /\ next[m + 1] = r + w - (e + 1)
        BY <3>1, <2>9, <2>12, <2>14
    <3>3. ASSUME NEW k \in g + 2 .. m + 1, NEW n \in g + 2 .. m + 1, k <= n
          PROVE  next[k] <= next[n]
      <4>1. start[k] <= start[n] /\ start[k] \in Nat /\ start[n] \in Nat
        BY <3>3, <2>9, <2>13
      <4> QED
        BY <4>1, <2>14
    <3> QED
        BY <3>2, <3>3
  <2>16. ASSUME NEW n \in g + 2 .. m
         PROVE  /\ next[n + 1] = next[n] + sent[n].len + 1
                /\ next[n + 1] <= r + w - (e + 1)
                /\ \A i \in 0 .. sent[n].len :
                     ByteIn(buf', rb', wire', next[n] + i)
                       = EndsAt(sent[n].len, n, i)
    <3>1. /\ n \in g + 1 .. m /\ n \in 1..m
          /\ n \in g + 2 .. m + 1 /\ n + 1 \in g + 2 .. m + 1
        OBVIOUS
    <3>2. /\ next[n] = start[n] - (e + 1) /\ next[n + 1] = start[n + 1] - (e + 1)
          /\ next[n] \in Nat /\ next[n + 1] \in Nat
        BY <3>1, <2>14
    <3>3. /\ start[n] \in Nat /\ start[n + 1] \in Nat
          /\ start[n + 1] = start[n] + sent[n].len + 1
          /\ start[n + 1] <= r + w
        BY <3>1, <2>9, <2>13
    <3>4. sent[n].len \in Nat
        BY <3>1, <2>2, LineLength
    <3>5. /\ next[n + 1] = next[n] + sent[n].len + 1
          /\ next[n + 1] <= r + w - (e + 1)
      <4>1. PICK a \in Nat, b \in Nat, x \in Nat, y \in Nat, l \in Nat :
              /\ a = start[n] /\ b = start[n + 1] /\ x = next[n]
              /\ y = next[n + 1] /\ l = sent[n].len
        BY <3>2, <3>3, <3>4
      <4>2. /\ x = a - (e + 1) /\ y = b - (e + 1)
            /\ b = a + l + 1 /\ b <= r + w
        BY <4>1, <3>2, <3>3
      <4>3. y = x + l + 1 /\ y <= r + w - (e + 1)
        BY <4>2, <2>2
      <4> QED
        BY <4>1, <4>3
    <3>6. ASSUME NEW i \in 0 .. sent[n].len
          PROVE  ByteIn(buf', rb', wire', next[n] + i) = EndsAt(sent[n].len, n, i)
      <4>1. next[n] + i \in Nat /\ (next[n] + i) + (e + 1) = start[n] + i
        <5>1. PICK a \in Nat, x \in Nat, l \in Nat :
                a = start[n] /\ x = next[n] /\ l = sent[n].len
            BY <3>2, <3>3, <3>4
        <5>2. x = a - (e + 1) /\ i \in 0..l
            BY <5>1, <3>2
        <5>3. x + i \in Nat /\ (x + i) + (e + 1) = a + i
            BY <5>2
        <5> QED
            BY <5>1, <5>3
      <4>2. ByteIn(buf', rb', wire', next[n] + i)
              = ByteIn(buf, rb, wire, start[n] + i)
        BY <4>1, <2>11
      <4> QED
        BY <4>2, <3>1, <2>10
    <3> QED
        BY <3>5, <3>6
  <2>17. rb' + Len(wire') = r + w - (e + 1)
    BY <1>2, <2>1, <2>2
  <2>18. Streams(next)'
    <3>1. Len(got') + 1 = g + 2 /\ Len(sent') = m
        BY <1>2, <2>2, <2>4
    <3> QED
        BY <3>1, <1>2, <2>15, <2>16, <2>17 DEF Streams
  <2>19. Stream'
    BY <2>6, <2>18 DEF Stream
  <2>20. ASSUME Alike PROVE Cleared'
    <3>1. sent[1].len = e
      <4>1. 1 \in DOMAIN sent /\ g + 1 \in DOMAIN sent
        BY <2>2, <2>3 DEF Known
      <4> QED
        BY <4>1, <2>3, <2>20 DEF Alike
    <3> SUFFICES ASSUME rb' <= e
                 PROVE  \E z \in rb' .. Size - 1 :
                          /\ buf'[z] = NUL
                          /\ \A i \in rb' .. z - 1 : buf'[i] # NL
        BY <3>1, <1>2 DEF Cleared
    <3>2. r - (e + 1) <= e /\ rb' = r - (e + 1) /\ rb' >= 0
        BY <2>1, <2>2
    <3>3. buf' = [k \in 0 .. Size - 1 |-> IF k < rb - (e + 1)
                                             THEN buf[k + e + 1]
                                           ELSE IF k = e THEN NUL ELSE buf[k]]
        BY <2>1 DEF Moved
    <3>4. PICK q \in Nat : q = rb'
        BY <3>2, <2>2
    <3>5. q = r - (e + 1) /\ q <= e
        BY <3>2, <3>4
    <3>6. buf'[e] = NUL
        BY <3>2, <3>3, <2>2
    <3>7. ASSUME NEW i \in q .. e - 1 PROVE buf'[i] # NL
      <4>1. i \in 0 .. e - 1 /\ ~(i < r - (e + 1)) /\ i # e /\ e \in Nat
        BY <3>5
      <4>2. i \in 0 .. Size - 1
        BY <4>1, ConnectionAssumption DEF ConnectionAssumption
      <4>3. ~(i < rb - (e + 1))
        BY <4>1, <2>2
      <4>4. buf'[i] = buf[i]
        BY <3>3, <4>1, <4>2, <4>3
      <4> QED
        BY <4>1, <4>4, <1>1 DEF IsEnd
    <3>8. e \in q .. Size - 1
        BY <3>5, <2>2
    <3>9. /\ e \in rb' .. Size - 1
          /\ \A i \in rb' .. e - 1 : buf'[i] # NL
        BY <3>4, <3>7, <3>8, Zenon
    <3> QED
        BY <3>6, <3>9, Zenon
  <2> QED
    BY <2>1, <2>19, <2>20, <1>2, <1>3, <1>4 DEF LinesInv
<1> QED
    BY <1>5, <1>6

LEMMA NextLines ==
    ASSUME client \in Clients, Known, Known', LockStep => Inv, LinesInv,
           [Next]_vars
    PROVE  LinesInv'
<1>1. CASE Send
    BY <1>1, SendLines
<1>2. CASE Read
    BY <1>2, ReadLines
<1>3. CASE ParseLine
    BY <1>3, ParseLineLines
<1>4. CASE Write
  <2>1. conn = "open" /\ conn' # "overrun"
    BY <1>4 DEF Write, AfterWrite
  <2>2. UNCHANGED <<client, sent, wire, buf, rb, pc, got>>
    BY <1>4 DEF Write, readVars
  <2> QED
    BY <2>1, <2>2, OtherLines
<1>5. CASE \/ Leave \/ ReadEnd \/ ParseRefused \/ ParseDone \/ WriteFails
           \/ Ended \/ UNCHANGED vars
  <2>1. UNCHANGED <<client, sent, wire, buf, rb, got>>
    BY <1>5 DEF Leave, ReadEnd, ParseRefused, ParseDone, WriteFails, Ended,
                vars, readVars
  <2>2. pc' = "parse" => pc = "parse"
    BY <1>5 DEF Leave, ReadEnd, ParseRefused, ParseDone, WriteFails, Ended,
                vars, readVars
  <2>3. conn' = "overrun" <=> conn = "overrun"
    BY <1>5 DEF Leave, ReadEnd, ParseRefused, ParseDone, WriteFails, Ended, vars
  <2> QED
    BY <2>1, <2>2, <2>3, OtherLines
<1> QED
    BY <1>1, <1>2, <1>3, <1>4, <1>5 DEF Next

Whole == client \in Clients /\ AnswerInv /\ (LockStep => Inv) /\ LinesInv

LEMMA AlwaysWhole == Spec => []Whole
<1>1. Init => Whole
    BY InitInv, InitAnswers, InitLines DEF Init, Whole
<1>2. Whole /\ [Next]_vars => Whole'
  <2> SUFFICES ASSUME Whole, [Next]_vars PROVE Whole'
    OBVIOUS
  <2>1. client' \in Clients
    BY ClientKept DEF Whole
  <2>2. AnswerInv'
    BY NextAnswers DEF Whole
  <2>3. LockStep' => Inv'
    BY NextInv DEF Whole
  <2>4. LinesInv'
    BY <2>2, NextLines DEF Whole, AnswerInv
  <2> QED
    BY <2>1, <2>2, <2>3, <2>4 DEF Whole
<1> QED
    BY <1>1, <1>2, PTL DEF Spec

(* Command is called with the client's lines, each once and in order, for  *)
(* every kind of client, every size of the buffers, every length of line   *)
(* and every way the socket cuts them (connection.h:42); only a client     *)
(* that does not wait and sends lines of different lengths can come to the *)
(* end of this, in the step that wraps m_ReadBytes (connection.c:139).     *)
THEOREM CommandsAreTheLines == Spec => []CommandsAreLines
<1>1. Whole => CommandsAreLines
    BY DEF Whole, LinesInv, Stream, CommandsAreLines
<1> QED
    BY <1>1, AlwaysWhole, PTL

(* A client that waits for its answers never comes to that step.           *)
THEOREM LockStepLines == Spec => [](LockStep => CommandsAreLines /\ AllOwn)
<1>1. Whole => (LockStep => CommandsAreLines /\ AllOwn)
    BY DEF Whole, Inv, AllOwn, CommandsAreLines
<1> QED
    BY <1>1, AlwaysWhole, PTL

(* Nothing of the answers is lost, repeated or swapped between the commands *)
(* and the client, for every kind of client, sizes of the buffers and      *)
(* length of the lists.                                                    *)
THEOREM AnswersArriveInOrder == Spec => []AnswersInOrder
<1>1. Whole => AnswersInOrder
  <2> SUFFICES ASSUME Whole, conn # "overrun" PROVE AnswersInOrder
    BY DEF AnswersInOrder
  <2>1. AllOwn
    BY DEF Whole, LinesInv, Stream, AllOwn
  <2> QED
    BY <2>1, AnswersAreChained DEF Whole, AnswerInv
<1> QED
    BY <1>1, AlwaysWhole, PTL

-----------------------------------------------------------------------------
(* A client that waits is not closed on, but for its own QUIT.             *)

(* The last unit a client that has its answer was sent ends that answer.   *)
LEMMA NothingLeft ==
    ASSUME Answers, Len(got) \in Nat, Top(Said)[1] = Len(got),
           Answered(Len(got))
    PROVE  out = <<>> /\ ~pending /\ last = Idle
<1>0. ListLen \in Nat \ {0}
    BY ConnectionAssumption DEF ConnectionAssumption
<1> DEFINE n == Len(got)
           S == Tagged(n)
<1>1. PICK i \in DOMAIN recv : recv[i] = <<n, Replies(n), 2>>
    BY DEF Answered
<1>2. /\ out \in Seq(S) /\ recv \in Seq(S) /\ wi \in 0..Len(out)
      /\ Rest \in Seq(S) /\ Len(Rest) = Len(out) - wi
    BY DEF Answers, Rest
<1>3. /\ Said \in Seq(S) /\ Len(Said) = Len(recv) + Len(Rest)
      /\ Said[i] = recv[i] /\ i \in 1..Len(recv)
  <2>0. i \in 1..Len(recv)
    BY SMTT(40), <1>1, <1>2
  <2> HIDE DEF S
  <2>1. /\ Said \in Seq(S) /\ Len(Said) = Len(recv) + Len(Rest)
        /\ \A k \in 1..Len(recv) : Said[k] = recv[k]
    BY ZenonT(60), <1>2, Joined DEF Said
  <2> QED
    BY <2>0, <2>1
<1>4. Top(Said) = Said[Len(Said)] /\ Top(Said) \in S /\ Top(Said)[3] = 2
    BY <1>3 DEF Answers, Chain, Top
<1>5. Replies(n) \in Nat /\ Top(Said)[2] \in Nat /\ Top(Said)[2] <= Replies(n)
  <2>1. Replies(n) \in Nat /\ Top(Said)[2] \in Nat
    BY <1>0, <1>4 DEF Replies, Tagged
  <2> QED
    BY <2>1 DEF Answers, Handler
<1> HIDE DEF S
<1>6. Replies(n) <= Top(Said)[2]
  <2>1. CASE i = Len(Said)
    <3>1. Top(Said)[2] = Replies(n)
        BY <2>1, <1>1, <1>3, <1>4
    <3> QED
        BY <3>1, <1>5
  <2>2. CASE i # Len(Said)
    <3>0. Len(recv) \in Nat /\ Len(Rest) \in Nat
        BY <1>2
    <3>1. i \in 1 .. Len(Said) - 1
        BY <2>2, <3>0, <1>3
    <3>2. Said[i][1] = Top(Said)[1] => Said[i][2] <= Top(Said)[2]
        BY <3>1 DEF Answers, Chain
    <3>3. Said[i][1] = n /\ Said[i][2] = Replies(n)
        BY <1>1, <1>3
    <3> QED
        BY <3>2, <3>3
  <2> QED
    BY <2>1, <2>2
<1>7. Top(Said)[2] = Replies(n)
    BY <1>5, <1>6
<1>8. Top(Said) = <<n, Replies(n), 2>>
    BY <1>4, <1>7 DEF S, Tagged
<1>9. Len(Rest) = 0
  <2> SUFFICES ASSUME Len(Rest) > 0 PROVE FALSE
    BY <1>2
  <2>1. i \in 1 .. Len(Said) - 1
    BY SMTT(40), <1>2, <1>3
  <2>2. Said[i] # Top(Said)
    BY <2>1 DEF Answers, Chain
  <2> QED
    BY <2>2, <1>1, <1>3, <1>8
<1>10. out = <<>>
    BY <1>2, <1>9 DEF Answers
<1>11. ~pending /\ last = Idle
    BY <1>5, <1>7, <1>8 DEF Answers, Handler
<1> QED
    BY <1>10, <1>11

(* What was received stays received.                                       *)
LEMMA AnsweredStays ==
    ASSUME NEW S, recv \in Seq(S), Answered(Len(got)), got' = got,
           Replies(Len(got))' = Replies(Len(got)),
           recv' = recv \/ \E x \in Seq(S) : recv' = recv \o x
    PROVE  Answered(Len(got))'
<1>1. PICK i \in DOMAIN recv : recv[i] = <<Len(got), Replies(Len(got)), 2>>
    BY DEF Answered
<1>2. i \in DOMAIN recv' /\ recv'[i] = recv[i]
  <2>1. CASE recv' = recv
    BY <2>1
  <2>2. CASE \E x \in Seq(S) : recv' = recv \o x
    BY <2>2
  <2> QED
    BY <2>1, <2>2
<1>3. recv'[i] = <<Len(got'), Replies(Len(got))', 2>>
    BY <1>1, <1>2
<1> QED
    BY <1>2, <1>3 DEF Answered

LEMMA InitFlush == Init => FlushInv
<1> SUFFICES ASSUME Init PROVE FlushInv
    OBVIOUS
<1>1. /\ sent = <<>> /\ got = <<>> /\ conn = "open" /\ ~pending
      /\ out = Reply(0, 1, 2) /\ recv = <<>> /\ wi = 0
    BY DEF Init
<1>2. out \in Seq(Tagged(0)) /\ Len(out) = 2 /\ out[2] = <<0, 1, 2>>
  <2>1. Reply(0, 1, 2) \in Seq(Tagged(0))
    BY ReplyTagged
  <2> QED
    BY <2>1, <1>1 DEF Reply
<1>3. Said = out
  <2>1. Rest = out
    BY <1>1, <1>2 DEF Rest
  <2> QED
    BY <2>1, <1>1, <1>2 DEF Said
<1>4. Top(Said)[1] = Len(got)
    BY <1>1, <1>2, <1>3 DEF Top
<1> QED
    BY <1>1, <1>2, <1>4 DEF FlushInv

(* A step that answers nothing, and closes the connection only of a client *)
(* that is gone.                                                           *)
LEMMA FlushKept ==
    ASSUME FlushInv,
           UNCHANGED <<client, sent, got, out, wi, recv, pending, deferClose>>,
           gone => gone', conn' = conn \/ (gone' /\ conn' # "open")
    PROVE  FlushInv'
<1>1. Top(Said)' = Top(Said)
    BY DEF Top, Said, Rest
<1>2. Answered(Len(got))' <=> Answered(Len(got))
    BY DEF Answered, Replies
<1>3. LockStep' = LockStep
    BY DEF LockStep
<1> QED
    BY <1>1, <1>2, <1>3 DEF FlushInv

Waits == client \in Clients /\ LockStep /\ Inv /\ AnswerInv /\ FlushInv

LEMMA WaitsAnswers == Waits => Answers /\ Known /\ Len(got) \in Nat
BY DEF Waits, Inv, AnswerInv, Known

LEMMA SendFlush == ASSUME Waits, Send PROVE FlushInv'
<1>1. PICK len \in client.lens, kind \in client.kinds :
        sent' = Append(sent, [len |-> len, kind |-> kind])
    BY DEF Send
<1>2. /\ UNCHANGED <<client, got, out, wi, recv, pending, deferClose, conn, gone>>
    BY DEF Send, writeVars
<1>3. sent # <<>> => Answered(Len(sent))
    BY DEF Send, Waits
<1>4. Len(sent) = Len(got) /\ Len(got) \in Nat
    BY <1>3, AnsweredMeansGot, WaitsAnswers DEF Waits
<1>5. /\ Len(sent') = Len(sent) + 1
      /\ sent'[Len(sent) + 1] = [len |-> len, kind |-> kind]
      /\ \A k \in 1..Len(sent) : sent'[k] = sent[k]
      /\ DOMAIN sent = 1..Len(sent) /\ DOMAIN sent' = 1 .. Len(sent) + 1
    BY <1>1, WaitsAnswers DEF Known, Waits
<1>6. Answered(Len(got))
  <2>1. CASE sent = <<>>
    <3>1. Welcomed /\ Len(got) = 0
        BY <2>1, <1>4 DEF Send, Waits
    <3> QED
        BY <3>1 DEF Welcomed, Answered, Replies
  <2>2. CASE sent # <<>>
    BY <2>2, <1>3, <1>4
  <2> QED
    BY <2>1, <2>2
<1>7. Replies(Len(got))' = Replies(Len(got))
    BY <1>2, <1>4, <1>5 DEF Replies
<1>8. Answered(Len(got))'
    BY <1>2, <1>6, <1>7 DEF Answered
<1>9. Top(Said)' = Top(Said)
    BY <1>2 DEF Top, Said, Rest
<1>10. \A k \in DOMAIN sent' :
         sent'[k].len \in client.lens /\ sent'[k].kind \in client.kinds
  <2> SUFFICES ASSUME NEW k \in DOMAIN sent'
               PROVE  sent'[k].len \in client.lens /\ sent'[k].kind \in client.kinds
    OBVIOUS
  <2>1. CASE k = Len(sent) + 1
    BY SMTT(40), <2>1, <1>5
  <2>2. CASE k # Len(sent) + 1
    <3>1. k \in 1..Len(sent) /\ k \in DOMAIN sent
        BY <2>2, <1>4, <1>5
    <3> QED
        BY <3>1, <1>5 DEF Waits, FlushInv
  <2> QED
    BY <2>1, <2>2
<1> QED
    BY <1>2, <1>8, <1>9, <1>10 DEF FlushInv, Waits, LockStep

(* No line of such a client is refused or overflows the read buffer.       *)
LEMMA NeverRefused == ASSUME Waits, ParseRefused PROVE FALSE
<1>1. PICK e \in 0 .. Size - 1 : IsEnd(e) /\ Refused(Cmd(e))
    BY DEF ParseRefused
<1>2. Len(sent) = Len(got) + 1
    BY <1>1, LineFound DEF ParseRefused, Waits
<1>3. out = <<>> /\ last = Idle
    BY <1>2, NothingLeft, WaitsAnswers DEF Waits, FlushInv
<1>4. Fits(out, 2)
    BY <1>3, BuffersSuffice DEF BuffersSuffice, Fits
<1> QED
    BY <1>1, <1>3, <1>4 DEF Refused

LEMMA NeverOverflows == ASSUME Waits, ParseDone PROVE ~Overflow
<1> SUFFICES ASSUME rb = Size - 1 PROVE FALSE
    BY DEF Overflow
<1>0. Size \in Nat \ {0, 1}
    BY ConnectionAssumption DEF ConnectionAssumption
<1>1. /\ Len(sent) = Len(got) + 1
      /\ rb + Len(wire) = sent[Len(sent)].len + 1
      /\ \A i \in 0 .. rb - 1 : buf[i] = ByteAt(Len(sent), i)
    BY <1>0 DEF Waits, Inv, OneLine
<1> DEFINE n == Len(sent)
           e == sent[n].len
<1>2. n \in Nat /\ n > 0 /\ n \in DOMAIN sent /\ Len(wire) \in Nat
    BY <1>1, WaitsAnswers DEF Known
<1>3. e \in client.lens /\ e \in Nat \ {0} /\ e + 1 < Size
  <2>1. e \in client.lens
    BY <1>2 DEF Waits, FlushInv
  <2> QED
    BY <2>1, BuffersSuffice, ConnectionAssumption
    DEF BuffersSuffice, ConnectionAssumption, Waits, LockStep
<1>4. rb = e + 1
    BY <1>0, <1>1, <1>2, <1>3
<1>5. e \in 0 .. Size - 1 /\ e \in 0 .. rb - 1
    BY <1>0, <1>3, <1>4
<1>6. buf[e] = NL
    BY <1>1, <1>5 DEF ByteAt
<1>7. \A i \in 0 .. e - 1 : buf[i] = n
    BY SMTT(40), <1>1, <1>3, <1>4 DEF ByteAt
<1>8. IsEnd(e)
    BY <1>2, <1>6, <1>7 DEF IsEnd, NL, NUL
<1> QED
    BY <1>5, <1>8 DEF ParseDone, HasLine

LEMMA ParseLineFlush == ASSUME Waits, ParseLine PROVE FlushInv'
<1>1. PICK e \in 0 .. Size - 1 :
        /\ IsEnd(e) /\ ~Refused(Cmd(e)) /\ Command(Cmd(e))
        /\ e < rb => UNCHANGED conn
    BY DEF ParseLine
<1>2. UNCHANGED <<client, sent, recv, gone>> /\ conn = "open"
    BY DEF ParseLine
<1> DEFINE n == Len(got) + 1
<1>3. /\ Len(sent) = n /\ e = sent[n].len /\ e < rb
      /\ Cmd(e) = Line(n, sent[n].len)
  <2>1. /\ Len(sent) = Len(got) + 1 /\ e = sent[Len(sent)].len /\ rb = e + 1
        /\ Cmd(e) = Line(Len(sent), e)
    BY <1>1, LineFound DEF ParseLine, Waits
  <2> QED
    BY <2>1
<1>4. Answers /\ Known /\ Len(got) \in Nat
    BY WaitsAnswers
<1>5. n \in 1..Len(sent) /\ n \in DOMAIN sent
    BY <1>3, <1>4 DEF Known
<1>6. out = <<>> /\ ~deferClose
  <2>1. out = <<>>
    BY <1>3, <1>4, NothingLeft DEF Waits, FlushInv
  <2> QED
    BY <2>1, <1>2 DEF Waits, FlushInv
<1>7. LineOf(Cmd(e)) = n /\ KindOf(Cmd(e)) = sent[n].kind
    BY <1>3, <1>4, <1>5, FoundIs
<1>8. KindOf(Cmd(e)) # "header"
  <2>1. sent[n].kind \in client.kinds
    BY <1>5 DEF Waits, FlushInv
  <2> QED
    BY <2>1, <1>7, ConnectionAssumption
    DEF ConnectionAssumption, Waits, LockStep
<1>9. Top(Said)'[1] = n
    BY <1>1, <1>2, <1>3, <1>4, <1>7, <1>8, CommandPosts
<1>10. Len(got') = n
    BY <1>1, <1>4 DEF Command, Known
<1>11. deferClose' => ~pending' /\ out' # <<>>
  <2> SUFFICES ASSUME deferClose' PROVE ~pending' /\ out' # <<>>
    OBVIOUS
  <2>1. Respond(out, LineOf(Cmd(e)), 1, 2, TRUE)
    BY <1>1, <1>6 DEF Command, writeVars
  <2>2. out' = Reply(n, 1, 2)
    <3>1. out' = <<>> \o Reply(n, 1, 2)
        BY <2>1, <1>6, <1>7 DEF Respond
    <3>2. Reply(n, 1, 2) \in Seq(Nat \X Nat \X Nat)
        BY <1>4 DEF Reply
    <3> QED
        BY <3>1, <3>2
  <2>3. Len(Reply(n, 1, 2)) = 2
    BY DEF Reply
  <2>4. ~pending'
    BY <2>1 DEF Respond
  <2>5. out' # <<>>
    BY <2>2, <2>3
  <2> QED
    BY <2>4, <2>5
<1>12. conn' = "open"
    BY <1>1, <1>2, <1>3
<1>13. /\ Len(sent') # Len(got') + 1
    BY <1>2, <1>3, <1>4, <1>10
<1>14. \A k \in DOMAIN sent' :
         sent'[k].len \in client'.lens /\ sent'[k].kind \in client'.kinds
    BY <1>2 DEF Waits, FlushInv
<1> QED
    BY <1>9, <1>10, <1>11, <1>12, <1>13, <1>14 DEF FlushInv

LEMMA WriteFlush == ASSUME Waits, Write PROVE FlushInv'
<1>1. PICK b \in 0 .. Len(out) - wi :
        /\ b = 0 => out = <<>>
        /\ recv' = recv \o SubSeq(out, wi + 1, wi + b)
        /\ IF AllOut(b)
             THEN wi' = 0 /\ NextCycle
             ELSE wi' = wi + b /\ UNCHANGED <<out, pending, cmdVars>>
        /\ conn' = IF AllOut(b) THEN AfterWrite ELSE conn
    BY DEF Write
<1>2. UNCHANGED <<client, sent, got, deferClose, gone>> /\ conn = "open"
    BY DEF Write
<1>3. Answers /\ Known /\ Len(got) \in Nat
    BY WaitsAnswers
<1>4. /\ Answers' /\ Top(Said)'[1] = Top(Said)[1]
      /\ AllOut(b) /\ ~pending => recv' = Said /\ ~pending'
      /\ AllOut(b) /\ pending => last \in 0..Len(got) /\ out' # <<>>
      /\ ~AllOut(b) => out' # <<>>
    BY <1>1, <1>2, <1>3, WriteMoves
<1>5. Answered(Len(got)) => Answered(Len(got))'
  <2>1. out \in Seq(Tagged(Len(got))) /\ recv \in Seq(Tagged(Len(got)))
    BY <1>3 DEF Answers
  <2>2. wi \in 0..Len(out)
    BY <1>3 DEF Answers
  <2>3. SubSeq(out, wi + 1, wi + b) \in Seq(Tagged(Len(got)))
    BY <2>1, <2>2
  <2>4. Replies(Len(got))' = Replies(Len(got))
    BY <1>2 DEF Replies
  <2> QED
    BY <2>1, <2>3, <2>4, <1>1, <1>2, AnsweredStays
<1>6. ASSUME AllOut(b), ~pending PROVE Answered(Len(got))'
  <2>1. /\ Said \in Seq(Tagged(Len(got))) /\ Len(Said) > 0
    <3>1. Rest \in Seq(Tagged(Len(got))) /\ recv \in Seq(Tagged(Len(got)))
        BY <1>3 DEF Answers, Rest
    <3>2. Said \in Seq(Tagged(Len(got)))
        BY <3>1 DEF Said
    <3> QED
        BY <3>2, <1>3 DEF Answers, Chain
  <2>2. Top(Said) = Said[Len(Said)] /\ Top(Said) \in Tagged(Len(got))
    BY <2>1 DEF Top
  <2>3. /\ Top(Said)[1] = Len(got) /\ Top(Said)[3] = 2
        /\ Top(Said)[2] = Replies(Len(got))
    <3>1. Top(Said)[1] = Len(got) /\ Top(Said)[3] = 2
        BY <1>3 DEF Answers, Chain, Waits, FlushInv
    <3> QED
        BY <3>1, <1>3, <1>6 DEF Answers, Handler
  <2>4. Top(Said) = <<Len(got), Replies(Len(got)), 2>>
    BY SMTT(40), <2>2, <2>3 DEF Tagged
  <2>5. recv' = Said /\ Len(Said) \in DOMAIN Said
    BY <2>1, <1>4, <1>6
  <2>6. recv'[Len(Said)] = <<Len(got), Replies(Len(got)), 2>>
    BY <2>2, <2>4, <2>5
  <2> QED
    BY <2>5, <2>6, <1>2 DEF Answered, Replies
<1>7. AllOut(b) => conn' = IF deferClose THEN "closed" ELSE "open"
    BY <1>1, <1>3, <1>4 DEF AfterWrite, Idle
<1>8. ~AllOut(b) => conn' = "open" /\ pending' = pending
    BY <1>1, <1>2
<1>9. deferClose => ~pending
    BY <1>2 DEF Waits, FlushInv
<1>10. Top(Said)'[1] = Len(got)'
    BY <1>2, <1>4 DEF Waits, FlushInv
<1>11. /\ conn' = "open" /\ deferClose' => ~pending' /\ out' # <<>>
       /\ conn' = "open" \/ (conn' = "closed" /\ deferClose'
                              /\ Answered(Len(got))')
    BY <1>2, <1>4, <1>6, <1>7, <1>8, <1>9
<1>12. /\ \A k \in DOMAIN sent' :
           sent'[k].len \in client'.lens /\ sent'[k].kind \in client'.kinds
       /\ Len(sent') = Len(got') + 1 => Answered(Len(got))'
    BY <1>2, <1>5 DEF Waits, FlushInv
<1> QED
    BY <1>10, <1>11, <1>12 DEF FlushInv

(* A client that waits for each answer is closed only for its QUIT or its  *)
(* rejection, and then has the last reply, for all sizes of the buffers a  *)
(* reply and its lines fit in (connection.h:100).                          *)
THEOREM ClosesWhenFlushed == Spec => []DeferredCloseFlushes
<1> DEFINE I == /\ client \in Clients /\ AnswerInv
                /\ LockStep => Inv /\ FlushInv
<1>1. Init => I
    BY InitInv, InitAnswers, InitFlush DEF Init
<1>2. I /\ [Next]_vars => I'
  <2> SUFFICES ASSUME I, [Next]_vars PROVE I'
    OBVIOUS
  <2>0. client' = client
    BY ClientKept
  <2>1. AnswerInv'
    <3>1. CASE Send
        BY <3>1, SendAnswers
    <3>2. CASE Read
        BY <3>2, ReadAnswers
    <3>3. CASE ParseLine
        BY <3>3, ParseLineAnswers
    <3>4. CASE Write
        BY <3>4, WriteAnswers
    <3>5. CASE \/ Leave \/ ReadEnd \/ ParseRefused \/ ParseDone \/ WriteFails
               \/ Ended \/ UNCHANGED vars
        BY <3>5, OtherAnswers
    <3> QED
        BY <3>1, <3>2, <3>3, <3>4, <3>5 DEF Next
  <2>2. ASSUME LockStep' PROVE Inv' /\ FlushInv'
    <3>0. Waits
        BY <2>0, <2>2 DEF Waits, LockStep
    <3>1. client \in Clients /\ LockStep /\ Inv /\ FlushInv
        BY <3>0 DEF Waits
    <3>2. CASE Send
        BY <3>0, <3>1, <3>2, SendInv, SendFlush
    <3>3. CASE Read
      <4>1. FlushInv'
        BY <3>1, <3>3, FlushKept DEF Read, writeVars
      <4> QED
        BY <4>1, <3>1, <3>3, ReadInv
    <3>4. CASE ParseLine
        BY <3>0, <3>1, <3>4, ParseLineInv, ParseLineFlush
    <3>5. CASE Write
        BY <3>0, <3>1, <3>5, WriteInv, WriteFlush
    <3>6. CASE ParseRefused
        BY <3>0, <3>6, NeverRefused
    <3>7. CASE ParseDone
      <4>1. FlushInv'
        BY <3>0, <3>1, <3>7, NeverOverflows, FlushKept DEF ParseDone, writeVars
      <4> QED
        BY <4>1, <3>1, <3>7, OtherInv
    <3>8. CASE Leave \/ ReadEnd \/ WriteFails \/ Ended \/ UNCHANGED vars
      <4>1. /\ UNCHANGED <<client, sent, got, out, wi, recv, pending, deferClose>>
            /\ gone => gone'
        BY <3>8 DEF Leave, ReadEnd, WriteFails, Ended, vars, readVars, writeVars
      <4>2. conn' = conn \/ (gone' /\ conn' # "open")
        BY <3>8 DEF Leave, ReadEnd, WriteFails, Ended, vars
      <4>3. FlushInv'
        BY <4>1, <4>2, <3>1, FlushKept
      <4> QED
        BY <4>3, <3>1, <3>8, OtherInv
    <3> QED
        BY <3>2, <3>3, <3>4, <3>5, <3>6, <3>7, <3>8 DEF Next
  <2> QED
    BY <2>0, <2>1, <2>2
<1>3. I => DeferredCloseFlushes
    BY DEF DeferredCloseFlushes, FlushInv
<1> HIDE DEF I
<1> QED
    BY <1>1, <1>2, <1>3, PTL DEF Spec
=============================================================================
