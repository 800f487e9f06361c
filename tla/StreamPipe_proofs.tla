-------------------------- MODULE StreamPipe_proofs -------------------------
(***************************************************************************)
(* The safety of the data path, for buffers, packets and bounds of any     *)
(* size.                                                                   *)
(***************************************************************************)
EXTENDS StreamPipe, WellFoundedInduction, TLAPS

-----------------------------------------------------------------------------
(* Arithmetic of the capacities.                                           *)

LEMMA Capacities ==
    /\ Pkt \in Nat /\ Pkt > 0
    /\ Margin \in Nat /\ Margin > Pkt
    /\ RecvCap \in Nat /\ RemuxCap \in Nat /\ SiCap \in Nat
BY PipeAssumption DEF PipeAssumption, Margin, RecvCap, RemuxCap, SiCap

(* Rounding down to whole packets yields something between 0 and n.        *)
LEMMA RoundDown ==
    ASSUME NEW n \in Nat
    PROVE  n - (n % Pkt) \in 0..n
<1>1. Pkt \in Nat /\ Pkt > 0
    BY Capacities
<1>2. n % Pkt \in 0..(Pkt - 1)
    BY <1>1
<1>3. n = Pkt * (n \div Pkt) + (n % Pkt)
    BY <1>1
<1>4. n \div Pkt \in Nat
    BY <1>1
<1>5. Pkt * (n \div Pkt) \in Nat
    BY <1>1, <1>4
<1>6. n % Pkt \in Nat /\ n % Pkt <= n
    BY <1>1, <1>2, <1>3, <1>5
<1> QED
    BY <1>6

(* PutTS never stores more than there is room for, nor than it is given.   *)
LEMMA PutTSFits ==
    ASSUME NEW s \in Seq(Int), NEW cap \in Nat, Len(s) <= cap, NEW n \in Nat
    PROVE  PutTS(s, cap, n) \in 0..(cap - Len(s))
<1> DEFINE fit == Least(cap - Len(s), n)
<1>1. Len(s) \in Nat
    OBVIOUS
<1>2. fit \in 0..(cap - Len(s))
    BY <1>1 DEF Least
<1>3. fit \in Nat
    BY <1>1, <1>2
<1>4. fit - (fit % Pkt) \in 0..fit
    BY <1>3, RoundDown
<1>5. PutTS(s, cap, n) = fit - (fit % Pkt)
    BY DEF PutTS
<1> HIDE DEF fit
<1> QED
    BY <1>1, <1>2, <1>4, <1>5

-----------------------------------------------------------------------------
(* Sequences of units.                                                     *)

LEMMA Cat ==
    ASSUME NEW s \in Seq(Int), NEW t \in Seq(Int)
    PROVE  /\ s \o t \in Seq(Int)
           /\ Len(s \o t) = Len(s) + Len(t)
           /\ Len(s) \in Nat /\ Len(t) \in Nat
           /\ \A i \in 1..Len(s) : (s \o t)[i] = s[i] /\ s[i] \in Int
           /\ \A i \in 1..Len(t) : (s \o t)[Len(s) + i] = t[i] /\ t[i] \in Int
OBVIOUS

LEMMA Sub ==
    ASSUME NEW s \in Seq(Int), NEW a \in Nat, NEW z \in Nat, a <= z, z <= Len(s)
    PROVE  /\ SubSeq(s, a + 1, z) \in Seq(Int)
           /\ Len(SubSeq(s, a + 1, z)) = z - a
           /\ \A i \in 1..(z - a) : SubSeq(s, a + 1, z)[i] = s[a + i]
BY SMTT(40)

LEMMA SameElements ==
    ASSUME NEW s \in Seq(Int), NEW t \in Seq(Int), Len(s) = Len(t),
           \A i \in 1..Len(s) : s[i] = t[i]
    PROVE  s = t
BY SMTT(40)

LEMMA CatAssociative ==
    ASSUME NEW s \in Seq(Int), NEW t \in Seq(Int), NEW u \in Seq(Int)
    PROVE  (s \o t) \o u = s \o (t \o u)
BY SMTT(40)

(* A sequence is a concatenation when its two parts are.                   *)
LEMMA CatUnique ==
    ASSUME NEW s \in Seq(Int), NEW t \in Seq(Int), NEW u \in Seq(Int),
           Len(u) = Len(s) + Len(t),
           \A i \in 1..Len(s) : u[i] = s[i],
           \A i \in 1..Len(t) : u[Len(s) + i] = t[i]
    PROVE  u = s \o t
<1> DEFINE c == s \o t
<1>1. c \in Seq(Int) /\ Len(c) = Len(u) /\ Len(s) \in Nat /\ Len(t) \in Nat
    OBVIOUS
<1>2. ASSUME NEW i \in 1..Len(u)
      PROVE  u[i] = c[i]
  <2>1. CASE i <= Len(s)
    BY SMTT(40), <1>1, <2>1
  <2>2. CASE i > Len(s)
    <3>1. i - Len(s) \in 1..Len(t) /\ i = Len(s) + (i - Len(s))
        BY <1>1, <2>2
    <3>2. u[i] = t[i - Len(s)]
        BY <3>1
    <3>3. c[i] = t[i - Len(s)]
        BY <1>1, <2>2
    <3> QED
        BY <3>2, <3>3
  <2> QED
    BY SMTT(40), <1>1, <2>1, <2>2
<1> HIDE DEF c
<1>3. \A i \in 1..Len(u) : u[i] = c[i]
    BY <1>2
<1>4. u = c
    BY <1>1, <1>3, SameElements, Zenon
<1> QED
    BY <1>4 DEF c

LEMMA DropProperties ==
    ASSUME NEW s \in Seq(Int), NEW n \in Nat, n <= Len(s)
    PROVE  /\ Drop(s, n) \in Seq(Int)
           /\ Len(Drop(s, n)) = Len(s) - n
           /\ \A i \in 1..(Len(s) - n) : Drop(s, n)[i] = s[n + i]
BY SMTT(40), Sub DEF Drop

LEMMA DropNothing ==
    ASSUME NEW s \in Seq(Int)
    PROVE  Drop(s, 0) = s
<1>1. SubSeq(s, 1, Len(s)) = s
    OBVIOUS
<1> QED
    BY <1>1 DEF Drop

(* What is put into the remux buffer goes to the end of the flow.          *)
LEMMA PutExtendsFlow ==
    ASSUME NEW s \in Seq(Int), NEW b \in Seq(Int), NEW x \in Seq(Int),
           NEW n \in Nat, n <= Len(b)
    PROVE  s \o Drop(b \o x, n) = (s \o Drop(b, n)) \o x
<1> DEFINE c == b \o x
           d == Drop(b, n)
           e == Drop(c, n)
<1>1. /\ c \in Seq(Int) /\ Len(c) = Len(b) + Len(x)
      /\ Len(b) \in Nat /\ Len(x) \in Nat
      /\ \A i \in 1..Len(b) : c[i] = b[i]
      /\ \A i \in 1..Len(x) : c[Len(b) + i] = x[i]
    BY Cat
<1>2. d \in Seq(Int) /\ Len(d) = Len(b) - n
      /\ \A i \in 1..(Len(b) - n) : d[i] = b[n + i]
    BY DropProperties
<1> HIDE DEF c, d
<1>3. n <= Len(c)
    BY <1>1
<1>4. e \in Seq(Int) /\ Len(e) = Len(c) - n
      /\ \A i \in 1..(Len(c) - n) : e[i] = c[n + i]
    BY <1>1, <1>3, DropProperties, Zenon
<1> HIDE DEF e
<1>5. Len(e) = Len(d) + Len(x)
    BY <1>1, <1>2, <1>4
<1>6. \A i \in 1..Len(d) : e[i] = d[i]
    BY SMTT(40), <1>1, <1>2, <1>4
<1>lens. /\ Len(c) = Len(b) + Len(x) /\ Len(d) = Len(b) - n
         /\ Len(b) \in Nat /\ Len(x) \in Nat
    BY <1>1, <1>2
<1>7. ASSUME NEW i \in 1..Len(x)
      PROVE  e[Len(d) + i] = x[i]
  <2> DEFINE j == Len(d) + i
  <2>1. j \in 1..(Len(c) - n) /\ n + j = Len(b) + i
    BY <1>lens
  <2> HIDE DEF j
  <2>2. e[j] = c[n + j]
    BY <1>4, <2>1
  <2>3. e[j] = x[i]
    BY <1>1, <2>1, <2>2
  <2> QED
    BY <2>3 DEF j
<1>8. e = d \o x
    BY <1>2, <1>4, <1>5, <1>6, <1>7, CatUnique, ZenonT(40)
<1>9. (s \o d) \o x = s \o (d \o x)
    BY ZenonT(40), <1>2, CatAssociative
<1> QED
    BY <1>8, <1>9 DEF e, d, c

(* Writing moves the front of the block behind what was sent: the flow is  *)
(* the same sequence.                                                      *)
LEMMA WriteKeepsFlow ==
    ASSUME NEW s \in Seq(Int), NEW b \in Seq(Int), NEW off \in Nat,
           NEW n \in Nat, off + n <= Len(b)
    PROVE  /\ SubSeq(b, off + 1, off + n) \in Seq(Int)
           /\ (s \o SubSeq(b, off + 1, off + n)) \o Drop(b, off + n)
                = s \o Drop(b, off)
<1> DEFINE l == SubSeq(b, off + 1, off + n)
           r == Drop(b, off + n)
           w == Drop(b, off)
<1>0. Len(b) \in Nat /\ off + n \in Nat /\ off <= Len(b)
    OBVIOUS
<1>1. l \in Seq(Int) /\ Len(l) = n /\ \A i \in 1..n : l[i] = b[off + i]
    BY <1>0, Sub
<1>2. /\ r \in Seq(Int) /\ Len(r) = Len(b) - (off + n)
      /\ \A i \in 1..(Len(b) - (off + n)) : r[i] = b[(off + n) + i]
    BY <1>0, DropProperties, Zenon
<1>3. /\ w \in Seq(Int) /\ Len(w) = Len(b) - off
      /\ \A i \in 1..(Len(b) - off) : w[i] = b[off + i]
    BY <1>0, DropProperties, Zenon
<1> HIDE DEF l, r, w
<1>4. Len(w) = Len(l) + Len(r)
    BY SMTT(40), <1>0, <1>1, <1>2, <1>3
<1>lens. n \in 0..(Len(b) - off) /\ Len(l) = n
    BY <1>0, <1>1
<1>5. ASSUME NEW i \in 1..Len(l)
      PROVE  w[i] = l[i]
  <2>1. i \in 1..n /\ i \in 1..(Len(b) - off)
    BY <1>0, <1>lens
  <2> QED
    BY <1>1, <1>3, <2>1
<1>6. ASSUME NEW i \in 1..Len(r)
      PROVE  w[Len(l) + i] = r[i]
  <2> DEFINE j == n + i
  <2>1. j \in 1..(Len(b) - off) /\ off + j = (off + n) + i
    BY <1>0, <1>2
  <2> HIDE DEF j
  <2>2. w[j] = b[off + j] /\ r[i] = b[(off + n) + i]
    BY <1>2, <1>3, <2>1
  <2>3. w[j] = r[i]
    BY <2>1, <2>2
  <2> QED
    BY <1>1, <2>3 DEF j
<1>7. w = l \o r
    BY <1>1, <1>2, <1>3, <1>4, <1>5, <1>6, CatUnique, ZenonT(40)
<1>8. (s \o l) \o r = s \o (l \o r)
    BY ZenonT(40), <1>1, <1>2, CatAssociative
<1> QED
    BY <1>1, <1>7, <1>8 DEF l, r, w

-----------------------------------------------------------------------------
(* Numbers in order: what DeviceInOrder and PatInOrder say of the flow,    *)
(* for any f of length n and m units.                                      *)

DevPart(f, n, m) ==
    /\ \A i \in 1..n : f[i] <= m
    /\ \A k \in 1..m : \E i \in 1..n : f[i] = k
    /\ \A i, j \in 1..n : i < j /\ f[i] > 0 /\ f[j] > 0 => f[i] < f[j]

PatPart(f, n, m) ==
    /\ \A i \in 1..n : -f[i] <= m
    /\ \A k \in 1..m : \E i \in 1..n : f[i] = -k
    /\ \A i, j \in 1..n : i < j /\ f[i] < 0 /\ f[j] < 0 => f[i] > f[j]

(* The next device units extend the first part and keep the second.        *)
LEMMA AppendDevice ==
    ASSUME NEW f, NEW g, NEW n \in Nat, NEW l \in Nat, NEW m \in Nat,
           NEW p \in Nat,
           \A i \in 1..n : f[i] \in Int /\ g[i] = f[i],
           \A i \in 1..l : g[n + i] = m + i,
           DevPart(f, n, m), PatPart(f, n, p)
    PROVE  DevPart(g, n + l, m + l) /\ PatPart(g, n + l, p)
<1>1. ASSUME NEW i \in 1..(n + l), i > n
      PROVE  g[i] = m + (i - n)
  <2>1. i - n \in 1..l /\ i = n + (i - n)
    BY <1>1
  <2> QED
    BY <2>1
<1>2. \A i \in 1..(n + l) : g[i] <= m + l /\ -g[i] <= p
    BY <1>1 DEF DevPart, PatPart
<1>3. ASSUME NEW k \in 1..(m + l)
      PROVE  \E i \in 1..(n + l) : g[i] = k
  <2>1. CASE k <= m
    <3>1. PICK i \in 1..n : f[i] = k
        BY <2>1 DEF DevPart
    <3> QED
        BY <3>1
  <2>2. CASE k > m
    <3>1. PICK i \in 1..l : k = m + i
        BY <2>2
    <3>2. g[n + i] = k /\ n + i \in 1..(n + l)
        BY <3>1
    <3> QED
        BY <3>2
  <2> QED
    BY <2>1, <2>2
<1>4. ASSUME NEW i \in 1..(n + l), NEW j \in 1..(n + l), i < j,
             g[i] > 0, g[j] > 0
      PROVE  g[i] < g[j]
  <2>1. CASE j <= n
    BY <1>4, <2>1 DEF DevPart
  <2>2. CASE i <= n /\ j > n
    <3>1. g[i] <= m /\ g[i] \in Int
        BY <2>2 DEF DevPart
    <3>2. g[j] = m + (j - n)
        BY <1>1, <2>2
    <3> QED
        BY <2>2, <3>1, <3>2
  <2>3. CASE i > n
    <3>1. g[i] = m + (i - n) /\ g[j] = m + (j - n)
        BY <1>1, <1>4, <2>3
    <3> QED
        BY <1>4, <3>1
  <2> QED
    BY <2>1, <2>2, <2>3
<1>5. ASSUME NEW k \in 1..p
      PROVE  \E i \in 1..(n + l) : g[i] = -k
  <2>1. PICK i \in 1..n : f[i] = -k
    BY DEF PatPart
  <2> QED
    BY <2>1
<1>6. ASSUME NEW i \in 1..(n + l), NEW j \in 1..(n + l), i < j,
             g[i] < 0, g[j] < 0
      PROVE  g[i] > g[j]
  <2>1. j <= n
    BY <1>1, <1>6
  <2> QED
    BY <1>6, <2>1 DEF PatPart
<1>7. DevPart(g, n + l, m + l)
    BY <1>2, <1>3, <1>4 DEF DevPart
<1>8. PatPart(g, n + l, p)
    BY <1>2, <1>5, <1>6 DEF PatPart
<1> QED
    BY <1>7, <1>8

(* And the other way round for PAT units.                                  *)
LEMMA AppendPat ==
    ASSUME NEW f, NEW g, NEW n \in Nat, NEW l \in Nat, NEW m \in Nat,
           NEW p \in Nat,
           \A i \in 1..n : f[i] \in Int /\ g[i] = f[i],
           \A i \in 1..l : g[n + i] = -(p + i),
           DevPart(f, n, m), PatPart(f, n, p)
    PROVE  DevPart(g, n + l, m) /\ PatPart(g, n + l, p + l)
<1>1. ASSUME NEW i \in 1..(n + l), i > n
      PROVE  g[i] = -(p + (i - n))
  <2>1. i - n \in 1..l /\ i = n + (i - n)
    BY <1>1
  <2> QED
    BY <2>1
<1>2. \A i \in 1..(n + l) : g[i] <= m /\ -g[i] <= p + l
    BY <1>1 DEF DevPart, PatPart
<1>3. ASSUME NEW k \in 1..(p + l)
      PROVE  \E i \in 1..(n + l) : g[i] = -k
  <2>1. CASE k <= p
    <3>1. PICK i \in 1..n : f[i] = -k
        BY <2>1 DEF PatPart
    <3> QED
        BY <3>1
  <2>2. CASE k > p
    <3>1. PICK i \in 1..l : k = p + i
        BY <2>2
    <3>2. g[n + i] = -k /\ n + i \in 1..(n + l)
        BY <3>1
    <3> QED
        BY <3>2
  <2> QED
    BY <2>1, <2>2
<1>4. ASSUME NEW i \in 1..(n + l), NEW j \in 1..(n + l), i < j,
             g[i] < 0, g[j] < 0
      PROVE  g[i] > g[j]
  <2>1. CASE j <= n
    BY <1>4, <2>1 DEF PatPart
  <2>2. CASE i <= n /\ j > n
    <3>1. -g[i] <= p /\ g[i] \in Int
        BY <2>2 DEF PatPart
    <3>2. g[j] = -(p + (j - n))
        BY <1>1, <2>2
    <3> QED
        BY <2>2, <3>1, <3>2
  <2>3. CASE i > n
    <3>1. g[i] = -(p + (i - n)) /\ g[j] = -(p + (j - n))
        BY <1>1, <1>4, <2>3
    <3> QED
        BY <1>4, <3>1
  <2> QED
    BY <2>1, <2>2, <2>3
<1>5. ASSUME NEW k \in 1..m
      PROVE  \E i \in 1..(n + l) : g[i] = k
  <2>1. PICK i \in 1..n : f[i] = k
    BY DEF DevPart
  <2> QED
    BY <2>1
<1>6. ASSUME NEW i \in 1..(n + l), NEW j \in 1..(n + l), i < j,
             g[i] > 0, g[j] > 0
      PROVE  g[i] < g[j]
  <2>1. j <= n
    BY <1>1, <1>6
  <2> QED
    BY <1>6, <2>1 DEF DevPart
<1>7. DevPart(g, n + l, m)
    BY <1>2, <1>5, <1>6 DEF DevPart
<1>8. PatPart(g, n + l, p + l)
    BY <1>2, <1>3, <1>4 DEF PatPart
<1> QED
    BY <1>7, <1>8

-----------------------------------------------------------------------------
(* The inductive invariant.  DeviceInOrder and PatInOrder need each other  *)
(* (units of one kind are put behind units of the other) and BlockValid    *)
(* (a Del must not outrun the buffer).                                     *)

QueuesInOrder ==
    /\ Moved \in Nat /\ \A i \in 1..Len(recv) : recv[i] = Moved + i
    /\ SiMoved \in Nat /\ \A i \in 1..Len(si) : si[i] = -(SiMoved + i)

FlowInOrder ==
    /\ DevPart(Flow, Len(Flow), Moved)
    /\ PatPart(Flow, Len(Flow), SiMoved)

Order == QueuesInOrder /\ FlowInOrder

IInv == TypeOK /\ BlockValid /\ Order

(* IInv implies the properties the runs check.                             *)
LEMMA OrderIsInOrder == Order => DeviceInOrder /\ PatInOrder
BY DEF Order, QueuesInOrder, FlowInOrder, DevPart, PatPart, DeviceInOrder,
       PatInOrder

LEMMA FlowIsSeq ==
    ASSUME TypeOK, BlockValid
    PROVE  /\ Flow \in Seq(Int) /\ wOffset <= Len(remux)
           /\ Len(Flow) \in Nat
           /\ \A i \in 1..Len(Flow) : Flow[i] \in Int
<1>1. wOffset \in Nat /\ wOffset <= Len(remux)
    BY DEF TypeOK, BlockValid
<1>2. Drop(remux, wOffset) \in Seq(Int)
    BY <1>1, DropProperties DEF TypeOK
<1>3. Flow \in Seq(Int)
    BY <1>2 DEF Flow, TypeOK
<1> QED
    BY <1>1, <1>3

LEMMA InitInv == Init => IInv
<1> SUFFICES ASSUME Init PROVE IInv
    OBVIOUS
<1>1. TypeOK
  <2>1. <<>> \in Seq(Int) /\ Len(<<>>) = 0
    OBVIOUS
  <2>2. 0 \in 0..MaxReattach /\ 0 \in 0..MaxRecv
    BY PipeAssumption DEF PipeAssumption
  <2>3. 0 <= RecvCap /\ 0 <= SiCap /\ 0 <= RemuxCap
    BY Capacities
  <2> QED
    BY <2>1, <2>2, <2>3 DEF Init, TypeOK
<1>2. BlockValid
    BY DEF Init, BlockValid
<1>3. Len(Flow) = 0
  <2>1. remux = <<>> /\ wOffset = 0 /\ sent = <<>> /\ <<>> \in Seq(Int)
    BY DEF Init
  <2>2. Drop(<<>>, 0) = <<>>
    BY DropNothing, <2>1, Zenon
  <2>3. Flow = <<>> \o <<>>
    BY <2>1, <2>2 DEF Flow
  <2> QED
    BY <2>3
<1>4. Order
    BY <1>3 DEF Order, QueuesInOrder, FlowInOrder, DevPart, PatPart, Moved,
                SiMoved, Init
<1> QED
    BY <1>1, <1>2, <1>4 DEF IInv

(* The order of the flow depends on nothing but the flow and the counts.   *)
LEMMA FlowFrame ==
    ASSUME FlowInOrder, UNCHANGED <<Flow, Moved, SiMoved>>
    PROVE  FlowInOrder'
<1>1. Flow' = Flow /\ Moved' = Moved /\ SiMoved' = SiMoved
    OBVIOUS
<1>2. DevPart(Flow, Len(Flow), Moved)'
    BY <1>1 DEF FlowInOrder, DevPart
<1>3. PatPart(Flow, Len(Flow), SiMoved)'
    BY <1>1 DEF FlowInOrder, PatPart
<1> QED
    BY <1>2, <1>3 DEF FlowInOrder

(* Steps that move no data keep the order.                                 *)
LEMMA OrderFrame ==
    ASSUME Order, UNCHANGED <<accepted, recv, siMade, si, remux, wOffset, sent>>
    PROVE  Order'
<1>1. Flow' = Flow /\ Moved' = Moved /\ SiMoved' = SiMoved
    BY DEF Flow, Drop, Moved, SiMoved
<1>2. QueuesInOrder'
    BY <1>1 DEF Order, QueuesInOrder
<1>3. FlowInOrder'
    BY <1>1, FlowFrame DEF Order
<1> QED
    BY <1>2, <1>3 DEF Order

(* A queue of consecutive numbers, extended by the next ones.              *)
LEMMA ExtendQueue ==
    ASSUME NEW q \in Seq(Int), NEW c \in Int, NEW n \in Nat,
           \A i \in 1..Len(q) : q[i] = c - Len(q) + i
    PROVE  LET t == q \o [i \in 1..n |-> c + i] IN
           /\ t \in Seq(Int) /\ Len(t) = Len(q) + n
           /\ \A i \in 1..Len(t) : t[i] = c - Len(q) + i
<1> DEFINE x == [i \in 1..n |-> c + i]
           t == q \o x
<1>1. x \in Seq(Int) /\ Len(x) = n /\ \A i \in 1..n : x[i] = c + i
    OBVIOUS
<1> HIDE DEF x
<1>2. /\ t \in Seq(Int) /\ Len(t) = Len(q) + n /\ Len(q) \in Nat
      /\ \A i \in 1..Len(q) : t[i] = q[i]
      /\ \A i \in 1..n : t[Len(q) + i] = x[i]
    BY ZenonT(40), <1>1, Cat
<1> HIDE DEF t
<1>3. ASSUME NEW i \in 1..Len(t)
      PROVE  t[i] = c - Len(q) + i
  <2>1. CASE i \in 1..Len(q)
    BY <1>2, <2>1
  <2>2. CASE i \notin 1..Len(q)
    <3> DEFINE j == i - Len(q)
    <3>1. Len(t) = Len(q) + n /\ Len(q) \in Nat
        BY <1>2
    <3>2. j \in 1..n /\ i = Len(q) + j
        BY <3>1, <2>2
    <3> HIDE DEF j
    <3>3. t[i] = c + j
        BY <1>1, <1>2, <3>2
    <3> QED
        BY <3>1, <3>2, <3>3
  <2> QED
    BY <2>1, <2>2
<1> QED
    BY <1>2, <1>3 DEF t, x

LEMMA ExtendQueueDown ==
    ASSUME NEW q \in Seq(Int), NEW c \in Int, NEW n \in Nat,
           \A i \in 1..Len(q) : q[i] = -(c - Len(q) + i)
    PROVE  LET t == q \o [i \in 1..n |-> -(c + i)] IN
           /\ t \in Seq(Int) /\ Len(t) = Len(q) + n
           /\ \A i \in 1..Len(t) : t[i] = -(c - Len(q) + i)
<1> DEFINE x == [i \in 1..n |-> -(c + i)]
           t == q \o x
<1>1. x \in Seq(Int) /\ Len(x) = n /\ \A i \in 1..n : x[i] = -(c + i)
    OBVIOUS
<1> HIDE DEF x
<1>2. /\ t \in Seq(Int) /\ Len(t) = Len(q) + n /\ Len(q) \in Nat
      /\ \A i \in 1..Len(q) : t[i] = q[i]
      /\ \A i \in 1..n : t[Len(q) + i] = x[i]
    BY ZenonT(40), <1>1, Cat
<1> HIDE DEF t
<1>3. ASSUME NEW i \in 1..Len(t)
      PROVE  t[i] = -(c - Len(q) + i)
  <2>1. CASE i \in 1..Len(q)
    BY <1>2, <2>1
  <2>2. CASE i \notin 1..Len(q)
    <3> DEFINE j == i - Len(q)
    <3>1. Len(t) = Len(q) + n /\ Len(q) \in Nat
        BY <1>2
    <3>2. j \in 1..n /\ i = Len(q) + j
        BY <3>1, <2>2
    <3> HIDE DEF j
    <3>3. t[i] = -(c + j)
        BY <1>1, <1>2, <3>2
    <3> QED
        BY <3>1, <3>2, <3>3
  <2> QED
    BY <2>1, <2>2
<1> QED
    BY <1>2, <1>3 DEF t, x

(* Receive: the new units follow those already in the buffer.              *)
LEMMA ReceiveInv ==
    ASSUME IInv, NEW k \in 1..2, Receive(k)
    PROVE  IInv'
<1> DEFINE n == PutTS(recv, RecvCap, k * Pkt)
<1>1. /\ Len(recv) \in Nat /\ accepted \in Nat /\ recv \in Seq(Int)
      /\ RecvCap \in Nat /\ Len(recv) <= RecvCap /\ k * Pkt \in Nat
    BY Capacities DEF IInv, TypeOK
<1>2. n \in 0..(RecvCap - Len(recv))
    BY <1>1, PutTSFits, Zenon
<1>3. n \in Nat /\ Len(recv) + n <= RecvCap
    BY <1>1, <1>2
<1>4. /\ recv' = recv \o [i \in 1..n |-> accepted + i]
      /\ accepted' = accepted + n
      /\ offered' = offered + k /\ offered + k <= MaxRecv
      /\ UNCHANGED <<attached, reattach, siMade, si, remux, streamer, writer,
                     sent, peerUp, ctl>>
    BY DEF Receive
<1> HIDE DEF n
<1>5. Moved \in Nat /\ \A i \in 1..Len(recv) : recv[i] = accepted - Len(recv) + i
    BY DEF IInv, Order, QueuesInOrder, Moved
<1>6. /\ recv' \in Seq(Int) /\ Len(recv') = Len(recv) + n
      /\ \A i \in 1..Len(recv') : recv'[i] = accepted - Len(recv) + i
    BY <1>1, <1>3, <1>4, <1>5, ExtendQueue
<1>7. TypeOK'
    BY <1>1, <1>3, <1>4, <1>6 DEF IInv, TypeOK, streamer, writer
<1>8. BlockValid'
    BY <1>1, <1>3, <1>4, <1>6 DEF IInv, TypeOK, BlockValid, streamer, writer
<1>9. Moved' = Moved
    BY <1>1, <1>3, <1>4, <1>6 DEF Moved
<1>10. SiMoved' = SiMoved /\ Flow' = Flow
    BY <1>4 DEF SiMoved, Flow, Drop, writer
<1>11. QueuesInOrder'
    BY <1>4, <1>5, <1>6, <1>9, <1>10 DEF IInv, Order, QueuesInOrder, Moved
<1>12. FlowInOrder'
    BY <1>9, <1>10, FlowFrame DEF IInv, Order
<1> QED
    BY <1>7, <1>8, <1>11, <1>12 DEF IInv, Order

(* QueuePat: the same for siBuffer.                                        *)
LEMMA QueuePatInv ==
    ASSUME IInv, QueuePat
    PROVE  IInv'
<1> DEFINE n == PutTS(si, SiCap, Pkt)
<1>1. /\ Len(si) \in Nat /\ siMade \in Nat /\ si \in Seq(Int)
      /\ SiCap \in Nat /\ Len(si) <= SiCap /\ Pkt \in Nat
    BY Capacities DEF IInv, TypeOK
<1>2. n \in 0..(SiCap - Len(si))
    BY <1>1, PutTSFits, Zenon
<1>3. n \in Nat /\ Len(si) + n <= SiCap
    BY <1>1, <1>2
<1>4. /\ si' = si \o [i \in 1..n |-> -(siMade + i)] /\ siMade' = siMade + n
      /\ UNCHANGED <<attached, reattach, offered, accepted, recv, remux,
                     streamer, writer, sent, peerUp, ctl>>
    BY DEF QueuePat
<1> HIDE DEF n
<1>5. SiMoved \in Nat /\ \A i \in 1..Len(si) : si[i] = -(siMade - Len(si) + i)
    BY DEF IInv, Order, QueuesInOrder, SiMoved
<1>6. /\ si' \in Seq(Int) /\ Len(si') = Len(si) + n
      /\ \A i \in 1..Len(si') : si'[i] = -(siMade - Len(si) + i)
    BY <1>1, <1>3, <1>4, <1>5, ExtendQueueDown
<1>7. TypeOK'
    BY <1>1, <1>3, <1>4, <1>6 DEF IInv, TypeOK, streamer, writer
<1>8. BlockValid'
    BY <1>4 DEF IInv, BlockValid, streamer, writer
<1>9. SiMoved' = SiMoved
    BY <1>1, <1>3, <1>4, <1>6 DEF SiMoved
<1>10. Moved' = Moved /\ Flow' = Flow
    BY <1>4 DEF Moved, Flow, Drop, writer
<1>11. QueuesInOrder'
    BY <1>4, <1>5, <1>6, <1>9, <1>10 DEF IInv, Order, QueuesInOrder, SiMoved
<1>12. FlowInOrder'
    BY <1>9, <1>10, FlowFrame DEF IInv, Order
<1> QED
    BY <1>7, <1>8, <1>11, <1>12 DEF IInv, Order

(* What Put takes never exceeds what it is given, nor the room there is.   *)
LEMMA FitsBounds ==
    ASSUME TypeOK, NEW got \in Nat
    PROVE  Fits(got) \in 0..got /\ Len(remux) + Fits(got) <= RemuxCap
<1>1. Len(remux) \in Nat /\ RemuxCap \in Nat /\ Len(remux) <= RemuxCap
    BY Capacities DEF TypeOK
<1> QED
    BY <1>1 DEF Fits, Least

(* Giving up the front of a queue leaves the rest as it was.               *)
LEMMA DropQueue ==
    ASSUME NEW q \in Seq(Int), NEW c \in Int, NEW n \in Nat, n <= Len(q),
           \A i \in 1..Len(q) : q[i] = c - Len(q) + i
    PROVE  /\ Drop(q, n) \in Seq(Int) /\ Len(Drop(q, n)) = Len(q) - n
           /\ \A i \in 1..Len(Drop(q, n)) :
                Drop(q, n)[i] = c - Len(Drop(q, n)) + i
<1> DEFINE d == Drop(q, n)
<1>1. /\ d \in Seq(Int) /\ Len(d) = Len(q) - n
      /\ \A i \in 1..(Len(q) - n) : d[i] = q[n + i]
    BY DropProperties
<1> HIDE DEF d
<1>2. Len(q) \in Nat
    OBVIOUS
<1>3. ASSUME NEW i \in 1..Len(d)
      PROVE  d[i] = c - Len(d) + i
  <2>1. i \in 1..(Len(q) - n) /\ n + i \in 1..Len(q)
    BY <1>1, <1>2
  <2>2. d[i] = c - Len(q) + (n + i)
    BY <1>1, <2>1
  <2> QED
    BY <1>1, <1>2, <2>1, <2>2
<1> QED
    BY <1>1, <1>3 DEF d

LEMMA DropQueueDown ==
    ASSUME NEW q \in Seq(Int), NEW c \in Int, NEW n \in Nat, n <= Len(q),
           \A i \in 1..Len(q) : q[i] = -(c - Len(q) + i)
    PROVE  /\ Drop(q, n) \in Seq(Int) /\ Len(Drop(q, n)) = Len(q) - n
           /\ \A i \in 1..Len(Drop(q, n)) :
                Drop(q, n)[i] = -(c - Len(Drop(q, n)) + i)
<1> DEFINE d == Drop(q, n)
<1>1. /\ d \in Seq(Int) /\ Len(d) = Len(q) - n
      /\ \A i \in 1..(Len(q) - n) : d[i] = q[n + i]
    BY DropProperties
<1> HIDE DEF d
<1>2. Len(q) \in Nat
    OBVIOUS
<1>3. ASSUME NEW i \in 1..Len(d)
      PROVE  d[i] = -(c - Len(d) + i)
  <2>1. i \in 1..(Len(q) - n) /\ n + i \in 1..Len(q)
    BY <1>1, <1>2
  <2>2. d[i] = -(c - Len(q) + (n + i))
    BY <1>1, <2>1
  <2> QED
    BY <1>1, <1>2, <2>1, <2>2
<1> QED
    BY <1>1, <1>3 DEF d

(* A Put extends the flow.                                                 *)
LEMMA FlowGrows ==
    ASSUME TypeOK, BlockValid, NEW x \in Seq(Int), remux' = remux \o x,
           UNCHANGED <<sent, wOffset>>
    PROVE  Flow' = Flow \o x
<1>1. /\ sent \in Seq(Int) /\ remux \in Seq(Int) /\ wOffset \in Nat
      /\ wOffset <= Len(remux)
    BY FlowIsSeq DEF TypeOK
<1>2. sent \o Drop(remux \o x, wOffset) = (sent \o Drop(remux, wOffset)) \o x
    BY <1>1, PutExtendsFlow, ZenonT(40)
<1>3. Flow' = sent \o Drop(remux \o x, wOffset)
    BY DEF Flow, Drop
<1> QED
    BY <1>2, <1>3 DEF Flow

(* A Put of device units: the flow grows by the front of recv.             *)
LEMMA SPutInv ==
    ASSUME IInv, SPut
    PROVE  IInv'
<1> DEFINE n == Fits(sGot)
           x == SubSeq(recv, 1, n)
<1>1. /\ TypeOK /\ BlockValid /\ recv \in Seq(Int) /\ Len(recv) \in Nat
      /\ accepted \in Nat /\ sGot \in Nat /\ sGot <= Len(recv)
      /\ remux \in Seq(Int) /\ sent \in Seq(Int) /\ wOffset \in Nat
      /\ Len(remux) \in Nat
    BY SMTT(40) DEF IInv, TypeOK, BlockValid
<1>2. n \in 0..sGot /\ Len(remux) + n <= RemuxCap
    BY <1>1, FitsBounds
<1>3. n \in Nat /\ n <= Len(recv)
    BY <1>1, <1>2
<1>4. /\ remux' = remux \o x /\ recv' = Drop(recv, n) /\ sPc' = "get"
      /\ sGot' = 0 /\ UNCHANGED si
      /\ UNCHANGED <<attached, reattach, offered, accepted, siMade, sRun,
                     writer, sent, peerUp, ctl>>
    BY DEF SPut, SUnchanged
<1>5. x \in Seq(Int) /\ Len(x) = n /\ \A i \in 1..n : x[i] = recv[i]
    BY SMTT(40), <1>1, <1>3
<1> HIDE DEF n, x
<1>6. /\ recv' \in Seq(Int) /\ Len(recv') = Len(recv) - n
      /\ \A i \in 1..Len(recv') : recv'[i] = accepted - Len(recv') + i
  <2>1. \A i \in 1..Len(recv) : recv[i] = accepted - Len(recv) + i
    BY DEF IInv, Order, QueuesInOrder, Moved
  <2>2. accepted \in Int
    BY <1>1
  <2> QED
    BY ZenonT(40), <1>1, <1>3, <1>4, <2>1, <2>2, DropQueue
<1>7. remux' \in Seq(Int) /\ Len(remux') = Len(remux) + n
    BY <1>1, <1>4, <1>5, Cat
<1>lens. /\ recv' \in Seq(Int) /\ Len(recv') <= RecvCap
         /\ remux' \in Seq(Int) /\ Len(remux') <= RemuxCap
         /\ Len(remux) <= Len(remux')
  <2>1. RecvCap \in Nat /\ Len(recv) <= RecvCap
    BY <1>1, Capacities DEF TypeOK
  <2> QED
    BY SMTT(40), <1>1, <1>2, <1>3, <1>6, <1>7, <2>1
<1>8. TypeOK'
    BY <1>1, <1>4, <1>lens DEF TypeOK, writer
<1>9. BlockValid'
  <2>1. Len(recv') \in Nat /\ Len(remux') \in Nat
    BY <1>lens
  <2>2. wOffset + wCount <= Len(remux')
    BY <1>1, <1>lens, <2>1 DEF TypeOK, BlockValid
  <2> QED
    BY <1>1, <1>4, <2>1, <2>2 DEF BlockValid, writer
<1>10. /\ Moved \in Nat /\ Moved' = Moved + n /\ SiMoved' = SiMoved
       /\ SiMoved \in Nat
    BY <1>1, <1>3, <1>4, <1>6
    DEF Moved, SiMoved, IInv, Order, QueuesInOrder
<1>11. QueuesInOrder'
    BY <1>3, <1>4, <1>6, <1>10 DEF IInv, Order, QueuesInOrder, Moved
<1>12. Flow' = Flow \o x
    BY <1>1, <1>4, <1>5, FlowGrows DEF writer
<1>13. /\ Flow \in Seq(Int) /\ Len(Flow) \in Nat
       /\ \A i \in 1..Len(Flow) : Flow[i] \in Int
    BY <1>1, FlowIsSeq
<1>14. /\ Len(Flow') = Len(Flow) + n
       /\ \A i \in 1..Len(Flow) : Flow[i] \in Int /\ Flow'[i] = Flow[i]
       /\ \A i \in 1..n : Flow'[Len(Flow) + i] = x[i]
    BY ZenonT(40), <1>5, <1>12, <1>13, Cat
<1>15. ASSUME NEW i \in 1..n
       PROVE  Flow'[Len(Flow) + i] = Moved + i
  <2>0. i \in 1..Len(recv)
    BY <1>1, <1>3
  <2>1. x[i] = recv[i] /\ i \in 1..Len(recv)
    BY <1>5, <2>0
  <2>2. recv[i] = Moved + i
    BY <2>1 DEF IInv, Order, QueuesInOrder
  <2> QED
    BY <1>14, <2>1, <2>2
<1>16. DevPart(Flow, Len(Flow), Moved) /\ PatPart(Flow, Len(Flow), SiMoved)
    BY DEF IInv, Order, FlowInOrder
<1>17. /\ DevPart(Flow', Len(Flow) + n, Moved + n)
       /\ PatPart(Flow', Len(Flow) + n, SiMoved)
    BY <1>3, <1>10, <1>13, <1>14, <1>15, <1>16, AppendDevice, Zenon
<1>18. FlowInOrder'
    BY <1>10, <1>14, <1>17 DEF FlowInOrder, DevPart, PatPart
<1> QED
    BY <1>8, <1>9, <1>11, <1>18 DEF IInv, Order

(* A Put of PAT units: the flow grows by the front of si.                  *)
LEMMA PutSiKeepsInv ==
    ASSUME IInv, NEW n \in Nat, n <= Len(si), Len(remux) + n <= RemuxCap,
           remux' = remux \o SubSeq(si, 1, n), si' = Drop(si, n),
           sPc = "si", sPc' = "put",
           UNCHANGED <<recv, sGot, attached, reattach, offered, accepted,
                       siMade, sRun, writer, sent, peerUp, ctl>>
    PROVE  IInv'
<1> DEFINE x == SubSeq(si, 1, n)
<1>1. /\ TypeOK /\ BlockValid /\ si \in Seq(Int) /\ Len(si) \in Nat
      /\ siMade \in Nat /\ sGot \in Nat
      /\ remux \in Seq(Int) /\ sent \in Seq(Int) /\ wOffset \in Nat
      /\ Len(remux) \in Nat
    BY DEF IInv, TypeOK
<1>2. remux' = remux \o x
    OBVIOUS
<1>3. x \in Seq(Int) /\ Len(x) = n /\ \A i \in 1..n : x[i] = si[i]
    BY <1>1
<1> HIDE DEF x
<1>4. /\ si' \in Seq(Int) /\ Len(si') = Len(si) - n
      /\ \A i \in 1..Len(si') : si'[i] = -(siMade - Len(si') + i)
  <2>1. \A i \in 1..Len(si) : si[i] = -(siMade - Len(si) + i)
    BY DEF IInv, Order, QueuesInOrder, SiMoved
  <2>2. siMade \in Int /\ si \in Seq(Int)
    BY <1>1
  <2>3. /\ Drop(si, n) \in Seq(Int) /\ Len(Drop(si, n)) = Len(si) - n
        /\ \A i \in 1..Len(Drop(si, n)) :
             Drop(si, n)[i] = -(siMade - Len(Drop(si, n)) + i)
    BY <2>1, <2>2, DropQueueDown, Zenon
  <2> QED
    BY <2>3
<1>5. remux' \in Seq(Int) /\ Len(remux') = Len(remux) + n
    BY <1>1, <1>2, <1>3, Cat
<1>lens. /\ si' \in Seq(Int) /\ Len(si') <= SiCap
         /\ remux' \in Seq(Int) /\ Len(remux') <= RemuxCap
         /\ Len(remux) <= Len(remux')
  <2>1. SiCap \in Nat /\ Len(si) <= SiCap
    BY <1>1, Capacities DEF TypeOK
  <2> QED
    BY SMTT(40), <1>1, <1>4, <1>5, <2>1
<1>6. TypeOK'
    BY <1>1, <1>lens DEF TypeOK, writer
<1>7. BlockValid'
  <2>1. wOffset + wCount <= Len(remux')
    BY SMTT(40), <1>1, <1>lens DEF TypeOK, BlockValid
  <2> QED
    BY <1>1, <2>1 DEF BlockValid, writer
<1>8. /\ SiMoved \in Nat /\ SiMoved' = SiMoved + n /\ Moved' = Moved
      /\ Moved \in Nat
    BY <1>1, <1>4 DEF Moved, SiMoved, IInv, Order, QueuesInOrder
<1>9. QueuesInOrder'
    BY <1>4, <1>8 DEF IInv, Order, QueuesInOrder, SiMoved
<1>10. Flow' = Flow \o x
    BY <1>1, <1>2, <1>3, FlowGrows DEF writer
<1>11. /\ Flow \in Seq(Int) /\ Len(Flow) \in Nat
       /\ \A i \in 1..Len(Flow) : Flow[i] \in Int
    BY <1>1, FlowIsSeq
<1>12. /\ Len(Flow') = Len(Flow) + n
       /\ \A i \in 1..Len(Flow) : Flow[i] \in Int /\ Flow'[i] = Flow[i]
       /\ \A i \in 1..n : Flow'[Len(Flow) + i] = x[i]
    BY ZenonT(40), <1>3, <1>10, <1>11, Cat
<1>13. ASSUME NEW i \in 1..n
       PROVE  Flow'[Len(Flow) + i] = -(SiMoved + i)
  <2>1. x[i] = si[i] /\ i \in 1..Len(si)
    BY <1>1, <1>3
  <2>2. si[i] = -(SiMoved + i)
    BY <2>1 DEF IInv, Order, QueuesInOrder
  <2> QED
    BY <1>12, <2>1, <2>2
<1>14. DevPart(Flow, Len(Flow), Moved) /\ PatPart(Flow, Len(Flow), SiMoved)
    BY DEF IInv, Order, FlowInOrder
<1>15. /\ DevPart(Flow', Len(Flow) + n, Moved)
       /\ PatPart(Flow', Len(Flow) + n, SiMoved + n)
    BY <1>8, <1>11, <1>12, <1>13, <1>14, AppendPat, Zenon
<1>16. FlowInOrder'
    BY <1>8, <1>12, <1>15 DEF FlowInOrder, DevPart, PatPart
<1> QED
    BY <1>6, <1>7, <1>9, <1>16 DEF IInv, Order

LEMMA SPutSiInv ==
    ASSUME IInv, SPutSi
    PROVE  IInv'
<1>0. /\ sPc = "si" /\ sPc' = "put"
      /\ UNCHANGED <<recv, sGot, attached, reattach, offered, accepted,
                     siMade, sRun, writer, sent, peerUp, ctl>>
    BY DEF SPutSi, SUnchanged
<1>1. CASE GetCounts(si, Pkt) = {}
  <2>1. UNCHANGED <<si, remux>>
    BY <1>1 DEF SPutSi
  <2>2. TypeOK'
    BY <1>0, <2>1 DEF IInv, TypeOK, writer
  <2>3. BlockValid'
    BY <1>0, <2>1 DEF IInv, BlockValid, writer
  <2>4. Order'
    BY <1>0, <2>1, OrderFrame DEF IInv, writer
  <2> QED
    BY <2>2, <2>3, <2>4 DEF IInv
<1>2. CASE GetCounts(si, Pkt) # {}
  <2>1. PICK got \in GetCounts(si, Pkt) :
            /\ remux' = remux \o SubSeq(si, 1, Fits(got))
            /\ si' = Drop(si, Fits(got))
    BY <1>2 DEF SPutSi
  <2>2. got \in Nat /\ got <= Len(si) /\ Len(si) \in Nat /\ TypeOK
    BY Capacities DEF GetCounts, IInv, TypeOK
  <2>3. Fits(got) \in 0..got /\ Len(remux) + Fits(got) <= RemuxCap
    BY <2>2, FitsBounds
  <2>4. Fits(got) \in Nat /\ Fits(got) <= Len(si)
    BY <2>2, <2>3
  <2> DEFINE n == Fits(got)
  <2>5. /\ n \in Nat /\ n <= Len(si) /\ Len(remux) + n <= RemuxCap
        /\ remux' = remux \o SubSeq(si, 1, n) /\ si' = Drop(si, n)
    BY <2>1, <2>3, <2>4
  <2> HIDE DEF n
  <2> QED
    BY <1>0, <2>5, PutSiKeepsInv
<1> QED
    BY <1>1, <1>2

(* A write moves units from the block to the socket: the flow is the same. *)
LEMMA WWriteInv ==
    ASSUME IInv, NEW n \in 1..wCount, WWrite(n)
    PROVE  IInv'
<1>1. /\ TypeOK /\ BlockValid /\ remux \in Seq(Int) /\ sent \in Seq(Int)
      /\ wOffset \in Nat /\ wCount \in Nat /\ Len(remux) \in Nat
      /\ wOffset + wCount <= Len(remux) /\ Pkt \in Nat /\ Pkt > 0
      /\ RemuxCap \in Nat /\ Len(remux) <= RemuxCap /\ wPc = "write"
    BY Capacities DEF IInv, TypeOK, BlockValid, WWrite
<1>2. n \in Nat /\ n <= wCount /\ wOffset + n <= Len(remux)
    BY <1>1
<1>3. /\ sent' = sent \o Chunk(n)
      /\ UNCHANGED <<attached, reattach, offered, accepted, recv, siMade, si,
                     sPc, sRun, sGot, wTimeout, wRun, peerUp, ctl>>
    BY DEF WWrite, WUnchanged, source, streamer
<1>4. /\ Chunk(n) \in Seq(Int)
      /\ (sent \o Chunk(n)) \o Drop(remux, wOffset + n)
           = sent \o Drop(remux, wOffset)
  <2>1. /\ sent \in Seq(Int) /\ remux \in Seq(Int) /\ wOffset \in Nat
        /\ n \in Nat /\ wOffset + n <= Len(remux)
    BY <1>1, <1>2
  <2>2. /\ SubSeq(remux, wOffset + 1, wOffset + n) \in Seq(Int)
        /\ (sent \o SubSeq(remux, wOffset + 1, wOffset + n))
             \o Drop(remux, wOffset + n)
             = sent \o Drop(remux, wOffset)
    BY <2>1, WriteKeepsFlow, ZenonT(40)
  <2> QED
    BY <2>2 DEF Chunk
<1>5. sent' \in Seq(Int)
    BY <1>1, <1>3, <1>4, Cat
<1>6. sent' \o Drop(remux, wOffset + n) = Flow
    BY <1>3, <1>4 DEF Flow
<1>7. /\ remux' \in Seq(Int) /\ Len(remux') <= RemuxCap
      /\ wOffset' \in Nat /\ wCount' \in Nat
      /\ wOffset' + wCount' <= Len(remux')
      /\ wPc' \in {"get", "select"}
      /\ wPc' = "get" => wOffset' = 0 /\ wCount' = 0
      /\ wPc' = "select" => wCount' >= Pkt
      /\ Flow' = Flow
  <2>1. CASE BlockDone(wCount - n)
    <3>1. /\ remux' = Drop(remux, wOffset + n) /\ wOffset' = 0 /\ wCount' = 0
          /\ wPc' = "get"
        BY <2>1 DEF WWrite
    <3>2. wOffset + n \in Nat
        BY <1>1, <1>2
    <3>3. /\ Drop(remux, wOffset + n) \in Seq(Int)
          /\ Len(Drop(remux, wOffset + n)) = Len(remux) - (wOffset + n)
        BY <1>1, <1>2, <3>2, DropProperties, Zenon
    <3>4. /\ remux' \in Seq(Int) /\ Len(remux') = Len(remux) - (wOffset + n)
        BY <3>1, <3>3
    <3>5. Drop(remux', 0) = remux'
        BY <3>4, DropNothing, Zenon
    <3>6. Flow' = Flow
        BY <1>6, <3>1, <3>5 DEF Flow, Drop
    <3>7. Len(remux') \in 0..RemuxCap
        BY <1>1, <1>2, <3>4
    <3> QED
        BY <3>1, <3>4, <3>6, <3>7
  <2>2. CASE ~BlockDone(wCount - n)
    <3>1. /\ remux' = remux /\ wOffset' = wOffset + n /\ wCount' = wCount - n
          /\ wPc' = "select"
        BY <2>2 DEF WWrite
    <3>2. wCount - n >= Pkt
        BY <1>1, <1>2, <2>2 DEF BlockDone
    <3>3. Flow' = Flow
        BY <1>6, <3>1 DEF Flow, Drop
    <3> QED
        BY <1>1, <1>2, <3>1, <3>2, <3>3
  <2> QED
    BY <2>1, <2>2
<1>8. TypeOK'
    BY <1>1, <1>3, <1>5, <1>7 DEF TypeOK
<1>9. BlockValid'
    BY <1>1, <1>3, <1>7 DEF BlockValid
<1>10. Moved' = Moved /\ SiMoved' = SiMoved
    BY <1>3 DEF Moved, SiMoved
<1>11. QueuesInOrder'
    BY <1>3, <1>10 DEF IInv, Order, QueuesInOrder
<1>12. FlowInOrder'
    BY <1>7, <1>10, FlowFrame DEF IInv, Order
<1> QED
    BY <1>8, <1>9, <1>11, <1>12 DEF IInv, Order

-----------------------------------------------------------------------------
(* The other actions move no data.                                         *)

data == <<accepted, recv, siMade, si, remux, wOffset, sent>>

LEMMA DataFrame ==
    ASSUME IInv, UNCHANGED data, TypeOK', BlockValid'
    PROVE  IInv'
BY OrderFrame DEF IInv, data

LEMMA DeviceFrame ==
    ASSUME IInv, LoseDevice \/ RegainDevice \/ PeerGone
    PROVE  IInv'
<1>1. CASE LoseDevice
  <2>1. TypeOK' /\ BlockValid'
    BY ZenonT(40),
       <1>1 DEF LoseDevice, streamer, writer, IInv, TypeOK, BlockValid
  <2> QED
    BY <1>1, <2>1, DataFrame DEF LoseDevice, writer, data
<1>2. CASE RegainDevice
  <2>1. TypeOK'
    BY <1>2, PipeAssumption
    DEF RegainDevice, streamer, writer, IInv, TypeOK, PipeAssumption
  <2>2. BlockValid'
    BY <1>2 DEF RegainDevice, streamer, writer, IInv, BlockValid
  <2> QED
    BY <1>2, <2>1, <2>2, DataFrame DEF RegainDevice, writer, data
<1>3. CASE PeerGone
  <2>0. /\ UNCHANGED <<attached, reattach, offered, accepted, recv, siMade, si>>
        /\ UNCHANGED <<remux, sPc, sRun, sGot, wPc, wRun, wOffset, wCount>>
        /\ UNCHANGED <<wTimeout, sent, ctl>> /\ peerUp' \in BOOLEAN
    BY <1>3 DEF PeerGone, source, streamer, writer
  <2>1. TypeOK'
    BY <2>0 DEF IInv, TypeOK
  <2>2. BlockValid'
    BY <2>0 DEF IInv, BlockValid
  <2> QED
    BY <2>0, <2>1, <2>2, DataFrame DEF data
<1> QED
    BY <1>1, <1>2, <1>3

LEMMA StreamerFrame ==
    ASSUME IInv, SPrebuffered \/ SGet \/ SEnd
    PROVE  IInv'
<1> USE DEF SUnchanged, writer
<1>1. CASE SPrebuffered \/ SEnd
  <2> USE DEF SPrebuffered, SEnd
  <2>1. TypeOK'
    BY SMTT(40), <1>1 DEF IInv, TypeOK
  <2>2. BlockValid'
    BY <1>1 DEF IInv, BlockValid
  <2>3. UNCHANGED data
    BY <1>1 DEF data
  <2> QED
    BY <2>1, <2>2, <2>3, DataFrame
<1>2. CASE SGet
  <2>1. sGot' \in Nat /\ sGot' <= Len(recv) /\ sGot' >= Margin
    BY <1>2, Capacities DEF SGet, GetCounts, IInv, TypeOK
  <2>2. TypeOK'
    BY <1>2, <2>1 DEF SGet, IInv, TypeOK
  <2>3. BlockValid'
    BY <1>2, <2>1 DEF SGet, IInv, BlockValid
  <2>4. UNCHANGED data
    BY <1>2 DEF SGet, data
  <2> QED
    BY <2>2, <2>3, <2>4, DataFrame
<1> QED
    BY <1>1, <1>2

LEMMA WGetInv ==
    ASSUME IInv, WGet
    PROVE  IInv'
<1>1. /\ wPc = "get" /\ wOffset = 0 /\ wCount = 0 /\ Len(remux) \in Nat
    BY DEF WGet, IInv, TypeOK, BlockValid
<1>2. UNCHANGED data
    BY DEF WGet, WUnchanged, source, data
<1>3. \/ wPc' = "idle" /\ wCount' = wCount
      \/ wPc' = "select" /\ wCount' \in Pkt..Len(remux)
    BY <1>1, Capacities DEF WGet, GetCounts
<1>4. TypeOK'
    BY SMTT(40),
       <1>1, <1>3, Capacities DEF WGet, WUnchanged, source, streamer, IInv, TypeOK
<1>5. BlockValid'
    BY <1>1, <1>3, Capacities
    DEF WGet, WUnchanged, source, streamer, IInv, BlockValid
<1> QED
    BY <1>2, <1>4, <1>5, DataFrame

LEMMA WriterFrame ==
    ASSUME IInv,
           WIdle \/ WSelect \/ WSelectTimeout \/ WWriteFails \/ WCancelled
             \/ WClose
    PROVE  IInv'
<1>1. /\ UNCHANGED <<attached, reattach, offered, sPc, sRun, sGot, wRun>>
      /\ UNCHANGED <<wCount, peerUp, ctl>> /\ UNCHANGED data
      /\ wTimeout \in Nat => wTimeout' \in Nat
    BY DEF WIdle, WSelect, WSelectTimeout, WWriteFails, WCancelled, WClose,
           WUnchanged, source, streamer, data
<1>2. /\ wPc' \in {"get", "select", "write", "close", "ended"}
      /\ wPc' = "get" => wPc = "idle"
      /\ wPc' \in {"select", "write"} => wPc \in {"select", "write"}
    BY DEF WIdle, WSelect, WSelectTimeout, WWriteFails, WCancelled, WClose
<1>3. TypeOK'
    BY <1>1, <1>2 DEF data, IInv, TypeOK
<1>4. BlockValid'
    BY <1>1, <1>2 DEF data, IInv, BlockValid
<1> QED
    BY <1>1, <1>3, <1>4, DataFrame

(* The writer does nothing before Start().                                 *)
Unstarted == ctl = "new" => wPc = "off"

LEMMA UnstartedNext ==
    ASSUME Unstarted, [Next]_vars
    PROVE  Unstarted'
<1>1. CASE UNCHANGED vars
    BY <1>1 DEF vars, writer, Unstarted
<1>2. CASE DeviceStep \/ StreamerStep \/ PeerGone
    BY <1>2
    DEF DeviceStep, Receive, QueuePat, LoseDevice, RegainDevice, StreamerStep,
        SPrebuffered, SGet, SPutSi, SPut, SEnd, SUnchanged, PeerGone, writer,
        Unstarted
<1>3. CASE WriterStep
    BY <1>3
    DEF WriterStep, WGet, WIdle, WSelect, WSelectTimeout, WWrite, WWriteFails,
        WCancelled, WClose, WUnchanged, Unstarted
<1>4. CASE OwnerStep \/ StopOnRequest
    BY <1>4
    DEF OwnerStep, StartWriter, StartStreamer, Attach, StopOnAbort,
        StopOnRequest, StopDetach, CancelStreamer, CancelWriter, DeleteWriter,
        Unstarted
<1> QED
    BY <1>1, <1>2, <1>3, <1>4 DEF Next

LEMMA OwnerFrame ==
    ASSUME IInv, Unstarted, OwnerStep \/ StopOnRequest
    PROVE  IInv'
<1>1. UNCHANGED data /\ UNCHANGED <<reattach, offered, wCount, wTimeout, sGot>>
      /\ UNCHANGED peerUp
    BY DEF OwnerStep, StartWriter, StartStreamer, Attach, StopOnAbort,
           StopOnRequest, StopDetach, CancelStreamer, CancelWriter,
           DeleteWriter, CUnchanged, data
<1>2. TypeOK' /\ BlockValid'
  <2>1. CASE StartWriter
    BY <1>1, <2>1 DEF StartWriter, Unstarted, data, IInv, TypeOK, BlockValid
  <2>2. CASE StartStreamer
    BY <1>1, <2>2 DEF StartStreamer, data, IInv, TypeOK, BlockValid
  <2>3. CASE Attach
    BY <1>1, <2>3 DEF Attach, data, IInv, TypeOK, BlockValid
  <2>4. CASE StopOnAbort
    BY ZenonT(40),
       <1>1, <2>4 DEF StopOnAbort, StopDetach, data, IInv, TypeOK, BlockValid
  <2>5. CASE StopOnRequest
    BY ZenonT(40),
       <1>1, <2>5 DEF StopOnRequest, StopDetach, data, IInv, TypeOK, BlockValid
  <2>6. CASE CancelStreamer
    BY ZenonT(40), <1>1, <2>6 DEF CancelStreamer, data, IInv, TypeOK, BlockValid
  <2>7. CASE CancelWriter
    BY ZenonT(40), <1>1, <2>7 DEF CancelWriter, data, IInv, TypeOK, BlockValid
  <2>8. CASE DeleteWriter
    BY <1>1, <2>8 DEF DeleteWriter, data, IInv, TypeOK, BlockValid
  <2> QED
    BY <2>1, <2>2, <2>3, <2>4, <2>5, <2>6, <2>7, <2>8 DEF OwnerStep
<1> QED
    BY <1>1, <1>2, DataFrame

LEMMA StutterInv ==
    ASSUME IInv, UNCHANGED vars
    PROVE  IInv'
<1> USE DEF vars, source, streamer, writer
<1>1. TypeOK'
    BY DEF IInv, TypeOK
<1>2. BlockValid'
    BY DEF IInv, BlockValid
<1>3. UNCHANGED data
    BY DEF data
<1> QED
    BY <1>1, <1>2, <1>3, DataFrame

LEMMA NextInv == IInv /\ Unstarted /\ [Next]_vars => IInv'
<1> SUFFICES ASSUME IInv, Unstarted, [Next]_vars PROVE IInv'
    OBVIOUS
<1>1. CASE DeviceStep
    BY <1>1, ReceiveInv, QueuePatInv, DeviceFrame DEF DeviceStep
<1>2. CASE StreamerStep
    BY <1>2, SPutSiInv, SPutInv, StreamerFrame DEF StreamerStep
<1>3. CASE WriterStep
    BY <1>3, WGetInv, WWriteInv, WriterFrame DEF WriterStep
<1>4. CASE OwnerStep \/ StopOnRequest
    BY <1>4, OwnerFrame
<1>5. CASE PeerGone
    BY <1>5, DeviceFrame
<1>6. CASE UNCHANGED vars
    BY <1>6, StutterInv
<1> QED
    BY <1>1, <1>2, <1>3, <1>4, <1>5, <1>6 DEF Next

-----------------------------------------------------------------------------

(* IInv holds always: the three threads of a stream, interleaved in any    *)
(* way, keep buffers, block and order intact.                              *)
THEOREM Invariance == Spec => []IInv
<1>1. Init => IInv /\ Unstarted
    BY InitInv DEF Init, Unstarted
<1>2. IInv /\ Unstarted /\ [Next]_vars => IInv' /\ Unstarted'
    BY NextInv, UnstartedNext
<1> QED
    BY <1>1, <1>2, PTL DEF Spec

(* No ring buffer of a stream (m_ReceiveBuffer, siBuffer, cRemuxDummy's)   *)
(* is ever filled beyond its capacity, and every other variable stays in   *)
(* its range, for buffers of any size.                                     *)
THEOREM TypeCorrect == Spec => []TypeOK
<1>1. IInv => TypeOK
    BY DEF IInv
<1> QED
    BY <1>1, Invariance, PTL

(* The blocks that Get handed to Put and to Write stay within the buffers  *)
(* while the other threads go on (streamer.c Action, livestreamer.c Put).  *)
THEOREM BlocksValid == Spec => []BlockValid
<1>1. IInv => BlockValid
    BY DEF IInv
<1> QED
    BY <1>1, Invariance, PTL

(* Every unit the receive buffer accepted, and every one of the PAT        *)
(* packets Put inserts, reaches the socket or still waits in a buffer,     *)
(* exactly once and in order.                                              *)
THEOREM EachInOrder == Spec => []InOrder
<1>1. IInv => InOrder
    BY OrderIsInOrder DEF IInv, InOrder
<1> QED
    BY <1>1, Invariance, PTL

-----------------------------------------------------------------------------
(* What DeviceUnits computes.  It is a recursive function, so its values   *)
(* are found by induction on the length of a prefix: a set of numbers with *)
(* 0 and the successor of each of its members holds every number.          *)

LEMMA HasLeast ==
    ASSUME NEW T, T \subseteq Nat, T # {}
    PROVE  \E x \in T : \A y \in T : x <= y
<1>1. PICK x \in T : \A y \in T : ~ (<<y, x>> \in OpToRel(<, Nat))
    BY WFMin, NatLessThanWellFounded, Zenon
<1>2. \A y \in T : y \in Nat /\ ~(y < x)
    BY <1>1 DEF OpToRel
<1>3. x \in Nat
    OBVIOUS
<1> QED
    BY <1>2, <1>3

LEMMA SetInduction ==
    ASSUME NEW S, 0 \in S, \A n \in Nat : n \in S => n + 1 \in S
    PROVE  Nat \subseteq S
<1> SUFFICES ASSUME Nat \ S # {} PROVE FALSE
    OBVIOUS
<1>1. PICK x \in Nat \ S : \A y \in Nat \ S : x <= y
    BY HasLeast
<1>2. x # 0 /\ x - 1 \in Nat
    BY <1>1
<1>3. x - 1 \in S
    BY <1>1, <1>2
<1>4. (x - 1) + 1 = x
    BY <1>1
<1> QED
    BY <1>1, <1>2, <1>3, <1>4

(* The units 1, 2, ... m of the device, nothing else.                      *)
UpTo(m) == [i \in 1..m |-> i]

(* A last unit of the device is the greatest; any other last one changes   *)
(* nothing.                                                                *)
LEMMA DropLast ==
    ASSUME NEW s \in Seq(Int), NEW n \in 1..Len(s), NEW m \in Nat,
           DevPart(s, n, m)
    PROVE  /\ s[n] > 0 => m > 0 /\ s[n] = m /\ DevPart(s, n - 1, m - 1)
           /\ ~(s[n] > 0) => DevPart(s, n - 1, m)
<1>1. /\ n \in Nat /\ n > 0 /\ 1..n \subseteq 1..Len(s)
      /\ \A i \in 1..n : s[i] \in Int /\ s[i] <= m
    BY DEF DevPart
<1>2. \A i, j \in 1..n : i < j /\ s[i] > 0 /\ s[j] > 0 => s[i] < s[j]
    BY DEF DevPart
<1>3. \A k \in 1..m : \E i \in 1..n : s[i] = k
    BY DEF DevPart
<1>4. ASSUME s[n] > 0
      PROVE  m > 0 /\ s[n] = m /\ DevPart(s, n - 1, m - 1)
  <2>1. m > 0
    BY <1>1, <1>4
  <2>2. PICK i \in 1..n : s[i] = m
    BY <1>3, <2>1
  <2>3. s[n] = m
    BY SMTT(40), <1>1, <1>2, <1>4, <2>1, <2>2
  <2>4. \A j \in 1..(n - 1) : s[j] <= m - 1
    BY SMTT(40), <1>1, <1>2, <1>4, <2>1, <2>3
  <2>5. ASSUME NEW k \in 1..(m - 1)
        PROVE  \E j \in 1..(n - 1) : s[j] = k
    <3>1. PICK j \in 1..n : s[j] = k
        BY SMTT(40), <1>3
    <3>2. j # n
        BY <2>3, <3>1
    <3> QED
        BY <1>1, <3>1, <3>2
  <2>6. \A j, k \in 1..(n - 1) : j < k /\ s[j] > 0 /\ s[k] > 0 => s[j] < s[k]
    BY SMTT(40), <1>1, <1>2
  <2> QED
    BY <2>1, <2>3, <2>4, <2>5, <2>6 DEF DevPart
<1>5. ASSUME ~(s[n] > 0)
      PROVE  DevPart(s, n - 1, m)
  <2>1. ASSUME NEW k \in 1..m
        PROVE  \E j \in 1..(n - 1) : s[j] = k
    <3>1. PICK j \in 1..n : s[j] = k
        BY <1>3
    <3>2. j # n
        BY <1>5, <3>1
    <3> QED
        BY <1>1, <3>1, <3>2
  <2>2. \A j \in 1..(n - 1) : s[j] <= m
    BY <1>1
  <2>3. \A j, k \in 1..(n - 1) : j < k /\ s[j] > 0 /\ s[k] > 0 => s[j] < s[k]
    BY SMTT(40), <1>1, <1>2
  <2> QED
    BY <2>1, <2>2, <2>3 DEF DevPart
<1> QED
    BY <1>4, <1>5

(* The number of device units of a sequence is determined.                 *)
LEMMA PartUnique ==
    ASSUME NEW s \in Seq(Int), NEW n \in 0..Len(s), NEW m \in Nat, NEW l \in Nat,
           DevPart(s, n, m), DevPart(s, n, l)
    PROVE  m = l
<1>1. \A i \in 1..n : s[i] <= m /\ s[i] <= l /\ s[i] \in Int
    BY DEF DevPart
<1>2. m > 0 => \E i \in 1..n : s[i] = m
    BY DEF DevPart
<1>3. l > 0 => \E i \in 1..n : s[i] = l
    BY DEF DevPart
<1> QED
    BY SMTT(40), <1>1, <1>2, <1>3

(* Every prefix of units in order has its units in order.                  *)
LEMMA PrefixPart ==
    ASSUME NEW s \in Seq(Int), NEW m \in Nat, DevPart(s, Len(s), m)
    PROVE  \A k \in 0..Len(s) : \E d \in 0..m : DevPart(s, k, d)
<1> DEFINE P(j) == \E d \in 0..m : DevPart(s, Len(s) - j, d)
           S == {j \in Nat : j <= Len(s) => P(j)}
<1>0. Len(s) \in Nat
    OBVIOUS
<1>1. 0 \in S
  <2>1. Len(s) - 0 = Len(s) /\ m \in 0..m
    BY <1>0
  <2> QED
    BY <2>1, Zenon
<1>2. ASSUME NEW j \in Nat, j \in S
      PROVE  j + 1 \in S
  <2> SUFFICES ASSUME j + 1 <= Len(s) PROVE P(j + 1)
    BY <1>0
  <2>1. PICK d \in 0..m : DevPart(s, Len(s) - j, d)
    BY <1>0, <1>2
  <2> DEFINE n == Len(s) - j
  <2>2. n \in 1..Len(s) /\ d \in Nat /\ n - 1 = Len(s) - (j + 1)
    BY <1>0
  <2>3. DevPart(s, n, d)
    BY <2>1
  <2> HIDE DEF n
  <2>4. /\ s[n] > 0 => d > 0 /\ s[n] = d /\ DevPart(s, n - 1, d - 1)
        /\ ~(s[n] > 0) => DevPart(s, n - 1, d)
    BY <2>2, <2>3, DropLast
  <2>5. \E e \in 0..m : DevPart(s, n - 1, e)
    <3>1. CASE s[n] > 0
      <4>1. d - 1 \in 0..m
        BY <2>2, <2>4, <3>1
      <4> QED
        BY <2>4, <3>1, <4>1
    <3>2. CASE ~(s[n] > 0)
        BY <2>4, <3>2
    <3> QED
        BY <3>1, <3>2
  <2> QED
    BY <2>2, <2>5
<1> HIDE DEF P
<1>3. \A j \in Nat : j \in S => j + 1 \in S
    BY <1>2
<1> HIDE DEF S
<1>4. Nat \subseteq S
    BY <1>1, <1>3, SetInduction, Zenon
<1>5. ASSUME NEW k \in 0..Len(s)
      PROVE  \E d \in 0..m : DevPart(s, k, d)
  <2>1. Len(s) - k \in Nat /\ Len(s) - k <= Len(s) /\ Len(s) - (Len(s) - k) = k
    BY <1>0
  <2>2. P(Len(s) - k)
    BY <1>4, <2>1 DEF S
  <2> QED
    BY <2>1, <2>2 DEF P
<1> QED
    BY <1>5

LEMMA AppendUpTo ==
    ASSUME NEW m \in Nat, m > 0
    PROVE  Append(UpTo(m - 1), m) = UpTo(m)
BY DEF UpTo

(* Of units in order, DeviceUnits keeps 1, 2, ... m.                       *)
LEMMA DeviceUnitsAre ==
    ASSUME NEW s \in Seq(Int), NEW m \in Nat, DevPart(s, Len(s), m)
    PROVE  DeviceUnits(s) = UpTo(m)
<1> DEFINE Units(f) ==
             [n \in 0..Len(s) |->
                IF n = 0 THEN <<>>
                ELSE IF s[n] > 0 THEN Append(f[n - 1], s[n])
                ELSE f[n - 1]]
           count(k) == CHOOSE d \in 0..m : DevPart(s, k, d)
           g == [k \in 0..Len(s) |-> UpTo(count(k))]
           h == CHOOSE f : f = Units(f)
<1>0. Len(s) \in Nat
    OBVIOUS
<1>1. \A k \in 0..Len(s) : count(k) \in 0..m /\ DevPart(s, k, count(k))
    BY PrefixPart, Zenon
<1>2. \A k \in 0..Len(s), d \in Nat : DevPart(s, k, d) => count(k) = d
  <2> TAKE k \in 0..Len(s), d \in Nat
  <2> HAVE DevPart(s, k, d)
  <2>1. count(k) \in Nat /\ DevPart(s, k, count(k))
    BY <1>1
  <2> HIDE DEF count
  <2> QED
    BY <2>1, PartUnique
<1> HIDE DEF count
<1>3. count(0) = 0
  <2>1. 0 \in 0..Len(s) /\ 0 \in Nat /\ DevPart(s, 0, 0)
    BY <1>0 DEF DevPart
  <2> QED
    BY <1>2, <2>1
<1>4. count(Len(s)) = m
  <2>1. Len(s) \in 0..Len(s)
    BY <1>0
  <2> QED
    BY <1>2, <2>1
<1>5. ASSUME NEW n \in 1..Len(s)
      PROVE  UpTo(count(n)) = IF s[n] > 0 THEN Append(UpTo(count(n - 1)), s[n])
                              ELSE UpTo(count(n - 1))
  <2>1. /\ n \in 0..Len(s) /\ n - 1 \in 0..Len(s)
        /\ count(n) \in Nat /\ DevPart(s, n, count(n))
    BY <1>0, <1>1
  <2>2. CASE s[n] > 0
    <3>1. count(n) > 0 /\ s[n] = count(n) /\ DevPart(s, n - 1, count(n) - 1)
        BY <2>1, <2>2, DropLast
    <3>2. count(n) - 1 \in Nat
        BY SMTT(40), <2>1, <3>1
    <3>3. count(n - 1) = count(n) - 1
        BY <1>2, <2>1, <3>1, <3>2
    <3>4. Append(UpTo(count(n) - 1), count(n)) = UpTo(count(n))
        BY <2>1, <3>1, AppendUpTo
    <3> QED
        BY <2>2, <3>1, <3>3, <3>4
  <2>3. CASE ~(s[n] > 0)
    <3>1. DevPart(s, n - 1, count(n))
        BY <2>1, <2>3, DropLast
    <3>2. count(n - 1) = count(n)
        BY <1>2, <2>1, <3>1
    <3> QED
        BY <2>3, <3>2
  <2> QED
    BY <2>2, <2>3
<1>6. g = Units(g)
  <2>1. UpTo(0) = <<>>
    BY DEF UpTo
  <2>2. ASSUME NEW n \in 0..Len(s)
        PROVE  g[n] = IF n = 0 THEN <<>>
                      ELSE IF s[n] > 0 THEN Append(g[n - 1], s[n])
                      ELSE g[n - 1]
    <3>1. CASE n = 0
        BY <1>3, <2>1, <3>1
    <3>2. CASE n # 0
      <4>1. n \in 1..Len(s) /\ n - 1 \in 0..Len(s)
        BY <1>0, <3>2
      <4>2. g[n] = UpTo(count(n)) /\ g[n - 1] = UpTo(count(n - 1))
        BY <4>1
      <4> HIDE DEF g
      <4> QED
        BY <1>5, <3>2, <4>1, <4>2
    <3> QED
        BY <3>1, <3>2
  <2> QED
    BY <2>2
<1> HIDE DEF g
<1>7. h = Units(h)
    BY <1>6, Zenon
<1>8. DeviceUnits(s) = h[Len(s)]
    BY Zenon DEF DeviceUnits
<1> HIDE DEF h
<1> DEFINE S == {n \in Nat : n <= Len(s) => h[n] = g[n]}
<1>9. ASSUME NEW n \in 1..Len(s), h[n - 1] = g[n - 1]
      PROVE  h[n] = g[n]
  <2>1. n \in 0..Len(s) /\ n # 0
    BY <1>0
  <2>2. Units(h)[n] = IF s[n] > 0 THEN Append(h[n - 1], s[n]) ELSE h[n - 1]
    BY <2>1
  <2>3. Units(g)[n] = IF s[n] > 0 THEN Append(g[n - 1], s[n]) ELSE g[n - 1]
    BY <2>1
  <2> HIDE DEF Units
  <2> QED
    BY <1>6, <1>7, <1>9, <2>2, <2>3
<1>10. h[0] = g[0]
  <2>1. 0 \in 0..Len(s)
    BY <1>0
  <2>2. Units(h)[0] = <<>> /\ Units(g)[0] = <<>>
    BY <2>1
  <2> HIDE DEF Units
  <2> QED
    BY <1>6, <1>7, <2>2
<1> HIDE DEF Units
<1>11. \A n \in Nat : n \in S => n + 1 \in S
  <2> SUFFICES ASSUME NEW n \in Nat, n <= Len(s) => h[n] = g[n],
                      n + 1 <= Len(s)
               PROVE  h[n + 1] = g[n + 1]
    BY <1>0
  <2>1. n + 1 \in 1..Len(s) /\ (n + 1) - 1 = n /\ n <= Len(s)
    BY <1>0
  <2> QED
    BY <1>9, <2>1
<1>12. 0 \in S
    BY <1>10
<1>13. Nat \subseteq S
  <2> HIDE DEF S
  <2> QED
    BY <1>11, <1>12, SetInduction, Zenon
<1>14. h[Len(s)] = g[Len(s)]
    BY <1>0, <1>13
<1>15. g[Len(s)] = UpTo(m)
    BY <1>0, <1>4 DEF g
<1> QED
    BY <1>8, <1>14, <1>15

-----------------------------------------------------------------------------
(* The refinement of LossyFifo: Receive takes whole packets, WWrite        *)
(* delivers, the writer's way to "close" closes; all else is a stutter.    *)

(* PutTS stores whole packets.                                             *)
LEMMA WholePackets ==
    ASSUME NEW n \in Nat
    PROVE  (n - (n % Pkt)) % Pkt = 0
<1>1. Pkt \in Nat /\ Pkt > 0
    BY Capacities
<1> DEFINE q == n \div Pkt
<1>2. n = Pkt * q + (n % Pkt) /\ q \in Nat /\ n % Pkt \in 0..(Pkt - 1)
    BY <1>1
<1> HIDE DEF q
<1>3. n - (n % Pkt) = Pkt * q
    BY <1>1, <1>2
<1>4. (Pkt * q) % Pkt = 0
    BY <1>1, <1>2
<1> QED
    BY <1>3, <1>4

(* What was sent holds the first units of the device, as many as it holds, *)
(* and no more than were taken in.                                         *)
Delivered ==
    \E d \in Nat : /\ d <= accepted
                   /\ DevPart(sent, Len(sent), d)
                   /\ DeviceUnits(sent) = UpTo(d)

LEMMA SentUnits == IInv => Delivered
<1> SUFFICES ASSUME IInv PROVE Delivered
    OBVIOUS
<1>1. /\ TypeOK /\ BlockValid /\ Flow \in Seq(Int) /\ wOffset <= Len(remux)
      /\ sent \in Seq(Int) /\ accepted \in Nat /\ recv \in Seq(Int)
      /\ remux \in Seq(Int) /\ wOffset \in Nat
    BY FlowIsSeq DEF IInv, TypeOK
<1>2. Moved \in Nat /\ Moved <= accepted
    BY <1>1 DEF IInv, Order, QueuesInOrder, Moved
<1>3. DevPart(Flow, Len(Flow), Moved)
    BY DEF IInv, Order, FlowInOrder
<1>4. /\ Len(sent) \in 0..Len(Flow)
      /\ \A i \in 1..Len(sent) : Flow[i] = sent[i]
  <2>1. Drop(remux, wOffset) \in Seq(Int)
    BY <1>1, DropProperties
  <2> QED
    BY <1>1, <2>1, Cat DEF Flow
<1>5. PICK d \in 0..Moved : DevPart(Flow, Len(sent), d)
    BY <1>1, <1>2, <1>3, <1>4, PrefixPart
<1>6. DevPart(sent, Len(sent), d)
    BY <1>4, <1>5 DEF DevPart
<1>7. d \in Nat /\ d <= accepted
    BY <1>1, <1>2
<1> QED
    BY <1>1, <1>6, <1>7, DeviceUnitsAre DEF Delivered

(* The units in front of those appended last are at most as many, and the  *)
(* additional ones follow them.                                            *)
LEMMA UpToGrows ==
    ASSUME NEW m \in Nat, NEW l \in Nat, m <= l
    PROVE  /\ UpTo(l) = UpTo(m) \o [i \in 1..(l - m) |-> m + i]
           /\ Len(UpTo(l)) = l /\ Len(UpTo(m)) = m
BY DEF UpTo

fifo == <<accepted, DeviceUnits(sent), wPc \notin {"close", "ended"}>>

LEMMA ReceiveTakes ==
    ASSUME IInv, NEW k \in 1..2, Receive(k)
    PROVE  [Fifo!Next]_fifo
<1> DEFINE n == PutTS(recv, RecvCap, k * Pkt)
           fit == Least(RecvCap - Len(recv), k * Pkt)
<1>1. /\ Len(recv) \in Nat /\ accepted \in Nat /\ recv \in Seq(Int)
      /\ RecvCap \in Nat /\ Len(recv) <= RecvCap /\ k * Pkt \in Nat
    BY Capacities DEF IInv, TypeOK
<1>2. n \in Nat
    BY <1>1, PutTSFits
<1>3. n % Pkt = 0
  <2>1. fit \in Nat
    BY <1>1 DEF Least
  <2>2. (fit - (fit % Pkt)) % Pkt = 0
    BY <2>1, WholePackets
  <2> QED
    BY <2>2 DEF PutTS
<1>4. accepted' = accepted + n /\ sent' = sent /\ wPc' = wPc
    BY DEF Receive, writer
<1> HIDE DEF n, fit
<1>5. CASE n = 0
    BY <1>1, <1>4, <1>5 DEF fifo
<1>6. CASE n > 0
  <2>1. accepted' > accepted /\ accepted' - accepted = n
    BY <1>1, <1>2, <1>4, <1>6
  <2>2. (accepted' - accepted) % Pkt = 0
    BY <1>3, <2>1
  <2>3. Fifo!Take
    BY <1>4, <2>1, <2>2 DEF Fifo!Take
  <2> QED
    BY <2>3 DEF Fifo!Next
<1> QED
    BY <1>2, <1>5, <1>6

LEMMA WWriteDelivers ==
    ASSUME IInv, IInv', NEW n \in 1..wCount, WWrite(n)
    PROVE  [Fifo!Next]_fifo
<1>1. /\ sent \in Seq(Int) /\ sent' \in Seq(Int) /\ accepted \in Nat
      /\ wPc = "write" /\ wPc' \in {"get", "select"} /\ accepted' = accepted
      /\ sent' = sent \o Chunk(n)
    BY DEF WWrite, WUnchanged, source, IInv, TypeOK
<1>2. PICK d \in Nat : DevPart(sent, Len(sent), d) /\ DeviceUnits(sent) = UpTo(d)
    BY SentUnits DEF Delivered
<1>3. Delivered'
    BY SentUnits, PTL
<1>4. PICK e \in Nat : /\ e <= accepted
                       /\ DevPart(sent', Len(sent'), e)
                       /\ DeviceUnits(sent') = UpTo(e)
    BY <1>1, <1>3 DEF Delivered
<1>5. /\ Len(sent) \in 0..Len(sent')
      /\ \A i \in 1..Len(sent) : sent'[i] = sent[i]
  <2>1. Chunk(n) \in Seq(Int)
    <3>1. /\ wOffset \in Nat /\ wCount \in Nat /\ remux \in Seq(Int)
          /\ wOffset + wCount <= Len(remux) /\ Len(remux) \in Nat
        BY DEF IInv, TypeOK, BlockValid
    <3>2. SubSeq(remux, wOffset + 1, wOffset + n) \in Seq(Int)
        BY <3>1, Sub
    <3> QED
        BY <3>2 DEF Chunk
  <2> QED
    BY <1>1, <2>1, Cat
<1>6. d <= e
  <2>1. PICK f \in 0..e : DevPart(sent', Len(sent), f)
    BY <1>1, <1>4, <1>5, PrefixPart
  <2>2. DevPart(sent, Len(sent), f)
    BY <1>5, <2>1 DEF DevPart
  <2>3. f \in Nat /\ Len(sent) \in 0..Len(sent)
    BY <1>1
  <2>4. f = d
    BY <1>1, <1>2, <2>2, <2>3, PartUnique, Zenon
  <2> QED
    BY <2>4
<1>7. /\ UpTo(e) = UpTo(d) \o [i \in 1..(e - d) |-> d + i]
      /\ Len(UpTo(e)) = e /\ Len(UpTo(d)) = d
    BY <1>6, UpToGrows
<1>8. CASE d = e
    BY <1>1, <1>2, <1>4, <1>8 DEF fifo
<1>9. CASE d # e
  <2> DEFINE a == DeviceUnits(sent)
             b == DeviceUnits(sent')
  <2>1. /\ a = UpTo(d) /\ b = UpTo(e) /\ Len(b) - Len(a) = e - d
        /\ Len(a) = d /\ Len(b) = e
    BY <1>2, <1>4, <1>7
  <2>2. b = a \o [i \in 1..(Len(b) - Len(a)) |-> Len(a) + i]
    BY <1>7, <2>1, Zenon
  <2>3. Len(b) - Len(a) > 0 /\ Len(b) <= accepted
    BY <1>4, <1>6, <1>9, <2>1
  <2>4. /\ wPc \notin {"close", "ended"} /\ accepted' = accepted
        /\ (wPc' \notin {"close", "ended"}) = (wPc \notin {"close", "ended"})
    BY <1>1
  <2>5. Fifo!Deliver
    BY <2>2, <2>3, <2>4 DEF Fifo!Deliver
  <2> QED
    BY <2>5 DEF Fifo!Next
<1> QED
    BY <1>8, <1>9

LEMMA NextRefines ==
    ASSUME IInv, IInv', Unstarted, [Next]_vars
    PROVE  [Fifo!Next]_fifo
<1>1. CASE \E k \in 1..2 : Receive(k)
    BY <1>1, ReceiveTakes
<1>2. CASE \E n \in 1..wCount : WWrite(n)
    BY <1>2, WWriteDelivers
<1>3. CASE WIdle \/ WSelectTimeout \/ WWriteFails \/ WCancelled
  <2>1. accepted' = accepted /\ sent' = sent
    BY <1>3 DEF WIdle, WSelectTimeout, WWriteFails, WCancelled, WUnchanged, source
  <2>2. wPc \notin {"close", "ended"} /\ wPc' # "ended"
    BY <1>3 DEF WIdle, WSelectTimeout, WWriteFails, WCancelled
  <2>3. CASE wPc' = "close"
    <3>1. Fifo!Close
        BY <2>1, <2>2, <2>3 DEF Fifo!Close
    <3> QED
        BY <3>1 DEF Fifo!Next
  <2>4. CASE wPc' # "close"
    BY <2>1, <2>2, <2>4 DEF fifo
  <2> QED
    BY <2>3, <2>4
<1>4. CASE UNCHANGED <<accepted, sent, wPc>>
    BY <1>4 DEF fifo
<1>5. CASE WGet \/ WSelect \/ WClose \/ StartWriter
  <2>1. accepted' = accepted /\ sent' = sent
    BY <1>5 DEF WGet, WSelect, WClose, StartWriter, WUnchanged, CUnchanged, source
  <2>2. (wPc' \notin {"close", "ended"}) = (wPc \notin {"close", "ended"})
    BY <1>5 DEF WGet, WSelect, WClose, StartWriter, Unstarted
  <2> QED
    BY <2>1, <2>2 DEF fifo
<1>6. CASE QueuePat \/ LoseDevice \/ RegainDevice \/ StreamerStep \/ PeerGone
  <2>1. UNCHANGED <<accepted, sent, wPc>>
    BY <1>6
    DEF QueuePat, LoseDevice, RegainDevice, StreamerStep, SPrebuffered, SGet,
        SPutSi, SPut, SEnd, SUnchanged, PeerGone, writer, source
  <2> QED
    BY <1>4, <2>1
<1>7. CASE StartStreamer \/ Attach \/ StopOnAbort \/ StopOnRequest
           \/ CancelStreamer \/ CancelWriter \/ DeleteWriter
  <2>1. UNCHANGED <<accepted, sent, wPc>>
    BY <1>7
    DEF StartStreamer, Attach, StopOnAbort, StopOnRequest, StopDetach,
        CancelStreamer, CancelWriter, DeleteWriter, CUnchanged
  <2> QED
    BY <1>4, <2>1
<1>8. CASE UNCHANGED vars
    BY <1>4, <1>8 DEF vars, writer, source
<1> QED
    BY <1>1, <1>2, <1>3, <1>5, <1>6, <1>7, <1>8
    DEF Next, DeviceStep, WriterStep, OwnerStep

(* The data path of a stream is a lossy FIFO: what is lost is lost in      *)
(* Receive (and in whole packets), and what the writer sends of the device *)
(* are the accepted units, each once and in order, until it closes.        *)
THEOREM PipeIsFifo == Spec => ImplementsFifo
<1>1. Init => Fifo!Init
  <2> SUFFICES ASSUME Init PROVE Fifo!Init
    OBVIOUS
  <2>1. /\ IInv /\ accepted = 0 /\ sent = <<>> /\ wPc = "off" /\ Len(sent) = 0
    BY InitInv DEF Init
  <2>2. PICK d \in Nat : d <= accepted /\ DeviceUnits(sent) = UpTo(d)
    BY <2>1, SentUnits DEF Delivered
  <2>3. UpTo(0) = <<>>
    BY DEF UpTo
  <2> QED
    BY <2>1, <2>2, <2>3 DEF Fifo!Init
<1>2. Init => Unstarted
    BY DEF Init, Unstarted
<1>3. Unstarted /\ [Next]_vars => Unstarted'
    BY UnstartedNext
<1>4. IInv /\ IInv' /\ Unstarted /\ [Next]_vars => [Fifo!Next]_fifo
    BY NextRefines
<1> QED
    BY <1>1, <1>2, <1>3, <1>4, Invariance, PTL
    DEF Spec, ImplementsFifo, Fifo!Spec, fifo
=============================================================================
