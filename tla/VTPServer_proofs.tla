------------------------- MODULE VTPServer_proofs -------------------------
(***************************************************************************)
(* The server side of a VTP connection.                                    *)
(*                                                                         *)
(* That sections reach VDR whole, and open filters are served, for any     *)
(* filters, tables, sizes of sections and lengths of chunks, buffers and   *)
(* pipes. The invariant says where the first chunk of every section is of  *)
(* which there is a chunk on its way: ahead of it, in the buffer of the    *)
(* filter it will go to, lost (beheaded), or ignored by filters that have  *)
(* nothing of it; and that a filter is set in the server as often as it is *)
(* open, unless the server has forgotten filters.                          *)
(*                                                                         *)
(* That a list is answered whole whatever VDR does to it meanwhile, for    *)
(* any channels, recordings and schedules, and any number of changes. The  *)
(* invariant says of a handler that is not deleted that it has announced   *)
(* more with each line, and that what it points to is in its list while    *)
(* VDR has changed none. What LSTC has told comes before the channel it    *)
(* holds, or is gone, or was added again; while nothing changes, each      *)
(* list has been told up to the entry that is held, and of the EPG all     *)
(* that was asked for before the event or field that is held.              *)
(***************************************************************************)
EXTENDS SectionRelay, VTPLists, SequenceTheorems, FiniteSetTheorems,
        WellFoundedInduction, TLAPS

-----------------------------------------------------------------------------
(* Totals                                                                  *)

LEMMA HasLeast ==
    ASSUME NEW T, T \subseteq Nat, T # {}
    PROVE  \E x \in T : \A y \in T : x <= y
<1>1. PICK x \in T : \A y \in T : ~ (<<y, x>> \in OpToRel(<, Nat))
    BY WFMin, NatLessThanWellFounded, Zenon
<1>2. \A y \in T : y \in Nat /\ ~(y < x)
    BY <1>1 DEF OpToRel
<1>3. x \in Nat
    OBVIOUS
<1> QED
    BY <1>2, <1>3

LEMMA SetInduction ==
    ASSUME NEW S, 0 \in S, \A n \in Nat : n \in S => n + 1 \in S
    PROVE  Nat \subseteq S
<1> SUFFICES ASSUME Nat \ S # {} PROVE FALSE
    OBVIOUS
<1>1. PICK x \in Nat \ S : \A y \in Nat \ S : x <= y
    BY HasLeast
<1>2. x # 0 /\ x - 1 \in Nat
    BY <1>1
<1>3. x - 1 \in S
    BY <1>1, <1>2
<1>4. (x - 1) + 1 = x
    BY <1>1
<1> QED
    BY <1>1, <1>2, <1>3, <1>4

(* The first n of the sums Total goes through.                             *)
SumsTo(s, n, f) ==
    /\ f \in [0 .. n -> Nat] /\ f[0] = 0
    /\ \A i \in 1 .. n : f[i] = f[i - 1] + s[i]

LEMMA SumsExist ==
    ASSUME NEW s \in Seq(Nat)
    PROVE  \E f : SumsTo(s, Len(s), f)
<1> DEFINE S == {n \in Nat : n <= Len(s) => \E f : SumsTo(s, n, f)}
<1>1. 0 \in S
  <2>1. SumsTo(s, 0, [i \in 0 .. 0 |-> 0])
    BY DEF SumsTo
  <2> QED
    BY <2>1
<1>2. ASSUME NEW n \in Nat, n \in S PROVE n + 1 \in S
  <2> SUFFICES ASSUME n + 1 <= Len(s) PROVE \E f : SumsTo(s, n + 1, f)
    OBVIOUS
  <2>1. PICK f : SumsTo(s, n, f)
    BY <1>2
  <2>2. s[n + 1] \in Nat /\ f[n] \in Nat
    BY SMTT(40), <2>1 DEF SumsTo
  <2> DEFINE g == [i \in 0 .. n + 1 |-> IF i <= n THEN f[i] ELSE f[n] + s[n + 1]]
  <2>3. \A i \in 0 .. n + 1 : g[i] \in Nat
    BY SMTT(40), <2>1, <2>2 DEF SumsTo
  <2>4. g[0] = 0
    BY <2>1 DEF SumsTo
  <2>5. ASSUME NEW i \in 1 .. n + 1 PROVE g[i] = g[i - 1] + s[i]
    <3>1. CASE i <= n
        BY <2>1, <3>1 DEF SumsTo
    <3>2. CASE i = n + 1
        BY <2>1, <3>2 DEF SumsTo
    <3> QED
        BY <3>1, <3>2
  <2>6. SumsTo(s, n + 1, g)
    BY <2>3, <2>4, <2>5 DEF SumsTo
  <2> QED
    BY <2>6
<1>3. Nat \subseteq S
  <2> HIDE DEF S
  <2> QED
    BY <1>1, <1>2, SetInduction
<1>4. Len(s) \in S
    BY <1>3
<1> QED
    BY <1>4

LEMMA SumsUnique ==
    ASSUME NEW s \in Seq(Nat), NEW n \in Nat, n <= Len(s),
           NEW f, NEW g, SumsTo(s, n, f), SumsTo(s, n, g)
    PROVE  f = g
<1> DEFINE S == {i \in Nat : i <= n => f[i] = g[i]}
<1>1. 0 \in S
    BY DEF SumsTo
<1>2. ASSUME NEW i \in Nat, i \in S PROVE i + 1 \in S
    BY <1>2 DEF SumsTo
<1>3. Nat \subseteq S
  <2> HIDE DEF S
  <2> QED
    BY <1>1, <1>2, SetInduction
<1>4. \A i \in 0 .. n : f[i] = g[i]
    BY <1>3
<1> QED
    BY <1>4 DEF SumsTo

LEMMA TotalIs ==
    ASSUME NEW s \in Seq(Nat), NEW f, SumsTo(s, Len(s), f)
    PROVE  Total(s) = f[Len(s)]
<1> DEFINE Sums(g) == [i \in 0 .. Len(s) |-> IF i = 0 THEN 0 ELSE g[i - 1] + s[i]]
           t == CHOOSE g : g = Sums(g)
<1>1. f = Sums(f)
  <2>1. \A i \in 0 .. Len(s) : i # 0 => i \in 1 .. Len(s)
    OBVIOUS
  <2> QED
    BY <2>1 DEF SumsTo
<1>2. t = Sums(t)
    BY <1>1, Zenon
<1> HIDE DEF t
<1>3. SumsTo(s, Len(s), t)
  <2>1. t[0] = 0 /\ \A i \in 1 .. Len(s) : t[i] = t[i - 1] + s[i]
    BY SMTT(40), <1>2
  <2> DEFINE S == {i \in Nat : i <= Len(s) => t[i] \in Nat}
  <2>2. ASSUME NEW i \in Nat, i \in S PROVE i + 1 \in S
    BY SMTT(40), <2>1, <2>2
  <2>3. 0 \in S
    BY <2>1
  <2>4. Nat \subseteq S
    <3> HIDE DEF S
    <3> QED
        BY <2>2, <2>3, SetInduction
  <2>5. \A i \in 0 .. Len(s) : t[i] \in Nat
    BY <2>4
  <2>6. DOMAIN t = 0 .. Len(s) /\ t = [i \in DOMAIN t |-> t[i]]
    BY <1>2
  <2> QED
    BY <2>1, <2>5, <2>6 DEF SumsTo
<1>4. t = f
    BY <1>3, SumsUnique
<1> QED
    BY <1>4 DEF Total, t

(* A total grows by what is appended.                                      *)
LEMMA TotalAppend ==
    ASSUME NEW s \in Seq(Nat), NEW n \in Nat
    PROVE  Total(Append(s, n)) = Total(s) + n
<1> DEFINE a == Append(s, n)
<1>0. /\ a \in Seq(Nat) /\ Len(a) = Len(s) + 1 /\ a[Len(s) + 1] = n
      /\ \A i \in 1 .. Len(s) : a[i] = s[i]
    BY AppendProperties
<1> HIDE DEF a
<1>1. PICK f : SumsTo(a, Len(a), f)
    BY <1>0, SumsExist
<1> DEFINE g == [i \in 0 .. Len(s) |-> f[i]]
<1>2. SumsTo(s, Len(s), g)
  <2>1. \A i \in 0 .. Len(s) : f[i] \in Nat
    <3>1. \A i \in 0 .. Len(s) : i \in 0 .. Len(a)
        BY <1>0
    <3>2. f \in [0 .. Len(a) -> Nat]
        BY <1>1 DEF SumsTo
    <3> QED
        BY <3>1, <3>2
  <2>2. \A i \in 1 .. Len(s) : f[i] = f[i - 1] + s[i]
    BY <1>0, <1>1 DEF SumsTo
  <2> QED
    BY SMTT(40), <1>1, <2>1, <2>2 DEF SumsTo
<1>3. f[Len(s) + 1] = f[Len(s)] + n
    BY SMTT(40), <1>0, <1>1 DEF SumsTo
<1>4. Total(s) = g[Len(s)] /\ Total(a) = f[Len(a)]
    BY <1>0, <1>1, <1>2, TotalIs
<1> QED
    BY <1>0, <1>3, <1>4 DEF a

LEMMA TotalNat ==
    ASSUME NEW s \in Seq(Nat)
    PROVE  Total(s) \in Nat /\ (s = <<>> => Total(s) = 0)
<1>1. PICK f : SumsTo(s, Len(s), f)
    BY SumsExist
<1> QED
    BY SMTT(40), <1>1, TotalIs DEF SumsTo

-----------------------------------------------------------------------------
(* The invariant                                                           *)

Piece == [id : Nat, table : Tables, size : Nat, pos : Nat, len : Nat]
StreamerSet == [there : BOOLEAN, device : BOOLEAN, keys : [Keys -> Nat]]
FilterSet == [key : Keys, buffer : Seq(Piece), flushed : BOOLEAN, maxq : Nat,
              pipe : Seq(Seq(Piece)), closed : BOOLEAN]

TypeOK ==
    /\ streamer \in StreamerSet /\ forgotten \in BOOLEAN
    /\ rest \in Seq(Piece) /\ ring \in Seq(Piece) /\ wire \in Seq(Piece)
    /\ eof \in BOOLEAN /\ data \in BOOLEAN
    /\ filters \in Seq(FilterSet)
    /\ sections \in Nat /\ faults \in Nat

(* A chunk that the device delivers after another.                         *)
Behind(d, c) ==
    \/ d.id > c.id
    \/ /\ d.id = c.id /\ d.table = c.table /\ d.size = c.size
       /\ d.pos >= c.pos + c.len
Ordered(s) == \A i, j \in DOMAIN s : i < j => Behind(s[j], s[i])

(* The chunks on their way to the thread, in their order.                  *)
Flow == ToSet(wire) \cup ToSet(ring) \cup ToSet(rest)
FlowInv ==
    /\ Ordered(wire) /\ Ordered(ring) /\ Ordered(rest)
    /\ \A c \in ToSet(wire), d \in ToSet(ring) \cup ToSet(rest) : Behind(d, c)
    /\ \A c \in ToSet(ring), d \in ToSet(rest) : Behind(d, c)
    /\ \A c \in Flow : /\ c.id <= sections /\ c.len > 0 /\ c.size < BufSize
                       /\ c.pos + c.len <= c.size

(* Of chunks put together: each continues the one before it, but for one   *)
(* of a section whose first chunk was lost.                                *)
Linked(s, lost) ==
    \A i \in 2 .. Len(s) :
      \/ s[i].id = s[i - 1].id /\ s[i].pos > s[i - 1].pos
      \/ s[i].id > s[i - 1].id /\ s[i].id \in lost

(* What is in a buffer begins with a first chunk, and comes before what is *)
(* on its way.                                                             *)
BufferOK(b, flow, lost, n) ==
    /\ b # <<>> => b[1].pos = 0
    /\ Linked(b, lost) /\ Ordered(b)
    /\ \A k \in DOMAIN b : /\ b[k].id <= n /\ b[k].len > 0
                           /\ \A c \in flow : Behind(c, b[k])
Buffers == \A i \in DOMAIN filters :
             BufferOK(filters[i].buffer, Flow, beheaded, sections)

Matching(c, i) == c.table \in Matches[filters[i].key]
FirstMatch(c, i) == Matching(c, i) /\ \A j \in 1 .. i - 1 : ~Matching(c, j)

(* The first chunk of the section of c: it is before c, was lost, or is    *)
(* with the filter c will go to; or no filter was there to take it, and    *)
(* those opened since have nothing.                                        *)
Ahead(c) == \E d \in Flow : d.id = c.id /\ d.pos = 0
Taken(c, i) ==
    /\ FirstMatch(c, i) /\ filters[i].buffer # <<>>
    /\ filters[i].buffer[1].id = c.id /\ Used(filters[i].buffer) <= c.pos
Ignored(c) ==
    /\ \A d \in Flow : d.id >= c.id /\ (d.id = c.id => d.pos # 0)
    /\ \A i \in DOMAIN filters : Matching(c, i) => filters[i].buffer = <<>>
Headed(c) == \/ Ahead(c) \/ c.id \in beheaded \/ Ignored(c)
             \/ \E i \in DOMAIN filters : Taken(c, i)
HeadsInv == \A c \in Flow : c.pos # 0 => Headed(c)

WholeSection(s, lost) ==
    /\ s[1].pos = 0 /\ Used(s) = s[1].size /\ Linked(s, lost)
Pipes == \A i \in DOMAIN filters :
           \A s \in ToSet(filters[i].pipe) : WholeSection(s, beheaded)

(* Each filter is set at least as often as it is open.                     *)
Users(k) == {i \in DOMAIN filters : filters[i].key = k}
ServedInv ==
    ~forgotten => \A k \in Keys : Cardinality(Users(k)) <= streamer.keys[k]

IInv == /\ TypeOK /\ FlowInv /\ Buffers /\ HeadsInv /\ Pipes /\ ServedInv

LEMMA DomainFinite ==
    ASSUME NEW fs \in Seq(FilterSet), NEW S \in SUBSET DOMAIN fs
    PROVE  /\ IsFiniteSet(S) /\ Cardinality(S) \in Nat
           /\ \A T \in SUBSET S : Cardinality(T) <= Cardinality(S)
<1>1. PICK n \in Nat : DOMAIN fs = 1 .. n
    OBVIOUS
<1>2. IsFiniteSet(1 .. n)
    BY <1>1, FS_Interval
<1>3. IsFiniteSet(S)
    BY <1>1, <1>2, FS_Subset
<1> QED
    BY <1>3, FS_Subset, FS_CardinalityType

LEMMA UsersFinite ==
    ASSUME TypeOK, NEW k
    PROVE  IsFiniteSet(Users(k)) /\ Cardinality(Users(k)) \in Nat
<1>1. Users(k) \in SUBSET DOMAIN filters /\ filters \in Seq(FilterSet)
    BY DEF Users, TypeOK
<1> QED
    BY <1>1, DomainFinite

LEMMA Implied == IInv => SectionsWhole /\ FiltersServed
<1> SUFFICES ASSUME IInv PROVE SectionsWhole /\ FiltersServed
    OBVIOUS
<1>1. SectionsWhole
    BY SMTT(40) DEF IInv, SectionsWhole, Pipes, WholeSection, Linked, ToSet
<1>2. ASSUME ~forgotten, NEW i \in DOMAIN filters PROVE streamer.keys[filters[i].key] > 0
  <2> DEFINE k == filters[i].key
             c == Cardinality(Users(k))
  <2>1. k \in Keys /\ streamer.keys[k] \in Nat
    <3>1. filters[i] \in FilterSet /\ streamer \in StreamerSet
        BY DEF IInv, TypeOK
    <3> QED
        BY <3>1 DEF FilterSet, StreamerSet
  <2>2. IsFiniteSet(Users(k)) /\ c \in Nat /\ i \in Users(k)
    BY UsersFinite DEF IInv, Users
  <2>3. c # 0
    BY <2>2, FS_EmptySet
  <2>4. c <= streamer.keys[k]
    BY <1>2, <2>1 DEF IInv, ServedInv
  <2> HIDE DEF k, c
  <2>5. streamer.keys[k] > 0
    BY <2>1, <2>2, <2>3, <2>4
  <2> QED
    BY <2>5 DEF k
<1>3. FiltersServed
    BY <1>2 DEF FiltersServed, ToSet
<1> QED
    BY <1>1, <1>3

(* Nothing changes that the invariant ServedInv looks at.                  *)
LEMMA ServedSame ==
    ASSUME ServedInv, filters' = filters, streamer'.keys = streamer.keys,
           forgotten' = forgotten
    PROVE  ServedInv'
BY DEF ServedInv, Users

-----------------------------------------------------------------------------
(* Sequences of chunks                                                     *)

LEMMA TailSet ==
    ASSUME NEW S, NEW s \in Seq(S), s # <<>>
    PROVE  /\ Tail(s) \in Seq(S) /\ Head(s) \in S
           /\ ToSet(s) = ToSet(Tail(s)) \cup {Head(s)}
<1>1. /\ Tail(s) \in Seq(S) /\ Head(s) \in S /\ Len(s) \in Nat /\ Len(s) > 0
      /\ Len(Tail(s)) = Len(s) - 1 /\ Head(s) = s[1]
      /\ \A i \in 1 .. Len(s) - 1 : Tail(s)[i] = s[i + 1]
    BY HeadTailProperties, EmptySeq
<1>2. \A i \in 1 .. Len(s) : i = 1 \/ (i - 1 \in 1 .. Len(s) - 1 /\ (i - 1) + 1 = i)
    BY <1>1
<1>3. \A i \in 1 .. Len(s) - 1 : i + 1 \in 1 .. Len(s)
    BY <1>1
<1>4. DOMAIN s = 1 .. Len(s) /\ DOMAIN Tail(s) = 1 .. Len(s) - 1
    BY <1>1
<1>5. \A i \in DOMAIN s : s[i] \in ToSet(Tail(s)) \cup {Head(s)}
  <2> TAKE i \in DOMAIN s
  <2>1. CASE i = 1
    BY <1>1, <2>1
  <2>2. CASE i # 1
    <3>1. i - 1 \in DOMAIN Tail(s) /\ Tail(s)[i - 1] = s[i]
        BY <1>1, <1>2, <1>4, <2>2
    <3> QED
        BY <3>1 DEF ToSet
  <2> QED
    BY <2>1, <2>2
<1>6. \A i \in DOMAIN Tail(s) : Tail(s)[i] \in ToSet(s)
    BY <1>1, <1>3, <1>4 DEF ToSet
<1>7. Head(s) \in ToSet(s)
  <2>1. 1 \in DOMAIN s
    BY <1>1, <1>4
  <2> QED
    BY <1>1, <2>1 DEF ToSet
<1> QED
    BY <1>1, <1>5, <1>6, <1>7 DEF ToSet

LEMMA OrderedTail ==
    ASSUME NEW s \in Seq(Piece), s # <<>>, Ordered(s)
    PROVE  Ordered(Tail(s)) /\ \A d \in ToSet(Tail(s)) : Behind(d, Head(s))
<1>1. /\ Tail(s) \in Seq(Piece) /\ Len(s) \in Nat /\ Len(s) > 0
      /\ Len(Tail(s)) = Len(s) - 1 /\ Head(s) = s[1]
      /\ \A i \in 1 .. Len(s) - 1 : Tail(s)[i] = s[i + 1]
    BY HeadTailProperties, EmptySeq
<1>2. \A i \in 1 .. Len(s) - 1 : i + 1 \in 1 .. Len(s) /\ 1 < i + 1 /\ 1 \in 1 .. Len(s)
    BY <1>1
<1>3. \A i, j \in 1 .. Len(s) - 1 : i < j => i + 1 < j + 1
    OBVIOUS
<1>4. DOMAIN s = 1 .. Len(s) /\ DOMAIN Tail(s) = 1 .. Len(s) - 1
    BY <1>1
<1> QED
    BY ZenonT(40), <1>1, <1>2, <1>3, <1>4 DEF Ordered, ToSet

LEMMA AppendSet ==
    ASSUME NEW S, NEW s \in Seq(S), NEW c \in S
    PROVE  /\ Append(s, c) \in Seq(S)
           /\ ToSet(Append(s, c)) = ToSet(s) \cup {c}
           /\ Len(Append(s, c)) = Len(s) + 1
           /\ Append(s, c)[Len(s) + 1] = c
           /\ \A i \in 1 .. Len(s) : Append(s, c)[i] = s[i]
<1>1. /\ Append(s, c) \in Seq(S) /\ Len(s) \in Nat
      /\ Len(Append(s, c)) = Len(s) + 1
      /\ Append(s, c)[Len(s) + 1] = c
      /\ \A i \in 1 .. Len(s) : Append(s, c)[i] = s[i]
    BY AppendProperties
<1>2. 1 .. Len(s) + 1 = (1 .. Len(s)) \cup {Len(s) + 1}
    BY <1>1
<1> QED
    BY <1>1, <1>2 DEF ToSet

LEMMA OrderedAppend ==
    ASSUME NEW s \in Seq(Piece), NEW c \in Piece, Ordered(s),
           \A d \in ToSet(s) : Behind(c, d)
    PROVE  Ordered(Append(s, c))
<1>1. /\ Append(s, c) \in Seq(Piece) /\ Len(s) \in Nat
      /\ Len(Append(s, c)) = Len(s) + 1
      /\ Append(s, c)[Len(s) + 1] = c
      /\ \A i \in 1 .. Len(s) : Append(s, c)[i] = s[i]
    BY AppendProperties
<1>2. \A i, j \in 1 .. Len(s) + 1 : i < j =>
        i \in 1 .. Len(s) /\ (j \in 1 .. Len(s) \/ j = Len(s) + 1)
    BY <1>1
<1>3. DOMAIN s = 1 .. Len(s) /\ DOMAIN Append(s, c) = 1 .. Len(s) + 1
    BY <1>1
<1> QED
    BY <1>1, <1>2, <1>3 DEF Ordered, ToSet

LEMMA LensSeq ==
    ASSUME NEW s \in Seq(Piece)
    PROVE  [i \in DOMAIN s |-> s[i].len] \in Seq(Nat)
<1>1. \A i \in 1 .. Len(s) : s[i].len \in Nat
  <2> TAKE i \in 1 .. Len(s)
  <2>1. s[i] \in Piece
    OBVIOUS
  <2> QED
    BY <2>1 DEF Piece
<1>2. DOMAIN s = 1 .. Len(s) /\ Len(s) \in Nat
    OBVIOUS
<1> QED
    BY <1>1, <1>2, IsASeq

LEMMA UsedAppend ==
    ASSUME NEW s \in Seq(Piece), NEW c \in Piece
    PROVE  /\ Used(s) \in Nat /\ Used(Append(s, c)) = Used(s) + c.len
           /\ Used(<<>>) = 0
<1> DEFINE lens(r) == [i \in DOMAIN r |-> r[i].len]
<1>1. lens(s) \in Seq(Nat) /\ c.len \in Nat
    BY LensSeq DEF Piece
<1>2. lens(Append(s, c)) = Append(lens(s), c.len)
  <2>1. /\ Append(s, c) \in Seq(Piece) /\ Len(s) \in Nat
        /\ Len(Append(s, c)) = Len(s) + 1
        /\ Append(s, c)[Len(s) + 1] = c
        /\ \A i \in 1 .. Len(s) : Append(s, c)[i] = s[i]
    BY AppendProperties
  <2>2. DOMAIN Append(s, c) = 1 .. Len(s) + 1 /\ Len(lens(s)) = Len(s)
    BY <2>1
  <2>3. /\ Append(lens(s), c.len) \in Seq(Nat)
        /\ Len(Append(lens(s), c.len)) = Len(s) + 1
        /\ Append(lens(s), c.len)[Len(s) + 1] = c.len
        /\ \A i \in 1 .. Len(s) : Append(lens(s), c.len)[i] = lens(s)[i]
    BY <1>1, <2>2, AppendProperties
  <2>4. \A i \in 1 .. Len(s) + 1 : i \in 1 .. Len(s) \/ i = Len(s) + 1
    BY <2>1
  <2>5. \A i \in 1 .. Len(s) + 1 : lens(Append(s, c))[i] = Append(lens(s), c.len)[i]
    BY <2>1, <2>2, <2>3, <2>4
  <2>6. DOMAIN Append(lens(s), c.len) = 1 .. Len(s) + 1
    BY <2>3
  <2> QED
    BY <2>2, <2>3, <2>5, <2>6
<1>3. lens(<<>>) = <<>> /\ <<>> \in Seq(Nat)
    OBVIOUS
<1>4. /\ Used(s) = Total(lens(s)) /\ Used(<<>>) = Total(lens(<<>>))
      /\ Used(Append(s, c)) = Total(lens(Append(s, c)))
    BY DEF Used
<1> HIDE DEF lens
<1> QED
    BY <1>1, <1>2, <1>3, <1>4, TotalAppend, TotalNat

LEMMA QueueNat == ASSUME NEW f \in FilterSet PROVE Queue(f) \in Nat
<1> DEFINE u == [i \in DOMAIN f.pipe |-> Used(f.pipe[i])]
<1>1. \A i \in DOMAIN f.pipe : Used(f.pipe[i]) \in Nat
  <2> TAKE i \in DOMAIN f.pipe
  <2>1. f.pipe[i] \in Seq(Piece)
    BY DEF FilterSet
  <2>2. [k \in DOMAIN f.pipe[i] |-> f.pipe[i][k].len] \in Seq(Nat)
    BY <2>1, LensSeq
  <2> QED
    BY <2>2, TotalNat DEF Used
<1>2. u \in Seq(Nat)
  <2>1. DOMAIN f.pipe = 1 .. Len(f.pipe) /\ Len(f.pipe) \in Nat
    BY DEF FilterSet
  <2> QED
    BY <1>1, <2>1, IsASeq
<1> QED
    BY <1>2, TotalNat DEF Queue

-----------------------------------------------------------------------------
(* PutSection                                                              *)

LEMMA MaxNat == ASSUME NEW a \in Nat, NEW b \in Nat PROVE Max({a, b}) \in Nat
<1>1. \E x \in {a, b} : \A y \in {a, b} : x >= y
    OBVIOUS
<1> QED
    BY <1>1 DEF Max

(* What becomes of a filter that is given a chunk.                         *)
LEMMA PutIs ==
    ASSUME NEW f \in FilterSet, NEW c \in Piece
    PROVE  LET r == PutSection(f, c)
               have == Starts(f, c)
               all == Append(have, c)
           IN /\ r.filter \in FilterSet /\ r.filter.key = f.key
              /\ r.filter.closed = f.closed
              /\ ~r.ok => f.closed
              /\ have = <<>> /\ c.pos # 0 => r.filter = f /\ r.ok
              /\ have # <<>> \/ c.pos = 0 =>
                   /\ r.filter.buffer \in {<<>>, all}
                   /\ r.filter.pipe # f.pipe =>
                        r.filter.pipe = Append(f.pipe, all) /\ Used(all) = all[1].size
                   /\ Used(all) < BufSize /\ Used(all) < all[1].size =>
                        r.ok /\ r.filter.buffer = all
<1> DEFINE r == PutSection(f, c)
           have == Starts(f, c)
           all == Append(have, c)
           kept(b) == [filter |-> [f EXCEPT !.buffer = b], ok |-> TRUE]
<1> SUFFICES
      /\ r.filter \in FilterSet /\ r.filter.key = f.key
      /\ r.filter.closed = f.closed
      /\ ~r.ok => f.closed
      /\ have = <<>> /\ c.pos # 0 => r.filter = f /\ r.ok
      /\ have # <<>> \/ c.pos = 0 =>
           /\ r.filter.buffer \in {<<>>, all}
           /\ r.filter.pipe # f.pipe =>
                r.filter.pipe = Append(f.pipe, all) /\ Used(all) = all[1].size
           /\ Used(all) < BufSize /\ Used(all) < all[1].size =>
                r.ok /\ r.filter.buffer = all
    OBVIOUS
<1>1. /\ f.key \in Keys /\ f.buffer \in Seq(Piece) /\ f.flushed \in BOOLEAN
      /\ f.maxq \in Nat /\ f.pipe \in Seq(Seq(Piece)) /\ f.closed \in BOOLEAN
    BY DEF FilterSet
<1>2. have \in Seq(Piece)
    BY <1>1 DEF Starts
<1>3. all \in Seq(Piece) /\ Used(all) \in Nat
    BY <1>2, AppendSet, UsedAppend
<1>4. \A b \in Seq(Piece) : /\ [f EXCEPT !.buffer = b] \in FilterSet
                            /\ [f EXCEPT !.buffer = b].key = f.key
                            /\ [f EXCEPT !.buffer = b].closed = f.closed
                            /\ [f EXCEPT !.buffer = b].pipe = f.pipe
                            /\ [f EXCEPT !.buffer = b].buffer = b
    BY DEF FilterSet
<1>5. <<>> \in Seq(Piece)
    OBVIOUS
<1>6. /\ Complete(f, all).filter \in FilterSet
      /\ Complete(f, all).filter.key = f.key
      /\ Complete(f, all).filter.closed = f.closed
      /\ Complete(f, all).filter.buffer = <<>>
      /\ Complete(f, all).filter.pipe \in {f.pipe, Append(f.pipe, all)}
      /\ ~Complete(f, all).ok => f.closed
  <2> DEFINE maxq == IF f.flushed THEN Max({f.maxq, Queue(f)}) ELSE f.maxq
             ends == f.flushed /\ Queue(f) * 2 < maxq
             g == [f EXCEPT !.buffer = <<>>, !.maxq = IF ends THEN 0 ELSE maxq,
                            !.flushed = f.flushed /\ ~ends]
  <2>1. (IF ends THEN 0 ELSE maxq) \in Nat /\ (f.flushed /\ ~ends) \in BOOLEAN
    BY <1>1, QueueNat, MaxNat
  <2> HIDE DEF ends, maxq
  <2>2. /\ g \in FilterSet /\ g.key = f.key /\ g.closed = f.closed
        /\ g.buffer = <<>> /\ g.pipe = f.pipe
    BY <1>1, <1>5, <2>1 DEF FilterSet
  <2>3. Append(f.pipe, all) \in Seq(Seq(Piece))
    BY <1>1, <1>3, AppendSet
  <2> HIDE DEF g, all
  <2>4. /\ [g EXCEPT !.flushed = TRUE] \in FilterSet
        /\ [g EXCEPT !.flushed = TRUE].key = f.key
        /\ [g EXCEPT !.flushed = TRUE].closed = f.closed
        /\ [g EXCEPT !.flushed = TRUE].buffer = <<>>
        /\ [g EXCEPT !.flushed = TRUE].pipe = f.pipe
        /\ [g EXCEPT !.pipe = Append(@, all)] \in FilterSet
        /\ [g EXCEPT !.pipe = Append(@, all)].key = f.key
        /\ [g EXCEPT !.pipe = Append(@, all)].closed = f.closed
        /\ [g EXCEPT !.pipe = Append(@, all)].buffer = <<>>
        /\ [g EXCEPT !.pipe = Append(@, all)].pipe = Append(f.pipe, all)
    <3> DEFINE p == Append(f.pipe, all)
    <3>1. p = Append(g.pipe, all) /\ p \in Seq(Seq(Piece))
        BY <2>2, <2>3
    <3> HIDE DEF p
    <3>2. [g EXCEPT !.pipe = Append(@, all)] = [g EXCEPT !.pipe = p]
        BY <3>1
    <3>3. /\ [g EXCEPT !.pipe = p] \in FilterSet
          /\ [g EXCEPT !.pipe = p].key = g.key
          /\ [g EXCEPT !.pipe = p].closed = g.closed
          /\ [g EXCEPT !.pipe = p].buffer = g.buffer
          /\ [g EXCEPT !.pipe = p].pipe = p
        BY <2>2, <3>1 DEF FilterSet
    <3>4. /\ [g EXCEPT !.flushed = TRUE] \in FilterSet
          /\ [g EXCEPT !.flushed = TRUE].key = g.key
          /\ [g EXCEPT !.flushed = TRUE].closed = g.closed
          /\ [g EXCEPT !.flushed = TRUE].buffer = g.buffer
          /\ [g EXCEPT !.flushed = TRUE].pipe = g.pipe
        BY <2>2 DEF FilterSet
    <3> QED
        BY <2>2, <3>2, <3>3, <3>4 DEF p
  <2>5. Complete(f, all) =
          CASE g.flushed -> [filter |-> g, ok |-> TRUE]
            [] ~g.flushed /\ f.closed -> [filter |-> g, ok |-> FALSE]
            [] ~g.flushed /\ ~f.closed /\ Queue(f) + Used(all) > PipeSize ->
                 [filter |-> [g EXCEPT !.flushed = TRUE], ok |-> TRUE]
            [] OTHER ->
                 [filter |-> [g EXCEPT !.pipe = Append(@, all)], ok |-> TRUE]
    BY DEF Complete, ends, maxq, g
  <2>6. \/ Complete(f, all) = [filter |-> g, ok |-> TRUE]
        \/ f.closed /\ Complete(f, all) = [filter |-> g, ok |-> FALSE]
        \/ Complete(f, all) = [filter |-> [g EXCEPT !.flushed = TRUE], ok |-> TRUE]
        \/ Complete(f, all) = [filter |-> [g EXCEPT !.pipe = Append(@, all)], ok |-> TRUE]
    BY <2>5, Zenon
  <2> DEFINE h1 == [g EXCEPT !.flushed = TRUE]
             h2 == [g EXCEPT !.pipe = Append(@, all)]
  <2>7. \E hd \in {g, h1, h2}, b \in BOOLEAN :
           Complete(f, all) = [filter |-> hd, ok |-> b] /\ (~b => f.closed)
    BY <2>6
  <2>8. \A hd \in {g, h1, h2} :
          /\ hd \in FilterSet /\ hd.key = f.key /\ hd.closed = f.closed
          /\ hd.buffer = <<>> /\ hd.pipe \in {f.pipe, Append(f.pipe, all)}
    BY <2>2, <2>4
  <2> HIDE DEF h1, h2
  <2> QED
    BY <2>7, <2>8
<1> HIDE DEF all, have, r, kept
<1>7. r = CASE have = <<>> /\ c.pos # 0 -> [filter |-> f, ok |-> TRUE]
            [] (have # <<>> \/ c.pos = 0) /\ Used(all) >= BufSize -> kept(<<>>)
            [] (have # <<>> \/ c.pos = 0) /\ Used(all) < BufSize ->
                 IF Used(all) = all[1].size THEN Complete(f, all)
                 ELSE IF Used(all) > all[1].size /\ c.len < Full THEN kept(<<>>)
                 ELSE kept(all)
    BY Zenon DEF PutSection, all, have, r, kept
<1>8. CASE have = <<>> /\ c.pos # 0
  <2>1. r = [filter |-> f, ok |-> TRUE]
    BY <1>7, <1>8
  <2> QED
    BY <1>8, <2>1
<1>9. CASE (have # <<>> \/ c.pos = 0) /\ Used(all) >= BufSize
  <2>2. ~(Used(all) < BufSize)
    BY <1>3, <1>9, RelayAssumption DEF RelayAssumption
  <2>3. ~(have = <<>> /\ c.pos # 0)
    BY <1>9
  <2>1. r = kept(<<>>)
    BY <1>7, <1>9, <2>2, <2>3, Zenon
  <2> QED
    BY <1>4, <1>5, <1>9, <2>1, <2>2 DEF kept
<1>10. CASE (have # <<>> \/ c.pos = 0) /\ ~(Used(all) >= BufSize)
  <2>1. r = IF Used(all) = all[1].size THEN Complete(f, all)
            ELSE IF Used(all) > all[1].size /\ c.len < Full THEN kept(<<>>)
            ELSE kept(all)
    <3>1. Used(all) < BufSize /\ ~(have = <<>> /\ c.pos # 0)
        BY <1>3, <1>10, RelayAssumption DEF RelayAssumption
    <3> QED
        BY <1>7, <1>10, <3>1, Zenon
  <2>2. \A b \in {<<>>, all} :
          /\ kept(b).filter \in FilterSet /\ kept(b).filter.key = f.key
          /\ kept(b).filter.closed = f.closed /\ kept(b).ok
          /\ kept(b).filter.pipe = f.pipe /\ kept(b).filter.buffer = b
    BY <1>3, <1>4, <1>5 DEF kept
  <2>3. CASE Used(all) = all[1].size
    <3>1. r = Complete(f, all)
        BY <2>1, <2>3
    <3>2. ~(Used(all) < all[1].size)
        BY <1>3, <2>3
    <3> QED
        BY <1>6, <1>10, <2>3, <3>1, <3>2
  <2>4. CASE Used(all) # all[1].size
    <3>1. r = kept(all) \/ (Used(all) > all[1].size /\ r = kept(<<>>))
        BY <2>1, <2>4
    <3>2. all[1] \in Piece
        BY <1>2, <1>3, AppendSet DEF all
    <3>3. all[1].size \in Nat
        BY <3>2 DEF Piece
    <3>4. Used(all) < all[1].size => r = kept(all)
        BY <1>3, <3>1, <3>3
    <3> QED
        BY <1>10, <2>2, <3>1, <3>4
  <2> QED
    BY <2>3, <2>4
<1> QED
    BY SMTT(40), <1>8, <1>9, <1>10

-----------------------------------------------------------------------------
(* The server                                                              *)

LEMMA SetTyped == ASSUME NEW S, NEW s \in Seq(S) PROVE ToSet(s) \subseteq S
BY DEF ToSet

LEMMA FlowTyped == TypeOK => Flow \subseteq Piece
BY SetTyped DEF TypeOK, Flow

(* What is lost on the way, if its first chunks are told, does no harm.    *)
LEMMA FlowShrinks ==
    ASSUME IInv, Flow' \subseteq Flow, filters' = filters, sections' = sections,
           beheaded \subseteq beheaded',
           \A c \in Flow : c.pos = 0 /\ c \notin Flow' => c.id \in beheaded'
    PROVE  Buffers' /\ HeadsInv' /\ Pipes'
<1>1. Buffers'
  <2>1. \A b : BufferOK(b, Flow, beheaded, sections)
                 => BufferOK(b, Flow', beheaded', sections')
    BY DEF BufferOK, Linked
  <2> QED
    BY <2>1 DEF IInv, Buffers
<1>2. Pipes'
  <2>1. \A s : WholeSection(s, beheaded) => WholeSection(s, beheaded')
    BY DEF WholeSection, Linked
  <2> QED
    BY <2>1 DEF IInv, Pipes
<1>3. HeadsInv'
  <2> SUFFICES ASSUME NEW c \in Flow', c.pos # 0 PROVE Headed(c)'
    BY DEF HeadsInv
  <2>1. c \in Flow /\ Headed(c)
    BY DEF IInv, HeadsInv
  <2>2. CASE Ahead(c)
    BY <2>2 DEF Headed, Ahead
  <2>3. CASE c.id \in beheaded
    BY <2>3 DEF Headed
  <2>4. CASE Ignored(c)
    <3>1. Ignored(c)'
        BY <2>4 DEF Ignored, Matching
    <3> QED
        BY <3>1 DEF Headed
  <2>5. CASE \E i \in DOMAIN filters : Taken(c, i)
    <3>1. \A i : Taken(c, i) => Taken(c, i)'
        BY DEF Taken, FirstMatch, Matching
    <3> QED
        BY <2>5, <3>1 DEF Headed
  <2> QED
    BY <2>1, <2>2, <2>3, <2>4, <2>5 DEF Headed
<1> QED
    BY <1>1, <1>2, <1>3

LEMMA ReceiveInv == ASSUME IInv, Receive PROVE IInv'
<1> DEFINE hd == Head(rest)
<1>1. /\ rest \in Seq(Piece) /\ ring \in Seq(Piece) /\ wire \in Seq(Piece)
      /\ rest # <<>> /\ rest' = Tail(rest) /\ wire' = wire /\ filters' = filters
      /\ sections' = sections /\ streamer' = streamer /\ eof' = eof
      /\ data' = data /\ faults' = faults /\ forgotten' = forgotten
    BY DEF IInv, TypeOK, Receive
<1>2. /\ rest' \in Seq(Piece) /\ hd \in Piece
      /\ ToSet(rest) = ToSet(rest') \cup {hd}
      /\ Ordered(rest') /\ \A d \in ToSet(rest') : Behind(d, hd)
    BY <1>1, TailSet, OrderedTail DEF IInv, FlowInv
<1>3. ServedInv'
    BY <1>1, ServedSame DEF IInv
<1>4. CASE ring' = Append(ring, hd) /\ beheaded' = beheaded
  <2>1. ring' \in Seq(Piece) /\ ToSet(ring') = ToSet(ring) \cup {hd}
    BY <1>1, <1>2, <1>4, AppendSet
  <2>2. Ordered(ring')
    BY <1>1, <1>2, <1>4, OrderedAppend DEF IInv, FlowInv
  <2>3. Flow' = Flow
    BY <1>1, <1>2, <2>1 DEF Flow
  <2>4. FlowInv'
    BY <1>1, <1>2, <2>1, <2>2, <2>3 DEF IInv, FlowInv
  <2>5. Buffers' /\ HeadsInv' /\ Pipes'
    BY <1>1, <1>4, <2>3, FlowShrinks
  <2>6. TypeOK'
    BY <1>1, <1>2, <2>1 DEF IInv, TypeOK
  <2> QED
    BY <1>3, <2>4, <2>5, <2>6 DEF IInv
<1>5. CASE ring' = ring /\ beheaded' = beheaded \cup Heads(<<hd>>)
  <2>1. Flow' \subseteq Flow /\ \A c \in Flow : c \in Flow' \/ c = hd
    BY <1>1, <1>2, <1>5 DEF Flow
  <2>2. hd.pos = 0 => hd.id \in beheaded'
    BY <1>5 DEF Heads, ToSet
  <2>3. FlowInv'
    BY <1>1, <1>2, <1>5, <2>1 DEF IInv, FlowInv
  <2>4. Buffers' /\ HeadsInv' /\ Pipes'
    BY <1>1, <1>5, <2>1, <2>2, FlowShrinks
  <2>5. TypeOK'
    BY <1>1, <1>2, <1>5 DEF IInv, TypeOK
  <2> QED
    BY <1>3, <2>3, <2>4, <2>5 DEF IInv
<1> QED
    BY <1>4, <1>5 DEF Receive

LEMMA WriteInv == ASSUME IInv, Write PROVE IInv'
<1> DEFINE hd == Head(ring)
<1>1. /\ rest \in Seq(Piece) /\ ring \in Seq(Piece) /\ wire \in Seq(Piece)
      /\ ring # <<>> /\ ring' = Tail(ring) /\ wire' = Append(wire, hd)
      /\ UNCHANGED <<rest, filters, sections, streamer, eof, data, faults, beheaded,
                     forgotten>>
    BY DEF IInv, TypeOK, Write
<1>2. /\ ring' \in Seq(Piece) /\ hd \in Piece
      /\ ToSet(ring) = ToSet(ring') \cup {hd}
      /\ Ordered(ring') /\ \A d \in ToSet(ring') : Behind(d, hd)
    BY <1>1, TailSet, OrderedTail DEF IInv, FlowInv
<1>3. wire' \in Seq(Piece) /\ ToSet(wire') = ToSet(wire) \cup {hd}
    BY <1>1, <1>2, AppendSet
<1>4. Ordered(wire')
    BY <1>1, <1>2, OrderedAppend DEF IInv, FlowInv
<1>5. Flow' = Flow
    BY <1>1, <1>2, <1>3 DEF Flow
<1>6. FlowInv'
    BY <1>1, <1>2, <1>3, <1>4, <1>5 DEF IInv, FlowInv
<1>7. Buffers' /\ HeadsInv' /\ Pipes'
    BY <1>1, <1>5, FlowShrinks
<1>8. TypeOK'
    BY <1>1, <1>2, <1>3 DEF IInv, TypeOK
<1>9. ServedInv'
    BY <1>1, ServedSame DEF IInv
<1> QED
    BY <1>6, <1>7, <1>8, <1>9 DEF IInv

(* Filters are forgotten as long as there are any.                         *)
LEMMA ServedNone ==
    ASSUME filters' = filters, streamer' = NoStreamer, forgotten' = (filters # <<>>)
    PROVE  ServedInv'
<1> SUFFICES ASSUME filters = <<>>, NEW k \in Keys
             PROVE  Cardinality(Users(k)') <= streamer'.keys[k]
    BY DEF ServedInv
<1>1. Users(k)' = {} /\ streamer'.keys[k] = 0
    BY DEF Users, NoStreamer
<1> QED
    BY <1>1, FS_EmptySet

(* The streamer is deleted: ServerGone and CloseDataConnection.            *)
LEMMA DeleteInv ==
    ASSUME IInv, Delete, wire' = wire, filters' = filters, sections' = sections,
           eof' \in BOOLEAN, data' \in BOOLEAN, faults' \in Nat
    PROVE  IInv'
<1>1. /\ rest \in Seq(Piece) /\ ring \in Seq(Piece) /\ wire \in Seq(Piece)
      /\ rest' = <<>> /\ ring' = <<>> /\ streamer' = NoStreamer
      /\ beheaded' = beheaded \cup Heads(ring \o rest)
    BY DEF IInv, TypeOK, Delete
<1>2. ToSet(<<>>) = {} /\ Ordered(<<>>)
    BY DEF ToSet, Ordered
<1>3. \A c \in ToSet(ring) \cup ToSet(rest) : c.pos = 0 => c.id \in beheaded'
  <2>1. ToSet(ring) \cup ToSet(rest) \subseteq ToSet(ring \o rest)
    <3>1. /\ Len(ring) \in Nat /\ Len(rest) \in Nat
          /\ Len(ring \o rest) = Len(ring) + Len(rest)
          /\ \A i \in 1 .. Len(ring) : (ring \o rest)[i] = ring[i]
          /\ \A i \in 1 .. Len(rest) : (ring \o rest)[Len(ring) + i] = rest[i]
          /\ DOMAIN (ring \o rest) = 1 .. Len(ring) + Len(rest)
        BY <1>1
    <3>2. \A i \in DOMAIN ring : ring[i] \in ToSet(ring \o rest)
      <4>1. DOMAIN ring = 1 .. Len(ring)
        BY <1>1
      <4>2. \A i \in 1 .. Len(ring) : i \in 1 .. Len(ring) + Len(rest)
        BY <3>1
      <4> QED
        BY <3>1, <4>1, <4>2 DEF ToSet
    <3>3. \A i \in DOMAIN rest : rest[i] \in ToSet(ring \o rest)
      <4>1. DOMAIN rest = 1 .. Len(rest)
        BY <1>1
      <4>2. \A i \in 1 .. Len(rest) : Len(ring) + i \in 1 .. Len(ring) + Len(rest)
        BY <3>1
      <4> QED
        BY <3>1, <4>1, <4>2 DEF ToSet
    <3> QED
        BY <3>2, <3>3 DEF ToSet
  <2> QED
    BY <1>1, <2>1 DEF Heads
<1>4. Flow' = ToSet(wire)
    BY <1>1, <1>2 DEF Flow
<1>5. Flow' \subseteq Flow /\ \A c \in Flow : c \in Flow' \/ c \in ToSet(ring) \cup ToSet(rest)
    BY <1>4 DEF Flow
<1>6. Buffers' /\ HeadsInv' /\ Pipes'
    BY <1>1, <1>3, <1>5, FlowShrinks
<1>7. FlowInv'
    BY <1>1, <1>2, <1>5 DEF IInv, FlowInv
<1>8. TypeOK'
    BY <1>1 DEF IInv, TypeOK, NoStreamer, StreamerSet, Delete
<1>9. ServedInv'
    BY ServedNone DEF Delete
<1> QED
    BY <1>6, <1>7, <1>8, <1>9 DEF IInv

(* The chunks of a section lie behind each other, and within it.           *)
LEMMA Least2 ==
    ASSUME NEW a \in Int, NEW b \in Int
    PROVE  Min({a, b}) = IF a <= b THEN a ELSE b
<1>1. \E x \in {a, b} : \A y \in {a, b} : x <= y
    OBVIOUS
<1>2. Min({a, b}) \in {a, b} /\ \A y \in {a, b} : Min({a, b}) <= y
    BY <1>1 DEF Min
<1> QED
    BY <1>2

LEMMA Multiples ==
    ASSUME NEW F \in Nat \ {0}, NEW i \in Nat, NEW j \in Nat, i < j
    PROVE  i * F \in Nat /\ i * F + F <= j * F
<1>1. PICK k \in Nat : j = i + 1 + k
  <2>1. j - i - 1 \in Nat /\ j = i + 1 + (j - i - 1)
    OBVIOUS
  <2> QED
    BY <2>1
<1>2. j * F = i * F + F + k * F /\ k * F \in Nat /\ i * F \in Nat
    BY <1>1
<1> QED
    BY <1>2

LEMMA Quotient ==
    ASSUME NEW F \in Nat \ {0}, NEW m \in Nat, m >= F
    PROVE  /\ m \div F \in Nat /\ m \div F >= 1 /\ (m \div F) * F <= m
<1>1. m \div F \in Int /\ m % F \in 0 .. F - 1 /\ m = F * (m \div F) + (m % F)
    OBVIOUS
<1> DEFINE q == m \div F
           r == m % F
<1> HIDE DEF q, r
<1>2. q \in Int /\ r \in 0 .. F - 1 /\ m = F * q + r
    BY <1>1 DEF q, r
<1>3. q >= 1
  <2> SUFFICES ASSUME q <= 0 PROVE FALSE
    BY <1>2
  <2>1. F * q <= 0
    BY <1>2
  <2> QED
    BY <1>2, <2>1
<1>4. q * F <= m
  <2>1. q * F = F * q
    BY <1>2
  <2> QED
    BY <1>2, <2>1
<1> QED
    BY <1>2, <1>3, <1>4 DEF q

LEMMA ChunksAre ==
    ASSUME NEW id \in Nat, NEW t \in Tables, NEW size \in 1 .. BufSize - 1
    PROVE  LET s == Chunks(id, t, size) IN
           /\ s \in Seq(Piece) /\ Ordered(s)
           /\ \A c \in ToSet(s) : /\ c.id = id /\ c.len > 0 /\ c.size < BufSize
                                  /\ c.pos + c.len <= c.size
           /\ \E d \in ToSet(s) : d.pos = 0
<1> DEFINE n == (size + Full - 1) \div Full
           pos(i) == (i - 1) * Full
           len(i) == Min({Full, size - (i - 1) * Full})
           s == Chunks(id, t, size)
<1>1. Full \in Nat \ {0} /\ BufSize \in Nat /\ size \in Nat /\ size >= 1 /\ size < BufSize
    BY RelayAssumption DEF RelayAssumption
<1>2. n \in Nat /\ n >= 1 /\ n * Full <= size + Full - 1
  <2>1. size + Full - 1 \in Nat /\ size + Full - 1 >= Full
    BY <1>1
  <2> QED
    BY <1>1, <2>1, Quotient
<1>3. s = [i \in 1 .. n |-> [id |-> id, table |-> t, size |-> size, pos |-> pos(i),
                             len |-> len(i)]]
    BY DEF Chunks
<1> HIDE DEF n, s
<1>4. ASSUME NEW i \in 1 .. n
      PROVE  /\ pos(i) \in Nat /\ pos(i) < size
             /\ len(i) \in Nat /\ len(i) > 0 /\ len(i) <= Full
             /\ pos(i) + len(i) <= size
  <2>1. i - 1 \in Nat /\ i - 1 < n
    BY <1>2
  <2>2. pos(i) \in Nat /\ pos(i) + Full <= n * Full
    BY <1>1, <1>2, <2>1, Multiples
  <2>3. n * Full \in Nat
    BY <1>1, <1>2
  <2> HIDE DEF pos
  <2>4. pos(i) < size
    BY <1>1, <1>2, <2>2, <2>3
  <2>5. len(i) = Min({Full, size - pos(i)})
    BY DEF pos
  <2>6. len(i) = IF Full <= size - pos(i) THEN Full ELSE size - pos(i)
    BY <1>1, <2>2, <2>5, Least2
  <2> QED
    BY <1>1, <2>2, <2>4, <2>6
<1>5. \A i, j \in 1 .. n : i < j => pos(j) >= pos(i) + len(i)
  <2> TAKE i, j \in 1 .. n
  <2> HAVE i < j
  <2>1. i - 1 \in Nat /\ j - 1 \in Nat /\ i - 1 < j - 1
    BY <1>2
  <2>2. pos(i) + Full <= pos(j)
    BY <1>1, <2>1, Multiples
  <2>3. len(i) \in Nat /\ len(i) <= Full /\ pos(i) \in Nat /\ pos(j) \in Nat
    BY <1>4
  <2> HIDE DEF pos, len
  <2> QED
    BY <1>1, <2>2, <2>3
<1>6. pos(1) = 0
    BY <1>1
<1> HIDE DEF pos, len
<1>7. /\ DOMAIN s = 1 .. n
      /\ \A i \in 1 .. n : /\ s[i] \in Piece /\ s[i].id = id /\ s[i].size = size
                           /\ s[i].table = t /\ s[i].pos = pos(i) /\ s[i].len = len(i)
    BY <1>1, <1>3, <1>4 DEF Piece
<1>8. s \in Seq(Piece)
  <2>1. s = [i \in 1 .. n |-> s[i]]
    BY <1>3
  <2> QED
    BY <1>2, <1>7, <2>1, IsASeq
<1>9. Ordered(s)
    BY <1>5, <1>7 DEF Ordered, Behind
<1>10. \A c \in ToSet(s) : /\ c.id = id /\ c.len > 0 /\ c.size < BufSize
                           /\ c.pos + c.len <= c.size
    BY <1>1, <1>4, <1>7 DEF ToSet
<1>11. s[1] \in ToSet(s) /\ s[1].pos = 0
    BY <1>2, <1>6, <1>7 DEF ToSet
<1> QED
    BY <1>8, <1>9, <1>10, <1>11 DEF s

LEMMA ProcessInv ==
    ASSUME IInv, NEW t \in Tables, NEW size \in Sizes[t], Process(t, size)
    PROVE  IInv'
<1> DEFINE id == sections'
<1>1. /\ rest = <<>> /\ rest' = Chunks(id, t, size) /\ sections' = sections + 1
      /\ UNCHANGED <<streamer, ring, wire, eof, data, filters, faults, beheaded,
                     forgotten>>
      /\ sections \in Nat /\ ring \in Seq(Piece) /\ wire \in Seq(Piece)
      /\ filters \in Seq(FilterSet) /\ id \in Nat
    BY DEF IInv, TypeOK, Process
<1>2. size \in 1 .. BufSize - 1
    BY RelayAssumption DEF RelayAssumption
<1>3. /\ rest' \in Seq(Piece) /\ Ordered(rest')
      /\ \A c \in ToSet(rest') : /\ c.id = id /\ c.len > 0 /\ c.size < BufSize
                                 /\ c.pos + c.len <= c.size
      /\ \E d \in ToSet(rest') : d.pos = 0
  <2> HIDE DEF id
  <2> QED
    BY SMTT(40), <1>1, <1>2, ChunksAre
<1>4. ToSet(rest) = {}
    BY <1>1 DEF ToSet
<1>5. Flow' = Flow \cup ToSet(rest')
    BY <1>1, <1>4 DEF Flow
<1>6. Flow \subseteq Piece /\ ToSet(rest') \subseteq Piece
    BY <1>3, FlowTyped, SetTyped DEF IInv
<1>7. \A c \in Flow, d \in ToSet(rest') : d.id > c.id
  <2> TAKE c \in Flow, d \in ToSet(rest')
  <2>1. c.id \in Nat /\ c.id <= sections
    BY <1>6 DEF Piece, IInv, FlowInv
  <2> QED
    BY <1>1, <1>3, <2>1
<1>8. FlowInv'
  <2>1. \A c \in Flow' : /\ c.id <= id /\ c.len > 0 /\ c.size < BufSize
                         /\ c.pos + c.len <= c.size
    <3>1. \A c \in Flow : c.id <= id
      <4> TAKE c \in Flow
      <4>1. c.id \in Nat /\ c.id <= sections
        BY <1>6 DEF Piece, IInv, FlowInv
      <4> QED
        BY <1>1, <4>1
    <3> QED
        BY <1>1, <1>3, <1>5, <3>1 DEF IInv, FlowInv
  <2>2. \A c \in ToSet(wire) \cup ToSet(ring), d \in ToSet(rest') : Behind(d, c)
    BY <1>7 DEF Flow, Behind
  <2> QED
    BY <1>1, <1>3, <2>1, <2>2 DEF IInv, FlowInv
<1>9. Buffers'
  <2> SUFFICES ASSUME NEW i \in DOMAIN filters
               PROVE  BufferOK(filters[i].buffer, Flow', beheaded, id)
    BY <1>1 DEF Buffers
  <2> DEFINE b == filters[i].buffer
  <2>1. BufferOK(b, Flow, beheaded, sections) /\ b \in Seq(Piece)
    <3>1. filters[i] \in FilterSet
        BY <1>1
    <3> QED
        BY <3>1 DEF IInv, Buffers, FilterSet
  <2> HIDE DEF b
  <2>2. \A k \in DOMAIN b : /\ b[k].id <= id
                            /\ \A d \in ToSet(rest') : Behind(d, b[k])
    <3> TAKE k \in DOMAIN b
    <3>1. b[k] \in Piece /\ b[k].id <= sections
        BY <2>1 DEF BufferOK
    <3>2. b[k].id \in Nat
        BY <3>1 DEF Piece
    <3> QED
        BY <1>1, <1>3, <3>1, <3>2 DEF Behind
  <2> QED
    BY <1>5, <2>1, <2>2 DEF BufferOK, b
<1>10. Pipes' /\ ServedInv'
    BY <1>1, ServedSame DEF IInv, Pipes
<1>11. HeadsInv'
  <2> SUFFICES ASSUME NEW c \in Flow', c.pos # 0 PROVE Headed(c)'
    BY DEF HeadsInv
  <2>1. CASE c \in ToSet(rest')
    <3>1. Ahead(c)'
        BY <1>3, <1>5, <2>1 DEF Ahead
    <3> QED
        BY <3>1 DEF Headed
  <2>2. CASE c \in Flow
    <3>1. Headed(c)
        BY <2>2 DEF IInv, HeadsInv
    <3>2. CASE Ahead(c)
        BY <1>5, <3>2 DEF Ahead, Headed
    <3>3. CASE c.id \in beheaded
        BY <1>1, <3>3 DEF Headed
    <3>4. CASE Ignored(c)
      <4>1. c.id \in Nat
        BY <1>6, <2>2 DEF Piece
      <4>2. \A d \in ToSet(rest') : d.id \in Nat /\ d.id > c.id
        BY <1>6, <1>7, <2>2 DEF Piece
      <4>3. \A d \in Flow' : d.id >= c.id /\ (d.id = c.id => d.pos # 0)
        BY <1>5, <3>4, <4>1, <4>2 DEF Ignored
      <4>4. Ignored(c)'
        BY <1>1, <3>4, <4>3 DEF Ignored, Matching
      <4> QED
        BY <4>4 DEF Headed
    <3>5. CASE \E i \in DOMAIN filters : Taken(c, i)
      <4>1. \A i : Taken(c, i) => Taken(c, i)'
        BY <1>1 DEF Taken, FirstMatch, Matching
      <4> QED
        BY <1>1, <3>5, <4>1 DEF Headed
    <3> QED
        BY <3>1, <3>2, <3>3, <3>4, <3>5 DEF Headed
  <2> QED
    BY <1>5, <2>1, <2>2
<1>12. TypeOK'
    BY <1>1, <1>3 DEF IInv, TypeOK
<1> QED
    BY <1>8, <1>9, <1>10, <1>11, <1>12 DEF IInv

-----------------------------------------------------------------------------
(* The client                                                              *)

FlowSame == UNCHANGED <<rest, ring, wire, sections>>

LEMMA SameFlow == IInv /\ FlowSame => FlowInv' /\ Flow' = Flow
BY DEF IInv, FlowSame, FlowInv, Flow

(* Filters that keep their keys.                                           *)
LEMMA ServedKeys ==
    ASSUME ServedInv, DOMAIN filters' = DOMAIN filters,
           \A i \in DOMAIN filters : filters'[i].key = filters[i].key,
           streamer' = streamer, forgotten' = forgotten
    PROVE  ServedInv'
<1>1. \A k : Users(k)' = Users(k)
    BY DEF Users
<1> QED
    BY <1>1 DEF ServedInv

(* Filters that keep their keys and buffers.                               *)
LEMMA FiltersKept ==
    ASSUME IInv, FlowSame, beheaded' = beheaded, filters' \in Seq(FilterSet),
           Len(filters') = Len(filters),
           \A i \in DOMAIN filters :
             /\ filters'[i].key = filters[i].key
             /\ filters'[i].buffer = filters[i].buffer
             /\ ToSet(filters'[i].pipe) \subseteq ToSet(filters[i].pipe)
    PROVE  FlowInv' /\ Buffers' /\ HeadsInv' /\ Pipes'
<1>1. DOMAIN filters' = DOMAIN filters /\ FlowInv' /\ Flow' = Flow
      /\ filters \in Seq(FilterSet)
    BY SameFlow DEF IInv, TypeOK
<1>2. Buffers' /\ Pipes'
    BY <1>1 DEF IInv, Buffers, Pipes, FlowSame
<1>3. DOMAIN filters = 1 .. Len(filters) /\ Len(filters) \in Nat
    BY <1>1
<1>4. \A c, i : i \in DOMAIN filters => (Matching(c, i)' <=> Matching(c, i))
    BY DEF Matching
<1>5. \A c, i : i \in DOMAIN filters => (Taken(c, i) => Taken(c, i)')
  <2> TAKE c, i
  <2> HAVE i \in DOMAIN filters
  <2> HAVE Taken(c, i)
  <2>1. \A j \in 1 .. i - 1 : j \in DOMAIN filters
    BY <1>3
  <2>2. FirstMatch(c, i)'
    BY <1>4, <2>1 DEF Taken, FirstMatch
  <2> QED
    BY <2>2 DEF Taken
<1>6. \A c : Ignored(c) => Ignored(c)'
    BY <1>1, <1>4 DEF Ignored
<1>7. HeadsInv'
    BY <1>1, <1>5, <1>6 DEF IInv, HeadsInv, Headed, Ahead
<1> QED
    BY <1>1, <1>2, <1>7

LEMMA ClosePipeInv ==
    ASSUME IInv, NEW i \in DOMAIN filters, ClosePipe(i)
    PROVE  IInv'
<1>1. /\ filters \in Seq(FilterSet) /\ faults \in Nat /\ faults' = faults + 1
      /\ filters' = [filters EXCEPT ![i].closed = TRUE]
      /\ UNCHANGED <<streamer, rest, ring, wire, eof, data, sections, beheaded,
                     forgotten>>
    BY DEF IInv, TypeOK, ClosePipe
<1>2. DOMAIN filters = 1 .. Len(filters) /\ Len(filters) \in Nat
    BY <1>1
<1>3. \A k \in DOMAIN filters : filters[k] \in FilterSet
    BY <1>1
<1>4. \A k \in DOMAIN filters : /\ filters'[k] \in FilterSet
                                /\ filters'[k].key = filters[k].key
                                /\ filters'[k].buffer = filters[k].buffer
                                /\ filters'[k].pipe = filters[k].pipe
    BY ZenonT(40), <1>1, <1>3 DEF FilterSet
<1>5. filters' \in Seq(FilterSet) /\ Len(filters') = Len(filters)
  <2>1. DOMAIN filters' = 1 .. Len(filters)
    BY <1>1, <1>2
  <2>2. filters' = [k \in 1 .. Len(filters) |-> filters'[k]]
    BY <1>1, <1>2
  <2> QED
    BY <1>2, <1>4, <2>1, <2>2, IsASeq
<1>6. FlowInv' /\ Buffers' /\ HeadsInv' /\ Pipes'
    BY <1>1, <1>4, <1>5, FiltersKept DEF FlowSame
<1>7. TypeOK'
    BY <1>1, <1>5 DEF IInv, TypeOK
<1>8. ServedInv'
    BY <1>1, <1>4, ServedKeys DEF IInv
<1> QED
    BY <1>6, <1>7, <1>8 DEF IInv

LEMMA ReadPipeInv ==
    ASSUME IInv, NEW i \in DOMAIN filters, ReadPipe(i)
    PROVE  IInv'
<1>1. /\ filters \in Seq(FilterSet) /\ faults' = faults
      /\ filters' = [filters EXCEPT ![i].pipe = Tail(@)] /\ filters[i].pipe # <<>>
      /\ UNCHANGED <<streamer, rest, ring, wire, eof, data, sections, beheaded,
                     forgotten>>
    BY DEF IInv, TypeOK, ReadPipe
<1>2. DOMAIN filters = 1 .. Len(filters) /\ Len(filters) \in Nat
    BY <1>1
<1>3. \A k \in DOMAIN filters : filters[k] \in FilterSet
    BY <1>1
<1>4. /\ Tail(filters[i].pipe) \in Seq(Seq(Piece))
      /\ ToSet(Tail(filters[i].pipe)) \subseteq ToSet(filters[i].pipe)
  <2>1. filters[i].pipe \in Seq(Seq(Piece))
    BY <1>3 DEF FilterSet
  <2> QED
    BY <1>1, <2>1, TailSet
<1>5. \A k \in DOMAIN filters :
        /\ filters'[k] \in FilterSet
        /\ filters'[k].key = filters[k].key
        /\ filters'[k].closed = filters[k].closed
        /\ filters'[k].buffer = filters[k].buffer
        /\ ToSet(filters'[k].pipe) \subseteq ToSet(filters[k].pipe)
  <2> TAKE k \in DOMAIN filters
  <2>1. CASE k = i
    <3> DEFINE p == Tail(filters[i].pipe)
    <3> HIDE DEF p
    <3>1. filters'[i] = [filters[i] EXCEPT !.pipe = p]
        BY <1>1 DEF p
    <3>2. p \in Seq(Seq(Piece)) /\ ToSet(p) \subseteq ToSet(filters[i].pipe)
        BY <1>4 DEF p
    <3>3. filters[i] \in FilterSet
        BY <1>3
    <3> QED
        BY <2>1, <3>1, <3>2, <3>3 DEF FilterSet
  <2>2. CASE k # i
    <3>1. filters'[k] = filters[k]
        BY <1>1, <2>2
    <3> QED
        BY <1>3, <3>1
  <2> QED
    BY <2>1, <2>2
<1>6. filters' \in Seq(FilterSet) /\ Len(filters') = Len(filters)
      /\ DOMAIN filters' = DOMAIN filters
  <2>1. DOMAIN filters' = 1 .. Len(filters)
    BY <1>1, <1>2
  <2>2. filters' = [k \in 1 .. Len(filters) |-> filters'[k]]
    BY <1>1, <1>2
  <2> QED
    BY <1>2, <1>5, <2>1, <2>2, IsASeq
<1>7. FlowInv' /\ Buffers' /\ HeadsInv' /\ Pipes'
    BY <1>1, <1>5, <1>6, FiltersKept DEF FlowSame
<1>8. TypeOK'
    BY <1>1, <1>6 DEF IInv, TypeOK
<1>9. ServedInv'
    BY <1>1, <1>5, <1>6, ServedKeys DEF IInv
<1> QED
    BY <1>7, <1>8, <1>9 DEF IInv

LEMMA SetFilterIs ==
    ASSUME NEW s \in StreamerSet, NEW n \in [Keys -> Int]
    PROVE  /\ SetFilter(s, n) \in StreamerSet
           /\ SetFilter(s, n).device = s.device
           /\ ~s.device => SetFilter(s, n) = s
           /\ s.device => \A k \in Keys : /\ SetFilter(s, n).keys[k] >= s.keys[k] + n[k]
                                          /\ SetFilter(s, n).keys[k] \in Nat
<1>1. \A k \in Keys : /\ Max({s.keys[k] + n[k], 0}) \in Nat
                      /\ Max({s.keys[k] + n[k], 0}) >= s.keys[k] + n[k]
  <2> TAKE k \in Keys
  <2>1. PICK x \in Int : x = s.keys[k] + n[k]
    BY DEF StreamerSet
  <2>2. \E u \in {x, 0} : \A v \in {x, 0} : u >= v
    OBVIOUS
  <2>3. Max({x, 0}) \in {x, 0} /\ Max({x, 0}) >= x /\ Max({x, 0}) >= 0
    BY <2>2 DEF Max
  <2> QED
    BY <2>1, <2>3
<1> DEFINE q == [k \in Keys |-> Max({s.keys[k] + n[k], 0})]
<1>2. q \in [Keys -> Nat] /\ \A k \in Keys : q[k] >= s.keys[k] + n[k]
    BY <1>1
<1>3. SetFilter(s, n) = IF ~s.device THEN s ELSE [s EXCEPT !.keys = q]
    BY DEF SetFilter
<1> HIDE DEF q
<1>4. s.device => SetFilter(s, n).keys = q
    BY <1>3 DEF StreamerSet
<1> QED
    BY <1>2, <1>3, <1>4 DEF StreamerSet

(* How many filters there are, as it is told to the server.                *)
LEMMA CountIs ==
    ASSUME NEW fs \in Seq(FilterSet), NEW S \in SUBSET DOMAIN fs
    PROVE  /\ Count(fs, S) \in [Keys -> Nat]
           /\ \A k \in Keys :
                Count(fs, S)[k] = Cardinality({i \in S : fs[i].key = k})
<1>1. ASSUME NEW k \in Keys PROVE Cardinality({i \in S : fs[i].key = k}) \in Nat
  <2>1. {i \in S : fs[i].key = k} \in SUBSET DOMAIN fs
    OBVIOUS
  <2> QED
    BY <2>1, DomainFinite
<1> QED
    BY <1>1 DEF Count

LEMMA OpenFilterInv ==
    ASSUME IInv, NEW k \in Keys, OpenFilter(k)
    PROVE  IInv'
<1> DEFINE s == SetConnection(streamer)
           one == Count(<<Filter(k)>>, {1})
<1>1. /\ streamer' = SetFilter(s, one) /\ data' = TRUE /\ eof' = (data /\ eof)
      /\ UNCHANGED <<rest, ring, wire, sections, faults, beheaded>>
      /\ filters' = IF s.device THEN Append(filters, Filter(k)) ELSE filters
      /\ forgotten' = (forgotten /\ (data \/ ~s.device))
      /\ filters \in Seq(FilterSet) /\ eof \in BOOLEAN /\ data \in BOOLEAN
      /\ streamer \in StreamerSet /\ forgotten \in BOOLEAN
    BY DEF IInv, TypeOK, OpenFilter
<1>2. /\ s \in StreamerSet
      /\ ~forgotten' => \A j \in Keys : Cardinality(Users(j)) <= s.keys[j]
  <2>1. CASE data
    <3>1. s = streamer
        BY <2>1 DEF SetConnection
    <3> QED
        BY <1>1, <2>1, <3>1 DEF IInv, ServedInv
  <2>2. CASE ~data
    <3> DEFINE t == [streamer EXCEPT !.there = TRUE]
               n == Count(filters, DOMAIN filters)
    <3>1. /\ t \in StreamerSet /\ t.device = streamer.device /\ t.keys = streamer.keys
          /\ s = SetFilter(t, n)
        BY <1>1, <2>2 DEF SetConnection, StreamerSet
    <3>2. /\ n \in [Keys -> Nat]
          /\ \A j \in Keys : n[j] = Cardinality(Users(j))
        BY <1>1, CountIs DEF Users
    <3> HIDE DEF t, n
    <3>3. n \in [Keys -> Int]
        BY <3>2
    <3>4. s \in StreamerSet /\ s.device = t.device /\ (~t.device => s = t)
          /\ (t.device => \A j \in Keys : s.keys[j] >= t.keys[j] + n[j])
        BY <3>1, <3>3, SetFilterIs
    <3>5. CASE t.device
      <4> SUFFICES ASSUME NEW j \in Keys PROVE Cardinality(Users(j)) <= s.keys[j]
        BY <3>4
      <4>1. s.keys[j] \in Nat /\ t.keys[j] \in Nat /\ s.keys[j] >= t.keys[j] + n[j]
        BY <3>1, <3>4, <3>5 DEF StreamerSet
      <4>2. n[j] = Cardinality(Users(j)) /\ n[j] \in Nat
        BY <3>2
      <4> HIDE DEF s
      <4> QED
        BY <4>1, <4>2
    <3>6. CASE ~t.device
      <4>1. s = t /\ ~s.device
        BY <3>4, <3>6
      <4>2. ~forgotten' => ~forgotten
        BY <1>1, <4>1
      <4> QED
        BY <3>1, <4>1, <4>2 DEF IInv, ServedInv
    <3> QED
        BY <3>5, <3>6
  <2> QED
    BY <2>1, <2>2
<1> HIDE DEF s
<1>5. Filter(k) \in FilterSet /\ Filter(k).key = k /\ ~Filter(k).closed
      /\ Filter(k).buffer = <<>> /\ Filter(k).pipe = <<>>
    BY DEF Filter, FilterSet
<1>3. /\ one \in [Keys -> Int] /\ one[k] = 1 /\ \A j \in Keys : one[j] >= 0
  <2>1. <<Filter(k)>> \in Seq(FilterSet) /\ {1} \in SUBSET DOMAIN <<Filter(k)>>
        /\ <<Filter(k)>>[1].key = k
    BY <1>5
  <2>2. one \in [Keys -> Nat] /\ one[k] = Cardinality({i \in {1} : <<Filter(k)>>[i].key = k})
    BY <2>1, CountIs
  <2>3. {i \in {1} : <<Filter(k)>>[i].key = k} = {1}
    BY <2>1
  <2> HIDE DEF one
  <2>4. one[k] = 1
    BY <2>2, <2>3, FS_Singleton
  <2> QED
    BY <2>2, <2>4
<1> HIDE DEF one
<1>4. /\ streamer' \in StreamerSet
      /\ ~s.device => streamer' = s
      /\ s.device => \A j \in Keys : streamer'.keys[j] >= s.keys[j] + one[j]
    BY <1>1, <1>2, <1>3, SetFilterIs
<1>6. CASE filters' = filters /\ ~s.device
  <2>1. FlowInv' /\ Buffers' /\ HeadsInv' /\ Pipes'
    BY <1>1, <1>6, FiltersKept DEF FlowSame
  <2>2. TypeOK'
    BY <1>1, <1>4, <1>6 DEF IInv, TypeOK
  <2>3. ServedInv'
    BY <1>2, <1>4, <1>6 DEF ServedInv, Users
  <2> QED
    BY <2>1, <2>2, <2>3 DEF IInv
<1>7. CASE filters' = Append(filters, Filter(k)) /\ s.device
  <2> DEFINE n == Len(filters)
  <2>1. /\ filters' \in Seq(FilterSet) /\ n \in Nat /\ Len(filters') = n + 1
        /\ filters'[n + 1] = Filter(k)
        /\ \A i \in 1 .. n : filters'[i] = filters[i]
    BY <1>1, <1>5, <1>7, AppendSet
  <2>2. DOMAIN filters = 1 .. n /\ DOMAIN filters' = 1 .. n + 1
    <3>1. DOMAIN filters' = 1 .. Len(filters')
        BY <2>1
    <3>2. DOMAIN filters = 1 .. Len(filters)
        BY <1>1
    <3> QED
        BY <2>1, <3>1, <3>2
  <2> HIDE DEF n
  <2>3. \A i \in 1 .. n + 1 : i \in 1 .. n \/ i = n + 1
    BY <2>1
  <2>4. \A i \in 1 .. n : i \in 1 .. n + 1 /\ 1 .. i - 1 \subseteq 1 .. n
    BY <2>1
  <2>5. FlowInv' /\ Flow' = Flow
    BY <1>1, SameFlow DEF FlowSame
  <2>6. TypeOK'
    BY <1>1, <1>4, <2>1 DEF IInv, TypeOK
  <2>7. ServedInv'
    <3> SUFFICES ASSUME ~forgotten', NEW j \in Keys
                 PROVE  Cardinality(Users(j)') <= streamer'.keys[j]
        BY DEF ServedInv
    <3>1. IsFiniteSet(Users(j)) /\ Cardinality(Users(j)) \in Nat
        BY UsersFinite DEF IInv
    <3>2. PICK c \in Nat : c = Cardinality(Users(j)) /\ c <= s.keys[j]
        BY <1>2, <3>1
    <3>3. /\ streamer'.keys[j] \in Nat /\ s.keys[j] \in Nat /\ one[j] \in Int
          /\ streamer'.keys[j] >= s.keys[j] + one[j] /\ one[j] >= 0
      <4>1. streamer'.keys[j] \in Nat /\ s.keys[j] \in Nat
        BY <1>2, <1>4 DEF StreamerSet
      <4> QED
        BY <1>3, <1>4, <1>7, <4>1
    <3>4. CASE j # k
      <4>1. Users(j)' = Users(j)
        BY <1>5, <2>1, <2>2, <2>3, <2>4, <3>4 DEF Users
      <4> QED
        BY <3>2, <3>3, <4>1
    <3>5. CASE j = k
      <4>1. Users(j)' = Users(j) \cup {n + 1}
        BY <1>5, <2>1, <2>2, <2>3, <2>4, <3>5 DEF Users
      <4>2. Cardinality(Users(j)') <= c + 1
        <5>1. \/ Cardinality(Users(j)') = c
              \/ Cardinality(Users(j)') = c + 1
            BY <3>1, <3>2, <4>1, FS_AddElement, Zenon
        <5> QED
            BY <3>2, <5>1
      <4>3. Cardinality(Users(j)') \in Nat
        BY <3>1, <4>1, FS_AddElement, FS_CardinalityType
      <4> QED
        BY <1>3, <3>2, <3>3, <3>5, <4>2, <4>3
    <3> QED
        BY <3>4, <3>5
  <2>8. Buffers'
    <3>1. BufferOK(<<>>, Flow, beheaded, sections)
        BY DEF BufferOK, Linked, Ordered
    <3> QED
        BY ZenonT(40),
           <1>1, <1>5, <2>1, <2>2, <2>3, <2>5, <3>1 DEF IInv, Buffers
  <2>9. Pipes'
    <3>1. ToSet(<<>>) = {}
        BY DEF ToSet
    <3> QED
        BY <1>1, <1>5, <2>1, <2>2, <2>3, <3>1 DEF IInv, Pipes
  <2>10. HeadsInv'
    <3>1. \A c, i : i \in 1 .. n => (Matching(c, i)' <=> Matching(c, i))
        BY <2>1 DEF Matching
    <3>2. \A c, i : i \in 1 .. n /\ Taken(c, i) => Taken(c, i)'
      <4> TAKE c, i
      <4> HAVE i \in 1 .. n /\ Taken(c, i)
      <4>1. FirstMatch(c, i)'
        BY <2>4, <3>1 DEF Taken, FirstMatch
      <4> QED
        BY <2>1, <4>1 DEF Taken
    <3>3. \A c : Ignored(c) => Ignored(c)'
        BY <1>5, <2>1, <2>2, <2>3, <2>5, <3>1 DEF Ignored
    <3> QED
        BY <1>1, <2>2, <2>4, <2>5, <3>2, <3>3 DEF IInv, HeadsInv, Headed, Ahead
  <2> QED
    BY <2>5, <2>6, <2>7, <2>8, <2>9, <2>10 DEF IInv
<1> QED
    BY <1>1, <1>6, <1>7

(* The indices S of the filters that are left, in their order.             *)
Keeps(keep, m, S) ==
    /\ keep \in [1 .. m -> S]
    /\ \A i, j \in 1 .. m : i < j => keep[i] < keep[j]
    /\ \A i \in S : \E j \in 1 .. m : keep[j] = i

FirstIn(fs, c, i) ==
    /\ c.table \in Matches[fs[i].key]
    /\ \A j \in 1 .. i - 1 : c.table \notin Matches[fs[j].key]
SameKeys(gs, fs, keep, m) == \A j \in 1 .. m : gs[j].key = fs[keep[j]].key

(* The filters left are matched in the same order as before.               *)
LEMMA Survive ==
    ASSUME NEW fs \in Seq(FilterSet), NEW S \in SUBSET DOMAIN fs,
           NEW m \in Nat, NEW keep, Keeps(keep, m, S),
           NEW gs, SameKeys(gs, fs, keep, m)
    PROVE  \A c, i : i \in S /\ FirstIn(fs, c, i) =>
                \E j \in 1 .. m : keep[j] = i /\ FirstIn(gs, c, j)
<1>2. \A j \in 1 .. m : keep[j] \in S
    BY DEF Keeps
<1>4. ASSUME NEW c, NEW i \in S, FirstIn(fs, c, i)
      PROVE  \E j \in 1 .. m : keep[j] = i /\ FirstIn(gs, c, j)
  <2>1. PICK j \in 1 .. m : keep[j] = i
    BY DEF Keeps
  <2>2. c.table \in Matches[gs[j].key]
    BY <1>4, <2>1 DEF FirstIn, SameKeys
  <2>3. ASSUME NEW k \in 1 .. j - 1 PROVE c.table \notin Matches[gs[k].key]
    <3>1. k \in 1 .. m /\ k < j
        BY <2>1
    <3>2. keep[k] < i /\ keep[k] \in DOMAIN fs /\ i \in DOMAIN fs
        BY <1>2, <2>1, <3>1 DEF Keeps
    <3>3. DOMAIN fs = 1 .. Len(fs)
        OBVIOUS
    <3>4. keep[k] \in 1 .. i - 1
        BY <3>2, <3>3
    <3> QED
        BY <1>4, <3>1, <3>4 DEF FirstIn, SameKeys
  <2> QED
    BY <2>1, <2>2, <2>3 DEF FirstIn
<1> QED
    BY <1>4

LEMMA RemoveAtIs ==
    ASSUME NEW S, NEW s \in Seq(S), NEW i \in DOMAIN s
    PROVE  RemoveAt(s, i) = [j \in 1 .. Len(s) - 1 |-> s[IF j < i THEN j ELSE j + 1]]
<1>1. Len(s) \in Nat /\ i \in 1 .. Len(s)
    OBVIOUS
<1> DEFINE a == SubSeq(s, 1, i - 1)
           b == SubSeq(s, i + 1, Len(s))
<1>2. /\ a \in Seq(S) /\ Len(a) = i - 1
      /\ \A j \in 1 .. i - 1 : a[j] = s[j]
    BY <1>1
<1>3. /\ b \in Seq(S) /\ Len(b) = Len(s) - i
      /\ \A j \in 1 .. Len(s) - i : b[j] = s[i + j]
    BY <1>1
<1> HIDE DEF a, b
<1>4. /\ a \o b \in Seq(S) /\ Len(a \o b) = Len(s) - 1
      /\ \A j \in 1 .. i - 1 : (a \o b)[j] = a[j]
      /\ \A j \in i .. Len(s) - 1 : (a \o b)[j] = b[j - (i - 1)]
    BY SMTT(40), <1>1, <1>2, <1>3
<1>5. \A j \in 1 .. Len(s) - 1 : (a \o b)[j] = s[IF j < i THEN j ELSE j + 1]
  <2> TAKE j \in 1 .. Len(s) - 1
  <2>1. CASE j < i
    <3>1. j \in 1 .. i - 1
        BY <1>1, <2>1
    <3> QED
        BY <1>2, <1>4, <2>1, <3>1
  <2>2. CASE ~(j < i)
    <3>1. /\ j \in i .. Len(s) - 1 /\ j - (i - 1) \in 1 .. Len(s) - i
          /\ i + (j - (i - 1)) = j + 1
        BY <1>1, <2>2
    <3> QED
        BY ZenonT(40), <1>3, <1>4, <2>2, <3>1
  <2> QED
    BY <2>1, <2>2
<1>6. DOMAIN (a \o b) = 1 .. Len(s) - 1 /\ a \o b = [j \in DOMAIN (a \o b) |-> (a \o b)[j]]
  <2> DEFINE r == a \o b
  <2>1. r \in Seq(S) /\ Len(r) = Len(s) - 1
    BY <1>4
  <2> HIDE DEF r
  <2>2. DOMAIN r = 1 .. Len(s) - 1 /\ r = [j \in DOMAIN r |-> r[j]]
    BY <2>1
  <2> QED
    BY <2>2 DEF r
<1>7. RemoveAt(s, i) = a \o b
    BY DEF RemoveAt, a, b
<1> QED
    BY <1>5, <1>6, <1>7

(* Filters are left as often as they were there, less those that are not.  *)
LEMMA UsersLeft ==
    ASSUME TypeOK, NEW dead \in SUBSET DOMAIN filters, NEW m \in Nat, NEW keep,
           Keeps(keep, m, DOMAIN filters \ dead), DOMAIN filters' = 1 .. m,
           SameKeys(filters', filters, keep, m), NEW k \in Keys
    PROVE  /\ Cardinality(Users(k)') = Cardinality(Users(k)) - Count(filters, dead)[k]
           /\ Cardinality(Users(k)) \in Nat /\ Count(filters, dead)[k] \in Nat
<1> DEFINE D == {i \in dead : filters[i].key = k}
           L == Users(k) \ D
           R == Users(k)'
           f == [j \in R |-> keep[j]]
<1>1. IsFiniteSet(Users(k)) /\ Cardinality(Users(k)) \in Nat
    BY UsersFinite
<1>2. Cardinality(D) = Count(filters, dead)[k] /\ Count(filters, dead)[k] \in Nat
    BY CountIs DEF TypeOK
<1>3. Users(k) \cap D = D
    BY DEF Users
<1>4. IsFiniteSet(L) /\ Cardinality(L) = Cardinality(Users(k)) - Cardinality(D)
    BY <1>1, <1>3, FS_Difference
<1>5. \A j \in R : j \in 1 .. m /\ keep[j] \in L
    BY DEF Users, Keeps, SameKeys
<1>6. f \in [R -> L]
    BY <1>5
<1>7. \A x, y \in R : f[x] = f[y] => x = y
  <2> TAKE x, y \in R
  <2> HAVE f[x] = f[y]
  <2>1. x \in 1 .. m /\ y \in 1 .. m /\ keep[x] = keep[y]
    BY <1>5
  <2>2. ~(x < y) /\ ~(y < x)
    <3>1. keep[x] \in Int /\ keep[y] \in Int
      <4>1. PICK z \in Nat : DOMAIN filters = 1 .. z
        BY DEF TypeOK
      <4> QED
        BY <2>1, <4>1 DEF Keeps
    <3> QED
        BY <2>1, <3>1 DEF Keeps
  <2> QED
    BY <2>1, <2>2
<1>8. \A t \in L : \E x \in R : f[x] = t
  <2> TAKE t \in L
  <2>1. t \in DOMAIN filters \ dead /\ filters[t].key = k
    BY DEF Users
  <2>2. PICK j \in 1 .. m : keep[j] = t
    BY <2>1 DEF Keeps
  <2>3. j \in R
    BY <2>1, <2>2 DEF Users, SameKeys
  <2> QED
    BY <2>2, <2>3
<1>9. f \in Bijection(R, L)
  <2> HIDE DEF f, R, L
  <2> QED
    BY <1>6, <1>7, <1>8 DEF Bijection, Injection, Surjection, IsInjective
<1>10. IsFiniteSet(R)
  <2>1. f \in Injection(R, L)
    BY <1>9 DEF Bijection
  <2> HIDE DEF f, R, L
  <2> QED
    BY <1>4, <2>1, FS_Injection
<1>11. Cardinality(R) = Cardinality(L)
  <2> HIDE DEF f, R, L
  <2> QED
    BY <1>9, <1>10, FS_Bijection DEF ExistsBijection
<1> QED
    BY <1>1, <1>2, <1>4, <1>11

(* The server is told of all that are gone, or of none.                    *)
LEMMA ServedLeft ==
    ASSUME IInv, NEW dead \in SUBSET DOMAIN filters, NEW m \in Nat, NEW keep,
           Keeps(keep, m, DOMAIN filters \ dead), DOMAIN filters' = 1 .. m,
           SameKeys(filters', filters, keep, m), streamer' \in StreamerSet,
           \A k \in Keys : streamer'.keys[k] >= streamer.keys[k] - Count(filters, dead)[k],
           forgotten' = (forgotten /\ filters' # <<>>)
    PROVE  ServedInv'
<1> SUFFICES ASSUME ~forgotten', NEW k \in Keys
             PROVE  Cardinality(Users(k)') <= streamer'.keys[k]
    BY DEF ServedInv
<1>1. streamer'.keys[k] \in Nat /\ streamer.keys[k] \in Nat
    BY DEF StreamerSet, IInv, TypeOK
<1>2. CASE ~forgotten
  <2>1. PICK c \in Nat : c = Cardinality(Users(k)) /\ c <= streamer.keys[k]
    BY <1>2, UsersLeft DEF IInv, ServedInv
  <2>2. PICK d \in Nat : d = Count(filters, dead)[k] /\ Cardinality(Users(k)') = c - d
                         /\ streamer'.keys[k] >= streamer.keys[k] - d
    BY <2>1, UsersLeft DEF IInv
  <2> QED
    BY <1>1, <2>1, <2>2
<1>3. CASE filters' = <<>>
  <2>1. Users(k)' = {}
    BY <1>3 DEF Users
  <2> QED
    BY <1>1, <2>1, FS_EmptySet
<1> QED
    BY <1>2, <1>3

LEMMA CloseFilterInv ==
    ASSUME IInv, NEW i \in DOMAIN filters, CloseFilter(i)
    PROVE  IInv'
<1> DEFINE m == Len(filters) - 1
           S == DOMAIN filters \ {i}
           keep == [j \in 1 .. m |-> IF j < i THEN j ELSE j + 1]
<1>1. /\ filters' = RemoveAt(filters, i) /\ filters \in Seq(FilterSet)
      /\ beheaded' = beheaded \cup Heads(filters[i].buffer)
      /\ UNCHANGED <<streamer, rest, ring, wire, eof, data, sections, faults>>
      /\ forgotten' = (forgotten /\ filters' # <<>>) /\ forgotten \in BOOLEAN
    BY DEF IInv, TypeOK, CloseFilter
<1>2. /\ DOMAIN filters = 1 .. Len(filters) /\ Len(filters) \in Nat
      /\ i \in 1 .. Len(filters) /\ m \in Nat
    BY <1>1
<1>3. filters' = [j \in 1 .. m |-> filters[keep[j]]]
    BY <1>1, RemoveAtIs
<1>4. Keeps(keep, m, S)
  <2>1. keep \in [1 .. m -> S]
    BY <1>2
  <2>2. \A j, k \in 1 .. m : j < k => keep[j] < keep[k]
    BY <1>2
  <2>3. ASSUME NEW k \in S PROVE \E j \in 1 .. m : keep[j] = k
    <3>1. CASE k < i
        BY <1>2, <3>1
    <3>2. CASE k > i
      <4>1. k - 1 \in 1 .. m /\ keep[k - 1] = k
        BY <1>2, <3>2
      <4> QED
        BY <4>1
    <3> QED
        BY <1>2, <3>1, <3>2
  <2> QED
    BY <2>1, <2>2, <2>3 DEF Keeps
<1>5. \A j \in 1 .. m : keep[j] \in S /\ keep[j] \in DOMAIN filters
                        /\ filters'[j] = filters[keep[j]]
    BY <1>3, <1>4 DEF Keeps
<1> HIDE DEF keep, m
<1>6. /\ filters' \in Seq(FilterSet) /\ DOMAIN filters' = 1 .. m
      /\ \A c, j : j \in 1 .. m => (Matching(c, j)' <=> Matching(c, keep[j]))
      /\ \A c, k : k \in S /\ FirstMatch(c, k) =>
           \E j \in 1 .. m : keep[j] = k /\ FirstMatch(c, j)'
  <2>1. filters' = [j \in 1 .. m |-> filters'[j]]
    BY <1>3
  <2>2. \A j \in 1 .. m : /\ filters'[j] \in FilterSet
                           /\ filters'[j].key = filters[keep[j]].key
    BY <1>1, <1>5
  <2>3. S \in SUBSET DOMAIN filters
    OBVIOUS
  <2>4. filters \in Seq(FilterSet) /\ m \in Nat
    BY <1>1, <1>2
  <2>5. \A c, j : j \in 1 .. m => (Matching(c, j)' <=> Matching(c, keep[j]))
    BY <2>2 DEF Matching
  <2> HIDE DEF S
  <2>6. \A c, k : k \in S /\ FirstIn(filters, c, k) =>
          \E j \in 1 .. m : keep[j] = k /\ FirstIn(filters', c, j)
    <3>1. SameKeys(filters', filters, keep, m)
        BY <2>2 DEF SameKeys
    <3> QED
        BY <1>4, <2>3, <2>4, <3>1, Survive
  <2>9. filters' \in Seq(FilterSet) /\ DOMAIN filters' = 1 .. m
    BY <2>1, <2>2, <2>4, IsASeq
  <2>7. \A c, k : FirstMatch(c, k) => FirstIn(filters, c, k)
    BY DEF FirstMatch, Matching, FirstIn
  <2>8. \A c, k : FirstIn(filters', c, k) => FirstMatch(c, k)'
    BY DEF FirstMatch, Matching, FirstIn
  <2> QED
    BY <2>5, <2>6, <2>7, <2>8, <2>9
<1>7. FlowInv' /\ Flow' = Flow
    BY <1>1, SameFlow DEF FlowSame
<1>8. Buffers' /\ Pipes'
  <2>1. \A b : BufferOK(b, Flow, beheaded, sections)
                 => BufferOK(b, Flow', beheaded', sections')
    BY <1>1, <1>7 DEF BufferOK, Linked
  <2>2. \A s : WholeSection(s, beheaded) => WholeSection(s, beheaded')
    BY <1>1 DEF WholeSection, Linked
  <2> QED
    BY <1>5, <1>6, <2>1, <2>2 DEF IInv, Buffers, Pipes
<1>9. HeadsInv'
  <2> SUFFICES ASSUME NEW c \in Flow, c.pos # 0 PROVE Headed(c)'
    BY <1>7 DEF HeadsInv
  <2>1. Headed(c)
    BY DEF IInv, HeadsInv
  <2>2. CASE Ahead(c)
    BY <1>7, <2>2 DEF Headed, Ahead
  <2>3. CASE c.id \in beheaded
    BY <1>1, <2>3 DEF Headed
  <2>4. CASE Ignored(c)
    <3>1. Ignored(c)'
        BY <1>5, <1>6, <1>7, <2>4 DEF Ignored
    <3> QED
        BY <3>1 DEF Headed
  <2>5. ASSUME NEW k \in DOMAIN filters, Taken(c, k) PROVE Headed(c)'
    <3>1. CASE k = i
      <4>1. /\ filters[i].buffer \in Seq(Piece) /\ filters[i].buffer # <<>>
            /\ filters[i].buffer[1].id = c.id
            /\ filters[i].buffer[1].pos = 0
        <5>1. filters[i] \in FilterSet
            BY <1>1
        <5> QED
            BY <2>5, <3>1, <5>1 DEF FilterSet, Taken, IInv, Buffers, BufferOK
      <4>2. 1 \in DOMAIN filters[i].buffer
        BY <4>1
      <4>3. c.id \in Heads(filters[i].buffer)
        BY <4>1, <4>2 DEF Heads, ToSet
      <4> QED
        BY <1>1, <4>3 DEF Headed
    <3>2. CASE k # i
      <4>1. PICK j \in 1 .. m : keep[j] = k /\ FirstMatch(c, j)'
        BY <1>6, <2>5, <3>2 DEF Taken
      <4>2. Taken(c, j)'
        BY <1>5, <2>5, <4>1 DEF Taken
      <4> QED
        BY <1>6, <4>2 DEF Headed
    <3> QED
        BY <3>1, <3>2
  <2> QED
    BY <2>1, <2>2, <2>3, <2>4, <2>5 DEF Headed
<1>10. TypeOK'
    BY <1>1, <1>6 DEF IInv, TypeOK
<1>11. ServedInv'
  <2>1. SameKeys(filters', filters, keep, m)
    BY <1>5 DEF SameKeys
  <2>2. /\ streamer \in StreamerSet
        /\ \A k \in Keys : streamer.keys[k] >= streamer.keys[k] - Count(filters, {i})[k]
    <3>1. Count(filters, {i}) \in [Keys -> Nat] /\ streamer \in StreamerSet
        BY <1>1, CountIs DEF IInv, TypeOK
    <3>2. \A k \in Keys : Count(filters, {i})[k] \in Nat /\ streamer.keys[k] \in Nat
        BY <3>1 DEF StreamerSet
    <3> QED
        BY <3>1, <3>2
  <2> QED
    BY <1>1, <1>2, <1>4, <1>6, <2>1, <2>2, ServedLeft
<1> QED
    BY <1>7, <1>8, <1>9, <1>10, <1>11 DEF IInv

-----------------------------------------------------------------------------
(* The thread takes a chunk                                                *)

LEMMA BufferLater ==
    ASSUME NEW b, NEW flow, NEW after, NEW lost, NEW more, NEW n,
           BufferOK(b, flow, lost, n), after \subseteq flow, lost \subseteq more
    PROVE  BufferOK(b, after, more, n)
BY DEF BufferOK, Linked

LEMMA LaterWhole ==
    ASSUME NEW s, NEW lost, NEW more, WholeSection(s, lost), lost \subseteq more
    PROVE  WholeSection(s, more)
BY DEF WholeSection, Linked

(* A chunk is put to those before it.                                      *)
LEMMA PutTogether ==
    ASSUME NEW hd \in Seq(Piece), NEW c \in Piece, NEW flow, NEW after, NEW lost, NEW n,
           BufferOK(hd, flow, lost, n), c \in flow, after \subseteq flow,
           c.id <= n, c.len > 0, hd = <<>> => c.pos = 0,
           hd # <<>> /\ hd[Len(hd)].id < c.id => c.id \in lost,
           \A d \in after : Behind(d, c)
    PROVE  /\ BufferOK(Append(hd, c), after, lost, n)
           /\ Append(hd, c)[1].pos = 0
           /\ hd # <<>> => Append(hd, c)[1] = hd[1]
           /\ hd = <<>> => Append(hd, c)[1] = c
<1> DEFINE a == Append(hd, c)
           l == Len(hd)
<1>1. /\ a \in Seq(Piece) /\ l \in Nat /\ Len(a) = l + 1 /\ a[l + 1] = c
      /\ \A i \in 1 .. l : a[i] = hd[i] /\ hd[i] \in Piece
    BY AppendProperties
<1>2. DOMAIN hd = 1 .. l /\ DOMAIN a = 1 .. l + 1
    BY <1>1
<1>3. hd = <<>> <=> l = 0
    BY EmptySeq
<1> HIDE DEF a, l
<1>4. \A i \in 1 .. l + 1 : i \in 1 .. l \/ i = l + 1
    BY <1>1
<1>5. /\ hd # <<>> => a[1] = hd[1] /\ hd[1].pos = 0
      /\ hd = <<>> => a[1] = c /\ c.pos = 0
    BY <1>1, <1>3 DEF BufferOK
<1>6. Ordered(a)
  <2>1. \A d \in ToSet(hd) : Behind(c, d)
    BY DEF BufferOK, ToSet
  <2> QED
    BY <2>1, OrderedAppend DEF BufferOK, a
<1>7. Linked(a, lost)
  <2> SUFFICES ASSUME NEW i \in 2 .. l + 1
               PROVE  \/ a[i].id = a[i - 1].id /\ a[i].pos > a[i - 1].pos
                      \/ a[i].id > a[i - 1].id /\ a[i].id \in lost
    BY <1>1 DEF Linked
  <2>1. i - 1 \in 1 .. l /\ (i \in 2 .. l \/ i = l + 1) /\ (i \in 2 .. l => i \in 1 .. l)
    BY <1>1
  <2>2. CASE i \in 2 .. l
    <3>1. a[i] = hd[i] /\ a[i - 1] = hd[i - 1]
        BY <1>1, <2>1, <2>2
    <3> QED
        BY <2>2, <3>1 DEF BufferOK, Linked, l
  <2>3. CASE i = l + 1
    <3>1. a[i] = c /\ i - 1 = l /\ a[i - 1] = hd[l] /\ hd # <<>> /\ hd[l] \in Piece
          /\ l \in DOMAIN hd
        BY <1>1, <1>2, <1>3, <2>1, <2>3
    <3>2. /\ hd[l].id \in Nat /\ hd[l].pos \in Nat /\ hd[l].len \in Nat
          /\ c.id \in Nat /\ c.pos \in Nat
        BY <3>1 DEF Piece
    <3>3. Behind(c, hd[l]) /\ hd[l].len > 0
        BY <3>1 DEF BufferOK
    <3>4. hd[l].id < c.id => c.id \in lost
        BY <3>1 DEF l
    <3> QED
        BY SMTT(40), <3>1, <3>2, <3>3, <3>4 DEF Behind
  <2> QED
    BY <2>1, <2>2, <2>3
<1>8. \A k \in DOMAIN a : /\ a[k].id <= n /\ a[k].len > 0
                          /\ \A d \in after : Behind(d, a[k])
  <2> TAKE k \in DOMAIN a
  <2>1. CASE k = l + 1
    BY <1>1, <2>1
  <2>2. CASE k \in 1 .. l
    <3>1. a[k] = hd[k] /\ k \in DOMAIN hd
        BY <1>1, <1>2, <2>2
    <3> QED
        BY <3>1 DEF BufferOK
  <2> QED
    BY <1>2, <1>4, <2>1, <2>2
<1>9. BufferOK(a, after, lost, n)
    BY <1>5, <1>6, <1>7, <1>8 DEF BufferOK
<1> QED
    BY <1>5, <1>9 DEF a

(* What Action does: c goes to the filter to, those in dead are dropped.   *)
Losses(dead) == [k \in Keys |-> -Count(filters, dead)[k]]
Acts(c, to, dead, m, keep) ==
    /\ wire # <<>> /\ c = Head(wire) /\ wire' = Tail(wire)
    /\ UNCHANGED <<rest, ring, eof, data, sections, faults>>
    /\ m \in Nat /\ dead \subseteq DOMAIN filters
    /\ Keeps(keep, m, DOMAIN filters \ dead)
    /\ to \in DOMAIN filters \/ to = Len(filters) + 1
    /\ \A i \in DOMAIN filters : i \in dead <=> Matching(c, i) /\ i < to
    /\ \A i \in dead : ~PutSection(filters[i], c).ok
    /\ to \in DOMAIN filters => Matching(c, to)
    /\ filters' = [j \in 1 .. m |-> IF keep[j] = to THEN PutSection(filters[to], c).filter
                                   ELSE filters[keep[j]]]
    /\ streamer' = SetFilter(streamer, Losses(dead))
    /\ forgotten' = (forgotten /\ filters' # <<>>)
    /\ beheaded' = beheaded \cup UNION {Heads(filters[i].buffer) : i \in dead}

LEMMA ActionIs ==
    ASSUME IInv, Action
    PROVE  \E c, to, dead, m, keep : Acts(c, to, dead, m, keep)
<1> DEFINE c == Head(wire)
           matching == {i \in DOMAIN filters : c.table \in Matches[filters[i].key]}
           takes == {i \in matching : PutSection(filters[i], c).ok}
           to == IF takes = {} THEN Len(filters) + 1 ELSE Min(takes)
           dead == {i \in matching : i < to}
           put == [i \in DOMAIN filters |->
                     IF i = to THEN PutSection(filters[i], c).filter ELSE filters[i]]
           S == DOMAIN filters \ dead
           m == Cardinality(S)
<1>1. /\ wire # <<>> /\ wire' = Tail(wire)
      /\ UNCHANGED <<rest, ring, eof, data, sections, faults>>
      /\ streamer' = SetFilter(streamer, Losses(dead))
      /\ forgotten' = (forgotten /\ filters' # <<>>)
      /\ beheaded' = beheaded \cup UNION {Heads(filters[i].buffer) : i \in dead}
  <2>1. wire # <<>> /\ wire' = Tail(wire) /\ UNCHANGED <<rest, ring, eof, data, sections, faults>>
    BY DEF Action
  <2>2. streamer' = SetFilter(streamer, Losses(dead))
    BY Zenon DEF Action, Losses
  <2>3. forgotten' = (forgotten /\ filters' # <<>>)
    BY Zenon DEF Action
  <2>4. beheaded' = beheaded \cup UNION {Heads(filters[i].buffer) : i \in dead}
    BY Zenon DEF Action
  <2> QED
    BY <2>1, <2>2, <2>3, <2>4, Zenon
<1>2. PICK keep \in Orders(S) : filters' = [j \in DOMAIN keep |-> put[keep[j]]]
    BY DEF Action
<1>3. DOMAIN filters = 1 .. Len(filters) /\ Len(filters) \in Nat
    BY DEF IInv, TypeOK
<1>4. m \in Nat
  <2>1. IsFiniteSet(DOMAIN filters)
    <3> DEFINE n == Len(filters)
    <3>1. DOMAIN filters = 1 .. n /\ n \in Int
        BY <1>3
    <3> HIDE DEF n
    <3>2. IsFiniteSet(1 .. n)
        BY <3>1, FS_Interval
    <3> QED
        BY <3>1, <3>2
  <2>2. IsFiniteSet(S)
    BY <2>1, FS_Subset
  <2> QED
    BY <2>2, FS_CardinalityType
<1>5. Keeps(keep, m, S) /\ keep \in [1 .. m -> S]
  <2> HIDE DEF S
  <2>1. keep \in [1 .. m -> S]
    BY <1>2 DEF Orders
  <2> HIDE DEF m
  <2>2. DOMAIN keep = 1 .. m
    BY SMTT(40), <2>1
  <2> QED
    BY <1>2, <2>1, <2>2 DEF Orders, Keeps
<1> HIDE DEF m
<1>6. \/ to \in takes /\ \A i \in takes : to <= i
      \/ to = Len(filters) + 1 /\ takes = {}
  <2>1. CASE takes = {}
    BY <2>1
  <2>2. CASE takes # {}
    <3>1. takes \subseteq Nat
        BY <1>3
    <3> HIDE DEF takes
    <3>2. \E x \in takes : \A y \in takes : x <= y
        BY <2>2, <3>1, HasLeast
    <3>3. Min(takes) \in takes /\ \A y \in takes : Min(takes) <= y
        BY <3>2 DEF Min
    <3> QED
        BY <2>2, <3>3
  <2> QED
    BY <2>1, <2>2
<1> HIDE DEF to
<1>7. \A i \in dead : ~PutSection(filters[i], c).ok
  <2> SUFFICES ASSUME NEW i \in dead, PutSection(filters[i], c).ok PROVE FALSE
    OBVIOUS
  <2>1. i \in takes /\ i < to /\ i \in Nat
    BY <1>3
  <2>2. to \in takes /\ to <= i /\ to \in Nat
    BY <1>3, <1>6, <2>1
  <2> QED
    BY <2>1, <2>2
<1>8. /\ \A i \in DOMAIN filters : i \in dead <=> Matching(c, i) /\ i < to
      /\ to \in DOMAIN filters => Matching(c, to)
  <2>1. to \in DOMAIN filters => to \in takes
    BY <1>3, <1>6
  <2> QED
    BY <2>1 DEF Matching
<1>9. filters' = [j \in 1 .. m |-> IF keep[j] = to THEN PutSection(filters[to], c).filter
                                  ELSE filters[keep[j]]]
  <2> HIDE DEF c
  <2>1. \A j \in 1 .. m : keep[j] \in DOMAIN filters
    BY <1>5
  <2>2. DOMAIN keep = 1 .. m
    BY <1>5
  <2> HIDE DEF dead
  <2> QED
    BY <1>2, <2>1, <2>2
<1>10. to \in DOMAIN filters \/ to = Len(filters) + 1
    BY <1>6
<1> HIDE DEF c, dead
<1>11. dead \subseteq DOMAIN filters
    BY DEF dead
<1>12. Acts(c, to, dead, m, keep)
    BY <1>1, <1>4, <1>5, <1>7, <1>8, <1>9, <1>10, <1>11 DEF Acts, c
<1> QED
    BY SMTT(40), <1>12

(* What the arriving chunk x, and the filters that are left, come to.      *)
LEMMA ActsFacts ==
    ASSUME IInv, NEW x, NEW to, NEW dead, NEW m, NEW keep, Acts(x, to, dead, m, keep)
    PROVE  /\ x \in Piece /\ x \in Flow /\ Flow = Flow' \cup {x}
           /\ \A d \in Flow' : Behind(d, x)
           /\ wire' \in Seq(Piece) /\ FlowInv'
           /\ filters' \in Seq(FilterSet) /\ DOMAIN filters' = 1 .. m /\ m \in Nat
           /\ \A j \in 1 .. m :
                /\ keep[j] \in DOMAIN filters /\ keep[j] \notin dead
                /\ filters'[j] = IF keep[j] = to THEN PutSection(filters[to], x).filter
                                 ELSE filters[keep[j]]
                /\ filters'[j].key = filters[keep[j]].key
                /\ filters'[j].closed = filters[keep[j]].closed
           /\ \A i \in DOMAIN filters : filters[i] \in FilterSet
           /\ DOMAIN filters = 1 .. Len(filters) /\ Len(filters) \in Nat
           /\ beheaded \subseteq beheaded'
<1>1. /\ wire \in Seq(Piece) /\ wire # <<>> /\ x = Head(wire) /\ wire' = Tail(wire)
      /\ UNCHANGED <<rest, ring, sections>> /\ beheaded \subseteq beheaded'
      /\ filters \in Seq(FilterSet)
    BY DEF IInv, TypeOK, Acts
<1>2. /\ wire' \in Seq(Piece) /\ x \in Piece
      /\ ToSet(wire) = ToSet(wire') \cup {x}
      /\ Ordered(wire') /\ \A d \in ToSet(wire') : Behind(d, x)
    BY <1>1, TailSet, OrderedTail DEF IInv, FlowInv
<1>3. Flow = Flow' \cup {x} /\ x \in Flow
    BY <1>1, <1>2 DEF Flow
<1>4. \A d \in Flow' : Behind(d, x)
    BY <1>1, <1>2 DEF IInv, FlowInv, Flow
<1>5. FlowInv'
    BY <1>1, <1>2, <1>3 DEF IInv, FlowInv
<1>6. /\ \A i \in DOMAIN filters : filters[i] \in FilterSet
      /\ DOMAIN filters = 1 .. Len(filters) /\ Len(filters) \in Nat
    BY <1>1
<1>7. /\ filters' = [j \in 1 .. m |-> IF keep[j] = to THEN PutSection(filters[to], x).filter
                                     ELSE filters[keep[j]]]
      /\ m \in Nat
    BY DEF Acts
<1>8. \A j \in 1 .. m : keep[j] \in DOMAIN filters /\ keep[j] \notin dead
    BY DEF Acts, Keeps
<1>9. \A j \in 1 .. m :
        filters'[j] = IF keep[j] = to THEN PutSection(filters[to], x).filter
                      ELSE filters[keep[j]]
    BY <1>7
<1>10. \A j \in 1 .. m : /\ filters'[j] \in FilterSet
                         /\ filters'[j].key = filters[keep[j]].key
                         /\ filters'[j].closed = filters[keep[j]].closed
  <2> TAKE j \in 1 .. m
  <2>1. CASE keep[j] = to
    <3>1. filters[to] \in FilterSet
        BY <1>6, <1>8, <2>1
    <3> QED
        BY SMTT(40), <1>2, <1>9, <2>1, <3>1, PutIs
  <2>2. CASE keep[j] # to
    <3>1. filters'[j] = filters[keep[j]]
        BY <1>9, <2>2
    <3> QED
        BY <1>6, <1>8, <3>1
  <2> QED
    BY <2>1, <2>2
<1>11. filters' \in Seq(FilterSet) /\ DOMAIN filters' = 1 .. m
  <2>1. filters' = [j \in 1 .. m |-> filters'[j]]
    BY <1>7
  <2> QED
    BY <1>7, <1>10, <2>1, IsASeq
<1> QED
    BY <1>1, <1>2, <1>3, <1>4, <1>5, <1>6, <1>7, <1>8, <1>9, <1>10, <1>11

(* A filter that has room for the rest of the section takes x.             *)
LEMMA TakesIt ==
    ASSUME IInv, NEW x, NEW to, NEW dead, NEW m, NEW keep, Acts(x, to, dead, m, keep),
           NEW i \in DOMAIN filters, FirstMatch(x, i), PutSection(filters[i], x).ok
    PROVE  /\ to = i
           /\ \E j \in 1 .. m : /\ keep[j] = i /\ FirstMatch(x, j)'
                               /\ filters'[j] = PutSection(filters[i], x).filter
<1>1. i \notin dead /\ i \in Nat
  <2>1. x = Head(wire) /\ \A j \in dead : ~PutSection(filters[j], Head(wire)).ok
    BY Zenon DEF Acts
  <2>2. i \notin dead
    BY <2>1, Zenon
  <2>3. DOMAIN filters = 1 .. Len(filters) /\ Len(filters) \in Nat
    BY ActsFacts
  <2> QED
    BY <2>2, <2>3
<1>2. ~(i < to)
    BY <1>1 DEF Acts, FirstMatch
<1>3. to = i
  <2> DEFINE n == Len(filters)
  <2>0. DOMAIN filters = 1 .. n /\ n \in Nat
    BY ActsFacts
  <2>5. to \in DOMAIN filters \/ to = n + 1
    BY DEF Acts
  <2> HIDE DEF n
  <2>1. to \in Nat /\ to \in DOMAIN filters /\ to <= i
    BY <1>1, <1>2, <2>0, <2>5
  <2>2. Matching(x, to) /\ to \in 1 .. n
    BY <2>0, <2>1 DEF Acts
  <2>3. ~(to \in 1 .. i - 1)
    BY <2>2 DEF FirstMatch
  <2> QED
    BY <1>1, <2>1, <2>2, <2>3
<1>4. \E j \in 1 .. m : keep[j] = i /\ FirstIn(filters', x, j)
  <2> DEFINE S == DOMAIN filters \ dead
  <2>1. SameKeys(filters', filters, keep, m)
    BY ActsFacts DEF SameKeys
  <2>2. filters \in Seq(FilterSet) /\ S \in SUBSET DOMAIN filters /\ m \in Nat
        /\ Keeps(keep, m, S) /\ i \in S
    BY <1>1 DEF IInv, TypeOK, Acts
  <2>3. FirstIn(filters, x, i)
    BY DEF FirstMatch, Matching, FirstIn
  <2> HIDE DEF S
  <2> QED
    BY <2>1, <2>2, <2>3, Survive
<1>5. PICK j \in 1 .. m : keep[j] = i /\ FirstIn(filters', x, j)
    BY <1>4
<1>6. FirstMatch(x, j)'
    BY <1>5 DEF FirstMatch, Matching, FirstIn
<1>7. filters'[j] = PutSection(filters[i], x).filter
    BY <1>3, <1>5, ActsFacts
<1> QED
    BY SMTT(40), <1>3, <1>5, <1>6, <1>7

(* A first chunk is not behind x, when x is of the same section.           *)
LEMMA NotAhead ==
    ASSUME IInv, NEW x, NEW to, NEW dead, NEW m, NEW keep, Acts(x, to, dead, m, keep),
           x.pos # 0
    PROVE  ~Ahead(x)
<1> SUFFICES ASSUME NEW d \in Flow, d.id = x.id, d.pos = 0 PROVE FALSE
    BY DEF Ahead
<1>1. d \in Flow' /\ Behind(d, x) /\ x \in Flow
    BY ActsFacts
<1>2. x.id \in Nat /\ x.pos \in Nat /\ x.len \in Nat /\ x.len > 0
    BY <1>1, FlowTyped DEF IInv, Piece, FlowInv
<1> QED
    BY <1>1, <1>2 DEF Behind

(* A chunk of another section follows only if the first of that was lost.  *)
LEMMA FollowsLost ==
    ASSUME IInv, NEW x, NEW to, NEW dead, NEW m, NEW keep, Acts(x, to, dead, m, keep),
           to \in DOMAIN filters, x.pos # 0,
           LET b == filters[to].buffer IN b # <<>> /\ b[Len(b)].id < x.id
    PROVE  x.id \in beheaded'
<1> DEFINE b == filters[to].buffer
           l == Len(b)
<1>1. filters[to] \in FilterSet /\ x \in Piece /\ x \in Flow /\ beheaded \subseteq beheaded'
    BY ActsFacts
<1>2. b \in Seq(Piece) /\ b # <<>> /\ b[l].id < x.id /\ BufferOK(b, Flow, beheaded, sections)
    BY <1>1 DEF FilterSet, IInv, Buffers
<1> HIDE DEF b
<1>3. l \in Nat /\ l >= 1 /\ b[1] \in Piece /\ b[l] \in Piece /\ DOMAIN b = 1 .. l
    BY <1>2, EmptySeq
<1>4. b[1].id < x.id
  <2>1. b[1].id \in Nat /\ b[l].id \in Nat /\ x.id \in Nat
    BY <1>1, <1>3 DEF Piece
  <2>2. l = 1 \/ Behind(b[l], b[1])
    BY <1>2, <1>3 DEF BufferOK, Ordered
  <2> QED
    BY <1>2, <2>1, <2>2 DEF Behind
<1>5. Headed(x)
    BY <1>1 DEF IInv, HeadsInv
<1>6. ~Ahead(x)
    BY NotAhead
<1>7. Matching(x, to)
    BY DEF Acts
<1>8. ~Ignored(x)
    BY <1>2, <1>7 DEF Ignored, b
<1>9. ASSUME NEW i \in DOMAIN filters, Taken(x, i) PROVE x.id \in beheaded'
  <2>1. i # to
    <3>1. x.id \in Nat /\ b[1].id \in Nat
        BY <1>1, <1>3 DEF Piece
    <3> QED
        BY <1>4, <1>9, <3>1 DEF Taken, b
  <2>2. /\ DOMAIN filters = 1 .. Len(filters) /\ Len(filters) \in Nat
        /\ filters[i] \in FilterSet
    BY ActsFacts
  <2>3. ~(to \in 1 .. i - 1)
    BY <1>7, <1>9 DEF Taken, FirstMatch
  <2>4. i < to
    BY <2>1, <2>2, <2>3
  <2>5. i \in dead
    BY <1>9, <2>4 DEF Acts, Taken, FirstMatch
  <2> DEFINE hd == filters[i].buffer
  <2>6. /\ hd \in Seq(Piece) /\ hd # <<>> /\ hd[1].id = x.id /\ hd[1].pos = 0
    BY <1>9, <2>2 DEF FilterSet, Taken, IInv, Buffers, BufferOK
  <2>7. 1 \in DOMAIN hd
    BY <2>6
  <2>8. x.id \in Heads(hd)
    BY <2>6, <2>7 DEF Heads, ToSet
  <2> HIDE DEF hd
  <2>9. hd = filters[i].buffer /\ i \in dead
    BY <2>5 DEF hd
  <2> QED
    BY <2>8, <2>9 DEF Acts
<1> QED
    BY <1>1, <1>5, <1>6, <1>8, <1>9 DEF Headed

LEMMA ActsBuffers ==
    ASSUME IInv, NEW x, NEW to, NEW dead, NEW m, NEW keep, Acts(x, to, dead, m, keep)
    PROVE  Buffers' /\ Pipes'
<1>1. /\ x \in Piece /\ x \in Flow /\ Flow' \subseteq Flow
      /\ \A d \in Flow' : Behind(d, x)
      /\ DOMAIN filters' = 1 .. m /\ beheaded \subseteq beheaded'
      /\ sections' = sections /\ x.id <= sections /\ x.len > 0
  <2>1. /\ x \in Piece /\ x \in Flow /\ Flow' \subseteq Flow
        /\ \A d \in Flow' : Behind(d, x)
        /\ DOMAIN filters' = 1 .. m /\ beheaded \subseteq beheaded'
    BY ActsFacts
  <2>2. x.id <= sections /\ x.len > 0
    BY <2>1 DEF IInv, FlowInv
  <2>3. sections' = sections
    BY DEF Acts
  <2> QED
    BY <2>1, <2>2, <2>3
<1>2. ASSUME NEW j \in 1 .. m, keep[j] = to
      PROVE  /\ BufferOK(filters'[j].buffer, Flow', beheaded', sections)
             /\ \A s \in ToSet(filters'[j].pipe) : WholeSection(s, beheaded')
  <2> DEFINE f == filters[to]
             have == Starts(f, x)
             all == Append(have, x)
             g == PutSection(f, x).filter
  <2>1. to \in DOMAIN filters /\ f \in FilterSet /\ filters'[j] = g
    BY <1>2, ActsFacts
  <2>2. /\ f.buffer \in Seq(Piece) /\ f.pipe \in Seq(Seq(Piece))
        /\ BufferOK(f.buffer, Flow, beheaded, sections)
        /\ \A s \in ToSet(f.pipe) : WholeSection(s, beheaded')
    <3>1. f.buffer \in Seq(Piece) /\ f.pipe \in Seq(Seq(Piece))
        BY <2>1 DEF FilterSet
    <3>2. BufferOK(f.buffer, Flow, beheaded, sections)
        BY <2>1 DEF IInv, Buffers
    <3>3. \A s \in ToSet(f.pipe) : WholeSection(s, beheaded)
        BY <2>1 DEF IInv, Pipes
    <3> HIDE DEF f
    <3>4. ASSUME NEW s \in ToSet(f.pipe) PROVE WholeSection(s, beheaded')
      <4>1. WholeSection(s, beheaded)
        BY SMTT(40), <3>3
      <4> QED
        BY <1>1, <4>1, LaterWhole
    <3> QED
        BY <3>1, <3>2, <3>4
  <2>3. /\ have = <<>> /\ x.pos # 0 => g = f
        /\ have # <<>> \/ x.pos = 0 =>
             /\ g.buffer \in {<<>>, all}
             /\ g.pipe # f.pipe => g.pipe = Append(f.pipe, all) /\ Used(all) = all[1].size
    <3> HIDE DEF f
    <3> QED
        BY ZenonT(40), <1>1, <2>1, PutIs
  <2>4. BufferOK(<<>>, Flow', beheaded', sections) /\ BufferOK(<<>>, Flow, beheaded, sections)
    BY DEF BufferOK, Linked, Ordered
  <2>5. CASE have = <<>> /\ x.pos # 0
    <3>1. BufferOK(f.buffer, Flow', beheaded', sections)
      <4> HIDE DEF f
      <4> QED
        BY <1>1, <2>2, BufferLater
    <3> QED
        BY <2>1, <2>2, <2>3, <2>5, <3>1
  <2>6. CASE have # <<>> \/ x.pos = 0
    <3>1. have \in Seq(Piece) /\ BufferOK(have, Flow, beheaded', sections)
      <4>1. BufferOK(f.buffer, Flow, beheaded', sections)
        <5> HIDE DEF f
        <5> QED
            BY <1>1, <2>2, BufferLater
      <4>2. BufferOK(<<>>, Flow, beheaded', sections) /\ <<>> \in Seq(Piece)
        BY DEF BufferOK, Linked, Ordered
      <4> QED
        BY <2>2, <4>1, <4>2 DEF Starts
    <3>2. have # <<>> /\ have[Len(have)].id < x.id => x.id \in beheaded'
      <4> SUFFICES ASSUME have # <<>>, have[Len(have)].id < x.id PROVE x.id \in beheaded'
        OBVIOUS
      <4>1. x.pos # 0 /\ have = f.buffer
        BY DEF Starts
      <4> QED
        BY <2>1, <4>1, FollowsLost
    <3> HIDE DEF have
    <3>3. /\ BufferOK(all, Flow', beheaded', sections) /\ all[1].pos = 0
        BY SMTT(40), <1>1, <2>6, <3>1, <3>2, PutTogether
    <3> HIDE DEF all, f, g
    <3>4. Used(all) = all[1].size => WholeSection(all, beheaded')
        BY <3>3 DEF WholeSection, BufferOK
    <3>5. g.pipe = Append(f.pipe, all) => ToSet(g.pipe) = ToSet(f.pipe) \cup {all}
      <4>1. all \in Seq(Piece)
        BY <1>1, <3>1, AppendSet DEF all
      <4> QED
        BY <2>2, <4>1, AppendSet
    <3>6. \A s \in ToSet(g.pipe) : WholeSection(s, beheaded')
      <4>1. CASE g.pipe = f.pipe
        BY <2>2, <4>1
      <4>2. CASE g.pipe # f.pipe
        BY <2>2, <2>3, <2>6, <3>4, <3>5, <4>2
      <4> QED
        BY <4>1, <4>2
    <3> QED
        BY <2>1, <2>3, <2>4, <2>6, <3>3, <3>6
  <2> QED
    BY <2>5, <2>6
<1>3. ASSUME NEW j \in 1 .. m, keep[j] # to
      PROVE  /\ BufferOK(filters'[j].buffer, Flow', beheaded', sections)
             /\ \A s \in ToSet(filters'[j].pipe) : WholeSection(s, beheaded')
  <2> DEFINE f == filters[keep[j]]
  <2>1. keep[j] \in DOMAIN filters /\ filters'[j] = f
    BY <1>3, ActsFacts
  <2>2. /\ BufferOK(f.buffer, Flow, beheaded, sections)
        /\ \A s \in ToSet(f.pipe) : WholeSection(s, beheaded)
    BY <2>1 DEF IInv, Buffers, Pipes
  <2> HIDE DEF f
  <2>3. BufferOK(f.buffer, Flow', beheaded', sections)
    BY <1>1, <2>2, BufferLater
  <2>4. ASSUME NEW s \in ToSet(f.pipe) PROVE WholeSection(s, beheaded')
    <3>1. WholeSection(s, beheaded)
        BY <2>2
    <3> QED
        BY <1>1, <3>1, LaterWhole
  <2> QED
    BY <2>1, <2>3, <2>4
<1> QED
    BY <1>1, <1>2, <1>3 DEF Buffers, Pipes

LEMMA ActsServed ==
    ASSUME IInv, NEW x, NEW to, NEW dead, NEW m, NEW keep, Acts(x, to, dead, m, keep)
    PROVE  TypeOK' /\ ServedInv'
<1> DEFINE n == Losses(dead)
<1>1. /\ wire' \in Seq(Piece) /\ filters' \in Seq(FilterSet) /\ DOMAIN filters' = 1 .. m
      /\ m \in Nat /\ dead \subseteq DOMAIN filters
      /\ UNCHANGED <<rest, ring, eof, data, sections, faults>>
      /\ Keeps(keep, m, DOMAIN filters \ dead) /\ SameKeys(filters', filters, keep, m)
      /\ streamer' = SetFilter(streamer, n)
      /\ forgotten' = (forgotten /\ filters' # <<>>)
  <2>1. /\ m \in Nat /\ dead \subseteq DOMAIN filters
        /\ UNCHANGED <<rest, ring, eof, data, sections, faults>>
        /\ Keeps(keep, m, DOMAIN filters \ dead)
        /\ forgotten' = (forgotten /\ filters' # <<>>)
    BY DEF Acts
  <2>2. streamer' = SetFilter(streamer, n)
    BY Zenon DEF Acts
  <2>3. /\ wire' \in Seq(Piece) /\ filters' \in Seq(FilterSet) /\ DOMAIN filters' = 1 .. m
        /\ SameKeys(filters', filters, keep, m)
    BY ActsFacts DEF SameKeys
  <2> QED
    BY <2>1, <2>2, <2>3
<1>2. /\ Count(filters, dead) \in [Keys -> Nat] /\ streamer \in StreamerSet
      /\ n \in [Keys -> Int] /\ \A k \in Keys : n[k] = -Count(filters, dead)[k]
  <2>1. Count(filters, dead) \in [Keys -> Nat] /\ streamer \in StreamerSet
    BY <1>1, CountIs DEF IInv, TypeOK
  <2>2. \A k \in Keys : -Count(filters, dead)[k] \in Int
    BY <2>1
  <2> QED
    BY <2>1, <2>2 DEF Losses
<1> HIDE DEF n
<1>3. /\ streamer' \in StreamerSet
      /\ ~streamer.device => streamer' = streamer
      /\ streamer.device => \A k \in Keys : streamer'.keys[k] >= streamer.keys[k] + n[k]
    BY <1>1, <1>2, SetFilterIs
<1>4. TypeOK'
    BY <1>1, <1>3 DEF IInv, TypeOK
<1>5. ASSUME NEW k \in Keys
      PROVE  streamer'.keys[k] >= streamer.keys[k] - Count(filters, dead)[k]
  <2>1. PICK c \in Nat : c = Count(filters, dead)[k] /\ n[k] = -c
    BY <1>2
  <2>2. streamer.keys[k] \in Nat /\ streamer'.keys[k] \in Nat
    BY <1>2, <1>3 DEF StreamerSet
  <2> QED
    BY <1>3, <2>1, <2>2
<1>6. ServedInv'
    BY <1>1, <1>3, <1>5, ServedLeft
<1> QED
    BY <1>4, <1>6

LEMMA ActsHeads ==
    ASSUME IInv, NEW x, NEW to, NEW dead, NEW m, NEW keep, Acts(x, to, dead, m, keep)
    PROVE  HeadsInv'
<1> SUFFICES ASSUME NEW c \in Flow', c.pos # 0 PROVE Headed(c)'
    BY DEF HeadsInv
<1>1. /\ x \in Piece /\ x \in Flow /\ Flow = Flow' \cup {x} /\ c \in Flow
      /\ \A d \in Flow' : Behind(d, x)
      /\ DOMAIN filters' = 1 .. m /\ beheaded \subseteq beheaded'
    BY ActsFacts
<1>2. Flow \subseteq Piece
    BY FlowTyped DEF IInv
<1>3. /\ x.id \in Nat /\ x.pos \in Nat /\ x.len \in Nat /\ x.size \in Nat /\ x.len > 0
      /\ c.id \in Nat /\ c.pos \in Nat /\ c.len \in Nat /\ c.size \in Nat /\ c.len > 0
      /\ c.pos + c.len <= c.size /\ c.size < BufSize /\ BufSize \in Nat
  <2>1. c \in Piece
    BY <1>1, <1>2
  <2>2. x.len > 0 /\ c.len > 0 /\ c.pos + c.len <= c.size /\ c.size < BufSize
    BY <1>1 DEF IInv, FlowInv
  <2>3. BufSize \in Nat
    BY RelayAssumption DEF RelayAssumption
  <2> QED
    BY <1>1, <2>1, <2>2, <2>3 DEF Piece
<1>4. \/ c.id > x.id
      \/ c.id = x.id /\ c.table = x.table /\ c.size = x.size /\ c.pos >= x.pos + x.len
    BY <1>1 DEF Behind
<1>5. Headed(c)
    BY <1>1 DEF IInv, HeadsInv
<1>6. \A j \in 1 .. m : /\ keep[j] \in DOMAIN filters
                        /\ Matching(c, j)' <=> Matching(c, keep[j])
  <2>1. \A j \in 1 .. m : keep[j] \in DOMAIN filters /\ filters'[j].key = filters[keep[j]].key
    BY ActsFacts
  <2> QED
    BY <2>1 DEF Matching
<1>7. c.table = x.table =>
        /\ \A i : Matching(c, i) <=> Matching(x, i)
        /\ \A i : FirstMatch(c, i) <=> FirstMatch(x, i)
        /\ \A i : FirstMatch(c, i)' <=> FirstMatch(x, i)'
  <2> SUFFICES ASSUME c.table = x.table
               PROVE  /\ \A i : Matching(c, i) <=> Matching(x, i)
                      /\ \A i : FirstMatch(c, i) <=> FirstMatch(x, i)
                      /\ \A i : FirstMatch(c, i)' <=> FirstMatch(x, i)'
    OBVIOUS
  <2>1. \A i : Matching(c, i) <=> Matching(x, i)
    BY DEF Matching
  <2>2. \A i : FirstMatch(c, i) <=> FirstMatch(x, i)
    BY DEF FirstMatch, Matching
  <2>3. \A i : FirstMatch(c, i)' <=> FirstMatch(x, i)'
    BY DEF FirstMatch, Matching
  <2> QED
    BY <2>1, <2>2, <2>3
(* With a filter that takes x and holds b before it, c is taken.           *)
<1>8. ASSUME NEW i \in DOMAIN filters, FirstMatch(x, i), c.id = x.id,
             LET b == Starts(filters[i], x)
                 all == Append(b, x)
             IN /\ b # <<>> \/ x.pos = 0
                /\ all[1].id = x.id /\ all[1].size = x.size /\ Used(b) <= x.pos
      PROVE  Headed(c)'
  <2> DEFINE f == filters[i]
             b == Starts(f, x)
             all == Append(b, x)
             r == PutSection(f, x)
  <2>1. f \in FilterSet
    BY ActsFacts
  <2>2. b \in Seq(Piece)
    BY <2>1 DEF FilterSet, Starts
  <2>3. /\ b # <<>> \/ x.pos = 0
        /\ all[1].id = x.id /\ all[1].size = x.size /\ Used(b) <= x.pos
    BY <1>8
  <2>4. Used(b) \in Nat /\ Used(all) = Used(b) + x.len /\ all # <<>>
    <3> HIDE DEF b
    <3>1. Used(b) \in Nat /\ Used(all) = Used(b) + x.len
        BY <1>1, <2>2, UsedAppend
    <3>2. Len(all) = Len(b) + 1 /\ Len(b) \in Nat
        BY SMTT(40), <1>1, <2>2, AppendSet
    <3> HIDE DEF all
    <3> QED
        BY <3>1, <3>2
  <2>5. /\ b # <<>> \/ x.pos = 0
        /\ Used(all) < BufSize /\ Used(all) < all[1].size
        => r.ok /\ r.filter.buffer = all
    <3> HIDE DEF f
    <3> QED
        BY <1>1, <2>1, PutIs
  <2> HIDE DEF b, all, r, f
  <2>6. Used(all) <= c.pos /\ Used(all) < BufSize /\ Used(all) < all[1].size
    <3>1. c.pos >= x.pos + x.len /\ c.size = x.size
        BY <1>3, <1>4, <1>8
    <3>2. Used(all) <= x.pos + x.len /\ Used(all) \in Nat
        BY SMTT(40), <1>3, <2>3, <2>4
    <3> QED
        BY SMTT(40), <1>3, <2>3, <3>1, <3>2
  <2>7. r.ok /\ r.filter.buffer = all
    BY <2>3, <2>5, <2>6
  <2>8. PICK j \in 1 .. m : /\ keep[j] = i /\ FirstMatch(x, j)'
                           /\ filters'[j] = r.filter
    BY <1>8, <2>7, TakesIt DEF r, f
  <2>9. FirstMatch(c, j)'
    BY <1>3, <1>4, <1>7, <1>8, <2>8
  <2>10. Taken(c, j)'
    BY <1>8, <2>3, <2>4, <2>6, <2>7, <2>8, <2>9 DEF Taken
  <2> QED
    BY <1>1, <2>10 DEF Headed
<1>9. CASE c.id \in beheaded
    BY <1>1, <1>9 DEF Headed
<1>10. CASE Ahead(c)
  <2>1. PICK d \in Flow : d.id = c.id /\ d.pos = 0
    BY <1>10 DEF Ahead
  <2>2. CASE d \in Flow'
    BY <2>1, <2>2 DEF Ahead, Headed
  <2>3. CASE d = x
    <3>1. x.id = c.id /\ x.pos = 0 /\ c.table = x.table
        BY <1>3, <1>4, <2>1, <2>3
    <3>2. CASE \E i \in DOMAIN filters : Matching(x, i)
      <4> DEFINE n == Len(filters)
                 M == {i \in DOMAIN filters : Matching(x, i)}
      <4>1. DOMAIN filters = 1 .. n /\ n \in Nat
        BY ActsFacts
      <4>2. M # {} /\ M \subseteq Nat /\ M \subseteq DOMAIN filters
        BY <3>2, <4>1
      <4>3. \A i \in DOMAIN filters : i \notin M => ~Matching(x, i)
        OBVIOUS
      <4>4. \A i \in M : Matching(x, i)
        OBVIOUS
      <4> HIDE DEF M, n
      <4>5. PICK i \in M : \A k \in M : i <= k
        BY <4>2, HasLeast
      <4>6. \A k \in 1 .. i - 1 : k \in DOMAIN filters /\ k \notin M
        BY <4>1, <4>2, <4>5
      <4>7. i \in DOMAIN filters /\ FirstMatch(x, i)
        BY <4>2, <4>3, <4>4, <4>6 DEF FirstMatch
      <4> DEFINE b == Starts(filters[i], x)
                 all == Append(b, x)
      <4>8. b = <<>>
        BY <3>1 DEF Starts
      <4>9. Used(b) = 0 /\ all[1] = x
        <5>1. all = Append(<<>>, x) /\ <<>> \in Seq(Piece) /\ Len(<<>>) = 0
            BY <4>8
        <5>2. Append(<<>>, x)[Len(<<>>) + 1] = x
            BY <1>1, <5>1, AppendSet
        <5>3. Used(<<>>) = 0
            BY <1>1, <5>1, UsedAppend
        <5> HIDE DEF b, all
        <5> QED
            BY <4>8, <5>1, <5>2, <5>3
      <4>10. /\ b # <<>> \/ x.pos = 0
             /\ all[1].id = x.id /\ all[1].size = x.size /\ Used(b) <= x.pos
        <5> HIDE DEF b, all
        <5> QED
            BY <3>1, <4>9
      <4> QED
        BY <1>8, <3>1, <4>7, <4>10
    <3>3. CASE ~\E i \in DOMAIN filters : Matching(x, i)
      <4>1. \A j \in 1 .. m : ~Matching(c, j)'
        BY <1>6, <1>7, <3>1, <3>3
      <4>2. \A e \in Flow' : e.id >= c.id /\ (e.id = c.id => e.pos # 0)
        <5> TAKE e \in Flow'
        <5>1. Behind(e, x) /\ e \in Piece
            BY <1>1, <1>2
        <5>2. e.id \in Nat /\ e.pos \in Nat
            BY <5>1 DEF Piece
        <5> QED
            BY <1>3, <3>1, <5>1, <5>2 DEF Behind
      <4>3. Ignored(c)'
        BY <1>1, <4>1, <4>2 DEF Ignored
      <4> QED
        BY <4>3 DEF Headed
    <3> QED
        BY <3>2, <3>3
  <2> QED
    BY <1>1, <2>2, <2>3
<1>11. CASE Ignored(c)
  <2>1. x.id >= c.id /\ (x.id = c.id => x.pos # 0)
    BY <1>1, <1>11 DEF Ignored
  <2>2. x.id = c.id /\ x.pos # 0 /\ c.table = x.table
    BY <1>3, <1>4, <2>1
  <2>3. ASSUME NEW j \in 1 .. m, Matching(c, j)' PROVE filters'[j].buffer = <<>>
    <3>1. keep[j] \in DOMAIN filters /\ Matching(c, keep[j])
        BY <1>6, <2>3
    <3>2. filters[keep[j]].buffer = <<>>
        BY <1>11, <3>1 DEF Ignored
    <3>3. CASE keep[j] = to
      <4> DEFINE f == filters[to]
      <4>1. f \in FilterSet /\ filters'[j] = PutSection(f, x).filter /\ f.buffer = <<>>
        BY <3>1, <3>2, <3>3, ActsFacts
      <4> HIDE DEF f
      <4>2. Starts(f, x) = <<>>
        BY <4>1 DEF Starts
      <4>3. PutSection(f, x).filter = f
        BY <1>1, <2>2, <4>1, <4>2, PutIs
      <4> QED
        BY <4>1, <4>3
    <3>4. CASE keep[j] # to
      <4>1. filters'[j] = filters[keep[j]]
        BY <3>4, ActsFacts
      <4> QED
        BY <3>2, <4>1
    <3> QED
        BY <3>3, <3>4
  <2>4. Ignored(c)'
    BY <1>1, <1>11, <2>3 DEF Ignored
  <2> QED
    BY <2>4 DEF Headed
<1>12. ASSUME NEW i \in DOMAIN filters, Taken(c, i) PROVE Headed(c)'
  <2> DEFINE b == filters[i].buffer
  <2>1. /\ FirstMatch(c, i) /\ b # <<>> /\ b[1].id = c.id /\ Used(b) <= c.pos
        /\ BufferOK(b, Flow, beheaded, sections)
    BY <1>12 DEF Taken, IInv, Buffers
  <2>2. b \in Seq(Piece)
    <3>1. filters[i] \in FilterSet
        BY ActsFacts
    <3> QED
        BY <3>1 DEF FilterSet
  <2> HIDE DEF b
  <2>3. 1 \in DOMAIN b /\ b[1] \in Piece
    BY <2>1, <2>2
  <2>4. Behind(x, b[1]) /\ b[1].len > 0 /\ b[1].pos = 0
    BY <1>1, <2>1, <2>3 DEF BufferOK
  <2>5. b[1].id \in Nat /\ b[1].pos \in Nat /\ b[1].len \in Nat /\ b[1].size \in Nat
    BY <2>3 DEF Piece
  <2>6. /\ x.id = c.id /\ c.table = x.table /\ x.pos # 0 /\ b[1].size = x.size
    BY SMTT(40), <1>3, <1>4, <2>1, <2>4, <2>5 DEF Behind
  <2>7. ~Ahead(x) /\ Headed(x)
    BY <1>1, <2>6, NotAhead DEF IInv, HeadsInv
  <2>8. CASE x.id \in beheaded
    BY <1>1, <2>6, <2>8 DEF Headed
  <2>9. CASE Ignored(x)
    <3>1. Matching(x, i)
        BY <1>7, <2>1, <2>6 DEF FirstMatch
    <3> QED
        BY <2>1, <2>9, <3>1 DEF Ignored, b
  <2>10. ASSUME NEW k \in DOMAIN filters, Taken(x, k) PROVE Headed(c)'
    <3>1. FirstMatch(x, k) /\ FirstMatch(x, i) /\ i \in Nat /\ k \in Nat /\ i > 0 /\ k > 0
      <4>1. DOMAIN filters = 1 .. Len(filters) /\ Len(filters) \in Nat
        BY ActsFacts
      <4>2. FirstMatch(x, k) /\ FirstMatch(x, i)
        BY <1>7, <2>1, <2>6, <2>10 DEF Taken
      <4> QED
        BY <4>1, <4>2
    <3>2. k = i
        BY <3>1 DEF FirstMatch
    <3>3. Used(b) <= x.pos
        BY <2>10, <3>2 DEF Taken, b
    <3> DEFINE hd == Starts(filters[i], x)
               all == Append(hd, x)
    <3>4. hd = b
        BY <2>6 DEF Starts, b
    <3>5. all[1] = b[1]
      <4>1. \A e \in 1 .. Len(b) : Append(b, x)[e] = b[e]
        BY <1>1, <2>2, AppendSet
      <4>2. 1 \in 1 .. Len(b)
        BY <2>2, <2>3
      <4> QED
        BY <3>4, <4>1, <4>2
    <3>6. /\ hd # <<>> \/ x.pos = 0
          /\ all[1].id = x.id /\ all[1].size = x.size /\ Used(hd) <= x.pos
      <4> HIDE DEF hd, all
      <4> QED
        BY <2>1, <2>6, <3>3, <3>4, <3>5
    <3> QED
        BY <1>8, <2>6, <3>1, <3>6
  <2> QED
    BY <2>7, <2>8, <2>9, <2>10 DEF Headed
<1> QED
    BY <1>5, <1>9, <1>10, <1>11, <1>12 DEF Headed

LEMMA ActionInv == ASSUME IInv, Action PROVE IInv'
<1>1. PICK x, to, dead, m, keep : Acts(x, to, dead, m, keep)
    BY ActionIs
<1>2. FlowInv'
    BY <1>1, ActsFacts
<1>3. Buffers' /\ Pipes' /\ HeadsInv' /\ TypeOK' /\ ServedInv'
    BY <1>1, ActsBuffers, ActsHeads, ActsServed
<1> QED
    BY <1>2, <1>3 DEF IInv

-----------------------------------------------------------------------------
(* The rest                                                                *)

LEMMA InitInv == Init => IInv
<1> SUFFICES ASSUME Init PROVE IInv
    OBVIOUS
<1>1. ToSet(<<>>) = {} /\ Ordered(<<>>)
    BY DEF ToSet, Ordered
<1>2. Flow = {}
    BY <1>1 DEF Init, Flow
<1>3. FlowInv /\ HeadsInv
    BY <1>1, <1>2 DEF Init, FlowInv, HeadsInv
<1>4. Buffers /\ Pipes
    BY DEF Init, Buffers, Pipes
<1>6. ServedInv
  <2> SUFFICES ASSUME NEW k \in Keys PROVE Cardinality(Users(k)) <= streamer.keys[k]
    BY DEF ServedInv
  <2>1. Users(k) = {} /\ streamer.keys[k] = 0
    BY DEF Users, Init, NoStreamer
  <2> QED
    BY <2>1, FS_EmptySet
<1>5. TypeOK
  <2>1. <<>> \in Seq(Piece) /\ <<>> \in Seq(FilterSet)
    OBVIOUS
  <2>2. NoStreamer \in StreamerSet
    BY DEF NoStreamer, StreamerSet
  <2> QED
    BY <2>1, <2>2 DEF Init, TypeOK
<1> QED
    BY <1>3, <1>4, <1>5, <1>6 DEF IInv

LEMMA SetDeviceInv == ASSUME IInv, SetDevice PROVE IInv'
<1>1. /\ UNCHANGED <<rest, ring, wire, eof, data, filters, sections, faults, beheaded,
                     forgotten>>
      /\ streamer' = [streamer EXCEPT !.there = TRUE, !.device = TRUE]
    BY DEF SetDevice
<1>2. FlowInv' /\ Flow' = Flow
    BY <1>1, SameFlow DEF FlowSame
<1>3. Buffers' /\ HeadsInv' /\ Pipes'
    BY <1>1, <1>2, FlowShrinks
<1>4. TypeOK' /\ streamer'.keys = streamer.keys
    BY <1>1 DEF IInv, TypeOK, StreamerSet
<1>5. ServedInv'
    BY <1>1, <1>4, ServedSame DEF IInv
<1> QED
    BY <1>2, <1>3, <1>4, <1>5 DEF IInv

LEMMA RefusedInv == ASSUME IInv, Refused PROVE IInv'
<1>1. /\ UNCHANGED <<rest, ring, wire, eof, data, filters, sections, beheaded, streamer,
                     forgotten>>
      /\ faults' = faults + 1 /\ faults \in Nat
    BY DEF IInv, TypeOK, Refused
<1>2. FlowInv' /\ Flow' = Flow
    BY <1>1, SameFlow DEF FlowSame
<1>3. Buffers' /\ HeadsInv' /\ Pipes'
    BY <1>1, <1>2, FlowShrinks
<1>4. TypeOK' /\ ServedInv'
    BY <1>1, ServedSame DEF IInv, TypeOK
<1> QED
    BY <1>2, <1>3, <1>4 DEF IInv

LEMMA ServerGoneInv == ASSUME IInv, ServerGone PROVE IInv'
<1>1. /\ Delete /\ wire' = wire /\ filters' = filters /\ sections' = sections
      /\ eof' \in BOOLEAN /\ data' \in BOOLEAN /\ faults' \in Nat
    BY DEF IInv, TypeOK, ServerGone
<1> QED
    BY <1>1, DeleteInv

LEMMA CloseDataConnectionInv == ASSUME IInv, CloseDataConnection PROVE IInv'
<1>1. /\ wire' = wire /\ filters' = filters /\ sections' = sections /\ faults' = faults
      /\ eof' = FALSE /\ data' = FALSE /\ faults' \in Nat
      /\ Delete \/ UNCHANGED <<streamer, rest, ring, beheaded, forgotten>>
    BY DEF IInv, TypeOK, CloseDataConnection
<1>3. CASE Delete
    BY <1>1, <1>3, DeleteInv
<1>4. CASE UNCHANGED <<streamer, rest, ring, beheaded, forgotten>>
  <2>1. FlowInv' /\ Flow' = Flow
    BY <1>1, <1>4, SameFlow DEF FlowSame
  <2>2. Buffers' /\ HeadsInv' /\ Pipes'
    BY <1>1, <1>4, <2>1, FlowShrinks
  <2>3. TypeOK' /\ ServedInv'
    BY <1>1, <1>4, ServedSame DEF IInv, TypeOK
  <2> QED
    BY <2>1, <2>2, <2>3 DEF IInv
<1> QED
    BY <1>1, <1>3, <1>4

LEMMA ReInitInv == ASSUME IInv, ReInit PROVE IInv'
<1>1. /\ wire' = <<>> /\ ring' = <<>> /\ rest' = <<>> /\ streamer' = NoStreamer
      /\ eof' = FALSE /\ data' = FALSE /\ UNCHANGED <<filters, sections, faults>>
      /\ beheaded' = beheaded \cup Heads(wire \o ring \o rest)
      /\ forgotten' = (filters # <<>>)
    BY DEF ReInit
<1>2. ToSet(<<>>) = {} /\ Ordered(<<>>) /\ Flow' = {}
    BY <1>1 DEF ToSet, Ordered, Flow
<1>3. FlowInv' /\ HeadsInv'
    BY <1>1, <1>2 DEF FlowInv, HeadsInv
<1>4. Buffers' /\ Pipes'
  <2>1. beheaded \subseteq beheaded' /\ {} \subseteq Flow
    BY <1>1
  <2>2. \A b : BufferOK(b, Flow, beheaded, sections)
                 => BufferOK(b, Flow', beheaded', sections)
    BY <1>2, <2>1, BufferLater
  <2>3. \A s : WholeSection(s, beheaded) => WholeSection(s, beheaded')
    BY <2>1, LaterWhole
  <2> QED
    BY <1>1, <2>2, <2>3 DEF IInv, Buffers, Pipes
<1>5. TypeOK'
  <2>1. NoStreamer \in StreamerSet /\ <<>> \in Seq(Piece) /\ forgotten' \in BOOLEAN
    BY <1>1 DEF NoStreamer, StreamerSet
  <2> QED
    BY <1>1, <2>1 DEF IInv, TypeOK
<1>6. ServedInv'
    BY <1>1, ServedNone
<1> QED
    BY <1>3, <1>4, <1>5, <1>6 DEF IInv

LEMMA StutterInv == ASSUME IInv, UNCHANGED vars PROVE IInv'
<1>1. UNCHANGED <<streamer, rest, ring, wire, eof, data, filters, sections, faults, beheaded,
               forgotten>>
    BY DEF vars
<1>2. FlowInv' /\ Flow' = Flow
    BY <1>1, SameFlow DEF FlowSame
<1>3. Buffers' /\ HeadsInv' /\ Pipes'
    BY <1>1, <1>2, FlowShrinks
<1>4. TypeOK' /\ ServedInv'
    BY <1>1, ServedSame DEF IInv, TypeOK
<1> QED
    BY <1>2, <1>3, <1>4 DEF IInv

LEMMA NextInv == ASSUME IInv, Next PROVE IInv'
BY SetDeviceInv, ReceiveInv, WriteInv, ServerGoneInv, RefusedInv, ActionInv,
   CloseDataConnectionInv, ProcessInv, OpenFilterInv, CloseFilterInv, ClosePipeInv,
   ReadPipeInv, ReInitInv DEF Next

LEMMA Invariant == Spec => []IInv
<1>1. IInv /\ [Next]_vars => IInv'
    BY NextInv, StutterInv
<1> QED
    BY <1>1, InitInv, PTL DEF Spec

(* What VDR reads from the pipe of a filter is a section as the device     *)
(* sent it, or has in the place of its rest what followed of a section     *)
(* whose first chunk was lost: however the chunks are dropped, and filters *)
(* opened, closed and given up (client/filter.c, PutSection and Action).   *)
THEOREM SectionsAreWhole == Spec => []SectionsWhole
BY Invariant, Implied, PTL

(* A filter that VDR has open is set in the server, however filters are    *)
(* opened, closed and given up, and connections lost and made, unless the  *)
(* server has lost filters it was not told of since: what is deleted there *)
(* for one is never what another needs (client/filter.c, Action and        *)
(* ReActivateFilters; server/livefilter.c, SetFilter).                     *)
THEOREM AllFiltersServed == Spec => []FiltersServed
BY Invariant, Implied, PTL

-----------------------------------------------------------------------------
(* Lists told line by line                                                *)

-----------------------------------------------------------------------------
(* Sequences without repetition, and what is taken out, moved or sought.   *)

Distinct(s) == \A i, j \in DOMAIN s : i # j => s[i] # s[j]

LEMMA PosIs ==
    ASSUME NEW s, NEW e \in SeqToSet(s)
    PROVE  Pos(s, e) \in DOMAIN s /\ s[Pos(s, e)] = e
BY DEF Pos, SeqToSet

LEMMA SeqToSetIn ==
    ASSUME NEW S, NEW s \in Seq(S)
    PROVE  SeqToSet(s) \subseteq S
BY DEF SeqToSet

LEMMA Behind2 ==
    ASSUME NEW m \in Nat, NEW n \in 1 .. m
    PROVE  m - (n + 1) + 1 = m - n /\ \A i \in 1 .. m - n : n + 1 + i - 1 = n + i
OBVIOUS

LEMMA WithoutIs ==
    ASSUME NEW S, NEW s \in Seq(S), NEW n \in DOMAIN s
    PROVE  LET r == Without(s, n) IN
           /\ r \in Seq(S) /\ Len(r) = Len(s) - 1
           /\ \A i \in 1 .. Len(s) - 1 : r[i] = IF i < n THEN s[i] ELSE s[i + 1]
<1> DEFINE a == SubSeq(s, 1, n - 1)
           b == SubSeq(s, n + 1, Len(s))
<1>0. Len(s) \in Nat /\ n \in 1 .. Len(s) /\ n \in Int /\ n - 1 \in Int /\ n + 1 \in Int
    OBVIOUS
<1>1. \A i \in 1 .. Len(s) : s[i] \in S
    BY ElementOfSeq
<1>2. /\ a \in Seq(S) /\ Len(a) = n - 1
      /\ \A i \in 1 .. n - 1 : a[i] = s[i]
  <2>1. \A i \in 1 .. n - 1 : s[i] \in S
    BY <1>0, <1>1
  <2>2. /\ a \in Seq(S) /\ Len(a) = IF 1 <= n - 1 THEN n - 1 - 1 + 1 ELSE 0
        /\ \A i \in 1 .. n - 1 - 1 + 1 : a[i] = s[1 + i - 1]
    BY <1>0, <2>1, SubSeqProperties
  <2> QED
    BY <1>0, <2>2
<1>3. /\ b \in Seq(S) /\ Len(b) = Len(s) - n
      /\ \A i \in 1 .. Len(s) - n : b[i] = s[n + i]
  <2>1. \A i \in n + 1 .. Len(s) : s[i] \in S
    BY <1>0, <1>1
  <2>2. /\ b \in Seq(S)
        /\ Len(b) = IF n + 1 <= Len(s) THEN Len(s) - (n + 1) + 1 ELSE 0
        /\ \A i \in 1 .. Len(s) - (n + 1) + 1 : b[i] = s[n + 1 + i - 1]
    BY SMTT(40), <1>0, <2>1, SubSeqProperties
  <2>3. /\ Len(s) - (n + 1) + 1 = Len(s) - n
        /\ \A i \in 1 .. Len(s) - n : n + 1 + i - 1 = n + i
    BY <1>0, Behind2
  <2>4. Len(b) = Len(s) - n
    BY <1>0, <2>2
  <2> HIDE DEF b
  <2> QED
    BY <2>2, <2>3, <2>4
<1> HIDE DEF a, b
<1>4. /\ a \o b \in Seq(S) /\ Len(a \o b) = Len(a) + Len(b)
      /\ \A i \in 1 .. Len(a) + Len(b) :
           (a \o b)[i] = IF i <= Len(a) THEN a[i] ELSE b[i - Len(a)]
    BY <1>2, <1>3, ConcatProperties
<1>5. Without(s, n) = a \o b
    BY DEF Without, a, b
<1>6. Len(a) + Len(b) = Len(s) - 1
    BY <1>0, <1>2, <1>3
<1>7. ASSUME NEW i \in 1 .. Len(s) - 1
      PROVE  (a \o b)[i] = IF i < n THEN s[i] ELSE s[i + 1]
  <2>1. (a \o b)[i] = IF i <= Len(a) THEN a[i] ELSE b[i - Len(a)]
    BY <1>4, <1>6
  <2>2. CASE i < n
    BY <1>0, <1>2, <2>1, <2>2
  <2>3. CASE ~(i < n)
    <3>1. i - (n - 1) \in 1 .. Len(s) - n
        BY <1>0, <2>3
    <3>2. b[i - (n - 1)] = s[n + (i - (n - 1))]
        BY <1>3, <3>1
    <3>3. n + (i - (n - 1)) = i + 1 /\ ~(i <= n - 1)
        BY <1>0, <2>3
    <3> QED
        BY <1>2, <2>1, <2>3, <3>2, <3>3
  <2> QED
    BY <2>2, <2>3
<1> QED
    BY <1>4, <1>5, <1>6, <1>7

LEMMA WithoutSet ==
    ASSUME NEW S, NEW s \in Seq(S), NEW n \in DOMAIN s
    PROVE  /\ Without(s, n) \in Seq(S)
           /\ SeqToSet(Without(s, n)) \subseteq SeqToSet(s)
           /\ \A i \in DOMAIN s : i # n => s[i] \in SeqToSet(Without(s, n))
           /\ Distinct(s) => Distinct(Without(s, n))
                             /\ s[n] \notin SeqToSet(Without(s, n))
<1> DEFINE r == Without(s, n)
<1>0. Len(s) \in Nat /\ n \in 1 .. Len(s) /\ DOMAIN s = 1 .. Len(s)
    OBVIOUS
<1>1. /\ r \in Seq(S) /\ Len(r) = Len(s) - 1
      /\ \A i \in 1 .. Len(s) - 1 : r[i] = IF i < n THEN s[i] ELSE s[i + 1]
    BY WithoutIs
<1> HIDE DEF r
<1>2. DOMAIN r = 1 .. Len(s) - 1
    BY <1>1
<1>3. SeqToSet(r) \subseteq SeqToSet(s)
  <2> SUFFICES ASSUME NEW i \in DOMAIN r PROVE r[i] \in SeqToSet(s)
    BY DEF SeqToSet
  <2>1. i \in 1 .. Len(s) /\ i + 1 \in 1 .. Len(s)
    BY <1>0, <1>2
  <2>2. r[i] = s[i] \/ r[i] = s[i + 1]
    BY <1>1, <1>2
  <2> QED
    BY <1>0, <2>1, <2>2 DEF SeqToSet
<1>4. ASSUME NEW i \in DOMAIN s, i # n PROVE s[i] \in SeqToSet(r)
  <2>1. CASE i < n
    <3>1. i \in DOMAIN r
        BY <1>0, <1>2, <2>1
    <3>2. r[i] = s[i]
        BY <1>1, <1>2, <2>1, <3>1
    <3> QED
        BY <3>1, <3>2 DEF SeqToSet
  <2>2. CASE ~(i < n)
    <3>1. i - 1 \in DOMAIN r /\ ~(i - 1 < n) /\ i - 1 + 1 = i
        BY <1>0, <1>2, <1>4, <2>2
    <3>2. r[i - 1] = s[i]
        BY <1>1, <1>2, <3>1
    <3> QED
        BY <3>1, <3>2 DEF SeqToSet
  <2> QED
    BY <2>1, <2>2
<1>5. ASSUME Distinct(s) PROVE Distinct(r)
  <2> SUFFICES ASSUME NEW i \in DOMAIN r, NEW j \in DOMAIN r, i # j
               PROVE  r[i] # r[j]
    BY DEF Distinct
  <2> DEFINE k(x) == IF x < n THEN x ELSE x + 1
  <2>1. \A x \in DOMAIN r : k(x) \in DOMAIN s /\ r[x] = s[k(x)]
    BY <1>0, <1>1, <1>2
  <2>2. k(i) # k(j)
    BY <1>0, <1>2
  <2> HIDE DEF k
  <2> QED
    BY <1>5, <2>1, <2>2 DEF Distinct
<1>6. ASSUME Distinct(s), NEW i \in DOMAIN r PROVE r[i] # s[n]
  <2> DEFINE k == IF i < n THEN i ELSE i + 1
  <2>1. k \in DOMAIN s /\ r[i] = s[k] /\ k # n
    BY <1>0, <1>1, <1>2
  <2> HIDE DEF k
  <2> QED
    BY <1>6, <2>1 DEF Distinct
<1> QED
    BY <1>1, <1>3, <1>4, <1>5, <1>6 DEF r, SeqToSet

LEMMA MovedIs ==
    ASSUME NEW S, NEW s \in Seq(S), NEW f \in DOMAIN s, NEW t \in DOMAIN s
    PROVE  /\ Moved(s, f, t) \in Seq(S)
           /\ SeqToSet(Moved(s, f, t)) = SeqToSet(s)
           /\ Distinct(s) => Distinct(Moved(s, f, t))
<1> DEFINE r == Without(s, f)
           a == SubSeq(r, 1, t - 1)
           b == SubSeq(r, t, Len(r))
           m == (a \o <<s[f]>>) \o b
<1>0. Len(s) \in Nat /\ f \in 1 .. Len(s) /\ t \in 1 .. Len(s) /\ s[f] \in S
      /\ DOMAIN s = 1 .. Len(s)
    OBVIOUS
<1>1. /\ r \in Seq(S) /\ Len(r) = Len(s) - 1
      /\ SeqToSet(r) \subseteq SeqToSet(s)
      /\ \A i \in DOMAIN s : i # f => s[i] \in SeqToSet(r)
      /\ Distinct(s) => Distinct(r) /\ s[f] \notin SeqToSet(r)
    BY WithoutIs, WithoutSet
<1> HIDE DEF r
<1>2. DOMAIN r = 1 .. Len(s) - 1 /\ \A i \in 1 .. Len(s) - 1 : r[i] \in S
    BY <1>1
<1>3. /\ a \in Seq(S) /\ Len(a) = t - 1
      /\ \A i \in 1 .. t - 1 : a[i] = r[i]
  <2>1. \A i \in 1 .. t - 1 : r[i] \in S
    BY <1>0, <1>2
  <2>2. /\ a \in Seq(S) /\ Len(a) = IF 1 <= t - 1 THEN t - 1 - 1 + 1 ELSE 0
        /\ \A i \in 1 .. t - 1 - 1 + 1 : a[i] = r[1 + i - 1]
    BY <1>0, <2>1, SubSeqProperties
  <2> QED
    BY <1>0, <2>2
<1>4. /\ b \in Seq(S) /\ Len(b) = Len(s) - t
      /\ \A i \in 1 .. Len(s) - t : b[i] = r[t + i - 1]
  <2>1. \A i \in t .. Len(r) : r[i] \in S
    BY <1>0, <1>1, <1>2
  <2>2. /\ b \in Seq(S)
        /\ Len(b) = IF t <= Len(r) THEN Len(r) - t + 1 ELSE 0
        /\ \A i \in 1 .. Len(r) - t + 1 : b[i] = r[t + i - 1]
    BY SMTT(40), <1>0, <1>1, <2>1, SubSeqProperties
  <2> QED
    BY <1>0, <1>1, <2>2
<1> HIDE DEF a, b
<1>5. /\ a \o <<s[f]>> \in Seq(S) /\ Len(a \o <<s[f]>>) = t
      /\ \A i \in 1 .. t : (a \o <<s[f]>>)[i] = IF i < t THEN r[i] ELSE s[f]
  <2> DEFINE c == <<s[f]>>
  <2>1. c \in Seq(S) /\ Len(c) = 1 /\ c[1] = s[f]
    BY <1>0
  <2> HIDE DEF c
  <2>2. /\ a \o c \in Seq(S) /\ Len(a \o c) = Len(a) + Len(c)
        /\ \A i \in 1 .. Len(a) + Len(c) :
             (a \o c)[i] = IF i <= Len(a) THEN a[i] ELSE c[i - Len(a)]
    BY <1>3, <2>1, ConcatProperties
  <2>3. ASSUME NEW i \in 1 .. t
        PROVE (a \o c)[i] = IF i < t THEN r[i] ELSE s[f]
    <3>1. CASE i < t
        BY <1>0, <1>3, <2>1, <2>2, <3>1
    <3>2. CASE ~(i < t)
      <4>1. i = t /\ ~(t <= t - 1) /\ t - (t - 1) = 1 /\ t - 1 + 1 = t
        BY <1>0, <3>2
      <4> QED
        BY ZenonT(40), <1>3, <2>1, <2>2, <3>2, <4>1
    <3> QED
        BY <3>1, <3>2
  <2>4. Len(a \o c) = t
    BY <1>0, <1>3, <2>1, <2>2
  <2> QED
    BY <2>2, <2>3, <2>4 DEF c
<1>6. /\ m \in Seq(S) /\ Len(m) = Len(s)
      /\ \A i \in 1 .. Len(s) : m[i] = IF i < t THEN r[i]
                                       ELSE IF i = t THEN s[f] ELSE r[i - 1]
  <2> DEFINE c == a \o <<s[f]>>
  <2> HIDE DEF c
  <2>0. c \in Seq(S) /\ Len(c) = t
        /\ \A i \in 1 .. t : c[i] = IF i < t THEN r[i] ELSE s[f]
    BY <1>5 DEF c
  <2>2. /\ c \o b \in Seq(S) /\ Len(c \o b) = Len(c) + Len(b)
        /\ \A i \in 1 .. Len(c) + Len(b) :
             (c \o b)[i] = IF i <= Len(c) THEN c[i] ELSE b[i - Len(c)]
    BY <1>4, <2>0, ConcatProperties
  <2>3. Len(c) + Len(b) = Len(s)
    BY <1>0, <1>4, <2>0
  <2>4. ASSUME NEW i \in 1 .. Len(s)
        PROVE (c \o b)[i] = IF i < t THEN r[i]
                            ELSE IF i = t THEN s[f] ELSE r[i - 1]
    <3>1. CASE i <= t
        BY <1>0, <2>0, <2>2, <2>3, <3>1
    <3>2. CASE ~(i <= t)
      <4>1. i - t \in 1 .. Len(s) - t /\ ~(i < t) /\ i # t
            /\ t + (i - t) - 1 = i - 1
        BY <1>0, <3>2
      <4>2. (c \o b)[i] = b[i - t]
        BY <2>0, <2>2, <2>3, <3>2
      <4>3. b[i - t] = r[t + (i - t) - 1]
        BY <1>4, <4>1
      <4> QED
        BY <4>1, <4>2, <4>3
    <3> QED
        BY <3>1, <3>2
  <2> QED
    BY <2>2, <2>3, <2>4 DEF c
<1>7. Moved(s, f, t) = m
    BY DEF Moved, m, a, b, r
<1> HIDE DEF m
<1>8. DOMAIN m = 1 .. Len(s) /\ m[t] = s[f]
    BY <1>0, <1>6
<1>9. \A i \in 1 .. Len(s) : i # t => m[i] \in SeqToSet(r)
  <2> TAKE i \in 1 .. Len(s)
  <2> HAVE i # t
  <2>1. CASE i < t
    <3>1. i \in DOMAIN r
        BY <1>0, <1>2, <2>1
    <3> QED
        BY <1>6, <2>1, <3>1 DEF SeqToSet
  <2>2. CASE ~(i < t)
    <3>1. i - 1 \in DOMAIN r
        BY <1>0, <1>2, <2>2
    <3> QED
        BY <1>6, <2>2, <3>1 DEF SeqToSet
  <2> QED
    BY <2>1, <2>2
<1>10. SeqToSet(m) \subseteq SeqToSet(s)
  <2> SUFFICES ASSUME NEW i \in 1 .. Len(s) PROVE m[i] \in SeqToSet(s)
    BY <1>8 DEF SeqToSet
  <2>1. CASE i = t
    BY <1>0, <1>8, <2>1 DEF SeqToSet
  <2>2. CASE i # t
    BY <1>1, <1>9, <2>2
  <2> QED
    BY <2>1, <2>2
<1>11. \A x \in SeqToSet(r) : x \in SeqToSet(m)
  <2> SUFFICES ASSUME NEW j \in 1 .. Len(s) - 1 PROVE r[j] \in SeqToSet(m)
    BY <1>2 DEF SeqToSet
  <2>1. CASE j < t
    <3>1. j \in 1 .. Len(s) /\ m[j] = r[j]
        BY <1>0, <1>6, <2>1
    <3> QED
        BY <1>8, <3>1 DEF SeqToSet
  <2>2. CASE ~(j < t)
    <3>1. j + 1 \in 1 .. Len(s) /\ ~(j + 1 < t) /\ j + 1 # t /\ j + 1 - 1 = j
        BY <1>0, <2>2
    <3>2. m[j + 1] = r[j]
        BY <1>6, <3>1
    <3> QED
        BY <1>8, <3>1, <3>2 DEF SeqToSet
  <2> QED
    BY <2>1, <2>2
<1>12. SeqToSet(s) \subseteq SeqToSet(m)
  <2> SUFFICES ASSUME NEW i \in 1 .. Len(s) PROVE s[i] \in SeqToSet(m)
    BY <1>0 DEF SeqToSet
  <2>1. CASE i = f
    BY <1>0, <1>8, <2>1 DEF SeqToSet
  <2>2. CASE i # f
    BY <1>0, <1>1, <1>11, <2>2
  <2> QED
    BY <2>1, <2>2
<1>13. ASSUME Distinct(s) PROVE Distinct(m)
  <2>0. Distinct(r) /\ s[f] \notin SeqToSet(r)
    BY <1>1, <1>13
  <2> SUFFICES ASSUME NEW i \in 1 .. Len(s), NEW j \in 1 .. Len(s), i # j
               PROVE  m[i] # m[j]
    BY <1>8 DEF Distinct
  <2>1. CASE i = t \/ j = t
    BY <1>8, <1>9, <2>0, <2>1
  <2>2. CASE i # t /\ j # t
    <3> DEFINE k(x) == IF x < t THEN x ELSE x - 1
    <3>1. ASSUME NEW x \in 1 .. Len(s), x # t
          PROVE  k(x) \in DOMAIN r /\ m[x] = r[k(x)]
        BY <1>0, <1>2, <1>6, <3>1
    <3>2. k(i) # k(j)
        BY <1>0, <2>2
    <3>3. k(i) \in DOMAIN r /\ m[i] = r[k(i)] /\ k(j) \in DOMAIN r /\ m[j] = r[k(j)]
        BY <2>2, <3>1
    <3> HIDE DEF k
    <3> QED
        BY <2>0, <3>2, <3>3 DEF Distinct
  <2> QED
    BY <2>1, <2>2
<1> QED
    BY <1>6, <1>7, <1>10, <1>12, <1>13

-----------------------------------------------------------------------------
(* A finite set of numbers has a sorted enumeration.                       *)

LEMMA Enumerated ==
    ASSUME NEW T, T \subseteq Nat, IsFiniteSet(T)
    PROVE  \E s \in [1 .. Cardinality(T) -> T] : Increasing(s)
<1> DEFINE P == {n \in Nat :
                   \A U \in SUBSET Nat : IsFiniteSet(U) /\ Cardinality(U) = n =>
                     \E s \in [1 .. n -> U] : Increasing(s)}
<1>1. 0 \in P
  <2> SUFFICES ASSUME NEW U \in SUBSET Nat PROVE \E s \in [1 .. 0 -> U] : Increasing(s)
    OBVIOUS
  <2> DEFINE s == [i \in 1 .. 0 |-> CHOOSE x \in U : TRUE]
  <2>1. s \in [1 .. 0 -> U] /\ Increasing(s)
    BY DEF Increasing
  <2> QED
    BY <2>1
<1>2. ASSUME NEW n \in Nat, n \in P PROVE n + 1 \in P
  <2> SUFFICES ASSUME NEW U \in SUBSET Nat, IsFiniteSet(U), Cardinality(U) = n + 1
               PROVE  \E s \in [1 .. n + 1 -> U] : Increasing(s)
    OBVIOUS
  <2>1. U # {}
    BY FS_EmptySet
  <2>2. PICK x \in U : \A y \in U : x <= y
    BY <2>1, HasLeast
  <2>3. IsFiniteSet(U \ {x}) /\ Cardinality(U \ {x}) = n
  <3>1. /\ IsFiniteSet(U \ {x})
        /\ Cardinality(U \ {x}) = IF x \in U THEN Cardinality(U) - 1
                                  ELSE Cardinality(U)
    BY FS_RemoveElement
  <3>2. Cardinality(U \ {x}) = (n + 1) - 1
    BY <3>1
  <3> QED
    BY <3>1, <3>2
  <2>4. PICK s \in [1 .. n -> U \ {x}] : Increasing(s)
    BY <1>2, <2>3
  <2> DEFINE t == [i \in 1 .. n + 1 |-> IF i = 1 THEN x ELSE s[i - 1]]
  <2>5. \A i \in 1 .. n : s[i] \in U /\ x < s[i]
  <3> TAKE i \in 1 .. n
  <3>1. s[i] \in U /\ s[i] # x /\ s[i] \in Nat /\ x \in Nat
    OBVIOUS
  <3> QED
    BY <2>2, <3>1
  <2>6. t \in [1 .. n + 1 -> U]
    BY <2>5
  <2>7. ASSUME NEW i \in 1 .. n + 1, NEW j \in 1 .. n + 1, i < j PROVE t[i] < t[j]
    <3>1. j # 1 /\ j - 1 \in 1 .. n /\ t[j] = s[j - 1]
        BY <2>7
    <3>2. CASE i = 1
        BY <2>5, <3>1, <3>2
    <3>3. CASE i # 1
      <4>1. i - 1 \in 1 .. n /\ i - 1 < j - 1 /\ t[i] = s[i - 1]
        BY <2>7, <3>3
      <4>2. DOMAIN s = 1 .. n
        OBVIOUS
      <4> HIDE DEF t
      <4> QED
        BY <2>4, <3>1, <4>1, <4>2 DEF Increasing
    <3> QED
        BY <3>2, <3>3
  <2>8. Increasing(t)
    BY <2>7 DEF Increasing
  <2> QED
    BY <2>6, <2>8
<1> HIDE DEF P
<1>3. Nat \subseteq P
    BY <1>1, <1>2, SetInduction
<1>4. Cardinality(T) \in Nat
    BY FS_CardinalityType
<1>5. Cardinality(T) \in P
    BY <1>3, <1>4
<1> QED
    BY <1>5 DEF P

LEMMA SortedIs ==
    ASSUME NEW T, T \subseteq Nat, IsFiniteSet(T)
    PROVE  /\ Sorted(T) \in Seq(T) /\ Len(Sorted(T)) = Cardinality(T)
           /\ Increasing(Sorted(T)) /\ Distinct(Sorted(T))
           /\ SeqToSet(Sorted(T)) = T
<1> DEFINE n == Cardinality(T)
           s == Sorted(T)
<1>1. n \in Nat
    BY FS_CardinalityType
<1>2. s \in [1 .. n -> T] /\ Increasing(s)
    BY Enumerated DEF Sorted, Increasing
<1> HIDE DEF n, s
<1>3. s \in Seq(T) /\ Len(s) = n /\ DOMAIN s = 1 .. n
    BY <1>1, <1>2
<1>4. Distinct(s)
  <2> SUFFICES ASSUME NEW i \in 1 .. n, NEW j \in 1 .. n, i # j PROVE s[i] # s[j]
    BY <1>3 DEF Distinct
  <2>1. s[i] \in Nat /\ s[j] \in Nat
    BY <1>2
  <2>2. i < j \/ j < i
    BY <1>1
  <2> QED
    BY <1>3, <1>2, <2>1, <2>2 DEF Increasing
<1>5. s \in Injection(1 .. n, T)
    BY <1>2, <1>3, <1>4 DEF Injection, Distinct, IsInjective
<1>6. IsFiniteSet(1 .. n) /\ Cardinality(1 .. n) = n
    BY <1>1, FS_Interval
<1>7. s \in Surjection(1 .. n, T)
    BY <1>5, <1>6, FS_Injection DEF n
<1>8. SeqToSet(s) = T
    BY <1>2, <1>3, <1>7 DEF Surjection, SeqToSet
<1> QED
    BY <1>2, <1>3, <1>4, <1>8 DEF n, s

LEMMA MaxIs ==
    ASSUME NEW T, T \subseteq Nat, IsFiniteSet(T), T # {}
    PROVE  Max(T) \in T /\ \A y \in T : Max(T) >= y
<1> DEFINE s == Sorted(T)
           n == Cardinality(T)
<1>1. /\ s \in Seq(T) /\ Len(s) = n /\ Increasing(s) /\ SeqToSet(s) = T
    BY SortedIs
<1>2. n \in Nat /\ n # 0
    BY FS_CardinalityType, FS_EmptySet
<1> HIDE DEF s, n
<1>3. DOMAIN s = 1 .. n /\ s[n] \in T
    BY <1>1, <1>2
<1>4. ASSUME NEW y \in T PROVE s[n] >= y
  <2>1. PICK i \in 1 .. n : s[i] = y
    BY <1>1, <1>3 DEF SeqToSet
  <2>2. i = n \/ i < n
    BY <1>2
  <2>3. s[n] \in Nat /\ y \in Nat
    BY <1>3
  <2>4. CASE i < n
    BY <1>1, <1>2, <1>3, <2>1, <2>3, <2>4 DEF Increasing
  <2> QED
    BY <2>1, <2>2, <2>3, <2>4
<1>5. \E x \in T : \A y \in T : x >= y
    BY <1>3, <1>4
<1> QED
    BY <1>5 DEF Max

LEMMA MinIs ==
    ASSUME NEW T, T \subseteq Nat, T # {}
    PROVE  Min(T) \in T /\ \A y \in T : Min(T) <= y
BY HasLeast DEF Min

-----------------------------------------------------------------------------
(* The events a schedule is asked for.                                     *)

Start == Nat \ {0}

LEMMA FirstEventOf ==
    ASSUME NEW s \in Seq(Start)
    PROVE  First(s) \in {0} \cup SeqToSet(s)
BY DEF First, SeqToSet

LEMMA AfterIn ==
    ASSUME NEW s \in Seq(Start), NEW e
    PROVE  After(s, e) \in {0} \cup SeqToSet(s)
<1> DEFINE T == {i \in DOMAIN s : s[i] > e}
<1>1. CASE T = {}
    BY <1>1 DEF After
<1>2. CASE T # {}
  <2>1. T \subseteq Nat
    OBVIOUS
  <2>2. Min(T) \in T
    BY <1>2, <2>1, MinIs
  <2>3. After(s, e) = s[Min(T)]
    BY <1>2 DEF After
  <2>4. Min(T) \in DOMAIN s
    BY <2>2
  <2> QED
    BY <2>3, <2>4 DEF SeqToSet
<1> QED
    BY <1>1, <1>2

LEMMA LatestIn ==
    ASSUME NEW s \in Seq(Start), NEW n \in Nat, NEW T \in SUBSET SeqToSet(s),
           \A e \in T : e <= n
    PROVE  Latest(T) \in {0} \cup SeqToSet(s)
<1>1. SeqToSet(s) \subseteq Start
    BY SeqToSetIn
<1>2. T \in SUBSET Nat
    BY <1>1 DEF Start
<1>3. IsFiniteSet(T)
    BY <1>2, FS_BoundedSetOfNaturals
<1>4. CASE T = {}
    BY <1>4 DEF Latest
<1>5. CASE T # {}
  <2>1. Max(T) \in T
    BY <1>2, <1>3, <1>5, MaxIs
  <2> QED
    BY <1>5, <2>1 DEF Latest
<1> QED
    BY <1>4, <1>5

LEMMA PresentIn ==
    ASSUME NEW s \in Seq(Start)
    PROVE  /\ Present(s) \in {0} \cup SeqToSet(s)
           /\ Following(s) \in {0} \cup SeqToSet(s)
<1> DEFINE T == {e \in SeqToSet(s) : e <= Now}
<1>1. T \in SUBSET SeqToSet(s) /\ \A e \in T : e <= Now
    OBVIOUS
<1>2. Now \in Nat
    BY VTPListsAssumption
<1> HIDE DEF T
<1>3. Latest(T) \in {0} \cup SeqToSet(s)
    BY <1>1, <1>2, LatestIn
<1>4. Present(s) \in {0} \cup SeqToSet(s)
    BY <1>3 DEF Present, T
<1> QED
    BY <1>4, AfterIn DEF Following

LEMMA AroundIn ==
    ASSUME NEW s \in Seq(Start), NEW n \in Nat
    PROVE  Around(s, n) \in {0} \cup SeqToSet(s)
<1> DEFINE T == {e \in SeqToSet(s) : e <= n /\ n <= e + 1}
<1>1. T \in SUBSET SeqToSet(s) /\ \A e \in T : e <= n
    OBVIOUS
<1> HIDE DEF T
<1>3. Latest(T) \in {0} \cup SeqToSet(s)
    BY <1>1, LatestIn
<1> QED
    BY <1>3 DEF Around, T

Modes == {"all", "now", "next", "at", "from"}

LEMMA MaxOfTwo ==
    ASSUME NEW a \in Nat, NEW b \in Nat
    PROVE  Max({a, b}) \in Nat
<1>1. \E x \in {a, b} : \A y \in {a, b} : x >= y
    OBVIOUS
<1> QED
    BY <1>1 DEF Max

LEMMA FirstEventIn ==
    ASSUME NEW s \in Seq(Start), NEW a, a.mode \in Modes, a.from \in Nat
    PROVE  FirstEvent(a, s) \in {0} \cup SeqToSet(s)
<1>0. First(s) \in {0} \cup SeqToSet(s) /\ SeqToSet(s) \subseteq Nat
    BY FirstEventOf, SeqToSetIn DEF Start
<1>1. CASE a.mode = "all"
    BY <1>0, <1>1 DEF FirstEvent
<1>2. CASE a.mode = "now"
    BY <1>2, PresentIn DEF FirstEvent
<1>3. CASE a.mode = "next"
    BY <1>3, PresentIn DEF FirstEvent
<1>4. CASE a.mode = "at"
    BY <1>4, AroundIn DEF FirstEvent
<1>5. CASE a.mode = "from"
  <2>1. Max({a.from, First(s)}) \in Nat
    BY <1>0, MaxOfTwo
  <2>2. Around(s, Max({a.from, First(s)})) \in {0} \cup SeqToSet(s)
    BY <2>1, AroundIn
  <2>3. FirstEvent(a, s) = IF Len(s) <= 1 THEN First(s)
                           ELSE Around(s, Max({a.from, First(s)}))
    BY <1>5 DEF FirstEvent
  <2> QED
    BY <1>0, <2>2, <2>3
<1> QED
    BY <1>1, <1>2, <1>3, <1>4, <1>5 DEF Modes

-----------------------------------------------------------------------------
(* A new timer has a number no other has.                                  *)

LEMMA NewIdIs ==
    ASSUME NEW S, timers \in Seq(S)
    PROVE  NewId \in Nat /\ \A t \in SeqToSet(timers) : t.id # NewId
<1> DEFINE top == Len(timers) + 1
           ids == {timers[i].id : i \in DOMAIN timers}
<1>1. top \in Nat /\ Len(timers) \in Nat /\ Len(timers) < top
    OBVIOUS
<1>0. PICK m \in Nat : m = Len(timers)
    OBVIOUS
<1>2. IsFiniteSet(1 .. m) /\ Cardinality(1 .. m) = m
    BY FS_Interval
<1>3. IsFiniteSet(1 .. top) /\ Cardinality(1 .. top) = top
    BY <1>1, FS_Interval
<1> HIDE DEF top
<1>4. \E n \in 1 .. top : \A t \in SeqToSet(timers) : t.id # n
  <2> SUFFICES ASSUME \A n \in 1 .. top : \E t \in SeqToSet(timers) : t.id = n
               PROVE  FALSE
    OBVIOUS
  <2>1. \A n \in 1 .. top : \E i \in 1 .. Len(timers) : timers[i].id = n
    BY DEF SeqToSet
  <2> DEFINE f == [n \in 1 .. top |->
                     CHOOSE i \in 1 .. Len(timers) : timers[i].id = n]
  <2>2. \A n \in 1 .. top : f[n] \in 1 .. Len(timers) /\ timers[f[n]].id = n
    BY <2>1
  <2>3. f \in [1 .. top -> 1 .. Len(timers)]
    BY <2>2
  <2> HIDE DEF f
  <2>4. \E x, y \in 1 .. top : x # y /\ f[x] = f[y]
    <3>1. Cardinality(1 .. m) < Cardinality(1 .. top)
        BY <1>0, <1>1, <1>2, <1>3
    <3>2. f \in [1 .. top -> 1 .. m]
        BY <1>0, <2>3
    <3>3. \E x, y \in 1 .. top : x # y /\ f[x] = f[y]
      <4> HIDE <2>1, <1>0
      <4> DEFINE A == 1 .. top
                 B == 1 .. m
      <4>1. IsFiniteSet(A) /\ IsFiniteSet(B) /\ Cardinality(B) < Cardinality(A)
            /\ f \in [A -> B]
        BY <1>2, <1>3, <3>1, <3>2
      <4> HIDE DEF A, B
      <4>2. \E x, y \in A : x # y /\ f[x] = f[y]
        BY <4>1, FS_PigeonHole
      <4> QED
        BY <4>2 DEF A
    <3> QED
        BY <3>3
  <2> QED
    BY <2>2, <2>4
<1>5. NewId \in 1 .. top /\ \A t \in SeqToSet(timers) : t.id # NewId
    BY <1>4 DEF NewId, top
<1> QED
    BY <1>1, <1>5

-----------------------------------------------------------------------------
(* The invariant                                                           *)

Timer == [id : Nat, chan : Objects, on : BOOLEAN]
Schedule == [chan : Objects, evs : {s \in Seq(Start) : Increasing(s)}]

OwnIds(s) == \A i, j \in DOMAIN s : i # j => s[i].id # s[j].id

ListsTyped ==
    /\ channels \in Seq(Objects) /\ Distinct(channels)
    /\ watched \in Objects \cup {0}
    /\ timers \in Seq(Timer) /\ OwnIds(timers)
    /\ recordings \in Seq(Recs) /\ Distinct(recordings)
    /\ epg \in Seq(Schedule)

(* Watched is 0, for good, when the last channel has been deleted.         *)
References ==
    /\ watched # 0 => /\ current \in DOMAIN channels
                      /\ channels[current] = watched
    /\ \A t \in SeqToSet(timers) : t.chan \in SeqToSet(channels)
    /\ \A c \in controls : /\ c[1] \in SeqToSet(TimerIds)
                           /\ c[2] \in SeqToSet(recordings)

(* The same, but for a timer NEWT gave a channel that was gone.            *)
ReferencesBut ==
    /\ watched # 0 => /\ current \in DOMAIN channels
                      /\ channels[current] = watched
    /\ \A t \in SeqToSet(timers) : t.chan \in SeqToSet(channels) \/ Orphan(t)
    /\ \A c \in controls : /\ c[1] \in SeqToSet(TimerIds)
                           /\ c[2] \in SeqToSet(recordings)

(* Between Parse and Add of NEWT no other command is at work.              *)
Parsing ==
    /\ parsed \in [chan : Objects \cup {0}, on : BOOLEAN]
    /\ parsed # Unparsed =>
         /\ ~busy /\ req.op = "NEWT" /\ parsed.chan \in Objects
         /\ parsed.chan \in SeqToSet(channels) \/ changed # {}

EventLister ==
    [op : {"LSTE"}, err : {0},
     st : {"Channel", "Event", "Field", "EndChannel", "EndEPG"},
     f : Nat, sched : Nat, all : BOOLEAN, ev : Nat, traverse : BOOLEAN,
     to : Nat]
ChannelLister ==
    [op : {"LSTC"}, err : {0}, held : Nat, text : BOOLEAN, traverse : BOOLEAN]
IndexLister ==
    [op : {"LSTT", "LSTR"}, err : {0}, held : Nat, idx : Nat \ {0},
     traverse : BOOLEAN]
RecordingLister == [op : {"Info"}, err : {0}, held : Nat, f : Int]

(* Of an event there is something to list only in a schedule.              *)
InSchedule(x) ==
    /\ x.sched \in 0 .. Len(epg)
    /\ x.sched = 0 => x.st \in {"Channel", "EndEPG"}
    /\ x.st = "Field" => x.ev # 0

Lister(x) ==
    \/ x \in EventLister /\ InSchedule(x)
    \/ x \in ChannelLister \cup IndexLister \cup RecordingLister

(* What the handler points to is in its list.                              *)
Fresh(x) ==
    /\ x.op = "LSTE" /\ x.sched # 0 =>
         x.ev \in {0} \cup SeqToSet(epg[x.sched].evs)
    /\ x.op = "LSTC" => x.held \in SeqToSet(channels)
    /\ x.op = "LSTT" => x.held \in SeqToSet(TimerIds)

CodeOf(op) == IF op \in {"LSTE", "Info"} THEN 215 ELSE 250
IsSequence(s) == \E S : s \in Seq(S)

(* A handler that is not deleted yet has announced more with each line.    *)
Continued(x, s) ==
    /\ s # <<>>
    /\ \A i \in DOMAIN s : s[i].more /\ s[i].code = CodeOf(x.op)

Answering ==
    /\ busy \in BOOLEAN /\ (busy <=> h # None)
    /\ IsSequence(said)
    /\ busy => /\ Lister(h) /\ Continued(h, said)
               /\ h.op \in {"LSTR", "Info"} => req.op = "LSTR"
               /\ changed = {} => Fresh(h)

ListsInv ==
    /\ ListsTyped /\ ReferencesBut /\ Answering
    /\ OneAnswer /\ UndefinedOnlyIf /\ Parsing

LEMMA ListsImplied == ListsInv => OneAnswer /\ UndefinedOnlyIf /\ ReferencesKept
<1> SUFFICES ASSUME ListsInv PROVE CurrentKept
    BY DEF ListsInv, ReferencesBut, ReferencesKept
<1>1. watched \in SeqToSet(channels) => watched # 0
    BY SeqToSetIn, VTPListsAssumption DEF ListsInv, ListsTyped
<1> QED
    BY <1>1 DEF ListsInv, ReferencesBut, CurrentKept

-----------------------------------------------------------------------------
(* What a handler answers next.                                            *)

StepOK(x, n) ==
    /\ n.last \in BOOLEAN /\ (n.line.more <=> ~n.last)
    /\ n.line.more \in BOOLEAN
    /\ n.line.code = CodeOf(x.op)
    /\ ~n.last => Lister(n.h) /\ n.h.op = x.op /\ (Fresh(x) => Fresh(n.h))

LEMMA LineIs ==
    ASSUME NEW c, NEW w
    PROVE  /\ Line(c, w, FALSE).code = c /\ ~ Line(c, w, FALSE).more
           /\ Line(c, w, FALSE).more \in BOOLEAN
           /\ Line(c, w, TRUE).code = c /\ Line(c, w, TRUE).more
           /\ Line(c, w, TRUE).more \in BOOLEAN
BY DEF Line

LEMMA GoesOn ==
    ASSUME NEW x, NEW y, NEW w, NEW c, c = CodeOf(x.op),
           Lister(y), y.op = x.op, Fresh(x) => Fresh(y)
    PROVE  StepOK(x, Step(Line(c, w, TRUE), y, FALSE))
<1> DEFINE l == Line(c, w, TRUE)
           n == Step(l, y, FALSE)
<1>1. l.code = c /\ l.more /\ l.more \in BOOLEAN
    BY LineIs
<1> HIDE DEF l
<1>2. n.line = l /\ n.h = y /\ ~ n.last /\ n.last \in BOOLEAN
    BY DEF Step
<1> HIDE DEF n
<1>3. StepOK(x, n)
    BY <1>1, <1>2, Zenon DEF StepOK
<1> QED
    BY <1>3 DEF n, l

LEMMA Finishes ==
    ASSUME NEW x, NEW y, NEW w, NEW c, c = CodeOf(x.op)
    PROVE  StepOK(x, Step(Line(c, w, FALSE), y, TRUE))
<1> DEFINE l == Line(c, w, FALSE)
           n == Step(l, y, TRUE)
<1>1. l.code = c /\ ~ l.more /\ l.more \in BOOLEAN
    BY LineIs
<1> HIDE DEF l
<1>2. n.line = l /\ n.h = y /\ n.last /\ n.last \in BOOLEAN
    BY DEF Step
<1> HIDE DEF n
<1>3. StepOK(x, n)
    BY <1>1, <1>2, Zenon DEF StepOK
<1> QED
    BY <1>3 DEF n, l

LEMMA EventsOf ==
    ASSUME ListsTyped, NEW i \in 1 .. Len(epg)
    PROVE  /\ epg[i].evs \in Seq(Start) /\ SeqToSet(epg[i].evs) \subseteq Nat
           /\ Increasing(epg[i].evs) /\ i \in DOMAIN epg
<1>1. epg[i] \in Schedule
    BY DEF ListsTyped
<1>2. epg[i].evs \in Seq(Start) /\ Increasing(epg[i].evs)
    BY <1>1 DEF Schedule
<1> QED
    BY <1>2, SeqToSetIn DEF Start, ListsTyped

(* The handler moves to the event e, in its state st, of the schedule i.   *)
LEMMA EventMoves ==
    ASSUME ListsTyped, NEW x \in EventLister, InSchedule(x),
           NEW y \in EventLister, y.op = x.op,
           y.sched \in 1 .. Len(epg),
           y.st = "Field" => y.ev # 0,
           Fresh(x) => y.ev \in {0} \cup SeqToSet(epg[y.sched].evs)
    PROVE  Lister(y) /\ (Fresh(x) => Fresh(y))
<1>1. y.op = "LSTE"
    BY DEF EventLister
<1>2. Len(epg) \in Nat
    BY DEF ListsTyped
<1>3. y.sched # 0 /\ y.sched \in 0 .. Len(epg)
    BY <1>2
<1>4. InSchedule(y)
    BY <1>3 DEF InSchedule
<1> QED
    BY <1>1, <1>4 DEF Lister, Fresh

LEMMA EventStates ==
    ASSUME NEW x \in EventLister, InSchedule(x)
    PROVE  /\ LSTEState(x) \in {"Channel", "Event", "Field", "EndEvent",
                                "EndChannel", "EndEPG"}
           /\ LSTEState(x) = "Channel" => x.st = "Channel" /\ x.sched # 0
           /\ LSTEState(x) = "Event" => x.st = "Event" /\ x.ev # 0
           /\ LSTEState(x) = "Field" => x.st = "Field" /\ LaterFields(x) # {}
           /\ LSTEState(x) = "EndEvent" => x.st = "Field"
           /\ LSTEState(x) # "EndEPG" => x.sched # 0
<1>0. x.st \in {"Channel", "Event", "Field", "EndChannel", "EndEPG"}
    BY DEF EventLister
<1>1. CASE x.st = "Channel"
    BY <1>1 DEF LSTEState
<1>2. CASE x.st = "Event"
    BY <1>2 DEF LSTEState, InSchedule
<1>3. CASE x.st = "Field"
    BY <1>3 DEF LSTEState, InSchedule
<1>4. CASE x.st \in {"EndChannel", "EndEPG"}
    BY SMTT(40), <1>4 DEF LSTEState, InSchedule
<1> QED
    BY <1>0, <1>1, <1>2, <1>3, <1>4

LEMMA EventListerIs ==
    ASSUME NEW x \in EventLister
    PROVE  /\ x.op = "LSTE" /\ x.err = 0 /\ x.ev \in Nat /\ x.sched \in Nat
           /\ CodeOf(x.op) = 215
           /\ \A e \in Nat, f \in Nat, i \in Nat,
                 st \in {"Channel", "Event", "Field", "EndChannel", "EndEPG"} :
                LET y == [x EXCEPT !.ev = e, !.f = f, !.sched = i, !.st = st] IN
                /\ y \in EventLister /\ y.ev = e /\ y.f = f /\ y.sched = i
                /\ y.st = st /\ y.op = x.op
<1>1. x.op = "LSTE" /\ x.err = 0 /\ x.ev \in Nat /\ x.sched \in Nat
    BY DEF EventLister
<1>2. CodeOf(x.op) = 215
    BY <1>1 DEF CodeOf
<1>3. ASSUME NEW e \in Nat, NEW f \in Nat, NEW i \in Nat,
             NEW st \in {"Channel", "Event", "Field", "EndChannel", "EndEPG"}
      PROVE  LET y == [x EXCEPT !.ev = e, !.f = f, !.sched = i, !.st = st] IN
             /\ y \in EventLister /\ y.ev = e /\ y.f = f /\ y.sched = i
             /\ y.st = st /\ y.op = x.op
    BY DEF EventLister
<1> QED
    BY <1>1, <1>2, <1>3

LEMMA LSTEStep ==
    ASSUME ListsTyped, NEW x \in EventLister, InSchedule(x)
    PROVE  StepOK(x, LSTENext(x))
<1>0. x.op = "LSTE" /\ CodeOf(x.op) = 215 /\ x.ev \in Nat /\ x.sched \in Nat
      /\ x.f \in Nat
    BY EventListerIs DEF EventLister
<1>1. x.sched \in 0 .. Len(epg) /\ Len(epg) \in Nat
    BY DEF InSchedule, ListsTyped
<1>2. Fresh(x) /\ x.sched # 0 => x.ev \in {0} \cup SeqToSet(epg[x.sched].evs)
    BY <1>0 DEF Fresh
<1>3. CASE LSTEState(x) = "Channel"
  <2> DEFINE y == [x EXCEPT !.st = "Event"]
  <2>1. x.sched # 0
    BY <1>3, EventStates
  <2>2. y \in EventLister /\ y.op = x.op /\ y.sched = x.sched /\ y.ev = x.ev /\ y.st = "Event"
    BY DEF EventLister
  <2>3. LSTENext(x) = Step(Line(215, <<"C", epg[x.sched].chan, 0>>, TRUE), y, FALSE)
    BY <1>3 DEF LSTENext
  <2> HIDE DEF y
  <2>4. Lister(y) /\ (Fresh(x) => Fresh(y))
    BY <1>1, <1>2, <2>1, <2>2, EventMoves
  <2> QED
    BY <1>0, <2>2, <2>3, <2>4, GoesOn DEF Step, Line
<1>4. CASE LSTEState(x) = "Event"
  <2> DEFINE y == [x EXCEPT !.st = "Field", !.f = 0]
  <2>1. x.sched # 0 /\ x.ev # 0
    BY <1>4, EventStates
  <2>2. y \in EventLister /\ y.op = x.op /\ y.sched = x.sched /\ y.ev = x.ev /\ y.st = "Field"
    BY DEF EventLister
  <2>3. LSTENext(x) = Step(Line(215, <<"E", x.ev, 0>>, TRUE), y, FALSE)
    BY <1>4 DEF LSTENext
  <2> HIDE DEF y
  <2>4. Lister(y) /\ (Fresh(x) => Fresh(y))
    BY <1>1, <1>2, <2>1, <2>2, EventMoves
  <2> QED
    BY <1>0, <2>2, <2>3, <2>4, GoesOn DEF Step, Line
<1>5. CASE LSTEState(x) = "Field"
  <2> DEFINE g == Min(LaterFields(x))
             y == [x EXCEPT !.st = "Field", !.f = g]
  <2>1. x.sched # 0 /\ x.st = "Field" /\ LaterFields(x) # {}
    BY <1>5, EventStates
  <2>2. x.ev # 0
    BY <2>1 DEF InSchedule
  <2>3. g \in Nat
    <3>1. LaterFields(x) \subseteq Nat
        BY DEF LaterFields, Fields
    <3> QED
        BY <2>1, <3>1, MinIs
  <2>4. LSTENext(x) = Step(Line(215, <<Fields[g], x.ev, 0>>, TRUE), y, FALSE)
    BY <1>5 DEF LSTENext, EventField
  <2> HIDE DEF g
  <2>5. y \in EventLister /\ y.op = x.op /\ y.sched = x.sched /\ y.ev = x.ev /\ y.st = "Field"
    BY <2>3 DEF EventLister
  <2> HIDE DEF y
  <2>6. Lister(y) /\ (Fresh(x) => Fresh(y))
    BY <1>1, <1>2, <2>1, <2>2, <2>5, EventMoves
  <2> QED
    BY <1>0, <2>4, <2>5, <2>6, GoesOn DEF Step, Line
<1>6. CASE LSTEState(x) = "EndEvent"
  <2>1. x.sched # 0
    BY <1>6, EventStates
  <2>2. x.sched \in 1 .. Len(epg)
    BY <1>1, <2>1
  <2> DEFINE n == IF x.traverse THEN After(epg[x.sched].evs, x.ev) ELSE 0
             e == IF x.to # 0 /\ n > x.to THEN 0 ELSE n
             st == IF e # 0 THEN "Event" ELSE "EndChannel"
             y == [x EXCEPT !.ev = e, !.f = 0, !.st = st]
  <2>3. epg[x.sched].evs \in Seq(Start) /\ SeqToSet(epg[x.sched].evs) \subseteq Nat
    BY <2>2, EventsOf
  <2>4. n \in {0} \cup SeqToSet(epg[x.sched].evs)
    BY <2>3, AfterIn
  <2> HIDE DEF n
  <2>5. e \in {0} \cup SeqToSet(epg[x.sched].evs)
    BY <2>4
  <2>6. LSTENext(x) = Step(Line(215, <<"e", 0, 0>>, TRUE), y, FALSE)
    BY <1>6 DEF LSTENext, EndEvent, n
  <2> HIDE DEF e
  <2>7. e \in Nat
    BY <2>3, <2>5
  <2>8. st \in {"Event", "EndChannel"}
    OBVIOUS
  <2> HIDE DEF st
  <2>9. y \in EventLister /\ y.op = x.op /\ y.sched = x.sched /\ y.ev = e /\ y.st = st
    BY <2>7, <2>8 DEF EventLister
  <2> HIDE DEF y
  <2>10. Lister(y) /\ (Fresh(x) => Fresh(y))
    <3>1. y.st # "Field"
        BY <2>8, <2>9
    <3> QED
        BY <2>2, <2>5, <2>9, <3>1, EventMoves
  <2> QED
    BY <1>0, <2>6, <2>9, <2>10, GoesOn DEF Step, Line
<1>7. CASE LSTEState(x) = "EndChannel"
  <2>1. x.sched # 0
    BY <1>7, EventStates
  <2>2. x.sched \in 1 .. Len(epg)
    BY <1>1, <2>1
  <2> DEFINE i == IF x.all /\ x.sched < Len(epg) THEN x.sched + 1 ELSE 0
             y == [x EXCEPT !.sched = i, !.ev = First(epg[i].evs), !.st = "Channel"]
             z == [x EXCEPT !.st = "EndEPG"]
  <2>3. LSTENext(x) = Step(Line(215, <<"c", 0, 0>>, TRUE), IF i # 0 THEN y ELSE z, FALSE)
    BY <1>7 DEF LSTENext, EndChannel
  <2>4. i # 0 => i \in 1 .. Len(epg)
    BY <1>0, <1>1
  <2> HIDE DEF i
  <2>5. CASE i # 0
    <3> DEFINE e == First(epg[i].evs)
    <3>1. i \in 1 .. Len(epg) /\ epg[i].evs \in Seq(Start)
          /\ SeqToSet(epg[i].evs) \subseteq Nat
        BY <2>4, <2>5, EventsOf
    <3>2. e \in {0} \cup SeqToSet(epg[i].evs) /\ i \in Nat
        BY <3>1, FirstEventOf
    <3> HIDE DEF e
    <3>3. e \in Nat
        BY <3>1, <3>2
    <3>4. y = [x EXCEPT !.sched = i, !.ev = e, !.st = "Channel"]
        BY DEF e
    <3> HIDE DEF y
    <3>5. y \in EventLister /\ y.op = x.op /\ y.sched = i /\ y.ev = e /\ y.st = "Channel"
        BY <3>2, <3>3, <3>4 DEF EventLister
    <3>6. Lister(y) /\ (Fresh(x) => Fresh(y))
        BY <3>1, <3>2, <3>5, EventMoves
    <3> QED
        BY <1>0, <2>3, <2>5, <3>5, <3>6, GoesOn DEF Step, Line
  <2>6. CASE i = 0
    <3>1. z \in EventLister /\ z.op = x.op /\ z.sched = x.sched /\ z.ev = x.ev /\ z.st = "EndEPG"
        BY DEF EventLister
    <3> HIDE DEF y, z
    <3>2. Lister(z) /\ (Fresh(x) => Fresh(z))
        BY <1>2, <2>1, <2>2, <3>1, EventMoves
    <3> QED
        BY <1>0, <2>3, <2>6, <3>1, <3>2, GoesOn DEF Step, Line
  <2> QED
    BY <2>5, <2>6
<1>8. CASE LSTEState(x) = "EndEPG"
  <2>1. LSTENext(x) = Step(Line(215, <<"End", 0, 0>>, FALSE), x, TRUE)
    BY <1>8 DEF LSTENext
  <2> QED
    BY <1>0, <2>1, Finishes, ZenonT(40)
<1> QED
    BY <1>3, <1>4, <1>5, <1>6, <1>7, <1>8, EventStates

LEMMA ChannelFromIs ==
    ASSUME ListsTyped, NEW i \in Int, NEW text
    PROVE  ChannelFrom(i, text) \in {0} \cup SeqToSet(channels)
<1> DEFINE T == {n \in DOMAIN channels :
                   n >= i /\ (text => channels[n] \in named)}
<1>1. ChannelFrom(i, text) = IF T = {} THEN 0 ELSE channels[Min(T)]
    BY DEF ChannelFrom
<1>2. T \subseteq Nat /\ T \subseteq DOMAIN channels
    BY DEF ListsTyped
<1> HIDE DEF T
<1>3. CASE T # {}
  <2>1. Min(T) \in T
    BY <1>2, <1>3, MinIs
  <2>2. Min(T) \in DOMAIN channels
    BY <1>2, <2>1
  <2> QED
    BY <1>1, <1>3, <2>2 DEF SeqToSet
<1> QED
    BY <1>1, <1>3

LEMMA ChannelsAre ==
    ASSUME ListsTyped
    PROVE  SeqToSet(channels) \subseteq Nat \ {0}
BY SeqToSetIn, VTPListsAssumption DEF ListsTyped

LEMMA LSTCStep ==
    ASSUME ListsTyped, NEW x \in ChannelLister, Fresh(x)
    PROVE  StepOK(x, LSTCNext(x))
<1> DEFINE n == Pos(channels, x.held)
           c == IF x.traverse THEN ChannelFrom(n + 1, x.text) ELSE 0
           y == [x EXCEPT !.held = c]
           w == <<"", n, x.held>>
<1>0. x.op = "LSTC" /\ CodeOf(x.op) = 250 /\ x.held \in SeqToSet(channels)
    BY DEF ChannelLister, CodeOf, Fresh
<1>1. n \in DOMAIN channels
    BY <1>0, PosIs
<1>2. n \in Int /\ n + 1 \in Int
    BY <1>1 DEF ListsTyped
<1>3. ChannelFrom(n + 1, x.text) \in {0} \cup SeqToSet(channels)
    BY <1>2, ChannelFromIs
<1>4. c \in {0} \cup SeqToSet(channels)
    BY <1>3
<1>5. LSTCNext(x) = Step(Line(250, w, c # 0), IF c # 0 THEN y ELSE x, c = 0)
    BY DEF LSTCNext
<1> HIDE DEF c, w
<1>6. CASE c = 0
  <2>1. LSTCNext(x) = Step(Line(250, w, FALSE), x, TRUE)
    BY <1>5, <1>6
  <2> QED
    BY <1>0, <2>1, Finishes, ZenonT(40)
<1>7. CASE c # 0
  <2>1. c \in SeqToSet(channels) /\ c \in Nat
    BY <1>4, <1>7, ChannelsAre
  <2>2. y \in ChannelLister /\ y.op = x.op /\ y.held = c
    BY <2>1 DEF ChannelLister
  <2>3. LSTCNext(x) = Step(Line(250, w, TRUE), y, FALSE)
    BY <1>5, <1>7
  <2> HIDE DEF y
  <2>4. Lister(y) /\ Fresh(y)
    BY <1>0, <2>1, <2>2 DEF Lister, Fresh
  <2> QED
    BY <1>0, <2>2, <2>3, <2>4, GoesOn DEF Step, Line
<1> QED
    BY <1>6, <1>7

LEMMA IndexStep ==
    ASSUME NEW x \in IndexLister, NEW s \in Seq(Nat),
           x.op = "LSTT" => s = TimerIds
    PROVE  StepOK(x, IndexNext(x, s))
<1> DEFINE last == ~x.traverse \/ x.idx >= Len(s)
           y == [x EXCEPT !.idx = @ + 1, !.held = s[x.idx + 1]]
           w == <<"", Pos(s, x.held), x.held>>
<1>0. /\ x.op \in {"LSTT", "LSTR"} /\ CodeOf(x.op) = 250 /\ x.idx \in Nat \ {0}
      /\ Len(s) \in Nat
    BY DEF IndexLister, CodeOf
<1>1. IndexNext(x, s) = Step(Line(250, w, ~last), IF last THEN x ELSE y, last)
    BY DEF IndexNext
<1>2. CASE last
  <2>1. IndexNext(x, s) = Step(Line(250, w, FALSE), x, TRUE)
    BY <1>1, <1>2
  <2>2. CodeOf(x.op) = 250
    BY <1>0
  <2> HIDE DEF w, last, y
  <2>3. StepOK(x, Step(Line(250, w, FALSE), x, TRUE))
    BY <2>2, Finishes, ZenonT(40)
  <2> QED
    BY <2>1, <2>3, Zenon
<1>3. CASE ~last
  <2>1. x.idx + 1 \in 1 .. Len(s)
    BY <1>0, <1>3
  <2>2. s[x.idx + 1] \in Nat /\ s[x.idx + 1] \in SeqToSet(s)
    BY <2>1 DEF SeqToSet
  <2>3. y \in IndexLister /\ y.op = x.op /\ y.held = s[x.idx + 1]
    <3>1. x.idx + 1 \in Nat \ {0}
        BY <1>0
    <3> DEFINE i == x.idx + 1
    <3>2. y = [x EXCEPT !.idx = i, !.held = s[i]]
        OBVIOUS
    <3> HIDE DEF i
    <3>3. i \in Nat \ {0} /\ s[i] \in Nat
        BY <2>2, <3>1 DEF i
    <3> HIDE DEF y
    <3>4. y \in IndexLister /\ y.op = x.op /\ y.held = s[i]
        BY <3>2, <3>3 DEF IndexLister
    <3> QED
        BY <3>4 DEF i
  <2>4. IndexNext(x, s) = Step(Line(250, w, TRUE), y, FALSE)
    BY <1>1, <1>3
  <2> HIDE DEF y, w
  <2>5. Lister(y) /\ Fresh(y)
    BY <1>0, <2>2, <2>3 DEF Lister, Fresh
  <2> QED
    BY <1>0, <2>3, <2>4, <2>5, GoesOn DEF Step, Line
<1> QED
    BY <1>2, <1>3

LEMMA TimerIdsAre ==
    ASSUME ListsTyped
    PROVE  /\ TimerIds \in Seq(Nat) /\ Len(TimerIds) = Len(timers)
           /\ DOMAIN TimerIds = DOMAIN timers
           /\ \A i \in DOMAIN timers : TimerIds[i] = timers[i].id
<1>1. \A i \in DOMAIN timers : timers[i].id \in Nat
  <2> TAKE i \in DOMAIN timers
  <2>1. timers[i] \in Timer
    BY DEF ListsTyped
  <2> QED
    BY <2>1 DEF Timer
<1>2. Len(timers) \in Nat /\ DOMAIN timers = 1 .. Len(timers)
    BY DEF ListsTyped
<1> QED
    BY <1>1, <1>2 DEF TimerIds

LEMMA RecordingsAre ==
    ASSUME ListsTyped
    PROVE  recordings \in Seq(Nat)
BY SeqMonotonic, VTPListsAssumption DEF ListsTyped

LEMMA InfoStep ==
    ASSUME NEW x \in RecordingLister
    PROVE  StepOK(x, InfoNext(x))
<1> DEFINE T == {i \in DOMAIN InfoFields :
                  i > x.f /\ (InfoFields[i] = "T" \/ InfoFields[i] \in filled)}
<1>0. x.op = "Info" /\ CodeOf(x.op) = 215
    BY DEF RecordingLister, CodeOf
<1>1. ASSUME NEW g \in Int
      PROVE  LET y == [x EXCEPT !.f = g] IN
             y.op = x.op /\ Lister(y) /\ Fresh(y)
  <2> DEFINE y == [x EXCEPT !.f = g]
  <2>1. y \in RecordingLister /\ y.op = x.op
    BY DEF RecordingLister
  <2> HIDE DEF y
  <2>2. Lister(y) /\ Fresh(y)
    BY <1>0, <2>1 DEF Lister, Fresh
  <2> QED
    BY <2>1, <2>2 DEF y
<1>2. CASE x.f = -1
  <2> DEFINE y == [x EXCEPT !.f = 0]
             w == <<"C", x.held, 0>>
  <2>1. InfoNext(x) = Step(Line(215, w, TRUE), y, FALSE)
    BY <1>2 DEF InfoNext
  <2>2. y.op = x.op /\ Lister(y) /\ Fresh(y)
    BY <1>1
  <2> HIDE DEF y, w
  <2> QED
    BY <1>0, <2>1, <2>2, GoesOn DEF Step, Line
<1>3. CASE x.f # -1 /\ T # {}
  <2> DEFINE g == Min(T)
             y == [x EXCEPT !.f = g]
             w == <<InfoFields[g], x.held, 0>>
  <2>1. InfoNext(x) = Step(Line(215, w, TRUE), y, FALSE)
    BY <1>3 DEF InfoNext
  <2>2. T \subseteq Nat
    BY DEF InfoFields
  <2>3. T # {}
    BY <1>3
  <2> HIDE DEF T
  <2>4. g \in T
    BY <2>2, <2>3, MinIs
  <2> HIDE DEF g
  <2>5. g \in Int
    BY <2>2, <2>4
  <2>6. y.op = x.op /\ Lister(y) /\ Fresh(y)
    BY <1>1, <2>5
  <2> HIDE DEF y, w
  <2> QED
    BY <1>0, <2>1, <2>6, GoesOn DEF Step, Line
<1>4. CASE x.f # -1 /\ T = {}
  <2>1. InfoNext(x) = Step(Line(215, <<"End", 0, 0>>, FALSE), x, TRUE)
    BY <1>4 DEF InfoNext
  <2> QED
    BY <1>0, <2>1, Finishes, ZenonT(40)
<1> QED
    BY <1>2, <1>3, <1>4

LEMMA ListerIs ==
    ASSUME NEW x, Lister(x)
    PROVE  /\ x.err = 0
           /\ x.op \in {"LSTE", "LSTC", "LSTT", "LSTR", "Info"}
           /\ x.op = "LSTE" => x \in EventLister /\ InSchedule(x)
           /\ x.op = "LSTC" => x \in ChannelLister
           /\ x.op \in {"LSTT", "LSTR"} => x \in IndexLister
           /\ x.op = "Info" => x \in RecordingLister
<1>1. CASE x \in EventLister /\ InSchedule(x)
    BY <1>1 DEF EventLister
<1>2. CASE x \in ChannelLister
    BY <1>2 DEF ChannelLister
<1>3. CASE x \in IndexLister
    BY <1>3 DEF IndexLister
<1>4. CASE x \in RecordingLister
    BY <1>4 DEF RecordingLister
<1> QED
    BY <1>1, <1>2, <1>3, <1>4 DEF Lister

(* A handler whose entry is there, or that of a failed command.            *)
LEMMA HandlerStep ==
    ASSUME ListsTyped, NEW x, Lister(x), x.op = "LSTC" => Fresh(x)
    PROVE  StepOK(x, HandlerNext(x))
<1>0. x.err = 0
    BY ListerIs
<1>1. CASE x.op = "LSTE"
  <2>1. HandlerNext(x) = LSTENext(x)
    BY <1>0, <1>1 DEF HandlerNext
  <2> QED
    BY <1>1, <2>1, LSTEStep, ListerIs
<1>2. CASE x.op = "LSTC"
  <2>1. HandlerNext(x) = LSTCNext(x)
    BY <1>0, <1>2 DEF HandlerNext
  <2> QED
    BY <1>2, <2>1, LSTCStep, ListerIs
<1>3. CASE x.op = "LSTT"
  <2>1. HandlerNext(x) = IndexNext(x, TimerIds)
    BY <1>0, <1>3 DEF HandlerNext, LSTTNext
  <2> QED
    BY <1>3, <2>1, IndexStep, ListerIs, TimerIdsAre
<1>4. CASE x.op = "LSTR"
  <2>1. HandlerNext(x) = IndexNext(x, recordings)
    BY <1>0, <1>4 DEF HandlerNext
  <2> QED
    BY <1>4, <2>1, IndexStep, ListerIs, RecordingsAre
<1>5. CASE x.op = "Info"
  <2>1. HandlerNext(x) = InfoNext(x)
    BY <1>0, <1>5 DEF HandlerNext
  <2> QED
    BY <1>5, <2>1, InfoStep, ListerIs
<1> QED
    BY <1>1, <1>2, <1>3, <1>4, <1>5, ListerIs

LEMMA FreshIsNotStale ==
    ASSUME NEW x, Lister(x), Fresh(x), x.op \notin {"LSTR", "Info"}
    PROVE  ~ Stale(x)
<1>1. CASE x.op = "LSTE"
  <2>1. x \in EventLister /\ InSchedule(x)
    BY <1>1, ListerIs
  <2>2. LSTEState(x) \in {"Event", "Field", "EndEvent"} => x.ev # 0 /\ x.sched # 0
    BY <2>1, EventStates DEF InSchedule
  <2>3. x.sched # 0 => x.ev \in {0} \cup SeqToSet(epg[x.sched].evs)
    BY <1>1 DEF Fresh
  <2> QED
    BY <1>1, <2>2, <2>3 DEF Stale
<1>2. CASE x.op = "LSTC"
    BY <1>2 DEF Stale, Fresh
<1>3. CASE x.op = "LSTT"
    BY <1>3 DEF Stale, Fresh
<1> QED
    BY <1>1, <1>2, <1>3, ListerIs

LEMMA NotStaleIs ==
    ASSUME NEW x, Lister(x), ~ Stale(x), x.op = "LSTC"
    PROVE  Fresh(x)
<1>1. x.err = 0
    BY ListerIs
<1> QED
    BY <1>1 DEF Stale, Fresh

LEMMA NoneIsNoLister == ASSUME NEW x, Lister(x) PROVE x # None
BY ListerIs DEF None

LEMMA AppendIs ==
    ASSUME NEW s, IsSequence(s), NEW e
    PROVE  /\ IsSequence(Append(s, e)) /\ Len(s) \in Nat /\ DOMAIN s = 1 .. Len(s)
           /\ Append(s, e) # <<>> /\ Len(Append(s, e)) = Len(s) + 1
           /\ DOMAIN Append(s, e) = 1 .. Len(s) + 1
           /\ \A i \in 1 .. Len(s) : Append(s, e)[i] = s[i]
           /\ Append(s, e)[Len(s) + 1] = e
<1>1. PICK S : s \in Seq(S)
    BY DEF IsSequence
<1> DEFINE T == S \cup {e}
<1>2. s \in Seq(T) /\ e \in T
    BY <1>1, SeqMonotonic
<1> HIDE DEF T
<1>3. /\ Append(s, e) \in Seq(T)
      /\ Append(s, e) # << >>
      /\ Len(Append(s, e)) = Len(s)+1
      /\ \A i \in 1.. Len(s) : Append(s, e)[i] = s[i]
      /\ Append(s, e)[Len(s)+1] = e
    BY <1>2, AppendProperties
<1>4. Len(s) \in Nat /\ DOMAIN s = 1 .. Len(s)
      /\ DOMAIN Append(s, e) = 1 .. Len(Append(s, e))
    BY <1>2, <1>3, LenProperties
<1> QED
    BY <1>3, <1>4 DEF IsSequence

(* Told in full, or not finished; and if so, x is where it stands.         *)
LEMMA AnswerIs ==
    ASSUME NEW s, IsSequence(s), NEW l, NEW x, l.more \in BOOLEAN,
           s = <<>> \/ (Continued(x, s) /\ l.code = CodeOf(x.op)),
           said' = Append(s, l), busy' = l.more, busy' <=> h' # None
    PROVE  /\ IsSequence(said)' /\ said' # <<>> /\ OneAnswer'
           /\ busy' /\ l.code = CodeOf(x.op) => Continued(x, said')
<1> DEFINE t == Append(s, l)
<1>1. /\ IsSequence(t) /\ Len(s) \in Nat /\ DOMAIN s = 1 .. Len(s)
      /\ t # <<>> /\ Len(t) = Len(s) + 1 /\ DOMAIN t = 1 .. Len(s) + 1
      /\ \A i \in 1 .. Len(s) : t[i] = s[i]
      /\ t[Len(s) + 1] = l
    BY AppendIs
<1> HIDE DEF t
<1>2. \A i \in 1 .. Len(s) :
         t[i].more /\ t[i].code = CodeOf(x.op) /\ l.code = CodeOf(x.op)
  <2>1. CASE s = <<>>
    BY <1>1, <2>1
  <2>2. CASE s # <<>>
    BY <1>1, <2>2 DEF Continued
  <2> QED
    BY <2>1, <2>2
<1>3. ASSUME NEW i \in 1 .. Len(t) - 1
      PROVE  t[i].more /\ t[i].code = t[i + 1].code
  <2>1. i \in 1 .. Len(s)
    BY <1>1
  <2>2. i + 1 \in 1 .. Len(s) \/ i + 1 = Len(s) + 1
    BY <1>1, <2>1
  <2> QED
    BY <1>1, <1>2, <2>1, <2>2
<1>4. ASSUME l.more, l.code = CodeOf(x.op) PROVE Continued(x, t)
  <2> SUFFICES ASSUME NEW i \in 1 .. Len(s) + 1
               PROVE  t[i].more /\ t[i].code = CodeOf(x.op)
    BY <1>1 DEF Continued
  <2>1. i \in 1 .. Len(s) \/ i = Len(s) + 1
    BY <1>1
  <2> QED
    BY <1>1, <1>2, <1>4, <2>1
<1>5. /\ IsSequence(t) /\ t # <<>>
      /\ \A i \in 1 .. Len(t) - 1 : t[i].more /\ t[i].code = t[i + 1].code
      /\ t[Len(t)] = l
      /\ l.more /\ l.code = CodeOf(x.op) => Continued(x, t)
    BY <1>1, <1>3, <1>4
<1>6. /\ IsSequence(said') /\ said' # <<>>
      /\ \A i \in 1 .. Len(said') - 1 :
           said'[i].more /\ said'[i].code = said'[i + 1].code
      /\ said'[Len(said')] = l
      /\ l.more /\ l.code = CodeOf(x.op) => Continued(x, said')
  <2>1. said' = t
    BY DEF t
  <2> QED
    BY <1>5, <2>1
<1>7. busy' = said'[Len(said')].more
    BY <1>6
<1>8. OneAnswer'
    BY <1>6, <1>7 DEF OneAnswer
<1> QED
    BY <1>6, <1>8 DEF IsSequence

LEMMA PostAnswers ==
    ASSUME ListsTyped, UNCHANGED vdrVars, NEW x, NEW s, IsSequence(s),
           Post(x, s),
           \/ x.err # 0 /\ s = <<>>
           \/ /\ Lister(x)
              /\ s = <<>> \/ Continued(x, s)
              /\ x.op = "LSTC" \/ changed' = {} => Fresh(x)
              /\ x.op \in {"LSTR", "Info"} => req'.op = "LSTR"
    PROVE  Answering' /\ OneAnswer'
<1> DEFINE n == HandlerNext(x)
<1>0. said' = Append(s, n.line) /\ busy' = n.line.more
      /\ h' = IF n.last THEN None ELSE n.h
    BY DEF Post
<1>1. CASE x.err # 0 /\ s = <<>>
  <2>1. n = Step(Line(x.err, NoText, FALSE), x, TRUE)
    BY <1>1 DEF HandlerNext
  <2> HIDE DEF n
  <2>2. ~ n.line.more /\ n.line.more \in BOOLEAN /\ n.last
    BY <2>1 DEF Step, Line
  <2>3. ~ busy' /\ busy' \in BOOLEAN /\ h' = None
    BY <1>0, <2>2
  <2>4. IsSequence(said)' /\ OneAnswer'
    BY <1>0, <1>1, <2>2, <2>3, AnswerIs
  <2> QED
    BY <2>3, <2>4 DEF Answering
<1>2. CASE /\ Lister(x)
           /\ s = <<>> \/ Continued(x, s)
           /\ x.op = "LSTC" \/ changed' = {} => Fresh(x)
           /\ x.op \in {"LSTR", "Info"} => req'.op = "LSTR"
  <2>1. StepOK(x, n)
    BY <1>2, HandlerStep
  <2> HIDE DEF n
  <2>2. /\ n.last \in BOOLEAN /\ (n.line.more <=> ~n.last)
        /\ n.line.more \in BOOLEAN /\ n.line.code = CodeOf(x.op)
        /\ ~n.last => Lister(n.h) /\ n.h.op = x.op /\ (Fresh(x) => Fresh(n.h))
    BY <2>1 DEF StepOK
  <2>3. busy' \in BOOLEAN /\ (busy' <=> h' # None) /\ (busy' => ~ n.last)
    BY <1>0, <2>2, NoneIsNoLister
  <2>4. /\ IsSequence(said)' /\ OneAnswer'
        /\ busy' => Continued(x, said')
    BY <1>0, <1>2, <2>2, <2>3, AnswerIs
  <2>5. ASSUME busy' PROVE h' = n.h /\ Lister(n.h) /\ n.h.op = x.op
                           /\ (changed' = {} => Fresh(n.h)) /\ Continued(n.h, said')
    BY <1>0, <1>2, <2>2, <2>3, <2>4, <2>5 DEF Continued
  <2>6. ASSUME busy' PROVE /\ Lister(h)' /\ Continued(h, said)'
                           /\ (h.op \in {"LSTR", "Info"} => req.op = "LSTR")'
                           /\ (changed = {} => Fresh(h))'
    <3>1. /\ epg' = epg /\ channels' = channels /\ timers' = timers
        BY DEF vdrVars
    <3>2. Lister(h)'
        BY <2>5, <2>6, <3>1 DEF Lister, InSchedule
    <3>3. (changed = {} => Fresh(h))'
        BY <2>5, <2>6, <3>1 DEF Fresh, TimerIds
    <3>4. Continued(h, said)'
        BY <2>5, <2>6 DEF Continued
    <3> QED
        BY <1>2, <2>5, <2>6, <3>2, <3>3, <3>4
  <2> QED
    BY <2>3, <2>4, <2>6 DEF Answering
<1> QED
    BY <1>1, <1>2

-----------------------------------------------------------------------------
(* The lists: every edit keeps them typed, and what refers to each other.  *)

Kept == ListsTyped /\ References

LEMMA Ids == TimerIds = [i \in DOMAIN timers |-> timers[i].id]
BY DEF TimerIds

LEMMA IdSet ==
    ASSUME NEW S, NEW s \in Seq(S), NEW x
    PROVE  x \in SeqToSet([i \in DOMAIN s |-> s[i].id])
             <=> \E t \in SeqToSet(s) : t.id = x
<1> DEFINE r == [i \in DOMAIN s |-> s[i].id]
<1>1. DOMAIN r = DOMAIN s /\ \A i \in DOMAIN s : r[i] = s[i].id
    OBVIOUS
<1> HIDE DEF r
<1>2. x \in SeqToSet(r) <=> \E i \in DOMAIN s : s[i].id = x
    BY <1>1 DEF SeqToSet
<1> QED
    BY <1>2 DEF SeqToSet, r

(* The same invariant of the references, by the timers themselves.         *)
LEMMA ReferencesAre ==
    ASSUME ListsTyped
    PROVE  References <=>
             /\ watched # 0 => /\ current \in DOMAIN channels
                               /\ channels[current] = watched
             /\ \A t \in SeqToSet(timers) : t.chan \in SeqToSet(channels)
             /\ \A c \in controls : /\ \E t \in SeqToSet(timers) : t.id = c[1]
                                    /\ c[2] \in SeqToSet(recordings)
<1>1. \A x : x \in SeqToSet(TimerIds) <=> \E t \in SeqToSet(timers) : t.id = x
    BY IdSet, Ids DEF ListsTyped
<1> QED
    BY <1>1 DEF References

LEMMA KeptNext ==
    ASSUME channels' \in Seq(Objects), Distinct(channels'),
           watched' \in Objects \cup {0}, timers' \in Seq(Timer),
           OwnIds(timers'), recordings' \in Seq(Recs), Distinct(recordings'),
           epg' \in Seq(Schedule),
           watched' # 0 => /\ current' \in DOMAIN channels'
                           /\ channels'[current'] = watched',
           \A t \in SeqToSet(timers') : t.chan \in SeqToSet(channels'),
           \A c \in controls' : /\ \E t \in SeqToSet(timers') : t.id = c[1]
                                /\ c[2] \in SeqToSet(recordings')
    PROVE  Kept'
<1>1. ListsTyped'
    BY DEF ListsTyped, Distinct, OwnIds, Timer, Schedule, Start
<1>2. \A x : x \in SeqToSet([i \in DOMAIN timers' |-> timers'[i].id])
               <=> \E t \in SeqToSet(timers') : t.id = x
    BY IdSet
<1>3. TimerIds' = [i \in DOMAIN timers' |-> timers'[i].id]
    BY DEF TimerIds
<1>4. \A c \in controls' : /\ c[1] \in SeqToSet(TimerIds')
                           /\ c[2] \in SeqToSet(recordings')
    BY <1>2, <1>3
<1>5. References'
    BY <1>4 DEF References, SeqToSet
<1> QED
    BY <1>1, <1>5 DEF Kept

LEMMA KeptIs ==
    ASSUME Kept
    PROVE  /\ channels \in Seq(Objects) /\ Distinct(channels)
           /\ watched \in Objects \cup {0} /\ timers \in Seq(Timer)
           /\ OwnIds(timers) /\ recordings \in Seq(Recs)
           /\ Distinct(recordings) /\ epg \in Seq(Schedule)
           /\ watched # 0 => /\ current \in DOMAIN channels
                             /\ channels[current] = watched
           /\ \A t \in SeqToSet(timers) : t.chan \in SeqToSet(channels)
           /\ \A c \in controls : /\ \E t \in SeqToSet(timers) : t.id = c[1]
                                  /\ c[2] \in SeqToSet(recordings)
BY ReferencesAre DEF Kept, ListsTyped

LEMMA KeptUnchanged == ASSUME Kept, UNCHANGED vdrVars PROVE Kept'
<1>1. UNCHANGED <<channels, named, current, watched, timers, controls,
                  recordings, epg, filled>>
    BY DEF vdrVars
<1> QED
    BY <1>1, KeptIs, KeptNext

LEMMA OwnIdsWithout ==
    ASSUME NEW S, NEW s \in Seq(S), OwnIds(s), NEW n \in DOMAIN s
    PROVE  OwnIds(Without(s, n))
<1> DEFINE r == Without(s, n)
           at(k) == IF k < n THEN k ELSE k + 1
<1>0. Len(s) \in Nat /\ DOMAIN s = 1 .. Len(s) /\ n \in 1 .. Len(s)
    OBVIOUS
<1>1. /\ r \in Seq(S) /\ Len(r) = Len(s) - 1
      /\ \A i \in 1 .. Len(s) - 1 : r[i] = IF i < n THEN s[i] ELSE s[i + 1]
    BY WithoutIs
<1>2. DOMAIN r = 1 .. Len(s) - 1
    BY <1>0, <1>1
<1> HIDE DEF r
<1>3. ASSUME NEW i \in DOMAIN r PROVE at(i) \in DOMAIN s /\ r[i] = s[at(i)]
    BY <1>0, <1>1, <1>2
<1>4. ASSUME NEW i \in DOMAIN r, NEW j \in DOMAIN r, i # j
      PROVE  at(i) # at(j)
    BY <1>0, <1>1, <1>2, <1>4
<1> HIDE DEF at
<1>5. OwnIds(r)
    BY <1>3, <1>4 DEF OwnIds
<1> QED
    BY <1>5 DEF r

LEMMA OwnIdsAppend ==
    ASSUME NEW S, NEW s \in Seq(S), OwnIds(s), NEW x \in S,
           \A t \in SeqToSet(s) : t.id # x.id
    PROVE  OwnIds(Append(s, x))
<1> DEFINE t == Append(s, x)
<1>1. /\ Len(s) \in Nat /\ DOMAIN s = 1 .. Len(s)
      /\ \A i \in 1 .. Len(s) : t[i] = s[i]
      /\ t[Len(s) + 1] = x /\ DOMAIN t = 1 .. Len(s) + 1
    BY AppendProperties, LenProperties
<1> HIDE DEF t
<1>2. \A i \in DOMAIN t : i \in DOMAIN s \/ i = Len(s) + 1
    BY <1>1
<1>3. \A i \in DOMAIN s : t[i] = s[i] /\ s[i].id # x.id
    BY <1>1 DEF SeqToSet
<1>4. OwnIds(t)
  <2> SUFFICES ASSUME NEW i \in DOMAIN t, NEW j \in DOMAIN t, i # j
               PROVE  t[i].id # t[j].id
    BY DEF OwnIds
  <2>1. CASE i \in DOMAIN s /\ j \in DOMAIN s
    BY <1>3, <2>1 DEF OwnIds
  <2>2. CASE i = Len(s) + 1 /\ j \in DOMAIN s
    BY <1>1, <1>3, <2>2
  <2>3. CASE j = Len(s) + 1 /\ i \in DOMAIN s
    BY <1>1, <1>3, <2>3
  <2> QED
    BY <1>2, <2>1, <2>2, <2>3
<1> QED
    BY <1>4 DEF t

LEMMA DeleteTimerKeeps ==
    ASSUME Kept, NEW n \in DOMAIN timers, DeleteTimer(n),
           UNCHANGED <<channels, current, watched, recordings, epg>>
    PROVE  Kept'
<1>0. timers \in Seq(Timer) /\ timers' = Without(timers, n)
      /\ controls' = {c \in controls : c[1] # timers[n].id}
    BY KeptIs DEF DeleteTimer
<1>1. /\ timers' \in Seq(Timer)
      /\ SeqToSet(timers') \subseteq SeqToSet(timers)
      /\ \A i \in DOMAIN timers : i # n => timers[i] \in SeqToSet(timers')
    BY <1>0, WithoutSet
<1>4. OwnIds(timers')
    BY <1>0, KeptIs, OwnIdsWithout
<1>2. \A t \in SeqToSet(timers') : t.chan \in SeqToSet(channels')
    BY <1>1, KeptIs
<1>3. ASSUME NEW c \in controls'
      PROVE  /\ \E t \in SeqToSet(timers') : t.id = c[1]
             /\ c[2] \in SeqToSet(recordings')
  <2>1. c \in controls /\ c[1] # timers[n].id
    BY <1>0
  <2>2. PICK t \in SeqToSet(timers) : t.id = c[1]
    BY <2>1, KeptIs
  <2>3. PICK i \in DOMAIN timers : t = timers[i]
    BY DEF SeqToSet
  <2>4. i # n
    BY <2>1, <2>2, <2>3
  <2>5. t \in SeqToSet(timers')
    BY <1>1, <2>3, <2>4
  <2> QED
    BY <2>1, <2>2, <2>5, KeptIs
<1> QED
    BY <1>1, <1>2, <1>3, <1>4, KeptIs, KeptNext

LEMMA AppendedSet ==
    ASSUME NEW S, NEW s \in Seq(S), NEW e \in S
    PROVE  /\ Append(s, e) \in Seq(S)
           /\ SeqToSet(Append(s, e)) = SeqToSet(s) \cup {e}
           /\ \A i \in DOMAIN s : i \in DOMAIN Append(s, e) /\ Append(s, e)[i] = s[i]
           /\ Distinct(s) /\ e \notin SeqToSet(s) => Distinct(Append(s, e))
<1> DEFINE t == Append(s, e)
<1>1. /\ t \in Seq(S) /\ Len(t) = Len(s) + 1 /\ Len(s) \in Nat
      /\ \A i \in 1 .. Len(s) : t[i] = s[i]
      /\ t[Len(s) + 1] = e
      /\ DOMAIN s = 1 .. Len(s) /\ DOMAIN t = 1 .. Len(s) + 1
    BY AppendProperties, LenProperties
<1> HIDE DEF t
<1>2. SeqToSet(t) = SeqToSet(s) \cup {e}
  <2>1. SeqToSet(t) \subseteq SeqToSet(s) \cup {e}
    <3> SUFFICES ASSUME NEW i \in 1 .. Len(s) + 1
                 PROVE  t[i] \in SeqToSet(s) \cup {e}
        BY <1>1 DEF SeqToSet
    <3>1. i \in 1 .. Len(s) \/ i = Len(s) + 1
        BY <1>1
    <3> QED
        BY <1>1, <3>1 DEF SeqToSet
  <2>2. e \in SeqToSet(t)
    <3>1. Len(s) + 1 \in 1 .. Len(s) + 1
        BY <1>1
    <3> QED
        BY <1>1, <3>1 DEF SeqToSet
  <2>3. SeqToSet(s) \subseteq SeqToSet(t)
    <3> SUFFICES ASSUME NEW i \in 1 .. Len(s) PROVE s[i] \in SeqToSet(t)
        BY <1>1 DEF SeqToSet
    <3>1. i \in 1 .. Len(s) + 1
        BY <1>1
    <3> QED
        BY <1>1, <3>1 DEF SeqToSet
  <2> QED
    BY <2>1, <2>2, <2>3
<1>3. ASSUME Distinct(s), e \notin SeqToSet(s) PROVE Distinct(t)
  <2> SUFFICES ASSUME NEW i \in 1 .. Len(s) + 1, NEW j \in 1 .. Len(s) + 1, i # j
               PROVE  t[i] # t[j]
    BY <1>1 DEF Distinct
  <2>1. \A k \in 1 .. Len(s) : s[k] # e
    BY <1>1, <1>3 DEF SeqToSet
  <2>2. (i \in 1 .. Len(s) \/ i = Len(s) + 1) /\ (j \in 1 .. Len(s) \/ j = Len(s) + 1)
    BY <1>1
  <2>3. CASE i \in 1 .. Len(s) /\ j \in 1 .. Len(s)
    BY <1>1, <1>3, <2>3 DEF Distinct
  <2>4. CASE i = Len(s) + 1 /\ j \in 1 .. Len(s)
    BY <1>1, <2>1, <2>4
  <2>5. CASE j = Len(s) + 1 /\ i \in 1 .. Len(s)
    BY <1>1, <2>1, <2>5
  <2> QED
    BY <2>2, <2>3, <2>4, <2>5
<1>4. \A i \in DOMAIN s : i \in DOMAIN t /\ t[i] = s[i]
    BY <1>1
<1> QED
    BY <1>1, <1>2, <1>3, <1>4 DEF t

LEMMA AddTimerKeeps ==
    ASSUME Kept, NEW c \in SeqToSet(channels), NEW on \in BOOLEAN,
           timers' = Append(timers, [id |-> NewId, chan |-> c, on |-> on]),
           UNCHANGED <<channels, current, watched, controls, recordings, epg>>
    PROVE  Kept'
<1> DEFINE x == [id |-> NewId, chan |-> c, on |-> on]
<1>0. timers \in Seq(Timer) /\ channels \in Seq(Objects)
    BY KeptIs
<1>1. NewId \in Nat /\ \A t \in SeqToSet(timers) : t.id # NewId
    BY <1>0, NewIdIs
<1>2. c \in Objects
    BY <1>0, SeqToSetIn
<1>3. x \in Timer /\ x.chan = c /\ x.id = NewId
    BY <1>1, <1>2 DEF Timer
<1>8. timers' = Append(timers, x)
    OBVIOUS
<1> HIDE DEF x
<1>4. timers' \in Seq(Timer) /\ SeqToSet(timers') = SeqToSet(timers) \cup {x}
    BY <1>0, <1>3, <1>8, AppendedSet
<1>7. OwnIds(timers')
    BY <1>0, <1>1, <1>3, <1>8, KeptIs, OwnIdsAppend
<1>5. \A t \in SeqToSet(timers') : t.chan \in SeqToSet(channels')
    BY <1>3, <1>4, KeptIs
<1>6. \A k \in controls' : /\ \E t \in SeqToSet(timers') : t.id = k[1]
                           /\ k[2] \in SeqToSet(recordings')
    BY <1>4, KeptIs
<1> QED
    BY <1>4, <1>5, <1>6, <1>7, KeptIs, KeptNext

(* The one way a timer gets a channel that is not there.                   *)
LEMMA AddOrphan ==
    ASSUME Kept, NEW c \in Objects, NEW on \in BOOLEAN, req'.op = "NEWT",
           conn' = "undefined", changed' # {},
           timers' = Append(timers, [id |-> NewId, chan |-> c, on |-> on]),
           UNCHANGED <<channels, current, watched, controls, recordings, epg>>
    PROVE  ListsTyped' /\ ReferencesBut'
<1> DEFINE x == [id |-> NewId, chan |-> c, on |-> on]
<1>0. timers \in Seq(Timer) /\ channels \in Seq(Objects)
    BY KeptIs
<1>1. NewId \in Nat /\ \A t \in SeqToSet(timers) : t.id # NewId
    BY <1>0, NewIdIs
<1>2. x \in Timer /\ x.chan = c /\ x.id = NewId
    BY <1>1 DEF Timer
<1>3. timers' = Append(timers, x)
    OBVIOUS
<1> HIDE DEF x
<1>4. timers' \in Seq(Timer) /\ SeqToSet(timers') = SeqToSet(timers) \cup {x}
    BY <1>0, <1>2, <1>3, AppendedSet
<1>5. OwnIds(timers')
    BY <1>0, <1>1, <1>2, <1>3, KeptIs, OwnIdsAppend
<1>6. ListsTyped'
    BY <1>4, <1>5, KeptIs DEF ListsTyped, Distinct, OwnIds, Timer, Schedule, Start
<1>7. Last(timers') = x
    BY <1>0, <1>2, <1>3 DEF Last
<1>8. ASSUME NEW t \in SeqToSet(timers')
      PROVE  t.chan \in SeqToSet(channels') \/ Orphan(t)'
  <2>1. CASE t = x
    BY <2>1, <1>7 DEF Orphan
  <2>2. CASE t \in SeqToSet(timers)
    BY <2>2, KeptIs
  <2> QED
    BY <1>4, <2>1, <2>2
<1>9. \A k \in controls' : /\ \E t \in SeqToSet(timers') : t.id = k[1]
                           /\ k[2] \in SeqToSet(recordings')
    BY <1>4, KeptIs
<1>10. \A y : y \in SeqToSet([i \in DOMAIN timers' |-> timers'[i].id])
                <=> \E t \in SeqToSet(timers') : t.id = y
  <2>1. PICK d : d = timers'
    OBVIOUS
  <2>2. d \in Seq(Timer)
    BY <1>4, <2>1
  <2>3. \A y : y \in SeqToSet([i \in DOMAIN d |-> d[i].id])
                 <=> \E t \in SeqToSet(d) : t.id = y
    BY <2>2, IdSet
  <2> QED
    BY <2>1, <2>3
<1>11. TimerIds' = [i \in DOMAIN timers' |-> timers'[i].id]
    BY DEF TimerIds
<1>12. \A k \in controls' : /\ k[1] \in SeqToSet(TimerIds')
                            /\ k[2] \in SeqToSet(recordings')
    BY <1>9, <1>10, <1>11
<1>13. watched' # 0 => /\ current' \in DOMAIN channels'
                       /\ channels'[current'] = watched'
    BY KeptIs
<1>14. ReferencesBut'
    BY <1>8, <1>12, <1>13 DEF ReferencesBut, SeqToSet
<1> QED
    BY <1>6, <1>14

LEMMA SetTimerKeeps ==
    ASSUME Kept, NEW n \in DOMAIN timers, NEW on \in BOOLEAN,
           NEW c \in {0} \cup SeqToSet(channels),
           timers' = [timers EXCEPT ![n].on = on, ![n].chan = Setting(n, c)],
           UNCHANGED <<channels, current, watched, controls, recordings, epg>>
    PROVE  Kept'
<1> DEFINE e == Setting(n, c)
           x == [timers[n] EXCEPT !.on = on, !.chan = e]
<1>0. timers \in Seq(Timer) /\ channels \in Seq(Objects) /\ timers[n] \in Timer
    BY KeptIs
<1>1. e \in SeqToSet(channels)
  <2>1. timers[n] \in SeqToSet(timers)
    BY DEF SeqToSet
  <2>2. timers[n].chan \in SeqToSet(channels)
    BY <2>1, KeptIs
  <2> QED
    BY <2>2 DEF Setting
<1> HIDE DEF e
<1>2. e \in Objects
    BY <1>0, <1>1, SeqToSetIn
<1>3. x \in Timer /\ x.chan = e /\ x.id = timers[n].id
    BY <1>0, <1>2 DEF Timer
<1>4. timers' = [timers EXCEPT ![n] = x]
    BY <1>0 DEF e
<1> HIDE DEF x
<1>5. n \in 1 .. Len(timers) /\ DOMAIN timers = 1 .. Len(timers)
    BY <1>0
<1>6. /\ timers' \in Seq(Timer) /\ Len(timers') = Len(timers)
      /\ \A j \in 1 .. Len(timers) : timers'[j] = IF j = n THEN x ELSE timers[j]
  <2> DEFINE r == [timers EXCEPT ![n] = x]
  <2>1. /\ r \in Seq(Timer) /\ Len(r) = Len(timers)
        /\ \A j \in 1 .. Len(timers) : r[j] = IF j = n THEN x ELSE timers[j]
    BY <1>0, <1>3, <1>5, ExceptSeq
  <2>2. timers' = r
    BY <1>4
  <2> HIDE DEF r
  <2> QED
    BY <2>1, <2>2
<1>7. DOMAIN timers' = 1 .. Len(timers)
    BY <1>6
<1>8. ASSUME NEW t \in SeqToSet(timers') PROVE t.chan \in SeqToSet(channels')
  <2>1. PICK j \in 1 .. Len(timers) : t = timers'[j]
    BY <1>7 DEF SeqToSet
  <2>2. CASE j = n
    BY <1>1, <1>3, <1>6, <2>1, <2>2
  <2>3. CASE j # n
    <3>1. t \in SeqToSet(timers)
        BY <1>5, <1>6, <2>1, <2>3 DEF SeqToSet
    <3> QED
        BY <3>1, KeptIs
  <2> QED
    BY <2>2, <2>3
<1>9. ASSUME NEW t \in SeqToSet(timers)
      PROVE  \E u \in SeqToSet(timers') : u.id = t.id
  <2>1. PICK j \in 1 .. Len(timers) : t = timers[j]
    BY <1>5 DEF SeqToSet
  <2>2. timers'[j] \in SeqToSet(timers')
    BY <1>7 DEF SeqToSet
  <2>3. timers'[j].id = t.id
    BY <1>3, <1>6, <2>1
  <2> QED
    BY <2>2, <2>3
<1>10. \A k \in controls' : /\ \E t \in SeqToSet(timers') : t.id = k[1]
                            /\ k[2] \in SeqToSet(recordings')
  <2> TAKE k \in controls'
  <2>1. k \in controls /\ recordings' = recordings
    OBVIOUS
  <2>2. k[2] \in SeqToSet(recordings)
    BY <2>1, KeptIs
  <2>3. PICK t \in SeqToSet(timers) : t.id = k[1]
    BY <2>1, KeptIs
  <2> QED
    BY ZenonT(40), <1>9, <2>1, <2>2, <2>3
<1>11. OwnIds(timers')
  <2>1. \A j \in DOMAIN timers' : timers'[j].id = timers[j].id
    BY <1>3, <1>6, <1>7
  <2> QED
    BY <1>5, <1>7, <2>1, KeptIs DEF OwnIds
<1> QED
    BY <1>6, <1>8, <1>10, <1>11, KeptIs, KeptNext

LEMMA AddChannelKeeps ==
    ASSUME Kept, NEW c \in Objects \ SeqToSet(channels), AddChannel(c)
    PROVE  Kept'
<1>0. /\ channels' = Append(channels, c)
      /\ UNCHANGED <<current, watched, timers, controls, recordings, epg>>
    BY DEF AddChannel, Rest
<1>1. channels \in Seq(Objects) /\ Distinct(channels)
    BY KeptIs
<1>2. /\ channels' \in Seq(Objects) /\ Distinct(channels')
      /\ SeqToSet(channels') = SeqToSet(channels) \cup {c}
      /\ \A i \in DOMAIN channels : i \in DOMAIN channels' /\ channels'[i] = channels[i]
    BY <1>0, <1>1, AppendedSet
<1>3. \A t \in SeqToSet(timers') : t.chan \in SeqToSet(channels')
    BY <1>0, <1>2, KeptIs
<1>4. \A k \in controls' : /\ \E t \in SeqToSet(timers') : t.id = k[1]
                           /\ k[2] \in SeqToSet(recordings')
    BY <1>0, KeptIs
<1>5. watched' # 0 => /\ current' \in DOMAIN channels'
                      /\ channels'[current'] = watched'
    BY <1>0, <1>2, KeptIs
<1> QED
    BY <1>0, <1>2, <1>3, <1>4, <1>5, KeptIs, KeptNext

LEMMA MoveChannelKeeps ==
    ASSUME Kept, NEW f \in DOMAIN channels, NEW t \in DOMAIN channels,
           channels' = Moved(channels, f, t), Switch(channels'),
           UNCHANGED <<timers, controls, recordings, epg>>
    PROVE  Kept'
<1>1. channels \in Seq(Objects) /\ Distinct(channels)
    BY KeptIs
<1>2. /\ channels' \in Seq(Objects) /\ Distinct(channels')
      /\ SeqToSet(channels') = SeqToSet(channels)
    BY <1>1, MovedIs
<1>3. \A k \in SeqToSet(timers') : k.chan \in SeqToSet(channels')
    BY <1>2, KeptIs
<1>4. \A k \in controls' : /\ \E u \in SeqToSet(timers') : u.id = k[1]
                           /\ k[2] \in SeqToSet(recordings')
    BY KeptIs
<1>5. ASSUME watched' # 0
      PROVE /\ current' \in DOMAIN channels'
            /\ channels'[current'] = watched'
  <2>1. watched' = watched /\ current \in DOMAIN channels
        /\ channels[current] = watched
    BY <1>5, KeptIs DEF Switch
  <2>2. current' = Pos(channels', watched)
    BY <2>1 DEF Switch
  <2>3. watched \in SeqToSet(channels')
    BY <1>2, <2>1 DEF SeqToSet
  <2> QED
    BY <2>1, <2>2, <2>3, PosIs
<1>6. watched' \in Objects \cup {0}
    BY KeptIs DEF Switch
<1> QED
    BY <1>2, <1>3, <1>4, <1>5, <1>6, KeptIs, KeptNext

LEMMA DeleteChannelKeeps ==
    ASSUME Kept, NEW n \in DOMAIN channels, TimersOn(channels[n]) = {},
           DeleteChannel(n)
    PROVE  Kept'
<1> DEFINE s == Without(channels, n)
           c == IF n + 1 \in DOMAIN channels THEN channels[n + 1]
                ELSE IF n - 1 \in DOMAIN channels THEN channels[n - 1] ELSE 0
<1>0. /\ channels' = s
      /\ IF n = current
           THEN /\ watched' = c
                /\ current' = IF c = 0 THEN current ELSE Pos(s, c)
           ELSE Switch(s)
      /\ UNCHANGED <<timers, controls, recordings, epg>>
    BY DEF DeleteChannel, Rest
<1>1. channels \in Seq(Objects) /\ Distinct(channels) /\ n \in Int
    BY KeptIs
<1>2. /\ s \in Seq(Objects) /\ Distinct(s)
      /\ \A i \in DOMAIN channels : i # n => channels[i] \in SeqToSet(s)
    BY <1>1, WithoutSet
<1>3. c = 0 \/ c \in SeqToSet(s)
  <2>1. n + 1 # n /\ n - 1 # n
    BY <1>1
  <2> QED
    BY <1>2, <2>1
<1> HIDE DEF s, c
<1>4. SeqToSet(s) \subseteq Objects
    BY <1>2, SeqToSetIn
<1>5. ASSUME NEW k \in SeqToSet(timers') PROVE k.chan \in SeqToSet(channels')
  <2>1. k \in SeqToSet(timers)
    BY <1>0
  <2>2. PICK j \in DOMAIN timers : k = timers[j]
    BY <2>1 DEF SeqToSet
  <2>3. k.chan # channels[n]
    BY <2>2 DEF TimersOn
  <2>4. k.chan \in SeqToSet(channels)
    BY <2>1, KeptIs
  <2>5. PICK i \in DOMAIN channels : channels[i] = k.chan
    BY <2>4 DEF SeqToSet
  <2> QED
    BY <1>0, <1>2, <2>3, <2>5
<1>6. \A k \in controls' : /\ \E u \in SeqToSet(timers') : u.id = k[1]
                           /\ k[2] \in SeqToSet(recordings')
    BY <1>0, KeptIs
<1>7. CASE n = current
  <2>1. watched' = c /\ (c # 0 => current' = Pos(s, c))
    BY <1>0, <1>7
  <2>2. watched' # 0 => /\ current' \in DOMAIN channels'
                        /\ channels'[current'] = watched'
    BY <1>0, <1>3, <2>1, PosIs
  <2>3. watched' \in Objects \cup {0}
    BY <1>3, <1>4, <2>1
  <2> QED
    BY <1>0, <1>2, <1>5, <1>6, <2>2, <2>3, KeptIs, KeptNext
<1>8. CASE n # current
  <2>1. Switch(s)
    BY <1>0, <1>8
  <2>2. watched' = watched
    BY <2>1 DEF Switch
  <2>3. ASSUME watched' # 0
        PROVE /\ current' \in DOMAIN channels'
              /\ channels'[current'] = watched'
    <3>1. current \in DOMAIN channels /\ channels[current] = watched
        BY <2>2, <2>3, KeptIs
    <3>2. current' = Pos(s, watched)
        BY <2>1, <3>1 DEF Switch
    <3>3. watched \in SeqToSet(s)
        BY <1>2, <1>8, <3>1
    <3> QED
        BY <1>0, <2>2, <3>2, <3>3, PosIs
  <2>4. watched' \in Objects \cup {0}
    BY <2>2, KeptIs
  <2> QED
    BY <1>0, <1>2, <1>5, <1>6, <2>3, <2>4, KeptIs, KeptNext
<1> QED
    BY <1>7, <1>8

LEMMA DeleteRecordingKeeps ==
    ASSUME Kept, NEW n \in DOMAIN recordings, ~ InUse(recordings[n]),
           recordings' = Without(recordings, n),
           UNCHANGED <<channels, current, watched, timers, controls, epg>>
    PROVE  Kept'
<1>0. recordings \in Seq(Recs)
    BY KeptIs
<1>1. /\ recordings' \in Seq(Recs) /\ Distinct(recordings')
      /\ \A i \in DOMAIN recordings :
           i # n => recordings[i] \in SeqToSet(recordings')
    BY <1>0, KeptIs, WithoutSet
<1>2. ASSUME NEW k \in controls'
      PROVE  /\ \E t \in SeqToSet(timers') : t.id = k[1]
             /\ k[2] \in SeqToSet(recordings')
  <2>1. k \in controls /\ k[2] \in SeqToSet(recordings)
    BY KeptIs
  <2>2. PICK i \in DOMAIN recordings : recordings[i] = k[2]
    BY <2>1 DEF SeqToSet
  <2>3. i # n
    BY <2>1, <2>2 DEF InUse
  <2> QED
    BY <1>1, <2>1, <2>2, <2>3, KeptIs
<1> QED
    BY <1>1, <1>2, KeptIs, KeptNext

LEMMA SortRecordingsKeeps ==
    ASSUME Kept, recordings' = Sorted(SeqToSet(recordings)),
           UNCHANGED <<channels, current, watched, timers, controls, epg>>
    PROVE  Kept'
<1> DEFINE T == SeqToSet(recordings)
<1>0. recordings \in Seq(Recs)
    BY KeptIs
<1>1. T \subseteq Recs /\ Recs \subseteq Nat /\ IsFiniteSet(Recs)
    BY <1>0, SeqToSetIn, VTPListsAssumption
<1> HIDE DEF T
<1>2. T \subseteq Nat /\ IsFiniteSet(T)
    BY <1>1, FS_Subset
<1>3. /\ Sorted(T) \in Seq(T) /\ SeqToSet(Sorted(T)) = T
      /\ Distinct(Sorted(T))
    BY <1>2, SortedIs
<1>4. Sorted(T) \in Seq(Recs)
    BY <1>1, <1>3, SeqMonotonic
<1>5. recordings' = Sorted(T)
    BY DEF T
<1>6. SeqToSet(recordings') = SeqToSet(recordings) /\ Distinct(recordings')
    BY <1>3, <1>5 DEF T
<1> QED
    BY <1>4, <1>5, <1>6, KeptIs, KeptNext

LEMMA StartRecordingKeeps ==
    ASSUME Kept, NEW t \in SeqToSet(timers),
           NEW r \in Recs \ SeqToSet(recordings),
           recordings' = Append(recordings, r),
           controls' = controls \cup {<<t.id, r>>},
           UNCHANGED <<channels, current, watched, timers, epg>>
    PROVE  Kept'
<1>0. recordings \in Seq(Recs)
    BY KeptIs
<1>1. /\ recordings' \in Seq(Recs) /\ Distinct(recordings')
      /\ SeqToSet(recordings') = SeqToSet(recordings) \cup {r}
    BY <1>0, KeptIs, AppendedSet
<1>2. ASSUME NEW k \in controls'
      PROVE  /\ \E u \in SeqToSet(timers') : u.id = k[1]
             /\ k[2] \in SeqToSet(recordings')
  <2>1. CASE k \in controls
    BY <1>1, <2>1, KeptIs
  <2>2. CASE k = <<t.id, r>>
    BY <1>1, <2>2
  <2> QED
    BY <2>1, <2>2
<1> QED
    BY <1>1, <1>2, KeptIs, KeptNext

LEMMA StopRecordingKeeps ==
    ASSUME Kept, controls' \subseteq controls,
           UNCHANGED <<channels, current, watched, timers, recordings, epg>>
    PROVE  Kept'
BY KeptIs, KeptNext

LEMMA TailIncreases ==
    ASSUME NEW s \in Seq(Start), s # <<>>, Increasing(s)
    PROVE  Tail(s) \in Seq(Start) /\ Increasing(Tail(s))
<1> DEFINE e == Tail(s)
<1>1. e \in Seq(Start) /\ Len(e) = Len(s) - 1
    BY HeadTailProperties
<1>2. \A k \in 1 .. Len(e) : e[k] = s[k + 1]
    BY HeadTailProperties
<1>3. DOMAIN e = 1 .. Len(e) /\ DOMAIN s = 1 .. Len(s) /\ Len(s) \in Nat
    BY <1>1
<1> HIDE DEF e
<1>4. ASSUME NEW j \in DOMAIN e, NEW k \in DOMAIN e, j < k PROVE e[j] < e[k]
  <2>1. j + 1 \in DOMAIN s /\ k + 1 \in DOMAIN s /\ j + 1 < k + 1
    BY <1>1, <1>3, <1>4
  <2>2. s[j + 1] < s[k + 1]
    BY <2>1 DEF Increasing
  <2> QED
    BY <1>2, <1>3, <2>2
<1> QED
    BY <1>1, <1>4 DEF Increasing, e

LEMMA ExpireKeeps ==
    ASSUME Kept, NEW i \in DOMAIN epg, epg[i].evs # <<>>,
           epg' = [epg EXCEPT ![i].evs = Tail(@)],
           UNCHANGED <<channels, current, watched, timers, controls, recordings>>
    PROVE  Kept' /\ Len(epg') = Len(epg)
<1> DEFINE e == Tail(epg[i].evs)
           x == [epg[i] EXCEPT !.evs = e]
<1>0. epg \in Seq(Schedule) /\ epg[i] \in Schedule /\ i \in 1 .. Len(epg)
    BY KeptIs
<1>1. epg[i].evs \in Seq(Start) /\ Increasing(epg[i].evs)
    BY <1>0 DEF Schedule
<1>2. e \in Seq(Start) /\ Increasing(e)
    BY <1>1, TailIncreases
<1>3. epg' = [epg EXCEPT ![i] = x]
    BY <1>0
<1> HIDE DEF e
<1>4. x \in Schedule
    BY <1>0, <1>2 DEF Schedule
<1> HIDE DEF x
<1>5. epg' \in Seq(Schedule) /\ Len(epg') = Len(epg)
  <2> DEFINE r == [epg EXCEPT ![i] = x]
  <2>1. r \in Seq(Schedule) /\ Len(r) = Len(epg)
    BY <1>0, <1>4, ExceptSeq
  <2>2. epg' = r
    BY <1>3
  <2> HIDE DEF r
  <2> QED
    BY <2>1, <2>2
<1> QED
    BY <1>5, KeptIs, KeptNext

-----------------------------------------------------------------------------
(* The answers to a command.                                               *)

Told == Answering /\ OneAnswer /\ UndefinedOnlyIf

LEMMA InvIs == ListsInv /\ conn = "open" => Kept /\ Told /\ Parsing
BY DEF ListsInv, Kept, Told, References, ReferencesBut, Orphan

LEMMA InvNext == Kept' /\ Told' /\ Parsing' => ListsInv'
BY DEF ListsInv, Kept, Told, References, ReferencesBut

LEMMA SingleIs ==
    ASSUME NEW c
    PROVE  LET s == <<Line(c, NoText, FALSE)>> IN
           /\ IsSequence(s) /\ s # <<>> /\ Len(s) = 1
           /\ ~ s[1].more /\ s[1].more \in BOOLEAN
<1> DEFINE l == Line(c, NoText, FALSE)
<1>1. ~ l.more /\ l.more \in BOOLEAN
    BY DEF Line
<1> HIDE DEF l
<1>2. <<l>> \in Seq({l})
    OBVIOUS
<1> QED
    BY <1>1, <1>2 DEF IsSequence, l

LEMMA AnswerTold ==
    ASSUME Told, ~busy, conn = "open", NEW c, Answer(<<Line(c, NoText, FALSE)>>)
    PROVE  Told'
<1> DEFINE s == <<Line(c, NoText, FALSE)>>
<1>0. /\ said' = s /\ changed' = {} /\ busy' = busy /\ h' = h /\ conn' = conn
    BY DEF Answer
<1>1. /\ IsSequence(s) /\ s # <<>> /\ Len(s) = 1
      /\ ~ s[1].more /\ s[1].more \in BOOLEAN
    BY SingleIs
<1> HIDE DEF s
<1>2. busy = FALSE /\ h = None
    BY DEF Told, Answering
<1>3. Answering'
    BY <1>0, <1>1, <1>2 DEF Answering, IsSequence
<1>4. OneAnswer'
  <2>1. \A i \in 1 .. Len(said') - 1 :
          said'[i].more /\ said'[i].code = said'[i + 1].code
    BY <1>0, <1>1
  <2>2. busy' = said'[Len(said')].more
    BY <1>0, <1>1, <1>2
  <2>3. busy' <=> h' # None
    BY <1>0, <1>2
  <2> QED
    BY <2>1, <2>2, <2>3 DEF OneAnswer
<1>5. UndefinedOnlyIf'
    BY <1>0 DEF UndefinedOnlyIf
<1> QED
    BY <1>3, <1>4, <1>5 DEF Told

(* The same line without a new command, and an end before it is said.      *)
LEMMA SaidTold ==
    ASSUME Told, ~busy, conn = "open", NEW c,
           said' = <<Line(c, NoText, FALSE)>>,
           UNCHANGED <<busy, h, conn>>
    PROVE  Told'
<1> DEFINE s == <<Line(c, NoText, FALSE)>>
<1>0. said' = s /\ busy' = busy /\ h' = h /\ conn' = conn
    OBVIOUS
<1>1. /\ IsSequence(s) /\ s # <<>> /\ Len(s) = 1
      /\ ~ s[1].more /\ s[1].more \in BOOLEAN
    BY SingleIs
<1> HIDE DEF s
<1>2. busy = FALSE /\ h = None
    BY DEF Told, Answering
<1>3. Answering'
    BY <1>0, <1>1, <1>2 DEF Answering, IsSequence
<1>4. OneAnswer'
  <2>1. \A i \in 1 .. Len(said') - 1 :
          said'[i].more /\ said'[i].code = said'[i + 1].code
    BY <1>0, <1>1
  <2>2. busy' = said'[Len(said')].more
    BY <1>0, <1>1, <1>2
  <2>3. busy' <=> h' # None
    BY <1>0, <1>2
  <2> QED
    BY <2>1, <2>2, <2>3 DEF OneAnswer
<1>5. UndefinedOnlyIf'
    BY <1>0 DEF UndefinedOnlyIf
<1> QED
    BY <1>3, <1>4, <1>5 DEF Told

LEMMA StopTold ==
    ASSUME Told, ~busy, UNCHANGED <<busy, h, said, req>>, changed' # {},
           conn' # "open"
    PROVE  Told'
<1>1. busy = FALSE /\ h = None /\ IsSequence(said)
    BY DEF Told, Answering
<1>2. Answering'
    BY <1>1 DEF Answering, IsSequence
<1>3. OneAnswer'
    BY DEF Told, OneAnswer, AnsweredTwice
<1>4. UndefinedOnlyIf'
    BY DEF UndefinedOnlyIf
<1> QED
    BY <1>2, <1>3, <1>4 DEF Told

LEMMA ParsingNone == ASSUME parsed' = Unparsed PROVE Parsing'
BY DEF Parsing, Unparsed

(* VDR may delete the channel that was parsed.                             *)
LEMMA ParsingChange == ASSUME Parsing, NEW c, Change(c) PROVE Parsing'
<1>1. /\ parsed' = parsed /\ busy' = busy /\ req' = req /\ changed' # {}
    BY DEF Change, cmdVars
<1> QED
    BY <1>1 DEF Parsing

LEMMA AskIs ==
    ASSUME NEW op, NEW a, Ask(op, a)
    PROVE  /\ conn = "open" /\ ~ busy /\ parsed = Unparsed
           /\ req'.op = op
           /\ "words" \in DOMAIN a => req'.words = a.words
<1>1. req' = Request(op, a) /\ conn = "open" /\ ~ busy /\ parsed = Unparsed
    BY DEF Ask
<1>2. "op" \in DOMAIN NoRequest /\ "words" \in DOMAIN NoRequest
    BY DEF NoRequest
<1>3. Request(op, a).op = op
    BY <1>2 DEF Request
<1>4. "words" \in DOMAIN a => Request(op, a).words = a.words
    BY <1>2 DEF Request
<1> QED
    BY <1>1, <1>3, <1>4

LEMMA DoIs ==
    ASSUME NEW op, Do(op) \/ Err(op)
    PROVE  conn = "open" /\ ~ busy /\ parsed = Unparsed /\ req'.op = op
BY AskIs DEF Do, Err

LEMMA ReplyTold ==
    ASSUME Told, ~busy, conn = "open", NEW c, Reply(c)
    PROVE  Told'
BY AnswerTold DEF Reply

(* Nothing is said yet, or before the server follows what is not there.    *)
LEMMA UndefinedTold ==
    ASSUME Told, ~busy, said' = <<>>, UNCHANGED <<busy, h>>,
           req'.op \in {"LSTR", "STAT"} \/ conn' = "open"
    PROVE  Told'
<1>1. busy = FALSE /\ h = None
    BY DEF Told, Answering
<1>2. IsSequence(<<>>)
  <2>1. <<>> \in Seq({})
    OBVIOUS
  <2> QED
    BY <2>1 DEF IsSequence
<1>3. Answering'
    BY <1>1, <1>2 DEF Answering, IsSequence
<1>4. OneAnswer'
    BY <1>1 DEF OneAnswer
<1>5. UndefinedOnlyIf'
    BY DEF UndefinedOnlyIf
<1> QED
    BY <1>3, <1>4, <1>5 DEF Told

(* VDR changes a list while a handler may be at work.                      *)
LEMMA ChangeTold ==
    ASSUME Told, NEW c, Change(c), Len(epg') = Len(epg)
    PROVE  Told'
<1>0. /\ changed' # {} /\ conn = "open"
      /\ UNCHANGED <<req, busy, h, said, conn, cmds>>
    BY DEF Change, cmdVars
<1>1. Answering'
  <2>1. /\ busy \in BOOLEAN /\ (busy <=> h # None) /\ IsSequence(said)
        /\ busy => /\ Lister(h) /\ Continued(h, said)
                   /\ h.op \in {"LSTR", "Info"} => req.op = "LSTR"
    BY DEF Told, Answering
  <2>2. busy => Lister(h')
    BY <1>0, <2>1
  <2>3. busy' => Lister(h)'
    BY <1>0, <2>2 DEF Lister, InSchedule
  <2>4. busy' => Continued(h, said)'
    BY <1>0, <2>1 DEF Continued
  <2>5. IsSequence(said)'
    BY <1>0, <2>1 DEF IsSequence
  <2> QED
    BY <1>0, <2>1, <2>3, <2>4, <2>5 DEF Answering
<1>2. OneAnswer'
    BY <1>0 DEF Told, OneAnswer, AnsweredTwice
<1>3. UndefinedOnlyIf'
    BY <1>0 DEF UndefinedOnlyIf
<1> QED
    BY <1>1, <1>2, <1>3 DEF Told

(* The connection ends while a command is being answered.                  *)
LEMMA EndTold ==
    ASSUME Told, UNCHANGED vdrVars, UNCHANGED <<req, busy, h, said, changed>>,
           conn' # "open",
           conn' = "undefined" => changed # {} \/ req.op \in {"LSTR", "STAT"}
    PROVE  Told'
<1>1. /\ epg' = epg /\ channels' = channels /\ timers' = timers
    BY DEF vdrVars
<1>2. Answering'
    BY <1>1 DEF Told, Answering, Lister, InSchedule, Continued, Fresh, TimerIds, IsSequence
<1>3. OneAnswer'
    BY DEF Told, OneAnswer, AnsweredTwice
<1>4. UndefinedOnlyIf'
    BY DEF UndefinedOnlyIf
<1> QED
    BY <1>2, <1>3, <1>4 DEF Told

LEMMA ListTold ==
    ASSUME Kept, Told, NEW op, NEW a, NEW x, List(op, a, x),
           x.err # 0 \/ (Lister(x) /\ Fresh(x)),
           x.op \in {"LSTR", "Info"} => op = "LSTR"
    PROVE  Kept' /\ Told'
<1>0. /\ Ask(op, a) /\ Post(x, <<>>) /\ changed' = {}
      /\ UNCHANGED vdrVars /\ conn' = conn
    BY DEF List
<1>1. conn = "open" /\ req'.op = op
    BY <1>0, AskIs
<1>2. IsSequence(<<>>)
  <2>1. <<>> \in Seq({})
    OBVIOUS
  <2> QED
    BY <2>1 DEF IsSequence
<1>3. Kept'
    BY <1>0, KeptUnchanged
<1>4. Answering' /\ OneAnswer'
    BY <1>0, <1>1, <1>2, PostAnswers DEF Kept
<1>5. UndefinedOnlyIf'
    BY <1>0, <1>1 DEF UndefinedOnlyIf
<1> QED
    BY <1>3, <1>4, <1>5 DEF Told

LEMMA CycleTold ==
    ASSUME Kept, Told, Cycle
    PROVE  Kept' /\ Told'
<1>0. /\ conn = "open" /\ busy /\ ~ Stale(h) /\ Post(h, said)
      /\ UNCHANGED vdrVars /\ conn' = conn /\ req' = req /\ changed' = changed
    BY DEF Cycle
<1>1. /\ IsSequence(said) /\ Lister(h) /\ Continued(h, said)
      /\ (h.op \in {"LSTR", "Info"} => req.op = "LSTR")
      /\ (changed = {} => Fresh(h))
    BY <1>0 DEF Told, Answering
<1>2. h.op = "LSTC" => Fresh(h)
    BY <1>0, <1>1, NotStaleIs
<1>3. Kept'
    BY <1>0, KeptUnchanged
<1>4. Answering' /\ OneAnswer'
    BY <1>0, <1>1, <1>2, PostAnswers DEF Kept
<1>5. UndefinedOnlyIf'
    BY <1>0 DEF UndefinedOnlyIf
<1> QED
    BY <1>3, <1>4, <1>5 DEF Told

LEMMA StaleUseTold ==
    ASSUME Kept, Told, StaleUse
    PROVE  Kept' /\ Told'
<1>0. /\ busy /\ Stale(h) /\ conn' = "undefined" /\ UNCHANGED vdrVars
      /\ UNCHANGED <<req, busy, h, said, changed>>
    BY DEF StaleUse
<1>1. Lister(h) /\ (changed = {} => Fresh(h))
      /\ (h.op \in {"LSTR", "Info"} => req.op = "LSTR")
    BY <1>0 DEF Told, Answering
<1>2. changed # {} \/ req.op = "LSTR"
    BY <1>0, <1>1, FreshIsNotStale
<1> QED
    BY <1>0, <1>2, KeptUnchanged, EndTold

-----------------------------------------------------------------------------
(* The handlers that are made.                                             *)

LEMMA LSTEMade ==
    ASSUME ListsTyped, NEW a, a.chan \in Nat, a.mode \in Modes \cup {"bad"},
           a.from \in Nat, a.to \in Nat
    PROVE  LET x == LSTEHandler(a) IN
           x.op = "LSTE" /\ (x.err # 0 \/ (Lister(x) /\ Fresh(x)))
<1> DEFINE one == a.chan # 0
           T == IF one THEN SchedulesOf(a.chan) ELSE DOMAIN epg
           i == IF T = {} THEN 0 ELSE Min(T)
           evs == IF i = 0 THEN <<>> ELSE epg[i].evs
           many == a.mode = "from" /\ Len(evs) > 1
           e == FirstEvent(a, evs)
           tr == (a.mode = "all" /\ i # 0) \/ many
           to == IF many /\ a.to > Last(evs) + 1 THEN Last(evs) + 1
                 ELSE IF a.mode = "from" THEN a.to ELSE 0
           x == [op |-> "LSTE", err |-> 0, st |-> "Channel", f |-> 0,
                 sched |-> i, all |-> ~one, ev |-> e, traverse |-> tr, to |-> to]
<1>1. CASE a.mode = "bad"
    BY <1>1 DEF LSTEHandler, Failed
<1>2. CASE a.mode # "bad" /\ one /\ (a.chan \notin SeqToSet(channels) \/ i = 0)
    BY <1>2 DEF LSTEHandler, Failed
<1>3. CASE a.mode # "bad" /\ ~(one /\ (a.chan \notin SeqToSet(channels) \/ i = 0))
  <2>1. LSTEHandler(a) = x
    BY <1>3 DEF LSTEHandler
  <2>2. T \subseteq DOMAIN epg /\ DOMAIN epg = 1 .. Len(epg) /\ Len(epg) \in Nat
        /\ epg \in Seq(Schedule)
    BY DEF SchedulesOf, ListsTyped
  <2>3. i \in 0 .. Len(epg)
    <3>1. CASE T = {}
        BY <2>2, <3>1
    <3>2. CASE T # {}
      <4> HIDE DEF T
      <4>1. T \subseteq Nat
        BY <2>2
      <4>2. Min(T) \in T
        BY <3>2, <4>1, MinIs
      <4>3. Min(T) \in 1 .. Len(epg)
        BY <2>2, <4>2
      <4> QED
        BY <2>2, <3>2, <4>3
    <3> QED
        BY <3>1, <3>2
  <2> HIDE DEF i
  <2>4. evs \in Seq(Start)
    <3>1. CASE i = 0
        BY <3>1
    <3>2. CASE i # 0
        BY <2>2, <2>3, <3>2, EventsOf
    <3> QED
        BY <3>1, <3>2
  <2>5. i # 0 => evs = epg[i].evs
    OBVIOUS
  <2> HIDE DEF evs
  <2>6. e \in {0} \cup SeqToSet(evs)
    BY <1>3, <2>4, FirstEventIn
  <2>7. e \in Nat
    BY <2>4, <2>6, SeqToSetIn DEF Start
  <2>8. to \in Nat
    <3>1. CASE many
      <4>1. Len(evs) \in 1 .. Len(evs)
        BY <2>4, <3>1
      <4>2. Last(evs) \in Nat
        BY <2>4, <4>1 DEF Last, Start
      <4> QED
        BY <4>2
    <3>2. CASE ~many
        BY <3>2
    <3> QED
        BY <3>1, <3>2
  <2>9. tr \in BOOLEAN /\ (~one) \in BOOLEAN
    OBVIOUS
  <2> HIDE DEF e, tr, to, one
  <2>10. i \in Nat
    BY <2>2, <2>3
  <2>11. x \in EventLister
    BY <2>7, <2>8, <2>9, <2>10 DEF EventLister
  <2>12. x.op = "LSTE" /\ x.sched = i /\ x.st = "Channel" /\ x.ev = e
    OBVIOUS
  <2> HIDE DEF x
  <2>13. InSchedule(x)
    BY <2>3, <2>12 DEF InSchedule
  <2>14. Fresh(x)
    BY <2>5, <2>6, <2>12 DEF Fresh
  <2> QED
    BY SMTT(40), <2>1, <2>11, <2>12, <2>13, <2>14 DEF Lister
<1> QED
    BY <1>1, <1>2, <1>3

LEMMA LSTCMade ==
    ASSUME ListsTyped, NEW a, a.nr \in Nat, a.text \in BOOLEAN
    PROVE  LET x == LSTCHandler(a) IN
           x.op = "LSTC" /\ (x.err # 0 \/ (Lister(x) /\ Fresh(x)))
<1> DEFINE c == IF a.nr # 0
                  THEN IF a.nr \in DOMAIN channels THEN channels[a.nr] ELSE 0
                  ELSE ChannelFrom(1, a.text)
           x == [op |-> "LSTC", err |-> 0, held |-> c, text |-> a.text,
                 traverse |-> a.nr = 0]
<1>1. c \in {0} \cup SeqToSet(channels)
    BY ChannelFromIs DEF SeqToSet
<1>2. LSTCHandler(a) = IF c = 0
        THEN Failed("LSTC", IF a.nr # 0 \/ a.text THEN 501 ELSE 550) ELSE x
    BY DEF LSTCHandler
<1> HIDE DEF c
<1>3. CASE c = 0
    BY <1>2, <1>3 DEF Failed
<1>4. CASE c # 0
  <2>1. c \in SeqToSet(channels) /\ c \in Nat
    BY <1>1, <1>4, ChannelsAre
  <2>2. x \in ChannelLister /\ x.op = "LSTC" /\ x.held = c
    BY <2>1 DEF ChannelLister
  <2>3. LSTCHandler(a) = x
    BY <1>2, <1>4
  <2> HIDE DEF x
  <2> QED
    BY <2>1, <2>2, <2>3 DEF Lister, Fresh
<1> QED
    BY <1>3, <1>4

LEMMA IndexMade ==
    ASSUME NEW op \in {"LSTT", "LSTR"}, NEW a, NEW s \in Seq(Nat), a.nr \in Nat,
           op = "LSTT" => s = TimerIds
    PROVE  LET x == IndexHandler(op, a, s) IN
           x.op = op /\ (x.err # 0 \/ (Lister(x) /\ Fresh(x)))
<1> DEFINE n == IF a.nr = 0 THEN 1 ELSE a.nr
           x == [op |-> op, err |-> 0, held |-> s[n], idx |-> 1,
                 traverse |-> a.nr = 0]
<1>1. CASE a.bad \/ (a.nr # 0 /\ a.nr \notin DOMAIN s)
    BY <1>1 DEF IndexHandler, Failed
<1>2. CASE ~(a.bad \/ (a.nr # 0 /\ a.nr \notin DOMAIN s)) /\ a.nr = 0 /\ s = <<>>
    BY <1>2 DEF IndexHandler, Failed
<1>3. CASE ~(a.bad \/ (a.nr # 0 /\ a.nr \notin DOMAIN s)) /\ ~(a.nr = 0 /\ s = <<>>)
  <2>1. IndexHandler(op, a, s) = x
    BY <1>3 DEF IndexHandler
  <2>2. n \in DOMAIN s
    <3>1. CASE a.nr = 0
      <4>1. s # <<>> /\ Len(s) \in Nat
        BY <1>3, <3>1
      <4>2. 1 \in DOMAIN s
        BY <4>1
      <4> QED
        BY <3>1, <4>2
    <3>2. CASE a.nr # 0
        BY <1>3, <3>2
    <3> QED
        BY <3>1, <3>2
  <2> HIDE DEF n
  <2>3. s[n] \in Nat /\ s[n] \in SeqToSet(s)
    BY <2>2 DEF SeqToSet
  <2>4. x \in IndexLister /\ x.op = op /\ x.held = s[n]
    BY <2>3 DEF IndexLister
  <2> HIDE DEF x
  <2> QED
    BY <2>1, <2>3, <2>4 DEF Lister, Fresh
<1> QED
    BY <1>1, <1>2, <1>3

LEMMA LSTRMade ==
    ASSUME ListsTyped, NEW a, a.nr \in Nat, a.nr # 0 => a.nr \in DOMAIN recordings
    PROVE  LET x == LSTRHandler(a) IN
           x.op \in {"LSTR", "Info"} /\ (x.err # 0 \/ (Lister(x) /\ Fresh(x)))
<1>0. recordings \in Seq(Nat)
    BY RecordingsAre
<1>1. CASE a.nr = 0 \/ a.bad
  <2>1. LSTRHandler(a) = IndexHandler("LSTR", a, recordings)
    BY <1>1 DEF LSTRHandler
  <2>2. LET y == IndexHandler("LSTR", a, recordings) IN
        y.op = "LSTR" /\ (y.err # 0 \/ (Lister(y) /\ Fresh(y)))
    BY <1>0, IndexMade
  <2> QED
    BY <2>1, <2>2
<1>2. CASE ~(a.nr = 0 \/ a.bad)
  <2> DEFINE y == [op |-> "Info", err |-> 0, held |-> recordings[a.nr], f |-> -1]
  <2>1. LSTRHandler(a) = y
    BY <1>2 DEF LSTRHandler
  <2>2. recordings[a.nr] \in Nat
    BY <1>0, <1>2
  <2>3. y \in RecordingLister /\ y.op = "Info"
    BY <2>2 DEF RecordingLister
  <2> HIDE DEF y
  <2> QED
    BY <2>1, <2>3 DEF Lister, Fresh
<1> QED
    BY <1>1, <1>2

-----------------------------------------------------------------------------
(* Every step keeps the invariant.                                         *)

LEMMA ListsStart == ListsInit => ListsInv
<1> SUFFICES ASSUME ListsInit PROVE ListsInv
    OBVIOUS
<1>0. /\ Objects \subseteq Nat \ {0} /\ IsFiniteSet(Objects) /\ Objects # {}
      /\ Recs \subseteq Nat \ {0} /\ IsFiniteSet(Recs) /\ Recs # {}
      /\ \A e \in Epgs :
           /\ e.epg \in Seq([chan : Objects, evs : Seq(Nat \ {0})])
           /\ \A i \in DOMAIN e.epg : Increasing(e.epg[i].evs)
    BY VTPListsAssumption
<1>1. /\ Sorted(Objects) \in Seq(Objects) /\ Distinct(Sorted(Objects))
      /\ Len(Sorted(Objects)) = Cardinality(Objects)
    BY <1>0, SortedIs
<1>2. Cardinality(Objects) \in Nat /\ Cardinality(Objects) # 0
    BY <1>0, FS_CardinalityType, FS_EmptySet
<1>3. channels = Sorted(Objects) /\ watched = channels[1] /\ current = 1
    BY DEF ListsInit
<1>4. channels \in Seq(Objects) /\ Distinct(channels) /\ 1 \in DOMAIN channels
    BY <1>1, <1>2, <1>3
<1>5. channels[1] \in Objects /\ channels[1] \in SeqToSet(channels)
    BY <1>4 DEF SeqToSet
<1>6. Max(Recs) \in Recs
    BY <1>0, MaxIs
<1> DEFINE t == [id |-> 1, chan |-> channels[1], on |-> TRUE]
<1>7. timers = <<t>> /\ recordings = <<Max(Recs)>> /\ controls = {<<1, Max(Recs)>>}
    BY DEF ListsInit
<1>8. t \in Timer /\ t.id = 1 /\ t.chan = channels[1]
    BY <1>5 DEF Timer
<1> HIDE DEF t
<1>9. timers \in Seq(Timer) /\ DOMAIN timers = {1} /\ timers[1] = t
    BY <1>7, <1>8
<1>10. recordings \in Seq(Recs) /\ DOMAIN recordings = {1}
       /\ recordings[1] = Max(Recs)
    BY <1>6, <1>7
<1>11. epg \in Seq(Schedule)
  <2>1. /\ epg \in Seq([chan : Objects, evs : Seq(Nat \ {0})])
        /\ \A i \in DOMAIN epg : Increasing(epg[i].evs)
    BY <1>0 DEF ListsInit
  <2> DEFINE W == [chan : Objects, evs : Seq(Nat \ {0})]
  <2>2. \A x \in W : Increasing(x.evs) => x \in Schedule
    BY DEF Schedule, Start
  <2> HIDE DEF W
  <2>0. epg \in Seq(W)
    BY <2>1 DEF W
  <2>3. \A i \in DOMAIN epg : epg[i] \in W
    BY <2>0
  <2>4. \A i \in DOMAIN epg : epg[i] \in Schedule
    BY <2>1, <2>2, <2>3
  <2> QED
    BY <2>0, <2>4
<1>12. ListsTyped
  <2>1. OwnIds(timers) /\ Distinct(recordings)
    BY <1>9, <1>10 DEF OwnIds, Distinct
  <2> QED
    BY <1>3, <1>4, <1>5, <1>9, <1>10, <1>11, <2>1 DEF ListsTyped
<1>13. References
  <2>1. \A u \in SeqToSet(timers) : u.chan \in SeqToSet(channels)
    BY <1>5, <1>8, <1>9 DEF SeqToSet
  <2>2. ASSUME NEW c \in controls
        PROVE  /\ \E u \in SeqToSet(timers) : u.id = c[1]
               /\ c[2] \in SeqToSet(recordings)
    <3>1. c = <<1, Max(Recs)>>
        BY <1>7
    <3>2. t \in SeqToSet(timers) /\ Max(Recs) \in SeqToSet(recordings)
        BY <1>9, <1>10 DEF SeqToSet
    <3> QED
        BY <1>8, <3>1, <3>2
  <2> QED
    BY <1>3, <1>4, <1>12, <2>1, <2>2, ReferencesAre
<1>14. /\ busy = FALSE /\ h = None /\ said = <<>> /\ conn = "open"
       /\ changed = {} /\ parsed = Unparsed
    BY DEF ListsInit
<1>15. IsSequence(said)
  <2>1. <<>> \in Seq({})
    OBVIOUS
  <2> QED
    BY <1>14, <2>1 DEF IsSequence
<1>16. Answering /\ OneAnswer /\ UndefinedOnlyIf
  <2>1. Answering
    BY <1>14, <1>15 DEF Answering
  <2>2. \A i \in 1 .. Len(said) - 1 :
          said[i].more /\ said[i].code = said[i + 1].code
    BY <1>14
  <2>3. OneAnswer
    BY <1>14, <2>2 DEF OneAnswer
  <2> QED
    BY <1>14, <2>1, <2>3 DEF UndefinedOnlyIf
<1>17. Parsing
    BY <1>14 DEF Parsing, Unparsed
<1> QED
    BY <1>12, <1>13, <1>16, <1>17 DEF ListsInv, References, ReferencesBut

LEMMA FieldsIn ==
    ASSUME NEW A, NEW B, NEW C, NEW D,
           NEW a \in [chan : A, mode : B, from : C, to : D]
    PROVE  a.chan \in A /\ a.mode \in B /\ a.from \in C /\ a.to \in D
OBVIOUS

LEMMA LSTEKeeps == ASSUME Kept, Told, LSTE PROVE Kept' /\ Told'
<1>1. PICK a : /\ List("LSTE", a, LSTEHandler(a))
               /\ \/ a \in [chan : {0} \cup Objects,
                            mode : {"all", "now", "next", "bad"}, from : {1},
                            to : {0}]
                  \/ a \in [chan : {0} \cup Objects, mode : {"at"},
                            from : Times, to : {0}]
                  \/ a \in [chan : {0} \cup Objects, mode : {"from"},
                            from : Times, to : Ends]
    BY DEF LSTE
<1>2. Objects \subseteq Nat /\ Now \in Nat /\ Ends \subseteq Nat
    BY VTPListsAssumption
<1>3. /\ a.chan \in Nat /\ a.mode \in Modes \cup {"bad"}
      /\ a.from \in Nat /\ a.to \in Nat
  <2>0. Times \subseteq Nat
    BY <1>2 DEF Times
  <2>1. CASE a \in [chan : {0} \cup Objects,
                    mode : {"all", "now", "next", "bad"}, from : {1}, to : {0}]
    <3> DEFINE A == {0} \cup Objects
               B == {"all", "now", "next", "bad"}
               C == {1}
               D == {0}
    <3>0. a \in [chan : A, mode : B, from : C, to : D]
        BY <2>1
    <3>1. A \subseteq Nat
        BY <1>2
    <3>2. B \subseteq Modes \cup {"bad"}
        BY DEF Modes
    <3>3. C \subseteq Nat /\ D \subseteq Nat
        BY <1>2
    <3> HIDE DEF A, B, C, D
    <3> QED
        BY <3>0, <3>1, <3>2, <3>3, FieldsIn
  <2>2. CASE a \in [chan : {0} \cup Objects, mode : {"at"}, from : Times,
                    to : {0}]
    <3> DEFINE A == {0} \cup Objects
               B == {"at"}
               C == Times
               D == {0}
    <3>0. a \in [chan : A, mode : B, from : C, to : D]
        BY <2>2
    <3>1. A \subseteq Nat
        BY <1>2
    <3>2. B \subseteq Modes \cup {"bad"}
        BY DEF Modes
    <3>3. C \subseteq Nat /\ D \subseteq Nat
        BY <1>2, <2>0
    <3> HIDE DEF A, B, C, D
    <3> QED
        BY <3>0, <3>1, <3>2, <3>3, FieldsIn
  <2>3. CASE a \in [chan : {0} \cup Objects, mode : {"from"}, from : Times,
                    to : Ends]
    <3> DEFINE A == {0} \cup Objects
               B == {"from"}
               C == Times
               D == Ends
    <3>0. a \in [chan : A, mode : B, from : C, to : D]
        BY <2>3
    <3>1. A \subseteq Nat
        BY <1>2
    <3>2. B \subseteq Modes \cup {"bad"}
        BY DEF Modes
    <3>3. C \subseteq Nat /\ D \subseteq Nat
        BY <1>2, <2>0
    <3> HIDE DEF A, B, C, D
    <3> QED
        BY <3>0, <3>1, <3>2, <3>3, FieldsIn
  <2> QED
    BY <1>1, <2>1, <2>2, <2>3
<1> DEFINE x == LSTEHandler(a)
<1>4. x.op = "LSTE" /\ (x.err # 0 \/ (Lister(x) /\ Fresh(x)))
    BY <1>3, LSTEMade DEF Kept
<1> HIDE DEF x
<1>5. List("LSTE", a, x)
    BY <1>1 DEF x
<1> QED
    BY <1>4, <1>5, ListTold

LEMMA LSTCKeeps == ASSUME Kept, Told, LSTC PROVE Kept' /\ Told'
<1>1. PICK a : /\ List("LSTC", a, LSTCHandler(a))
               /\ \/ a \in [nr : DOMAIN channels \cup {Len(channels) + 1},
                            text : {FALSE}]
                  \/ a \in [nr : {0}, text : BOOLEAN]
    BY DEF LSTC
<1>2. a.nr \in Nat /\ a.text \in BOOLEAN
  <2>1. Len(channels) + 1 \in Nat /\ DOMAIN channels \subseteq Nat
    BY KeptIs
  <2>2. CASE a \in [nr : DOMAIN channels \cup {Len(channels) + 1}, text : {FALSE}]
    BY <2>1, <2>2
  <2>3. CASE a \in [nr : {0}, text : BOOLEAN]
    BY <2>3
  <2> QED
    BY <1>1, <2>2, <2>3
<1> DEFINE x == LSTCHandler(a)
<1>4. x.op = "LSTC" /\ (x.err # 0 \/ (Lister(x) /\ Fresh(x)))
    BY <1>2, LSTCMade DEF Kept
<1> HIDE DEF x
<1>5. List("LSTC", a, x)
    BY <1>1 DEF x
<1> QED
    BY <1>4, <1>5, ListTold

LEMMA IndexIs ==
    ASSUME NEW S, NEW s \in Seq(S), NEW a \in Indices(s) PROVE a.nr \in Nat
<1>1. CASE a \in [nr : 0 .. Len(s) + 1, bad : {FALSE}]
  <2>1. a.nr \in 0 .. Len(s) + 1
    BY <1>1
  <2> QED
    BY <2>1
<1>2. CASE a \in [nr : {0}, bad : {TRUE}]
    BY <1>2
<1> QED
    BY <1>1, <1>2 DEF Indices

LEMMA LSTTKeeps == ASSUME Kept, Told, LSTT PROVE Kept' /\ Told'
<1>1. PICK a \in Indices(timers) : List("LSTT", a, LSTTHandler(a))
    BY DEF LSTT
<1>2. a.nr \in Nat
    BY KeptIs, IndexIs
<1> DEFINE x == IndexHandler("LSTT", a, TimerIds)
<1>3. TimerIds \in Seq(Nat)
    BY TimerIdsAre DEF Kept
<1>4. x.op = "LSTT" /\ (x.err # 0 \/ (Lister(x) /\ Fresh(x)))
    BY <1>2, <1>3, IndexMade
<1> HIDE DEF x
<1>5. List("LSTT", a, x)
    BY <1>1 DEF x, LSTTHandler
<1> QED
    BY <1>4, <1>5, ListTold

LEMMA LSTRKeeps == ASSUME Kept, Told, LSTR PROVE Kept' /\ Told'
<1>1. PICK a \in Indices(recordings) :
        /\ a.nr # 0 => a.nr \in DOMAIN recordings
        /\ List("LSTR", a, LSTRHandler(a))
    BY DEF LSTR
<1>2. a.nr \in Nat
    BY KeptIs, IndexIs
<1> DEFINE x == LSTRHandler(a)
<1>4. x.op \in {"LSTR", "Info"} /\ (x.err # 0 \/ (Lister(x) /\ Fresh(x)))
    BY <1>1, <1>2, LSTRMade DEF Kept
<1> HIDE DEF x
<1>5. List("LSTR", a, x)
    BY <1>1 DEF x
<1> QED
    BY <1>4, <1>5, ListTold

LEMMA LSTRUnknownKeeps == ASSUME Kept, Told, LSTRUnknown PROVE Kept' /\ Told'
<1>1. /\ Ask("LSTR", [nr |-> Len(recordings) + 1])
      /\ said' = <<>> /\ UNCHANGED vdrVars /\ UNCHANGED <<busy, h, changed>>
    BY DEF LSTRUnknown
<1>2. ~busy /\ req'.op = "LSTR"
    BY <1>1, AskIs
<1> QED
    BY <1>1, <1>2, KeptUnchanged, UndefinedTold

LEMMA STATKeeps ==
    ASSUME Kept, Told, STAT \/ STATRecords PROVE Kept' /\ Told'
<1>1. CASE STAT
  <2>1. PICK c : (Do("STAT") \/ Err("STAT")) /\ Reply(c) /\ UNCHANGED vdrVars
    BY <1>1 DEF STAT
  <2> QED
    BY <2>1, DoIs, ReplyTold, KeptUnchanged
<1>2. CASE STATRecords
  <2>1. Do("STAT") /\ recordings' = Sorted(SeqToSet(recordings))
        /\ UNCHANGED <<channels, current, watched, timers, controls, epg>>
    BY <1>2 DEF STATRecords
  <2>2. Kept'
    BY <2>1, SortRecordingsKeeps
  <2>3. ~busy /\ conn = "open" /\ req'.op = "STAT"
    BY <2>1, DoIs
  <2>4. CASE recordings # <<>>
    <3>1. Reply(250)
        BY <1>2, <2>4 DEF STATRecords
    <3> QED
        BY <2>2, <2>3, <3>1, ReplyTold
  <2>5. CASE recordings = <<>>
    <3>1. said' = <<>> /\ UNCHANGED <<busy, h, changed>>
        BY <1>2, <2>5 DEF STATRecords
    <3> QED
        BY <2>2, <2>3, <3>1, UndefinedTold
  <2> QED
    BY <2>4, <2>5
<1> QED
    BY <1>1, <1>2

LEMMA MODTKeeps == ASSUME Kept, Told, MODT PROVE Kept' /\ Told'
<1>1. CASE Err("MODT") /\ Reply(501) /\ UNCHANGED vdrVars
    BY <1>1, DoIs, ReplyTold, KeptUnchanged
<1> DEFINE Set(n, on, c) ==
             /\ Do("MODT")
             /\ IF n \in DOMAIN timers
                  THEN /\ timers' = [timers EXCEPT ![n].on = on,
                                       ![n].chan = Setting(n, c)]
                       /\ Reply(250)
                  ELSE Reply(501) /\ UNCHANGED timers
             /\ UNCHANGED <<channels, named, current, watched, controls,
                            recordings, epg, filled>>
<1>2. ASSUME NEW n \in 1 .. Len(timers) + 1, NEW on \in BOOLEAN,
             NEW c \in {0} \cup SeqToSet(channels), Set(n, on, c)
      PROVE  Kept' /\ Told'
  <2>1. CASE n \in DOMAIN timers
    BY ZenonT(40), <1>2, <2>1, DoIs, ReplyTold, SetTimerKeeps
  <2>2. CASE n \notin DOMAIN timers
    <3>1. UNCHANGED vdrVars /\ Reply(501)
        BY <1>2, <2>2 DEF vdrVars
    <3> QED
        BY <1>2, <3>1, DoIs, ReplyTold, KeptUnchanged
  <2> QED
    BY <2>1, <2>2
<1>3. \/ Err("MODT") /\ Reply(501) /\ UNCHANGED vdrVars
      \/ \E n \in 1 .. Len(timers) + 1, on \in BOOLEAN,
            c \in {0} \cup SeqToSet(channels) : Set(n, on, c)
    BY DEF MODT
<1> HIDE DEF Set
<1> QED
    BY <1>1, <1>2, <1>3

(* The first step of NEWT: nothing is said yet.                            *)
LEMMA NEWTKeeps == ASSUME Kept, Told, NEWT PROVE Kept' /\ Told' /\ Parsing'
<1>1. CASE Err("NEWT") /\ Reply(501) /\ UNCHANGED vdrVars
  <2>1. parsed' = Unparsed
    BY <1>1, DoIs DEF Reply, Answer
  <2> QED
    BY <1>1, <2>1, DoIs, ReplyTold, KeptUnchanged, ParsingNone
<1>2. ASSUME NEW c \in SeqToSet(channels), NEW on \in BOOLEAN, Do("NEWT"),
             parsed' = [chan |-> c, on |-> on], said' = <<>>, changed' = {},
             UNCHANGED <<vdrVars, busy, h, conn, changes>>
      PROVE  Kept' /\ Told' /\ Parsing'
  <2>1. conn = "open" /\ ~busy /\ req'.op = "NEWT"
    BY <1>2, DoIs
  <2>2. Kept' /\ Told'
    BY <1>2, <2>1, KeptUnchanged, UndefinedTold
  <2>3. c \in Objects /\ channels' = channels
    BY <1>2, KeptIs, SeqToSetIn DEF vdrVars
  <2>4. parsed'.chan = c /\ parsed'.on = on
    BY <1>2
  <2>5. SeqToSet(channels') = SeqToSet(channels)
    BY <2>3
  <2>6. parsed' \in [chan : Objects \cup {0}, on : BOOLEAN]
    BY <1>2, <2>3
  <2>7. Parsing'
    BY <1>2, <2>1, <2>3, <2>4, <2>5, <2>6 DEF Parsing
  <2> QED
    BY <2>2, <2>7
<1> QED
    BY ZenonT(40), <1>1, <1>2 DEF NEWT

(* The second: an answer, or a timer whose channel is gone.                *)
LEMMA NEWTAddsKeeps ==
    ASSUME Kept, Told, Parsing, NEWTAdds PROVE ListsInv'
<1>0. /\ conn = "open" /\ parsed # Unparsed /\ parsed' = Unparsed
      /\ UNCHANGED <<channels, named, current, watched, controls, recordings,
                     epg, filled, req, busy, h, cmds, changed, changes>>
    BY DEF NEWTAdds
<1>1. /\ ~busy /\ req.op = "NEWT" /\ parsed.chan \in Objects
      /\ parsed.on \in BOOLEAN
      /\ parsed.chan \in SeqToSet(channels) \/ changed # {}
    BY <1>0 DEF Parsing
<1>2. Parsing'
    BY <1>0, ParsingNone
<1>3. ASSUME NEW c, said' = <<Line(c, NoText, FALSE)>>, conn' = conn, Kept'
      PROVE  ListsInv'
  <2>1. Told'
    BY <1>0, <1>1, <1>3, SaidTold
  <2> QED
    BY <1>2, <1>3, <2>1, InvNext
<1>4. CASE \E t \in SeqToSet(timers) : t.chan = parsed.chan
  <2>1. said' = <<Line(550, NoText, FALSE)>> /\ UNCHANGED <<timers, conn>>
    BY <1>4 DEF NEWTAdds
  <2>2. Kept'
    BY <1>0, <2>1, KeptUnchanged DEF vdrVars
  <2> QED
    BY <1>3, <2>1, <2>2
<1>5. CASE ~ \E t \in SeqToSet(timers) : t.chan = parsed.chan
  <2>1. timers' = Append(timers, [id |-> NewId, chan |-> parsed.chan,
                                  on |-> parsed.on])
    BY <1>5 DEF NEWTAdds
  <2>2. CASE parsed.chan \in SeqToSet(channels)
    <3>1. said' = <<Line(250, NoText, FALSE)>> /\ UNCHANGED conn
        BY <1>5, <2>2 DEF NEWTAdds
    <3>2. Kept'
        BY <1>0, <1>1, <2>1, <2>2, AddTimerKeeps
    <3> QED
        BY <1>3, <3>1, <3>2
  <2>3. CASE parsed.chan \notin SeqToSet(channels)
    <3>1. conn' = "undefined" /\ UNCHANGED said
        BY <1>5, <2>3 DEF NEWTAdds
    <3>2. changed' # {}
        BY <1>0, <1>1, <2>3
    <3>3. ListsTyped' /\ ReferencesBut'
        BY <1>0, <1>1, <2>1, <3>1, <3>2, AddOrphan
    <3>4. Told'
        BY <1>0, <1>1, <3>1, <3>2, StopTold
    <3> QED
        BY <1>2, <3>3, <3>4 DEF ListsInv, Told
  <2> QED
    BY <2>2, <2>3
<1> QED
    BY <1>4, <1>5

(* A DELT answers once more when its second word is unknown.               *)
LEMMA TwiceTold ==
    ASSUME Told, ~busy, conn = "open", AnsweredTwice', NEW l, NEW k,
           ~ k.more /\ k.more \in BOOLEAN, Answer(<<l>> \o <<k>>)
    PROVE  Told'
<1> DEFINE s == <<l>> \o <<k>>
<1>0. /\ said' = s /\ changed' = {} /\ busy' = busy /\ h' = h /\ conn' = conn
    BY DEF Answer
<1>1. ~ k.more /\ k.more \in BOOLEAN
    OBVIOUS
<1>2. s \in Seq({l, k}) /\ Len(s) = 2 /\ s # <<>> /\ s[2] = k
    OBVIOUS
<1> HIDE DEF s
<1>3. busy = FALSE /\ h = None
    BY DEF Told, Answering
<1>4. Answering'
    BY <1>0, <1>2, <1>3 DEF Answering, IsSequence
<1>5. OneAnswer'
  <2>1. busy' = said'[Len(said')].more
    BY <1>0, <1>1, <1>2, <1>3
  <2>2. busy' <=> h' # None
    BY <1>0, <1>3
  <2> QED
    BY <2>1, <2>2 DEF OneAnswer
<1>6. UndefinedOnlyIf'
    BY <1>0 DEF UndefinedOnlyIf
<1> QED
    BY <1>4, <1>5, <1>6 DEF Told

LEMMA DELTKeeps ==
    ASSUME Kept, Told, DELT
    PROVE  /\ Kept' /\ Told' /\ ~ busy /\ req'.op = "DELT"
           /\ conn = "open" /\ parsed' = Unparsed
<1>0. \A l : Answer(l) => parsed' = parsed
    BY DEF Answer
<1>1. CASE Do("DELT") /\ Reply(501) /\ UNCHANGED vdrVars
    BY <1>0, <1>1, DoIs, ReplyTold, KeptUnchanged DEF Reply
<1> DEFINE N(p, q, two) == IF two /\ q > 0 THEN q ELSE IF p > 0 THEN p ELSE 1
           Forced(p, q, two) == p = FORCE \/ (two /\ q = FORCE)
           Two(q, two) == two /\ q = NoWord
           Error(q, two) == IF Two(q, two) THEN <<Line(501, NoText, FALSE)>>
                            ELSE <<>>
           Say(q, two, c) ==
             Answer(Error(q, two) \o <<Line(c, NoText, FALSE)>>)
           Del(p, q, two) ==
             /\ Ask("DELT", [words |-> IF two THEN <<p, q>> ELSE <<p>>])
             /\ IF N(p, q, two) \notin DOMAIN timers
                  THEN Say(q, two, 501) /\ UNCHANGED <<timers, controls>>
                ELSE IF Recording(timers[N(p, q, two)]) /\ ~Forced(p, q, two)
                  THEN Say(q, two, 550) /\ UNCHANGED <<timers, controls>>
                ELSE Say(q, two, 250) /\ DeleteTimer(N(p, q, two))
             /\ UNCHANGED <<channels, named, current, watched, recordings,
                            epg, filled>>
<1>2. DELT => \/ Do("DELT") /\ Reply(501) /\ UNCHANGED vdrVars
              \/ \E p, q \in Words, two \in BOOLEAN : Del(p, q, two)
    BY DEF DELT
<1>3. ASSUME NEW p, NEW q, NEW two \in BOOLEAN, Del(p, q, two)
      PROVE  /\ Kept' /\ Told' /\ ~ busy /\ req'.op = "DELT"
             /\ conn = "open" /\ parsed' = Unparsed
  <2> DEFINE n == N(p, q, two)
  <2>0. /\ \/ UNCHANGED <<timers, controls>>
           \/ n \in DOMAIN timers /\ DeleteTimer(n)
        /\ \E c : Say(q, two, c)
        /\ Ask("DELT", [words |-> IF two THEN <<p, q>> ELSE <<p>>])
        /\ UNCHANGED <<channels, named, current, watched, recordings, epg,
                       filled>>
    BY ZenonT(40), <1>3
  <2> HIDE DEF n, N, Del, Forced
  <2>1. /\ conn = "open" /\ ~busy /\ req'.op = "DELT"
        /\ req'.words = IF two THEN <<p, q>> ELSE <<p>>
        /\ parsed' = Unparsed
    BY <1>0, <2>0, AskIs
  <2>2. Kept'
    <3>1. CASE UNCHANGED <<timers, controls>>
      <4>1. UNCHANGED vdrVars
        BY <2>0, <3>1 DEF vdrVars
      <4> QED
        BY <4>1, KeptUnchanged
    <3>2. CASE n \in DOMAIN timers /\ DeleteTimer(n)
        BY <2>0, <3>2, DeleteTimerKeeps
    <3> QED
        BY <2>0, <3>1, <3>2
  <2>3. PICK c : Say(q, two, c)
    BY <2>0
  <2>4. CASE Two(q, two)
    <3> DEFINE l == Line(501, NoText, FALSE)
               k == Line(c, NoText, FALSE)
    <3>0. ~ k.more /\ k.more \in BOOLEAN
        BY DEF Line
    <3>1. Answer(<<l>> \o <<k>>)
        BY <2>3, <2>4
    <3> HIDE DEF l, k
    <3>2. AnsweredTwice'
      <4>1. two = TRUE /\ q = NoWord
        BY <2>4
      <4>2. req'.words = <<p, q>>
        BY <2>1, <4>1
      <4>3. Len(req'.words) = 2 /\ req'.words[2] = NoWord
        BY <4>1, <4>2
      <4> QED
        BY <2>1, <4>3 DEF AnsweredTwice
    <3> QED
        BY <2>1, <2>2, <3>0, <3>1, <3>2, TwiceTold
  <2>5. CASE ~Two(q, two)
    <3> DEFINE l == Line(c, NoText, FALSE)
    <3>1. <<>> \o <<l>> = <<l>>
      <4> HIDE DEF l
      <4>1. <<l>> \in Seq({l})
        OBVIOUS
      <4> QED
        BY <4>1
    <3>2. Answer(<<l>>)
        BY <2>3, <2>5, <3>1
    <3> QED
        BY <2>1, <2>2, <3>2, AnswerTold
  <2> QED
    BY <2>1, <2>4, <2>5
<1> HIDE DEF Del
<1> QED
    BY <1>1, <1>2, <1>3

LEMMA NEXTKeeps == ASSUME Kept, Told, NEXT PROVE Kept' /\ Told'
<1>1. PICK bad \in BOOLEAN :
        Ask("NEXT", [bad |-> bad]) /\ UNCHANGED vdrVars /\ \E c : Reply(c)
    BY DEF NEXT
<1> QED
    BY <1>1, AskIs, ReplyTold, KeptUnchanged

LEMMA NEWCKeeps == ASSUME Kept, Told, NEWC PROVE Kept' /\ Told'
<1>1. CASE Err("NEWC") /\ Reply(501) /\ UNCHANGED vdrVars
    BY <1>1, DoIs, ReplyTold, KeptUnchanged
<1>2. CASE \E c \in Objects \ SeqToSet(channels) :
             Do("NEWC") /\ Reply(250) /\ AddChannel(c)
    BY <1>2, DoIs, ReplyTold, AddChannelKeeps
<1> QED
    BY <1>1, <1>2 DEF NEWC

LEMMA MODCKeeps == ASSUME Kept, Told, MODC PROVE Kept' /\ Told'
<1>1. CASE Err("MODC") /\ Reply(501) /\ UNCHANGED vdrVars
    BY <1>1, DoIs, ReplyTold, KeptUnchanged
<1>2. CASE Do("MODC") /\ Reply(250)
           /\ UNCHANGED <<channels, current, watched, Rest>>
  <2>1. UNCHANGED <<channels, current, watched, timers, controls, recordings,
                    epg>>
    BY <1>2 DEF Rest
  <2>2. Kept'
    BY <2>1, KeptIs, KeptNext
  <2> QED
    BY <1>2, <2>2, DoIs, ReplyTold
<1> QED
    BY <1>1, <1>2 DEF MODC

LEMMA MOVCKeeps == ASSUME Kept, Told, MOVC PROVE Kept' /\ Told'
<1>1. CASE Err("MOVC") /\ Reply(501) /\ UNCHANGED vdrVars
    BY <1>1, DoIs, ReplyTold, KeptUnchanged
<1> DEFINE Move(f, t) ==
             /\ Do("MOVC")
             /\ IF {f, t} \subseteq DOMAIN channels /\ f # t
                  THEN /\ channels' = Moved(channels, f, t)
                       /\ Switch(channels') /\ Reply(250)
                  ELSE Reply(501) /\ UNCHANGED <<channels, current, watched>>
             /\ UNCHANGED <<named, Rest>>
<1>2. \/ Err("MOVC") /\ Reply(501) /\ UNCHANGED vdrVars
      \/ \E f, t \in 1 .. Len(channels) + 1 : Move(f, t)
    BY DEF MOVC
<1>3. ASSUME NEW f, NEW t, Move(f, t)
      PROVE  Kept' /\ Told'
  <2>0. UNCHANGED <<named, timers, controls, recordings, epg, filled>>
    BY <1>3 DEF Rest
  <2>1. conn = "open" /\ ~ busy
    BY <1>3, DoIs
  <2>2. CASE {f, t} \subseteq DOMAIN channels /\ f # t
    <3>1. /\ channels' = Moved(channels, f, t) /\ Switch(channels')
          /\ Reply(250) /\ f \in DOMAIN channels /\ t \in DOMAIN channels
        BY <1>3, <2>2
    <3> QED
        BY <2>0, <2>1, <3>1, MoveChannelKeeps, ReplyTold
  <2>3. CASE ~({f, t} \subseteq DOMAIN channels /\ f # t)
    <3>1. Reply(501) /\ UNCHANGED <<channels, current, watched>>
        BY <1>3, <2>3
    <3>2. UNCHANGED vdrVars
        BY <2>0, <3>1 DEF vdrVars
    <3> QED
        BY <2>1, <3>1, <3>2, ReplyTold, KeptUnchanged
  <2> QED
    BY <2>2, <2>3
<1> HIDE DEF Move
<1> QED
    BY <1>1, <1>2, <1>3

LEMMA DELCKeeps == ASSUME Kept, Told, DELC PROVE Kept' /\ Told'
<1>1. CASE Err("DELC") /\ Reply(501) /\ UNCHANGED vdrVars
    BY <1>1, DoIs, ReplyTold, KeptUnchanged
<1>2. ASSUME NEW n, Do("DELC"),
             \/ n \notin DOMAIN channels /\ Reply(501) /\ UNCHANGED vdrVars
             \/ /\ n \in DOMAIN channels /\ TimersOn(channels[n]) = {}
                /\ DeleteChannel(n) /\ Reply(250)
      PROVE  Kept' /\ Told'
  <2>1. conn = "open" /\ ~ busy
    BY <1>2, DoIs
  <2>2. CASE Reply(501) /\ UNCHANGED vdrVars
    BY <2>1, <2>2, ReplyTold, KeptUnchanged
  <2>3. CASE /\ n \in DOMAIN channels /\ TimersOn(channels[n]) = {}
             /\ DeleteChannel(n) /\ Reply(250)
    BY <2>1, <2>3, ReplyTold, DeleteChannelKeeps
  <2> QED
    BY <1>2, <2>2, <2>3
<1> QED
    BY <1>1, <1>2 DEF DELC

LEMMA DELCInUseKeeps == ASSUME Kept, Told, DELCInUse PROVE Kept' /\ Told'
<1> DEFINE s == <<Line(550, NoText, FALSE)>>
<1>0. /\ Do("DELC") /\ conn' = "closed" /\ said' = s /\ changed' = {}
      /\ UNCHANGED vdrVars /\ busy' = busy /\ h' = h
    BY DEF DELCInUse
<1>1. IsSequence(s) /\ Len(s) = 1
    BY ZenonT(40), SingleIs
<1> HIDE DEF s
<1>2. busy = FALSE /\ h = None
    BY <1>0, DoIs DEF Told, Answering
<1>3. Answering'
    BY <1>0, <1>1, <1>2 DEF Answering, IsSequence
<1>4. OneAnswer'
  <2>1. \A i \in 1 .. Len(said') - 1 :
          said'[i].more /\ said'[i].code = said'[i + 1].code
    BY <1>0, <1>1
  <2>2. busy' <=> h' # None
    BY <1>0, <1>2
  <2> QED
    BY <1>0, <2>1, <2>2 DEF OneAnswer
<1>5. UndefinedOnlyIf'
    BY <1>0 DEF UndefinedOnlyIf
<1> QED
    BY <1>0, <1>3, <1>4, <1>5, KeptUnchanged DEF Told

LEMMA DELRKeeps == ASSUME Kept, Told, DELR PROVE Kept' /\ Told'
<1> DEFINE Deleted(n) ==
             /\ n \in DOMAIN recordings
             /\ ~InUse(recordings[n]) /\ Reply(250)
             /\ recordings' = Without(recordings, n)
             /\ UNCHANGED <<channels, named, current, watched, timers,
                            controls, epg, filled>>
<1>1. conn = "open" /\ ~ busy
    BY DoIs DEF DELR
<1>2. (\E c : Reply(c) /\ UNCHANGED vdrVars) \/ \E n : Deleted(n)
    BY DEF DELR
<1>3. CASE \E c : Reply(c) /\ UNCHANGED vdrVars
    BY <1>1, <1>3, ReplyTold, KeptUnchanged
<1>4. ASSUME NEW n, Deleted(n) PROVE Kept' /\ Told'
    BY <1>1, <1>4, ReplyTold, DeleteRecordingKeeps
<1> HIDE DEF Deleted
<1> QED
    BY <1>2, <1>3, <1>4

LEMMA RefusedKeeps ==
    ASSUME Kept, Told, RENR \/ Unknown PROVE Kept' /\ Told'
<1>1. PICK c, op : Do(op) /\ Reply(c) /\ UNCHANGED vdrVars
    BY DEF RENR, Unknown
<1> QED
    BY <1>1, DoIs, ReplyTold, KeptUnchanged

LEMMA ViolationKeeps == ASSUME Kept, Told, Violation PROVE Kept' /\ Told'
<1>1. UNCHANGED vdrVars /\ conn' = "closed"
      /\ UNCHANGED <<req, busy, h, said, changed>>
    BY DEF Violation
<1> QED
    BY <1>1, KeptUnchanged, EndTold

LEMMA TimerEditsKeeps == ASSUME Kept, Told, TimerEdits PROVE Kept' /\ Told'
<1>1. Change(0) /\ UNCHANGED <<channels, current, watched, recordings, epg>>
    BY DEF TimerEdits
<1> DEFINE Added(c) ==
             /\ Len(timers) < MaxTimers /\ UNCHANGED controls
             /\ timers' = Append(timers, [id |-> NewId, chan |-> c,
                                          on |-> TRUE])
<1>2. (\E n \in DOMAIN timers : DeleteTimer(n))
        \/ \E c \in SeqToSet(channels) : Added(c)
    BY DEF TimerEdits
<1>3. ASSUME NEW c \in SeqToSet(channels), Added(c) PROVE Kept'
  <2>1. Len(timers) < MaxTimers /\ UNCHANGED controls
        /\ timers' = Append(timers, [id |-> NewId, chan |-> c, on |-> TRUE])
    BY <1>3
  <2> QED
    BY <1>1, <2>1, AddTimerKeeps
<1> HIDE DEF Added
<1>4. Kept'
    BY <1>1, <1>2, <1>3, DeleteTimerKeeps
<1> QED
    BY <1>1, <1>4, ChangeTold

LEMMA ChannelEditsKeeps == ASSUME Kept, Told, ChannelEdits PROVE Kept' /\ Told'
<1>1. (\E c : Change(c)) /\ epg' = epg
    BY DEF ChannelEdits, DeleteChannel, AddChannel, Rest
<1>2. Kept'
    BY DeleteChannelKeeps, AddChannelKeeps DEF ChannelEdits
<1> QED
    BY <1>1, <1>2, ChangeTold

LEMMA RecordingStartsKeeps ==
    ASSUME Kept, Told, RecordingStarts PROVE Kept' /\ Told'
<1>1. Change(0) /\ UNCHANGED <<channels, current, watched, timers, epg>>
    BY DEF RecordingStarts
<1>2. PICK t \in SeqToSet(timers), r \in Recs \ SeqToSet(recordings) :
        /\ recordings' = Append(recordings, r)
        /\ controls' = controls \cup {<<t.id, r>>}
    BY DEF RecordingStarts
<1> QED
    BY <1>1, <1>2, StartRecordingKeeps, ChangeTold

LEMMA RecordingStopsKeeps ==
    ASSUME Kept, Told, RecordingStops PROVE Kept' /\ Told'
<1>1. /\ Change(0) /\ controls' \subseteq controls
      /\ UNCHANGED <<channels, current, watched, timers, recordings, epg>>
    BY DEF RecordingStops
<1> QED
    BY <1>1, StopRecordingKeeps, ChangeTold

LEMMA RecordingEditsKeeps ==
    ASSUME Kept, Told, RecordingEdits PROVE Kept' /\ Told'
<1>1. Change(0) /\ UNCHANGED <<channels, current, watched, timers, controls, epg>>
    BY DEF RecordingEdits
<1>2. CASE \E n \in DOMAIN recordings :
             /\ ~InUse(recordings[n]) /\ recordings' = Without(recordings, n)
    BY <1>1, <1>2, DeleteRecordingKeeps, ChangeTold
<1>3. CASE recordings' = Sorted(SeqToSet(recordings))
    BY <1>1, <1>3, SortRecordingsKeeps, ChangeTold
<1> QED
    BY <1>2, <1>3 DEF RecordingEdits

LEMMA EventExpiresKeeps == ASSUME Kept, Told, EventExpires PROVE Kept' /\ Told'
<1>1. Change(0)
      /\ UNCHANGED <<channels, current, watched, timers, controls, recordings>>
    BY DEF EventExpires
<1>2. PICK i \in DOMAIN epg : /\ epg[i].evs # <<>>
                              /\ epg' = [epg EXCEPT ![i].evs = Tail(@)]
    BY DEF EventExpires
<1> QED
    BY <1>1, <1>2, ExpireKeeps, ChangeTold

LEMMA ListsSame == ASSUME ListsInv, UNCHANGED listsVars PROVE ListsInv'
<1>1. /\ UNCHANGED vdrVars
      /\ UNCHANGED <<req, busy, h, parsed, said, changed, conn>>
    BY DEF listsVars, cmdVars
<1>2. UNCHANGED <<channels, named, current, watched, timers, controls,
                  recordings, epg, filled>>
    BY <1>1 DEF vdrVars
<1>3. Answering'
    BY <1>1, <1>2 DEF ListsInv, Answering, Lister, InSchedule, Continued, Fresh,
                      TimerIds, IsSequence
<1>4. OneAnswer' /\ UndefinedOnlyIf'
    BY <1>1 DEF ListsInv, OneAnswer, AnsweredTwice, UndefinedOnlyIf
<1>5. ListsTyped'
    BY <1>2 DEF ListsInv, ListsTyped
<1>6. ReferencesBut'
    BY <1>1, <1>2 DEF ListsInv, ReferencesBut, Orphan, TimerIds
<1>7. Parsing'
    BY <1>1, <1>2 DEF ListsInv, Parsing
<1> QED
    BY <1>3, <1>4, <1>5, <1>6, <1>7 DEF ListsInv

(* Every command but NEWT begins and is parsed in one step.                *)
LEMMA Edits ==
    ASSUME Kept, Told,
           \/ STAT \/ STATRecords \/ MODT \/ DELT \/ NEXT
           \/ NEWC \/ MODC \/ MOVC \/ DELC \/ DELCInUse \/ DELR \/ RENR
           \/ Unknown
    PROVE  /\ conn = "open" /\ parsed' = Unparsed
<1>0. /\ \A c : Reply(c) => parsed' = parsed
      /\ \A op : Do(op) \/ Err(op) => conn = "open" /\ parsed = Unparsed
    BY DoIs DEF Reply, Answer
<1>1. CASE STAT \/ STATRecords
    BY <1>0, <1>1 DEF STAT, STATRecords
<1>2. CASE MODT
  <2> DEFINE Set(n, on, c) ==
               /\ Do("MODT")
               /\ IF n \in DOMAIN timers
                    THEN /\ timers' = [timers EXCEPT ![n].on = on,
                                         ![n].chan = Setting(n, c)]
                         /\ Reply(250)
                    ELSE Reply(501) /\ UNCHANGED timers
               /\ UNCHANGED <<channels, named, current, watched, controls,
                              recordings, epg, filled>>
  <2>1. \/ Err("MODT") /\ Reply(501)
        \/ \E n \in 1 .. Len(timers) + 1, on \in BOOLEAN,
              c \in {0} \cup SeqToSet(channels) : Set(n, on, c)
    BY <1>2 DEF MODT
  <2>2. \A n, on, c : Set(n, on, c) => Do("MODT") /\ \E k : Reply(k)
    OBVIOUS
  <2> HIDE DEF Set
  <2> QED
    BY <1>0, <2>1, <2>2
<1>3. CASE DELT
    BY <1>3, DELTKeeps
<1>4. CASE NEXT
    BY <1>0, <1>4, AskIs DEF NEXT
<1>5. CASE NEWC \/ MODC
    BY <1>0, <1>5 DEF NEWC, MODC
<1>6. CASE MOVC
    BY <1>0, <1>6 DEF MOVC
<1>7. CASE DELC \/ DELCInUse
    BY <1>0, <1>7 DEF DELC, DELCInUse
<1>8. CASE DELR \/ RENR \/ Unknown
    BY <1>0, <1>8 DEF DELR, RENR, Unknown
<1> QED
    BY <1>1, <1>2, <1>3, <1>4, <1>5, <1>6, <1>7, <1>8

LEMMA Lists ==
    ASSUME LSTE \/ LSTC \/ LSTT \/ LSTR \/ LSTRUnknown
    PROVE  /\ conn = "open" /\ parsed' = Unparsed
<1>1. CASE LSTE
    BY <1>1, AskIs DEF LSTE, List
<1>2. CASE LSTC
    BY <1>2, AskIs DEF LSTC, List
<1>3. CASE LSTT
    BY <1>3, AskIs DEF LSTT, List
<1>4. CASE LSTR
    BY <1>4, AskIs DEF LSTR, List
<1>5. CASE LSTRUnknown
    BY <1>5, AskIs DEF LSTRUnknown
<1> QED
    BY <1>1, <1>2, <1>3, <1>4, <1>5

LEMMA Changes ==
    ASSUME \/ TimerEdits \/ ChannelEdits \/ RecordingStarts
           \/ RecordingStops \/ RecordingEdits \/ EventExpires
    PROVE  \E c : Change(c)
BY DEF TimerEdits, ChannelEdits, RecordingStarts, RecordingStops,
       RecordingEdits, EventExpires

(* Nothing happens any more on a connection that is not open.              *)
LEMMA Stopped ==
    ASSUME conn # "open", [ListsNext]_listsVars PROVE UNCHANGED listsVars
<1>0. \A op, a : ~Ask(op, a)
    BY DEF Ask
<1>1. \A op : ~Do(op) /\ ~Err(op)
    BY <1>0 DEF Do, Err
<1>2. ~(LSTE \/ LSTC \/ LSTT \/ LSTR \/ LSTRUnknown)
    BY Lists
<1>3. ~(STAT \/ STATRecords \/ NEXT \/ NEWC \/ MODC \/ MOVC)
    BY <1>0, <1>1 DEF STAT, STATRecords, NEXT, NEWC, MODC, MOVC
<1>4. ~(DELC \/ DELCInUse \/ DELR \/ RENR \/ Unknown)
    BY <1>1 DEF DELC, DELCInUse, DELR, RENR, Unknown
<1>5. ~MODT
    BY ZenonT(40), <1>1 DEF MODT
<1>6. ~DELT
    BY ZenonT(40), <1>0, <1>1 DEF DELT
<1>7. ~(NEWT \/ NEWTAdds \/ Violation \/ Cycle \/ StaleUse)
    BY ZenonT(40), <1>1 DEF NEWT, NEWTAdds, Violation, Cycle, StaleUse
<1>8. ~(TimerEdits \/ ChannelEdits \/ EventExpires \/ RecordingStarts
        \/ RecordingStops \/ RecordingEdits)
    BY Changes DEF Change
<1> QED
    BY <1>2, <1>3, <1>4, <1>5, <1>6, <1>7, <1>8 DEF ListsNext, Ended, Rests

LEMMA ListsStep == ListsInv /\ [ListsNext]_listsVars => ListsInv'
<1> SUFFICES ASSUME ListsInv, [ListsNext]_listsVars PROVE ListsInv'
    OBVIOUS
<1>0. CASE UNCHANGED listsVars
    BY <1>0, ListsSame
<1>9. CASE conn # "open"
    BY <1>9, <1>0, Stopped
<1>10. CASE conn = "open" /\ ~ UNCHANGED listsVars
  <2>0. Kept /\ Told /\ Parsing
    BY <1>10, InvIs
  <2>1. CASE LSTE \/ LSTC \/ LSTT \/ LSTR \/ LSTRUnknown
    BY <2>0, <2>1, Lists, ParsingNone, InvNext,
       LSTEKeeps, LSTCKeeps, LSTTKeeps, LSTRKeeps, LSTRUnknownKeeps
  <2>2. CASE Violation \/ Cycle \/ StaleUse
    <3>1. parsed' = Unparsed
        BY <2>0, <2>2 DEF Violation, Cycle, StaleUse, Parsing
    <3> QED
        BY <2>0, <2>2, <3>1, ParsingNone, InvNext,
           ViolationKeeps, CycleTold, StaleUseTold
  <2>3. CASE STAT \/ STATRecords \/ MODT \/ DELT \/ NEXT
    BY <2>0, <2>3, Edits, ParsingNone, InvNext,
       STATKeeps, MODTKeeps, DELTKeeps, NEXTKeeps
  <2>4. CASE NEWT \/ NEWTAdds
    BY <2>0, <2>4, NEWTKeeps, NEWTAddsKeeps, InvNext
  <2>5. CASE NEWC \/ MODC \/ MOVC \/ DELC \/ DELCInUse
    BY <2>0, <2>5, Edits, ParsingNone, InvNext,
       NEWCKeeps, MODCKeeps, MOVCKeeps, DELCKeeps, DELCInUseKeeps
  <2>6. CASE DELR \/ RENR \/ Unknown
    BY <2>0, <2>6, Edits, ParsingNone, InvNext, DELRKeeps, RefusedKeeps
  <2>7. CASE TimerEdits \/ ChannelEdits \/ EventExpires
    BY <2>0, <2>7, Changes, ParsingChange, InvNext,
       TimerEditsKeeps, ChannelEditsKeeps, EventExpiresKeeps
  <2>8. CASE RecordingStarts \/ RecordingStops \/ RecordingEdits
    BY <2>0, <2>8, Changes, ParsingChange, InvNext,
       RecordingStartsKeeps, RecordingStopsKeeps, RecordingEditsKeeps
  <2>9. CASE Ended \/ Rests
    BY <1>10, <2>9 DEF Ended, Rests
  <2> QED
    BY <1>10, <2>1, <2>2, <2>3, <2>4, <2>5, <2>6, <2>7, <2>8, <2>9
       DEF ListsNext
<1> QED
    BY <1>0, <1>9, <1>10

LEMMA ListsAlways == ListsSpec => []ListsInv
BY ListsStart, ListsStep, PTL DEF ListsSpec

(* A client that reads up to the first line without a dash gets the whole  *)
(* answer of one command and nothing of the next, however VDR changes its  *)
(* lists under the handler that posts it line by line (Respond, Command,   *)
(* CmdLSTX, connectionVTP.c); but for a DELT with an unknown word.         *)
THEOREM AnswersAreWhole == ListsSpec => []OneAnswer
BY ListsAlways, ListsImplied, PTL

(* The server follows no pointer to what was deleted unless VDR deleted it *)
(* between two lines of the answer, or while NEWT waited for the timers,   *)
(* or an empty list was looked into: what a handler keeps from one cycle   *)
(* to the next is otherwise still there.                                   *)
THEOREM NoPointerIsStale == ListsSpec => []UndefinedOnlyIf
BY ListsAlways, ListsImplied, PTL

(* However the commands and VDR edit the lists, a timer's channel and a    *)
(* recording's timer and entry stay in them, and the number of the current *)
(* channel stays that of the channel being watched; but for the timer that *)
(* NEWT adds on a channel deleted after it was parsed (CmdNEWT).           *)
THEOREM ReferencesStay == ListsSpec => []ReferencesKept
BY ListsAlways, ListsImplied, PTL

-----------------------------------------------------------------------------
(* LSTC repeats no channel. What it has told is behind it.                 *)

Before(s, c, e) == \E i, j \in DOMAIN s : i < j /\ s[i] = c /\ s[j] = e

TellsOnce ==
    busy /\ req.op = "LSTC" =>
      /\ h.op = "LSTC"
      /\ \A i \in DOMAIN said :
           \/ said[i].what[3] \in changed
           \/ said[i].what[3] \notin SeqToSet(channels)
           \/ h.held \notin SeqToSet(channels)
           \/ Before(channels, said[i].what[3], h.held)

OnceInv == ChannelsOnce /\ TellsOnce

LEMMA BeforeIs ==
    ASSUME NEW S, NEW s \in Seq(S), Distinct(s), NEW c, NEW d, NEW e
    PROVE  /\ ~ Before(s, c, c)
           /\ Before(s, c, d) /\ Before(s, d, e) => Before(s, c, e)
<1>0. DOMAIN s \subseteq Int
    OBVIOUS
<1>1. ~ Before(s, c, c)
    BY <1>0 DEF Before, Distinct
<1>2. ASSUME Before(s, c, d), Before(s, d, e) PROVE Before(s, c, e)
  <2>1. PICK i, j \in DOMAIN s : i < j /\ s[i] = c /\ s[j] = d
    BY <1>2 DEF Before
  <2>2. PICK k, l \in DOMAIN s : k < l /\ s[k] = d /\ s[l] = e
    BY <1>2 DEF Before
  <2>3. j = k
    BY <2>1, <2>2 DEF Distinct
  <2>4. i < l
    BY <1>0, <2>1, <2>2, <2>3
  <2> QED
    BY <2>1, <2>2, <2>4 DEF Before
<1> QED
    BY <1>1, <1>2

LEMMA BeforeWithout ==
    ASSUME NEW S, NEW s \in Seq(S), Distinct(s), NEW n \in DOMAIN s,
           NEW c, NEW e, Before(s, c, e),
           c \in SeqToSet(Without(s, n)), e \in SeqToSet(Without(s, n))
    PROVE  Before(Without(s, n), c, e)
<1> DEFINE r == Without(s, n)
           at(k) == IF k < n THEN k ELSE k - 1
<1>0. /\ r \in Seq(S) /\ Len(r) = Len(s) - 1
      /\ \A i \in 1 .. Len(s) - 1 : r[i] = IF i < n THEN s[i] ELSE s[i + 1]
      /\ Len(s) \in Nat /\ DOMAIN s = 1 .. Len(s) /\ n \in 1 .. Len(s)
    BY WithoutIs
<1>1. DOMAIN r = 1 .. Len(s) - 1
    BY <1>0
<1> HIDE DEF r
<1>2. PICK i, j \in DOMAIN s : i < j /\ s[i] = c /\ s[j] = e
    BY DEF Before
<1>3. ASSUME NEW k \in DOMAIN s, s[k] \in SeqToSet(r) PROVE k # n
  <2>1. PICK l \in DOMAIN r : r[l] = s[k]
    BY <1>3 DEF SeqToSet
  <2>2. l \in 1 .. Len(s) - 1 /\ l \in DOMAIN s /\ l + 1 \in DOMAIN s
    BY <1>0, <1>1, <2>1
  <2>3. CASE l < n
    <3>1. s[k] = s[l]
        BY <1>0, <2>1, <2>2, <2>3
    <3>2. k = l
        BY <2>2, <3>1 DEF Distinct
    <3> QED
        BY <1>0, <2>2, <2>3, <3>2
  <2>4. CASE ~(l < n)
    <3>1. s[k] = s[l + 1]
        BY <1>0, <2>1, <2>2, <2>4
    <3>2. k = l + 1
        BY <2>2, <3>1 DEF Distinct
    <3> QED
        BY <1>0, <2>2, <2>4, <3>2
  <2> QED
    BY <2>3, <2>4
<1>4. i # n /\ j # n
    BY <1>2, <1>3 DEF r
<1>5. ASSUME NEW k \in DOMAIN s, k # n
      PROVE  at(k) \in DOMAIN r /\ r[at(k)] = s[k]
  <2>1. at(k) \in 1 .. Len(s) - 1 /\ (IF at(k) < n THEN at(k) ELSE at(k) + 1) = k
    BY <1>0, <1>5
  <2> HIDE DEF at
  <2> QED
    BY <1>0, <1>1, <2>1
<1>6. at(i) < at(j)
    BY <1>0, <1>2, <1>4
<1> HIDE DEF at
<1> QED
    BY <1>2, <1>4, <1>5, <1>6 DEF Before, r

LEMMA BeforeAppend ==
    ASSUME NEW S, NEW s \in Seq(S), NEW x \in S
    PROVE  /\ \A c, e : Before(s, c, e) => Before(Append(s, x), c, e)
           /\ \A c \in SeqToSet(s) : Before(Append(s, x), c, x)
           /\ SeqToSet(Append(s, x)) = SeqToSet(s) \cup {x}
<1> DEFINE t == Append(s, x)
<1>1. /\ Len(t) = Len(s) + 1 /\ Len(s) \in Nat
      /\ \A i \in 1 .. Len(s) : t[i] = s[i]
      /\ t[Len(s) + 1] = x
      /\ DOMAIN s = 1 .. Len(s) /\ DOMAIN t = 1 .. Len(s) + 1
    BY AppendProperties, LenProperties
<1>2. SeqToSet(t) = SeqToSet(s) \cup {x}
    BY AppendedSet
<1> HIDE DEF t
<1>3. \A i \in DOMAIN s : i \in DOMAIN t /\ t[i] = s[i] /\ i < Len(s) + 1
    BY <1>1
<1>4. Len(s) + 1 \in DOMAIN t
    BY <1>1
<1>5. \A c, e : Before(s, c, e) => Before(t, c, e)
    BY <1>3 DEF Before
<1>6. ASSUME NEW c \in SeqToSet(s) PROVE Before(t, c, x)
  <2>1. PICK i \in DOMAIN s : s[i] = c
    BY DEF SeqToSet
  <2> QED
    BY <1>1, <1>3, <1>4, <2>1 DEF Before
<1> QED
    BY <1>2, <1>5, <1>6 DEF t

(* A line of LSTC, and where it goes on.                                   *)
LEMMA LSTCGoesOn ==
    ASSUME ListsTyped, NEW x \in ChannelLister, Fresh(x)
    PROVE  LET n == LSTCNext(x) IN
           /\ n.line.what[3] = x.held /\ x.held \in SeqToSet(channels)
           /\ ~ n.last <=> n.line.more
           /\ ~ n.last => /\ n.h.op = "LSTC"
                          /\ Before(channels, x.held, n.h.held)
<1> DEFINE n == Pos(channels, x.held)
           c == IF x.traverse THEN ChannelFrom(n + 1, x.text) ELSE 0
           y == [x EXCEPT !.held = c]
           w == <<"", n, x.held>>
           T == {m \in DOMAIN channels :
                   m >= n + 1 /\ (x.text => channels[m] \in named)}
<1>0. x.op = "LSTC" /\ x.held \in SeqToSet(channels)
    BY DEF ChannelLister, Fresh
<1>1. n \in DOMAIN channels /\ channels[n] = x.held
    BY <1>0, PosIs
<1>2. DOMAIN channels \subseteq Nat
    BY DEF ListsTyped
<1>3. LSTCNext(x) = Step(Line(250, w, c # 0), IF c # 0 THEN y ELSE x, c = 0)
    BY DEF LSTCNext
<1>4. w[3] = x.held
    OBVIOUS
<1>5. c # 0 => Before(channels, x.held, c)
  <2> SUFFICES ASSUME c # 0 PROVE Before(channels, x.held, c)
    OBVIOUS
  <2>1. c = IF T = {} THEN 0 ELSE channels[Min(T)]
    BY DEF ChannelFrom
  <2>2. T # {} /\ T \subseteq Nat /\ T \subseteq DOMAIN channels
    BY <1>2, <2>1
  <2>3. \A m \in T : m >= n + 1
    OBVIOUS
  <2> HIDE DEF T
  <2>4. Min(T) \in T
    BY <2>2, MinIs
  <2> DEFINE m == Min(T)
  <2>5. m \in DOMAIN channels /\ m >= n + 1 /\ channels[m] = c
    BY <2>1, <2>2, <2>3, <2>4
  <2> HIDE DEF m, c, n
  <2>6. n < m
    BY <1>1, <1>2, <2>5
  <2> QED
    BY <1>1, <2>5, <2>6 DEF Before
<1>6. y.op = "LSTC" /\ y.held = c
    BY <1>0 DEF ChannelLister
<1> HIDE DEF c, w, y
<1> DEFINE p == LSTCNext(x)
<1>7. /\ p.line.what = w /\ p.line.more = (c # 0) /\ p.last = (c = 0)
      /\ p.h = IF c # 0 THEN y ELSE x
    BY <1>3 DEF Step, Line
<1> HIDE DEF p
<1>8. p.line.what[3] = x.held
    BY <1>4, <1>7
<1>9. ~ p.last <=> p.line.more
    BY <1>7
<1>10. ~ p.last => p.h.op = "LSTC" /\ Before(channels, x.held, p.h.held)
    BY <1>5, <1>6, <1>7
<1> QED
    BY <1>0, <1>8, <1>9, <1>10 DEF p

LEMMA OnceStart == ListsInit => OnceInv
<1> SUFFICES ASSUME ListsInit PROVE OnceInv
    OBVIOUS
<1>1. said = <<>> /\ busy = FALSE
    BY DEF ListsInit
<1> QED
    BY <1>1 DEF OnceInv, ChannelsOnce, TellsOnce

LEMMA OnceOther == ASSUME req'.op # "LSTC" PROVE OnceInv'
BY DEF OnceInv, ChannelsOnce, TellsOnce

(* Commands other than LSTC.                                               *)
LEMMA EditsAsk ==
    ASSUME Kept, Told, Parsing,
           \/ STAT \/ STATRecords \/ MODT \/ NEWT \/ DELT \/ NEXT
           \/ NEWC \/ MODC \/ MOVC \/ DELC \/ DELCInUse \/ DELR \/ RENR
           \/ Unknown \/ NEWTAdds
    PROVE  /\ ~ busy
           /\ req'.op \in {"STAT", "MODT", "NEWT", "DELT", "NEXT", "NEWC",
                           "MODC", "MOVC", "DELC", "DELR", "RENR", "HELP"}
<1>1. CASE STAT \/ STATRecords
    BY <1>1, DoIs DEF STAT, STATRecords
<1>2. CASE MODT
  <2> DEFINE Set(n, on, c) ==
               /\ Do("MODT")
               /\ IF n \in DOMAIN timers
                    THEN /\ timers' = [timers EXCEPT ![n].on = on,
                                         ![n].chan = Setting(n, c)]
                         /\ Reply(250)
                    ELSE Reply(501) /\ UNCHANGED timers
               /\ UNCHANGED <<channels, named, current, watched, controls,
                              recordings, epg, filled>>
  <2>1. \/ Err("MODT")
        \/ \E n \in 1 .. Len(timers) + 1, on \in BOOLEAN,
              c \in {0} \cup SeqToSet(channels) : Set(n, on, c)
    BY <1>2 DEF MODT
  <2>2. \A n, on, c : Set(n, on, c) => Do("MODT")
    OBVIOUS
  <2> HIDE DEF Set
  <2> QED
    BY SMTT(40), <2>1, <2>2, DoIs
<1>3. CASE NEWT
    BY ZenonT(40), <1>3, DoIs DEF NEWT
<1>10. CASE NEWTAdds
    BY <1>10 DEF Parsing, NEWTAdds
<1>4. CASE DELT
    BY <1>4, DELTKeeps
<1>5. CASE NEXT
    BY <1>5, AskIs DEF NEXT
<1>6. CASE NEWC \/ MODC
    BY <1>6, DoIs DEF NEWC, MODC
<1>7. CASE MOVC
    BY <1>7, DoIs DEF MOVC
<1>8. CASE DELC \/ DELCInUse
    BY <1>8, DoIs DEF DELC, DELCInUse
<1>9. CASE DELR \/ RENR \/ Unknown
    BY <1>9, DoIs DEF DELR, RENR, Unknown
<1> QED
    BY <1>1, <1>2, <1>3, <1>4, <1>5, <1>6, <1>7, <1>8, <1>9, <1>10

LEMMA ListsAsk ==
    ASSUME LSTE \/ LSTT \/ LSTR \/ LSTRUnknown
    PROVE  ~ busy /\ req'.op \in {"LSTE", "LSTT", "LSTR"}
<1>1. CASE LSTE
    BY <1>1, AskIs DEF LSTE, List
<1>2. CASE LSTT
    BY <1>2, AskIs DEF LSTT, List
<1>3. CASE LSTR
    BY <1>3, AskIs DEF LSTR, List
<1>4. CASE LSTRUnknown
    BY <1>4, AskIs DEF LSTRUnknown
<1> QED
    BY <1>1, <1>2, <1>3, <1>4

(* Whatever changes elsewhere, or ends.                                    *)
LEMMA OnceSame ==
    ASSUME OnceInv, UNCHANGED <<req, busy, h, said, channels>>,
           changed \subseteq changed'
    PROVE  OnceInv'
<1>1. ChannelsOnce'
    BY DEF OnceInv, ChannelsOnce
<1>2. TellsOnce'
    BY DEF OnceInv, TellsOnce
<1> QED
    BY <1>1, <1>2 DEF OnceInv

LEMMA OnceDelete ==
    ASSUME Kept, OnceInv, NEW n \in DOMAIN channels, DeleteChannel(n), Change(0)
    PROVE  OnceInv'
<1>0. /\ UNCHANGED <<req, busy, h, said>> /\ changed \subseteq changed'
      /\ channels' = Without(channels, n)
    BY DEF Change, cmdVars, DeleteChannel
<1>1. channels \in Seq(Objects) /\ Distinct(channels)
    BY KeptIs
<1>2. SeqToSet(channels') \subseteq SeqToSet(channels)
    BY <1>0, <1>1, WithoutSet
<1>3. \A c, e \in SeqToSet(channels') :
        Before(channels, c, e) => Before(channels', c, e)
    BY <1>0, <1>1, BeforeWithout
<1>4. ChannelsOnce'
    BY <1>0 DEF OnceInv, ChannelsOnce
<1>5. TellsOnce'
  <2> SUFFICES ASSUME busy', req'.op = "LSTC"
               PROVE  /\ h'.op = "LSTC"
                      /\ \A i \in DOMAIN said' :
                           \/ said'[i].what[3] \in changed'
                           \/ said'[i].what[3] \notin SeqToSet(channels')
                           \/ h'.held \notin SeqToSet(channels')
                           \/ Before(channels', said'[i].what[3], h'.held)
    BY DEF TellsOnce
  <2>1. h.op = "LSTC"
        /\ \A i \in DOMAIN said :
             \/ said[i].what[3] \in changed
             \/ said[i].what[3] \notin SeqToSet(channels)
             \/ h.held \notin SeqToSet(channels)
             \/ Before(channels, said[i].what[3], h.held)
    BY <1>0 DEF OnceInv, TellsOnce
  <2> QED
    BY <1>0, <1>2, <1>3, <2>1
<1> QED
    BY <1>4, <1>5 DEF OnceInv

LEMMA OnceAdd ==
    ASSUME Kept, OnceInv, NEW c \in Objects \ SeqToSet(channels),
           AddChannel(c), Change(c)
    PROVE  OnceInv'
<1>0. /\ UNCHANGED <<req, busy, h, said>> /\ changed' = changed \cup {c}
      /\ channels' = Append(channels, c)
    BY DEF Change, cmdVars, AddChannel
<1>1. channels \in Seq(Objects)
    BY KeptIs
<1>2. /\ \A d, e : Before(channels, d, e) => Before(channels', d, e)
      /\ \A d \in SeqToSet(channels) : Before(channels', d, c)
      /\ SeqToSet(channels') = SeqToSet(channels) \cup {c}
    BY <1>0, <1>1, BeforeAppend
<1>4. ChannelsOnce'
    BY <1>0 DEF OnceInv, ChannelsOnce
<1>5. TellsOnce'
  <2> SUFFICES ASSUME busy', req'.op = "LSTC"
               PROVE  /\ h'.op = "LSTC"
                      /\ \A i \in DOMAIN said' :
                           \/ said'[i].what[3] \in changed'
                           \/ said'[i].what[3] \notin SeqToSet(channels')
                           \/ h'.held \notin SeqToSet(channels')
                           \/ Before(channels', said'[i].what[3], h'.held)
    BY DEF TellsOnce
  <2>1. h.op = "LSTC"
        /\ \A i \in DOMAIN said :
             \/ said[i].what[3] \in changed
             \/ said[i].what[3] \notin SeqToSet(channels)
             \/ h.held \notin SeqToSet(channels)
             \/ Before(channels, said[i].what[3], h.held)
    BY <1>0 DEF OnceInv, TellsOnce
  <2> QED
    BY <1>0, <1>2, <2>1
<1> QED
    BY <1>4, <1>5 DEF OnceInv

(* What Post makes of what was said, for a handler of LSTC.                *)
LEMMA OncePost ==
    ASSUME ListsTyped, UNCHANGED channels, NEW s, IsSequence(s), NEW x,
           (x.err # 0 /\ s = <<>>) \/ (x \in ChannelLister /\ Fresh(x)),
           Post(x, s),
           \A i, j \in DOMAIN s :
             /\ i # j /\ s[i].code = 250 /\ s[j].code = 250
             /\ s[i].what[3] = s[j].what[3]
             => s[i].what[3] \in changed',
           \A i \in DOMAIN s :
             \/ s[i].what[3] \in changed'
             \/ s[i].what[3] \notin SeqToSet(channels)
             \/ Before(channels, s[i].what[3], x.held)
    PROVE  OnceInv'
<1> DEFINE n == HandlerNext(x)
<1>0. said' = Append(s, n.line) /\ busy' = n.line.more
      /\ h' = IF n.last THEN None ELSE n.h
    BY DEF Post
<1> HIDE DEF n
<1>1. /\ Len(s) \in Nat /\ DOMAIN s = 1 .. Len(s)
      /\ DOMAIN said' = 1 .. Len(s) + 1
      /\ \A i \in 1 .. Len(s) : said'[i] = s[i]
      /\ said'[Len(s) + 1] = n.line
    BY <1>0, AppendIs
<1>2. \A i \in DOMAIN said' : i \in DOMAIN s \/ i = Len(s) + 1
    BY <1>1
<1>3. CASE x.err # 0 /\ s = <<>>
  <2>1. n = Step(Line(x.err, NoText, FALSE), x, TRUE)
    BY <1>3 DEF HandlerNext, n
  <2>2. ~ n.line.more
    BY <2>1 DEF Step, Line
  <2>3. \A i, j \in DOMAIN said' : i = j
    BY <1>2, <1>3
  <2> QED
    BY <1>0, <2>2, <2>3 DEF OnceInv, ChannelsOnce, TellsOnce
<1>4. CASE x \in ChannelLister /\ Fresh(x)
  <2>1. x.op = "LSTC" /\ x.err = 0
    BY <1>4 DEF ChannelLister
  <2>2. n = LSTCNext(x)
    BY <2>1 DEF HandlerNext, n
  <2>3. /\ n.line.what[3] = x.held /\ x.held \in SeqToSet(channels)
        /\ ~ n.last <=> n.line.more
        /\ ~ n.last => n.h.op = "LSTC" /\ Before(channels, x.held, n.h.held)
    BY <1>4, <2>2, LSTCGoesOn
  <2>4. channels \in Seq(Objects) /\ Distinct(channels)
    BY DEF ListsTyped
  <2>5. \A i \in DOMAIN s :
          s[i].what[3] = x.held => s[i].what[3] \in changed'
    BY <2>3, <2>4, BeforeIs
  <2>6. ChannelsOnce'
    <3> SUFFICES ASSUME NEW i \in DOMAIN said', NEW j \in DOMAIN said', i # j,
                        said'[i].code = 250, said'[j].code = 250,
                        said'[i].what[3] = said'[j].what[3]
                 PROVE  said'[i].what[3] \in changed'
        BY DEF ChannelsOnce
    <3>1. CASE i \in DOMAIN s /\ j \in DOMAIN s
        BY <1>1, <3>1
    <3>2. CASE i \in DOMAIN s /\ j = Len(s) + 1
        BY <1>1, <2>3, <2>5, <3>2
    <3>3. CASE i = Len(s) + 1 /\ j \in DOMAIN s
        BY <1>1, <2>3, <2>5, <3>3
    <3> QED
        BY <1>2, <3>1, <3>2, <3>3
  <2>7. TellsOnce'
    <3> SUFFICES ASSUME busy'
                 PROVE  /\ h'.op = "LSTC"
                        /\ \A i \in DOMAIN said' :
                             \/ said'[i].what[3] \in changed'
                             \/ said'[i].what[3] \notin SeqToSet(channels')
                             \/ h'.held \notin SeqToSet(channels')
                             \/ Before(channels', said'[i].what[3], h'.held)
        BY DEF TellsOnce
    <3>1. h' = n.h /\ h'.op = "LSTC" /\ Before(channels, x.held, h'.held)
        BY <1>0, <2>3
    <3>2. \A i \in DOMAIN s :
            \/ said'[i].what[3] \in changed'
            \/ said'[i].what[3] \notin SeqToSet(channels)
            \/ Before(channels, said'[i].what[3], h'.held)
        BY <1>1, <2>4, <3>1, BeforeIs
    <3>3. said'[Len(s) + 1].what[3] = x.held
        BY <1>1, <2>3
    <3> QED
        BY <1>2, <3>1, <3>2, <3>3
  <2> QED
    BY <2>6, <2>7 DEF OnceInv
<1> QED
    BY <1>3, <1>4

LEMMA OnceLSTC == ASSUME Kept, Told, LSTC PROVE OnceInv'
<1>1. PICK a : /\ List("LSTC", a, LSTCHandler(a))
               /\ \/ a \in [nr : DOMAIN channels \cup {Len(channels) + 1},
                            text : {FALSE}]
                  \/ a \in [nr : {0}, text : BOOLEAN]
    BY DEF LSTC
<1>2. a.nr \in Nat /\ a.text \in BOOLEAN
  <2>1. Len(channels) + 1 \in Nat /\ DOMAIN channels \subseteq Nat
    BY KeptIs
  <2>2. CASE a \in [nr : DOMAIN channels \cup {Len(channels) + 1}, text : {FALSE}]
    BY <2>1, <2>2
  <2>3. CASE a \in [nr : {0}, text : BOOLEAN]
    BY <2>3
  <2> QED
    BY <1>1, <2>2, <2>3
<1> DEFINE x == LSTCHandler(a)
<1>3. x.op = "LSTC" /\ (x.err # 0 \/ (Lister(x) /\ Fresh(x)))
    BY <1>2, LSTCMade DEF Kept
<1> HIDE DEF x
<1>4. Post(x, <<>>) /\ UNCHANGED channels
    BY <1>1 DEF x, List, vdrVars
<1>5. x.err # 0 \/ (x \in ChannelLister /\ Fresh(x))
    BY <1>3, ListerIs
<1> DEFINE s == <<>>
<1>6. s = <<>> /\ DOMAIN s = {} /\ IsSequence(s) /\ Post(x, s)
  <2>1. <<>> \in Seq({})
    OBVIOUS
  <2> QED
    BY <1>4, <2>1 DEF IsSequence
<1> HIDE DEF s
<1>7. ListsTyped
    BY DEF Kept
<1> QED
    BY <1>4, <1>5, <1>6, <1>7, OncePost

LEMMA OnceCycle == ASSUME Kept, Told, OnceInv, Cycle PROVE OnceInv'
<1>0. /\ busy /\ ~ Stale(h) /\ Post(h, said)
      /\ UNCHANGED channels /\ req' = req /\ changed' = changed
    BY DEF Cycle, vdrVars
<1>1. IsSequence(said) /\ Lister(h)
    BY <1>0 DEF Told, Answering
<1>2. CASE req.op # "LSTC"
    BY <1>0, <1>2, OnceOther
<1>3. CASE req.op = "LSTC"
  <2>1. /\ h.op = "LSTC"
        /\ \A i \in DOMAIN said :
             \/ said[i].what[3] \in changed
             \/ said[i].what[3] \notin SeqToSet(channels)
             \/ h.held \notin SeqToSet(channels)
             \/ Before(channels, said[i].what[3], h.held)
    BY <1>0, <1>3 DEF OnceInv, TellsOnce
  <2>2. h \in ChannelLister /\ Fresh(h)
    BY <1>0, <1>1, <2>1, ListerIs, NotStaleIs
  <2>3. h.held \in SeqToSet(channels)
    BY <2>1, <2>2 DEF Fresh
  <2>4. \A i, j \in DOMAIN said :
          /\ i # j /\ said[i].code = 250 /\ said[j].code = 250
          /\ said[i].what[3] = said[j].what[3]
          => said[i].what[3] \in changed'
    BY <1>0, <1>3 DEF OnceInv, ChannelsOnce
  <2>5. \A i \in DOMAIN said :
          \/ said[i].what[3] \in changed'
          \/ said[i].what[3] \notin SeqToSet(channels)
          \/ Before(channels, said[i].what[3], h.held)
    BY <1>0, <2>1, <2>3
  <2>6. ListsTyped
    BY DEF Kept
  <2> QED
    BY <1>0, <1>1, <2>2, <2>4, <2>5, <2>6, OncePost
<1> QED
    BY <1>2, <1>3

LEMMA OnceStep ==
    ASSUME Kept, Told, Parsing, OnceInv, [ListsNext]_listsVars
    PROVE  OnceInv'
<1>1. CASE LSTC
    BY <1>1, OnceLSTC
<1>2. CASE Cycle
    BY <1>2, OnceCycle
<1>3. CASE LSTE \/ LSTT \/ LSTR \/ LSTRUnknown
    BY <1>3, ListsAsk, OnceOther
<1>4. CASE \/ STAT \/ STATRecords \/ MODT \/ NEWT \/ DELT \/ NEXT
           \/ NEWC \/ MODC \/ MOVC \/ DELC \/ DELCInUse \/ DELR \/ RENR
           \/ Unknown \/ NEWTAdds
    BY <1>4, EditsAsk, OnceOther
<1>5. CASE ChannelEdits
  <2>1. CASE \E n \in DOMAIN channels : /\ TimersOn(channels[n]) = {}
                                       /\ Change(0) /\ DeleteChannel(n)
    BY <2>1, OnceDelete
  <2>2. CASE \E c \in Objects \ SeqToSet(channels) :
               c # parsed.chan /\ Change(c) /\ AddChannel(c)
    BY <2>2, OnceAdd
  <2> QED
    BY <1>5, <2>1, <2>2 DEF ChannelEdits
<1>6. CASE \/ TimerEdits \/ RecordingStarts \/ RecordingStops
           \/ RecordingEdits \/ EventExpires
  <2>1. Change(0) /\ UNCHANGED channels
    BY <1>6 DEF TimerEdits, RecordingStarts, RecordingStops, RecordingEdits,
                EventExpires
  <2> QED
    BY <2>1, OnceSame DEF Change, cmdVars
<1>7. CASE Violation \/ StaleUse
  <2>1. UNCHANGED <<req, busy, h, said, channels, changed>>
    BY <1>7 DEF Violation, StaleUse, vdrVars
  <2> QED
    BY <2>1, OnceSame
<1>8. CASE Ended \/ Rests \/ UNCHANGED listsVars
  <2>1. UNCHANGED <<req, busy, h, said, channels, changed>>
    BY <1>8 DEF Ended, Rests, listsVars, cmdVars, vdrVars
  <2> QED
    BY <2>1, OnceSame
<1> QED
    BY <1>1, <1>2, <1>3, <1>4, <1>5, <1>6, <1>7, <1>8 DEF ListsNext

LEMMA OnceStays ==
    ASSUME ListsInv, OnceInv, [ListsNext]_listsVars PROVE OnceInv'
<1>1. CASE conn = "open"
    BY <1>1, InvIs, OnceStep
<1>2. CASE conn # "open"
  <2>1. UNCHANGED listsVars
    BY <1>2, Stopped
  <2>2. UNCHANGED <<req, busy, h, said, changed, conn>> /\ UNCHANGED vdrVars
    BY <2>1 DEF listsVars, cmdVars
  <2> QED
    BY <2>2, OnceSame DEF vdrVars
<1> QED
    BY <1>1, <1>2

(* However often VDR changes the lists between two lines of LSTC, no       *)
(* channel is told twice but one that was added again: the handler goes on *)
(* behind the channel it holds (cLSTCHandler::Next, connectionVTP.c).      *)
THEOREM ChannelsToldOnce == ListsSpec => []ChannelsOnce
<1>1. ListsInit => ListsInv /\ OnceInv
    BY ListsStart, OnceStart
<1>2. ListsInv /\ OnceInv /\ [ListsNext]_listsVars => (ListsInv /\ OnceInv)'
    BY ListsStep, OnceStays
<1>3. OnceInv => ChannelsOnce
    BY DEF OnceInv
<1> QED
    BY <1>1, <1>2, <1>3, PTL DEF ListsSpec

-----------------------------------------------------------------------------
(* Entry by entry: a list that nobody changes is told as it is.            *)

Listed(op) == IF op = "LSTC" THEN channels
              ELSE IF op = "LSTT" THEN TimerIds ELSE recordings
Listing == {"LSTC", "LSTT", "LSTR"}

(* The handler x tells all of s and is at the k-th entry.                  *)
At(x, s, k) ==
    /\ x.traverse /\ k \in DOMAIN s /\ x.held = s[k]
    /\ x.op = "LSTC" => ~ x.text
    /\ x.op # "LSTC" => x.idx = k

Entries(r, s) == \A i \in DOMAIN r : r[i].what = <<"", i, s[i]>>

(* What the handler at the k-th entry posts, and where it goes on.         *)
Goes(n, op, s, k) ==
    /\ n.line.what = <<"", k, s[k]>>
    /\ n.line.more <=> k + 1 \in DOMAIN s
    /\ n.last <=> k + 1 \notin DOMAIN s
    /\ k + 1 \in DOMAIN s => n.h.op = op /\ At(n.h, s, k + 1)

Midway ==
    /\ busy /\ changed = {} /\ req.op \in Listing
    /\ req.op = "LSTC" => ~ req.text
    /\ req.op = "LSTR" => req.nr = 0
    => /\ req.nr = 0 /\ h.op = req.op
       /\ At(h, Listed(req.op), Len(said) + 1)
       /\ Entries(said, Listed(req.op))

ExactInv == EntriesExact /\ Midway

LEMMA ListedIs ==
    ASSUME ListsTyped, NEW op
    PROVE  Listed(op) \in Seq(Nat) /\ Distinct(Listed(op))
<1>1. channels \in Seq(Nat) /\ recordings \in Seq(Nat)
    BY SeqMonotonic, VTPListsAssumption DEF ListsTyped
<1>2. Distinct(channels) /\ Distinct(recordings) /\ OwnIds(timers)
    BY DEF ListsTyped
<1>3. TimerIds \in Seq(Nat) /\ Distinct(TimerIds)
    BY <1>2, TimerIdsAre DEF OwnIds, Distinct
<1> QED
    BY <1>1, <1>2, <1>3 DEF Listed

LEMMA NumberOf ==
    ASSUME NEW s, Distinct(s), NEW k \in DOMAIN s PROVE Pos(s, s[k]) = k
<1>1. s[k] \in SeqToSet(s)
    BY DEF SeqToSet
<1> QED
    BY <1>1, PosIs DEF Distinct

LEMMA ChannelNumbered ==
    ASSUME ListsTyped, NEW i \in Nat \ {0}, NEW text \in BOOLEAN, ~ text
    PROVE  ChannelFrom(i, text) =
             IF i \in DOMAIN channels THEN channels[i] ELSE 0
<1> DEFINE T == {n \in DOMAIN channels :
                   n >= i /\ (text => channels[n] \in named)}
<1>1. ChannelFrom(i, text) = IF T = {} THEN 0 ELSE channels[Min(T)]
    BY DEF ChannelFrom
<1>2. /\ T \subseteq Nat /\ \A n \in T : n >= i /\ n \in DOMAIN channels
      /\ i \in DOMAIN channels => i \in T
    BY DEF ListsTyped
<1>3. DOMAIN channels = 1 .. Len(channels) /\ Len(channels) \in Nat
    BY DEF ListsTyped
<1> HIDE DEF T
<1>4. CASE i \in DOMAIN channels
  <2>0. T # {} /\ i \in T /\ T \subseteq Nat
    BY <1>2, <1>4
  <2>1. Min(T) \in T /\ Min(T) <= i
    BY <2>0, MinIs
  <2> DEFINE m == Min(T)
  <2>2. m \in Nat /\ m >= i /\ m <= i
    BY <1>2, <2>1
  <2> HIDE DEF m
  <2>3. m = i
    BY <2>2
  <2> QED
    BY <1>1, <1>4, <2>0, <2>3 DEF m
<1>5. CASE i \notin DOMAIN channels
  <2>1. T = {}
    BY <1>2, <1>3, <1>5
  <2> QED
    BY <1>1, <1>5, <2>1
<1> QED
    BY <1>4, <1>5

LEMMA ChannelEntry ==
    ASSUME ListsTyped, NEW x \in ChannelLister, NEW k, At(x, channels, k)
    PROVE  Goes(LSTCNext(x), "LSTC", channels, k)
<1> DEFINE c == IF x.traverse
                  THEN ChannelFrom(Pos(channels, x.held) + 1, x.text) ELSE 0
           y == [x EXCEPT !.held = c]
           w == <<"", Pos(channels, x.held), x.held>>
<1>1. /\ x.op = "LSTC" /\ x.text \in BOOLEAN /\ ~ x.text /\ x.traverse
      /\ k \in DOMAIN channels /\ x.held = channels[k]
    BY DEF ChannelLister, At
<1>2. Distinct(channels) /\ DOMAIN channels \subseteq Nat \ {0}
    BY DEF ListsTyped
<1>3. Pos(channels, x.held) = k
    BY <1>1, <1>2, NumberOf
<1>4. w = <<"", k, channels[k]>>
    BY <1>1, <1>3
<1>5. c = IF k + 1 \in DOMAIN channels THEN channels[k + 1] ELSE 0
  <2>1. k + 1 \in Nat \ {0}
    BY <1>1, <1>2
  <2> QED
    BY <1>1, <1>3, <2>1, ChannelNumbered
<1>6. c # 0 <=> k + 1 \in DOMAIN channels
  <2>1. \A i \in DOMAIN channels : channels[i] # 0
    BY VTPListsAssumption DEF ListsTyped
  <2> HIDE DEF c
  <2> QED
    BY <1>5, <2>1
<1>7. LSTCNext(x) = Step(Line(250, w, c # 0), IF c # 0 THEN y ELSE x, c = 0)
    BY DEF LSTCNext
<1>8. y.op = "LSTC" /\ y.held = c /\ y.text = x.text /\ y.traverse = x.traverse
    BY DEF ChannelLister
<1> HIDE DEF c, w, y
<1> DEFINE p == LSTCNext(x)
<1>9. /\ p.line.what = w /\ p.line.more = (c # 0) /\ p.last = (c = 0)
      /\ p.h = IF c # 0 THEN y ELSE x
    BY <1>7 DEF Step, Line
<1> HIDE DEF p
<1>10. k + 1 \in DOMAIN channels => p.h.op = "LSTC" /\ At(p.h, channels, k + 1)
    BY <1>1, <1>5, <1>6, <1>8, <1>9 DEF At
<1> QED
    BY <1>4, <1>6, <1>9, <1>10 DEF p, Goes

LEMMA IndexEntry ==
    ASSUME NEW x \in IndexLister, NEW s \in Seq(Nat), Distinct(s), NEW k,
           At(x, s, k)
    PROVE  Goes(IndexNext(x, s), x.op, s, k)
<1> DEFINE last == ~x.traverse \/ x.idx >= Len(s)
           i == x.idx + 1
           y == [x EXCEPT !.idx = i, !.held = s[i]]
           w == <<"", Pos(s, x.held), x.held>>
<1>1. /\ x.op # "LSTC" /\ x.traverse /\ x.idx = k
      /\ k \in DOMAIN s /\ x.held = s[k]
    BY DEF IndexLister, At
<1>2. DOMAIN s = 1 .. Len(s) /\ Len(s) \in Nat
    OBVIOUS
<1>3. w = <<"", k, s[k]>>
    BY <1>1, NumberOf
<1>4. last <=> k + 1 \notin DOMAIN s
    BY <1>1, <1>2
<1>5. i = k + 1
    BY <1>1
<1>6. IndexNext(x, s) = Step(Line(250, w, ~last), IF last THEN x ELSE y, last)
    BY DEF IndexNext
<1> HIDE DEF i
<1>7. y.op = x.op /\ y.held = s[i] /\ y.idx = i /\ y.traverse = x.traverse
    BY DEF IndexLister
<1> HIDE DEF last, w, y
<1> DEFINE p == IndexNext(x, s)
<1>8. /\ p.line.what = w /\ p.line.more = ~last /\ p.last = last
      /\ p.h = IF last THEN x ELSE y
    BY <1>6 DEF Step, Line
<1> HIDE DEF p
<1>9. k + 1 \in DOMAIN s => p.h.op = x.op /\ At(p.h, s, k + 1)
    BY <1>1, <1>4, <1>5, <1>7, <1>8 DEF At
<1> QED
    BY <1>3, <1>4, <1>8, <1>9 DEF p, Goes

LEMMA HandlerEntry ==
    ASSUME ListsTyped, NEW x, Lister(x), NEW op \in Listing, x.op = op,
           NEW s, s = Listed(op), NEW k, At(x, s, k)
    PROVE  Goes(HandlerNext(x), op, s, k)
<1>0. /\ x.err = 0 /\ (x.op = "LSTC" => x \in ChannelLister)
      /\ x.op \in {"LSTT", "LSTR"} => x \in IndexLister
      /\ s \in Seq(Nat) /\ Distinct(s)
    BY ListerIs, ListedIs
<1>1. CASE op = "LSTC"
  <2>1. HandlerNext(x) = LSTCNext(x) /\ s = channels
    BY <1>0, <1>1 DEF HandlerNext, Listed
  <2> QED
    BY <1>0, <1>1, <2>1, ChannelEntry
<1>2. CASE op = "LSTT"
  <2>1. HandlerNext(x) = IndexNext(x, s)
    BY <1>0, <1>2 DEF HandlerNext, LSTTNext, Listed
  <2> QED
    BY <1>0, <1>2, <2>1, IndexEntry
<1>3. CASE op = "LSTR"
  <2>1. HandlerNext(x) = IndexNext(x, s)
    BY <1>0, <1>3 DEF HandlerNext, Listed
  <2> QED
    BY <1>0, <1>3, <2>1, IndexEntry
<1> QED
    BY <1>1, <1>2, <1>3 DEF Listing

LEMMA MidwayNext ==
    ASSUME UNCHANGED <<channels, timers, recordings>>,
           NEW op \in Listing, req'.op = op, NEW s, s = Listed(op),
           busy' => /\ req'.nr = 0 /\ h'.op = op
                    /\ At(h', s, Len(said') + 1) /\ Entries(said', s)
    PROVE  Midway'
<1>1. CASE op = "LSTC"
    BY <1>1 DEF Midway, Listed, At, Entries, Listing
<1>2. CASE op = "LSTT"
    BY <1>2 DEF Midway, Listed, At, Entries, Listing, TimerIds
<1>3. CASE op = "LSTR"
    BY <1>3 DEF Midway, Listed, At, Entries, Listing
<1> QED
    BY <1>1, <1>2, <1>3 DEF Listing

LEMMA ExactNext ==
    ASSUME UNCHANGED <<channels, timers, recordings>>,
           NEW op \in Listing, req'.op = op, NEW s, s = Listed(op),
           ~ busy' =>
             \/ Len(said') = 1 /\ said'[1].code > 500
             \/ [i \in DOMAIN said' |-> said'[i].what] =
                  IF req'.nr = 0 THEN Numbered(s) ELSE <<Numbered(s)[req'.nr]>>
    PROVE  EntriesExact'
<1>1. CASE op = "LSTC"
    BY ZenonT(40),
       <1>1 DEF EntriesExact, Undisturbed, Failure, ListExact, What, Numbered,
                Listed
<1>2. CASE op = "LSTT"
    BY <1>2 DEF EntriesExact, Undisturbed, Failure, ListExact, What, Numbered,
                Listed, TimerIds
<1>3. CASE op = "LSTR"
    BY <1>3 DEF EntriesExact, Undisturbed, Failure, ListExact, What, Numbered,
                Listed
<1> QED
    BY <1>1, <1>2, <1>3 DEF Listing

LEMMA LastEntry ==
    ASSUME NEW S, NEW s \in Seq(S), NEW k \in DOMAIN s, k + 1 \notin DOMAIN s
    PROVE  DOMAIN s = 1 .. k
<1>1. Len(s) \in Nat /\ k \in 1 .. Len(s) /\ k + 1 \notin 1 .. Len(s)
    OBVIOUS
<1>2. Len(s) = k
    BY <1>1
<1> QED
    BY <1>2

(* One more entry of a list that is told from its start.                   *)
LEMMA ExactPost ==
    ASSUME ListsTyped, UNCHANGED <<channels, timers, recordings>>,
           NEW op \in Listing, req'.op = op, req'.nr = 0,
           NEW s, s = Listed(op), NEW r, IsSequence(r), Entries(r, s),
           NEW x, Lister(x), x.op = op, At(x, s, Len(r) + 1), Post(x, r)
    PROVE  ExactInv'
<1> DEFINE n == HandlerNext(x)
           k == Len(r) + 1
<1>0. said' = Append(r, n.line) /\ busy' = n.line.more
      /\ h' = IF n.last THEN None ELSE n.h
    BY DEF Post
<1>1. /\ n.line.what = <<"", k, s[k]>>
      /\ n.line.more <=> k + 1 \in DOMAIN s
      /\ n.last <=> k + 1 \notin DOMAIN s
      /\ k + 1 \in DOMAIN s => n.h.op = op /\ At(n.h, s, k + 1)
  <2> HIDE DEF n, k
  <2>1. Goes(n, op, s, k)
    BY HandlerEntry DEF n, k
  <2> QED
    BY <2>1 DEF Goes
<1> HIDE DEF n
<1>2. /\ k = Len(r) + 1 /\ Len(r) \in Nat /\ DOMAIN r = 1 .. Len(r)
      /\ DOMAIN said' = 1 .. Len(r) + 1
      /\ \A i \in 1 .. Len(r) : said'[i] = r[i]
      /\ said'[Len(r) + 1] = n.line /\ Len(said') = Len(r) + 1
    BY <1>0, AppendIs
<1>3. Entries(said', s)
  <2> SUFFICES ASSUME NEW i \in DOMAIN said'
               PROVE  said'[i].what = <<"", i, s[i]>>
    BY DEF Entries
  <2>1. CASE i \in DOMAIN r
    BY <1>2, <2>1 DEF Entries
  <2>2. CASE i = Len(r) + 1
    BY <1>1, <1>2, <2>2
  <2>3. i \in DOMAIN r \/ i = Len(r) + 1
    BY <1>2
  <2> QED
    BY <2>1, <2>2, <2>3
<1>4. Midway'
  <2>1. busy' => h'.op = op /\ At(h', s, Len(said') + 1)
    BY <1>0, <1>1, <1>2
  <2> QED
    BY <1>3, <2>1, MidwayNext
<1>5. EntriesExact'
  <2>1. ASSUME ~ busy' PROVE DOMAIN said' = DOMAIN s
    <3>1. k + 1 \notin DOMAIN s /\ k \in DOMAIN s /\ k = Len(r) + 1
        BY <1>0, <1>1, <2>1 DEF At
    <3>2. s \in Seq(Nat)
        BY ListedIs
    <3> HIDE DEF k
    <3>3. DOMAIN s = 1 .. k
        BY <3>1, <3>2, LastEntry
    <3> QED
        BY <1>2, <3>1, <3>3
  <2>2. ASSUME ~ busy'
        PROVE  [i \in DOMAIN said' |-> said'[i].what] = Numbered(s)
    BY <1>3, <2>1, <2>2 DEF Numbered, Entries
  <2> QED
    BY <2>2, ExactNext
<1> QED
    BY <1>4, <1>5 DEF ExactInv

(* The only entry asked for.                                               *)
LEMMA ExactOne ==
    ASSUME ListsTyped, UNCHANGED <<channels, timers, recordings>>,
           NEW op \in Listing, req'.op = op,
           NEW s, s = Listed(op), req'.nr # 0, req'.nr \in DOMAIN s,
           NEW x, Lister(x), x.op = op, ~ x.traverse, x.held = s[req'.nr],
           Post(x, <<>>)
    PROVE  ExactInv'
<1> DEFINE n == HandlerNext(x)
           nr == req'.nr
           w == <<"", nr, s[nr]>>
<1>1. said' = Append(<<>>, n.line) /\ busy' = n.line.more
    BY DEF Post
<1>2. /\ x.err = 0 /\ (x.op = "LSTC" => x \in ChannelLister)
      /\ x.op \in {"LSTT", "LSTR"} => x \in IndexLister
      /\ s \in Seq(Nat) /\ Distinct(s)
    BY ListerIs, ListedIs
<1>3. Pos(s, x.held) = nr
    BY <1>2, NumberOf
<1>4. n.line.what = w /\ ~ n.line.more
  <2>1. CASE op = "LSTC"
    <3>1. n = LSTCNext(x) /\ s = channels
        BY <1>2, <2>1 DEF HandlerNext, Listed
    <3>2. n = Step(Line(250, w, FALSE), x, TRUE)
        BY ZenonT(40), <1>3, <3>1 DEF LSTCNext
    <3> HIDE DEF n, w
    <3> QED
        BY <3>2 DEF Step, Line
  <2>2. CASE op # "LSTC"
    <3>1. n = IndexNext(x, s)
        BY <1>2, <2>2 DEF HandlerNext, LSTTNext, Listed, Listing
    <3>2. n = Step(Line(250, w, FALSE), x, TRUE)
        BY ZenonT(40), <1>3, <3>1 DEF IndexNext
    <3> HIDE DEF n, w
    <3> QED
        BY <3>2 DEF Step, Line
  <2> QED
    BY <2>1, <2>2
<1> HIDE DEF n
<1>5. DOMAIN said' = {1} /\ said'[1].what = w
  <2> HIDE DEF w
  <2>1. said' = <<n.line>>
    BY <1>1
  <2> QED
    BY <1>4, <2>1
<1>6. Midway'
    BY <1>1, <1>4, MidwayNext
<1>7. Numbered(s)[nr] = w
    BY DEF Numbered
<1>8. [i \in DOMAIN said' |-> said'[i].what] = <<w>>
  <2> HIDE DEF w
  <2> QED
    BY <1>5
<1>9. EntriesExact'
  <2> HIDE DEF w
  <2>1. [i \in DOMAIN said' |-> said'[i].what] =
          IF req'.nr = 0 THEN Numbered(s) ELSE <<Numbered(s)[req'.nr]>>
    BY <1>7, <1>8
  <2> QED
    BY <2>1, ExactNext
<1> QED
    BY <1>6, <1>9 DEF ExactInv

LEMMA ExactFailed ==
    ASSUME UNCHANGED <<channels, timers, recordings>>,
           NEW op \in Listing, req'.op = op,
           NEW x, x.err \in {501, 550}, Post(x, <<>>)
    PROVE  ExactInv'
<1> DEFINE n == HandlerNext(x)
<1>1. said' = Append(<<>>, n.line) /\ busy' = n.line.more
    BY DEF Post
<1>0. x.err # 0
    OBVIOUS
<1>2. n = Step(Line(x.err, NoText, FALSE), x, TRUE)
    BY <1>0 DEF HandlerNext
<1>3. n.line.code = x.err /\ ~ n.line.more
    BY <1>2 DEF Step, Line
<1> HIDE DEF n
<1>4. Len(said') = 1 /\ said'[1].code > 500
    BY <1>1, <1>3
<1> QED
    BY ZenonT(40), <1>1, <1>3, <1>4, MidwayNext, ExactNext DEF ExactInv

LEMMA AskTells ==
    ASSUME NEW op, NEW a, Ask(op, a)
    PROVE  /\ "nr" \in DOMAIN a => req'.nr = a.nr
           /\ "text" \in DOMAIN a => req'.text = a.text
<1>1. req' = Request(op, a)
    BY DEF Ask
<1>2. "nr" \in DOMAIN NoRequest /\ "text" \in DOMAIN NoRequest
    BY DEF NoRequest
<1>3. "nr" \in DOMAIN a => Request(op, a).nr = a.nr
    BY <1>2 DEF Request
<1>4. "text" \in DOMAIN a => Request(op, a).text = a.text
    BY <1>2 DEF Request
<1> QED
    BY <1>1, <1>3, <1>4

(* The handler that is made tells s, or its n-th entry.                    *)
BeginsAt(x, s, n) ==
    IF n = 0 THEN At(x, s, 1)
    ELSE ~ x.traverse /\ n \in DOMAIN s /\ x.held = s[n]

LEMMA ExactList ==
    ASSUME Kept, NEW op \in Listing, NEW a, NEW x, List(op, a, x), x.op = op,
           "nr" \in DOMAIN a,
           x.err \in {501, 550} \/ (Lister(x) /\ BeginsAt(x, Listed(op), a.nr))
    PROVE  ExactInv'
<1> DEFINE s == Listed(op)
           r == <<>>
<1>0. /\ Post(x, r) /\ Ask(op, a)
      /\ UNCHANGED <<channels, timers, recordings>>
    BY DEF List, vdrVars
<1>1. req'.op = op /\ req'.nr = a.nr
    BY <1>0, AskIs, AskTells
<1>2. CASE x.err \in {501, 550}
    BY <1>0, <1>1, <1>2, ExactFailed
<1>3. CASE Lister(x) /\ BeginsAt(x, s, a.nr)
  <2>1. CASE a.nr = 0
    <3>1. IsSequence(r) /\ Entries(r, s) /\ Len(r) + 1 = 1
      <4>1. r \in Seq({})
        OBVIOUS
      <4> QED
        BY <4>1 DEF IsSequence, Entries
    <3>2. At(x, s, 1)
        BY <1>3, <2>1 DEF BeginsAt
    <3> HIDE DEF s, r
    <3>3. At(x, s, Len(r) + 1)
        BY <3>1, <3>2
    <3> QED
        BY <1>0, <1>1, <1>3, <2>1, <3>1, <3>3, ExactPost DEF Kept, s
  <2>2. CASE a.nr # 0
    <3>1. ~ x.traverse /\ req'.nr \in DOMAIN s /\ x.held = s[req'.nr]
        BY <1>1, <1>3, <2>2 DEF BeginsAt
    <3> QED
        BY <1>0, <1>1, <1>3, <2>2, <3>1, ExactOne DEF Kept
  <2> QED
    BY <2>1, <2>2
<1> QED
    BY <1>2, <1>3

(* The handlers that are made of a command.                                *)
LEMMA ChannelStarts ==
    ASSUME ListsTyped, NEW a, a.nr \in Nat, a.text \in BOOLEAN, ~ a.text
    PROVE  LET x == LSTCHandler(a) IN
           /\ x.op = "LSTC"
           /\ x.err \in {501, 550} \/ (Lister(x) /\ BeginsAt(x, channels, a.nr))
<1> DEFINE x == LSTCHandler(a)
           c == IF a.nr # 0
                  THEN IF a.nr \in DOMAIN channels THEN channels[a.nr] ELSE 0
                  ELSE ChannelFrom(1, a.text)
           n == IF a.nr # 0 THEN a.nr ELSE 1
           y == [op |-> "LSTC", err |-> 0, held |-> c, text |-> a.text,
                 traverse |-> a.nr = 0]
<1>1. c = IF n \in DOMAIN channels THEN channels[n] ELSE 0
  <2>1. 1 \in Nat \ {0}
    OBVIOUS
  <2> DEFINE one == 1
  <2> HIDE DEF one
  <2>2. ChannelFrom(one, a.text) =
          IF one \in DOMAIN channels THEN channels[one] ELSE 0
    BY <2>1, ChannelNumbered DEF one
  <2> QED
    BY <2>2 DEF one
<1>2. x = IF c = 0
            THEN Failed("LSTC", IF a.nr # 0 \/ a.text THEN 501 ELSE 550) ELSE y
    BY DEF LSTCHandler
<1>3. y.op = "LSTC" /\ y.held = c /\ y.text = a.text /\ y.traverse = (a.nr = 0)
    OBVIOUS
<1>4. x.op = "LSTC" /\ (x.err # 0 \/ Lister(x))
    BY LSTCMade
<1>5. \A i \in DOMAIN channels : channels[i] # 0
    BY VTPListsAssumption DEF ListsTyped
<1>6. y.err = 0
    OBVIOUS
<1> HIDE DEF x, c, y
<1>7. CASE c = 0
  <2>1. x.err \in {501, 550}
    BY <1>2, <1>7 DEF Failed
  <2> QED
    BY <1>4, <2>1 DEF x
<1>8. CASE c # 0
  <2>1. n \in DOMAIN channels /\ c = channels[n] /\ x = y
    BY <1>1, <1>2, <1>8
  <2>2. BeginsAt(x, channels, a.nr)
    BY <1>3, <2>1 DEF BeginsAt, At
  <2> QED
    BY <1>4, <1>6, <2>1, <2>2 DEF x
<1> QED
    BY <1>7, <1>8

LEMMA IndexStarts ==
    ASSUME NEW op \in {"LSTT", "LSTR"}, NEW a, NEW s \in Seq(Nat), a.nr \in Nat,
           op = "LSTT" => s = TimerIds
    PROVE  LET x == IndexHandler(op, a, s) IN
           /\ x.op = op
           /\ x.err \in {501, 550} \/ (Lister(x) /\ BeginsAt(x, s, a.nr))
<1> DEFINE x == IndexHandler(op, a, s)
           n == IF a.nr = 0 THEN 1 ELSE a.nr
           y == [op |-> op, err |-> 0, held |-> s[n], idx |-> 1,
                 traverse |-> a.nr = 0]
<1>0. x.op = op /\ (x.err # 0 \/ Lister(x))
    BY IndexMade
<1>1. CASE a.bad \/ (a.nr # 0 /\ a.nr \notin DOMAIN s)
    BY <1>1 DEF IndexHandler, Failed
<1>2. CASE ~(a.bad \/ (a.nr # 0 /\ a.nr \notin DOMAIN s)) /\ a.nr = 0 /\ s = <<>>
    BY <1>2 DEF IndexHandler, Failed
<1>3. CASE ~(a.bad \/ (a.nr # 0 /\ a.nr \notin DOMAIN s)) /\ ~(a.nr = 0 /\ s = <<>>)
  <2>1. x = y
    BY <1>3 DEF IndexHandler
  <2>2. n \in DOMAIN s
    <3>1. CASE a.nr = 0
      <4>1. s # <<>> /\ Len(s) \in Nat
        BY <1>3, <3>1
      <4>2. 1 \in DOMAIN s
        BY <4>1
      <4> QED
        BY <3>1, <4>2
    <3>2. CASE a.nr # 0
        BY <1>3, <3>2
    <3> QED
        BY <3>1, <3>2
  <2>3. /\ y.op = op /\ y.err = 0 /\ y.held = s[n] /\ y.idx = 1
        /\ y.traverse = (a.nr = 0)
    OBVIOUS
  <2> HIDE DEF x, y
  <2>4. BeginsAt(x, s, a.nr)
    BY <2>1, <2>2, <2>3 DEF BeginsAt, At
  <2> QED
    BY <1>0, <2>1, <2>3, <2>4 DEF x
<1> QED
    BY <1>1, <1>2, <1>3

LEMMA ExactOther == ASSUME req'.op \notin Listing PROVE ExactInv'
BY DEF ExactInv, EntriesExact, Midway, Listing

LEMMA ExactLSTC == ASSUME Kept, LSTC PROVE ExactInv'
<1>1. PICK a : /\ List("LSTC", a, LSTCHandler(a))
               /\ \/ a \in [nr : DOMAIN channels \cup {Len(channels) + 1},
                            text : {FALSE}]
                  \/ a \in [nr : {0}, text : BOOLEAN]
    BY DEF LSTC
<1>2. /\ a.nr \in Nat /\ a.text \in BOOLEAN
      /\ "nr" \in DOMAIN a /\ "text" \in DOMAIN a
  <2>1. Len(channels) + 1 \in Nat /\ DOMAIN channels \subseteq Nat
    BY KeptIs
  <2>2. CASE a \in [nr : DOMAIN channels \cup {Len(channels) + 1}, text : {FALSE}]
    BY <2>1, <2>2
  <2>3. CASE a \in [nr : {0}, text : BOOLEAN]
    BY <2>3
  <2> QED
    BY <1>1, <2>2, <2>3
<1> DEFINE x == LSTCHandler(a)
<1>3. CASE a.text
  <2>1. Ask("LSTC", a)
    BY <1>1 DEF List
  <2>2. req'.op = "LSTC" /\ req'.text
    BY <1>2, <1>3, <2>1, AskIs, AskTells
  <2> QED
    BY <2>2 DEF ExactInv, EntriesExact, Midway
<1>4. CASE ~ a.text
  <2>1. /\ x.op = "LSTC"
        /\ x.err \in {501, 550} \/ (Lister(x) /\ BeginsAt(x, channels, a.nr))
    BY <1>2, <1>4, ChannelStarts DEF Kept
  <2> HIDE DEF x
  <2> DEFINE op == "LSTC"
  <2>2. op \in Listing /\ Listed(op) = channels
    BY DEF Listing, Listed
  <2>3. List(op, a, x) /\ x.op = op
    BY <1>1, <2>1 DEF x
  <2> HIDE DEF op
  <2> QED
    BY <1>2, <2>1, <2>2, <2>3, ExactList
<1> QED
    BY <1>2, <1>3, <1>4

LEMMA ExactLSTT == ASSUME Kept, LSTT PROVE ExactInv'
<1>1. PICK a \in Indices(timers) : List("LSTT", a, LSTTHandler(a))
    BY DEF LSTT
<1>2. a.nr \in Nat /\ "nr" \in DOMAIN a
    BY KeptIs, IndexIs DEF Indices
<1>3. TimerIds \in Seq(Nat)
    BY TimerIdsAre DEF Kept
<1> DEFINE op == "LSTT"
           x == IndexHandler(op, a, TimerIds)
<1>4. op \in Listing /\ Listed(op) = TimerIds /\ op \in {"LSTT", "LSTR"}
    BY DEF Listing, Listed
<1>5. List(op, a, x)
    BY <1>1 DEF LSTTHandler
<1> HIDE DEF op
<1>6. /\ x.op = op
      /\ x.err \in {501, 550} \/ (Lister(x) /\ BeginsAt(x, TimerIds, a.nr))
    BY <1>2, <1>3, <1>4, IndexStarts
<1> HIDE DEF x
<1> QED
    BY <1>2, <1>4, <1>5, <1>6, ExactList

LEMMA ExactLSTR == ASSUME Kept, LSTR PROVE ExactInv'
<1>1. PICK a \in Indices(recordings) :
        /\ a.nr # 0 => a.nr \in DOMAIN recordings
        /\ List("LSTR", a, LSTRHandler(a))
    BY DEF LSTR
<1>2. a.nr \in Nat /\ "nr" \in DOMAIN a
    BY KeptIs, IndexIs DEF Indices
<1>3. recordings \in Seq(Nat)
    BY RecordingsAre DEF Kept
<1>4. CASE a.nr # 0
  <2>1. Ask("LSTR", a)
    BY <1>1 DEF List
  <2>2. req'.op = "LSTR" /\ req'.nr # 0
    BY <1>2, <1>4, <2>1, AskIs, AskTells
  <2> QED
    BY <2>2 DEF ExactInv, EntriesExact, Midway
<1>5. CASE a.nr = 0
  <2> DEFINE op == "LSTR"
             x == IndexHandler(op, a, recordings)
  <2>1. op \in Listing /\ Listed(op) = recordings /\ op \in {"LSTT", "LSTR"}
        /\ op # "LSTT"
    BY DEF Listing, Listed
  <2>2. List(op, a, x)
    BY <1>1, <1>5 DEF LSTRHandler
  <2> HIDE DEF op
  <2>3. /\ x.op = op
        /\ x.err \in {501, 550} \/ (Lister(x) /\ BeginsAt(x, recordings, a.nr))
    BY <1>2, <1>3, <2>1, IndexStarts
  <2> HIDE DEF x
  <2> QED
    BY <1>2, <2>1, <2>2, <2>3, ExactList
<1> QED
    BY <1>4, <1>5

LEMMA ExactCycle == ASSUME Kept, Told, ExactInv, Cycle PROVE ExactInv'
<1>0. /\ busy /\ Post(h, said)
      /\ UNCHANGED <<channels, timers, recordings>>
      /\ req' = req /\ changed' = changed
    BY DEF Cycle, vdrVars
<1>1. IsSequence(said) /\ Lister(h)
    BY <1>0 DEF Told, Answering
<1> DEFINE Whole == /\ changed = {} /\ req.op \in Listing
                    /\ req.op = "LSTC" => ~ req.text
                    /\ req.op = "LSTR" => req.nr = 0
<1>2. CASE ~ Whole
    BY <1>0, <1>2 DEF ExactInv, EntriesExact, Undisturbed, Midway, Listing
<1>3. CASE Whole
  <2>1. /\ req.nr = 0 /\ h.op = req.op /\ req.op \in Listing
        /\ At(h, Listed(req.op), Len(said) + 1)
        /\ Entries(said, Listed(req.op))
    BY <1>0, <1>3 DEF ExactInv, Midway
  <2>2. req'.nr = 0 /\ req'.op = req.op
    BY <1>0, <2>1
  <2> QED
    BY <1>0, <1>1, <2>1, <2>2, ExactPost DEF Kept
<1> QED
    BY <1>2, <1>3

LEMMA ExactSame ==
    ASSUME ExactInv,
           UNCHANGED <<req, busy, h, said, changed, channels, timers, recordings>>,
           conn' = conn \/ conn' # "open"
    PROVE  ExactInv'
<1>1. TimerIds' = TimerIds
    BY DEF TimerIds
<1>2. Midway'
    BY <1>1 DEF ExactInv, Midway, Listed, At, Entries
<1>3. EntriesExact'
    BY ZenonT(40),
       <1>1 DEF ExactInv, EntriesExact, Undisturbed, Failure, ListExact, What,
                Numbered
<1> QED
    BY <1>2, <1>3 DEF ExactInv

LEMMA ExactStep ==
    ASSUME Kept, Told, Parsing, ExactInv, [ListsNext]_listsVars
    PROVE  ExactInv'
<1>1. CASE LSTC \/ LSTT \/ LSTR
    BY <1>1, ExactLSTC, ExactLSTT, ExactLSTR
<1>2. CASE Cycle
    BY <1>2, ExactCycle
<1>3. CASE LSTE
  <2>1. PICK a, x : List("LSTE", a, x)
    BY <1>3 DEF LSTE
  <2>2. req'.op = "LSTE"
    BY <2>1, AskIs DEF List
  <2> QED
    BY <2>2, ExactOther DEF Listing
<1>4. CASE LSTRUnknown
  <2>1. busy = FALSE
    BY <1>4, AskIs DEF LSTRUnknown, Told, Answering
  <2>2. ~ busy' /\ conn' # "open"
    BY <1>4, <2>1 DEF LSTRUnknown
  <2> QED
    BY <2>2 DEF ExactInv, EntriesExact, Undisturbed, Midway
<1>5. CASE \/ STAT \/ STATRecords \/ MODT \/ NEWT \/ DELT \/ NEXT
           \/ NEWC \/ MODC \/ MOVC \/ DELC \/ DELCInUse \/ DELR \/ RENR
           \/ Unknown \/ NEWTAdds
    BY <1>5, EditsAsk, ExactOther DEF Listing
<1>6. CASE \/ TimerEdits \/ ChannelEdits \/ RecordingStarts
           \/ RecordingStops \/ RecordingEdits \/ EventExpires
  <2>1. PICK c : Change(c)
    BY <1>6 DEF TimerEdits, ChannelEdits, RecordingStarts, RecordingStops,
                RecordingEdits, EventExpires
  <2>2. changed' # {}
    BY <2>1 DEF Change
  <2> QED
    BY <2>2 DEF ExactInv, EntriesExact, Undisturbed, Midway
<1>7. CASE Violation \/ StaleUse
  <2>1. /\ UNCHANGED <<req, busy, h, said, changed, channels, timers,
                       recordings>>
        /\ conn' # "open"
    BY <1>7 DEF Violation, StaleUse, vdrVars
  <2> QED
    BY <2>1, ExactSame
<1>8. CASE Ended \/ Rests \/ UNCHANGED listsVars
  <2>1. /\ UNCHANGED <<req, busy, h, said, changed, channels, timers,
                       recordings>>
        /\ conn' = conn
    BY <1>8 DEF Ended, Rests, listsVars, cmdVars, vdrVars
  <2> QED
    BY <2>1, ExactSame
<1> QED
    BY <1>1, <1>2, <1>3, <1>4, <1>5, <1>6, <1>7, <1>8 DEF ListsNext

LEMMA ExactStays ==
    ASSUME ListsInv, ExactInv, [ListsNext]_listsVars PROVE ExactInv'
<1>1. CASE conn = "open"
    BY <1>1, InvIs, ExactStep
<1>2. CASE conn # "open"
  <2>1. UNCHANGED listsVars
    BY <1>2, Stopped
  <2>2. UNCHANGED <<req, busy, h, said, changed, conn>> /\ UNCHANGED vdrVars
    BY <2>1 DEF listsVars, cmdVars
  <2> QED
    BY <2>2, ExactSame DEF vdrVars
<1> QED
    BY <1>1, <1>2

LEMMA ExactStart == ListsInit => ExactInv
<1> SUFFICES ASSUME ListsInit PROVE ExactInv
    OBVIOUS
<1>1. req = NoRequest /\ busy = FALSE
    BY DEF ListsInit
<1>2. req.op = "none"
    BY <1>1 DEF NoRequest
<1> QED
    BY <1>2 DEF ExactInv, EntriesExact, Midway, Listing

(* A list of channels, timers or recordings that VDR leaves alone is told  *)
(* as it is: every entry once, in its place and with its number, or the    *)
(* one asked for, however many cycles of the server the answer takes       *)
(* (cLSTCHandler, cLSTTHandler and cLSTRHandler, connectionVTP.c).         *)
THEOREM EntriesAreExact == ListsSpec => []EntriesExact
<1>1. ListsInit => ListsInv /\ ExactInv
    BY ListsStart, ExactStart
<1>2. ListsInv /\ ExactInv /\ [ListsNext]_listsVars => (ListsInv /\ ExactInv)'
    BY ListsStep, ExactStays
<1>3. ExactInv => EntriesExact
    BY DEF ExactInv
<1> QED
    BY <1>1, <1>2, <1>3, PTL DEF ListsSpec

-----------------------------------------------------------------------------
(* Selections: the entries of a sequence at some of its places.            *)

LEMMA EnumerationsAgree ==
    ASSUME NEW s \in Seq(Nat), NEW t \in Seq(Nat), Increasing(s), Increasing(t),
           SeqToSet(s) = SeqToSet(t)
    PROVE  \A i \in DOMAIN s : i \in DOMAIN t /\ s[i] = t[i]
<1> DEFINE B == {i \in DOMAIN s : ~(i \in DOMAIN t /\ s[i] = t[i])}
<1> SUFFICES ASSUME B # {} PROVE FALSE
    OBVIOUS
<1>0. /\ DOMAIN s = 1 .. Len(s) /\ Len(s) \in Nat
      /\ DOMAIN t = 1 .. Len(t) /\ Len(t) \in Nat
      /\ \A k \in DOMAIN s : s[k] \in Nat
      /\ \A k \in DOMAIN t : t[k] \in Nat
    OBVIOUS
<1>1. PICK i \in B : \A j \in B : i <= j
  <2>1. B \subseteq Nat
    BY <1>0
  <2> QED
    BY <2>1, HasLeast
<1>2. i \in DOMAIN s /\ ~(i \in DOMAIN t /\ s[i] = t[i])
    BY <1>1
<1>3. \A j \in DOMAIN s : j < i => j \in DOMAIN t /\ s[j] = t[j]
  <2> TAKE j \in DOMAIN s
  <2>1. j \in B => i <= j
    BY <1>1
  <2> QED
    BY <1>0, <1>2, <2>1
<1> HIDE DEF B
<1>4. PICK j \in DOMAIN t : t[j] = s[i]
    BY <1>2 DEF SeqToSet
<1>5. ~(j < i)
  <2> SUFFICES ASSUME j < i PROVE FALSE
    OBVIOUS
  <2>1. j \in DOMAIN s
    BY <1>0, <1>2
  <2>2. s[j] = s[i] /\ s[j] < s[i]
    BY <1>2, <1>3, <1>4, <2>1 DEF Increasing
  <2> QED
    BY <1>0, <1>2, <2>1, <2>2
<1>6. i \in DOMAIN t /\ i < j
    BY <1>0, <1>2, <1>4, <1>5
<1>7. t[i] < s[i]
    BY <1>4, <1>6 DEF Increasing
<1>8. PICK k \in DOMAIN s : s[k] = t[i]
    BY <1>6 DEF SeqToSet
<1>9. k < i
  <2> SUFFICES ASSUME ~(k < i) PROVE FALSE
    OBVIOUS
  <2>1. i < k \/ i = k
    BY <1>0, <1>2
  <2>2. s[i] <= s[k]
    BY <1>0, <1>2, <2>1 DEF Increasing
  <2> QED
    BY <1>0, <1>2, <1>6, <1>7, <1>8, <2>2
<1>10. t[k] = t[i] /\ k \in DOMAIN t
    BY <1>3, <1>8, <1>9
<1>11. t[k] < t[i]
    BY <1>6, <1>9, <1>10 DEF Increasing
<1> QED
    BY <1>0, <1>6, <1>10, <1>11

LEMMA SortedUnique ==
    ASSUME NEW s \in Seq(Nat), Increasing(s), NEW T, IsFiniteSet(T),
           SeqToSet(s) = T
    PROVE  s = Sorted(T)
<1> DEFINE t == Sorted(T)
<1>1. T \subseteq Nat
    BY SeqToSetIn
<1>2. t \in Seq(T) /\ Increasing(t) /\ SeqToSet(t) = T
    BY <1>1, SortedIs
<1> HIDE DEF t
<1>3. t \in Seq(Nat)
    BY <1>1, <1>2, SeqMonotonic
<1>4. \A i \in DOMAIN s : i \in DOMAIN t /\ s[i] = t[i]
    BY <1>2, <1>3, EnumerationsAgree
<1>5. \A i \in DOMAIN t : i \in DOMAIN s /\ s[i] = t[i]
    BY <1>2, <1>3, EnumerationsAgree
<1> QED
    BY <1>3, <1>4, <1>5 DEF t

LEMMA SelectedIs ==
    ASSUME NEW S, NEW s \in Seq(S), NEW T \in SUBSET DOMAIN s
    PROVE  /\ Selected(s, T) \in Seq(S) /\ IsFiniteSet(T) /\ T \subseteq Nat
           /\ \A k \in DOMAIN Selected(s, T) : \E i \in T :
                Selected(s, T)[k] = s[i]
<1>1. DOMAIN s = 1 .. Len(s) /\ Len(s) \in Nat
    OBVIOUS
<1>2. IsFiniteSet(T) /\ T \subseteq Nat
  <2>1. IsFiniteSet(1 .. Len(s))
    BY <1>1, FS_Interval
  <2> QED
    BY <1>1, <2>1, FS_Subset
<1> DEFINE o == Sorted(T)
<1>3. o \in Seq(T)
    BY <1>2, SortedIs
<1> HIDE DEF o
<1>4. \A k \in DOMAIN o : o[k] \in T /\ s[o[k]] \in S
    BY <1>3
<1>5. [k \in DOMAIN o |-> s[o[k]]] \in Seq(S)
    BY <1>3, <1>4
<1> QED
    BY <1>2, <1>4, <1>5 DEF Selected, o

LEMMA SelectedNone == ASSUME NEW s PROVE Selected(s, {}) = <<>>
<1>1. Len(Sorted({})) = 0 /\ Sorted({}) \in Seq({})
    BY SortedIs, FS_EmptySet
<1> DEFINE o == Sorted({})
<1> HIDE DEF o
<1>2. o = <<>>
    BY <1>1 DEF o
<1>3. [k \in DOMAIN o |-> s[o[k]]] = <<>>
    BY <1>2
<1> QED
    BY <1>3 DEF Selected, o

(* One more, behind those selected so far.                                 *)
LEMMA SelectedAdd ==
    ASSUME NEW S, NEW s \in Seq(S), NEW T \in SUBSET DOMAIN s,
           NEW m \in DOMAIN s, \A x \in T : x < m
    PROVE  Selected(s, T \cup {m}) = Append(Selected(s, T), s[m])
<1>1. IsFiniteSet(T) /\ T \subseteq Nat /\ m \in Nat
    BY SelectedIs
<1> DEFINE o == Sorted(T)
           p == Append(o, m)
<1>2. o \in Seq(T) /\ Increasing(o) /\ SeqToSet(o) = T
    BY <1>1, SortedIs
<1> HIDE DEF o
<1>3. o \in Seq(Nat) /\ Len(o) \in Nat /\ DOMAIN o = 1 .. Len(o)
    BY <1>1, <1>2, SeqMonotonic
<1>4. /\ p \in Seq(Nat) /\ DOMAIN p = 1 .. Len(o) + 1
      /\ \A i \in 1 .. Len(o) : p[i] = o[i] /\ o[i] \in T
      /\ p[Len(o) + 1] = m
    BY <1>1, <1>2, <1>3
<1> HIDE DEF p
<1>5. Increasing(p)
  <2> SUFFICES ASSUME NEW i \in DOMAIN p, NEW j \in DOMAIN p, i < j
               PROVE  p[i] < p[j]
    BY DEF Increasing
  <2>0. i \in 1 .. Len(o) /\ p[i] = o[i] /\ o[i] \in T
    BY <1>3, <1>4
  <2>1. CASE j = Len(o) + 1
    BY <1>4, <2>0, <2>1
  <2>2. CASE j # Len(o) + 1
    <3>1. j \in 1 .. Len(o)
        BY <1>3, <1>4, <2>2
    <3>2. p[j] = o[j] /\ o[i] < o[j]
        BY <1>2, <1>3, <1>4, <2>0, <3>1 DEF Increasing
    <3> QED
        BY <2>0, <3>2
  <2> QED
    BY <2>1, <2>2
<1>6. SeqToSet(p) = T \cup {m}
  <2>1. SeqToSet(p) \subseteq T \cup {m}
    BY <1>3, <1>4 DEF SeqToSet
  <2>2. T \subseteq SeqToSet(p)
    <3> SUFFICES ASSUME NEW x \in T PROVE x \in SeqToSet(p)
        OBVIOUS
    <3>1. PICK i \in DOMAIN o : o[i] = x
        BY <1>2 DEF SeqToSet
    <3>2. i \in DOMAIN p /\ p[i] = x
        BY <1>3, <1>4, <3>1
    <3> QED
        BY <3>2 DEF SeqToSet
  <2>3. m \in SeqToSet(p)
    <3>1. Len(o) + 1 \in DOMAIN p
        BY <1>3, <1>4
    <3> QED
        BY <1>4, <3>1 DEF SeqToSet
  <2> QED
    BY <2>1, <2>2, <2>3
<1>7. IsFiniteSet(T \cup {m})
    BY <1>1, FS_AddElement
<1>8. p = Sorted(T \cup {m})
    BY <1>4, <1>5, <1>6, <1>7, SortedUnique
<1> DEFINE u == [k \in DOMAIN o |-> s[o[k]]]
           v == [k \in DOMAIN p |-> s[p[k]]]
<1>9. u \in Seq(S) /\ Len(u) = Len(o) /\ s[m] \in S
    BY <1>2, <1>3
<1>10. v = Append(u, s[m])
  <2>1. /\ DOMAIN v = 1 .. Len(o) + 1
        /\ \A i \in 1 .. Len(o) : v[i] = u[i]
        /\ v[Len(o) + 1] = s[m]
    BY <1>3, <1>4
  <2> HIDE DEF v
  <2>2. v \in Seq(S)
    <3>1. \A k \in DOMAIN p : s[p[k]] \in S
        BY <1>3, <1>4
    <3> QED
        BY <1>4, <3>1 DEF v
  <2> HIDE DEF u
  <2> QED
    BY <1>3, <1>9, <2>1, <2>2
<1> QED
    BY <1>8, <1>10 DEF Selected, o

-----------------------------------------------------------------------------
(* FlattenSeq: one sequence behind the other.                              *)

FlatTo(s, n, f) ==
    /\ f = [i \in 1 .. n |-> f[i]]
    /\ \A i \in 1 .. n : f[i] = IF i = 1 THEN s[1] ELSE f[i - 1] \o s[i]

SameTo(n, s, t) == \A i \in 1 .. n : s[i] = t[i]

LEMMA FlatExists ==
    ASSUME NEW s, NEW m \in Nat PROVE \E f : FlatTo(s, m, f)
<1> DEFINE P == {n \in Nat : \E f : FlatTo(s, n, f)}
<1>1. 0 \in P
  <2>1. FlatTo(s, 0, [i \in 1 .. 0 |-> 0])
    BY DEF FlatTo
  <2> QED
    BY <2>1
<1>2. ASSUME NEW n \in Nat, n \in P PROVE n + 1 \in P
  <2>1. PICK f : FlatTo(s, n, f)
    BY <1>2
  <2> DEFINE e == IF n = 0 THEN s[1] ELSE f[n] \o s[n + 1]
             g == [i \in 1 .. n + 1 |-> IF i = n + 1 THEN e ELSE f[i]]
  <2> HIDE DEF e
  <2>2. ASSUME NEW i \in 1 .. n + 1
        PROVE  g[i] = IF i = 1 THEN s[1] ELSE g[i - 1] \o s[i]
    <3>1. CASE i = n + 1
      <4>1. g[i] = e
        BY <3>1
      <4>2. CASE n = 0
        BY <3>1, <4>1, <4>2 DEF e
      <4>3. CASE n # 0
        <5>1. g[n] = f[n] /\ i # 1 /\ i - 1 = n
            BY <3>1, <4>3
        <5> QED
            BY <3>1, <4>1, <4>3, <5>1 DEF e
      <4> QED
        BY <4>2, <4>3
    <3>2. CASE i # n + 1
      <4>1. i \in 1 .. n /\ g[i] = f[i]
        BY <3>2
      <4>2. i # 1 => g[i - 1] = f[i - 1]
        BY <3>2
      <4> HIDE DEF g
      <4> QED
        BY <2>1, <4>1, <4>2 DEF FlatTo
    <3> QED
        BY <3>1, <3>2
  <2>3. g = [i \in 1 .. n + 1 |-> g[i]]
    OBVIOUS
  <2> HIDE DEF g
  <2>4. FlatTo(s, n + 1, g)
    BY <2>2, <2>3 DEF FlatTo
  <2> QED
    BY <2>4
<1> HIDE DEF P
<1>3. m \in P
    BY <1>1, <1>2, SetInduction
<1> QED
    BY <1>3 DEF P

LEMMA FlatUnique ==
    ASSUME NEW s, NEW t, NEW n \in Nat, SameTo(n, s, t),
           NEW m \in Nat, n <= m,
           NEW f, NEW g, FlatTo(s, n, f), FlatTo(t, m, g)
    PROVE  SameTo(n, f, g)
<1> DEFINE P == {i \in Nat : i \in 1 .. n => f[i] = g[i]}
<1>1. 0 \in P
    OBVIOUS
<1>2. ASSUME NEW i \in Nat, i \in P PROVE i + 1 \in P
  <2> SUFFICES ASSUME i + 1 \in 1 .. n PROVE f[i + 1] = g[i + 1]
    OBVIOUS
  <2> DEFINE j == i + 1
  <2>0. j \in 1 .. n /\ j \in 1 .. m /\ j - 1 = i
    OBVIOUS
  <2>1. s[j] = t[j] /\ (j = 1 => s[1] = t[1])
    BY <2>0 DEF SameTo
  <2>2. CASE j = 1
    BY <2>0, <2>1, <2>2 DEF FlatTo
  <2>3. CASE j # 1
    <3>1. f[i] = g[i]
        BY <1>2, <2>0, <2>3
    <3> HIDE DEF j
    <3>2. f[j] = f[j - 1] \o s[j] /\ g[j] = g[j - 1] \o t[j]
        BY <2>0, <2>3 DEF FlatTo
    <3> QED
        BY <2>0, <2>1, <3>1, <3>2 DEF j
  <2> QED
    BY <2>2, <2>3
<1> HIDE DEF P
<1>3. Nat \subseteq P
    BY <1>1, <1>2, SetInduction
<1> QED
    BY <1>3 DEF P, SameTo

LEMMA FlattenIs ==
    ASSUME NEW s, Len(s) \in Nat, Len(s) # 0, NEW f, FlatTo(s, Len(s), f)
    PROVE  FlattenSeq(s) = f[Len(s)]
<1> DEFINE n == Len(s)
           Flat(g) == [i \in 1 .. n |-> IF i = 1 THEN s[i] ELSE g[i - 1] \o s[i]]
           t == CHOOSE g : g = Flat(g)
<1>1. f = Flat(f)
  <2>1. f = [i \in 1 .. n |-> f[i]]
    BY DEF FlatTo
  <2> QED
    BY <2>1 DEF FlatTo
<1>2. t = Flat(t)
    BY <1>1, Zenon
<1>3. FlattenSeq(s) = t[n]
    BY DEF FlattenSeq
<1> HIDE DEF t
<1>4. FlatTo(s, n, t)
  <2>1. t = [i \in 1 .. n |-> t[i]]
    BY <1>2
  <2>2. \A i \in 1 .. n : t[i] = IF i = 1 THEN s[i] ELSE t[i - 1] \o s[i]
    BY <1>2
  <2> QED
    BY <2>1, <2>2 DEF FlatTo
<1>5. t[n] = f[n]
  <2>1. SameTo(n, s, s) /\ n \in Nat /\ n <= n /\ n \in 1 .. n
    BY DEF SameTo
  <2> HIDE DEF n
  <2>2. FlatTo(s, n, f)
    BY DEF n
  <2>3. SameTo(n, t, f)
    BY <1>4, <2>1, <2>2, FlatUnique
  <2> QED
    BY <2>1, <2>3 DEF SameTo
<1> QED
    BY <1>3, <1>5

LEMMA FlattenNone == FlattenSeq(<<>>) = <<>>
BY DEF FlattenSeq

LEMMA FlattenOne == ASSUME NEW e PROVE FlattenSeq(<<e>>) = e
<1> DEFINE s == <<e>>
<1>1. Len(s) = 1 /\ s[1] = e
    OBVIOUS
<1> HIDE DEF s
<1>2. PICK f : FlatTo(s, 1, f)
    BY FlatExists
<1>3. f[1] = e
    BY <1>1, <1>2 DEF FlatTo
<1>4. Len(s) \in Nat /\ Len(s) # 0 /\ FlatTo(s, Len(s), f)
    BY <1>1, <1>2
<1>5. FlattenSeq(s) = f[Len(s)]
    BY <1>4, FlattenIs
<1> QED
    BY <1>1, <1>3, <1>5 DEF s

LEMMA FlattenAppend ==
    ASSUME NEW S, NEW s \in Seq(Seq(S)), NEW e \in Seq(S)
    PROVE  FlattenSeq(Append(s, e)) = FlattenSeq(s) \o e
<1> DEFINE a == Append(s, e)
           n == Len(s)
<1>0. /\ n \in Nat /\ Len(a) = n + 1 /\ a[n + 1] = e
      /\ \A i \in 1 .. n : a[i] = s[i]
    OBVIOUS
<1> HIDE DEF a
<1>1. PICK f : FlatTo(a, n + 1, f)
  <2>1. n + 1 \in Nat
    BY <1>0
  <2> QED
    BY <2>1, FlatExists
<1>2. FlattenSeq(a) = f[n + 1]
    BY <1>0, <1>1, FlattenIs
<1>3. CASE n = 0
  <2>1. s = <<>> /\ f[n + 1] = e
    BY <1>0, <1>1, <1>3 DEF FlatTo
  <2>2. FlattenSeq(s) = <<>>
    BY <2>1, FlattenNone
  <2> QED
    BY <1>2, <2>1, <2>2 DEF a
<1>4. CASE n # 0
  <2>1. PICK g : FlatTo(s, n, g)
    BY <1>0, FlatExists
  <2>2. FlattenSeq(s) = g[n]
    BY <1>0, <1>4, <2>1, FlattenIs
  <2>3. g[n] = f[n]
    <3> DEFINE m == n + 1
    <3>1. m \in Nat /\ n <= m /\ n \in 1 .. n /\ n \in Nat
        BY <1>0, <1>4
    <3>2. SameTo(n, s, a)
        BY <1>0 DEF SameTo
    <3>4. FlatTo(s, n, g) /\ FlatTo(a, m, f)
        BY <1>1, <2>1
    <3> HIDE DEF n, m
    <3>3. SameTo(n, g, f)
        BY <3>1, <3>2, <3>4, FlatUnique
    <3> QED
        BY <3>1, <3>3 DEF SameTo
  <2>4. f[n + 1] = f[n] \o a[n + 1]
    <3>1. n + 1 \in 1 .. n + 1 /\ n + 1 # 1 /\ (n + 1) - 1 = n
        BY <1>0, <1>4
    <3> QED
        BY <1>1, <3>1 DEF FlatTo
  <2> QED
    BY <1>0, <1>2, <2>2, <2>3, <2>4 DEF a
<1> QED
    BY <1>3, <1>4

LEMMA FlattenIn ==
    ASSUME NEW S, NEW s \in Seq(Seq(S))
    PROVE  FlattenSeq(s) \in Seq(S)
<1> DEFINE n == Len(s)
<1>0. n \in Nat /\ \A i \in 1 .. n : s[i] \in Seq(S)
    OBVIOUS
<1>1. CASE n = 0
  <2>1. s = <<>> /\ <<>> \in Seq(S)
    BY <1>1
  <2> QED
    BY <2>1, FlattenNone
<1>2. CASE n # 0
  <2>1. PICK f : FlatTo(s, n, f)
    BY <1>0, FlatExists
  <2> DEFINE P == {i \in Nat : i \in 1 .. n => f[i] \in Seq(S)}
  <2>2. 0 \in P
    OBVIOUS
  <2>3. ASSUME NEW i \in Nat, i \in P PROVE i + 1 \in P
    <3> SUFFICES ASSUME i + 1 \in 1 .. n PROVE f[i + 1] \in Seq(S)
        OBVIOUS
    <3>1. s[i + 1] \in Seq(S) /\ (i + 1) - 1 = i /\ (i # 0 => f[i] \in Seq(S))
        BY <1>0, <2>3
    <3>2. f[i + 1] = IF i + 1 = 1 THEN s[1] ELSE f[i] \o s[i + 1]
        BY <2>1, <3>1 DEF FlatTo
    <3>3. CASE i = 0
        BY <3>1, <3>2, <3>3
    <3>4. CASE i # 0
        BY <3>1, <3>2, <3>4
    <3> QED
        BY <3>3, <3>4
  <2> HIDE DEF P
  <2>4. n \in P
    BY <1>0, <2>2, <2>3, SetInduction
  <2>5. f[n] \in Seq(S)
    BY <1>0, <1>2, <2>4 DEF P
  <2> QED
    BY <1>0, <1>2, <2>1, <2>5, FlattenIs
<1> QED
    BY <1>1, <1>2

-----------------------------------------------------------------------------
(* The lines of a listing.                                                 *)

Tags == {"", "C", "E", "e", "c", "End"} \cup SeqToSet(Fields)
Texts == Tags \X Nat \X Nat

LEMMA TextIs ==
    ASSUME NEW t \in Tags, NEW m \in Nat, NEW n \in Nat
    PROVE  <<t, m, n>> \in Texts
BY DEF Texts

(* One more line behind two parts is one more line behind the second.      *)
LEMMA JoinIs ==
    ASSUME NEW S, NEW s \in Seq(S), NEW t \in Seq(S), NEW e \in S
    PROVE  /\ s \o t \in Seq(S) /\ Append(s, e) \in Seq(S) /\ <<e>> \in Seq(S)
           /\ Append(s, e) = s \o <<e>>
           /\ s \o Append(t, e) = Append(s \o t, e)
           /\ s \o <<>> = s /\ <<>> \o s = s
<1>1. <<e>> \in Seq(S) /\ s \o t \in Seq(S)
    BY ConcatProperties
<1>2. Append(s, e) \in Seq(S)
    OBVIOUS
<1>3. Append(s, e) = s \o <<e>> /\ Append(t, e) = t \o <<e>>
    BY AppendIsConcat
<1>4. Append(s \o t, e) = (s \o t) \o <<e>>
    BY <1>1, AppendIsConcat
<1>5. (s \o t) \o <<e>> = s \o (t \o <<e>>)
    BY <1>1, ConcatAssociative
<1>6. s \o <<>> = s /\ <<>> \o s = s
    BY ConcatEmptySeq
<1> QED
    BY <1>1, <1>2, <1>3, <1>4, <1>5, <1>6

LEMMA FieldsAre ==
    /\ Fields \in Seq(Tags) /\ DOMAIN Fields = 1 .. Len(Fields)
    /\ FilledFields \subseteq DOMAIN Fields
<1>1. Fields \in Seq({"T", "S", "D", "V", "G", "R"})
    BY DEF Fields
<1>2. \A j \in DOMAIN Fields : Fields[j] \in Tags
    BY DEF Tags, SeqToSet
<1>3. Fields \in Seq(Tags)
    BY <1>1, <1>2
<1> QED
    BY <1>3 DEF FilledFields

LEMMA FieldTexts ==
    ASSUME NEW e \in Nat
    PROVE  [j \in DOMAIN Fields |-> <<Fields[j], e, 0>>] \in Seq(Texts)
<1> DEFINE w == [j \in DOMAIN Fields |-> <<Fields[j], e, 0>>]
<1>0. \A j \in DOMAIN Fields : Fields[j] \in Tags
    BY FieldsAre
<1>1. \A j \in DOMAIN Fields : <<Fields[j], e, 0>> \in Texts
    BY <1>0, TextIs
<1> QED
    BY <1>1, FieldsAre

LEMMA FieldLinesAre ==
    ASSUME NEW e \in Nat, NEW T \in SUBSET DOMAIN Fields
    PROVE  /\ FieldLines(e, T) \in Seq(Texts)
           /\ FieldLines(e, {}) = <<>>
           /\ \A m \in DOMAIN Fields : (\A j \in T : j < m) =>
                FieldLines(e, T \cup {m}) =
                  Append(FieldLines(e, T), <<Fields[m], e, 0>>)
<1> DEFINE w == [j \in DOMAIN Fields |-> <<Fields[j], e, 0>>]
<1>1. w \in Seq(Texts) /\ DOMAIN w = DOMAIN Fields
    BY FieldTexts
<1>2. \A m \in DOMAIN Fields : w[m] = <<Fields[m], e, 0>>
    OBVIOUS
<1> HIDE DEF w
<1>3. Selected(w, T) \in Seq(Texts) /\ Selected(w, {}) = <<>>
    BY <1>1, SelectedIs, SelectedNone
<1>4. ASSUME NEW m \in DOMAIN Fields, \A j \in T : j < m
      PROVE  Selected(w, T \cup {m}) = Append(Selected(w, T), w[m])
    BY <1>1, <1>4, SelectedAdd
<1> QED
    BY <1>2, <1>3, <1>4 DEF FieldLines, w

LEMMA EventLinesAre ==
    ASSUME NEW e \in Nat
    PROVE  /\ EventLines(e) \in Seq(Texts)
           /\ <<"E", e, 0>> \in Texts /\ <<"e", 0, 0>> \in Texts
           /\ EventLines(e) =
                Append(<<<<"E", e, 0>>>> \o FieldLines(e, FilledFields),
                       <<"e", 0, 0>>)
<1> DEFINE p == <<"E", e, 0>>
           q == <<"e", 0, 0>>
           f == FieldLines(e, FilledFields)
<1>1. p \in Texts /\ q \in Texts
  <2>1. "E" \in Tags /\ "e" \in Tags /\ 0 \in Nat
    BY DEF Tags
  <2> QED
    BY <2>1, TextIs
<1>2. f \in Seq(Texts)
    BY FieldsAre, FieldLinesAre
<1>3. EventLines(e) = (<<p>> \o f) \o <<q>> \/ EventLines(e) = <<p>> \o (f \o <<q>>)
    BY DEF EventLines
<1> HIDE DEF p, q, f
<1>4. <<p>> \in Seq(Texts) /\ <<q>> \in Seq(Texts)
    BY <1>1, JoinIs
<1>5. <<p>> \o f \in Seq(Texts) /\ (<<p>> \o f) \o <<q>> = <<p>> \o (f \o <<q>>)
    BY <1>2, <1>4, ConcatAssociative, ConcatProperties
<1>6. /\ (<<p>> \o f) \o <<q>> = Append(<<p>> \o f, q)
      /\ Append(<<p>> \o f, q) \in Seq(Texts)
    BY <1>1, <1>5, AppendIsConcat
<1> QED
    BY <1>1, <1>3, <1>5, <1>6 DEF p, q, f

LEMMA EventsLinesAre ==
    ASSUME NEW s \in Seq(Start), NEW T \in SUBSET DOMAIN s
    PROVE  /\ EventsLines(s, T) \in Seq(Texts)
           /\ EventsLines(s, {}) = <<>>
           /\ \A m \in DOMAIN s : (\A k \in T : k < m) =>
                EventsLines(s, T \cup {m}) =
                  EventsLines(s, T) \o EventLines(s[m])
<1> DEFINE w == [k \in DOMAIN s |-> EventLines(s[k])]
<1>0. \A k \in DOMAIN s : s[k] \in Nat
    BY DEF Start
<1>1. \A k \in DOMAIN s : EventLines(s[k]) \in Seq(Texts)
    BY <1>0, EventLinesAre
<1>2. w \in Seq(Seq(Texts)) /\ DOMAIN w = DOMAIN s
    BY <1>1
<1>3. \A m \in DOMAIN s : w[m] = EventLines(s[m])
    OBVIOUS
<1>4. \A U : EventsLines(s, U) = FlattenSeq(Selected(w, U))
    BY DEF EventsLines
<1> HIDE DEF w
<1>5. /\ Selected(w, T) \in Seq(Seq(Texts)) /\ Selected(w, {}) = <<>>
    BY <1>2, SelectedIs, SelectedNone
<1>6. FlattenSeq(Selected(w, T)) \in Seq(Texts)
    BY <1>5, FlattenIn
<1>7. ASSUME NEW m \in DOMAIN s, \A k \in T : k < m
      PROVE  EventsLines(s, T \cup {m}) = EventsLines(s, T) \o EventLines(s[m])
  <2>1. Selected(w, T \cup {m}) = Append(Selected(w, T), w[m])
    BY <1>2, <1>7, SelectedAdd
  <2>2. w[m] \in Seq(Texts)
    BY <1>1, <1>3
  <2>3. FlattenSeq(Append(Selected(w, T), w[m])) =
          FlattenSeq(Selected(w, T)) \o w[m]
    BY <1>5, <2>2, FlattenAppend
  <2> QED
    BY <1>3, <1>4, <2>1, <2>3
<1>8. EventsLines(s, {}) = <<>>
    BY <1>4, <1>5, FlattenNone
<1> QED
    BY <1>4, <1>6, <1>7, <1>8

-----------------------------------------------------------------------------
(* The events asked for, one after the other.                              *)

(* The start of the first of them after e, 0 if there is none, and those   *)
(* before it.                                                              *)
Above(T, s, e) ==
    LET R == {k \in T : s[k] > e} IN IF R = {} THEN 0 ELSE s[Min(R)]
Passed(T, s, e) == {k \in T : e = 0 \/ s[k] < e}

LEMMA AboveNone ==
    ASSUME NEW T, NEW s, NEW e, \A k \in T : ~(s[k] > e)
    PROVE  Above(T, s, e) = 0
BY DEF Above

LEMMA AboveIs ==
    ASSUME NEW s \in Seq(Start), Increasing(s), NEW T \in SUBSET DOMAIN s,
           NEW e \in Nat
    PROVE  \/ Above(T, s, e) = 0 /\ \A k \in T : ~(s[k] > e)
           \/ \E m \in T : /\ Above(T, s, e) = s[m] /\ s[m] > e
                           /\ \A k \in T : s[k] > e => m <= k /\ s[m] <= s[k]
<1> DEFINE R == {k \in T : s[k] > e}
<1>0. \A k \in DOMAIN s : k \in Nat /\ s[k] \in Nat
    BY DEF Start
<1>1. CASE R = {}
    BY <1>1 DEF Above
<1>2. CASE R # {}
  <2>1. R \subseteq Nat
    BY <1>0
  <2>2. Above(T, s, e) = s[Min(R)]
    BY <1>2 DEF Above
  <2> DEFINE m == Min(R)
  <2>3. m \in R /\ \A k \in R : m <= k
    BY <1>2, <2>1, MinIs
  <2> HIDE DEF m
  <2>4. \A k \in T : s[k] > e => m <= k
    BY <2>3
  <2>5. ASSUME NEW k \in T, m <= k PROVE s[m] <= s[k]
    <3>1. CASE m = k
        BY <1>0, <2>3, <3>1
    <3>2. CASE m < k
      <4>1. s[m] < s[k]
        BY <2>3, <3>2 DEF Increasing
      <4> QED
        BY <1>0, <2>3, <4>1
    <3> QED
        BY <1>0, <2>3, <2>5, <3>1, <3>2
  <2> QED
    BY <2>2, <2>3, <2>4, <2>5 DEF m
<1> QED
    BY <1>1, <1>2

LEMMA AboveLeast ==
    ASSUME NEW s \in Seq(Start), Increasing(s), NEW T \in SUBSET DOMAIN s,
           NEW e \in Nat, NEW m \in T, s[m] > e,
           \A k \in T : s[k] > e => s[m] <= s[k]
    PROVE  Above(T, s, e) = s[m]
<1>0. \A k \in DOMAIN s : s[k] \in Nat
    BY DEF Start
<1>1. PICK l \in T : /\ Above(T, s, e) = s[l] /\ s[l] > e
                     /\ \A k \in T : s[k] > e => s[l] <= s[k]
    BY AboveIs
<1>2. s[l] <= s[m] /\ s[m] <= s[l]
    BY <1>1
<1> QED
    BY <1>0, <1>1, <1>2

LEMMA PassedFirst ==
    ASSUME NEW s \in Seq(Start), Increasing(s), NEW T \in SUBSET DOMAIN s
    PROVE  Passed(T, s, Above(T, s, 0)) = {}
<1>0. \A k \in DOMAIN s : s[k] \in Nat /\ s[k] > 0
    BY DEF Start
<1> DEFINE e == Above(T, s, 0)
<1> SUFFICES ASSUME NEW k \in Passed(T, s, e) PROVE FALSE
    OBVIOUS
<1>1. k \in T /\ (e = 0 \/ s[k] < e)
    BY DEF Passed
<1> HIDE DEF e
<1>2. \/ e = 0 /\ \A j \in T : ~(s[j] > 0)
      \/ \E m \in T : e = s[m] /\ \A j \in T : s[j] > 0 => s[m] <= s[j]
    BY AboveIs DEF e
<1> QED
    BY <1>0, <1>1, <1>2

LEMMA PassedNext ==
    ASSUME NEW s \in Seq(Start), Increasing(s), NEW T \in SUBSET DOMAIN s,
           NEW k \in T
    PROVE  /\ Passed(T, s, Above(T, s, s[k])) = Passed(T, s, s[k]) \cup {k}
           /\ \A j \in Passed(T, s, s[k]) : j < k
<1>0. \A j \in DOMAIN s : j \in Nat /\ s[j] \in Nat /\ s[j] > 0
    BY DEF Start
<1>1. ASSUME NEW j \in T
      PROVE  /\ s[j] < s[k] <=> j < k
             /\ s[j] > s[k] <=> k < j
  <2>1. j < k => s[j] < s[k]
    BY DEF Increasing
  <2>2. k < j => s[k] < s[j]
    BY DEF Increasing
  <2>3. j < k \/ j = k \/ k < j
    BY <1>0
  <2> QED
    BY <1>0, <2>1, <2>2, <2>3
<1>2. \A j \in Passed(T, s, s[k]) : j < k
    BY <1>0, <1>1 DEF Passed
<1> DEFINE e == Above(T, s, s[k])
<1>3. \/ e = 0 /\ \A j \in T : ~(s[j] > s[k])
      \/ \E m \in T : /\ e = s[m] /\ s[m] > s[k]
                      /\ \A j \in T : s[j] > s[k] => s[m] <= s[j]
    BY <1>0, AboveIs
<1> HIDE DEF e
<1>4. ASSUME NEW j \in T
      PROVE  (e = 0 \/ s[j] < e) <=> (s[j] < s[k] \/ j = k)
  <2>1. ~(s[j] > s[k]) <=> s[j] < s[k] \/ j = k
    BY <1>0, <1>1
  <2>2. CASE e = 0 /\ \A l \in T : ~(s[l] > s[k])
    BY <2>1, <2>2
  <2>3. CASE \E m \in T : /\ e = s[m] /\ s[m] > s[k]
                          /\ \A l \in T : s[l] > s[k] => s[m] <= s[l]
    <3>1. PICK m \in T : /\ e = s[m] /\ s[m] > s[k]
                         /\ \A l \in T : s[l] > s[k] => s[m] <= s[l]
        BY <2>3
    <3>2. s[j] < e <=> ~(s[j] > s[k])
        BY <1>0, <3>1
    <3> QED
        BY <1>0, <2>1, <3>1, <3>2
  <2> QED
    BY <1>3, <2>2, <2>3
<1>5. Passed(T, s, s[k]) = {j \in T : s[j] < s[k]}
    BY <1>0 DEF Passed
<1>6. Passed(T, s, e) = {j \in T : s[j] < s[k] \/ j = k}
    BY <1>4 DEF Passed
<1> QED
    BY <1>2, <1>5, <1>6 DEF e

Dated(a) == a.mode \in Modes /\ a.from \in Nat /\ a.to \in Nat
Spans(a, s) == a.mode = "from" /\ Len(s) > 1
Goon(a, s) == a.mode = "all" \/ Spans(a, s)
Until(a, s) == IF Spans(a, s) /\ a.to > Last(s) + 1 THEN Last(s) + 1
               ELSE IF a.mode = "from" THEN a.to ELSE 0

LEMMA EventAt ==
    ASSUME NEW s \in Seq(Start), NEW e \in {0} \cup SeqToSet(s)
    PROVE  e = 0 \/ \E m \in DOMAIN s : e = s[m]
BY DEF SeqToSet

LEMMA MaxOfTwoIs ==
    ASSUME NEW x \in Nat, NEW y \in Nat
    PROVE  Max({x, y}) = IF x >= y THEN x ELSE y
<1> DEFINE m == Max({x, y})
<1>1. \E u \in {x, y} : \A v \in {x, y} : u >= v
    OBVIOUS
<1>2. m \in {x, y} /\ m >= x /\ m >= y
    BY <1>1 DEF Max
<1> HIDE DEF m
<1>3. m = IF x >= y THEN x ELSE y
    BY <1>2
<1> QED
    BY <1>3 DEF m

LEMMA LastIs ==
    ASSUME NEW s \in Seq(Start), Len(s) > 1, Increasing(s)
    PROVE  Last(s) \in Nat /\ \A k \in DOMAIN s : s[k] <= Last(s)
<1>1. Len(s) \in DOMAIN s /\ Last(s) = s[Len(s)]
    BY DEF Last
<1>2. ASSUME NEW k \in DOMAIN s PROVE s[k] <= s[Len(s)]
  <2>1. k = Len(s) \/ k < Len(s)
    OBVIOUS
  <2>2. s[k] \in Nat
    BY DEF Start
  <2>3. k < Len(s) => s[k] < s[Len(s)]
    BY <1>1 DEF Increasing
  <2>4. s[Len(s)] \in Nat
    BY <1>1 DEF Start
  <2> QED
    BY <2>1, <2>2, <2>3, <2>4
<1> QED
    BY <1>1, <1>2 DEF Start

(* What is asked for, mode by mode.                                        *)
LEMMA AskedIs ==
    ASSUME NEW a, Dated(a), NEW s \in Seq(Start)
    PROVE  /\ a.mode = "all" => Asked(a, s) = DOMAIN s
           /\ Spans(a, s) =>
                LET b == FirstEvent(a, s) IN
                Asked(a, s) =
                  {k \in DOMAIN s : /\ b # 0 /\ s[k] >= b
                                    /\ a.to = 0 \/ s[k] <= Max({a.to, b})}
           /\ ~ Goon(a, s) =>
                Asked(a, s) = {k \in DOMAIN s : s[k] = FirstEvent(a, s)}
<1>1. CASE a.mode = "all"
    BY <1>1 DEF Asked, Goon, Spans
<1>2. CASE Spans(a, s)
  <2>1. ~(Len(s) <= 1)
    BY <1>2 DEF Spans
  <2>2. FirstEvent(a, s) = Around(s, Max({a.from, First(s)}))
    BY <1>2, <2>1 DEF FirstEvent, Spans
  <2> DEFINE b == Around(s, Max({a.from, First(s)}))
             A == {k \in DOMAIN s : /\ b # 0 /\ s[k] >= b
                                    /\ a.to = 0 \/ s[k] <= Max({a.to, b})}
  <2>3. Asked(a, s) = A
    BY <1>2 DEF Asked, Spans
  <2> HIDE DEF A, b
  <2> QED
    BY <1>2, <2>2, <2>3 DEF A, b, Goon, Spans
<1>3. CASE ~ Goon(a, s)
    BY <1>3 DEF Asked, Goon, Spans
<1> QED
    BY <1>1, <1>2, <1>3 DEF Goon

LEMMA AskedFirst ==
    ASSUME NEW a, Dated(a), NEW s \in Seq(Start), Increasing(s)
    PROVE  FirstEvent(a, s) = Above(Asked(a, s), s, 0)
<1> DEFINE b == FirstEvent(a, s)
           A == Asked(a, s)
<1>0. \A k \in DOMAIN s : k \in Nat /\ s[k] \in Nat /\ s[k] > 0
    BY DEF Start
<1>1. b = 0 \/ \E m \in DOMAIN s : b = s[m]
  <2>1. b \in {0} \cup SeqToSet(s)
    BY FirstEventIn DEF Dated
  <2> QED
    BY <2>1, EventAt
<1>2. A \subseteq DOMAIN s
    BY DEF Asked
<1>3. CASE a.mode = "all"
  <2>1. A = DOMAIN s /\ b = First(s)
    BY <1>3, AskedIs DEF FirstEvent
  <2>2. CASE s = <<>>
    <3>1. b = 0 /\ \A k \in A : ~(s[k] > 0)
        BY <2>1, <2>2 DEF First
    <3> HIDE DEF A, b
    <3> QED
        BY <3>1, AboveNone DEF A, b
  <2>3. CASE s # <<>>
    <3>1. 1 \in DOMAIN s /\ b = s[1]
        BY <2>1, <2>3 DEF First
    <3>2. ASSUME NEW k \in A PROVE s[1] <= s[k]
      <4>1. k = 1 \/ 1 < k
        BY <1>2
      <4>2. 1 < k => s[1] < s[k]
        BY <1>2, <3>1 DEF Increasing
      <4> QED
        BY <1>0, <1>2, <3>1, <4>1, <4>2
    <3>3. 1 \in A /\ s[1] > 0 /\ \A k \in A : s[k] > 0 => s[1] <= s[k]
        BY <1>0, <2>1, <3>1, <3>2
    <3> HIDE DEF A, b
    <3>4. Above(A, s, 0) = s[1]
        BY <1>2, <3>3, AboveLeast
    <3> QED
        BY <3>1, <3>4 DEF A, b
  <2> QED
    BY <2>2, <2>3
<1>4. CASE a.mode # "all" /\ b = 0
  <2>1. A = {}
    <3>1. CASE Spans(a, s)
        BY <1>4, <3>1, AskedIs
    <3>2. CASE ~ Spans(a, s)
      <4>1. A = {k \in DOMAIN s : s[k] = b}
        BY <1>4, <3>2, AskedIs DEF Goon
      <4> HIDE DEF A, b
      <4> QED
        BY <1>0, <1>4, <4>1
    <3> QED
        BY <3>1, <3>2
  <2> HIDE DEF A, b
  <2> QED
    BY <1>4, <2>1, AboveNone DEF A, b
<1>5. CASE a.mode # "all" /\ b # 0
  <2>1. PICK m \in DOMAIN s : b = s[m]
    BY <1>1, <1>5
  <2>2. m \in A /\ \A k \in A : s[m] <= s[k]
    <3>1. CASE Spans(a, s)
      <4>1. A = {k \in DOMAIN s : /\ b # 0 /\ s[k] >= b
                                  /\ a.to = 0 \/ s[k] <= Max({a.to, b})}
        BY <3>1, AskedIs
      <4>2. b \in Nat /\ a.to \in Nat
        BY <1>0, <2>1 DEF Dated
      <4> HIDE DEF A, b
      <4>3. b <= Max({a.to, b})
        BY <4>2, MaxOfTwoIs
      <4> QED
        BY <1>0, <1>5, <2>1, <4>1, <4>2, <4>3
    <3>2. CASE ~ Spans(a, s)
      <4>1. A = {k \in DOMAIN s : s[k] = b}
        BY <1>5, <3>2, AskedIs DEF Goon
      <4> HIDE DEF A, b
      <4> QED
        BY <1>0, <2>1, <4>1
    <3> QED
        BY <3>1, <3>2
  <2> HIDE DEF A, b
  <2>3. s[m] > 0
    BY <1>0
  <2>4. Above(A, s, 0) = s[m]
    BY <1>2, <2>2, <2>3, AboveLeast
  <2> QED
    BY <2>1, <2>4 DEF A, b
<1> QED
    BY <1>3, <1>4, <1>5

LEMMA AfterIs ==
    ASSUME NEW s, NEW e PROVE After(s, e) = Above(DOMAIN s, s, e)
BY DEF After, Above

(* EndEvent goes on with the next event asked for.                         *)
LEMMA AskedNext ==
    ASSUME NEW a, Dated(a), NEW s \in Seq(Start), Increasing(s),
           NEW k \in Asked(a, s), NEW n,
           n = IF Goon(a, s) THEN After(s, s[k]) ELSE 0
    PROVE  (IF Until(a, s) # 0 /\ n > Until(a, s) THEN 0 ELSE n) =
             Above(Asked(a, s), s, s[k])
<1> DEFINE A == Asked(a, s)
           b == FirstEvent(a, s)
           to == Until(a, s)
           e == IF to # 0 /\ n > to THEN 0 ELSE n
<1>0. \A j \in DOMAIN s : j \in Nat /\ s[j] \in Nat /\ s[j] > 0
    BY DEF Start
<1>1. A \subseteq DOMAIN s /\ k \in DOMAIN s
    BY DEF Asked
<1>2. CASE a.mode = "all"
  <2>1. A = DOMAIN s /\ to = 0 /\ n = After(s, s[k])
    BY <1>2, AskedIs DEF Until, Spans, Goon
  <2>2. n = Above(A, s, s[k])
    BY <2>1, AfterIs
  <2> QED
    BY <2>1, <2>2
<1>3. CASE ~ Goon(a, s)
  <2>1. n = 0
    BY <1>3
  <2>2. A = {j \in DOMAIN s : s[j] = b}
    BY <1>3, AskedIs
  <2> HIDE DEF A, b, to
  <2>3. \A j \in A : ~(s[j] > s[k])
    BY <1>0, <1>1, <2>2 DEF A
  <2>4. Above(A, s, s[k]) = 0
    BY <2>3, AboveNone
  <2> QED
    BY <2>1, <2>4 DEF A, to
<1>4. CASE Spans(a, s)
  <2>1. A = {j \in DOMAIN s : /\ b # 0 /\ s[j] >= b
                              /\ a.to = 0 \/ s[j] <= Max({a.to, b})}
    BY <1>4, AskedIs
  <2>2. n = Above(DOMAIN s, s, s[k])
    BY <1>4, AfterIs DEF Goon
  <2>3. Last(s) \in Nat /\ \A j \in DOMAIN s : s[j] <= Last(s)
    BY <1>4, LastIs DEF Spans
  <2>4. a.to \in Nat
    BY DEF Dated
  <2>5. to = IF a.to > Last(s) + 1 THEN Last(s) + 1 ELSE a.to
    BY <1>4 DEF Until, Spans
  <2> HIDE DEF to
  <2>6. to \in Nat /\ (to = 0 <=> a.to = 0)
        /\ \A j \in DOMAIN s : s[j] > to <=> s[j] > a.to
    BY <1>0, <2>3, <2>4, <2>5
  <2>0. b \in Nat /\ k \in A
    <3>1. b \in {0} \cup SeqToSet(s) /\ SeqToSet(s) \subseteq Nat
        BY FirstEventIn, SeqToSetIn DEF Start, Dated
    <3> QED
        BY <3>1
  <2> HIDE DEF A, b
  <2>7. s[k] \in Nat /\ b # 0 /\ s[k] >= b
    BY <1>0, <1>1, <2>0, <2>1
  <2>8. \/ n = 0 /\ \A j \in DOMAIN s : ~(s[j] > s[k])
        \/ \E m \in DOMAIN s : /\ n = s[m] /\ s[m] > s[k]
                               /\ \A j \in DOMAIN s : s[j] > s[k] => s[m] <= s[j]
    BY <2>2, <2>7, AboveIs
  <2>9. CASE n = 0 /\ \A j \in DOMAIN s : ~(s[j] > s[k])
    <3>1. Above(A, s, s[k]) = 0
        BY <1>1, <2>9, AboveNone
    <3> QED
        BY <2>9, <3>1 DEF A, to
  <2>10. CASE \E m \in DOMAIN s :
                /\ n = s[m] /\ s[m] > s[k]
                /\ \A j \in DOMAIN s : s[j] > s[k] => s[m] <= s[j]
    <3>1. PICK m \in DOMAIN s :
            /\ n = s[m] /\ s[m] > s[k]
            /\ \A j \in DOMAIN s : s[j] > s[k] => s[m] <= s[j]
        BY <2>10
    <3>2. n \in Nat /\ n > s[k] /\ n # 0
        BY <1>0, <3>1
    <3>3. Max({a.to, b}) = IF a.to >= b THEN a.to ELSE b
        BY <2>0, <2>4, MaxOfTwoIs
    <3>4. CASE to # 0 /\ n > to
      <4>1. a.to # 0 /\ n > a.to
        BY <2>6, <3>1, <3>4
      <4>2. ASSUME NEW j \in A PROVE ~(s[j] > s[k])
        <5>1. s[j] \in Nat /\ s[j] <= Max({a.to, b}) /\ j \in DOMAIN s
            BY <1>0, <2>1, <4>1
        <5>2. s[j] > s[k] => n <= s[j]
            BY <3>1, <5>1
        <5> QED
            BY <2>0, <2>4, <2>7, <3>2, <3>3, <4>1, <5>1, <5>2
      <4>3. Above(A, s, s[k]) = 0
        BY <4>2, AboveNone
      <4> QED
        BY <3>4, <4>3 DEF A, to
    <3>5. CASE ~(to # 0 /\ n > to)
      <4>1. m \in A
        <5>1. a.to = 0 \/ s[m] <= a.to
            BY <1>0, <2>4, <2>6, <3>1, <3>5
        <5>2. a.to = 0 \/ s[m] <= Max({a.to, b})
            BY <1>0, <2>0, <2>4, <3>3, <5>1
        <5> QED
            BY <2>0, <2>1, <2>7, <3>1, <3>2, <5>2
      <4>2. \A j \in A : s[j] > s[k] => s[m] <= s[j]
        BY <1>1, <3>1
      <4>3. Above(A, s, s[k]) = s[m]
        BY <1>1, <2>7, <3>1, <4>1, <4>2, AboveLeast
      <4> QED
        BY <3>1, <3>5, <4>3 DEF A, to
    <3> QED
        BY <3>4, <3>5
  <2> QED
    BY <2>8, <2>9, <2>10
<1> QED
    BY <1>2, <1>3, <1>4 DEF Goon

-----------------------------------------------------------------------------
(* What a selective listing has told when its handler is on its way.       *)

AskedOf(a, i) == Asked(a, epg[i].evs)
LinesOf(a, i) == ChannelLines(i, AskedOf(a, i))

(* The schedules before the i-th.                                          *)
Earlier(a, i) == IF a.chan # 0 THEN <<>>
                ELSE FlattenSeq([k \in 1 .. i - 1 |-> LinesOf(a, k)])
AllOf(a) == IF a.chan # 0 THEN LinesOf(a, Min(SchedulesOf(a.chan)))
            ELSE Earlier(a, Len(epg) + 1)

(* The i-th up to the event e.                                             *)
Opened(a, i) == Append(Earlier(a, i), <<"C", epg[i].chan, 0>>)
EventsTold(a, i, e) ==
    Opened(a, i) \o EventsLines(epg[i].evs, Passed(AskedOf(a, i), epg[i].evs, e))
PassedFields(f) == {j \in FilledFields : j <= f}

EpgSoFar(a, x) ==
    IF x.st = "EndEPG" \/ x.sched = 0 THEN AllOf(a)
    ELSE IF x.st = "Channel" THEN Earlier(a, x.sched)
    ELSE IF x.st = "Field"
      THEN Append(EventsTold(a, x.sched, x.ev), <<"E", x.ev, 0>>)
           \o FieldLines(x.ev, PassedFields(x.f))
    ELSE EventsTold(a, x.sched, x.ev)

(* The schedule and the bounds are those asked for.                        *)
Bound(a, x) ==
    /\ x.op = "LSTE" /\ Dated(a)
    /\ x.all <=> a.chan = 0
    /\ IF a.chan = 0 THEN a.mode = "all" /\ (x.sched = 0 => Len(epg) = 0)
       ELSE x.sched # 0 /\ x.sched = Min(SchedulesOf(a.chan))
    /\ x.sched # 0 => /\ x.traverse <=> Goon(a, epg[x.sched].evs)
                      /\ x.to = Until(a, epg[x.sched].evs)

(* So is the event.                                                        *)
InPlace(a, x) ==
    LET s == epg[x.sched].evs
        P == {s[k] : k \in AskedOf(a, x.sched)}
    IN /\ x.st = "Channel" => x.ev = Above(AskedOf(a, x.sched), s, 0)
       /\ x.st \in {"Event", "Field", "EndChannel"} =>
            epg[x.sched].chan \in SeqToSet(channels)
       /\ x.st = "Event" => x.ev \in {0} \cup P
       /\ x.st = "Field" => x.ev \in P
       /\ x.st = "EndChannel" => x.ev = 0

EpgTells(a, x) == Bound(a, x) /\ (x.sched # 0 => InPlace(a, x))

EpgGoes(a, x, n) ==
    /\ ~n.last => /\ EpgTells(a, n.h)
                  /\ EpgSoFar(a, n.h) = Append(EpgSoFar(a, x), n.line.what)
    /\ n.last => Append(AllOf(a), <<"End", 0, 0>>) =
                   Append(EpgSoFar(a, x), n.line.what)

LEMMA ScheduleIs ==
    ASSUME ListsTyped, NEW a, NEW i \in 1 .. Len(epg)
    PROVE  /\ epg[i].evs \in Seq(Start) /\ Increasing(epg[i].evs)
           /\ AskedOf(a, i) \subseteq DOMAIN epg[i].evs
           /\ <<"C", epg[i].chan, 0>> \in Texts /\ <<"c", 0, 0>> \in Texts
           /\ LinesOf(a, i) \in Seq(Texts)
<1>1. epg[i].evs \in Seq(Start) /\ Increasing(epg[i].evs)
    BY EventsOf
<1>2. AskedOf(a, i) \subseteq DOMAIN epg[i].evs
    BY DEF AskedOf, Asked
<1>3. epg[i].chan \in Nat
  <2>1. epg[i] \in Schedule
    BY DEF ListsTyped
  <2> QED
    BY <2>1, VTPListsAssumption DEF Schedule
<1> DEFINE p == <<"C", epg[i].chan, 0>>
           q == <<"c", 0, 0>>
<1>4. p \in Texts /\ q \in Texts
  <2>1. "C" \in Tags /\ "c" \in Tags /\ 0 \in Nat
    BY DEF Tags
  <2> QED
    BY <1>3, <2>1, TextIs
<1> DEFINE e == EventsLines(epg[i].evs, AskedOf(a, i))
<1>5. e \in Seq(Texts)
    BY <1>1, <1>2, EventsLinesAre
<1>6. LinesOf(a, i) \in {<<q>>, <<p>> \o e \o <<q>>}
    BY DEF LinesOf, ChannelLines
<1> HIDE DEF p, q, e
<1>7. LinesOf(a, i) \in Seq(Texts)
  <2>1. <<p>> \in Seq(Texts) /\ <<q>> \in Seq(Texts)
    BY <1>4, JoinIs
  <2>2. <<p>> \o e \in Seq(Texts) /\ e \o <<q>> \in Seq(Texts)
    BY <1>5, <2>1, ConcatProperties
  <2>3. /\ (<<p>> \o e) \o <<q>> \in Seq(Texts)
        /\ <<p>> \o (e \o <<q>>) \in Seq(Texts)
    BY <2>1, <2>2, ConcatProperties
  <2> QED
    BY <1>6, <2>1, <2>3
<1> QED
    BY <1>1, <1>2, <1>4, <1>7 DEF p, q

LEMMA LinesIn ==
    ASSUME ListsTyped, NEW a, NEW i, i \in 1 .. Len(epg)
    PROVE  LinesOf(a, i) \in Seq(Texts)
BY ScheduleIs

LEMMA AppendedIs ==
    ASSUME NEW S, NEW s \in Seq(S), NEW t \in Seq(S), NEW e \in S,
           DOMAIN t = 1 .. Len(s) + 1, \A k \in 1 .. Len(s) : t[k] = s[k],
           t[Len(s) + 1] = e
    PROVE  t = Append(s, e)
OBVIOUS

(* The lines of a schedule, behind those before it.                        *)
LEMMA SchedulesTold ==
    ASSUME ListsTyped, NEW a, NEW i \in 1 .. Len(epg) + 1
    PROVE  /\ Earlier(a, i) \in Seq(Texts)
           /\ a.chan = 0 /\ i # Len(epg) + 1 =>
                Earlier(a, i + 1) = Earlier(a, i) \o LinesOf(a, i)
<1>0. Len(epg) \in Nat
    BY DEF ListsTyped
<1> DEFINE b == [k \in 1 .. i - 1 |-> LinesOf(a, k)]
           c == [k \in 1 .. (i + 1) - 1 |-> LinesOf(a, k)]
<1>1. b \in Seq(Seq(Texts)) /\ Len(b) = i - 1
  <2>1. i - 1 \in Nat
    BY <1>0
  <2>2. ASSUME NEW k \in 1 .. i - 1 PROVE LinesOf(a, k) \in Seq(Texts)
    <3>1. k \in 1 .. Len(epg)
        BY <1>0
    <3> QED
        BY <3>1, LinesIn
  <2> QED
    BY <2>1, <2>2
<1>2. Earlier(a, i) = IF a.chan # 0 THEN <<>> ELSE FlattenSeq(b)
    BY DEF Earlier
<1>3. Earlier(a, i + 1) = IF a.chan # 0 THEN <<>> ELSE FlattenSeq(c)
    BY DEF Earlier
<1>4. ASSUME i # Len(epg) + 1
      PROVE  FlattenSeq(c) = FlattenSeq(b) \o LinesOf(a, i)
  <2>0. i \in 1 .. Len(epg)
    BY <1>0, <1>4
  <2>1. LinesOf(a, i) \in Seq(Texts)
    BY <2>0, LinesIn
  <2>2. c = Append(b, LinesOf(a, i))
    <3>1. /\ DOMAIN c = 1 .. i /\ \A k \in 1 .. i : c[k] = LinesOf(a, k)
          /\ c = [k \in 1 .. i |-> c[k]]
        BY <1>0
    <3>2. \A k \in 1 .. i - 1 : b[k] = LinesOf(a, k)
        OBVIOUS
    <3>3. c \in Seq(Seq(Texts))
      <4>1. ASSUME NEW k \in 1 .. i PROVE LinesOf(a, k) \in Seq(Texts)
        <5>1. k \in 1 .. Len(epg)
            BY <1>0, <2>0
        <5> QED
            BY <5>1, LinesIn
      <4> HIDE DEF c
      <4> QED
        BY <2>0, <3>1, <4>1
    <3> HIDE DEF b, c
    <3>4. i = Len(b) + 1 /\ i - 1 = Len(b)
        BY <1>0, <1>1
    <3> QED
        BY <1>1, <2>0, <2>1, <3>1, <3>2, <3>3, <3>4, AppendedIs
  <2> HIDE DEF b, c
  <2> QED
    BY <1>1, <2>1, <2>2, FlattenAppend
<1> HIDE DEF b, c
<1>5. Earlier(a, i) \in Seq(Texts)
  <2>1. FlattenSeq(b) \in Seq(Texts) /\ <<>> \in Seq(Texts)
    BY <1>1, FlattenIn
  <2> QED
    BY <1>2, <2>1
<1> QED
    BY <1>2, <1>3, <1>4, <1>5

LEMMA OpenedIs ==
    ASSUME ListsTyped, NEW a, NEW i \in 1 .. Len(epg), NEW e
    PROVE  /\ Opened(a, i) \in Seq(Texts) /\ EventsTold(a, i, e) \in Seq(Texts)
           /\ Opened(a, i) = Earlier(a, i) \o <<<<"C", epg[i].chan, 0>>>>
<1> DEFINE p == <<"C", epg[i].chan, 0>>
           P == Passed(AskedOf(a, i), epg[i].evs, e)
<1>1. Earlier(a, i) \in Seq(Texts) /\ p \in Texts
  <2>1. i \in 1 .. Len(epg) + 1
    BY DEF ListsTyped
  <2> QED
    BY <2>1, SchedulesTold, ScheduleIs
<1> HIDE DEF p
<1>2. Append(Earlier(a, i), p) \in Seq(Texts)
      /\ Append(Earlier(a, i), p) = Earlier(a, i) \o <<p>>
    BY <1>1, JoinIs
<1>3. P \subseteq DOMAIN epg[i].evs /\ epg[i].evs \in Seq(Start)
    BY ScheduleIs DEF Passed
<1> HIDE DEF P
<1>4. EventsLines(epg[i].evs, P) \in Seq(Texts)
    BY <1>3, EventsLinesAre
<1>5. Opened(a, i) \in Seq(Texts)
    BY <1>2 DEF Opened, p
<1>6. Opened(a, i) \o EventsLines(epg[i].evs, P) \in Seq(Texts)
    BY <1>4, <1>5, ConcatProperties
<1> QED
    BY <1>2, <1>5, <1>6 DEF Opened, EventsTold, P, p

(* The lines of a schedule end with the last event asked for.              *)
LEMMA ScheduleTold ==
    ASSUME ListsTyped, NEW a, NEW i \in 1 .. Len(epg)
    PROVE  /\ epg[i].chan \in SeqToSet(channels) =>
                Append(EventsTold(a, i, 0), <<"c", 0, 0>>) =
                  Earlier(a, i) \o LinesOf(a, i)
           /\ epg[i].chan \notin SeqToSet(channels) =>
                Append(Earlier(a, i), <<"c", 0, 0>>) =
                  Earlier(a, i) \o LinesOf(a, i)
<1> DEFINE p == <<"C", epg[i].chan, 0>>
           q == <<"c", 0, 0>>
           e == EventsLines(epg[i].evs, AskedOf(a, i))
           b == Earlier(a, i)
<1>1. /\ epg[i].evs \in Seq(Start) /\ AskedOf(a, i) \subseteq DOMAIN epg[i].evs
      /\ p \in Texts /\ q \in Texts
    BY ScheduleIs
<1>2. b \in Seq(Texts)
  <2>1. i \in 1 .. Len(epg) + 1
    BY DEF ListsTyped
  <2> QED
    BY <2>1, SchedulesTold
<1>3. e \in Seq(Texts)
    BY <1>1, EventsLinesAre
<1>4. EventsTold(a, i, 0) = (b \o <<p>>) \o e
  <2>1. Passed(AskedOf(a, i), epg[i].evs, 0) = AskedOf(a, i)
    BY DEF Passed
  <2> QED
    BY <2>1, OpenedIs DEF EventsTold
<1>5. LinesOf(a, i) = IF epg[i].chan \notin SeqToSet(channels) THEN <<q>>
                      ELSE (<<p>> \o e) \o <<q>>
  <2>1. <<p>> \in Seq(Texts) /\ <<q>> \in Seq(Texts)
    BY <1>1, JoinIs
  <2>2. (<<p>> \o e) \o <<q>> = <<p>> \o (e \o <<q>>)
    BY <1>3, <2>1, ConcatAssociative
  <2> QED
    BY <2>2 DEF LinesOf, ChannelLines
<1> HIDE DEF p, q, e, b
<1>6. Append((b \o <<p>>) \o e, q) = b \o ((<<p>> \o e) \o <<q>>)
  <2>1. <<p>> \in Seq(Texts) /\ <<q>> \in Seq(Texts)
    BY <1>1, JoinIs
  <2>2. (b \o <<p>>) \o e = b \o (<<p>> \o e) /\ <<p>> \o e \in Seq(Texts)
    BY <1>2, <1>3, <2>1, ConcatAssociative, ConcatProperties
  <2>3. b \o Append(<<p>> \o e, q) = Append(b \o (<<p>> \o e), q)
        /\ Append(<<p>> \o e, q) = (<<p>> \o e) \o <<q>>
    BY <1>1, <1>2, <2>2, JoinIs
  <2> QED
    BY <2>2, <2>3
<1>7. Append(b, q) = b \o <<q>>
    BY <1>1, <1>2, JoinIs
<1> QED
    BY <1>4, <1>5, <1>6, <1>7 DEF q, b


LEMMA EpgOnward ==
    ASSUME NEW a, NEW x, NEW y, NEW w, NEW c, EpgTells(a, y),
           EpgSoFar(a, y) = Append(EpgSoFar(a, x), w)
    PROVE  EpgGoes(a, x, Step(Line(c, w, TRUE), y, FALSE))
<1> DEFINE n == Step(Line(c, w, TRUE), y, FALSE)
<1>1. ~ n.last /\ n.h = y /\ n.line.what = w
    BY DEF Step, Line
<1> HIDE DEF n
<1>2. EpgGoes(a, x, n)
    BY <1>1 DEF EpgGoes
<1> QED
    BY <1>2 DEF n

Alike(x, y) ==
    /\ y.op = x.op /\ y.all = x.all /\ y.sched = x.sched
    /\ y.traverse = x.traverse /\ y.to = x.to

LEMMA AlikeBound ==
    ASSUME NEW a, NEW x, NEW y, Bound(a, x), Alike(x, y) PROVE Bound(a, y)
BY DEF Bound, Alike

(* On its way in the schedule x.sched.                                     *)
LEMMA InEpg ==
    ASSUME ListsTyped, NEW a, NEW x \in EventLister, InSchedule(x),
           EpgTells(a, x), x.sched # 0
    PROVE  /\ x.sched \in 1 .. Len(epg) /\ InPlace(a, x) /\ Dated(a)
           /\ x.ev \in Nat /\ x.f \in Nat
           /\ Earlier(a, x.sched) \in Seq(Texts)
<1>1. x.sched \in 0 .. Len(epg) /\ Len(epg) \in Nat /\ x.ev \in Nat /\ x.f \in Nat
    BY DEF InSchedule, ListsTyped, EventLister
<1>2. x.sched \in 1 .. Len(epg) /\ x.sched \in 1 .. Len(epg) + 1
    BY <1>1
<1> QED
    BY <1>1, <1>2, SchedulesTold DEF EpgTells, Bound

LEMMA EpgChannel ==
    ASSUME ListsTyped, NEW a, NEW x \in EventLister, InSchedule(x),
           EpgTells(a, x), LSTEState(x) = "Channel"
    PROVE  EpgGoes(a, x, LSTENext(x))
<1> DEFINE y == [x EXCEPT !.st = "Event"]
           i == x.sched
           s == epg[i].evs
           A == AskedOf(a, i)
           w == <<"C", epg[i].chan, 0>>
<1>0. x.st = "Channel" /\ i # 0
    BY EventStates
<1>1. i \in 1 .. Len(epg) /\ InPlace(a, x) /\ x.ev \in Nat
    BY <1>0, InEpg
<1>2. epg[i].chan \in SeqToSet(channels)
    BY <1>0 DEF LSTEState
<1>3. Alike(x, y) /\ y.ev = x.ev /\ y.st = "Event"
    BY DEF EventLister, Alike
<1>4. LSTENext(x) = Step(Line(215, w, TRUE), y, FALSE)
    BY DEF LSTENext
<1>5. x.ev = Above(A, s, 0)
    BY <1>0, <1>1 DEF InPlace
<1>6. s \in Seq(Start) /\ Increasing(s) /\ A \subseteq DOMAIN s
    BY <1>1, ScheduleIs
<1>7. y.sched = i
    BY <1>3 DEF Alike
<1> HIDE DEF y
<1>8. EpgTells(a, y)
  <2>1. x.ev \in {0} \cup {s[k] : k \in A}
    <3> HIDE DEF s, A
    <3>1. 0 \in Nat
        OBVIOUS
    <3>2. \/ Above(A, s, 0) = 0
          \/ \E m \in A : Above(A, s, 0) = s[m]
        BY <1>6, <3>1, AboveIs
    <3> QED
        BY <1>5, <3>2
  <2>2. InPlace(a, y)
    BY <1>2, <1>3, <1>7, <2>1 DEF InPlace
  <2> QED
    BY <1>3, <2>2, AlikeBound DEF EpgTells
<1>9. EpgSoFar(a, y) = Append(EpgSoFar(a, x), w)
  <2>1. EpgSoFar(a, x) = Earlier(a, i)
    BY <1>0 DEF EpgSoFar
  <2>2. EpgSoFar(a, y) = EventsTold(a, i, x.ev)
    BY <1>0, <1>3, <1>7 DEF EpgSoFar
  <2>3. Passed(A, s, x.ev) = {}
    BY <1>5, <1>6, PassedFirst
  <2>4. EventsLines(s, {}) = <<>>
    BY <1>6, EventsLinesAre
  <2>5. EventsTold(a, i, x.ev) = Opened(a, i) \o <<>>
    BY <2>3, <2>4 DEF EventsTold
  <2>6. Opened(a, i) \o <<>> = Opened(a, i)
    BY <1>1, OpenedIs, ConcatEmptySeq
  <2> QED
    BY <2>1, <2>2, <2>5, <2>6 DEF Opened
<1> QED
    BY <1>4, <1>8, <1>9, EpgOnward

LEMMA EpgEvent ==
    ASSUME ListsTyped, NEW a, NEW x \in EventLister, InSchedule(x),
           EpgTells(a, x), LSTEState(x) = "Event"
    PROVE  EpgGoes(a, x, LSTENext(x))
<1> DEFINE y == [x EXCEPT !.st = "Field", !.f = 0]
           i == x.sched
           w == <<"E", x.ev, 0>>
<1>0. x.st = "Event" /\ i # 0 /\ x.ev # 0
    BY EventStates
<1>1. i \in 1 .. Len(epg) /\ InPlace(a, x) /\ x.ev \in Nat
    BY <1>0, InEpg
<1>3. Alike(x, y) /\ y.ev = x.ev /\ y.st = "Field" /\ y.f = 0
    BY DEF EventLister, Alike
<1>4. LSTENext(x) = Step(Line(215, w, TRUE), y, FALSE)
    BY DEF LSTENext
<1>7. y.sched = i
    BY <1>3 DEF Alike
<1> HIDE DEF y
<1>8. EpgTells(a, y)
  <2>2. InPlace(a, y)
    BY <1>0, <1>1, <1>3, <1>7 DEF InPlace
  <2> QED
    BY <1>3, <2>2, AlikeBound DEF EpgTells
<1>9. EpgSoFar(a, y) = Append(EpgSoFar(a, x), w)
  <2>1. EpgSoFar(a, x) = EventsTold(a, i, x.ev)
    BY <1>0 DEF EpgSoFar
  <2>2. EpgSoFar(a, y) = Append(EventsTold(a, i, x.ev), w)
                         \o FieldLines(x.ev, PassedFields(0))
    BY <1>0, <1>3, <1>7 DEF EpgSoFar
  <2>3. PassedFields(0) = {}
    BY FieldsAre DEF PassedFields
  <2>4. FieldLines(x.ev, {}) = <<>>
    BY <1>1, FieldLinesAre
  <2> HIDE DEF w
  <2>5. Append(EventsTold(a, i, x.ev), w) \in Seq(Texts)
    <3>1. w \in Texts
        BY <1>1, EventLinesAre DEF w
    <3> QED
        BY <1>1, <3>1, OpenedIs, AppendProperties
  <2> QED
    BY <2>1, <2>2, <2>3, <2>4, <2>5, ConcatEmptySeq
<1> HIDE DEF w
<1> QED
    BY <1>4, <1>8, <1>9, EpgOnward

LEMMA EpgField ==
    ASSUME ListsTyped, NEW a, NEW x \in EventLister, InSchedule(x),
           EpgTells(a, x), LSTEState(x) = "Field"
    PROVE  EpgGoes(a, x, LSTENext(x))
<1> DEFINE g == Min(LaterFields(x))
           y == [x EXCEPT !.st = "Field", !.f = g]
           i == x.sched
           w == <<Fields[g], x.ev, 0>>
           P == PassedFields(x.f)
           e == Append(EventsTold(a, i, x.ev), <<"E", x.ev, 0>>)
<1>0. x.st = "Field" /\ i # 0 /\ LaterFields(x) # {}
    BY EventStates
<1>1. i \in 1 .. Len(epg) /\ InPlace(a, x) /\ x.ev \in Nat /\ x.f \in Nat
    BY <1>0, InEpg
<1>2. LaterFields(x) = {j \in FilledFields : j > x.f}
    BY DEF LaterFields, FilledFields
<1>3. g \in FilledFields /\ g > x.f /\ \A j \in FilledFields : j > x.f => g <= j
  <2>1. LaterFields(x) \subseteq Nat
    BY <1>2, FieldsAre
  <2>2. g \in LaterFields(x) /\ \A j \in LaterFields(x) : g <= j
    BY <1>0, <2>1, MinIs
  <2> HIDE DEF g
  <2> QED
    BY <1>2, <2>2
<1>4. LSTENext(x) = Step(Line(215, w, TRUE), y, FALSE)
    BY DEF LSTENext, EventField
<1>5. Alike(x, y) /\ y.ev = x.ev /\ y.st = "Field" /\ y.f = g
  <2> HIDE DEF g
  <2> QED
    BY DEF EventLister, Alike
<1>7. y.sched = i
    BY <1>5 DEF Alike
<1> HIDE DEF y, g
<1>8. EpgTells(a, y)
  <2>2. InPlace(a, y)
    BY <1>0, <1>1, <1>5, <1>7 DEF InPlace
  <2> QED
    BY <1>5, <2>2, AlikeBound DEF EpgTells
<1>9. EpgSoFar(a, y) = Append(EpgSoFar(a, x), w)
  <2>1. EpgSoFar(a, x) = e \o FieldLines(x.ev, P)
    BY <1>0 DEF EpgSoFar
  <2>2. EpgSoFar(a, y) = e \o FieldLines(x.ev, PassedFields(g))
    BY <1>0, <1>5, <1>7 DEF EpgSoFar
  <2>3. /\ P \subseteq DOMAIN Fields /\ PassedFields(g) = P \cup {g}
        /\ g \in DOMAIN Fields /\ \A j \in P : j < g
    <3>1. \A j \in FilledFields : j \in Nat /\ j \in DOMAIN Fields
        BY FieldsAre
    <3>2. \A j \in FilledFields : j <= g <=> j <= x.f \/ j = g
        BY <1>1, <1>3, <3>1
    <3> QED
        BY <1>1, <1>3, <3>1, <3>2 DEF PassedFields
  <2> HIDE DEF P
  <2>4. /\ FieldLines(x.ev, P \cup {g}) = Append(FieldLines(x.ev, P), w)
        /\ FieldLines(x.ev, P) \in Seq(Texts)
    BY <1>1, <2>3, FieldLinesAre
  <2>5. w \in Texts /\ e \in Seq(Texts)
    <3>1. Fields[g] \in Tags /\ 0 \in Nat
        BY <2>3, FieldsAre
    <3>2. w \in Texts
        BY <1>1, <3>1, TextIs
    <3>3. <<"E", x.ev, 0>> \in Texts /\ EventsTold(a, i, x.ev) \in Seq(Texts)
        BY <1>1, EventLinesAre, OpenedIs
    <3> QED
        BY <3>2, <3>3, AppendProperties
  <2> HIDE DEF w, e
  <2>6. e \o Append(FieldLines(x.ev, P), w) = Append(e \o FieldLines(x.ev, P), w)
    BY <2>4, <2>5, JoinIs
  <2> QED
    BY <2>1, <2>2, <2>3, <2>4, <2>6
<1> QED
    BY <1>4, <1>8, <1>9, EpgOnward

LEMMA EpgEndEvent ==
    ASSUME ListsTyped, NEW a, NEW x \in EventLister, InSchedule(x),
           EpgTells(a, x), LSTEState(x) = "EndEvent"
    PROVE  EpgGoes(a, x, LSTENext(x))
<1> DEFINE i == x.sched
           s == epg[i].evs
           A == AskedOf(a, i)
           n == IF x.traverse THEN After(s, x.ev) ELSE 0
           e == IF x.to # 0 /\ n > x.to THEN 0 ELSE n
           st == IF e # 0 THEN "Event" ELSE "EndChannel"
           y == [x EXCEPT !.ev = e, !.f = 0, !.st = st]
           w == <<"e", 0, 0>>
           t == EventsTold(a, i, x.ev)
           E == <<"E", x.ev, 0>>
           F == FieldLines(x.ev, FilledFields)
<1>0. x.st = "Field" /\ i # 0 /\ LaterFields(x) = {}
  <2>1. x.st = "Field" /\ i # 0
    BY EventStates
  <2> QED
    BY <2>1 DEF LSTEState
<1>1. i \in 1 .. Len(epg) /\ InPlace(a, x) /\ x.ev \in Nat /\ x.f \in Nat
      /\ Dated(a)
    BY <1>0, InEpg
<1>2. s \in Seq(Start) /\ Increasing(s) /\ A \subseteq DOMAIN s
    BY <1>1, ScheduleIs
<1>3. PICK k \in A : x.ev = s[k]
    BY <1>0, <1>1 DEF InPlace
<1>4. e = Above(A, s, x.ev)
  <2>1. (x.traverse <=> Goon(a, s)) /\ x.to = Until(a, s)
    BY <1>0 DEF EpgTells, Bound
  <2>2. n = IF Goon(a, s) THEN After(s, s[k]) ELSE 0
    BY <1>3, <2>1
  <2>3. k \in Asked(a, s) /\ A = Asked(a, s)
    BY DEF AskedOf
  <2>4. e = IF Until(a, s) # 0 /\ n > Until(a, s) THEN 0 ELSE n
    BY <2>1
  <2> HIDE DEF n, s, A, e
  <2>5. (IF Until(a, s) # 0 /\ n > Until(a, s) THEN 0 ELSE n) =
          Above(Asked(a, s), s, s[k])
    BY <1>1, <1>2, <2>2, <2>3, AskedNext
  <2> QED
    BY <1>3, <2>3, <2>4, <2>5
<1>5. LSTENext(x) = Step(Line(215, w, TRUE), y, FALSE)
    BY DEF LSTENext, EndEvent
<1>6. Alike(x, y) /\ y.ev = e /\ y.st = st /\ y.f = 0
  <2> HIDE DEF e, st
  <2> QED
    BY DEF EventLister, Alike
<1>7. y.sched = i
    BY <1>6 DEF Alike
<1> HIDE DEF y, e, n
<1>8. EpgTells(a, y)
  <2>1. e \in {0} \cup {s[j] : j \in A}
    <3> HIDE DEF s, A
    <3>1. \/ Above(A, s, x.ev) = 0
          \/ \E m \in A : Above(A, s, x.ev) = s[m]
        BY <1>1, <1>2, AboveIs
    <3> QED
        BY <1>4, <3>1
  <2>2. InPlace(a, y)
    BY <1>0, <1>1, <1>6, <1>7, <2>1 DEF InPlace
  <2> QED
    BY <1>6, <2>2, AlikeBound DEF EpgTells
<1>9. EpgSoFar(a, y) = Append(EpgSoFar(a, x), w)
  <2> DEFINE P == Passed(A, s, x.ev)
             o == Opened(a, i)
  <2>1. EpgSoFar(a, x) = Append(t, E) \o FieldLines(x.ev, PassedFields(x.f))
    BY <1>0 DEF EpgSoFar
  <2>2. PassedFields(x.f) = FilledFields
    <3>1. \A j \in FilledFields : j \in Nat /\ ~(j > x.f)
        BY <1>0, FieldsAre DEF LaterFields, FilledFields
    <3>2. \A j \in FilledFields : j <= x.f
        BY <1>1, <3>1
    <3> QED
        BY <3>2 DEF PassedFields
  <2>3. EpgSoFar(a, y) = EventsTold(a, i, e)
    BY <1>0, <1>6, <1>7 DEF EpgSoFar
  <2>4. EventsTold(a, i, e) = o \o EventsLines(s, P \cup {k})
    <3>1. Passed(A, s, Above(A, s, s[k])) = Passed(A, s, s[k]) \cup {k}
      <4> HIDE DEF A, s
      <4> QED
        BY <1>2, PassedNext
    <3>2. Passed(A, s, e) = P \cup {k}
        BY <1>3, <1>4, <3>1
    <3> QED
        BY <3>2 DEF EventsTold
  <2>5. /\ EventsLines(s, P \cup {k}) = EventsLines(s, P) \o EventLines(x.ev)
        /\ EventsLines(s, P) \in Seq(Texts)
    <3>1. P \subseteq DOMAIN s /\ k \in DOMAIN s /\ \A j \in P : j < k
        BY <1>2, <1>3, PassedNext DEF Passed
    <3> HIDE DEF P, s, A
    <3> QED
        BY <1>2, <1>3, <3>1, EventsLinesAre
  <2>6. t = o \o EventsLines(s, P) /\ o \in Seq(Texts) /\ t \in Seq(Texts)
    BY <1>1, OpenedIs DEF EventsTold
  <2>7. /\ EventLines(x.ev) = Append(<<E>> \o F, w)
        /\ EventLines(x.ev) \in Seq(Texts) /\ E \in Texts /\ w \in Texts
    BY <1>1, EventLinesAre
  <2>8. F \in Seq(Texts)
    BY <1>1, FieldsAre, FieldLinesAre
  <2> HIDE DEF t, o, E, F, w, P, s, A
  <2>9. o \o EventsLines(s, P \cup {k}) = t \o EventLines(x.ev)
    <3> DEFINE u == EventsLines(s, P)
               v == EventLines(x.ev)
    <3>0. o \in Seq(Texts) /\ u \in Seq(Texts) /\ v \in Seq(Texts)
        BY <2>5, <2>6, <2>7
    <3> HIDE DEF u, v
    <3>1. (o \o u) \o v = o \o (u \o v)
        BY <3>0, ConcatAssociative
    <3> USE DEF u, v
    <3> QED
        BY <2>5, <2>6, <3>1
  <2>10. <<E>> \in Seq(Texts) /\ Append(t, E) = t \o <<E>>
    BY <2>6, <2>7, JoinIs
  <2>11. (t \o <<E>>) \o F = t \o (<<E>> \o F) /\ <<E>> \o F \in Seq(Texts)
    BY <2>6, <2>8, <2>10, ConcatAssociative, ConcatProperties
  <2>12. t \o Append(<<E>> \o F, w) = Append(t \o (<<E>> \o F), w)
    BY <2>6, <2>7, <2>11, JoinIs
  <2>13. EpgSoFar(a, x) = t \o (<<E>> \o F)
    BY <2>1, <2>2, <2>10, <2>11 DEF F
  <2>14. EpgSoFar(a, y) = t \o Append(<<E>> \o F, w)
    BY <2>3, <2>4, <2>7, <2>9
  <2> QED
    BY <2>12, <2>13, <2>14
<1> QED
    BY <1>5, <1>8, <1>9, EpgOnward

LEMMA EpgEndChannel ==
    ASSUME ListsTyped, NEW a, NEW x \in EventLister, InSchedule(x),
           EpgTells(a, x), LSTEState(x) = "EndChannel"
    PROVE  EpgGoes(a, x, LSTENext(x))
<1> DEFINE i == x.sched
           w == <<"c", 0, 0>>
           b == Earlier(a, i) \o LinesOf(a, i)
<1>0. i # 0 /\ Len(epg) \in Nat
    BY EventStates DEF ListsTyped
<1>1. i \in 1 .. Len(epg) /\ InPlace(a, x) /\ Dated(a)
      /\ Earlier(a, i) \in Seq(Texts)
    BY <1>0, InEpg
<1>2. \/ x.st = "Channel" /\ epg[i].chan \notin SeqToSet(channels)
      \/ x.st \in {"Event", "EndChannel"} /\ x.ev = 0
  <2>0. x.st \in {"Channel", "Event", "Field", "EndChannel", "EndEPG"}
    BY DEF EventLister
  <2>1. CASE x.st = "Channel"
    BY <1>0, <2>1 DEF LSTEState
  <2>2. CASE x.st = "Event"
    BY <2>2 DEF LSTEState
  <2>3. CASE x.st = "Field"
    BY <2>3 DEF LSTEState
  <2>4. CASE x.st = "EndChannel"
    BY <1>1, <2>4 DEF InPlace
  <2>5. CASE x.st = "EndEPG"
    BY <2>5 DEF LSTEState
  <2> QED
    BY <2>0, <2>1, <2>2, <2>3, <2>4, <2>5
<1>3. Append(EpgSoFar(a, x), w) = b
  <2>1. CASE x.st = "Channel" /\ epg[i].chan \notin SeqToSet(channels)
    <3>1. EpgSoFar(a, x) = Earlier(a, i)
        BY <1>0, <2>1 DEF EpgSoFar
    <3> QED
        BY <1>1, <2>1, <3>1, ScheduleTold
  <2>2. CASE x.st \in {"Event", "EndChannel"} /\ x.ev = 0
    <3>1. EpgSoFar(a, x) = EventsTold(a, i, 0)
        BY <1>0, <2>2 DEF EpgSoFar
    <3>2. epg[i].chan \in SeqToSet(channels)
        BY <1>1, <2>2 DEF InPlace
    <3> QED
        BY <1>1, <3>1, <3>2, ScheduleTold
  <2> QED
    BY <1>2, <2>1, <2>2
<1>4. (x.all <=> a.chan = 0) /\ x.op = "LSTE"
    BY DEF EpgTells, Bound
<1>5. CASE x.all /\ i < Len(epg)
  <2> DEFINE j == i + 1
             s == epg[j].evs
             y == [x EXCEPT !.sched = j, !.ev = First(s), !.st = "Channel"]
  <2>1. j \in 1 .. Len(epg) /\ j # 0
    BY <1>0, <1>1, <1>5
  <2>2. LSTENext(x) = Step(Line(215, w, TRUE), y, FALSE)
    BY <1>5, <2>1 DEF LSTENext, EndChannel
  <2> HIDE DEF j
  <2>3. /\ y.op = x.op /\ y.all = x.all /\ y.sched = j
        /\ y.traverse = x.traverse /\ y.to = x.to /\ y.ev = First(s)
        /\ y.st = "Channel"
    <3> HIDE DEF s
    <3> QED
        BY DEF EventLister
  <2> HIDE DEF y
  <2>4. a.chan = 0 /\ a.mode = "all"
    BY <1>4, <1>5 DEF EpgTells, Bound
  <2>5. \A e : Goon(a, e) /\ Until(a, e) = 0
    BY <2>4 DEF Goon, Until, Spans
  <2>6. Bound(a, y)
    <3>1. x.traverse /\ x.to = 0
        BY <1>0, <2>5 DEF EpgTells, Bound
    <3> QED
        BY <1>1, <1>4, <2>1, <2>3, <2>4, <2>5, <3>1 DEF Bound
  <2>7. y.ev = Above(AskedOf(a, j), s, 0)
    <3>1. s \in Seq(Start) /\ Increasing(s)
        BY <2>1, ScheduleIs
    <3>2. FirstEvent(a, s) = First(s)
        BY <2>4 DEF FirstEvent
    <3> QED
        BY <1>1, <2>3, <3>1, <3>2, AskedFirst DEF AskedOf
  <2>8. EpgTells(a, y)
    BY <2>3, <2>6, <2>7 DEF EpgTells, InPlace
  <2>9. EpgSoFar(a, y) = Append(EpgSoFar(a, x), w)
    <3>1. EpgSoFar(a, y) = Earlier(a, j)
        BY <2>1, <2>3 DEF EpgSoFar
    <3>2. i \in 1 .. Len(epg) + 1 /\ i # Len(epg) + 1
        BY <1>0, <1>1
    <3> QED
        BY <1>3, <2>4, <3>1, <3>2, SchedulesTold DEF j
  <2> QED
    BY <2>2, <2>8, <2>9, EpgOnward
<1>6. CASE ~(x.all /\ i < Len(epg))
  <2> DEFINE y == [x EXCEPT !.st = "EndEPG"]
  <2>1. LSTENext(x) = Step(Line(215, w, TRUE), y, FALSE)
    BY <1>6 DEF LSTENext, EndChannel
  <2>2. Alike(x, y) /\ y.st = "EndEPG"
    BY DEF EventLister, Alike
  <2> HIDE DEF y
  <2>3. EpgTells(a, y)
    BY <2>2, AlikeBound DEF EpgTells, InPlace
  <2>4. EpgSoFar(a, y) = AllOf(a)
    BY <2>2 DEF EpgSoFar
  <2>5. AllOf(a) = b
    <3>1. CASE a.chan = 0
      <4>1. i = Len(epg) /\ Len(epg) + 1 = i + 1
        BY <1>0, <1>1, <1>4, <1>6, <3>1
      <4>2. i \in 1 .. Len(epg) + 1 /\ i # Len(epg) + 1
        BY <1>0, <1>1
      <4>3. Earlier(a, i + 1) = b
        BY <3>1, <4>2, SchedulesTold
      <4> QED
        BY <3>1, <4>1, <4>3 DEF AllOf
    <3>2. CASE a.chan # 0
      <4>1. i = Min(SchedulesOf(a.chan))
        BY <3>2 DEF EpgTells, Bound
      <4>2. Earlier(a, i) = <<>>
        BY <3>2 DEF Earlier
      <4>3. LinesOf(a, i) \in Seq(Texts)
        BY <1>1, LinesIn
      <4>4. <<>> \o LinesOf(a, i) = LinesOf(a, i)
        BY <4>3, ConcatEmptySeq
      <4>5. b = LinesOf(a, i)
        BY <4>2, <4>4
      <4> HIDE DEF b
      <4> QED
        BY <3>2, <4>1, <4>5 DEF AllOf
    <3> QED
        BY <3>1, <3>2
  <2> QED
    BY <1>3, <2>1, <2>3, <2>4, <2>5, EpgOnward
<1> QED
    BY <1>5, <1>6

LEMMA EpgStep ==
    ASSUME ListsTyped, NEW a, NEW x \in EventLister, InSchedule(x),
           EpgTells(a, x)
    PROVE  EpgGoes(a, x, LSTENext(x))
<1>1. LSTEState(x) \in {"Channel", "Event", "Field", "EndEvent", "EndChannel",
                        "EndEPG"}
    BY EventStates
<1>2. CASE LSTEState(x) = "EndEPG"
  <2> DEFINE w == <<"End", 0, 0>>
             n == Step(Line(215, w, FALSE), x, TRUE)
  <2>1. LSTENext(x) = n
    BY <1>2 DEF LSTENext
  <2>2. n.last /\ n.line.what = w
    BY DEF Step, Line
  <2>3. x.st = "EndEPG" \/ x.sched = 0
    <3>0. x.st \in {"Channel", "Event", "Field", "EndChannel", "EndEPG"}
        BY DEF EventLister
    <3>1. CASE x.st = "Channel"
        BY <1>2, <3>1 DEF LSTEState
    <3>2. CASE x.st = "Event"
        BY <1>2, <3>2 DEF LSTEState
    <3>3. CASE x.st = "Field"
        BY <1>2, <3>3 DEF LSTEState
    <3>4. CASE x.st = "EndChannel"
        BY <1>2, <3>4 DEF LSTEState
    <3> QED
        BY <3>0, <3>1, <3>2, <3>3, <3>4
  <2>4. EpgSoFar(a, x) = AllOf(a)
    BY <2>3 DEF EpgSoFar
  <2> HIDE DEF n
  <2> QED
    BY <2>1, <2>2, <2>4 DEF EpgGoes
<1> QED
    BY <1>1, <1>2, EpgChannel, EpgEvent, EpgField, EpgEndEvent, EpgEndChannel

-----------------------------------------------------------------------------
(* The channels with the text of LSTC in their name.                       *)

AllNamed == {n \in DOMAIN channels : channels[n] \in named}
NamedTo(n) == {k \in AllNamed : k < n}
ChannelSoFar(x) == Selected(Numbered(channels), NamedTo(Pos(channels, x.held)))
ChannelTells(x) ==
    /\ x \in ChannelLister /\ x.text /\ x.traverse
    /\ x.held \in SeqToSet(channels) /\ Pos(channels, x.held) \in AllNamed

LEMMA NumberedIs ==
    ASSUME ListsTyped
    PROVE  /\ Numbered(channels) \in Seq(Texts)
           /\ DOMAIN Numbered(channels) = DOMAIN channels
           /\ DOMAIN channels = 1 .. Len(channels) /\ Len(channels) \in Nat
           /\ \A n \in DOMAIN channels :
                Numbered(channels)[n] = <<"", n, channels[n]>>
<1>1. channels \in Seq(Nat)
    BY SeqMonotonic, VTPListsAssumption DEF ListsTyped
<1> DEFINE s == channels
<1> HIDE DEF s
<1>2. s \in Seq(Nat) /\ DOMAIN s = 1 .. Len(s) /\ Len(s) \in Nat
    BY <1>1 DEF s
<1>3. \A n \in DOMAIN s : <<"", n, s[n]>> \in Texts
  <2>1. "" \in Tags /\ \A n \in DOMAIN s : n \in Nat /\ s[n] \in Nat
    BY <1>2 DEF Tags
  <2> QED
    BY <2>1, TextIs
<1>4. /\ Numbered(s) \in Seq(Texts) /\ DOMAIN Numbered(s) = DOMAIN s
      /\ \A n \in DOMAIN s : Numbered(s)[n] = <<"", n, s[n]>>
  <2> DEFINE u == [i \in DOMAIN s |-> <<"", i, s[i]>>]
  <2>1. u \in Seq(Texts)
    <3> DEFINE w(n) == <<"", n, s[n]>>
    <3>1. \A n \in DOMAIN s : w(n) \in Texts
        BY <1>3
    <3> HIDE DEF w
    <3>2. [n \in DOMAIN s |-> w(n)] \in Seq(Texts)
        BY <1>2, <3>1
    <3> QED
        BY <3>2 DEF w
  <2>2. DOMAIN u = DOMAIN s /\ \A n \in DOMAIN s : u[n] = <<"", n, s[n]>>
    OBVIOUS
  <2>3. Numbered(s) = u
    BY DEF Numbered
  <2> HIDE DEF u
  <2> QED
    BY <2>1, <2>2, <2>3
<1> QED
    BY <1>2, <1>4 DEF s

LEMMA NamedFrom ==
    ASSUME ListsTyped, NEW i \in Nat, NEW text, text
    PROVE  \/ /\ ChannelFrom(i, text) = 0 /\ \A n \in AllNamed : ~(n >= i)
           \/ \E m \in AllNamed : /\ ChannelFrom(i, text) = channels[m]
                                  /\ m >= i /\ channels[m] # 0
                                  /\ Pos(channels, channels[m]) = m
                                  /\ channels[m] \in SeqToSet(channels)
                                  /\ \A n \in AllNamed : n >= i => m <= n
<1> DEFINE T == {n \in DOMAIN channels :
                   n >= i /\ (text => channels[n] \in named)}
<1>1. ChannelFrom(i, text) = IF T = {} THEN 0 ELSE channels[Min(T)]
    BY DEF ChannelFrom
<1>2. T = {n \in AllNamed : n >= i} /\ AllNamed \subseteq DOMAIN channels
    BY DEF AllNamed
<1>3. DOMAIN channels \subseteq Nat /\ Distinct(channels)
    BY DEF ListsTyped
<1> HIDE DEF T
<1>4. CASE T = {}
    BY <1>1, <1>2, <1>4
<1>5. CASE T # {}
  <2> DEFINE m == Min(T)
  <2>1. T \subseteq Nat
    BY <1>2, <1>3
  <2>2. m \in T /\ \A n \in T : m <= n
    BY <1>5, <2>1, MinIs
  <2>3. ChannelFrom(i, text) = channels[m]
    BY <1>1, <1>5
  <2> HIDE DEF m
  <2>4. m \in AllNamed /\ m >= i /\ m \in DOMAIN channels
    BY <1>2, <2>2
  <2>5. channels[m] # 0
    BY <2>4, VTPListsAssumption DEF ListsTyped
  <2>6. Pos(channels, channels[m]) = m
    BY <1>3, <2>4, NumberOf
  <2>7. channels[m] \in SeqToSet(channels)
    BY <2>4 DEF SeqToSet
  <2> QED
    BY <1>2, <2>2, <2>3, <2>4, <2>5, <2>6, <2>7
<1> QED
    BY <1>4, <1>5

ChannelGoes(x, n) ==
    /\ ~n.last => /\ ChannelTells(n.h)
                  /\ ChannelSoFar(n.h) = Append(ChannelSoFar(x), n.line.what)
    /\ n.last => Selected(Numbered(channels), AllNamed) =
                   Append(ChannelSoFar(x), n.line.what)

LEMMA ChannelStep ==
    ASSUME ListsTyped, NEW x, ChannelTells(x)
    PROVE  ChannelGoes(x, LSTCNext(x))
<1> DEFINE k == Pos(channels, x.held)
           c == IF x.traverse THEN ChannelFrom(k + 1, x.text) ELSE 0
           y == [x EXCEPT !.held = c]
           w == <<"", k, x.held>>
           t == Numbered(channels)
           n == LSTCNext(x)
<1>1. /\ x \in ChannelLister /\ x.text /\ x.traverse
      /\ k \in AllNamed /\ k \in DOMAIN channels /\ channels[k] = x.held
    BY PosIs DEF ChannelTells
<1>2. /\ t \in Seq(Texts) /\ DOMAIN t = DOMAIN channels
      /\ DOMAIN channels = 1 .. Len(channels) /\ Len(channels) \in Nat
      /\ t[k] = w
    BY <1>1, NumberedIs
<1>3. k + 1 \in Nat /\ k \in Nat
  <2>0. DOMAIN channels \subseteq Nat
    BY DEF ListsTyped
  <2> HIDE DEF k
  <2>1. k \in Nat
    BY <1>1, <2>0
  <2> QED
    BY <2>1
<1>4. c = ChannelFrom(k + 1, x.text)
    BY <1>1
<1>5. n = Step(Line(250, w, c # 0), IF c # 0 THEN y ELSE x, c = 0)
    BY DEF LSTCNext
<1>6. ASSUME c \in Nat
      PROVE  y \in ChannelLister /\ y.held = c /\ y.text = x.text
             /\ y.traverse = x.traverse
    BY <1>1, <1>6 DEF ChannelLister
<1> HIDE DEF c, w, y
<1>7. n.line.what = w /\ n.last = (c = 0) /\ (n.h = IF c # 0 THEN y ELSE x)
    BY <1>5 DEF Step, Line
<1>8. Selected(t, NamedTo(k) \cup {k}) = Append(Selected(t, NamedTo(k)), w)
  <2>1. NamedTo(k) \subseteq DOMAIN t /\ \A j \in NamedTo(k) : j < k
    BY <1>2 DEF NamedTo, AllNamed
  <2> HIDE DEF t, k
  <2> QED
    BY <1>1, <1>2, <2>1, SelectedAdd
<1>9. \A j \in AllNamed : j \in Nat /\ (j < k \/ j = k \/ j >= k + 1)
    BY <1>2, <1>3 DEF AllNamed
<1>10. \/ /\ c = 0 /\ \A j \in AllNamed : ~(j >= k + 1)
       \/ \E m \in AllNamed : /\ c = channels[m] /\ m >= k + 1 /\ channels[m] # 0
                              /\ Pos(channels, channels[m]) = m
                              /\ channels[m] \in SeqToSet(channels)
                              /\ \A j \in AllNamed : j >= k + 1 => m <= j
    BY <1>1, <1>3, <1>4, NamedFrom
<1>11. CASE c = 0 /\ \A j \in AllNamed : ~(j >= k + 1)
  <2>1. AllNamed = NamedTo(k) \cup {k}
    BY <1>1, <1>9, <1>11 DEF NamedTo
  <2> HIDE DEF n
  <2>2. ChannelGoes(x, n)
    BY <1>7, <1>8, <1>11, <2>1 DEF ChannelGoes, ChannelSoFar
  <2> QED
    BY <2>2 DEF n
<1>12. CASE c # 0
  <2>1. PICK m \in AllNamed : /\ c = channels[m] /\ m >= k + 1 /\ channels[m] # 0
                              /\ Pos(channels, channels[m]) = m
                              /\ channels[m] \in SeqToSet(channels)
                              /\ \A j \in AllNamed : j >= k + 1 => m <= j
    BY <1>10, <1>12
  <2>2. NamedTo(m) = NamedTo(k) \cup {k}
    <3>1. m \in Nat
        BY <1>9, <2>1
    <3>2. \A j \in AllNamed : j < m <=> j < k \/ j = k
        BY <1>3, <1>9, <2>1, <3>1
    <3> QED
        BY <1>1, <3>2 DEF NamedTo
  <2>3. c \in Nat
    <3>1. channels \in Seq(Nat)
        BY SeqMonotonic, VTPListsAssumption DEF ListsTyped
    <3>2. SeqToSet(channels) \subseteq Nat
        BY <3>1, SeqToSetIn
    <3> QED
        BY <2>1, <3>2
  <2>4. ChannelTells(y) /\ Pos(channels, y.held) = m
    BY <1>1, <1>6, <2>1, <2>3 DEF ChannelTells
  <2>5. ChannelSoFar(y) = Append(ChannelSoFar(x), w)
    BY <1>8, <2>2, <2>4 DEF ChannelSoFar
  <2> HIDE DEF n
  <2>6. ChannelGoes(x, n)
    BY <1>7, <1>12, <2>4, <2>5 DEF ChannelGoes
  <2> QED
    BY <2>6 DEF n
<1> QED
    BY <1>10, <1>11, <1>12

LEMMA ChannelsBegin ==
    ASSUME ListsTyped, NEW a, a.nr = 0, a.text \in BOOLEAN, a.text
    PROVE  LET x == LSTCHandler(a) IN
           \/ x = Failed("LSTC", 501)
           \/ x.err = 0 /\ ChannelTells(x) /\ ChannelSoFar(x) = <<>>
<1> DEFINE c == ChannelFrom(1, a.text)
           y == [op |-> "LSTC", err |-> 0, held |-> c, text |-> a.text,
                 traverse |-> a.nr = 0]
<1>1. LSTCHandler(a) = IF c = 0 THEN Failed("LSTC", 501) ELSE y
    BY DEF LSTCHandler
<1>2. CASE c = 0
    BY <1>1, <1>2
<1>3. CASE c # 0
  <2> DEFINE one == 1
  <2>0. one \in Nat
    OBVIOUS
  <2>1. PICK m \in AllNamed : /\ c = channels[m] /\ channels[m] # 0
                              /\ Pos(channels, channels[m]) = m
                              /\ channels[m] \in SeqToSet(channels)
                              /\ \A j \in AllNamed : j >= one => m <= j
    <3> HIDE DEF one
    <3>1. \/ /\ ChannelFrom(one, a.text) = 0 /\ \A j \in AllNamed : ~(j >= one)
          \/ \E m \in AllNamed : /\ ChannelFrom(one, a.text) = channels[m]
                                 /\ m >= one /\ channels[m] # 0
                                 /\ Pos(channels, channels[m]) = m
                                 /\ channels[m] \in SeqToSet(channels)
                                 /\ \A j \in AllNamed : j >= one => m <= j
        BY <2>0, NamedFrom
    <3>2. c = ChannelFrom(one, a.text)
        BY DEF one
    <3> HIDE DEF c
    <3> QED
        BY <1>3, <3>1, <3>2
  <2>2. c \in Nat
    <3>1. channels \in Seq(Nat)
        BY SeqMonotonic, VTPListsAssumption DEF ListsTyped
    <3>2. SeqToSet(channels) \subseteq Nat
        BY <3>1, SeqToSetIn
    <3> QED
        BY <2>1, <3>2
  <2> HIDE DEF c
  <2>3. /\ y \in ChannelLister /\ y.err = 0 /\ y.held = c /\ y.text /\ y.traverse
    BY <2>2 DEF ChannelLister
  <2> HIDE DEF y
  <2>4. ChannelTells(y) /\ Pos(channels, y.held) = m
    BY <2>1, <2>3 DEF ChannelTells
  <2>5. NamedTo(m) = {}
    <3>1. \A j \in AllNamed : j \in Nat /\ j >= 1
      <4>1. DOMAIN channels = 1 .. Len(channels) /\ Len(channels) \in Nat
        BY DEF ListsTyped
      <4>2. \A j \in DOMAIN channels : j \in Nat /\ j >= 1
        BY <4>1
      <4> QED
        BY <4>2 DEF AllNamed
    <3> QED
        BY <2>1, <3>1 DEF NamedTo
  <2>6. ChannelSoFar(y) = <<>>
    BY <2>4, <2>5, SelectedNone DEF ChannelSoFar
  <2> QED
    BY <1>1, <1>3, <2>3, <2>4, <2>6
<1> QED
    BY <1>2, <1>3

-----------------------------------------------------------------------------
(* The EPG from its start.                                                 *)

LEMMA EpgBegins ==
    ASSUME ListsTyped, NEW a, a.chan \in Nat, a.mode \in Modes \cup {"bad"},
           a.from \in Nat, a.to \in Nat, a.chan # 0 \/ a.mode = "all"
    PROVE  LET x == LSTEHandler(a) IN
           \/ \E c \in {501, 550} : x = Failed("LSTE", c)
           \/ x.err = 0 /\ EpgTells(a, x) /\ EpgSoFar(a, x) = <<>>
<1> DEFINE one == a.chan # 0
           T == IF one THEN SchedulesOf(a.chan) ELSE DOMAIN epg
           i == IF T = {} THEN 0 ELSE Min(T)
           evs == IF i = 0 THEN <<>> ELSE epg[i].evs
           many == a.mode = "from" /\ Len(evs) > 1
           e == FirstEvent(a, evs)
           tr == (a.mode = "all" /\ i # 0) \/ many
           to == IF many /\ a.to > Last(evs) + 1 THEN Last(evs) + 1
                 ELSE IF a.mode = "from" THEN a.to ELSE 0
           x == [op |-> "LSTE", err |-> 0, st |-> "Channel", f |-> 0,
                 sched |-> i, all |-> ~one, ev |-> e, traverse |-> tr, to |-> to]
<1>1. CASE a.mode = "bad"
    BY <1>1 DEF LSTEHandler
<1>2. CASE a.mode # "bad" /\ one /\ (a.chan \notin SeqToSet(channels) \/ i = 0)
    BY <1>2 DEF LSTEHandler
<1>3. CASE a.mode # "bad" /\ ~(one /\ (a.chan \notin SeqToSet(channels) \/ i = 0))
  <2>1. LSTEHandler(a) = x
    BY <1>3 DEF LSTEHandler
  <2>2. T \subseteq DOMAIN epg /\ DOMAIN epg = 1 .. Len(epg) /\ Len(epg) \in Nat
    BY DEF SchedulesOf, ListsTyped
  <2>3. /\ x.op = "LSTE" /\ x.err = 0 /\ x.st = "Channel" /\ x.sched = i
        /\ x.all = ~one /\ x.ev = e /\ x.traverse = tr /\ x.to = to
    <3> HIDE DEF i, e, tr, to, one
    <3> QED
        OBVIOUS
  <2>4. Dated(a)
    BY <1>3 DEF Dated
  <2>5. i \in 0 .. Len(epg) /\ (i = 0 <=> T = {})
    <3>1. CASE T = {}
        BY <2>2, <3>1
    <3>2. CASE T # {}
      <4> HIDE DEF T
      <4>1. T \subseteq Nat
        BY <2>2
      <4>2. Min(T) \in T
        BY <3>2, <4>1, MinIs
      <4>3. Min(T) \in 1 .. Len(epg)
        BY <2>2, <4>2
      <4> QED
        BY <2>2, <3>2, <4>3
    <3> QED
        BY <3>1, <3>2
  <2>6. i # 0 => i = Min(T)
    OBVIOUS
  <2>7. ~one => a.mode = "all" /\ (i = 0 => Len(epg) = 0) /\ (i # 0 => i = 1)
    <3> SUFFICES ASSUME ~one PROVE (i = 0 => Len(epg) = 0) /\ (i # 0 => i = 1)
        OBVIOUS
    <3>1. T = 1 .. Len(epg)
        BY <2>2
    <3>2. i = 0 => Len(epg) = 0
        BY <2>2, <2>5, <3>1
    <3>3. ASSUME i # 0 PROVE i = 1
      <4>1. T # {} /\ T \subseteq Nat /\ 1 \in T
        BY <2>2, <2>5, <3>1, <3>3
      <4> HIDE DEF T
      <4>2. Min(T) \in T /\ Min(T) <= 1
        BY <4>1, MinIs
      <4>3. Min(T) \in Nat /\ Min(T) >= 1
        BY <3>1, <4>2
      <4> QED
        BY <2>6, <3>3, <4>2, <4>3 DEF T
    <3> QED
        BY <3>2, <3>3
  <2>8. Bound(a, x)
    <3>1. /\ one => i # 0 /\ i = Min(SchedulesOf(a.chan))
        BY <1>3, <2>6
    <3>2. i # 0 => (tr <=> Goon(a, epg[i].evs)) /\ to = Until(a, epg[i].evs)
        BY DEF Goon, Until, Spans
    <3> HIDE DEF x, tr, to, e, i
    <3> QED
        BY <2>3, <2>4, <2>7, <3>1, <3>2 DEF Bound
  <2>9. ASSUME i # 0 PROVE InPlace(a, x)
    <3>1. i \in 1 .. Len(epg) /\ evs = epg[i].evs
        BY <2>2, <2>5, <2>9
    <3>2. evs \in Seq(Start) /\ Increasing(evs)
      <4> HIDE DEF i, evs
      <4> QED
        BY <3>1, ScheduleIs
    <3> HIDE DEF x, tr, to, i
    <3>3. e = Above(AskedOf(a, i), evs, 0)
      <4> HIDE DEF evs
      <4>1. e = Above(Asked(a, evs), evs, 0)
        BY <2>4, <3>2, AskedFirst
      <4> QED
        BY <3>1, <4>1 DEF AskedOf
    <3> HIDE DEF e, evs
    <3> QED
        BY <2>3, <3>1, <3>3 DEF InPlace
  <2>10. EpgSoFar(a, x) = <<>>
    <3>1. Earlier(a, 1) = <<>>
      <4>1. [k \in 1 .. 1 - 1 |-> LinesOf(a, k)] = <<>>
        OBVIOUS
      <4> QED
        BY <4>1, FlattenNone DEF Earlier
    <3>2. one => Earlier(a, i) = <<>>
        BY DEF Earlier
    <3>3. one => i # 0
        BY <1>3
    <3> HIDE DEF x, tr, to, e, i
    <3>4. CASE i = 0
      <4>1. AllOf(a) = Earlier(a, Len(epg) + 1) /\ Len(epg) = 0
        BY <2>7, <3>3, <3>4 DEF AllOf
      <4>2. Len(epg) + 1 = 1
        BY <4>1
      <4> QED
        BY <2>3, <3>1, <3>4, <4>1, <4>2 DEF EpgSoFar
    <3>5. CASE i # 0
        BY <2>3, <2>7, <3>1, <3>2, <3>5 DEF EpgSoFar
    <3> QED
        BY <3>4, <3>5
  <2> HIDE DEF x
  <2> QED
    BY <2>1, <2>3, <2>8, <2>9, <2>10 DEF EpgTells
<1> QED
    BY <1>1, <1>2, <1>3

-----------------------------------------------------------------------------
(* The operators above depend on VDR's lists alone.                        *)

LEMMA EpgLinesSame ==
    ASSUME UNCHANGED <<epg, channels, filled>>
    PROVE  /\ FilledFields' = FilledFields
           /\ \A s, T : EventsLines(s, T)' = EventsLines(s, T)
           /\ \A a, i : AskedOf(a, i)' = AskedOf(a, i)
           /\ \A a, i : LinesOf(a, i)' = LinesOf(a, i)
<1>1. FilledFields' = FilledFields
    BY DEF FilledFields
<1>2. \A e : EventLines(e)' = EventLines(e)
    BY <1>1 DEF EventLines
<1>3. ASSUME NEW s, NEW T PROVE EventsLines(s, T)' = EventsLines(s, T)
  <2>1. [k \in DOMAIN s |-> EventLines(s[k])]' = [k \in DOMAIN s |-> EventLines(s[k])]
    BY <1>2
  <2> QED
    BY <2>1 DEF EventsLines
<1>4. \A a, i : AskedOf(a, i)' = AskedOf(a, i)
    BY DEF AskedOf
<1>5. \A i, T : ChannelLines(i, T)' = ChannelLines(i, T)
    BY <1>3 DEF ChannelLines
<1>6. \A a, i : LinesOf(a, i)' = LinesOf(a, i)
    BY <1>4, <1>5 DEF LinesOf
<1> QED
    BY <1>1, <1>3, <1>4, <1>6

LEMMA EpgSame ==
    ASSUME UNCHANGED <<epg, channels, filled>>
    PROVE  /\ \A a : AllOf(a)' = AllOf(a)
           /\ \A a, x : EpgSoFar(a, x)' = EpgSoFar(a, x)
           /\ \A a, x : EpgTells(a, x)' <=> EpgTells(a, x)
<1>1. /\ FilledFields' = FilledFields
      /\ \A s, T : EventsLines(s, T)' = EventsLines(s, T)
      /\ \A a, i : AskedOf(a, i)' = AskedOf(a, i)
      /\ \A a, i : LinesOf(a, i)' = LinesOf(a, i)
    BY EpgLinesSame
<1>2. ASSUME NEW a, NEW i PROVE Earlier(a, i)' = Earlier(a, i)
  <2>1. [k \in 1 .. i - 1 |-> LinesOf(a, k)]' = [k \in 1 .. i - 1 |-> LinesOf(a, k)]
    BY <1>1
  <2> QED
    BY <2>1 DEF Earlier
<1>3. \A c : SchedulesOf(c)' = SchedulesOf(c)
    BY DEF SchedulesOf
<1>4. \A a : AllOf(a)' = AllOf(a)
    BY <1>1, <1>2, <1>3 DEF AllOf
<1>5. \A a, i : Opened(a, i)' = Opened(a, i)
    BY <1>2 DEF Opened
<1>6. \A a, i, e : EventsTold(a, i, e)' = EventsTold(a, i, e)
    BY <1>1, <1>5 DEF EventsTold
<1>7. \A f : PassedFields(f)' = PassedFields(f)
    BY <1>1 DEF PassedFields
<1>8. \A a, x : EpgSoFar(a, x)' = EpgSoFar(a, x)
    BY <1>2, <1>4, <1>6, <1>7 DEF EpgSoFar
<1>9. \A a, x : Bound(a, x)' <=> Bound(a, x)
    BY <1>3 DEF Bound
<1>10. \A a, x : InPlace(a, x)' <=> InPlace(a, x)
    BY <1>1 DEF InPlace
<1>11. \A a, x : EpgTells(a, x)' <=> EpgTells(a, x)
    BY <1>9, <1>10 DEF EpgTells
<1> QED
    BY <1>4, <1>8, <1>11

LEMMA ChannelSame ==
    ASSUME UNCHANGED <<channels, named>>
    PROVE  /\ AllNamed' = AllNamed
           /\ \A x : ChannelSoFar(x)' = ChannelSoFar(x)
           /\ \A x : ChannelTells(x)' <=> ChannelTells(x)
<1>1. AllNamed' = AllNamed
    BY DEF AllNamed
<1>2. \A n : NamedTo(n)' = NamedTo(n)
    BY <1>1 DEF NamedTo
<1>3. \A x : ChannelSoFar(x)' = ChannelSoFar(x)
    BY <1>2 DEF ChannelSoFar
<1>4. \A x : ChannelTells(x)' <=> ChannelTells(x)
    BY <1>1 DEF ChannelTells
<1> QED
    BY <1>1, <1>3, <1>4

-----------------------------------------------------------------------------
(* The listings that select what they tell.                                *)

Selective(a) == \/ a.op = "LSTC" /\ a.text
                \/ a.op = "LSTE" /\ (a.chan # 0 \/ a.mode = "all")
Tells(a, x) == IF a.op = "LSTC" THEN ChannelTells(x) ELSE EpgTells(a, x)
SoFar(a, x) == IF a.op = "LSTC" THEN ChannelSoFar(x) ELSE EpgSoFar(a, x)
WholeOf(a) == IF a.op = "LSTC" THEN Selected(Numbered(channels), AllNamed)
              ELSE Append(AllOf(a), <<"End", 0, 0>>)

Partly == busy /\ changed = {} /\ Selective(req) =>
            Tells(req, h) /\ What = SoFar(req, h)

LEMMA SelectSame ==
    ASSUME UNCHANGED <<epg, channels, named, filled>>
    PROVE  /\ \A a, x : SoFar(a, x)' = SoFar(a, x)
           /\ \A a, x : Tells(a, x)' <=> Tells(a, x)
           /\ \A a : WholeOf(a)' = WholeOf(a)
<1>1. /\ \A a : AllOf(a)' = AllOf(a)
      /\ \A a, x : EpgSoFar(a, x)' = EpgSoFar(a, x)
      /\ \A a, x : EpgTells(a, x)' <=> EpgTells(a, x)
    BY EpgSame
<1>2. /\ AllNamed' = AllNamed
      /\ \A x : ChannelSoFar(x)' = ChannelSoFar(x)
      /\ \A x : ChannelTells(x)' <=> ChannelTells(x)
    BY ChannelSame
<1> QED
    BY <1>1, <1>2 DEF SoFar, Tells, WholeOf

WhatOf(s) == [i \in DOMAIN s |-> s[i].what]

LEMMA WhatAppend ==
    ASSUME NEW s, IsSequence(s), NEW l
    PROVE  WhatOf(Append(s, l)) = Append(WhatOf(s), l.what)
<1> DEFINE T == {s[i].what : i \in DOMAIN s} \cup {l.what}
           u == WhatOf(s)
           v == WhatOf(Append(s, l))
<1>1. /\ Len(s) \in Nat /\ DOMAIN s = 1 .. Len(s)
      /\ DOMAIN Append(s, l) = 1 .. Len(s) + 1
      /\ \A i \in 1 .. Len(s) : Append(s, l)[i] = s[i]
      /\ Append(s, l)[Len(s) + 1] = l
    BY AppendIs
<1>2. /\ u = [i \in 1 .. Len(s) |-> u[i]]
      /\ \A i \in 1 .. Len(s) : u[i] = s[i].what
    BY <1>1 DEF WhatOf
<1>3. /\ v = [i \in 1 .. Len(s) + 1 |-> v[i]]
      /\ \A i \in 1 .. Len(s) + 1 : v[i] = Append(s, l)[i].what
    BY <1>1 DEF WhatOf
<1> HIDE DEF u, v
<1>4. \A i \in 1 .. Len(s) : u[i] \in T /\ v[i] = u[i]
    BY <1>1, <1>2, <1>3
<1>5. v[Len(s) + 1] = l.what /\ l.what \in T
    BY <1>1, <1>3
<1> HIDE DEF T
<1>6. u \in Seq(T) /\ Len(u) = Len(s)
    BY <1>1, <1>2, <1>4
<1>7. v \in Seq(T) /\ DOMAIN v = 1 .. Len(s) + 1
    BY <1>1, <1>3, <1>4, <1>5
<1>8. v = Append(u, l.what)
    BY <1>1, <1>4, <1>5, <1>6, <1>7, AppendedIs
<1> QED
    BY <1>8 DEF u, v

LEMMA HandlerTells ==
    ASSUME ListsTyped, NEW a, Selective(a), NEW x, Lister(x), Tells(a, x),
           NEW n, n = HandlerNext(x)
    PROVE  /\ ~n.last => /\ Tells(a, n.h)
                         /\ SoFar(a, n.h) = Append(SoFar(a, x), n.line.what)
           /\ n.last => WholeOf(a) = Append(SoFar(a, x), n.line.what)
<1>1. CASE a.op = "LSTC"
  <2>1. ChannelTells(x)
    BY <1>1 DEF Tells
  <2>2. x.op = "LSTC" /\ x.err = 0
    BY <2>1 DEF ChannelTells, ChannelLister
  <2>3. n = LSTCNext(x)
    BY <2>2 DEF HandlerNext
  <2>4. ChannelGoes(x, n)
    BY <2>1, <2>3, ChannelStep
  <2> QED
    BY <1>1, <2>4 DEF ChannelGoes, Tells, SoFar, WholeOf
<1>2. CASE a.op # "LSTC"
  <2>1. EpgTells(a, x)
    BY <1>2 DEF Tells
  <2>2. x.op = "LSTE"
    BY <2>1 DEF EpgTells, Bound
  <2>3. x \in EventLister /\ InSchedule(x) /\ x.err = 0
    BY <2>2 DEF Lister, EventLister, ChannelLister, IndexLister, RecordingLister
  <2>4. n = LSTENext(x)
    BY <2>2, <2>3 DEF HandlerNext
  <2>5. EpgGoes(a, x, n)
    BY <2>1, <2>3, <2>4, EpgStep
  <2> QED
    BY <1>2, <2>5 DEF EpgGoes, Tells, SoFar, WholeOf
<1> QED
    BY <1>1, <1>2

(* The schedule of the channel asked for is there.                         *)
Found(a) == a.op = "LSTE" /\ a.chan # 0 =>
              Min(SchedulesOf(a.chan)) \in 1 .. Len(epg)
Whole == Undisturbed /\ Selective(req) => Found(req) /\ What = WholeOf(req)
SelectInv == Partly /\ Whole

LEMMA TellsFound ==
    ASSUME ListsTyped, NEW a, a.op \in {"LSTC", "LSTE"}, NEW x, Lister(x), Tells(a, x)
    PROVE  Found(a)
<1> SUFFICES ASSUME a.op = "LSTE", a.chan # 0
             PROVE  Min(SchedulesOf(a.chan)) \in 1 .. Len(epg)
    BY DEF Found
<1>1. Bound(a, x)
    BY DEF Tells, EpgTells
<1>2. x.op = "LSTE" /\ x.sched # 0 /\ x.sched = Min(SchedulesOf(a.chan))
    BY <1>1 DEF Bound
<1>3. x.sched \in 0 .. Len(epg) /\ Len(epg) \in Nat
    BY <1>2, ListerIs DEF InSchedule, ListsTyped
<1> QED
    BY <1>2, <1>3

LEMMA SelectKept ==
    ASSUME UNCHANGED vdrVars
    PROVE  /\ \A a, x : SoFar(a, x)' = SoFar(a, x)
           /\ \A a, x : Tells(a, x)' <=> Tells(a, x)
           /\ \A a : WholeOf(a)' = WholeOf(a)
           /\ \A a : Found(a)' <=> Found(a)
<1>1. UNCHANGED <<epg, channels, named, filled>>
    BY DEF vdrVars
<1>2. \A a : Found(a)' <=> Found(a)
    BY <1>1 DEF Found, SchedulesOf
<1> QED
    BY <1>1, <1>2, SelectSame

(* One more line of a listing that selects.                                *)
LEMMA SelectPost ==
    ASSUME ListsTyped, UNCHANGED vdrVars, NEW a, req' = a, Selective(a),
           NEW s, IsSequence(s), NEW x, Lister(x), Tells(a, x),
           WhatOf(s) = SoFar(a, x), Post(x, s)
    PROVE  SelectInv'
<1> DEFINE n == HandlerNext(x)
<1>0. said' = Append(s, n.line) /\ busy' = n.line.more
      /\ h' = IF n.last THEN None ELSE n.h
    BY DEF Post
<1>1. x.op = "LSTC" => Fresh(x)
    BY DEF Tells, ChannelTells, Fresh, EpgTells, Bound, Selective
<1>2. StepOK(x, n)
    BY <1>1, HandlerStep
<1>3. /\ ~n.last => /\ Tells(a, n.h)
                    /\ SoFar(a, n.h) = Append(SoFar(a, x), n.line.what)
      /\ n.last => WholeOf(a) = Append(SoFar(a, x), n.line.what)
    BY HandlerTells
<1> HIDE DEF n
<1>4. n.last \in BOOLEAN /\ (n.line.more <=> ~n.last) /\ n.line.more \in BOOLEAN
    BY <1>2 DEF StepOK
<1>5. WhatOf(said') = Append(SoFar(a, x), n.line.what)
    BY <1>0, WhatAppend
<1>6. What' = WhatOf(said')
    BY DEF What, WhatOf
<1>7. Found(a)
    BY TellsFound DEF Selective
<1>8. /\ \A b, y : SoFar(b, y)' = SoFar(b, y)
      /\ \A b, y : Tells(b, y)' <=> Tells(b, y)
      /\ \A b : WholeOf(b)' = WholeOf(b)
      /\ \A b : Found(b)' <=> Found(b)
    BY SelectKept
<1>9. Partly'
  <2>1. ASSUME busy' PROVE Tells(a, h') /\ What' = SoFar(a, h')
    <3>1. ~n.last /\ h' = n.h
        BY <1>0, <1>4, <2>1
    <3> QED
        BY <1>3, <1>5, <1>6, <3>1
  <2>2. busy' => Tells(req, h)' /\ What' = SoFar(req, h)'
    BY <1>8, <2>1
  <2> QED
    BY <2>2 DEF Partly
<1>10. Whole'
  <2>1. ASSUME ~busy' PROVE What' = WholeOf(a)
    <3>1. n.last
        BY <1>0, <1>4, <2>1
    <3> QED
        BY <1>3, <1>5, <1>6, <3>1
  <2>2. ~busy' => Found(req)' /\ What' = WholeOf(req)'
    BY <1>7, <1>8, <2>1
  <2> QED
    BY <2>2 DEF Whole, Undisturbed
<1> QED
    BY <1>9, <1>10 DEF SelectInv

LEMMA SelectFailed ==
    ASSUME NEW x, x.err \in {501, 550}, Post(x, <<>>)
    PROVE  SelectInv'
<1> DEFINE n == HandlerNext(x)
<1>1. said' = Append(<<>>, n.line) /\ busy' = n.line.more
    BY DEF Post
<1>2. x.err # 0
    OBVIOUS
<1>3. n = Step(Line(x.err, NoText, FALSE), x, TRUE)
    BY <1>2 DEF HandlerNext
<1>4. n.line.code = x.err /\ ~n.line.more
    BY <1>3 DEF Step, Line
<1> HIDE DEF n
<1>5. Len(said') = 1 /\ said'[1].code > 500 /\ ~busy'
    BY <1>1, <1>4
<1> QED
    BY <1>5 DEF SelectInv, Partly, Whole, Undisturbed, Failure

LEMMA SelectOther == ASSUME ~Selective(req)' PROVE SelectInv'
BY DEF SelectInv, Partly, Whole

LEMMA NothingTold == IsSequence(<<>>) /\ WhatOf(<<>>) = <<>>
<1>1. <<>> \in Seq({})
    OBVIOUS
<1> QED
    BY <1>1 DEF IsSequence, WhatOf

LEMMA SelectLSTC == ASSUME Kept, LSTC PROVE SelectInv'
<1>1. PICK a : /\ List("LSTC", a, LSTCHandler(a))
               /\ \/ a \in [nr : DOMAIN channels \cup {Len(channels) + 1},
                            text : {FALSE}]
                  \/ a \in [nr : {0}, text : BOOLEAN]
    BY DEF LSTC
<1>2. /\ a.text \in BOOLEAN /\ "text" \in DOMAIN a /\ (a.text => a.nr = 0)
  <2>1. CASE a \in [nr : DOMAIN channels \cup {Len(channels) + 1}, text : {FALSE}]
    BY <2>1
  <2>2. CASE a \in [nr : {0}, text : BOOLEAN]
    BY <2>2
  <2> QED
    BY <1>1, <2>1, <2>2
<1>3. /\ Ask("LSTC", a) /\ Post(LSTCHandler(a), <<>>) /\ UNCHANGED vdrVars
    BY <1>1 DEF List
<1>4. req'.op = "LSTC" /\ req'.text = a.text
    BY <1>2, <1>3, AskIs, AskTells
<1>5. CASE ~a.text
    BY <1>4, <1>5, SelectOther DEF Selective
<1>6. CASE a.text
  <2> DEFINE x == LSTCHandler(a)
             r == req'
             s == <<>>
  <2>1. \/ x = Failed("LSTC", 501)
        \/ x.err = 0 /\ ChannelTells(x) /\ ChannelSoFar(x) = <<>>
    BY <1>2, <1>6, ChannelsBegin DEF Kept
  <2>2. Post(x, s) /\ IsSequence(s) /\ WhatOf(s) = <<>>
    BY <1>3, NothingTold
  <2> HIDE DEF x, s
  <2>3. CASE x = Failed("LSTC", 501)
    <3>1. x.err \in {501, 550}
        BY <2>3 DEF Failed
    <3> QED
        BY <2>2, <3>1, SelectFailed DEF s
  <2>4. CASE ChannelTells(x) /\ ChannelSoFar(x) = <<>>
    <3>1. r.op = "LSTC" /\ r.text /\ req' = r
        BY <1>4, <1>6
    <3> HIDE DEF r
    <3>2. Selective(r) /\ Tells(r, x) /\ SoFar(r, x) = <<>>
        BY <2>4, <3>1 DEF Selective, Tells, SoFar
    <3>3. Lister(x)
        BY <2>4 DEF ChannelTells, Lister
    <3> QED
        BY <1>3, <2>2, <3>1, <3>2, <3>3, SelectPost DEF Kept
  <2> QED
    BY <2>1, <2>3, <2>4
<1> QED
    BY <1>2, <1>5, <1>6

LEMMA AskSpans ==
    ASSUME NEW op, NEW a, Ask(op, a),
           {"chan", "mode", "from", "to"} \subseteq DOMAIN a
    PROVE  /\ req'.chan = a.chan /\ req'.mode = a.mode
           /\ req'.from = a.from /\ req'.to = a.to
<1>1. req' = Request(op, a)
    BY DEF Ask
<1>2. {"chan", "mode", "from", "to"} \subseteq DOMAIN NoRequest
    BY DEF NoRequest
<1>3. \A f \in {"chan", "mode", "from", "to"} : Request(op, a)[f] = a[f]
  <2> SUFFICES ASSUME NEW f \in {"chan", "mode", "from", "to"}
               PROVE  Request(op, a)[f] = a[f]
    OBVIOUS
  <2>1. f \in DOMAIN NoRequest /\ f \in DOMAIN a /\ f # "op"
    BY <1>2
  <2> QED
    BY <2>1 DEF Request
<1> QED
    BY <1>1, <1>3

(* What LSTE is asked with.                                                *)
LEMMA LSTEAsked ==
    ASSUME LSTE
    PROVE  \E a : /\ List("LSTE", a, LSTEHandler(a))
                  /\ a.chan \in Nat /\ a.mode \in Modes \cup {"bad"}
                  /\ a.from \in Nat /\ a.to \in Nat
                  /\ {"chan", "mode", "from", "to"} \subseteq DOMAIN a
<1>1. PICK a : /\ List("LSTE", a, LSTEHandler(a))
               /\ \/ a \in [chan : {0} \cup Objects,
                            mode : {"all", "now", "next", "bad"}, from : {1},
                            to : {0}]
                  \/ a \in [chan : {0} \cup Objects, mode : {"at"},
                            from : Times, to : {0}]
                  \/ a \in [chan : {0} \cup Objects, mode : {"from"},
                            from : Times, to : Ends]
    BY DEF LSTE
<1>2. PICK B, C, D : /\ B \subseteq Modes \cup {"bad"} /\ C \subseteq Nat
                     /\ D \subseteq Nat
                     /\ a \in [chan : {0} \cup Objects, mode : B, from : C, to : D]
  <2>0. Times \subseteq Nat /\ Ends \subseteq Nat /\ {1} \subseteq Nat
        /\ {0} \subseteq Nat
    BY VTPListsAssumption DEF Times
  <2>1. /\ {"all", "now", "next", "bad"} \subseteq Modes \cup {"bad"}
        /\ {"at"} \subseteq Modes \cup {"bad"}
        /\ {"from"} \subseteq Modes \cup {"bad"}
    BY DEF Modes
  <2> DEFINE P(B, C, D) == a \in [chan : {0} \cup Objects, mode : B, from : C, to : D]
  <2>2. \/ P({"all", "now", "next", "bad"}, {1}, {0})
        \/ P({"at"}, Times, {0})
        \/ P({"from"}, Times, Ends)
    BY <1>1
  <2> HIDE DEF P
  <2>3. \E B, C, D : /\ B \subseteq Modes \cup {"bad"} /\ C \subseteq Nat
                     /\ D \subseteq Nat /\ P(B, C, D)
    BY <2>0, <2>1, <2>2
  <2> QED
    BY <2>3 DEF P
<1> DEFINE A == {0} \cup Objects
<1>3. A \subseteq Nat
    BY VTPListsAssumption
<1>4. a \in [chan : A, mode : B, from : C, to : D]
    BY <1>2
<1> HIDE DEF A
<1>5. a.chan \in A /\ a.mode \in B /\ a.from \in C /\ a.to \in D
    BY <1>4, FieldsIn
<1>6. {"chan", "mode", "from", "to"} \subseteq DOMAIN a
    BY <1>4
<1> QED
    BY <1>1, <1>2, <1>3, <1>5, <1>6

(* What a listing of the EPG tells depends on what is asked alone.         *)
LEMMA LSTESame ==
    ASSUME NEW a, NEW b, a.chan = b.chan, a.mode = b.mode, a.from = b.from,
           a.to = b.to
    PROVE  LSTEHandler(a) = LSTEHandler(b)
<1>1. \A evs : FirstEvent(a, evs) = FirstEvent(b, evs)
    BY DEF FirstEvent
<1> QED
    BY <1>1 DEF LSTEHandler

LEMMA SelectLSTE == ASSUME Kept, Told, LSTE PROVE SelectInv'
<1>1. PICK a : /\ List("LSTE", a, LSTEHandler(a))
               /\ a.chan \in Nat /\ a.mode \in Modes \cup {"bad"}
               /\ a.from \in Nat /\ a.to \in Nat
               /\ {"chan", "mode", "from", "to"} \subseteq DOMAIN a
    BY LSTEAsked
<1>2. /\ Ask("LSTE", a) /\ Post(LSTEHandler(a), <<>>) /\ UNCHANGED vdrVars
    BY <1>1 DEF List
<1> DEFINE r == req'
           x == LSTEHandler(r)
           s == <<>>
<1>3. /\ r.op = "LSTE" /\ r.chan = a.chan /\ r.mode = a.mode
      /\ r.from = a.from /\ r.to = a.to
    BY <1>1, <1>2, AskIs, AskSpans
<1>4. req' = r
    OBVIOUS
<1>5. Post(x, s) /\ IsSequence(s) /\ WhatOf(s) = <<>>
  <2>1. LSTEHandler(r) = LSTEHandler(a)
    <3> HIDE DEF r
    <3> QED
        BY <1>3, LSTESame
  <2> QED
    BY <1>2, <2>1, NothingTold
<1> HIDE DEF r
<1>6. CASE ~Selective(r)
    BY <1>4, <1>6, SelectOther DEF Selective
<1>7. CASE Selective(r)
  <2>1. r.chan # 0 \/ r.mode = "all"
    BY <1>3, <1>7 DEF Selective
  <2>2. \/ \E c \in {501, 550} : x = Failed("LSTE", c)
        \/ x.err = 0 /\ EpgTells(r, x) /\ EpgSoFar(r, x) = <<>>
    BY <1>1, <1>3, <2>1, EpgBegins DEF Kept
  <2>3. x.err # 0 \/ Lister(x)
    BY <1>1, <1>3, LSTEMade DEF Kept
  <2> HIDE DEF x, s
  <2>4. CASE \E c \in {501, 550} : x = Failed("LSTE", c)
    <3>1. x.err \in {501, 550}
        BY <2>4 DEF Failed
    <3> QED
        BY <1>5, <3>1, SelectFailed DEF s
  <2>5. CASE x.err = 0 /\ EpgTells(r, x) /\ EpgSoFar(r, x) = <<>>
    <3>1. Tells(r, x) /\ SoFar(r, x) = <<>>
        BY <1>3, <2>5 DEF Tells, SoFar
    <3>2. Lister(x)
        BY <2>3, <2>5
    <3> QED
        BY <1>2, <1>4, <1>5, <1>7, <3>1, <3>2, SelectPost DEF Kept
  <2> QED
    BY <2>2, <2>4, <2>5
<1> QED
    BY <1>6, <1>7

LEMMA SelectCycle == ASSUME Kept, Told, SelectInv, Cycle PROVE SelectInv'
<1>0. /\ busy /\ Post(h, said) /\ UNCHANGED vdrVars
      /\ req' = req /\ changed' = changed
    BY DEF Cycle
<1>1. IsSequence(said) /\ Lister(h)
    BY <1>0 DEF Told, Answering
<1>2. CASE changed # {} \/ ~Selective(req)
    BY <1>0, <1>2 DEF SelectInv, Partly, Whole, Undisturbed, Selective
<1>3. CASE changed = {} /\ Selective(req)
  <2>1. Tells(req, h) /\ What = SoFar(req, h)
    BY <1>0, <1>3 DEF SelectInv, Partly
  <2>2. WhatOf(said) = SoFar(req, h)
    BY <2>1 DEF What, WhatOf
  <2> QED
    BY <1>0, <1>1, <1>3, <2>1, <2>2, SelectPost DEF Kept
<1> QED
    BY <1>2, <1>3

LEMMA SelectAlike ==
    ASSUME SelectInv, UNCHANGED <<req, busy, h, said, changed>>,
           UNCHANGED vdrVars, conn' = conn \/ conn' # "open"
    PROVE  SelectInv'
<1>1. /\ \A a, x : SoFar(a, x)' = SoFar(a, x)
      /\ \A a, x : Tells(a, x)' <=> Tells(a, x)
      /\ \A a : WholeOf(a)' = WholeOf(a)
      /\ \A a : Found(a)' <=> Found(a)
    BY SelectKept
<1>2. What' = What
    BY DEF What
<1>3. (Selective(req)' <=> Selective(req)) /\ (Failure' <=> Failure)
    BY DEF Selective, Failure
<1>4. Partly'
  <2>1. Tells(req, h)' <=> Tells(req, h)
    BY <1>1
  <2>2. SoFar(req, h)' = SoFar(req, h)
    BY <1>1
  <2> QED
    BY <1>2, <1>3, <2>1, <2>2 DEF SelectInv, Partly
<1>5. Whole'
  <2>1. (Found(req)' <=> Found(req)) /\ WholeOf(req)' = WholeOf(req)
    BY <1>1
  <2> QED
    BY <1>2, <1>3, <2>1 DEF SelectInv, Whole, Undisturbed
<1> QED
    BY <1>4, <1>5 DEF SelectInv

LEMMA SelectStep ==
    ASSUME Kept, Told, Parsing, SelectInv, [ListsNext]_listsVars
    PROVE  SelectInv'
<1>1. CASE LSTC \/ LSTE \/ Cycle
    BY <1>1, SelectLSTC, SelectLSTE, SelectCycle
<1>2. CASE LSTT \/ LSTR
  <2>1. PICK op \in {"LSTT", "LSTR"} : \E a, x : List(op, a, x)
    BY <1>2 DEF LSTT, LSTR
  <2>2. req'.op = op
    BY <2>1, AskIs DEF List
  <2> QED
    BY <2>2, SelectOther DEF Selective
<1>3. CASE LSTRUnknown
  <2>1. req'.op = "LSTR"
    BY <1>3, AskIs DEF LSTRUnknown
  <2> QED
    BY <2>1, SelectOther DEF Selective
<1>4. CASE \/ STAT \/ STATRecords \/ MODT \/ NEWT \/ DELT \/ NEXT
           \/ NEWC \/ MODC \/ MOVC \/ DELC \/ DELCInUse \/ DELR \/ RENR
           \/ Unknown \/ NEWTAdds
    BY <1>4, EditsAsk, SelectOther DEF Selective
<1>5. CASE \/ TimerEdits \/ ChannelEdits \/ RecordingStarts
           \/ RecordingStops \/ RecordingEdits \/ EventExpires
  <2>1. PICK c : Change(c)
    BY <1>5 DEF TimerEdits, ChannelEdits, RecordingStarts, RecordingStops,
                RecordingEdits, EventExpires
  <2>2. changed' # {}
    BY <2>1 DEF Change
  <2> QED
    BY <2>2 DEF SelectInv, Partly, Whole, Undisturbed
<1>6. CASE Violation \/ StaleUse
    BY <1>6, SelectAlike DEF Violation, StaleUse
<1>7. CASE Ended \/ Rests \/ UNCHANGED listsVars
    BY <1>7, SelectAlike DEF Ended, Rests, listsVars, cmdVars
<1> QED
    BY <1>1, <1>2, <1>3, <1>4, <1>5, <1>6, <1>7 DEF ListsNext

LEMMA SelectStays ==
    ASSUME ListsInv, SelectInv, [ListsNext]_listsVars PROVE SelectInv'
<1>1. CASE conn = "open"
    BY <1>1, InvIs, SelectStep
<1>2. CASE conn # "open"
  <2>1. UNCHANGED listsVars
    BY <1>2, Stopped
  <2>2. UNCHANGED <<req, busy, h, said, changed, conn>> /\ UNCHANGED vdrVars
    BY <2>1 DEF listsVars, cmdVars
  <2> QED
    BY <2>2, SelectAlike
<1> QED
    BY <1>1, <1>2

LEMMA SelectStart == ASSUME ListsInit PROVE SelectInv
<1>1. req.op = "none"
    BY DEF ListsInit, NoRequest
<1> QED
    BY <1>1 DEF SelectInv, Partly, Whole, Selective

(* The whole of a listing is what it was asked for.                        *)
LEMMA WholeIs ==
    ASSUME ListsTyped, SelectInv, Undisturbed, req.op = "LSTE"
    PROVE  EpgExact
<1> DEFINE End == <<"End", 0, 0>>
           L(i) == LinesOf(req, i)
<1>1. \A i : ChannelLines(i, Asked(req, epg[i].evs)) = L(i)
    BY DEF LinesOf, AskedOf
<1>2. End \in Texts
    BY TextIs DEF Tags
<1> HIDE DEF End
<1>3. CASE req.chan # 0
  <2> DEFINE i == Min(SchedulesOf(req.chan))
  <2>1. i \in 1 .. Len(epg) /\ What = Append(L(i), End)
    BY <1>3 DEF SelectInv, Whole, Selective, Found, WholeOf, AllOf, End
  <2> HIDE DEF i
  <2>2. L(i) \in Seq(Texts)
    BY <2>1, LinesIn
  <2>3. What = FlattenSeq(<<L(i)>>) \o <<End>>
    <3> HIDE DEF L
    <3> QED
        BY <1>2, <2>1, <2>2, JoinIs, FlattenOne
  <2> HIDE DEF L
  <2>4. What = EpgLines(<<L(i)>>)
    BY <2>3 DEF EpgLines, End
  <2> QED
    BY <1>1, <1>3, <2>4 DEF EpgExact, i
<1>4. CASE req.chan = 0 /\ req.mode = "all"
  <2> DEFINE m == Len(epg) + 1
             s == [i \in DOMAIN epg |-> L(i)]
  <2>1. What = Append(Earlier(req, m), End)
    BY <1>4 DEF SelectInv, Whole, Selective, WholeOf, AllOf, End
  <2>2. DOMAIN epg = 1 .. m - 1 /\ m \in 1 .. m
    BY DEF ListsTyped
  <2>3. Earlier(req, m) \in Seq(Texts)
    BY <2>2, SchedulesTold
  <2>4. Earlier(req, m) = FlattenSeq(s)
    <3> HIDE DEF m
    <3> QED
        BY <1>4, <2>2 DEF Earlier
  <2> HIDE DEF s, m, L
  <2>5. What = FlattenSeq(s) \o <<End>>
    BY <1>2, <2>1, <2>3, <2>4, JoinIs
  <2>6. What = EpgLines(s)
    BY <2>5 DEF EpgLines, End
  <2>7. s = [i \in DOMAIN epg |-> ChannelLines(i, Asked(req, epg[i].evs))]
    BY <1>1 DEF s
  <2> QED
    BY <1>4, <2>6, <2>7 DEF EpgExact
<1>5. CASE req.chan = 0 /\ req.mode # "all"
    BY <1>5 DEF EpgExact
<1> QED
    BY <1>3, <1>4, <1>5

(* A listing that VDR's lists are left alone under is told as they are:    *)
(* every entry of LSTC, LSTT and LSTR once, in its place and with its      *)
(* number, the channels with the text of LSTC in their name and no others, *)
(* and of LSTE the schedules, events and fields asked for, in their order  *)
(* and bracketed, however many cycles of the server it takes (the state    *)
(* machine of cLSTEHandler::Next, and cLSTCHandler, cLSTTHandler and       *)
(* cLSTRHandler, connectionVTP.c); and while the lists change, LSTC        *)
(* repeats no channel.                                                     *)
THEOREM ListingsAreExact == ListsSpec => []ListingExact
<1>1. ListsInit => ListsInv /\ OnceInv /\ ExactInv /\ SelectInv
    BY ListsStart, OnceStart, ExactStart, SelectStart
<1>2. ListsInv /\ OnceInv /\ ExactInv /\ SelectInv /\ [ListsNext]_listsVars =>
        (ListsInv /\ OnceInv /\ ExactInv /\ SelectInv)'
    BY ListsStep, OnceStays, ExactStays, SelectStays
<1>3. ListsInv /\ OnceInv /\ ExactInv /\ SelectInv => ListingExact
  <2> SUFFICES ASSUME ListsInv, OnceInv, ExactInv, SelectInv
               PROVE  ListingExact
    OBVIOUS
  <2>1. ChannelsOnce /\ EntriesExact
    BY DEF OnceInv, ExactInv
  <2>2. Undisturbed /\ req.op = "LSTE" => EpgExact
    BY WholeIs DEF ListsInv
  <2>3. Undisturbed /\ req.op = "LSTC" /\ req.text =>
          What = Selected(Numbered(channels), AllNamed)
    BY DEF SelectInv, Whole, Selective, WholeOf
  <2> QED
    BY <2>1, <2>2, <2>3 DEF ListingExact, AllNamed
<1> QED
    BY <1>1, <1>2, <1>3, PTL DEF ListsSpec
=============================================================================
