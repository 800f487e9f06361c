-------------------------- MODULE RecStream_proofs --------------------------
(***************************************************************************)
(* What a response says of its range is right, and what is read and sent   *)
(* is what the recording holds, for recordings and requests of any size;   *)
(* and what the remultiplexer behind a streamer puts out fits its packets, *)
(* for any bytes sent through it.                                          *)
(***************************************************************************)
EXTENDS RecStream, TS2PES, SequenceTheorems, WellFoundedInduction, TLAPS

(* What the properties read is set by Init and Get only.                   *)
Asked ==
    /\ total \in Nat
    /\ offset \in Nat
    /\ request \in Requests
    /\ reply.status = 206 => reply.from \in Int /\ reply.to \in Int

Inv == Asked /\ RangeWithin /\ RangeAnswered

LEMMA InitInv == Init => Inv
<1> SUFFICES ASSUME Init PROVE Inv
    OBVIOUS
<1> USE PlayerAssumption, StreamAssumption
    DEF PlayerAssumption, StreamAssumption
<1>1. total \in Nat
  <2>1. PICK n \in 1..MaxSegments, e \in [0..MaxSegments -> 0..MaxLength] :
          total = e[n]
    BY DEF Init, PlayerInit, Scan
  <2> QED
    BY <2>1
<1>2. NoRequest \in Requests
    BY DEF NoRequest, Requests, Ranges
<1>3. reply.status = 0 /\ offset = 0 /\ request = NoRequest
    BY DEF Init, NoReply
<1> QED
    BY <1>1, <1>2, <1>3 DEF Inv, Asked, RangeWithin, RangeAnswered

(* SetRange: within the length, if there is any, and what was asked for if *)
(* that can be satisfied.                                                  *)
LEMMA SetRangeRight ==
    ASSUME NEW l \in Nat, NEW r, r.from \in Int, r.to \in Int,
           r.to = -1 \/ (r.from >= 0 /\ r.to >= r.from)
    PROVE  /\ SetRange(r, l)[1] \in Int /\ SetRange(r, l)[2] \in Int
           /\ 0 <= SetRange(r, l)[1] /\ SetRange(r, l)[2] < l
           /\ SetRange(r, l)[1] <= SetRange(r, l)[2] + 1
           /\ r.from < l /\ l > 0 => SetRange(r, l) = Satisfied(r, l)
BY DEF SetRange, Satisfied

(* The fields of a range that was parsed.                                  *)
LEMMA RangeFields ==
    ASSUME NEW r \in Ranges
    PROVE  /\ r.from \in Int /\ r.to \in Int
           /\ r.hasRange => r.to = -1 \/ (r.from >= 0 /\ r.to >= r.from)
<1>1. CASE r = NoRange
    BY <1>1 DEF NoRange
<1>2. CASE r # NoRange
  <2>1. /\ r \in [hasRange : {TRUE}, from : -MaxAsk .. MaxAsk, to : -1 .. MaxAsk]
        /\ r.to = -1 \/ (r.from >= 0 /\ r.to >= r.from)
    BY <1>2 DEF Ranges
  <2>2. r.from \in -MaxAsk .. MaxAsk /\ r.to \in -1 .. MaxAsk
    BY <2>1
  <2> QED
    BY <2>1, <2>2, StreamAssumption DEF StreamAssumption
<1> QED
    BY <1>1, <1>2

(* A range shifted by the start of a fake one is satisfied there.          *)
LEMMA ShiftSatisfied ==
    ASSUME NEW q \in Requests, NEW n \in Nat, Faked(q),
           q.range.from < n - q.start, n - q.start > 0
    PROVE  Satisfied(Shifted(q), n) =
             <<q.start + Satisfied(q.range, n - q.start)[1],
               q.start + Satisfied(q.range, n - q.start)[2]>>
<1>1. q.start \in Nat /\ q.range \in Ranges
    BY PlayerAssumption DEF PlayerAssumption, Requests
<1>2. /\ q.range.from = 0 /\ q.range.to \in Int
      /\ q.range.to = -1 \/ q.range.to >= 0
    BY <1>1, RangeFields DEF Faked
<1>3. Shifted(q) = [hasRange |-> TRUE, from |-> q.start,
                    to |-> IF q.range.to >= 0 THEN q.range.to + q.start
                           ELSE -1]
    BY DEF Shifted
<1> QED
    BY <1>1, <1>2, <1>3 DEF Satisfied

LEMMA GetInv == ASSUME Inv, Get PROVE Inv'
<1> USE PlayerAssumption, StreamAssumption
    DEF PlayerAssumption, StreamAssumption
<1> DEFINE L(q) == total - (IF Faked(q) THEN 0 ELSE q.start)
           R(q) == SetRange(Shifted(q), L(q))
<1>0. PICK q \in Requests :
        /\ request' = q /\ offset' = total - L(q)
        /\ IF ~q.range.hasRange
             THEN /\ from' = 0 /\ to' = L(q) - 1
                  /\ reply' = [status |-> 200, from |-> 0, to |-> L(q) - 1]
             ELSE /\ from' = R(q)[1] /\ to' = R(q)[2]
                  /\ reply' = [status |-> IF R(q)[2] - R(q)[1] + 1 < 0
                                            THEN 416 ELSE 206,
                               from |-> R(q)[1], to |-> R(q)[2]]
    BY DEF Get
<1>1. /\ request' = q /\ offset' = total - L(q)
      /\ reply'.status = 206 =>
           /\ q.range.hasRange
           /\ reply'.from = R(q)[1] /\ reply'.to = R(q)[2]
  <2> HIDE DEF L, R
  <2> QED
    BY <1>0
<1>2. total' = total /\ total \in Nat
    BY DEF Get, playerVars, Inv, Asked
<1>3. q.start \in Nat /\ q.range \in Ranges
    BY DEF Requests
<1>4. offset' \in Nat /\ L(q) \in Int /\ (Faked(q) => L(q) = total)
      /\ offset' = IF Faked(q) THEN 0 ELSE q.start
    BY <1>1, <1>2, <1>3
<1> DEFINE s == Shifted(q)
<1>5. /\ s.from \in Int /\ s.to \in Int
      /\ q.range.hasRange => s.to = -1 \/ (s.from >= 0 /\ s.to >= s.from)
    BY <1>3, RangeFields DEF Shifted, Faked
<1>6. R(q)[1] \in Int /\ R(q)[2] \in Int
    BY <1>4, <1>5 DEF SetRange
<1>7. Asked'
    BY <1>1, <1>2, <1>4, <1>6 DEF Asked
<1>8. ASSUME reply'.status = 206, L(q) >= 0
      PROVE  /\ 0 <= R(q)[1] /\ R(q)[2] < L(q) /\ R(q)[1] <= R(q)[2] + 1
             /\ s.from < L(q) /\ L(q) > 0 => R(q) = Satisfied(s, L(q))
  <2>1. L(q) \in Nat
    BY <1>4, <1>8
  <2>2. s.to = -1 \/ (s.from >= 0 /\ s.to >= s.from)
    BY <1>1, <1>5, <1>8
  <2> HIDE DEF s, L
  <2> QED
    BY <2>1, <2>2, <1>5, SetRangeRight DEF s
<1>9. RangeWithin'
  <2> SUFFICES ASSUME reply'.status = 206, offset' <= total
               PROVE  /\ 0 <= reply'.from /\ reply'.to < total - offset'
                      /\ reply'.from <= reply'.to + 1
    BY <1>2 DEF RangeWithin
  <2>1. L(q) >= 0 /\ total - offset' = L(q)
    BY <1>1, <1>2, <1>4
  <2> HIDE DEF L
  <2> QED
    BY <2>1, <1>1, <1>8
<1>10. RangeAnswered'
  <2> DEFINE l == total - q.start
  <2> SUFFICES ASSUME reply'.status = 206, q.range.from < l, l > 0
               PROVE  <<offset' + reply'.from, offset' + reply'.to>> =
                        <<q.start + Satisfied(q.range, l)[1],
                          q.start + Satisfied(q.range, l)[2]>>
    BY <1>1, <1>2 DEF RangeAnswered
  <2>1. CASE Faked(q)
    <3>1. L(q) = total /\ total > 0 /\ offset' = 0
        BY <2>1, <1>2, <1>3, <1>4
    <3>2. s.from < total
        BY <2>1, <1>2, <1>3 DEF Shifted
    <3>3. R(q) = Satisfied(s, total)
      <4> HIDE DEF L, R, s
      <4> QED
        BY <3>1, <3>2, <1>2, <1>8
    <3>4. R(q) = <<q.start + Satisfied(q.range, l)[1],
                   q.start + Satisfied(q.range, l)[2]>>
        BY <3>3, <2>1, <1>2, ShiftSatisfied
    <3> QED
        BY <3>1, <3>4, <1>1, <1>6
  <2>2. CASE ~Faked(q)
    <3>1. L(q) = l /\ offset' = q.start /\ s = q.range
        BY <2>2, <1>4 DEF Shifted
    <3>2. R(q) = Satisfied(q.range, l)
      <4> HIDE DEF L, R, s
      <4> QED
        BY <3>1, <1>2, <1>3, <1>8
    <3> QED
        BY <3>1, <3>2, <1>1
  <2> QED
    BY <2>1, <2>2
<1> QED
    BY <1>7, <1>9, <1>10 DEF Inv

(* A response never announces bytes outside the recording, and announces   *)
(* those asked for, for every length, position and range.                  *)
THEOREM AnnouncedRight == Spec => []RangesRight
<1>1. Init => Inv
    BY InitInv
<1>2. Inv /\ [Next]_vars => Inv'
  <2> SUFFICES ASSUME Inv, [Next]_vars PROVE Inv'
    OBVIOUS
  <2>1. CASE Get
    BY <2>1, GetInv
  <2>2. CASE Transfer \/ TransferFails \/ ReadBlock \/ DeleteFile \/ Done
           \/ UNCHANGED vars
    <3>1. UNCHANGED <<total, offset, request, reply>>
        BY <2>2 DEF Transfer, TransferFails, ReadBlock, Read, DeleteFile,
                    Delete, GetBlock,
                    Done, vars, playerVars, streamVars
    <3> QED
        BY <3>1 DEF Inv, Asked, RangeWithin, RangeAnswered
  <2> QED
    BY <2>1, <2>2 DEF Next
<1>3. Inv => RangesRight
    BY DEF Inv, RangesRight
<1> QED
    BY <1>1, <1>2, <1>3, PTL DEF Spec

-----------------------------------------------------------------------------
(* Induction: a set of numbers with 0 and the successor of each member.    *)

LEMMA HasLeast ==
    ASSUME NEW T, T \subseteq Nat, T # {}
    PROVE  \E x \in T : \A y \in T : x <= y
<1>1. PICK x \in T : \A y \in T : ~ (<<y, x>> \in OpToRel(<, Nat))
    BY WFMin, NatLessThanWellFounded, Zenon
<1>2. \A y \in T : y \in Nat /\ ~(y < x)
    BY <1>1 DEF OpToRel
<1>3. x \in Nat
    OBVIOUS
<1> QED
    BY <1>2, <1>3

LEMMA SetInduction ==
    ASSUME NEW S, 0 \in S, \A n \in Nat : n \in S => n + 1 \in S
    PROVE  Nat \subseteq S
<1> SUFFICES ASSUME Nat \ S # {} PROVE FALSE
    OBVIOUS
<1>1. PICK x \in Nat \ S : \A y \in Nat \ S : x <= y
    BY HasLeast
<1>2. x # 0 /\ x - 1 \in Nat
    BY <1>1
<1>3. x - 1 \in S
    BY <1>1, <1>2
<1>4. (x - 1) + 1 = x
    BY <1>1
<1> QED
    BY <1>1, <1>2, <1>3, <1>4

-----------------------------------------------------------------------------
(* What getBlock returns.                                                  *)

(* scan lays the files out one behind the other.                           *)
Laid ==
    /\ segments \in Seq([start : Nat, end : Nat]) /\ Len(segments) >= 1
    /\ total \in Nat
    /\ segments[1].start = 0
    /\ segments[Len(segments)].end = total
    /\ segments[Len(segments)].start <= total
    /\ \A i \in 1..(Len(segments) - 1) :
         /\ segments[i].start < segments[i].end
         /\ segments[i].end = segments[i + 1].start
    /\ present \subseteq Files
    /\ fileOpen \in Int

Byte == Int \X Int

LEMMA SegmentFields ==
    ASSUME Laid
    PROVE  /\ Files = 1..Len(segments) /\ Len(segments) \in Nat
           /\ \A i \in Files : segments[i].start \in Nat /\ segments[i].end \in Nat
<1>0. segments \in Seq([start : Nat, end : Nat])
    BY DEF Laid
<1>1. Len(segments) \in Nat /\ Files = 1..Len(segments)
    BY <1>0 DEF Files
<1>2. \A i \in 1..Len(segments) : segments[i] \in [start : Nat, end : Nat]
    BY <1>0, ElementOfSeq, Zenon
<1> QED
    BY <1>1, <1>2

(* Every place in the recording is in a file: the first one that ends      *)
(* behind it.                                                              *)
LEMMA SegmentFound ==
    ASSUME Laid, NEW p \in Nat, p < total
    PROVE  /\ SegmentOf(p) \in Files
           /\ segments[SegmentOf(p)].start <= p
           /\ p < segments[SegmentOf(p)].end
<1> DEFINE T == {i \in Files : p < segments[i].end}
<1>0. /\ Files = 1..Len(segments) /\ Len(segments) \in Nat
      /\ \A i \in Files : segments[i].start \in Nat /\ segments[i].end \in Nat
    BY SegmentFields
<1>1. Len(segments) \in T
    BY <1>0 DEF Laid
<1>2. T \subseteq Nat /\ T # {}
    BY <1>0, <1>1
<1>3. PICK i \in T : \A j \in T : i <= j
    BY <1>2, HasLeast, Zenon
<1>4. i \in Files /\ p < segments[i].end
    BY <1>3
<1>5. segments[i].start <= p
  <2>1. CASE i = 1
    BY <2>1 DEF Laid
  <2>2. CASE i # 1
    <3>1. i - 1 \in 1..(Len(segments) - 1) /\ i - 1 \in Files /\ (i - 1) + 1 = i
        BY <1>0, <1>4, <2>2
    <3>2. i - 1 \notin T
        BY <1>3, <3>1
    <3>3. segments[i - 1].end <= p
        BY <1>0, <3>1, <3>2
    <3>4. segments[i - 1].end = segments[i].start
        BY <3>1 DEF Laid
    <3> QED
        BY <3>3, <3>4
  <2> QED
    BY <2>1, <2>2
<1>6. \E x \in Files : segments[x].start <= p /\ p < segments[x].end
    BY <1>4, <1>5
<1> QED
    BY <1>6, Zenon DEF SegmentOf

(* How far getBlock is after k rounds for a bytes from p, the first of     *)
(* which is in file s: what it has is right, and what is left begins in    *)
(* the next file.                                                          *)
Good(r, p, a, s, k) ==
    /\ r \in [ok : BOOLEAN, open : Int, pos : Nat, left : Nat, data : Seq(Byte)]
    /\ r.left <= a /\ Len(r.data) = a - r.left /\ r.pos = p + (a - r.left)
    /\ \A i \in 1..Len(r.data) : PlaceOf(r.data[i]) = p + i - 1
    /\ r.ok /\ r.left > 0 =>
         /\ s + k \in Files
         /\ segments[s + k].start <= r.pos /\ r.pos < segments[s + k].end
    /\ present = Files => r.ok

LEMMA AppendBytes ==
    ASSUME NEW d \in Seq(Byte), NEW e \in Seq(Byte)
    PROVE  /\ d \o e \in Seq(Byte) /\ Len(d \o e) = Len(d) + Len(e)
           /\ Len(d) \in Nat /\ Len(e) \in Nat
           /\ \A i \in 1..Len(d) : (d \o e)[i] = d[i]
           /\ \A i \in 1..(Len(d) + Len(e)) :
                i > Len(d) => i - Len(d) \in 1..Len(e) /\ (d \o e)[i] = e[i - Len(d)]
OBVIOUS

LEMMA RoundGood ==
    ASSUME Laid, NEW p \in Nat, NEW a \in Nat, p + a <= total,
           NEW s \in Files, NEW k \in Nat, s + k \in Files,
           NEW r, Good(r, p, a, s, k)
    PROVE  Good(Round(r, s + k), p, a, s, k + 1)
<1> DEFINE f == s + k
           open == IF f = r.open \/ f \in present THEN f ELSE 0
           n == FromThisSegment(f, r.pos, r.left)
           at == FilePosition(f, r)
           x == [i \in 1..n |-> <<f, at + i - 1>>]
<1>0. /\ Files = 1..Len(segments) /\ Len(segments) \in Nat
      /\ \A i \in Files : segments[i].start \in Nat /\ segments[i].end \in Nat
    BY SegmentFields
<1>1. /\ r \in [ok : BOOLEAN, open : Int, pos : Nat, left : Nat, data : Seq(Byte)]
      /\ r.ok \in BOOLEAN /\ r.pos \in Nat /\ r.left \in Nat
      /\ r.data \in Seq(Byte) /\ r.open \in Int
      /\ r.left <= a /\ Len(r.data) = a - r.left /\ r.pos = p + (a - r.left)
      /\ \A i \in 1..Len(r.data) : PlaceOf(r.data[i]) = p + i - 1
      /\ present = Files => r.ok
    BY DEF Good
<1>nums. /\ r.pos \in Nat /\ r.left \in Nat /\ r.left <= a /\ r.data \in Seq(Byte)
         /\ Len(r.data) = a - r.left /\ r.pos = p + (a - r.left)
    BY <1>1
<1>2. CASE r.left = 0 \/ ~r.ok
  <2>1. Round(r, s + k) = r
    BY <1>2 DEF Round
  <2> QED
    BY SMTT(40), <1>1, <1>2, <2>1 DEF Good
<1>3. CASE ~(r.left = 0 \/ ~r.ok)
  <2>1. /\ r.ok = TRUE /\ r.left > 0
        /\ segments[f].start <= r.pos /\ r.pos < segments[f].end
        /\ segments[f].start \in Nat /\ segments[f].end \in Nat
        /\ f \in Nat /\ f > 0
    BY SMTT(40), <1>0, <1>1, <1>3 DEF Good
  <2>2. n \in 1..r.left /\ r.pos + n <= segments[f].end
        /\ (n = r.left \/ r.pos + n = segments[f].end)
    <3> DEFINE e == segments[f].end
    <3>1. n = IF r.pos + r.left <= e THEN r.left ELSE e - r.pos
        BY DEF FromThisSegment
    <3>2. e \in Nat /\ r.pos < e /\ r.left > 0
        BY <2>1
    <3> HIDE DEF n, e
    <3>3. n \in 1..r.left /\ r.pos + n <= e /\ (n = r.left \/ r.pos + n = e)
      <4> DEFINE pos == r.pos
                 left == r.left
      <4>1. /\ pos \in Nat /\ left \in Nat /\ left > 0 /\ pos < e
            /\ n = IF pos + left <= e THEN left ELSE e - pos
        BY <1>nums, <3>1, <3>2
      <4> HIDE DEF pos, left
      <4>2. n \in 1..left /\ pos + n <= e /\ (n = left \/ pos + n = e)
        BY <3>2, <4>1
      <4> QED
        BY <4>2 DEF pos, left
    <3> QED
        BY <3>3 DEF e
  <2>3. at \in Nat /\ at = r.pos - segments[f].start
    BY SMTT(40), <1>nums, <2>1 DEF FilePosition
  <2>4. /\ open \in Int
        /\ present = Files => open # 0
    BY <2>1
  <2>5. Round(r, s + k) =
          IF open = 0 \/ n = 0 THEN [r EXCEPT !.ok = FALSE, !.open = open]
          ELSE [ok |-> TRUE, open |-> open, pos |-> r.pos + n,
                left |-> r.left - n, data |-> r.data \o x]
    BY <1>3, Zenon DEF Round
  <2>6. /\ x \in Seq(Byte) /\ Len(x) = n
        /\ \A i \in 1..n : x[i] = <<f, at + i - 1>>
    <3> HIDE DEF n, at, f
    <3>1. n \in Nat
        BY <1>nums, <2>2
    <3>2. \A i \in 1..n : <<f, at + i - 1>> \in Byte
        BY <2>1, <2>3, <3>1 DEF Byte
    <3> QED
        BY <3>1, <3>2
  <2> DEFINE q == Round(r, s + k)
  <2>7. CASE open = 0
    <3>1. q = [r EXCEPT !.ok = FALSE, !.open = open]
        BY <2>5, <2>7, Zenon
    <3> HIDE DEF q, open
    <3>2. /\ q \in [ok : BOOLEAN, open : Int, pos : Nat, left : Nat,
                    data : Seq(Byte)]
          /\ q.ok = FALSE /\ q.pos = r.pos /\ q.left = r.left
          /\ q.data = r.data
        BY <1>1, <2>4, <3>1
    <3>3. present # Files
        BY <2>4, <2>7
    <3>4. Good(q, p, a, s, k + 1)
        BY <1>1, <3>2, <3>3 DEF Good
    <3> QED
        BY <3>4 DEF q
  <2>8. CASE open # 0
    <3>1. q = [ok |-> TRUE, open |-> open, pos |-> r.pos + n,
               left |-> r.left - n, data |-> r.data \o x]
      <4>1. n # 0
        BY <1>nums, <2>2
      <4> HIDE DEF n, open, x, q
      <4>2. ~(open = 0 \/ n = 0)
        BY <2>8, <4>1
      <4>3. q = IF open = 0 \/ n = 0 THEN [r EXCEPT !.ok = FALSE, !.open = open]
                ELSE [ok |-> TRUE, open |-> open, pos |-> r.pos + n,
                      left |-> r.left - n, data |-> r.data \o x]
        BY <2>5 DEF q
      <4> QED
        BY <4>2, <4>3, Zenon
    <3> HIDE DEF x, n, at, open, q
    <3>2. n \in Nat /\ n > 0 /\ n <= r.left
        BY SMTT(40), <1>nums, <2>2
    <3>3. /\ r.data \o x \in Seq(Byte) /\ Len(r.data \o x) = Len(r.data) + n
          /\ Len(r.data) \in Nat
          /\ \A i \in 1..Len(r.data) : (r.data \o x)[i] = r.data[i]
          /\ \A i \in 1..(Len(r.data) + n) :
               i > Len(r.data) => /\ i - Len(r.data) \in 1..n
                                  /\ (r.data \o x)[i] = x[i - Len(r.data)]
        BY ZenonT(40), <1>1, <2>6, AppendBytes
    <3>4. /\ q \in [ok : BOOLEAN, open : Int, pos : Nat, left : Nat,
                    data : Seq(Byte)]
          /\ q.ok = TRUE /\ q.pos = r.pos + n /\ q.left = r.left - n
          /\ q.data = r.data \o x
      <4>1. r.pos + n \in Nat /\ r.left - n \in Nat
        BY SMTT(40), <1>1, <3>2
      <4> QED
        BY <2>4, <3>1, <3>3, <4>1
    <3>5. /\ q.left <= a /\ Len(q.data) = a - q.left
          /\ q.pos = p + (a - q.left)
      <4>1. /\ q.pos = r.pos + n /\ q.left = r.left - n
            /\ Len(q.data) = Len(r.data) + n
        BY <3>3, <3>4
      <4> QED
        BY SMTT(40), <1>nums, <3>2, <4>1
    <3>6. ASSUME NEW i \in 1..Len(q.data)
          PROVE  PlaceOf(q.data[i]) = p + i - 1
      <4>1. CASE i <= Len(r.data)
        <5>1. i \in 1..Len(r.data)
            BY <3>3, <4>1
        <5>2. q.data[i] = r.data[i]
            BY <3>3, <3>4, <5>1
        <5> QED
            BY <1>1, <5>1, <5>2
      <4>2. CASE i > Len(r.data)
        <5> DEFINE j == i - Len(r.data)
        <5>1. j \in 1..n /\ q.data[i] = x[j] /\ i = Len(r.data) + j
            BY SMTT(40), <3>3, <3>4, <4>2
        <5> HIDE DEF j
        <5>2. q.data[i] = <<f, at + j - 1>>
            BY <2>6, <5>1
        <5>3. PlaceOf(q.data[i]) = segments[f].start + (at + j - 1)
            BY <5>2 DEF PlaceOf
        <5>4. segments[f].start + (at + j - 1) = r.pos + j - 1
          <6> DEFINE b == segments[f].start
                     pos == r.pos
          <6>1. b \in Nat /\ at = pos - b /\ pos \in Nat /\ j \in Nat
            BY <1>nums, <2>1, <2>3, <3>2, <5>1
          <6> HIDE DEF b, pos
          <6>2. b + (at + j - 1) = pos + j - 1
            BY <6>1
          <6> QED
            BY <6>2 DEF b, pos
        <5>5. r.pos = p + Len(r.data)
            BY <1>1
        <5> QED
            BY SMTT(40), <3>3, <5>1, <5>3, <5>4, <5>5
      <4> QED
        BY SMTT(40), <3>3, <3>4, <4>1, <4>2
    <3>7. ASSUME q.left > 0
          PROVE  /\ s + (k + 1) \in Files
                 /\ segments[s + (k + 1)].start <= q.pos
                 /\ q.pos < segments[s + (k + 1)].end
      <4>1. q.pos = segments[f].end /\ q.pos < total
        <5>1. q.pos = r.pos + n /\ q.left = r.left - n
            BY <3>4
        <5>2. n = r.left \/ r.pos + n = segments[f].end
            BY <2>2
        <5>3. n # r.left
            BY <1>nums, <3>2, <3>7, <5>1
        <5>4. q.pos < total
            BY SMTT(40), <1>nums, <3>2, <3>7, <5>1 DEF Laid
        <5> QED
            BY <5>1, <5>2, <5>3, <5>4
      <4>2. f # Len(segments)
        BY SMTT(40), <4>1 DEF Laid
      <4>3. f \in 1..(Len(segments) - 1) /\ f + 1 = s + (k + 1) /\ f + 1 \in Files
        BY <1>0, <4>2
      <4> HIDE DEF f
      <4>4. q.pos = segments[f + 1].start
        BY <4>1, <4>3 DEF Laid
      <4>5. segments[f + 1].start < segments[f + 1].end
        <5>1. CASE f + 1 = Len(segments)
            BY <4>1, <4>4, <5>1 DEF Laid
        <5>2. CASE f + 1 # Len(segments)
          <6>1. f + 1 \in 1..(Len(segments) - 1)
            BY <1>0, <4>3, <5>2
          <6> QED
            BY <6>1 DEF Laid
        <5> QED
            BY <5>1, <5>2
      <4>6. segments[f + 1].start \in Nat
        BY <1>0, <4>3
      <4> QED
        BY <4>3, <4>4, <4>5, <4>6
    <3>8. Good(q, p, a, s, k + 1)
        BY <3>4, <3>5, <3>6, <3>7 DEF Good
    <3> QED
        BY <3>8 DEF q
  <2> QED
    BY <2>7, <2>8
<1> QED
    BY <1>2, <1>3

(* The rounds of getBlock are well defined.                                *)
Rounds(f, b, s, n) ==
    f = [i \in 0..n |-> IF i = 0 THEN b ELSE Round(f[i - 1], s + i - 1)]

LEMMA RoundsExist ==
    ASSUME NEW b, NEW s, NEW n \in Nat
    PROVE  \E f : Rounds(f, b, s, n)
<1> DEFINE S == {m \in Nat : \E f : Rounds(f, b, s, m)}
<1>1. 0 \in S
  <2> DEFINE f == [i \in 0..0 |-> b]
  <2>1. f = [i \in 0..0 |-> IF i = 0 THEN b ELSE Round(f[i - 1], s + i - 1)]
    OBVIOUS
  <2>2. Rounds(f, b, s, 0)
    BY <2>1, Zenon DEF Rounds
  <2> QED
    BY <2>2
<1>2. ASSUME NEW m \in Nat, m \in S
      PROVE  m + 1 \in S
  <2>1. PICK f : Rounds(f, b, s, m)
    BY <1>2
  <2>2. \A i \in 0..m :
          f[i] = IF i = 0 THEN b ELSE Round(f[i - 1], s + i - 1)
    BY <2>1, Zenon DEF Rounds
  <2> DEFINE g == [i \in 0..(m + 1) |->
                     IF i <= m THEN f[i] ELSE Round(f[m], s + i - 1)]
  <2>3. \A i \in 0..m : g[i] = f[i]
    OBVIOUS
  <2>4. g[m + 1] = Round(g[m], s + (m + 1) - 1)
    <3>1. g[m + 1] = Round(f[m], s + (m + 1) - 1)
        OBVIOUS
    <3>2. g[m] = f[m]
        BY <2>3
    <3> HIDE DEF g
    <3> QED
        BY <3>1, <3>2
  <2>5. DOMAIN g = 0..(m + 1) /\ g = [i \in 0..(m + 1) |-> g[i]]
    BY Zenon
  <2> HIDE DEF g
  <2>6. ASSUME NEW i \in 0..(m + 1)
        PROVE  g[i] = IF i = 0 THEN b ELSE Round(g[i - 1], s + i - 1)
    <3>1. CASE i = 0
        BY <2>2, <2>3, <3>1
    <3>2. CASE i \in 1..m
      <4>1. i - 1 \in 0..m /\ i \in 0..m /\ i # 0
        BY <3>2
      <4> QED
        BY <2>2, <2>3, <4>1
    <3>3. CASE i = m + 1
      <4>1. i # 0 /\ i - 1 = m
        BY <3>3
      <4> QED
        BY <2>4, <3>3, <4>1
    <3> QED
        BY <3>1, <3>2, <3>3
  <2>7. Rounds(g, b, s, m + 1)
    BY <2>5, <2>6, Zenon DEF Rounds
  <2> QED
    BY <2>7
<1>3. \A m \in Nat : m \in S => m + 1 \in S
    BY <1>2
<1> HIDE DEF S
<1>4. Nat \subseteq S
    BY <1>1, <1>3, SetInduction, Zenon
<1> QED
    BY <1>4 DEF S

(* getBlock gives what the recording holds or nothing, and gives it if     *)
(* nothing is missing.                                                     *)
LEMMA BlockGood ==
    ASSUME Laid, NEW p \in Nat, NEW a \in Nat \ {0}
    PROVE  LET b == Block(p, a) IN
           /\ b.open \in Int /\ b.data \in Seq(Byte)
           /\ b.data # <<>> =>
                /\ Len(b.data) = Clipped(p, a)
                /\ \A i \in 1..Len(b.data) : PlaceOf(b.data[i]) = p + i - 1
           /\ present = Files /\ ~Rejected(p, a) => b.data # <<>>
<1>0. fileOpen \in Int /\ total \in Nat /\ <<>> \in Seq(Byte)
    BY DEF Laid
<1>1. CASE Rejected(p, a)
  <2>1. Block(p, a) = [data |-> <<>>, open |-> fileOpen]
    BY <1>1, Zenon DEF Block
  <2> QED
    BY <1>0, <1>1, <2>1
<1>2. CASE ~Rejected(p, a)
  <2> DEFINE s == SegmentOf(p)
             c == Clipped(p, a)
             z == [ok |-> TRUE, open |-> fileOpen, pos |-> p, left |-> c,
                   data |-> <<>>]
             n == Len(segments) - s + 1
             f == CHOOSE g : Rounds(g, z, s, n)
  <2>1. p < total /\ c \in Nat /\ c > 0 /\ p + c <= total
    BY <1>0, <1>2 DEF Rejected, Clipped
  <2>2. /\ s \in Files
        /\ segments[s].start <= p /\ p < segments[s].end
    BY <2>1, SegmentFound
  <2>3. Files = 1..Len(segments) /\ Len(segments) \in Nat /\ n \in Nat
        /\ s \in Nat
    BY <2>2, SegmentFields
  <2>4. Block(p, a) = [data |-> IF f[n].ok THEN f[n].data ELSE <<>>,
                       open |-> f[n].open]
    BY <1>2, Zenon DEF Block, Rounds
  <2>5. Rounds(f, z, s, n)
    <3> HIDE DEF z, n, s
    <3>1. \E g : Rounds(g, z, s, n)
        BY <2>3, RoundsExist
    <3> QED
        BY <3>1, Zenon
  <2> HIDE DEF f
  <2>6. /\ f[0] = z
        /\ \A i \in 1..n : f[i] = Round(f[i - 1], s + i - 1)
    <3> HIDE DEF z, n, s
    <3>1. \A i \in 0..n :
            f[i] = IF i = 0 THEN z ELSE Round(f[i - 1], s + i - 1)
        BY <2>5, Zenon DEF Rounds
    <3>2. 0 \in 0..n /\ \A i \in 1..n : i \in 0..n /\ i # 0
        BY <2>3
    <3> QED
        BY <3>1, <3>2
  <2>7. Good(z, p, c, s, 0)
    <3> HIDE DEF c
    <3>1. /\ z \in [ok : BOOLEAN, open : Int, pos : Nat, left : Nat,
                    data : Seq(Byte)]
          /\ z.left = c /\ z.pos = p /\ z.data = <<>> /\ z.ok = TRUE
          /\ Len(z.data) = 0
        BY <1>0, <2>1
    <3>2. s + 0 = s /\ c - c = 0 /\ p + 0 = p
        BY <2>1, <2>3
    <3> HIDE DEF z, s
    <3> QED
        BY <2>1, <2>2, <3>1, <3>2 DEF Good
  <2> DEFINE S == {k \in Nat : k <= n => Good(f[k], p, c, s, k)}
  <2>8. 0 \in S
    BY <2>6, <2>7
  <2>9. ASSUME NEW k \in Nat, k \in S
        PROVE  k + 1 \in S
    <3> SUFFICES ASSUME k + 1 <= n PROVE Good(f[k + 1], p, c, s, k + 1)
        OBVIOUS
    <3> HIDE DEF c, z, s
    <3>1. k + 1 \in 1..n /\ (k + 1) - 1 = k /\ s + (k + 1) - 1 = s + k
          /\ k <= n /\ s + k \in Files
        BY <2>2, <2>3
    <3> HIDE DEF n
    <3>2. f[k + 1] = Round(f[k], s + k)
        BY <2>6, <3>1
    <3>3. Good(f[k], p, c, s, k)
        BY <2>9, <3>1
    <3>4. Good(Round(f[k], s + k), p, c, s, k + 1)
        BY <2>1, <2>2, <3>1, <3>3, RoundGood
    <3> QED
        BY <3>2, <3>4
  <2>10. \A k \in Nat : k \in S => k + 1 \in S
    BY <2>9
  <2>11. Nat \subseteq S
    <3> HIDE DEF S
    <3> QED
        BY <2>8, <2>10, SetInduction, Zenon
  <2>12. Good(f[n], p, c, s, n)
    BY <2>3, <2>11
  <2> DEFINE r == f[n]
  <2>13. s + n \notin Files
    BY <2>3
  <2> HIDE DEF n, c, s, S, z
  <2>14. /\ r.ok \in BOOLEAN /\ r.open \in Int /\ r.left \in Nat
         /\ r.data \in Seq(Byte) /\ Len(r.data) = c - r.left
         /\ \A i \in 1..Len(r.data) : PlaceOf(r.data[i]) = p + i - 1
         /\ r.ok => ~(r.left > 0)
         /\ present = Files => r.ok
    BY <2>12, <2>13 DEF Good
  <2> DEFINE b == Block(p, a)
  <2>15. b.data = (IF r.ok THEN r.data ELSE <<>>) /\ b.open = r.open
    BY <2>4
  <2> HIDE DEF r, b
  <2>16. b.open \in Int /\ b.data \in Seq(Byte)
    BY <1>0, <2>14, <2>15
  <2>17. CASE r.ok
    <3>1. r.left = 0
        BY <2>14, <2>17
    <3>2. b.data = r.data /\ Len(r.data) = c
        BY <2>1, <2>14, <2>15, <2>17, <3>1
    <3>3. b.data # <<>>
        BY <2>1, <3>2
    <3> QED
        BY <2>14, <2>16, <3>2, <3>3 DEF b, c
  <2>18. CASE ~r.ok
    <3>1. b.data = <<>> /\ present # Files
        BY <2>14, <2>15, <2>18
    <3> QED
        BY <2>16, <3>1 DEF b
  <2> QED
    BY <2>14, <2>17, <2>18
<1> QED
    BY <1>1, <1>2

-----------------------------------------------------------------------------
(* What is read and sent.                                                  *)

Streaming == reply.status \in {200, 206}

(* The next byte to be sent is the one behind those sent.                  *)
Position ==
    /\ offset \in Nat /\ sent \in Seq(Byte)
    /\ Streaming => /\ from \in Nat /\ reply.from \in Nat
                    /\ from = reply.from + Len(sent)
    /\ ~Streaming => sent = <<>>

AnswerTyped == answer \in [pos : Nat, amount : Nat, data : Seq(Byte)]

ReadInv ==
    /\ Laid /\ Position /\ AnswerTyped
    /\ BlockRight /\ BlockGiven /\ SentInOrder

LEMMA ReadInit == Init => ReadInv
<1> SUFFICES ASSUME Init PROVE ReadInv
    OBVIOUS
<1> USE PlayerAssumption DEF PlayerAssumption
<1>1. PICK n \in 1..MaxSegments, e \in [0..MaxSegments -> 0..MaxLength] :
        /\ e[0] = 0
        /\ \A i \in 1..MaxSegments :
             IF i < n THEN e[i] > e[i - 1]
             ELSE IF i = n THEN e[i] >= e[i - 1] ELSE e[i] = 0
        /\ segments = [i \in 1..n |-> [start |-> e[i - 1], end |-> e[i]]]
        /\ total = e[n]
    BY DEF Init, PlayerInit, Scan
<1>2. n \in Nat /\ n >= 1 /\ n <= MaxSegments /\ \A i \in 0..n : e[i] \in Nat
    OBVIOUS
<1>3. \A i \in 1..n : /\ segments[i].start = e[i - 1] /\ segments[i].end = e[i]
                      /\ [start |-> e[i - 1], end |-> e[i]]
                           \in [start : Nat, end : Nat]
    BY SMTT(40), <1>1, <1>2
<1>4. segments \in Seq([start : Nat, end : Nat]) /\ Len(segments) = n
  <2> DEFINE S == [start : Nat, end : Nat]
  <2>1. segments \in [1..n -> S]
    BY <1>1, <1>3
  <2> HIDE DEF S
  <2>2. segments \in Seq(S) /\ Len(segments) = n
    BY <1>2, <2>1
  <2> QED
    BY <2>2 DEF S
<1>5. fileOpen = 0 /\ present = Files /\ answer = NoAnswer
    BY DEF Init, PlayerInit
<1>6. \A i \in 1..(n - 1) : /\ segments[i].start < segments[i].end
                            /\ segments[i].end = segments[i + 1].start
  <2> TAKE i \in 1..(n - 1)
  <2>1. i \in 1..n /\ i + 1 \in 1..n /\ i < n /\ (i + 1) - 1 = i
        /\ i \in 1..MaxSegments
    BY <1>2
  <2>2. e[i] > e[i - 1] /\ e[i] \in Nat /\ e[i - 1] \in Nat
    BY SMTT(40), <1>1, <1>2, <2>1
  <2> QED
    BY <1>3, <2>1, <2>2
<1>7. segments[1].start = 0
  <2>1. 1 \in 1..n /\ 1 - 1 = 0
    BY <1>2
  <2>2. segments[1].start = e[1 - 1]
    BY <1>3, <2>1
  <2> QED
    BY <1>1, <2>1, <2>2
<1>8. segments[n].end = total /\ segments[n].start <= total /\ total \in Nat
  <2>1. n \in 1..n /\ n \in 1..MaxSegments /\ n - 1 \in 0..n /\ n \in 0..n
    BY <1>2
  <2>2. e[n] >= e[n - 1] /\ e[n] \in Nat /\ e[n - 1] \in Nat
    BY <1>1, <1>2, <2>1
  <2> QED
    BY <1>1, <1>3, <2>1, <2>2
<1>9. Laid
    BY <1>2, <1>4, <1>5, <1>6, <1>7, <1>8 DEF Laid
<1>10. /\ answer.pos = 0 /\ answer.amount = 0 /\ answer.data = <<>>
       /\ AnswerTyped
  <2>1. <<>> \in Seq(Byte)
    OBVIOUS
  <2> QED
    BY <1>5, <2>1 DEF NoAnswer, AnswerTyped
<1>11. Position /\ SentInOrder
  <2>1. <<>> \in Seq(Byte) /\ Len(<<>>) = 0 /\ DOMAIN <<>> = {}
    OBVIOUS
  <2>2. sent = <<>> /\ offset = 0 /\ reply.status = 0
    BY DEF Init, NoReply
  <2> QED
    BY <2>1, <2>2 DEF Position, Streaming, SentInOrder
<1> QED
    BY <1>9, <1>10, <1>11 DEF ReadInv, BlockRight, BlockGiven

LEMMA GetBlockInv ==
    ASSUME Laid, NEW p \in Nat, NEW a \in Nat \ {0}, GetBlock(p, a)
    PROVE  /\ Laid' /\ AnswerTyped' /\ BlockRight' /\ BlockGiven'
           /\ answer'.data \in Seq(Byte)
           /\ \A i \in 1..Len(answer'.data) : PlaceOf(answer'.data[i]) = p + i - 1
<1> DEFINE b == Block(p, a)
<1>1. /\ fileOpen' = b.open
      /\ answer' = [pos |-> p, amount |-> a, data |-> b.data]
      /\ segments' = segments /\ total' = total /\ present' = present
    BY DEF GetBlock
<1>2. /\ b.open \in Int /\ b.data \in Seq(Byte)
      /\ b.data # <<>> =>
           /\ Len(b.data) = Clipped(p, a)
           /\ \A i \in 1..Len(b.data) : PlaceOf(b.data[i]) = p + i - 1
      /\ present = Files /\ ~Rejected(p, a) => b.data # <<>>
    BY BlockGood
<1> HIDE DEF b
<1>3. answer'.pos = p /\ answer'.amount = a /\ answer'.data = b.data
    BY <1>1
<1>4. Laid'
    BY <1>1, <1>2 DEF Laid, Files
<1>5. AnswerTyped'
    BY <1>1, <1>2 DEF AnswerTyped
<1>6. DOMAIN b.data = 1..Len(b.data)
    BY <1>2
<1>7. BlockRight'
    BY <1>1, <1>2, <1>3, <1>6 DEF BlockRight, Clipped, PlaceOf
<1>8. BlockGiven'
  <2> SUFFICES ASSUME present = Files, p < total, a \in 1..MaxAmount, a <= total
               PROVE  b.data # <<>>
    BY <1>1, <1>3 DEF BlockGiven, Files
  <2>1. ~Rejected(p, a)
    BY PlayerAssumption DEF Rejected, PlayerAssumption, Laid
  <2> QED
    BY <1>2, <2>1
<1>9. \A i \in 1..Len(b.data) : PlaceOf(b.data[i]) = p + i - 1
  <2>1. CASE b.data = <<>>
    BY <2>1
  <2>2. CASE b.data # <<>>
    BY <1>2, <2>2
  <2> QED
    BY <2>1, <2>2
<1> QED
    BY <1>2, <1>3, <1>4, <1>5, <1>7, <1>8, <1>9

(* The bytes taken follow those sent before.                               *)
LEMMA TransferReads ==
    ASSUME ReadInv, Transfer
    PROVE  ReadInv'
<1>1. /\ Laid /\ Streaming /\ offset \in Nat /\ from \in Nat
      /\ sent \in Seq(Byte) /\ reply.from \in Nat
      /\ from = reply.from + Len(sent)
    BY DEF ReadInv, Position, Transfer, Streaming
<1>2. offset + from \in Nat /\ BufSize \in Nat \ {0}
    BY <1>1, StreamAssumption DEF StreamAssumption
<1>3. GetBlock(offset + from, BufSize)
    BY DEF Transfer
<1> DEFINE d == answer'.data
<1>4. /\ Laid' /\ AnswerTyped' /\ BlockRight' /\ BlockGiven'
      /\ d \in Seq(Byte)
      /\ \A i \in 1..Len(d) : PlaceOf(d[i]) = (offset + from) + i - 1
    BY <1>1, <1>2, <1>3, GetBlockInv
<1>5. PICK k \in 1..Len(d) : /\ sent' = sent \o SubSeq(d, 1, k)
                             /\ from' = from + k
    BY DEF Transfer, Taken
<1>6. /\ offset' = offset /\ reply' = reply /\ segments' = segments
    BY DEF Transfer, GetBlock
<1> HIDE DEF d
<1> DEFINE x == SubSeq(d, 1, k)
<1>7. /\ x \in Seq(Byte) /\ Len(x) = k /\ Len(d) \in Nat
      /\ \A i \in 1..k : x[i] = d[i] /\ i \in 1..Len(d)
    BY <1>4
<1> HIDE DEF x
<1>8. /\ sent' \in Seq(Byte) /\ Len(sent') = Len(sent) + k
      /\ Len(sent) \in Nat /\ k \in Nat
      /\ \A i \in 1..Len(sent) : sent'[i] = sent[i]
      /\ \A i \in 1..(Len(sent) + k) :
           i > Len(sent) => /\ i - Len(sent) \in 1..k
                            /\ sent'[i] = x[i - Len(sent)]
  <2>1. sent' = sent \o x
    BY <1>5 DEF x
  <2> QED
    BY ZenonT(40), <1>1, <1>7, <2>1, AppendBytes
<1>9. Position'
  <2>1. from' \in Nat /\ from' = reply.from + Len(sent')
    BY SMTT(40), <1>1, <1>5, <1>8
  <2> QED
    BY ZenonT(40), <1>1, <1>6, <1>8, <2>1 DEF Position, Streaming
<1>10. SentInOrder'
  <2>1. DOMAIN sent' = 1..Len(sent') /\ DOMAIN sent = 1..Len(sent)
    BY <1>1, <1>8
  <2>2. ASSUME NEW i \in 1..Len(sent')
        PROVE  PlaceOf(sent'[i]) = offset + reply.from + i - 1
    <3>1. CASE i <= Len(sent)
      <4>1. i \in DOMAIN sent /\ sent'[i] = sent[i]
        BY <1>8, <2>1, <3>1
      <4> QED
        BY <4>1 DEF ReadInv, SentInOrder
    <3>2. CASE i > Len(sent)
      <4> DEFINE j == i - Len(sent)
      <4>1. j \in 1..k /\ sent'[i] = x[j] /\ i = Len(sent) + j
        BY <1>8, <3>2
      <4> HIDE DEF j
      <4>2. PlaceOf(sent'[i]) = (offset + from) + j - 1
        BY <1>4, <1>7, <4>1
      <4> QED
        <5> DEFINE b == reply.from
        <5>1. b \in Nat /\ from = b + Len(sent)
            BY <1>1
        <5> HIDE DEF b
        <5>2. (offset + from) + j - 1 = offset + b + i - 1
            BY SMTT(40), <1>1, <1>8, <4>1, <5>1
        <5> QED
            BY <4>2, <5>2 DEF b
    <3> QED
        BY <1>8, <3>1, <3>2
  <2> QED
    BY <1>6, <2>1, <2>2 DEF SentInOrder, PlaceOf
<1> QED
    BY <1>4, <1>9, <1>10 DEF ReadInv

(* The streamer starts where the response says.                            *)
LEMMA GetReads ==
    ASSUME ReadInv, Get
    PROVE  ReadInv'
<1> DEFINE L(q) == total - (IF Faked(q) THEN 0 ELSE q.start)
           R(q) == SetRange(Shifted(q), L(q))
<1>1. PICK q \in Requests :
        /\ offset' = total - L(q)
        /\ IF ~q.range.hasRange
             THEN /\ from' = 0 /\ to' = L(q) - 1
                  /\ reply' = [status |-> 200, from |-> 0, to |-> L(q) - 1]
             ELSE /\ from' = R(q)[1] /\ to' = R(q)[2]
                  /\ reply' = [status |-> IF R(q)[2] - R(q)[1] + 1 < 0
                                            THEN 416 ELSE 206,
                               from |-> R(q)[1], to |-> R(q)[2]]
    BY DEF Get
<1>2. /\ reply = NoReply /\ sent' = sent
      /\ UNCHANGED <<segments, total, fileOpen, present, answer>>
    BY DEF Get, playerVars
<1>3. sent = <<>> /\ sent \in Seq(Byte) /\ total \in Nat
    BY <1>2 DEF ReadInv, Position, Streaming, NoReply, Laid
<1>4. q.start \in Nat /\ q.range \in Ranges
    BY PlayerAssumption DEF Requests, PlayerAssumption
<1>5. offset' \in Nat /\ L(q) \in Int
    BY <1>1, <1>3, <1>4
<1>6. q.range.from \in Int /\ q.range.to \in Int
    BY <1>4, RangeFields
<1>7. R(q)[1] \in Nat
  <2> DEFINE r == Shifted(q)
             l == L(q)
  <2>1. r.from \in Int /\ r.to \in Int
    BY <1>4, <1>6 DEF Shifted
  <2> HIDE DEF r, l
  <2>2. l \in Int
    BY <1>5 DEF l
  <2>3. SetRange(r, l)[1] \in Nat
    BY <2>1, <2>2 DEF SetRange
  <2> QED
    BY <2>3 DEF r, l
<1>8. from' \in Nat /\ reply'.from = from'
  <2> HIDE DEF L, R
  <2> QED
    BY <1>1, <1>7
<1> HIDE DEF L, R
<1>9. Position'
  <2>1. sent' = <<>> /\ Len(sent') = 0 /\ sent' \in Seq(Byte)
    BY <1>2, <1>3
  <2>2. from' = reply'.from + Len(sent') /\ reply'.from \in Nat
    <3> DEFINE b == reply'.from
    <3>1. b \in Nat /\ from' = b
        BY <1>8
    <3> HIDE DEF b
    <3>2. from' = b + Len(sent')
        BY <2>1, <3>1
    <3> QED
        BY <3>1, <3>2 DEF b
  <2> QED
    BY <1>5, <1>8, <2>1, <2>2 DEF Position
<1>10. SentInOrder'
    BY <1>2, <1>3 DEF SentInOrder
<1>11. Laid' /\ AnswerTyped' /\ BlockRight' /\ BlockGiven'
    BY <1>2
    DEF ReadInv, Laid, AnswerTyped, BlockRight, BlockGiven, Files, PlaceOf,
        Clipped
<1> QED
    BY <1>9, <1>10, <1>11 DEF ReadInv

(* A call of getBlock that sends nothing.                                  *)
LEMMA OnlyReads ==
    ASSUME ReadInv, NEW p \in Nat, NEW a \in Nat \ {0}, GetBlock(p, a),
           UNCHANGED streamVars
    PROVE  ReadInv'
<1>1. /\ Laid /\ segments' = segments
      /\ UNCHANGED <<reply, offset, from, sent>>
    BY DEF ReadInv, GetBlock, streamVars
<1>2. Laid' /\ AnswerTyped' /\ BlockRight' /\ BlockGiven'
    BY <1>1, GetBlockInv
<1>3. Position' /\ SentInOrder'
    BY <1>1 DEF ReadInv, Position, Streaming, SentInOrder, PlaceOf
<1> QED
    BY <1>2, <1>3 DEF ReadInv

LEMMA ReadNext ==
    ASSUME ReadInv, [Next]_vars
    PROVE  ReadInv'
<1>1. CASE TransferFails
  <2>1. offset + from \in Nat /\ BufSize \in Nat \ {0}
    BY <1>1, StreamAssumption
    DEF TransferFails, StreamAssumption, ReadInv, Position, Streaming
  <2> QED
    BY <1>1, <2>1, OnlyReads DEF TransferFails
<1>2. CASE ReadBlock
  <2>1. PICK p \in 0..MaxLength, n \in 1 .. MaxAmount + 1 : GetBlock(p, n)
    BY <1>2 DEF ReadBlock, Read
  <2>2. p \in Nat /\ n \in Nat \ {0}
    BY PlayerAssumption DEF PlayerAssumption
  <2> QED
    BY <1>2, <2>1, <2>2, OnlyReads DEF ReadBlock
<1>3. CASE DeleteFile
  <2>1. /\ UNCHANGED <<segments, total, fileOpen, answer>>
        /\ UNCHANGED <<reply, offset, from, sent>>
        /\ \E s \in present : present' = present \ {s}
    BY <1>3 DEF DeleteFile, Delete, streamVars
  <2>2. Laid' /\ present' # Files
    BY <2>1 DEF ReadInv, Laid, Files
  <2>3. BlockGiven'
    BY <2>1, <2>2 DEF BlockGiven, Files
  <2>4. AnswerTyped' /\ BlockRight' /\ Position' /\ SentInOrder'
    BY <2>1
    DEF ReadInv, AnswerTyped, BlockRight, Position, SentInOrder, Streaming,
        PlaceOf, Clipped
  <2> QED
    BY <2>2, <2>3, <2>4 DEF ReadInv
<1>4. CASE Done \/ UNCHANGED vars
  <2>1. /\ UNCHANGED <<segments, total, fileOpen, present, answer>>
        /\ UNCHANGED <<reply, offset, from, sent>>
    BY <1>4 DEF Done, vars, playerVars, streamVars
  <2> QED
    BY <2>1
    DEF ReadInv, Laid, AnswerTyped, BlockRight, BlockGiven, Position,
        SentInOrder, Streaming, PlaceOf, Clipped, Files
<1> QED
    BY <1>1, <1>2, <1>3, <1>4, TransferReads, GetReads DEF Next

(* getBlock returns the bytes of the recording from the position asked for *)
(* or nothing, never refuses what is there, and what a stream sends is the *)
(* recording from where the response says, for any number and length of    *)
(* files, blocks of any size, and whatever was read before.                *)
THEOREM BytesAreRight == Spec => []BytesRight
<1>1. Init => ReadInv
    BY ReadInit
<1>2. ReadInv /\ [Next]_vars => ReadInv'
    BY ReadNext
<1>3. ReadInv => BytesRight
    BY DEF ReadInv, BytesRight
<1> QED
    BY <1>1, <1>2, <1>3, PTL DEF Spec

-----------------------------------------------------------------------------
(* The repackers: a packet that is put out fits, whatever came in.         *)

Octet == 0 .. 255
PesHeader == [pts : BOOLEAN, starts : BOOLEAN]
Packet == [pts : BOOLEAN, starts : BOOLEAN, body : Seq(Octet)]
States == {"syncing", "findPicture", "scanPicture", "scanFrame", "find_77",
           "store_chk1", "store_chk2", "get_length", "output_packet"}
Repacker ==
    [state : States, initiallySyncing : BOOLEAN, skipped : Nat,
     packetTodo : Int, frameTodo : Int, frameSize : Nat, scanner : Seq(Octet),
     body : Seq(Octet), pts : BOOLEAN, starts : BOOLEAN, fragmentTodo : Int,
     backup : BOOLEAN, header : PesHeader, out : Seq(Packet)]

(* What a packet has room for.                                             *)
Room(k, p) == MaxPacketSize[k] - HeaderSize[p]
Fit(k, p) == p.body # <<>> /\ Len(p.body) <= Room(k, p.pts)
AllFit(k, out) == \A i \in 1 .. Len(out) : Fit(k, out[i])

LEMMA RoomIs ==
    ASSUME NEW k \in Kinds, NEW p \in BOOLEAN
    PROVE  /\ HeaderSize[p] \in Nat /\ MaxPacketSize[k] \in Nat
           /\ Room(k, p) \in Nat /\ Room(k, p) >= 4
           /\ k = "dolby" => Room(k, p) >= 5
<1> DEFINE a == HeaderSize[p]
           b == MaxPacketSize[k]
<1>1. /\ a \in Nat /\ b \in Nat /\ a + 4 <= b
      /\ a + 5 <= MaxPacketSize["dolby"]
    BY RepackersAssumption
<1>2. k = "dolby" => a + 5 <= b
    BY <1>1
<1>3. Room(k, p) = b - a
    BY DEF Room
<1> HIDE DEF a, b
<1>4. b - a \in Nat /\ b - a >= 4 /\ (k = "dolby" => b - a >= 5)
    BY <1>1, <1>2
<1> QED
    BY <1>1, <1>3, <1>4 DEF a, b

LEMMA RoomFor ==
    ASSUME NEW v \in DOMAIN AudioSizes, NEW p \in BOOLEAN
    PROVE  /\ AudioSizes[v] \in Nat /\ (AudioSizes[v] # 0 => AudioSizes[v] >= 4)
           /\ AudioSizes[v] <= Room("audio", p)
<1> DEFINE a == HeaderSize[p]
           b == MaxPacketSize["audio"]
           s == AudioSizes[v]
<1>1. a + s <= b /\ s \in {0} \cup (Nat \ 0 .. 3)
    BY RepackersAssumption
<1>2. a \in Nat /\ b \in Nat
    BY RoomIs DEF Kinds
<1>3. Room("audio", p) = b - a
    BY DEF Room
<1> HIDE DEF a, b, s
<1>4. s \in Nat /\ (s # 0 => s >= 4) /\ s <= b - a
    BY <1>1, <1>2
<1> QED
    BY <1>3, <1>4 DEF s

(* The numbers and sequences of a repacker; its flags.                     *)
LEMMA FieldsAre ==
    ASSUME NEW q \in Repacker
    PROVE  /\ q.state \in States
           /\ q.skipped \in Nat /\ q.packetTodo \in Int /\ q.frameTodo \in Int
           /\ q.frameSize \in Nat /\ q.scanner \in Seq(Octet)
           /\ q.body \in Seq(Octet) /\ Len(q.body) \in Nat
           /\ q.fragmentTodo \in Int /\ q.out \in Seq(Packet)
<1>1. q.body \in Seq(Octet)
    BY DEF Repacker
<1>2. Len(q.body) \in Nat
    BY <1>1, LenProperties, Zenon
<1> QED
    BY <1>1, <1>2 DEF Repacker

LEMMA FlagsAre ==
    ASSUME NEW q \in Repacker
    PROVE  /\ q.pts \in BOOLEAN /\ q.starts \in BOOLEAN /\ q.backup \in BOOLEAN
           /\ q.initiallySyncing \in BOOLEAN /\ q.header \in PesHeader
BY DEF Repacker

LEMMA ShiftIs ==
    ASSUME NEW q, NEW b \in Octet, q.scanner \in Seq(Octet), Len(q.scanner) = 4
    PROVE  /\ Front4(q, b) \in Seq(Octet) /\ Len(Front4(q, b)) = 4
           /\ Front4(q, b)[1] = q.scanner[2] /\ Front4(q, b)[2] = q.scanner[3]
           /\ Front4(q, b)[3] = q.scanner[4] /\ Front4(q, b)[4] = b
<1> DEFINE s == q.scanner
           u == Tail(s)
           w == Append(u, b)
<1>1. s \in Seq(Octet) /\ Len(s) = 4
    OBVIOUS
<1> HIDE DEF s
<1>2. s # <<>>
  <2>1. Len(s) # 0
    BY <1>1
  <2> QED
    BY <1>1, <2>1, EmptySeq, Zenon
<1>3. /\ u \in Seq(Octet) /\ Len(u) = Len(s) - 1
      /\ \A i \in 1 .. Len(u) : u[i] = s[i + 1]
    BY <1>1, <1>2, HeadTailProperties, Zenon
<1> HIDE DEF u
<1>4. Len(u) = 3
    BY <1>1, <1>3
<1>5. u[1] = s[2] /\ u[2] = s[3] /\ u[3] = s[4]
  <2>1. \A i \in 1 .. 3 : u[i] = s[i + 1]
    BY <1>3, <1>4
  <2> QED
    BY <2>1
<1>6. /\ w \in Seq(Octet) /\ Len(w) = Len(u) + 1
      /\ \A i \in 1 .. Len(u) : w[i] = u[i]
      /\ w[Len(u) + 1] = b
    BY <1>3, AppendProperties
<1> HIDE DEF w
<1>7. Len(w) = 4 /\ w[1] = u[1] /\ w[2] = u[2] /\ w[3] = u[3] /\ w[4] = b
  <2>1. (\A i \in 1 .. 3 : w[i] = u[i]) /\ Len(w) = 3 + 1 /\ w[3 + 1] = b
    BY <1>4, <1>6, Zenon
  <2> QED
    BY <2>1
<1>8. Front4(q, b) = w
    BY DEF Front4, w, u, s
<1> QED
    BY <1>5, <1>6, <1>7, <1>8 DEF s

LEMMA GrowIs ==
    ASSUME NEW s \in Seq(Octet), NEW b \in Octet
    PROVE  Append(s, b) \in Seq(Octet) /\ Len(Append(s, b)) = Len(s) + 1
BY AppendProperties, Zenon

(* The first m of a sequence.                                              *)
LEMMA FrontIs ==
    ASSUME NEW s \in Seq(Octet), NEW m \in Int, m <= Len(s)
    PROVE  /\ SubSeq(s, 1, m) \in Seq(Octet)
           /\ SubSeq(s, 1, m) = <<>> <=> m <= 0
           /\ m >= 0 => Len(SubSeq(s, 1, m)) = m
<1>0. Len(s) \in Nat
    BY LenProperties, Zenon
<1>1. CASE m <= 0
  <2>1. SubSeq(s, 1, m) = <<>>
    BY <1>1
  <2> QED
    BY <1>1, <2>1
<1>2. CASE m > 0
  <2>1. SubSeq(s, 1, m) \in Seq(Octet) /\ Len(SubSeq(s, 1, m)) = m
    BY <1>0, <1>2
  <2> DEFINE t == SubSeq(s, 1, m)
  <2> HIDE DEF t
  <2>2. Len(t) # 0 /\ t \in Seq(Octet)
    BY <1>2, <2>1 DEF t
  <2>3. t # <<>>
    BY <2>2, EmptySeq, Zenon
  <2> QED
    BY <1>2, <2>1, <2>3 DEF t
<1> QED
    BY <1>0, <1>1, <1>2

(* The last n.                                                             *)
LEMMA BackIs ==
    ASSUME NEW s \in Seq(Octet), NEW n \in Nat, n <= Len(s)
    PROVE  LastBytes(s, n) \in Seq(Octet) /\ Len(LastBytes(s, n)) = n
<1>0. Len(s) \in Nat
    BY LenProperties, Zenon
<1>1. /\ SubSeq(s, Len(s) - n + 1, Len(s)) \in Seq(Octet)
      /\ Len(SubSeq(s, Len(s) - n + 1, Len(s))) = n
    BY <1>0
<1> QED
    BY <1>1 DEF LastBytes

(* A packet that fits goes out.                                            *)
LEMMA PushIs ==
    ASSUME NEW k \in Kinds, NEW q \in Repacker, AllFit(k, q.out),
           NEW n \in Nat, NEW room \in Nat, room = Room(k, q.pts),
           Len(q.body) - n <= room
    PROVE  \E out \in Seq(Packet) :
             PushOutPacket(q, n) = [q EXCEPT !.out = out] /\ AllFit(k, out)
<1> DEFINE m == Len(q.body) - n
           body == SubSeq(q.body, 1, m)
           p == [pts |-> q.pts, starts |-> q.starts, body |-> body]
           out == Append(q.out, p)
<1>0. q.body \in Seq(Octet) /\ Len(q.body) \in Nat /\ q.out \in Seq(Packet)
    BY FieldsAre, Zenon
<1>1. m \in Int /\ m <= Len(q.body) /\ m <= room
    BY <1>0
<1> HIDE DEF m
<1>2. body \in Seq(Octet) /\ (body = <<>> <=> m <= 0) /\ (m >= 0 => Len(body) = m)
    BY <1>0, <1>1, FrontIs, Zenon
<1>3. CASE body = <<>>
  <2>1. PushOutPacket(q, n) = q
    BY <1>3, Zenon DEF PushOutPacket, m
  <2>2. q = [q EXCEPT !.out = q.out]
    BY DEF Repacker
  <2> QED
    BY <1>0, <2>1, <2>2
<1>4. CASE body # <<>>
  <2>1. PushOutPacket(q, n) = [q EXCEPT !.out = out]
    BY <1>4, Zenon DEF PushOutPacket, m
  <2> HIDE DEF body
  <2>2. Len(body) = m /\ m <= room
    BY <1>1, <1>2, <1>4
  <2>3. p \in Packet
    BY <1>2, FlagsAre DEF Packet
  <2>4. p.body = body /\ p.pts = q.pts
    OBVIOUS
  <2> HIDE DEF p
  <2>5. Fit(k, p)
    BY <1>4, <2>2, <2>4 DEF Fit
  <2>6. /\ out \in Seq(Packet) /\ Len(out) = Len(q.out) + 1
        /\ \A i \in 1 .. Len(q.out) : out[i] = q.out[i]
        /\ out[Len(q.out) + 1] = p
    BY <1>0, <2>3, AppendProperties
  <2> HIDE DEF out
  <2> DEFINE l == Len(q.out)
  <2>7. l \in Nat
    BY <1>0, LenProperties, Zenon
  <2>8. ASSUME NEW i \in 1 .. Len(out) PROVE Fit(k, out[i])
    <3>1. l \in Nat /\ Len(out) = l + 1
      BY <2>6, <2>7
    <3>2. (\A j \in 1 .. l : out[j] = q.out[j]) /\ out[l + 1] = p
      BY <2>6
    <3>3. \A j \in 1 .. l : Fit(k, q.out[j])
      BY Zenon DEF AllFit
    <3> HIDE DEF l
    <3>4. i \in 1 .. l \/ i = l + 1
      BY <3>1
    <3> QED
      BY <2>5, <3>2, <3>3, <3>4, Zenon
  <2> QED
    BY <2>1, <2>6, <2>8, Zenon DEF AllFit
<1> QED
    BY <1>3, <1>4

(* What all repackers keep to; and how many bytes a packet lacks.          *)
Basic(k, q) == q \in Repacker /\ Len(q.scanner) = 4 /\ AllFit(k, q.out)
Lacks(k, q) == Len(q.body) + q.packetTodo = Room(k, q.pts)

(* What a step of a repacker leaves alone.                                 *)
SameFrame(q, Q) ==
    /\ Q.state = q.state /\ Q.scanner = q.scanner /\ Q.frameTodo = q.frameTodo
    /\ Q.frameSize = q.frameSize /\ Q.skipped = q.skipped

LEMMA PushBasic ==
    ASSUME NEW k \in Kinds, NEW q, Basic(k, q), NEW n \in Nat,
           Len(q.body) - n <= Room(k, q.pts),
           NEW Q, Q = PushOutPacket(q, n)
    PROVE  /\ Basic(k, Q) /\ SameFrame(q, Q) /\ Q.body = q.body
           /\ Q.packetTodo = q.packetTodo
<1>0. q \in Repacker /\ AllFit(k, q.out)
    BY Zenon DEF Basic
<1>1. Room(k, q.pts) \in Nat
    BY <1>0, FlagsAre, RoomIs, Zenon
<1>2. PICK out \in Seq(Packet) : Q = [q EXCEPT !.out = out] /\ AllFit(k, out)
    BY <1>0, <1>1, PushIs, Zenon
<1>3. /\ Q \in Repacker /\ Q.out = out
    BY <1>0, <1>2 DEF Repacker
<1>4. SameFrame(q, Q) /\ Q.body = q.body /\ Q.packetTodo = q.packetTodo
    BY <1>0, <1>2 DEF Repacker, SameFrame
<1> QED
    BY <1>2, <1>3, <1>4, Zenon DEF Basic, SameFrame

(* A packet begun, by the values it gets.                                  *)
Begun(q, body, flag, todo) ==
    [q EXCEPT !.body = body, !.pts = flag, !.backup = FALSE,
              !.packetTodo = todo, !.initiallySyncing = FALSE, !.skipped = 0]

LEMMA BegunIs ==
    ASSUME NEW q \in Repacker, NEW body \in Seq(Octet), NEW flag \in BOOLEAN,
           NEW todo \in Int
    PROVE  /\ Begun(q, body, flag, todo) \in Repacker
           /\ Begun(q, body, flag, todo).out = q.out
           /\ Begun(q, body, flag, todo).body = body
           /\ Begun(q, body, flag, todo).packetTodo = todo
           /\ Begun(q, body, flag, todo).state = q.state
           /\ Begun(q, body, flag, todo).scanner = q.scanner
           /\ Begun(q, body, flag, todo).pts = flag
<1>1. Begun(q, body, flag, todo) \in Repacker
    BY DEF Repacker, Begun
<1>2. /\ Begun(q, body, flag, todo).out = q.out
      /\ Begun(q, body, flag, todo).body = body
      /\ Begun(q, body, flag, todo).packetTodo = todo
      /\ Begun(q, body, flag, todo).state = q.state
      /\ Begun(q, body, flag, todo).scanner = q.scanner
    BY DEF Repacker, Begun
<1>3. Begun(q, body, flag, todo).pts = flag
    BY DEF Repacker, Begun
<1> QED
    BY <1>1, <1>2, <1>3

LEMMA NewBasic ==
    ASSUME NEW k \in Kinds, NEW q, Basic(k, q), NEW body \in Seq(Octet),
           NEW Q, Q = NewPacket(k, q, body)
    PROVE  /\ Basic(k, Q) /\ Q.body = body /\ Lacks(k, Q)
           /\ Q.state = q.state /\ Q.scanner = q.scanner
<1> DEFINE room == Room(k, q.backup)
           n == Len(body)
           todo == room - n
           flag == q.backup
<1>0. q \in Repacker /\ flag \in BOOLEAN
    BY FlagsAre DEF Basic
<1>1. room \in Nat /\ n \in Nat
    BY <1>0, RoomIs, LenProperties, Zenon
<1>2. todo \in Int /\ n + todo = room
    BY <1>1
<1>3. Q = Begun(q, body, flag, todo)
    BY DEF NewPacket, Room, Begun
<1> HIDE DEF todo, room, n, flag
<1>4. /\ Q \in Repacker /\ Q.out = q.out /\ Q.body = body /\ Q.packetTodo = todo
      /\ Q.state = q.state /\ Q.scanner = q.scanner /\ Q.pts = flag
  <2>1. q \in Repacker
    BY <1>0
  <2>2. flag \in BOOLEAN
    BY <1>0
  <2>3. todo \in Int
    BY <1>2
  <2>4. /\ Q \in Repacker /\ Q.out = q.out /\ Q.body = body
        /\ Q.packetTodo = todo /\ Q.state = q.state /\ Q.scanner = q.scanner
    BY <1>3, <2>1, <2>2, <2>3, BegunIs
  <2>5. Q.pts = flag
    BY <1>3, <2>1, <2>2 DEF Begun, Repacker
  <2> QED
    BY <2>4, <2>5, Zenon
<1>6. Lacks(k, Q)
    BY <1>2, <1>4, Zenon DEF Lacks, room, n, flag
<1> QED
    BY <1>4, <1>6, Zenon DEF Basic

LEMMA CutBasic ==
    ASSUME NEW k \in Kinds, NEW q, Basic(k, q), Lacks(k, q),
           q.packetTodo <= 0, -3 <= q.packetTodo,
           NEW Q, Q = CutPacket(k, q)
    PROVE  /\ Basic(k, Q) /\ SameFrame(q, Q) /\ Lacks(k, Q) /\ Q.packetTodo > 0
<1> DEFINE t == q.packetTodo
           n == 0 - t
           room == Room(k, q.pts)
           next == Room(k, FALSE)
           P == PushOutPacket(q, n)
           body == LastBytes(q.body, n)
           todo == next + t
           l == Len(q.body)
<1>0. /\ q \in Repacker /\ q.body \in Seq(Octet) /\ l \in Nat /\ t \in Int
    BY FieldsAre DEF Basic
<1>1. room \in Nat /\ next \in Nat /\ next >= 4
    BY <1>0, FlagsAre, RoomIs, Zenon
<1>2. l + t = room
    BY Zenon DEF Lacks
<1>3. t <= 0 /\ -3 <= t
    OBVIOUS
<1>4. -q.packetTodo = n
    BY <1>0
<1>5. Q = [P EXCEPT !.body = body, !.pts = FALSE, !.packetTodo = todo]
    BY <1>4, Zenon DEF CutPacket, Room
<1> HIDE DEF room, next, t, l
<1>6. n \in Nat /\ n <= l /\ l - n = room /\ todo \in Int /\ todo > 0 /\ n + todo = next
    BY <1>0, <1>1, <1>2, <1>3
<1> HIDE DEF n, todo
<1>7. body \in Seq(Octet) /\ Len(body) = n
    BY <1>0, <1>6, BackIs, Zenon DEF l
<1>8. Len(q.body) - n <= Room(k, q.pts)
    BY <1>1, <1>6 DEF l, room
<1>9. Basic(k, P) /\ SameFrame(q, P)
    BY <1>6, <1>8, PushBasic
<1> HIDE DEF P, body
<1>10. P \in Repacker
    BY <1>9 DEF Basic
<1>11. /\ Q \in Repacker /\ Q.out = P.out /\ Q.body = body /\ Q.packetTodo = todo
       /\ SameFrame(P, Q) /\ Q.scanner = P.scanner
    BY <1>5, <1>6, <1>7, <1>10 DEF Repacker, SameFrame
<1>12. Q.pts = FALSE
    BY <1>5, <1>10 DEF Repacker
<1>13. Basic(k, Q)
    BY <1>9, <1>11, Zenon DEF Basic
<1>14. SameFrame(q, Q)
    BY <1>9, <1>11, Zenon DEF SameFrame
<1>15. Lacks(k, Q)
    BY <1>6, <1>7, <1>11, <1>12, Zenon DEF Lacks, next
<1> QED
    BY <1>6, <1>11, <1>13, <1>14, <1>15

(* A byte is scanned; a state is entered; a byte is collected.             *)
Scanned(q, b) == [q EXCEPT !.scanner = Front4(q, b)]
Enter(q, s) == [q EXCEPT !.state = s]
Collect(q, b) == [q EXCEPT !.body = Append(@, b), !.packetTodo = @ - 1]

LEMMA Scans ==
    ASSUME NEW k \in Kinds, NEW q, Basic(k, q), NEW b \in Octet,
           NEW Q, Q = Scanned(q, b)
    PROVE  /\ Basic(k, Q) /\ Q.state = q.state /\ Q.body = q.body
           /\ Q.packetTodo = q.packetTodo /\ Q.frameTodo = q.frameTodo
           /\ Q.frameSize = q.frameSize /\ Q.skipped = q.skipped
           /\ Q.fragmentTodo = q.fragmentTodo /\ Q.header = q.header
           /\ Q.scanner[1] = q.scanner[2] /\ Q.scanner[2] = q.scanner[3]
           /\ Q.scanner[3] = q.scanner[4] /\ Q.scanner[4] = b
           /\ Lacks(k, q) => Lacks(k, Q)
<1> DEFINE s == Front4(q, b)
<1>0. /\ q \in Repacker /\ AllFit(k, q.out)
      /\ q.scanner \in Seq(Octet) /\ Len(q.scanner) = 4
    BY FieldsAre DEF Basic
<1>1. /\ s \in Seq(Octet) /\ Len(s) = 4
      /\ s[1] = q.scanner[2] /\ s[2] = q.scanner[3]
      /\ s[3] = q.scanner[4] /\ s[4] = b
    BY <1>0, ShiftIs, Zenon
<1> HIDE DEF s
<1>2. Q = [q EXCEPT !.scanner = s]
    BY DEF s, Scanned
<1>3. /\ Q \in Repacker /\ Q.scanner = s /\ Q.state = q.state /\ Q.body = q.body
      /\ Q.packetTodo = q.packetTodo /\ Q.frameTodo = q.frameTodo
      /\ Q.frameSize = q.frameSize /\ Q.skipped = q.skipped /\ Q.out = q.out
      /\ Q.fragmentTodo = q.fragmentTodo /\ Q.header = q.header
    BY <1>0, <1>1, <1>2 DEF Repacker
<1>4. Q.pts = q.pts
    BY <1>0, <1>2 DEF Repacker
<1>5. Basic(k, Q)
    BY <1>0, <1>1, <1>3, Zenon DEF Basic
<1>6. Lacks(k, q) => Lacks(k, Q)
    BY <1>3, <1>4, Zenon DEF Lacks
<1> QED
    BY <1>1, <1>3, <1>5, <1>6, Zenon

LEMMA Enters ==
    ASSUME NEW k \in Kinds, NEW q, Basic(k, q), NEW s \in States,
           NEW Q, Q = Enter(q, s)
    PROVE  /\ Basic(k, Q) /\ Q.state = s /\ Q.body = q.body
           /\ Q.packetTodo = q.packetTodo /\ Q.frameTodo = q.frameTodo
           /\ Q.scanner = q.scanner /\ (Lacks(k, q) => Lacks(k, Q))
<1>0. q \in Repacker
    BY DEF Basic
<1>3. /\ Q \in Repacker /\ Q.scanner = q.scanner /\ Q.state = s /\ Q.body = q.body
      /\ Q.packetTodo = q.packetTodo /\ Q.frameTodo = q.frameTodo /\ Q.out = q.out
    BY <1>0 DEF Repacker, Enter
<1>4. Q.pts = q.pts
    BY <1>0 DEF Repacker, Enter
<1>5. Basic(k, Q)
    BY <1>3, Zenon DEF Basic
<1>6. Lacks(k, q) => Lacks(k, Q)
    BY <1>3, <1>4, Zenon DEF Lacks
<1> QED
    BY <1>3, <1>5, <1>6, Zenon

LEMMA Collects ==
    ASSUME NEW k \in Kinds, NEW q, Basic(k, q), NEW b \in Octet,
           NEW Q, Q = Collect(q, b)
    PROVE  /\ Basic(k, Q) /\ Q.state = q.state /\ Q.scanner = q.scanner
           /\ Q.packetTodo = q.packetTodo - 1 /\ Q.frameTodo = q.frameTodo
           /\ Lacks(k, q) => Lacks(k, Q)
<1> DEFINE body == Append(q.body, b)
           todo == q.packetTodo - 1
           l == Len(q.body)
           room == Room(k, q.pts)
<1>0. q \in Repacker /\ q.body \in Seq(Octet) /\ l \in Nat /\ q.packetTodo \in Int
    BY FieldsAre DEF Basic
<1>1. body \in Seq(Octet) /\ Len(body) = l + 1
    BY <1>0, GrowIs, Zenon
<1>2. todo \in Int
    BY <1>0
<1>3. Q = [q EXCEPT !.body = body, !.packetTodo = todo]
    BY DEF Collect
<1>4. room \in Nat
    BY <1>0, FlagsAre, RoomIs, Zenon
<1>5. ASSUME Lacks(k, q) PROVE (l + 1) + todo = room
  <2>1. l + q.packetTodo = room
    BY <1>5, Zenon DEF Lacks
  <2> HIDE DEF l, room
  <2> QED
    BY <1>0, <2>1
<1> HIDE DEF body, todo, l, room
<1>6. /\ Q \in Repacker /\ Q.scanner = q.scanner /\ Q.state = q.state /\ Q.body = body
      /\ Q.packetTodo = todo /\ Q.frameTodo = q.frameTodo /\ Q.out = q.out
    BY <1>0, <1>1, <1>2, <1>3 DEF Repacker
<1>7. Q.pts = q.pts
    BY <1>0, <1>3 DEF Repacker
<1>8. Basic(k, Q)
    BY <1>6, Zenon DEF Basic
<1>9. ASSUME Lacks(k, q) PROVE Lacks(k, Q)
    BY <1>1, <1>5, <1>6, <1>7, <1>9, Zenon DEF Lacks, room
<1> QED
    BY <1>6, <1>8, <1>9, Zenon DEF todo

-----------------------------------------------------------------------------
(* cVideoRepacker                                                          *)

LEMMA ThreeAre ==
    ASSUME NEW s \in Seq(Octet), Len(s) = 4
    PROVE  /\ StartCode(s) <=> s[1] = 0 /\ s[2] = 0 /\ s[3] = 1
           /\ SubSeq(s, 2, 4) = <<0, 0, 1>> <=> s[2] = 0 /\ s[3] = 0 /\ s[4] = 1
<1> DEFINE t == <<0, 0, 1>>
           u == SubSeq(s, 1, 3)
           v == SubSeq(s, 2, 4)
<1>1. t \in Seq(Octet) /\ Len(t) = 3 /\ t[1] = 0 /\ t[2] = 0 /\ t[3] = 1
    BY DEF Octet
<1>2. /\ u \in Seq(Octet) /\ Len(u) = 3
      /\ u[1] = s[1] /\ u[2] = s[2] /\ u[3] = s[3]
    OBVIOUS
<1>3. /\ v \in Seq(Octet) /\ Len(v) = 3
      /\ v[1] = s[2] /\ v[2] = s[3] /\ v[3] = s[4]
  <2>1. v \in Seq(Octet) /\ Len(v) = 3
    <3> HIDE DEF t, u, v
    <3>1. \A i \in 1 .. Len(s) : s[i] \in Octet
      BY ElementOfSeq
    <3>2. \A i \in 2 .. 4 : s[i] \in Octet
      BY <3>1
    <3>3. 2 \in Int /\ 4 \in Int
      OBVIOUS
    <3>4. SubSeq(s, 2, 4) \in Seq(Octet)
      BY <3>2, <3>3, SubSeqProperties, Zenon
    <3>5. Len(SubSeq(s, 2, 4)) = 3
      OBVIOUS
    <3> QED
      BY <3>4, <3>5 DEF v
  <2>2. v[1] = s[2]
    OBVIOUS
  <2>3. v[2] = s[3]
    OBVIOUS
  <2>4. v[3] = s[4]
    OBVIOUS
  <2> QED
    BY <2>1, <2>2, <2>3, <2>4
<1> HIDE DEF t, u, v
<1>4. u = t <=> u[1] = 0 /\ u[2] = 0 /\ u[3] = 1
  <2>1. ASSUME u[1] = 0, u[2] = 0, u[3] = 1 PROVE \A i \in 1 .. Len(u) : u[i] = t[i]
    BY <1>1, <1>2, <2>1
  <2> QED
    BY <1>1, <1>2, <2>1, SeqEqual
<1>5. v = t <=> v[1] = 0 /\ v[2] = 0 /\ v[3] = 1
  <2>1. ASSUME v[1] = 0, v[2] = 0, v[3] = 1 PROVE \A i \in 1 .. Len(v) : v[i] = t[i]
    BY <1>1, <1>3, <2>1
  <2> QED
    BY <1>1, <1>3, <2>1, SeqEqual
<1> QED
    BY <1>2, <1>3, <1>4, <1>5, Zenon DEF StartCode, t, u, v

VideoFits(q) ==
    /\ q.state \in {"syncing", "findPicture", "scanPicture"}
    /\ q.state # "syncing" =>
         /\ Lacks("video", q) /\ q.packetTodo >= -2
         /\ q.packetTodo <= 0 => VideoWaits(q)

(* The scan for a start code.                                              *)
LEMMA VideoStarts ==
    ASSUME NEW q, Basic("video", q), NEW b \in Octet,
           q.state \in {"syncing", "findPicture", "scanPicture"},
           q.state # "syncing" => Lacks("video", q) /\ q.packetTodo >= -2,
           NEW h, h = HandleStartCode(q, b)
    PROVE  /\ Basic("video", h) /\ h.scanner = q.scanner
           /\ h.state \in {"syncing", "findPicture", "scanPicture"}
           /\ h.state # "syncing" =>
                /\ Lacks("video", h)
                /\ h.packetTodo > 0 \/ (q.state # "syncing" /\ h.packetTodo = q.packetTodo)
<1>0. "video" \in Kinds
    BY DEF Kinds
<1>1. CASE b \in PictureCodes /\ q.state # "findPicture"
  <2> DEFINE p == IF q.state = "scanPicture" THEN PushOutPacket(q, 3) ELSE q
             body == <<0, 0, 1>>
             n == NewPacket("video", p, body)
  <2>1. h = Enter(n, "findPicture")
    BY <1>1, Zenon DEF HandleStartCode, Enter
  <2>2. Basic("video", p) /\ p.scanner = q.scanner
    <3>1. CASE q.state = "scanPicture"
      <4> DEFINE l == Len(q.body)
                 room == Room("video", q.pts)
      <4>1. Lacks("video", q) /\ q.packetTodo >= -2
        BY <3>1
      <4>2. q \in Repacker /\ l \in Nat /\ q.packetTodo \in Int
        BY FieldsAre DEF Basic
      <4>3. room \in Nat
        BY <1>0, <4>2, FlagsAre, RoomIs, Zenon
      <4>4. l + q.packetTodo = room
        BY <4>1, Zenon DEF Lacks
      <4>5. l - 3 <= room
        <5> HIDE DEF l, room
        <5> QED
          BY <4>1, <4>2, <4>3, <4>4
      <4>6. p = PushOutPacket(q, 3)
        BY <3>1
      <4> HIDE DEF p
      <4>7. Basic("video", p) /\ SameFrame(q, p)
        BY <1>0, <4>5, <4>6, PushBasic
      <4> QED
        BY <4>7 DEF SameFrame
    <3>2. CASE q.state # "scanPicture"
      BY <3>2
    <3> QED
      BY <3>1, <3>2
  <2>3. body \in Seq(Octet) /\ Len(body) = 3
    BY DEF Octet
  <2> HIDE DEF p, body
  <2>4. /\ Basic("video", n) /\ n.body = body /\ Lacks("video", n)
        /\ n.scanner = p.scanner
    BY <1>0, <2>2, <2>3, NewBasic
  <2>5. n.packetTodo > 0
    <3> DEFINE room == Room("video", n.pts)
    <3>1. n \in Repacker /\ n.packetTodo \in Int
      BY <2>4, FieldsAre DEF Basic
    <3>2. room \in Nat /\ room >= 4
      BY <1>0, <3>1, FlagsAre, RoomIs, Zenon
    <3>3. 3 + n.packetTodo = room
      BY <2>3, <2>4, Zenon DEF Lacks
    <3> HIDE DEF n, room
    <3> QED
      BY <3>1, <3>2, <3>3
  <2> HIDE DEF n
  <2>6. "findPicture" \in States
    BY DEF States
  <2>7. /\ Basic("video", h) /\ h.state = "findPicture" /\ h.scanner = n.scanner
        /\ h.packetTodo = n.packetTodo /\ (Lacks("video", n) => Lacks("video", h))
    BY <1>0, <2>1, <2>4, <2>6, Enters
  <2> QED
    BY <2>2, <2>4, <2>5, <2>7
<1>2. CASE ~(b \in PictureCodes /\ q.state # "findPicture")
           /\ b \in SliceCodes /\ q.state = "findPicture"
  <2>1. h = Enter(q, "scanPicture")
    BY <1>2, Zenon DEF HandleStartCode, Enter
  <2>2. "scanPicture" \in States
    BY DEF States
  <2>3. /\ Basic("video", h) /\ h.state = "scanPicture" /\ h.scanner = q.scanner
        /\ h.packetTodo = q.packetTodo /\ (Lacks("video", q) => Lacks("video", h))
    BY <1>0, <2>1, <2>2, Enters
  <2> QED
    BY <1>2, <2>3
<1>3. CASE /\ ~(b \in PictureCodes /\ q.state # "findPicture")
           /\ ~(b \in SliceCodes /\ q.state = "findPicture")
  <2>1. h = q
    BY <1>3, Zenon DEF HandleStartCode
  <2> QED
    BY <2>1
<1> QED
    BY <1>1, <1>2, <1>3

LEMMA VideoByteFits ==
    ASSUME NEW q, Basic("video", q), VideoFits(q), NEW b \in Octet
    PROVE  Basic("video", VideoByte(q, b)) /\ VideoFits(VideoByte(q, b))
<1> DEFINE s == [q EXCEPT !.scanner = Front4(q, b)]
           h == IF StartCode(s.scanner) THEN HandleStartCode(s, b) ELSE s
           t == [h EXCEPT !.body = Append(@, b), !.packetTodo = @ - 1]
           Video == {"syncing", "findPicture", "scanPicture"}
           Q == VideoByte(q, b)
<1>0. "video" \in Kinds
    BY DEF Kinds
<1>1. /\ h.state = "syncing" => Q = h
      /\ h.state # "syncing" /\ (t.packetTodo > 0 \/ VideoWaits(t)) => Q = t
      /\ h.state # "syncing" /\ ~(t.packetTodo > 0 \/ VideoWaits(t))
           => Q = CutPacket("video", t)
    BY Zenon DEF VideoByte
<1>2. /\ q.state \in Video
      /\ q.state # "syncing" => /\ Lacks("video", q) /\ q.packetTodo >= -2
                                /\ q.packetTodo <= 0 => VideoWaits(q)
    BY DEF VideoFits
<1>3. /\ Basic("video", s) /\ s.state = q.state /\ s.packetTodo = q.packetTodo
      /\ s.scanner[1] = q.scanner[2] /\ s.scanner[2] = q.scanner[3]
      /\ s.scanner[3] = q.scanner[4]
      /\ Lacks("video", q) => Lacks("video", s)
  <2>1. s = Scanned(q, b)
    BY DEF Scanned
  <2> HIDE DEF s, h, t, Q
  <2> QED
    BY <1>0, <2>1, Scans
<1> HIDE DEF s
<1>4. /\ Basic("video", h) /\ h.scanner = s.scanner /\ h.state \in Video
      /\ h.state # "syncing" =>
           /\ Lacks("video", h)
           /\ h.packetTodo > 0 \/ (q.state # "syncing" /\ h.packetTodo = q.packetTodo)
  <2>1. CASE StartCode(s.scanner)
    <3>1. h = HandleStartCode(s, b)
      BY <2>1
    <3>2. s.state \in Video
      BY <1>2, <1>3
    <3>3. s.state # "syncing" => Lacks("video", s) /\ s.packetTodo >= -2
      BY <1>2, <1>3
    <3> HIDE DEF h
    <3>4. /\ Basic("video", h) /\ h.scanner = s.scanner
          /\ h.state \in Video
          /\ h.state # "syncing" =>
               /\ Lacks("video", h)
               /\ h.packetTodo > 0 \/ (s.state # "syncing" /\ h.packetTodo = s.packetTodo)
      BY <1>3, <3>1, <3>2, <3>3, VideoStarts
    <3> QED
      BY <1>3, <3>4
  <2>2. CASE ~StartCode(s.scanner)
    <3>1. h = s
      BY <2>2
    <3> HIDE DEF h
    <3> QED
      BY <1>2, <1>3, <3>1
  <2> QED
    BY <2>1, <2>2
<1> HIDE DEF h
<1>5. /\ Basic("video", t) /\ t.state = h.state /\ t.scanner = h.scanner
      /\ t.packetTodo = h.packetTodo - 1
      /\ Lacks("video", h) => Lacks("video", t)
  <2>1. t = Collect(h, b)
    BY DEF Collect
  <2> HIDE DEF t, Q
  <2> QED
    BY <1>0, <1>4, <2>1, Collects
<1> HIDE DEF t
<1>6. h.packetTodo \in Int /\ q.packetTodo \in Int /\ t.packetTodo \in Int
      /\ q.scanner \in Seq(Octet) /\ Len(q.scanner) = 4
      /\ t.scanner \in Seq(Octet) /\ Len(t.scanner) = 4
    BY <1>4, <1>5, FieldsAre DEF Basic
<1> HIDE DEF Q, Video
<1>7. CASE h.state = "syncing"
  <2>1. Q = h /\ "syncing" \in {"syncing", "findPicture", "scanPicture"}
    BY <1>1, <1>7
  <2>2. VideoFits(h)
    BY <1>7, <2>1 DEF VideoFits
  <2> QED
    BY <1>4, <2>1, <2>2 DEF Q
<1>8. CASE h.state # "syncing"
  <2>1. Lacks("video", t) /\ t.state \in Video /\ t.state # "syncing"
    BY <1>4, <1>5, <1>8
  <2>2. t.packetTodo >= -3
    BY <1>2, <1>4, <1>5, <1>6, <1>8
  <2>3. ASSUME t.packetTodo = -3 PROVE ~VideoWaits(t)
    <3>1. q.state # "syncing" /\ q.packetTodo = -2
      BY <1>4, <1>5, <1>6, <1>8, <2>3
    <3>2. VideoWaits(q)
      BY <1>2, <3>1
    <3>3. SubSeq(q.scanner, 2, 4) = <<0, 0, 1>>
      BY <3>1, <3>2 DEF VideoWaits
    <3>4. q.scanner[2] = 0 /\ q.scanner[3] = 0 /\ q.scanner[4] = 1
      BY <1>6, <3>3, ThreeAre, Zenon
    <3>5. t.scanner[1] = 0 /\ t.scanner[2] = 0 /\ t.scanner[3] = 1
      BY <1>3, <1>4, <1>5, <3>4, Zenon
    <3>6. StartCode(t.scanner)
      BY <1>6, <3>5, ThreeAre, Zenon
    <3> QED
      BY <3>6, Zenon DEF VideoWaits
  <2>4. CASE t.packetTodo > 0 \/ VideoWaits(t)
    <3>1. Q = t
      BY <1>1, <1>8, <2>4
    <3>2. t.packetTodo >= -2 /\ (t.packetTodo <= 0 => VideoWaits(t))
      BY <1>6, <2>2, <2>3, <2>4
    <3>3. VideoFits(t)
      BY <2>1, <3>2, Zenon DEF VideoFits, Video
    <3> QED
      BY <1>5, <3>1, <3>3 DEF Q
  <2>5. CASE ~(t.packetTodo > 0 \/ VideoWaits(t))
    <3>1. Q = CutPacket("video", t)
      BY <1>1, <1>8, <2>5
    <3>2. t.packetTodo <= 0 /\ -3 <= t.packetTodo
      BY <1>6, <2>2, <2>5
    <3>3. /\ Basic("video", Q) /\ SameFrame(t, Q) /\ Lacks("video", Q)
          /\ Q.packetTodo > 0
      BY <1>0, <1>5, <2>1, <3>1, <3>2, CutBasic
    <3>4. Q.packetTodo \in Int
      BY <3>3, FieldsAre DEF Basic
    <3>5. Q.packetTodo >= -2 /\ ~(Q.packetTodo <= 0)
      BY <3>3, <3>4
    <3>6. Q.state = t.state
      BY <3>3 DEF SameFrame
    <3>7. VideoFits(Q)
      BY <2>1, <3>3, <3>5, <3>6, Zenon DEF VideoFits, Video
    <3> QED
      BY <3>3, <3>7 DEF Q
  <2> QED
    BY <2>4, <2>5
<1> QED
    BY <1>7, <1>8

(* cAudioRepacker                                                          *)

AudioFits(q) ==
    /\ q.state \in {"syncing", "scanFrame"}
    /\ q.state = "scanFrame" =>
         /\ Lacks("audio", q)
         /\ q.frameTodo > 0 => q.frameTodo <= q.packetTodo
         /\ q.frameTodo <= 0 =>
              /\ q.packetTodo >= -2
              /\ q.packetTodo <= 0 => AudioWaits(q)
              /\ q.packetTodo = -1 => \/ AudioSync(q.scanner[2], q.scanner[3])
                                      \/ AudioSync(q.scanner[3], q.scanner[4])
              /\ q.packetTodo = -2 => AudioSync(q.scanner[2], q.scanner[3])

LEMMA AudioWaiting ==
    ASSUME NEW q, NEW u, AudioWaits(u),
           u.scanner[1] = q.scanner[2], u.scanner[2] = q.scanner[3],
           u.scanner[3] = q.scanner[4]
    PROVE  /\ ~AudioSync(q.scanner[2], q.scanner[3])
           /\ AudioSync(q.scanner[3], q.scanner[4]) =>
                AudioSync(u.scanner[2], u.scanner[3])
           /\ AudioWaits(q) => \/ AudioSync(u.scanner[2], u.scanner[3])
                               \/ AudioSync(u.scanner[3], u.scanner[4])
<1>1. ~AudioSync(q.scanner[2], q.scanner[3])
    BY DEF AudioWaits
<1>2. AudioSync(q.scanner[3], q.scanner[4]) => AudioSync(u.scanner[2], u.scanner[3])
    OBVIOUS
<1>3. ASSUME AudioWaits(q), ~AudioSync(u.scanner[2], u.scanner[3])
      PROVE  AudioSync(u.scanner[3], u.scanner[4])
  <2>1. u.scanner[3] = 255
    BY <1>1, <1>2, <1>3, Zenon DEF AudioWaits
  <2>2. AudioSync(u.scanner[3], u.scanner[4]) \/ u.scanner[4] = 255
    BY <1>3, Zenon DEF AudioWaits
  <2>3. AudioSync(255, 255)
    BY DEF AudioSync
  <2> QED
    BY <2>1, <2>2, <2>3, Zenon
<1> QED
    BY <1>1, <1>2, <1>3, Zenon

(* Steps of the audio repacker, by what they change.                       *)
Skip(q, b, n) == [q EXCEPT !.scanner = Front4(q, b), !.skipped = n]
Frame(q, size) == [q EXCEPT !.state = "scanFrame", !.frameSize = size,
                            !.frameTodo = size - 3]
Take(q, b, n) == [q EXCEPT !.body = Append(@, b), !.frameTodo = n]
Count(q) == [q EXCEPT !.packetTodo = @ - 1]
Empty(q) == [q EXCEPT !.state = "syncing", !.body = <<>>]

LEMMA Skips ==
    ASSUME NEW k \in Kinds, NEW q, Basic(k, q), NEW b \in Octet, NEW n \in Nat,
           NEW Q, Q = Skip(q, b, n)
    PROVE  /\ Basic(k, Q) /\ Q.state = q.state /\ Q.body = q.body
           /\ Q.packetTodo = q.packetTodo /\ Q.frameTodo = q.frameTodo
           /\ Q.scanner[1] = q.scanner[2] /\ Q.scanner[2] = q.scanner[3]
           /\ Q.scanner[3] = q.scanner[4]
           /\ Lacks(k, q) => Lacks(k, Q)
<1> DEFINE s == Front4(q, b)
<1>0. /\ q \in Repacker /\ AllFit(k, q.out)
      /\ q.scanner \in Seq(Octet) /\ Len(q.scanner) = 4
    BY FieldsAre DEF Basic
<1>1. /\ s \in Seq(Octet) /\ Len(s) = 4
      /\ s[1] = q.scanner[2] /\ s[2] = q.scanner[3]
      /\ s[3] = q.scanner[4]
    BY <1>0, ShiftIs, Zenon
<1> HIDE DEF s
<1>2. Q = [q EXCEPT !.scanner = s, !.skipped = n]
    BY DEF s, Skip
<1>3. /\ Q \in Repacker /\ Q.scanner = s /\ Q.state = q.state /\ Q.body = q.body
      /\ Q.packetTodo = q.packetTodo /\ Q.frameTodo = q.frameTodo
      /\ Q.out = q.out
    BY <1>0, <1>1, <1>2 DEF Repacker
<1>4. Q.pts = q.pts
    BY <1>0, <1>2 DEF Repacker
<1>5. Basic(k, Q)
    BY <1>0, <1>1, <1>3, Zenon DEF Basic
<1>6. Lacks(k, q) => Lacks(k, Q)
    BY <1>3, <1>4, Zenon DEF Lacks
<1> QED
    BY <1>1, <1>3, <1>5, <1>6, Zenon

LEMMA FrameBegun ==
    ASSUME NEW k \in Kinds, NEW q, Basic(k, q), NEW size \in Nat,
           NEW Q, Q = Frame(q, size)
    PROVE  /\ Basic(k, Q) /\ Q.state = "scanFrame" /\ Q.body = q.body
           /\ Q.packetTodo = q.packetTodo /\ Q.frameTodo = size - 3
           /\ Q.scanner = q.scanner /\ (Lacks(k, q) => Lacks(k, Q))
<1>0. q \in Repacker
    BY DEF Basic
<1>1. size - 3 \in Int /\ "scanFrame" \in States
    BY DEF States
<1>3. /\ Q \in Repacker /\ Q.scanner = q.scanner /\ Q.state = "scanFrame"
      /\ Q.packetTodo = q.packetTodo /\ Q.frameTodo = size - 3 /\ Q.out = q.out
      /\ Q.body = q.body
    BY <1>0, <1>1 DEF Repacker, Frame
<1>4. Q.pts = q.pts
    BY <1>0 DEF Repacker, Frame
<1>5. Basic(k, Q)
    BY <1>3, Zenon DEF Basic
<1>6. Lacks(k, q) => Lacks(k, Q)
    BY <1>3, <1>4, Zenon DEF Lacks
<1> QED
    BY <1>3, <1>5, <1>6, Zenon

LEMMA Takes ==
    ASSUME NEW k \in Kinds, NEW q, Basic(k, q), NEW b \in Octet, NEW n \in Int,
           NEW Q, Q = Take(q, b, n)
    PROVE  /\ Basic(k, Q) /\ Q.state = q.state /\ Q.scanner = q.scanner
           /\ Q.packetTodo = q.packetTodo /\ Q.frameTodo = n
           /\ Len(Q.body) = Len(q.body) + 1 /\ Q.pts = q.pts
<1> DEFINE body == Append(q.body, b)
           l == Len(q.body)
<1>0. q \in Repacker /\ q.body \in Seq(Octet) /\ l \in Nat
    BY FieldsAre DEF Basic
<1>1. body \in Seq(Octet) /\ Len(body) = l + 1
    BY <1>0, GrowIs, Zenon
<1>3. Q = [q EXCEPT !.body = body, !.frameTodo = n]
    BY DEF Take
<1> HIDE DEF body, l
<1>6. /\ Q \in Repacker /\ Q.scanner = q.scanner /\ Q.state = q.state /\ Q.body = body
      /\ Q.packetTodo = q.packetTodo /\ Q.frameTodo = n /\ Q.out = q.out
    BY <1>0, <1>1, <1>3 DEF Repacker
<1>7. Q.pts = q.pts
    BY <1>0, <1>3 DEF Repacker
<1>8. Basic(k, Q)
    BY <1>6, Zenon DEF Basic
<1> QED
    BY <1>1, <1>6, <1>7, <1>8, Zenon DEF l

LEMMA Counts ==
    ASSUME NEW k \in Kinds, NEW q, Basic(k, q), NEW Q, Q = Count(q)
    PROVE  /\ Basic(k, Q) /\ Q.state = q.state /\ Q.scanner = q.scanner
           /\ Q.packetTodo = q.packetTodo - 1 /\ Q.frameTodo = q.frameTodo
           /\ Q.body = q.body /\ Q.pts = q.pts
<1>0. q \in Repacker /\ q.packetTodo - 1 \in Int
    BY FieldsAre DEF Basic
<1>6. /\ Q \in Repacker /\ Q.scanner = q.scanner /\ Q.state = q.state /\ Q.body = q.body
      /\ Q.packetTodo = q.packetTodo - 1 /\ Q.frameTodo = q.frameTodo /\ Q.out = q.out
    BY <1>0 DEF Repacker, Count
<1>7. Q.pts = q.pts
    BY <1>0 DEF Repacker, Count
<1>8. Basic(k, Q)
    BY <1>6, Zenon DEF Basic
<1> QED
    BY <1>6, <1>7, <1>8, Zenon

LEMMA Empties ==
    ASSUME NEW k \in Kinds, NEW q, Basic(k, q), NEW Q, Q = Empty(q)
    PROVE  Basic(k, Q) /\ Q.state = "syncing"
<1>0. q \in Repacker /\ <<>> \in Seq(Octet) /\ "syncing" \in States
    BY DEF Basic, States
<1>6. /\ Q \in Repacker /\ Q.scanner = q.scanner /\ Q.state = "syncing" /\ Q.out = q.out
    BY <1>0 DEF Repacker, Empty
<1> QED
    BY <1>6, Zenon DEF Basic

LEMMA AudioStarts ==
    ASSUME NEW q, Basic("audio", q), FrameBegins(q),
           q.state = "scanFrame" => Lacks("audio", q) /\ q.packetTodo >= -2,
           NEW h, h = AudioFrame(q)
    PROVE  /\ Basic("audio", h) /\ h.state = "scanFrame" /\ h.scanner = q.scanner
           /\ Lacks("audio", h) /\ h.packetTodo > 0
           /\ h.frameTodo > 0 => h.frameTodo <= h.packetTodo
<1> DEFINE p == IF q.state = "scanFrame" THEN PushOutPacket(q, 3) ELSE q
           size == AudioSizes[q.scanner[3]]
           body == SubSeq(q.scanner, 1, 3)
           n == NewPacket("audio", p, body)
           room == Room("audio", n.pts)
<1>0. "audio" \in Kinds /\ q \in Repacker /\ q.scanner \in Seq(Octet)
      /\ Len(q.scanner) = 4
    BY FieldsAre DEF Kinds, Basic
<1>1. h = Frame(n, size)
    BY Zenon DEF AudioFrame, Frame
<1>2. Basic("audio", p) /\ p.scanner = q.scanner
  <2>1. CASE q.state = "scanFrame"
    <3> DEFINE l == Len(q.body)
               full == Room("audio", q.pts)
    <3>1. Lacks("audio", q) /\ q.packetTodo >= -2
      BY <2>1
    <3>2. l \in Nat /\ q.packetTodo \in Int
      BY <1>0, FieldsAre
    <3>3. full \in Nat
      BY <1>0, FlagsAre, RoomIs, Zenon
    <3>4. l + q.packetTodo = full
      BY <3>1, Zenon DEF Lacks
    <3>5. l - 3 <= full
      <4> HIDE DEF l, full
      <4> QED
        BY <3>1, <3>2, <3>3, <3>4
    <3>6. p = PushOutPacket(q, 3)
      BY <2>1
    <3> HIDE DEF p
    <3>7. Basic("audio", p) /\ SameFrame(q, p)
      BY <1>0, <3>5, <3>6, PushBasic
    <3> QED
      BY <3>7 DEF SameFrame
  <2>2. CASE q.state # "scanFrame"
    BY <2>2
  <2> QED
    BY <2>1, <2>2
<1>3. body \in Seq(Octet) /\ Len(body) = 3
    BY <1>0
<1>4. q.scanner[3] \in DOMAIN AudioSizes
    BY DEF FrameBegins, IsValidAudioHeader
<1> HIDE DEF p, body
<1>5. /\ Basic("audio", n) /\ n.body = body /\ Lacks("audio", n)
      /\ n.scanner = p.scanner
    BY <1>0, <1>2, <1>3, NewBasic
<1> HIDE DEF n
<1>6. n \in Repacker /\ n.packetTodo \in Int
    BY <1>5, FieldsAre DEF Basic
<1>7. n.pts \in BOOLEAN
    BY <1>6, FlagsAre
<1>8. room \in Nat /\ room >= 4
    BY <1>0, <1>7, RoomIs, Zenon
<1>9. size \in Nat /\ size <= room
    BY <1>4, <1>7, RoomFor, Zenon
<1>10. 3 + n.packetTodo = room
    BY <1>3, <1>5, Zenon DEF Lacks
<1> HIDE DEF size, room
<1>11. /\ Basic("audio", h) /\ h.state = "scanFrame" /\ h.packetTodo = n.packetTodo
       /\ h.frameTodo = size - 3 /\ h.scanner = n.scanner
       /\ Lacks("audio", n) => Lacks("audio", h)
    BY <1>0, <1>1, <1>5, <1>9, FrameBegun
<1>12. h.packetTodo > 0 /\ h.frameTodo <= h.packetTodo
    BY <1>6, <1>8, <1>9, <1>10, <1>11
<1> QED
    BY <1>2, <1>5, <1>11, <1>12

(* The end of a frame of known size.                                       *)
LEMMA AudioEnds ==
    ASSUME NEW h, Basic("audio", h), Lacks("audio", h), h.packetTodo >= 1,
           NEW b \in Octet, NEW n \in Int,
           NEW t, t = Take(h, b, n), NEW Q, Q = Empty(PushOutPacket(t, 0))
    PROVE  Basic("audio", Q) /\ AudioFits(Q)
<1> DEFINE l == Len(h.body)
           room == Room("audio", h.pts)
           P == PushOutPacket(t, 0)
<1>0. "audio" \in Kinds /\ h \in Repacker /\ l \in Nat /\ h.packetTodo \in Int
    BY FieldsAre DEF Kinds, Basic
<1>1. room \in Nat
    BY <1>0, FlagsAre, RoomIs, Zenon
<1>2. l + h.packetTodo = room
    BY Zenon DEF Lacks
<1> HIDE DEF l, room
<1>3. l + 1 <= room
    BY <1>0, <1>1, <1>2
<1>4. Basic("audio", t) /\ Len(t.body) = l + 1
    BY <1>0, Takes DEF l
<1>5. t.pts = h.pts
    BY <1>0, Takes
<1>6. Room("audio", t.pts) = room
    BY <1>5, Zenon DEF room
<1>7. Len(t.body) - 0 <= Room("audio", t.pts)
    BY <1>0, <1>1, <1>3, <1>4, <1>6
<1>8. Basic("audio", P)
    BY <1>0, <1>4, <1>7, PushBasic
<1> HIDE DEF P
<1>9. Q = Empty(P)
    BY DEF P
<1>10. Basic("audio", Q) /\ Q.state = "syncing"
    BY <1>0, <1>8, <1>9, Empties
<1> QED
    BY <1>10 DEF AudioFits

LEMMA AudioByteFits ==
    ASSUME NEW q, Basic("audio", q), AudioFits(q), NEW b \in Octet
    PROVE  Basic("audio", AudioByte(q, b)) /\ AudioFits(AudioByte(q, b))
<1> DEFINE skipped == IF q.state = "syncing" THEN Least(q.skipped + 1, 4) ELSE q.skipped
           s == Skip(q, b, skipped)
           h == IF FrameBegins(s) THEN AudioFrame(s) ELSE s
           todo == IF h.frameTodo > 0 THEN h.frameTodo - 1 ELSE h.frameTodo
           t == Take(h, b, todo)
           u == Count(t)
           Q == AudioByte(q, b)
<1>0. "audio" \in Kinds
    BY DEF Kinds
<1>1. /\ h.state = "syncing" => Q = h
      /\ h.state # "syncing" /\ h.frameTodo = 1 => Q = Empty(PushOutPacket(t, 0))
      /\ h.state # "syncing" /\ h.frameTodo # 1
         /\ (u.packetTodo > 0 \/ AudioWaits(u)) => Q = u
      /\ h.state # "syncing" /\ h.frameTodo # 1
         /\ ~(u.packetTodo > 0 \/ AudioWaits(u)) => Q = CutPacket("audio", u)
    BY Zenon DEF AudioByte, Skip, Take, Count, Empty
<1>2. /\ q \in Repacker /\ q.skipped \in Nat /\ q.packetTodo \in Int
      /\ q.frameTodo \in Int
    BY FieldsAre DEF Basic
<1>3. skipped \in Nat
    BY <1>2 DEF Least
<1>4. /\ q.state \in {"syncing", "scanFrame"}
      /\ q.state = "scanFrame" => Lacks("audio", q)
      /\ q.state = "scanFrame" /\ q.frameTodo > 0 => q.frameTodo <= q.packetTodo
      /\ q.state = "scanFrame" /\ q.frameTodo <= 0 =>
           /\ q.packetTodo >= -2
           /\ q.packetTodo <= 0 => AudioWaits(q)
           /\ q.packetTodo = -1 => \/ AudioSync(q.scanner[2], q.scanner[3])
                                   \/ AudioSync(q.scanner[3], q.scanner[4])
           /\ q.packetTodo = -2 => AudioSync(q.scanner[2], q.scanner[3])
    BY DEF AudioFits
<1> HIDE DEF skipped, h, todo, t, u, Q
<1>5. /\ Basic("audio", s) /\ s.state = q.state /\ s.packetTodo = q.packetTodo
      /\ s.frameTodo = q.frameTodo
      /\ s.scanner[1] = q.scanner[2] /\ s.scanner[2] = q.scanner[3]
      /\ s.scanner[3] = q.scanner[4]
      /\ Lacks("audio", q) => Lacks("audio", s)
    BY <1>0, <1>3, Skips
<1> HIDE DEF s
<1>6. /\ Basic("audio", h) /\ h.state \in {"syncing", "scanFrame"}
      /\ h.scanner = s.scanner
      /\ h.state = "scanFrame" =>
           /\ Lacks("audio", h)
           /\ h.frameTodo > 0 => h.frameTodo <= h.packetTodo
           /\ \/ h.packetTodo > 0 /\ AudioSync(h.scanner[1], h.scanner[2])
              \/ /\ q.state = "scanFrame" /\ h.packetTodo = q.packetTodo
                 /\ h.frameTodo = q.frameTodo
  <2>1. CASE FrameBegins(s)
    <3>1. h = AudioFrame(s)
      BY <2>1 DEF h
    <3>2. s.frameTodo <= 0
      BY <2>1 DEF FrameBegins
    <3>3. s.state = "scanFrame" => Lacks("audio", s) /\ s.packetTodo >= -2
      BY <1>2, <1>4, <1>5, <3>2
    <3>4. /\ Basic("audio", h) /\ h.state = "scanFrame" /\ h.scanner = s.scanner
          /\ Lacks("audio", h) /\ h.packetTodo > 0
          /\ h.frameTodo > 0 => h.frameTodo <= h.packetTodo
      BY <1>5, <2>1, <3>1, <3>3, AudioStarts
    <3>5. AudioSync(h.scanner[1], h.scanner[2])
      BY <2>1, <3>4, Zenon DEF FrameBegins, IsValidAudioHeader
    <3> QED
      BY <3>4, <3>5
  <2>2. CASE ~FrameBegins(s)
    <3>1. h = s
      BY <2>2 DEF h
    <3> QED
      BY <1>4, <1>5, <3>1
  <2> QED
    BY <2>1, <2>2
<1>7. h.packetTodo \in Int /\ h.frameTodo \in Int
  <2>1. h \in Repacker
    BY <1>6 DEF Basic
  <2> QED
    BY <2>1, FieldsAre
<1>8. todo \in Int
    BY <1>7 DEF todo
<1>9. CASE h.state = "syncing"
  <2>1. Q = h
    BY <1>1, <1>9
  <2>2. AudioFits(h)
    BY <1>9 DEF AudioFits
  <2> QED
    BY <1>6, <2>1, <2>2 DEF Q
<1>10. CASE h.state = "scanFrame" /\ h.frameTodo = 1
  <2>1. Q = Empty(PushOutPacket(t, 0))
    BY <1>1, <1>10
  <2>2. Lacks("audio", h) /\ h.packetTodo >= 1
    BY <1>6, <1>7, <1>10
  <2>3. t = Take(h, b, todo)
    BY DEF t
  <2>4. Basic("audio", Q) /\ AudioFits(Q)
    BY <1>6, <1>8, <2>1, <2>2, <2>3, AudioEnds
  <2> QED
    BY <2>4 DEF Q
<1>11. CASE h.state = "scanFrame" /\ h.frameTodo # 1
  <2>1. /\ Basic("audio", u) /\ u.state = "scanFrame" /\ u.scanner = s.scanner
        /\ u.packetTodo = h.packetTodo - 1 /\ u.frameTodo = todo
        /\ Lacks("audio", u)
    <3> DEFINE l == Len(h.body)
               room == Room("audio", h.pts)
    <3>1. /\ Basic("audio", t) /\ t.state = h.state /\ t.scanner = h.scanner
          /\ t.packetTodo = h.packetTodo /\ t.frameTodo = todo
          /\ Len(t.body) = l + 1
      BY <1>0, <1>6, <1>8, Takes DEF t
    <3>2. t.pts = h.pts
      BY <1>0, <1>6, <1>8, Takes DEF t
    <3>3. /\ Basic("audio", u) /\ u.state = t.state /\ u.scanner = t.scanner
          /\ u.packetTodo = t.packetTodo - 1 /\ u.frameTodo = t.frameTodo
          /\ u.body = t.body
      BY <1>0, <3>1, Counts DEF u
    <3>4. u.pts = t.pts
      BY <1>0, <3>1, Counts DEF u
    <3>5. l \in Nat
      BY <1>6, FieldsAre DEF Basic
    <3>6. room \in Nat
      BY <1>0, <1>6, FlagsAre, RoomIs, Zenon DEF Basic
    <3>7. l + h.packetTodo = room
      BY <1>6, <1>11, Zenon DEF Lacks
    <3>8. (l + 1) + (h.packetTodo - 1) = room
      <4> HIDE DEF l, room
      <4> QED
        BY <1>7, <3>5, <3>6, <3>7
    <3> HIDE DEF l
    <3>9. Len(u.body) + u.packetTodo = l + 1 + (h.packetTodo - 1)
      BY <3>1, <3>3
    <3>10. Room("audio", u.pts) = room
      BY <3>2, <3>4, Zenon
    <3>11. Lacks("audio", u)
      BY <3>8, <3>9, <3>10, Zenon DEF Lacks
    <3> QED
      BY <1>6, <1>11, <3>1, <3>3, <3>11
  <2>2. h.frameTodo > 0 => u.packetTodo >= u.frameTodo /\ u.frameTodo > 0
    BY <1>6, <1>7, <1>11, <2>1 DEF todo
  <2>3. h.frameTodo <= 0 => u.frameTodo <= 0 /\ u.packetTodo >= -3
    BY <1>4, <1>6, <1>7, <1>2, <1>11, <2>1 DEF todo
  <2>4. ASSUME AudioWaits(u), h.frameTodo <= 0, u.packetTodo <= 0
        PROVE  /\ u.packetTodo >= -2
               /\ u.packetTodo = -1 => \/ AudioSync(u.scanner[2], u.scanner[3])
                                       \/ AudioSync(u.scanner[3], u.scanner[4])
               /\ u.packetTodo = -2 => AudioSync(u.scanner[2], u.scanner[3])
    <3>1. ~AudioSync(h.scanner[1], h.scanner[2])
      BY <1>6, <2>1, <2>4, Zenon DEF AudioWaits
    <3>2. /\ q.state = "scanFrame" /\ h.packetTodo = q.packetTodo
          /\ h.frameTodo = q.frameTodo
      BY <1>6, <1>11, <3>1, Zenon
    <3>3. /\ q.packetTodo >= -2
          /\ q.packetTodo <= 0 => AudioWaits(q)
          /\ q.packetTodo = -1 => \/ AudioSync(q.scanner[2], q.scanner[3])
                                  \/ AudioSync(q.scanner[3], q.scanner[4])
          /\ q.packetTodo = -2 => AudioSync(q.scanner[2], q.scanner[3])
      BY <1>4, <2>4, <3>2
    <3>4. /\ u.scanner[1] = q.scanner[2] /\ u.scanner[2] = q.scanner[3]
          /\ u.scanner[3] = q.scanner[4]
      BY <1>5, <2>1, Zenon
    <3>5. /\ ~AudioSync(q.scanner[2], q.scanner[3])
          /\ AudioSync(q.scanner[3], q.scanner[4]) =>
               AudioSync(u.scanner[2], u.scanner[3])
          /\ AudioWaits(q) => \/ AudioSync(u.scanner[2], u.scanner[3])
                              \/ AudioSync(u.scanner[3], u.scanner[4])
      BY <2>4, <3>4, AudioWaiting
    <3>6. u.packetTodo = q.packetTodo - 1
      BY <2>1, <3>2
    <3>7. q.packetTodo # -2
      BY <3>3, <3>5
    <3>8. u.packetTodo >= -2
      BY <1>2, <3>3, <3>6, <3>7
    <3>9. ASSUME u.packetTodo = -1
          PROVE  \/ AudioSync(u.scanner[2], u.scanner[3])
                 \/ AudioSync(u.scanner[3], u.scanner[4])
      <4>1. q.packetTodo <= 0
        BY <1>2, <3>6, <3>9
      <4> QED
        BY <3>3, <3>5, <4>1, Zenon
    <3>10. ASSUME u.packetTodo = -2 PROVE AudioSync(u.scanner[2], u.scanner[3])
      <4>1. q.packetTodo = -1
        BY <1>2, <3>6, <3>10
      <4> QED
        BY <3>3, <3>5, <4>1, Zenon
    <3> QED
      BY <3>8, <3>9, <3>10
  <2>5. u.packetTodo \in Int /\ u.frameTodo \in Int
    <3>1. u \in Repacker
      BY <2>1 DEF Basic
    <3> QED
      BY <3>1, FieldsAre
  <2>6. CASE u.packetTodo > 0 \/ AudioWaits(u)
    <3>1. Q = u
      BY <1>1, <1>11, <2>6
    <3>2. u.frameTodo > 0 => u.frameTodo <= u.packetTodo
      BY <1>7, <2>2, <2>3, <2>5
    <3>3. ASSUME u.frameTodo <= 0
          PROVE  /\ u.packetTodo >= -2
                 /\ u.packetTodo <= 0 => AudioWaits(u)
                 /\ u.packetTodo = -1 => \/ AudioSync(u.scanner[2], u.scanner[3])
                                         \/ AudioSync(u.scanner[3], u.scanner[4])
                 /\ u.packetTodo = -2 => AudioSync(u.scanner[2], u.scanner[3])
      <4>1. h.frameTodo <= 0
        BY <1>7, <2>2, <2>5, <3>3
      <4>2. CASE u.packetTodo > 0
        BY <2>5, <4>2
      <4>3. CASE u.packetTodo <= 0
        <5>1. AudioWaits(u)
          BY <2>5, <2>6, <4>3
        <5> QED
          BY <2>4, <4>1, <4>3, <5>1
      <4> QED
        BY <2>5, <4>2, <4>3
    <3>4. AudioFits(u)
      BY <2>1, <3>2, <3>3, Zenon DEF AudioFits
    <3> QED
      BY <2>1, <3>1, <3>4 DEF Q
  <2>7. CASE ~(u.packetTodo > 0 \/ AudioWaits(u))
    <3>1. Q = CutPacket("audio", u)
      BY <1>1, <1>11, <2>7
    <3>2. u.packetTodo <= 0 /\ -3 <= u.packetTodo /\ u.frameTodo <= 0
      BY <1>7, <2>2, <2>3, <2>5, <2>7
    <3>3. /\ Basic("audio", Q) /\ SameFrame(u, Q) /\ Lacks("audio", Q)
          /\ Q.packetTodo > 0
      BY <1>0, <2>1, <3>1, <3>2, CutBasic
    <3>4. Q.state = "scanFrame" /\ Q.frameTodo = u.frameTodo
      BY <2>1, <3>3 DEF SameFrame
    <3>5. Q.packetTodo \in Int
      BY <3>3, FieldsAre DEF Basic
    <3>6. /\ ~(Q.frameTodo > 0) /\ Q.packetTodo >= -2 /\ ~(Q.packetTodo <= 0)
          /\ Q.packetTodo # -1 /\ Q.packetTodo # -2
      BY <2>5, <3>2, <3>3, <3>4, <3>5
    <3>7. AudioFits(Q)
      BY <3>3, <3>4, <3>6, Zenon DEF AudioFits
    <3> QED
      BY <3>3, <3>7 DEF Q
  <2> QED
    BY <2>6, <2>7
<1> QED
    BY <1>6, <1>9, <1>10, <1>11

(* cDolbyRepacker                                                          *)

Seeking == {"syncing", "find_77", "store_chk1", "store_chk2", "get_length"}
DolbyFits(q) ==
    \/ q.state \in Seeking
    \/ /\ q.state = "output_packet"
       /\ q.frameTodo > 0 /\ q.fragmentTodo >= 0 /\ q.fragmentTodo <= q.frameTodo
       /\ q.fragmentTodo > 0 =>
            Len(q.body) + q.fragmentTodo <= Room("dolby", q.pts)

(* Steps of the AC3 repacker, by what they change.                         *)
Found(q, header) == [q EXCEPT !.state = "find_77", !.backup = FALSE, !.header = header]
Store(q, header) == [q EXCEPT !.header = header]
Sized(q, n) == [q EXCEPT !.frameTodo = n, !.initiallySyncing = FALSE,
                         !.state = "output_packet"]
Started(q, body, flag, starts, need, header) ==
    [q EXCEPT !.body = body, !.pts = flag, !.starts = starts,
              !.fragmentTodo = need, !.header = header]
Put(q, b) == [q EXCEPT !.body = Append(@, b), !.fragmentTodo = @ - 1,
                       !.frameTodo = @ - 1]
Over(q, s) == [q EXCEPT !.body = <<>>, !.state = s]

LEMMA Stores ==
    ASSUME NEW k \in Kinds, NEW q, Basic(k, q), NEW header \in PesHeader,
           NEW Q, Q = Store(q, header)
    PROVE  Basic(k, Q) /\ Q.state = q.state /\ Q.scanner = q.scanner
<1>0. q \in Repacker
    BY DEF Basic
<1>1. Q \in Repacker
    BY <1>0 DEF Repacker, Store
<1>2. Q.state = q.state /\ Q.scanner = q.scanner /\ Q.out = q.out
    BY <1>0 DEF Repacker, Store
<1> QED
    BY <1>1, <1>2, Zenon DEF Basic

LEMMA FoundIs ==
    ASSUME NEW k \in Kinds, NEW q, Basic(k, q), NEW header \in PesHeader,
           NEW Q, Q = Found(q, header)
    PROVE  Basic(k, Q) /\ Q.state = "find_77"
<1>0. q \in Repacker /\ "find_77" \in States
    BY DEF Basic, States
<1>1. Q \in Repacker
    BY <1>0 DEF Repacker, Found
<1>2. Q.state = "find_77" /\ Q.scanner = q.scanner /\ Q.out = q.out
    BY <1>0 DEF Repacker, Found
<1> QED
    BY <1>1, <1>2, Zenon DEF Basic

LEMMA SizedIs ==
    ASSUME NEW k \in Kinds, NEW q, Basic(k, q), NEW n \in Int, NEW Q, Q = Sized(q, n)
    PROVE  Basic(k, Q) /\ Q.state = "output_packet" /\ Q.frameTodo = n
<1>0. q \in Repacker /\ "output_packet" \in States
    BY DEF Basic, States
<1>1. Q \in Repacker
    BY <1>0 DEF Repacker, Sized
<1>2. /\ Q.state = "output_packet" /\ Q.scanner = q.scanner /\ Q.out = q.out
      /\ Q.frameTodo = n
    BY <1>0 DEF Repacker, Sized
<1> QED
    BY <1>1, <1>2, Zenon DEF Basic

LEMMA StartedIs ==
    ASSUME NEW k \in Kinds, NEW q, Basic(k, q), NEW body \in Seq(Octet),
           NEW flag \in BOOLEAN, NEW starts \in BOOLEAN, NEW need \in Int,
           NEW header \in PesHeader,
           NEW Q, Q = Started(q, body, flag, starts, need, header)
    PROVE  /\ Basic(k, Q) /\ Q.state = q.state /\ Q.frameTodo = q.frameTodo
           /\ Q.body = body /\ Q.fragmentTodo = need /\ Room(k, Q.pts) = Room(k, flag)
<1>0. q \in Repacker
    BY DEF Basic
<1>1. Q \in Repacker
    BY <1>0 DEF Repacker, Started
<1>2. /\ Q.state = q.state /\ Q.scanner = q.scanner /\ Q.out = q.out
      /\ Q.frameTodo = q.frameTodo /\ Q.body = body /\ Q.fragmentTodo = need
    BY <1>0 DEF Repacker, Started
<1>3. Q.pts = flag
    BY <1>0 DEF Repacker, Started
<1> QED
    BY <1>1, <1>2, <1>3, Zenon DEF Basic

LEMMA Puts ==
    ASSUME NEW k \in Kinds, NEW q, Basic(k, q), NEW b \in Octet, NEW Q, Q = Put(q, b)
    PROVE  /\ Basic(k, Q) /\ Q.state = q.state /\ Q.frameTodo = q.frameTodo - 1
           /\ Q.fragmentTodo = q.fragmentTodo - 1
           /\ Len(Q.body) = Len(q.body) + 1 /\ Room(k, Q.pts) = Room(k, q.pts)
<1> DEFINE body == Append(q.body, b)
           l == Len(q.body)
           m == q.fragmentTodo - 1
           n == q.frameTodo - 1
<1>0. /\ q \in Repacker /\ q.body \in Seq(Octet) /\ l \in Nat
      /\ m \in Int /\ n \in Int
    BY FieldsAre DEF Basic
<1>1. body \in Seq(Octet) /\ Len(body) = l + 1
    BY <1>0, GrowIs, Zenon
<1>2. Q = [q EXCEPT !.body = body, !.fragmentTodo = m, !.frameTodo = n]
    BY DEF Put
<1> HIDE DEF body, l, m, n
<1>3. Q \in Repacker
    BY <1>0, <1>1, <1>2 DEF Repacker
<1>4. /\ Q.state = q.state /\ Q.scanner = q.scanner /\ Q.out = q.out
      /\ Q.frameTodo = n /\ Q.body = body /\ Q.fragmentTodo = m
    BY <1>0, <1>2 DEF Repacker
<1>5. Q.pts = q.pts
    BY <1>0, <1>2 DEF Repacker
<1> QED
    BY <1>1, <1>3, <1>4, <1>5, Zenon DEF Basic, l, m, n

LEMMA OverIs ==
    ASSUME NEW k \in Kinds, NEW q, Basic(k, q), NEW s \in States,
           NEW Q, Q = Over(q, s)
    PROVE  /\ Basic(k, Q) /\ Q.state = s /\ Q.frameTodo = q.frameTodo
           /\ Q.fragmentTodo = q.fragmentTodo
<1>0. q \in Repacker /\ <<>> \in Seq(Octet)
    BY DEF Basic
<1>1. Q \in Repacker
    BY <1>0 DEF Repacker, Over
<1>2. /\ Q.state = s /\ Q.scanner = q.scanner /\ Q.out = q.out
      /\ Q.frameTodo = q.frameTodo /\ Q.fragmentTodo = q.fragmentTodo
    BY <1>0 DEF Repacker, Over
<1> QED
    BY <1>1, <1>2, Zenon DEF Basic

LEMMA HeadersAre ==
    ASSUME NEW flag \in BOOLEAN, NEW starts \in BOOLEAN
    PROVE  [pts |-> flag, starts |-> starts] \in PesHeader
BY DEF PesHeader

(* The search for the beginning of a frame.                                *)
LEMMA Finds0b ==
    ASSUME NEW q, Basic("dolby", q), NEW b
    PROVE  Basic("dolby", Find0b(q, b)) /\ Find0b(q, b).state \in Seeking
<1> DEFINE header == IF q.backup THEN [pts |-> TRUE, starts |-> TRUE] ELSE q.header
           Q == Find0b(q, b)
<1>0. "dolby" \in Kinds /\ "syncing" \in States
    BY DEF Kinds, States
<1>1. header \in PesHeader
  <2>1. q.header \in PesHeader
    BY FlagsAre, Zenon DEF Basic
  <2>2. [pts |-> TRUE, starts |-> TRUE] \in PesHeader
    BY HeadersAre
  <2> QED
    BY <2>1, <2>2, Zenon
<1>2. CASE b # 11
  <2>1. Q = Enter(q, "syncing")
    BY <1>2, Zenon DEF Find0b, Enter
  <2> HIDE DEF Q
  <2>2. Basic("dolby", Q) /\ Q.state = "syncing"
    BY <1>0, <2>1, Enters
  <2> QED
    BY <2>2 DEF Q, Seeking
<1>3. CASE b = 11
  <2>1. Q = Found(q, header)
    BY <1>3, Zenon DEF Find0b, Found
  <2> HIDE DEF Q, header
  <2>2. Basic("dolby", Q) /\ Q.state = "find_77"
    BY <1>0, <1>1, <2>1, FoundIs
  <2> QED
    BY <2>2 DEF Q, Seeking
<1> QED
    BY <1>2, <1>3

LEMMA Finds77 ==
    ASSUME NEW q, Basic("dolby", q), NEW b
    PROVE  Basic("dolby", Find77(q, b)) /\ Find77(q, b).state \in Seeking
<1> DEFINE Q == Find77(q, b)
<1>0. "dolby" \in Kinds /\ "store_chk1" \in States
    BY DEF Kinds, States
<1>1. CASE b # 119
  <2>1. Q = Find0b(q, b)
    BY <1>1, Zenon DEF Find77
  <2> HIDE DEF Q
  <2>2. Basic("dolby", Find0b(q, b)) /\ Find0b(q, b).state \in Seeking
    BY Finds0b
  <2>3. Basic("dolby", Q) /\ Q.state \in Seeking
    BY <2>1, <2>2
  <2> QED
    BY <2>3 DEF Q
<1>2. CASE b = 119
  <2>1. Q = Enter(q, "store_chk1")
    BY <1>2, Zenon DEF Find77, Enter
  <2> HIDE DEF Q
  <2>2. Basic("dolby", Q) /\ Q.state = "store_chk1"
    BY <1>0, <2>1, Enters
  <2> QED
    BY <2>2 DEF Q, Seeking
<1> QED
    BY <1>1, <1>2

LEMMA Resyncs ==
    ASSUME NEW q, Basic("dolby", q), NEW b
    PROVE  Basic("dolby", Resync(q, b)) /\ Resync(q, b).state \in Seeking
<1> DEFINE s == Store(q, ResetPesHeader)
           one == q.scanner[2] = 11 /\ q.scanner[3] = 119
           two == q.scanner[3] = 11
           Q == Resync(q, b)
<1>0. "dolby" \in Kinds /\ "store_chk2" \in States
    BY DEF Kinds, States
<1>1. ResetPesHeader \in PesHeader
    BY HeadersAre DEF ResetPesHeader
<1>2. Basic("dolby", s)
    BY <1>0, <1>1, Stores
<1>3. CASE one
  <2>0. q.scanner[2] = 11 /\ q.scanner[3] = 119
    BY <1>3
  <2>1. Q = Enter(s, "store_chk2")
    BY <2>0 DEF Resync, Enter, Store
  <2> HIDE DEF Q, s
  <2>2. Basic("dolby", Q) /\ Q.state = "store_chk2"
    BY <1>0, <1>2, <2>1, Enters
  <2> QED
    BY <2>2 DEF Q, Seeking
<1>4. CASE ~one /\ two
  <2>1. Q = Find77(s, b)
    BY <1>4, Zenon DEF Resync, Store
  <2> HIDE DEF Q, s
  <2> QED
    BY <1>2, <2>1, Finds77, Zenon DEF Q
<1>5. CASE ~one /\ ~two
  <2>1. Q = Find0b(s, b)
    BY <1>5, Zenon DEF Resync, Store
  <2> HIDE DEF Q, s
  <2> QED
    BY <1>2, <2>1, Finds0b, Zenon DEF Q
<1> QED
    BY <1>3, <1>4, <1>5

LEMMA StartsPacket ==
    ASSUME NEW q, Basic("dolby", q), q.frameTodo > 0, NEW body \in Seq(Octet),
           Len(body) <= 4, NEW left, NEW Q, Q = StartNewPacket(q, body, left)
    PROVE  /\ Basic("dolby", Q) /\ Q.state = q.state /\ Q.frameTodo = q.frameTodo
           /\ Q.fragmentTodo > 0 /\ Q.fragmentTodo <= q.frameTodo
           /\ Len(Q.body) + Q.fragmentTodo <= Room("dolby", Q.pts)
<1> DEFINE flag == q.header.pts
           starts == q.header.starts
           room == Room("dolby", flag)
           l == Len(body)
           need == Least(room - l, q.frameTodo)
           header == IF need <= left /\ need = q.frameTodo
                       THEN ResetPesHeader ELSE Continuation
<1>0. "dolby" \in Kinds /\ q \in Repacker /\ q.frameTodo \in Int
    BY FieldsAre DEF Kinds, Basic
<1>1. flag \in BOOLEAN /\ starts \in BOOLEAN
  <2>1. q.header \in PesHeader
    BY <1>0, FlagsAre, Zenon
  <2> QED
    BY <2>1 DEF PesHeader
<1>2. room \in Nat /\ room >= 5
  <2>1. flag \in BOOLEAN
    BY <1>1
  <2> HIDE DEF flag
  <2> QED
    BY <1>0, <2>1, RoomIs, Zenon
<1>3. l \in Nat /\ l <= 4
    BY LenProperties, Zenon
<1>4. need \in Int /\ need > 0 /\ need <= q.frameTodo /\ l + need <= room
  <2> HIDE DEF room, l
  <2> QED
    BY <1>0, <1>2, <1>3 DEF Least
<1>5. header \in PesHeader
  <2>1. ResetPesHeader \in PesHeader /\ Continuation \in PesHeader
    BY HeadersAre DEF ResetPesHeader, Continuation
  <2> HIDE DEF need
  <2> QED
    BY <2>1, Zenon
<1>6. Q = Started(q, body, flag, starts, need, header)
    BY Zenon DEF StartNewPacket, Started, Room
<1> HIDE DEF flag, starts, need, header, room, l
<1>7. flag \in BOOLEAN
    BY <1>1
<1>8. starts \in BOOLEAN
    BY <1>1
<1>9. need \in Int
    BY <1>4
<1>10. /\ Basic("dolby", Q) /\ Q.state = q.state /\ Q.frameTodo = q.frameTodo
       /\ Q.body = body /\ Q.fragmentTodo = need
       /\ Room("dolby", Q.pts) = Room("dolby", flag)
    BY <1>0, <1>5, <1>6, <1>7, <1>8, <1>9, StartedIs
<1>11. Len(Q.body) = l /\ Room("dolby", Q.pts) = room
    BY <1>10, Zenon DEF l, room
<1> QED
    BY <1>4, <1>10, <1>11

LEMMA Outputs ==
    ASSUME NEW q, Basic("dolby", q), q.state = "output_packet", q.fragmentTodo > 0,
           q.fragmentTodo <= q.frameTodo,
           Len(q.body) + q.fragmentTodo <= Room("dolby", q.pts), NEW b \in Octet
    PROVE  Basic("dolby", OutputPacket(q, b)) /\ DolbyFits(OutputPacket(q, b))
<1> DEFINE t == Put(q, b)
           room == Room("dolby", q.pts)
           l == Len(q.body)
           m == q.fragmentTodo
           n == q.frameTodo
           P == PushOutPacket(t, 0)
           s == IF t.frameTodo = 0 THEN "syncing" ELSE P.state
           Q == OutputPacket(q, b)
<1>0. /\ "dolby" \in Kinds /\ q \in Repacker /\ l \in Nat
      /\ m \in Int /\ n \in Int
    BY FieldsAre DEF Kinds, Basic
<1>1. room \in Nat
    BY <1>0, FlagsAre, RoomIs, Zenon
<1>2. /\ t.fragmentTodo > 0 => Q = t
      /\ ~(t.fragmentTodo > 0) => Q = Over(P, s)
    BY Zenon DEF OutputPacket, Put, Over
<1>3. m > 0 /\ m <= n /\ l + m <= room
    OBVIOUS
<1> HIDE DEF t, room, P, s, Q
<1>4. /\ Basic("dolby", t) /\ t.state = "output_packet" /\ t.frameTodo = n - 1
      /\ t.fragmentTodo = m - 1 /\ Len(t.body) = l + 1
      /\ Room("dolby", t.pts) = room
    BY <1>0, Puts DEF t, room
<1> HIDE DEF l, m, n
<1>5. CASE t.fragmentTodo > 0
  <2>1. Q = t
    BY <1>2, <1>5
  <2>2. /\ t.frameTodo > 0 /\ t.fragmentTodo >= 0 /\ t.fragmentTodo <= t.frameTodo
        /\ Len(t.body) + t.fragmentTodo <= Room("dolby", t.pts)
    BY <1>0, <1>1, <1>3, <1>4, <1>5
  <2> QED
    BY <1>4, <2>1, <2>2, Zenon DEF DolbyFits, Q
<1>6. CASE ~(t.fragmentTodo > 0)
  <2>1. m = 1 /\ t.fragmentTodo = 0
    BY <1>0, <1>3, <1>4, <1>6
  <2>2. Len(t.body) - 0 <= Room("dolby", t.pts)
    BY <1>0, <1>1, <1>3, <1>4, <2>1
  <2>3. Basic("dolby", P) /\ SameFrame(t, P)
    BY <1>0, <1>4, <2>2, PushBasic DEF P
  <2>4. P.fragmentTodo = t.fragmentTodo
    <3>1. PushOutPacket(t, 0) = t \/ \E out : PushOutPacket(t, 0) = [t EXCEPT !.out = out]
      BY DEF PushOutPacket
    <3>2. t \in Repacker
      BY <1>4 DEF Basic
    <3> QED
      BY <3>1, <3>2 DEF Repacker, P
  <2>5. P.state = "output_packet" /\ P.frameTodo = t.frameTodo
    BY <1>4, <2>3 DEF SameFrame
  <2>6. s \in States
    BY <2>5 DEF s, States
  <2>7. /\ Basic("dolby", Q) /\ Q.state = s /\ Q.frameTodo = t.frameTodo
        /\ Q.fragmentTodo = 0
    BY <1>0, <1>2, <1>6, <2>1, <2>3, <2>4, <2>5, <2>6, OverIs
  <2>8. CASE t.frameTodo = 0
    <3>1. Q.state = "syncing"
      BY <2>7, <2>8 DEF s
    <3> QED
      BY <2>7, <3>1 DEF DolbyFits, Q, Seeking
  <2>9. CASE t.frameTodo # 0
    <3>1. Q.frameTodo > 0
      BY <1>0, <1>3, <1>4, <2>1, <2>7, <2>9
    <3>2. Q.fragmentTodo >= 0 /\ Q.fragmentTodo <= Q.frameTodo /\ ~(Q.fragmentTodo > 0)
      BY <1>0, <1>4, <2>7, <3>1
    <3>3. DolbyFits(Q)
      <4>1. Q.state = "output_packet"
        BY <2>5, <2>7, <2>9 DEF s
      <4> QED
        BY <3>1, <3>2, <4>1, Zenon DEF DolbyFits
    <3> QED
      BY <2>7, <3>3 DEF Q
  <2> QED
    BY <2>8, <2>9
<1> QED
    BY <1>5, <1>6

LEMMA DolbyByteFits ==
    ASSUME NEW q, Basic("dolby", q), DolbyFits(q), NEW b \in Octet, NEW left
    PROVE  Basic("dolby", DolbyByte(q, b, left)) /\ DolbyFits(DolbyByte(q, b, left))
<1> DEFINE s == Scanned(q, b)
           Q == DolbyByte(q, b, left)
<1>0. "dolby" \in Kinds /\ "store_chk2" \in States /\ "get_length" \in States
    BY DEF Kinds, States
<1>1. /\ Basic("dolby", s) /\ s.state = q.state /\ s.body = q.body
      /\ s.frameTodo = q.frameTodo /\ s.fragmentTodo = q.fragmentTodo
    BY <1>0, Scans
<1>2. Room("dolby", s.pts) = Room("dolby", q.pts)
  <2>1. s.pts = q.pts
    BY DEF Scanned, Basic, Repacker
  <2> QED
    BY <2>1, Zenon
<1>3. s.frameTodo \in Int /\ s.fragmentTodo \in Int
      /\ s.scanner \in Seq(Octet) /\ Len(s.scanner) = 4
    BY <1>1, FieldsAre DEF Basic
<1> HIDE DEF s, Q
<1>4. CASE q.state = "syncing"
  <2>1. Q = Find0b(s, b)
    BY <1>4, Zenon DEF Q, DolbyByte, s, Scanned
  <2>2. Basic("dolby", Q) /\ Q.state \in Seeking
    BY <1>1, <2>1, Finds0b, Zenon
  <2> QED
    BY <2>2 DEF DolbyFits, Q, Seeking
<1>5. CASE q.state = "find_77"
  <2>1. Q = Find77(s, b)
    BY <1>5, Zenon DEF Q, DolbyByte, s, Scanned
  <2>2. Basic("dolby", Q) /\ Q.state \in Seeking
    BY <1>1, <2>1, Finds77, Zenon
  <2> QED
    BY <2>2 DEF DolbyFits, Q, Seeking
<1>6. CASE q.state = "store_chk1"
  <2>1. Q = Enter(s, "store_chk2")
    BY <1>6, Zenon DEF Q, DolbyByte, s, Scanned, Enter
  <2>2. Basic("dolby", Q) /\ Q.state = "store_chk2"
    BY <1>0, <1>1, <2>1, Enters
  <2> QED
    BY <2>2 DEF DolbyFits, Q, Seeking
<1>7. CASE q.state = "store_chk2"
  <2>1. Q = Enter(s, "get_length")
    BY <1>7, Zenon DEF Q, DolbyByte, s, Scanned, Enter
  <2>2. Basic("dolby", Q) /\ Q.state = "get_length"
    BY <1>0, <1>1, <2>1, Enters
  <2> QED
    BY <2>2 DEF DolbyFits, Q, Seeking
<1>8. CASE q.state = "get_length" /\ b \notin DOMAIN Ac3Sizes
  <2>1. Q = Resync(s, b)
    BY <1>8, Zenon DEF Q, DolbyByte, s, Scanned
  <2>2. Basic("dolby", Q) /\ Q.state \in Seeking
    BY <1>1, <2>1, Resyncs, Zenon
  <2> QED
    BY <2>2 DEF DolbyFits, Q, Seeking
<1>9. CASE q.state = "get_length" /\ b \in DOMAIN Ac3Sizes
  <2> DEFINE n == Ac3Sizes[b] - 4
             body == <<11, 119, s.scanner[2], s.scanner[3]>>
             z == Sized(s, n)
             p == StartNewPacket(z, body, left)
  <2>1. Q = OutputPacket(p, b)
    BY <1>9, Zenon DEF Q, DolbyByte, s, Scanned, Sized
  <2>2. n \in Int /\ n > 0
    BY <1>9, RepackersAssumption
  <2>3. body \in Seq(Octet) /\ Len(body) <= 4
    <3>1. s.scanner[2] \in Octet /\ s.scanner[3] \in Octet
      BY <1>3
    <3> QED
      BY <3>1 DEF Octet
  <2> HIDE DEF n, body
  <2>4. Basic("dolby", z) /\ z.state = "output_packet" /\ z.frameTodo = n
    BY <1>0, <1>1, <2>2, SizedIs
  <2> HIDE DEF z
  <2>5. z.frameTodo > 0
    BY <2>2, <2>4
  <2>6. /\ Basic("dolby", p) /\ p.state = z.state /\ p.frameTodo = z.frameTodo
        /\ p.fragmentTodo > 0 /\ p.fragmentTodo <= z.frameTodo
        /\ Len(p.body) + p.fragmentTodo <= Room("dolby", p.pts)
    BY <2>3, <2>4, <2>5, StartsPacket
  <2> HIDE DEF p
  <2> QED
    BY <2>1, <2>4, <2>6, Outputs DEF Q
<1>10. CASE q.state = "output_packet" /\ q.fragmentTodo > 0
  <2>1. Q = OutputPacket(s, b)
    BY <1>10, Zenon DEF Q, DolbyByte, s, Scanned
  <2>2. /\ q.fragmentTodo <= q.frameTodo
        /\ Len(q.body) + q.fragmentTodo <= Room("dolby", q.pts)
    BY <1>10 DEF DolbyFits, Seeking
  <2>3. /\ s.state = "output_packet" /\ s.fragmentTodo > 0
        /\ s.fragmentTodo <= s.frameTodo
        /\ Len(s.body) + s.fragmentTodo <= Room("dolby", s.pts)
    BY <1>1, <1>2, <1>10, <2>2, Zenon
  <2> QED
    BY <1>1, <2>1, <2>3, Outputs DEF Q
<1>11. CASE q.state = "output_packet" /\ ~(q.fragmentTodo > 0)
  <2> DEFINE body == <<>>
             p == StartNewPacket(s, body, left)
  <2>1. Q = OutputPacket(p, b)
    BY <1>11, Zenon DEF Q, DolbyByte, s, Scanned
  <2>2. s.frameTodo > 0
    BY <1>1, <1>11 DEF DolbyFits, Seeking
  <2>3. body \in Seq(Octet) /\ Len(body) <= 4
    OBVIOUS
  <2> HIDE DEF body
  <2>6. /\ Basic("dolby", p) /\ p.state = s.state /\ p.frameTodo = s.frameTodo
        /\ p.fragmentTodo > 0 /\ p.fragmentTodo <= s.frameTodo
        /\ Len(p.body) + p.fragmentTodo <= Room("dolby", p.pts)
    BY <1>1, <2>2, <2>3, StartsPacket
  <2> HIDE DEF p
  <2> QED
    BY <1>1, <1>11, <2>1, <2>6, Outputs DEF Q
<1> QED
    BY <1>3, <1>4, <1>5, <1>6, <1>7, <1>8, <1>9, <1>10, <1>11
       DEF DolbyFits, Seeking

(* A repacker of any kind, and what it keeps to: its packets fit, and the  *)
(* packet under construction will.                                         *)
Sound(k, q) ==
    /\ Basic(k, q)
    /\ k = "video" => VideoFits(q)
    /\ k = "audio" => AudioFits(q)
    /\ k = "dolby" => DolbyFits(q)

LEMMA FreshSound == ASSUME NEW k \in Kinds PROVE Sound(k, Fresh(k))
<1> DEFINE s == [i \in 1 .. 4 |-> IF k = "video" THEN 255 ELSE 0]
           out == <<>>
           Q == Fresh(k)
<1>1. s \in Seq(Octet) /\ Len(s) = 4
    BY DEF Octet
<1>2. "syncing" \in States /\ out \in Seq(Packet) /\ <<>> \in Seq(Octet)
    BY DEF States
<1>3. [pts |-> FALSE, starts |-> TRUE] \in PesHeader
    BY HeadersAre
<1> HIDE DEF s, out
<1>4. Q = [state |-> "syncing", initiallySyncing |-> TRUE, skipped |-> 0,
           packetTodo |-> 0, frameTodo |-> 0, frameSize |-> 0, scanner |-> s,
           body |-> <<>>, pts |-> FALSE, starts |-> TRUE, fragmentTodo |-> 0,
           backup |-> FALSE, header |-> [pts |-> FALSE, starts |-> TRUE],
           out |-> out]
    BY DEF Fresh, s, out
<1> HIDE DEF Q
<1>5. Q \in Repacker
    BY <1>1, <1>2, <1>3, <1>4 DEF Repacker
<1>6. Q.scanner = s /\ Q.out = out /\ Q.state = "syncing"
    BY <1>4
<1>7. AllFit(k, Q.out)
    BY <1>6 DEF AllFit, out
<1>8. Basic(k, Q)
    BY <1>1, <1>5, <1>6, <1>7 DEF Basic
<1> QED
    BY <1>6, <1>8 DEF Sound, VideoFits, AudioFits, DolbyFits, Seeking, Q

(* A header with a time stamp is stored; what came out is gone.            *)
Stamped(q, p) == [q EXCEPT !.backup = @ \/ p.pts]
Quiet(q) == [q EXCEPT !.out = <<>>]

LEMMA SameSound ==
    ASSUME NEW k \in Kinds, NEW q, Sound(k, q), NEW Q, Basic(k, Q),
           Q.state = q.state, Q.scanner = q.scanner, Q.body = q.body,
           Q.packetTodo = q.packetTodo, Q.frameTodo = q.frameTodo,
           Q.fragmentTodo = q.fragmentTodo,
           Room(k, Q.pts) = Room(k, q.pts)
    PROVE  Sound(k, Q)
<1>1. CASE k = "video"
  <2>1. VideoWaits(q) => VideoWaits(Q)
    BY Zenon DEF VideoWaits
  <2> QED
    BY <1>1, <2>1 DEF Sound, VideoFits, Lacks
<1>2. CASE k = "audio"
  <2>1. AudioWaits(q) => AudioWaits(Q)
    BY Zenon DEF AudioWaits
  <2> QED
    BY <1>2, <2>1 DEF Sound, AudioFits, Lacks
<1>3. CASE k = "dolby"
    BY <1>3 DEF Sound, DolbyFits, Lacks
<1> QED
    BY <1>1, <1>2, <1>3 DEF Kinds

LEMMA StampedSound ==
    ASSUME NEW k \in Kinds, NEW q, Sound(k, q), NEW p, p.pts \in BOOLEAN
    PROVE  Sound(k, Stamped(q, p))
<1> DEFINE Q == Stamped(q, p)
<1>0. q \in Repacker /\ Len(q.scanner) = 4 /\ AllFit(k, q.out)
    BY DEF Sound, Basic
<1>1. Q \in Repacker
  <2>1. (q.backup \/ p.pts) \in BOOLEAN
    OBVIOUS
  <2> QED
    BY <1>0, <2>1 DEF Stamped, Repacker
<1>2. /\ Q.state = q.state /\ Q.scanner = q.scanner /\ Q.body = q.body
      /\ Q.packetTodo = q.packetTodo /\ Q.frameTodo = q.frameTodo
      /\ Q.fragmentTodo = q.fragmentTodo /\ Q.out = q.out
    BY <1>0 DEF Stamped, Repacker
<1>3. Q.pts = q.pts
    BY <1>0 DEF Stamped, Repacker
<1> HIDE DEF Q
<1>4. Room(k, Q.pts) = Room(k, q.pts)
    BY <1>3, Zenon
<1>5. Basic(k, Q)
    BY <1>0, <1>1, <1>2, Zenon DEF Basic
<1>6. Sound(k, Q)
    BY <1>2, <1>4, <1>5, SameSound
<1> QED
    BY <1>6 DEF Q

LEMMA QuietSound ==
    ASSUME NEW k \in Kinds, NEW q, Sound(k, q)
    PROVE  Sound(k, Quiet(q))
<1> DEFINE Q == Quiet(q)
<1>0. q \in Repacker /\ Len(q.scanner) = 4
    BY DEF Sound, Basic
<1>1. Q \in Repacker
  <2>1. <<>> \in Seq(Packet)
    OBVIOUS
  <2> QED
    BY <1>0, <2>1 DEF Quiet, Repacker
<1>2. /\ Q.state = q.state /\ Q.scanner = q.scanner /\ Q.body = q.body
      /\ Q.packetTodo = q.packetTodo /\ Q.frameTodo = q.frameTodo
      /\ Q.fragmentTodo = q.fragmentTodo /\ Q.out = <<>>
    BY <1>0 DEF Quiet, Repacker
<1>3. Q.pts = q.pts
    BY <1>0 DEF Quiet, Repacker
<1> HIDE DEF Q
<1>4. Room(k, Q.pts) = Room(k, q.pts)
    BY <1>3, Zenon
<1>5. AllFit(k, Q.out)
    BY <1>2 DEF AllFit
<1>6. Basic(k, Q)
    BY <1>0, <1>1, <1>2, <1>5, Zenon DEF Basic
<1>7. Sound(k, Q)
    BY <1>2, <1>4, <1>6, SameSound
<1> QED
    BY <1>7 DEF Q

LEMMA RepackByteSound ==
    ASSUME NEW k \in Kinds, NEW q, Sound(k, q), NEW body \in Seq(Octet),
           NEW i \in 1 .. Len(body)
    PROVE  Sound(k, RepackByte(k, q, body, i))
<1> DEFINE b == body[i]
           left == Len(body) - i + 1
<1>0. b \in Octet
    OBVIOUS
<1> HIDE DEF b, left
<1>1. CASE k = "video"
  <2>1. RepackByte(k, q, body, i) = VideoByte(q, b)
    BY <1>1 DEF RepackByte, b
  <2>2. Basic("video", VideoByte(q, b)) /\ VideoFits(VideoByte(q, b))
    BY <1>0, <1>1, VideoByteFits DEF Sound
  <2> QED
    BY <1>1, <2>1, <2>2 DEF Sound
<1>2. CASE k = "audio"
  <2>1. RepackByte(k, q, body, i) = AudioByte(q, b)
    BY <1>2 DEF RepackByte, b
  <2>2. Basic("audio", AudioByte(q, b)) /\ AudioFits(AudioByte(q, b))
    BY <1>0, <1>2, AudioByteFits DEF Sound
  <2> QED
    BY <1>2, <2>1, <2>2 DEF Sound
<1>3. CASE k = "dolby"
  <2>1. RepackByte(k, q, body, i) = DolbyByte(q, b, left)
    BY <1>3 DEF RepackByte, b, left
  <2>2. Basic("dolby", DolbyByte(q, b, left)) /\ DolbyFits(DolbyByte(q, b, left))
    BY <1>0, <1>3, DolbyByteFits DEF Sound
  <2> QED
    BY <1>3, <2>1, <2>2 DEF Sound
<1> QED
    BY <1>1, <1>2, <1>3 DEF Kinds

(* The repackers Repack goes through, from q on, for n bytes of a body.    *)
BytesTo(k, q, body, n, f) ==
    /\ f = [i \in 0 .. n |-> f[i]] /\ f[0] = q
    /\ \A i \in 1 .. n : f[i] = RepackByte(k, f[i - 1], body, i)

LEMMA BytesExist ==
    ASSUME NEW k, NEW q, NEW body, NEW m \in Nat
    PROVE  \E f : BytesTo(k, q, body, m, f)
<1> DEFINE S == {n \in Nat : \E f : BytesTo(k, q, body, n, f)}
<1>1. 0 \in S
  <2>1. BytesTo(k, q, body, 0, [i \in 0 .. 0 |-> q])
    BY DEF BytesTo
  <2> QED
    BY <2>1
<1>2. ASSUME NEW n \in Nat, n \in S PROVE n + 1 \in S
  <2>1. PICK f : BytesTo(k, q, body, n, f)
    BY <1>2
  <2> DEFINE last == RepackByte(k, f[n], body, n + 1)
             g == [i \in 0 .. n + 1 |-> IF i <= n THEN f[i] ELSE last]
  <2>2. f[0] = q /\ \A i \in 1 .. n : f[i] = RepackByte(k, f[i - 1], body, i)
    BY <2>1 DEF BytesTo
  <2>3. (\A i \in 0 .. n : g[i] = f[i]) /\ g[n + 1] = last
    <3> HIDE DEF last
    <3> QED
        OBVIOUS
  <2>4. g = [i \in 0 .. n + 1 |-> g[i]]
    <3> HIDE DEF last
    <3> QED
        OBVIOUS
  <2> HIDE DEF g
  <2>5. g[0] = q
    BY <2>2, <2>3
  <2>6. ASSUME NEW i \in 1 .. n + 1
        PROVE  g[i] = RepackByte(k, g[i - 1], body, i)
    <3>1. CASE i = n + 1
      <4>1. g[i] = last /\ g[i - 1] = f[n] /\ i = n + 1
        BY <2>3, <3>1
      <4> QED
        BY <4>1, Zenon DEF last
    <3>2. CASE i # n + 1
      <4>1. i \in 1 .. n /\ g[i] = f[i] /\ g[i - 1] = f[i - 1]
        BY <2>3, <3>2
      <4> QED
        BY <2>2, <4>1, Zenon
    <3> QED
        BY <3>1, <3>2
  <2>7. BytesTo(k, q, body, n + 1, g)
    BY <2>4, <2>5, <2>6, Zenon DEF BytesTo
  <2> QED
    BY <2>7
<1>3. Nat \subseteq S
  <2> HIDE DEF S
  <2> QED
    BY <1>1, <1>2, SetInduction
<1> QED
    BY <1>3

LEMMA RepackIs ==
    ASSUME NEW k, NEW q, NEW p, Len(p.body) \in Nat
    PROVE  \E f : /\ BytesTo(k, Stamped(q, p), p.body, Len(p.body), f)
                  /\ Repack(k, q, p) = f[Len(p.body)]
<1> DEFINE n == Len(p.body)
           z == Stamped(q, p)
           Steps(g) == [i \in 0 .. n |-> IF i = 0 THEN z
                                         ELSE RepackByte(k, g[i - 1], p.body, i)]
           t == CHOOSE g : g = Steps(g)
<1>1. PICK f : BytesTo(k, z, p.body, n, f)
    BY BytesExist
<1>0. n \in Nat
    OBVIOUS
<1>2. f = Steps(f)
  <2>1. \A i \in 0 .. n : f[i] = Steps(f)[i]
    <3> HIDE DEF n, z
    <3>1. \A i \in 0 .. n : i # 0 => i \in 1 .. n
        BY <1>0
    <3> QED
        BY <1>1, <3>1 DEF BytesTo
  <2>2. f = [i \in 0 .. n |-> f[i]]
    <3> HIDE DEF n, z
    <3> QED
        BY <1>1 DEF BytesTo
  <2>3. Steps(f) = [i \in 0 .. n |-> Steps(f)[i]]
    OBVIOUS
  <2> DEFINE h == Steps(f)
  <2> HIDE DEF h
  <2>4. f = h
    BY <2>1, <2>2, <2>3 DEF h
  <2> QED
    BY <2>4 DEF h
<1>3. t = Steps(t)
    BY <1>2, Zenon
<1>4. Repack(k, q, p) = t[n]
    BY DEF Repack, Stamped
<1> HIDE DEF t, z
<1>5. BytesTo(k, z, p.body, n, t)
  <2>1. t[0] = z /\ \A i \in 1 .. n : t[i] = RepackByte(k, t[i - 1], p.body, i)
    BY <1>3
  <2>2. t = [i \in 0 .. n |-> t[i]]
    BY <1>3
  <2> QED
    BY <2>1, <2>2 DEF BytesTo
<1> QED
    BY <1>4, <1>5 DEF z

LEMMA RepackSound ==
    ASSUME NEW k \in Kinds, NEW q, Sound(k, q), NEW p, p.pts \in BOOLEAN,
           p.body \in Seq(Octet)
    PROVE  Sound(k, Repack(k, q, p))
<1> DEFINE n == Len(p.body)
           body == p.body
           z == Stamped(q, p)
<1>0. n \in Nat /\ body \in Seq(Octet)
    BY LenProperties, Zenon
<1>1. Sound(k, z)
    BY StampedSound
<1>2. PICK f : BytesTo(k, z, body, n, f) /\ Repack(k, q, p) = f[n]
    BY <1>0, RepackIs, Zenon
<1> HIDE DEF z
<1>3. f[0] = z /\ \A i \in 1 .. n : f[i] = RepackByte(k, f[i - 1], body, i)
    BY <1>2 DEF BytesTo
<1> DEFINE S == {i \in Nat : i <= n => Sound(k, f[i])}
<1>4. 0 \in S
    BY <1>1, <1>3
<1>5. ASSUME NEW i \in Nat, i \in S PROVE i + 1 \in S
  <2> SUFFICES ASSUME i + 1 <= n PROVE Sound(k, f[i + 1])
    OBVIOUS
  <2>1. i + 1 \in 1 .. n /\ (i + 1) - 1 = i /\ i <= n
    BY <1>0
  <2>2. f[i + 1] = RepackByte(k, f[i], body, i + 1)
    BY <1>3, <2>1
  <2>3. Sound(k, f[i])
    BY <1>5, <2>1
  <2>4. i + 1 \in 1 .. Len(body)
    BY <2>1
  <2> HIDE DEF n, body
  <2> QED
    BY <1>0, <2>2, <2>3, <2>4, RepackByteSound
<1>6. Nat \subseteq S
  <2> HIDE DEF S
  <2> QED
    BY <1>4, <1>5, SetInduction
<1>7. Sound(k, f[n])
  <2>1. n \in S
    BY <1>0, <1>6
  <2> HIDE DEF n
  <2> QED
    BY <1>0, <2>1
<1> QED
    BY <1>2, <1>7

(* The PES packet collected is typed, what goes into the repacker are      *)
(* bytes, and the repacker is sound.                                       *)
Collected == [open : BOOLEAN, pts : BOOLEAN, body : Seq(Octet)]
RemuxInv ==
    /\ kind \in Kinds /\ Sound(kind, repacker)
    /\ buf \in Collected /\ rest \in Seq(Octet) /\ token \in Seq(Octet)

LEMMA NothingCollected ==
    /\ None \in Collected
    /\ \A flag, pts \in BOOLEAN :
         [open |-> flag, pts |-> pts, body |-> <<>>] \in Collected
    /\ [None EXCEPT !.open = TRUE] \in Collected
<1>1. \A flag, pts \in BOOLEAN :
        [open |-> flag, pts |-> pts, body |-> <<>>] \in Collected
  <2>1. <<>> \in Seq(Octet)
    OBVIOUS
  <2> QED
    BY <2>1 DEF Collected
<1>2. None \in Collected
  <2>1. None = [open |-> FALSE, pts |-> FALSE, body |-> <<>>]
    BY DEF None
  <2> HIDE DEF None
  <2>2. FALSE \in BOOLEAN
    OBVIOUS
  <2> QED
    BY <1>1, <2>1, <2>2, Zenon
<1>3. [None EXCEPT !.open = TRUE] \in Collected
    BY <1>2 DEF Collected
<1> QED
    BY <1>1, <1>2, <1>3, Zenon

LEMMA CollectedIs ==
    ASSUME NEW b \in Collected, NEW body \in Seq(Octet)
    PROVE  [b EXCEPT !.body = body] \in Collected
BY DEF Collected

LEMMA RemuxStarts == RemuxInit => RemuxInv
<1> SUFFICES ASSUME RemuxInit PROVE RemuxInv
    OBVIOUS
<1>1. kind \in Kinds /\ repacker = Fresh(kind) /\ buf = None
    BY DEF RemuxInit
<1>2. rest \in Seq(Octet) /\ token \in Seq(Octet)
    BY DEF RemuxInit
<1>3. Sound(kind, repacker)
    BY <1>1, FreshSound
<1> QED
    BY <1>1, <1>2, <1>3, NothingCollected DEF RemuxInv

LEMMA CalmSound == ASSUME RemuxInv PROVE Sound(kind, Calm)
<1>1. Calm = Quiet(repacker)
    BY DEF Calm, Quiet
<1>2. kind \in Kinds /\ Sound(kind, repacker)
    BY DEF RemuxInv
<1>3. Sound(kind, Quiet(repacker))
    BY <1>2, QuietSound
<1> QED
    BY <1>1, <1>3, Zenon

LEMMA SendSound ==
    ASSUME RemuxInv, NEW b \in Collected
    PROVE  Sound(kind, SendIpack(Calm, b))
<1>1. b.pts \in BOOLEAN
    BY DEF Collected
<1>2. b.body \in Seq(Octet)
    BY DEF Collected
<1>3. kind \in Kinds
    BY DEF RemuxInv
<1> DEFINE q == Calm
<1>4. Sound(kind, q)
    BY CalmSound
<1> HIDE DEF q
<1>5. Sound(kind, Repack(kind, q, b))
    BY <1>1, <1>2, <1>3, <1>4, RepackSound
<1>6. SendIpack(q, b) = q \/ SendIpack(q, b) = Repack(kind, q, b)
    BY Zenon DEF SendIpack
<1>7. Sound(kind, SendIpack(q, b))
    BY <1>4, <1>5, <1>6, Zenon
<1> QED
    BY <1>7 DEF q

(* Where a packet should be broken, if anywhere.                           *)
LEMMA FirstEndIs ==
    ASSUME NEW S, S \subseteq Nat
    PROVE  FirstEnd(S) \in Nat
<1>1. CASE S = {}
    BY <1>1 DEF FirstEnd
<1>2. CASE S # {}
  <2>1. \E i \in S : \A j \in S : i <= j
    BY <1>2, HasLeast
  <2>2. FirstEnd(S) \in S
    BY <1>2, <2>1, Zenon DEF FirstEnd
  <2> QED
    BY <2>2
<1> QED
    BY <1>1, <1>2

LEMMA BreakAtIs ==
    ASSUME NEW k \in Kinds, NEW q \in Repacker, NEW p
    PROVE  BreakAt(k, q, p) \in Int
<1> DEFINE Picture == {i \in 1 .. Len(p.body) :
                         /\ StartCode(Window(q, p, i))
                         /\ Window(q, p, i)[4] \in PictureCodes}
           Header == {i \in 1 .. Len(p.body) :
                        IsValidAudioHeader(Window(q, p, i))}
           full == q.packetTodo + 4
<1>0. q.packetTodo \in Int /\ q.frameTodo \in Int
    BY FieldsAre
<1>1. full \in Int
    BY <1>0
<1>2. FirstEnd(Picture) \in Nat /\ FirstEnd(Header) \in Nat
  <2>1. Picture \subseteq 1 .. Len(p.body) /\ Header \subseteq 1 .. Len(p.body)
    OBVIOUS
  <2>2. 1 .. Len(p.body) \subseteq Nat
    OBVIOUS
  <2> HIDE DEF Picture, Header
  <2> QED
    BY <2>1, <2>2, FirstEndIs
<1>3. VideoBreakAt(q, p) \in Int
  <2>1. \/ VideoBreakAt(q, p) = FirstEnd(Picture)
        \/ VideoBreakAt(q, p) = full
    BY DEF VideoBreakAt
  <2> HIDE DEF Picture, full
  <2> QED
    BY <1>1, <1>2, <2>1
<1>4. AudioBreakAt(q, p) \in Int
  <2>1. \/ AudioBreakAt(q, p) = FirstEnd(Header)
        \/ AudioBreakAt(q, p) = full
        \/ AudioBreakAt(q, p) = Least(q.frameTodo + 4, full)
    BY DEF AudioBreakAt
  <2> HIDE DEF Header, full
  <2> QED
    BY <1>0, <1>1, <1>2, <2>1 DEF Least
<1>5. DolbyBreakAt(q, p) \in Int
  <2>1. \/ DolbyBreakAt(q, p) = q.frameTodo \/ DolbyBreakAt(q, p) = -1
        \/ \E v \in DOMAIN Ac3Sizes : DolbyBreakAt(q, p) = Ac3Sizes[v]
    BY DEF DolbyBreakAt
  <2>2. \A v \in DOMAIN Ac3Sizes : Ac3Sizes[v] \in Int
    BY RepackersAssumption
  <2> QED
    BY <1>0, <2>1, <2>2
<1> HIDE DEF Picture, Header, full
<1>6. \/ BreakAt(k, q, p) = -1 \/ BreakAt(k, q, p) = VideoBreakAt(q, p)
      \/ BreakAt(k, q, p) = AudioBreakAt(q, p)
      \/ BreakAt(k, q, p) = DolbyBreakAt(q, p)
    BY DEF BreakAt, Kinds
<1> QED
    BY <1>3, <1>4, <1>5, <1>6

(* What is left of a sequence after its first n.                           *)
LEMMA RestIs ==
    ASSUME NEW s \in Seq(Octet), NEW n \in Nat, n <= Len(s)
    PROVE  SubSeq(s, n + 1, Len(s)) \in Seq(Octet)
<1>0. Len(s) \in Nat
    BY LenProperties, Zenon
<1> QED
    BY <1>0

LEMMA TokensAre ==
    ASSUME kind \in Kinds, NEW t \in Frames[kind] \cup Noise[kind]
    PROVE  t \in Seq(Octet)
BY TokensAssumption DEF Octet

LEMMA PayloadInv == ASSUME RemuxInv, Payload PROVE RemuxInv'
<1>1. kind \in Kinds /\ kind' = kind /\ repacker' = Calm
      /\ buf \in Collected /\ buf' = buf
    BY DEF RemuxInv, Payload
<1>2. rest' \in Seq(Octet) /\ token' \in Seq(Octet)
  <2>1. PICK t \in Frames[kind] \cup Noise[kind], n \in 1 .. MaxCut :
          \/ rest' = t /\ token' = <<>>
          \/ /\ n < Len(t)
             /\ rest' = SubSeq(t, 1, n) /\ token' = SubSeq(t, n + 1, Len(t))
    BY Zenon DEF Payload
  <2>2. t \in Seq(Octet) /\ Len(t) \in Nat
    BY <1>1, TokensAre, LenProperties
  <2>3. n \in Nat
    BY TokensAssumption
  <2>4. n < Len(t) => /\ SubSeq(t, 1, n) \in Seq(Octet)
                      /\ SubSeq(t, n + 1, Len(t)) \in Seq(Octet)
    BY <2>2, <2>3, FrontIs, RestIs
  <2>5. <<>> \in Seq(Octet)
    OBVIOUS
  <2> QED
    BY <2>1, <2>2, <2>4, <2>5, Zenon
<1>3. Sound(kind, Calm)
    BY CalmSound
<1>4. Sound(kind', repacker')
    BY <1>1, <1>3, Zenon
<1> QED
    BY <1>1, <1>2, <1>4 DEF RemuxInv

LEMMA PayloadRestInv == ASSUME RemuxInv, PayloadRest PROVE RemuxInv'
<1>1. kind \in Kinds /\ kind' = kind /\ repacker' = Calm
      /\ buf \in Collected /\ buf' = buf
    BY DEF RemuxInv, PayloadRest
<1>2. rest' \in Seq(Octet) /\ token' \in Seq(Octet)
    BY DEF RemuxInv, PayloadRest
<1>3. Sound(kind', repacker')
    BY <1>1, CalmSound, Zenon
<1> QED
    BY <1>1, <1>2, <1>3 DEF RemuxInv

LEMMA EndPesInv == ASSUME RemuxInv, EndPes PROVE RemuxInv'
<1>1. kind \in Kinds /\ kind' = kind /\ repacker' = SendIpack(Calm, buf)
      /\ buf \in Collected /\ buf' = None
    BY DEF RemuxInv, EndPes
<1>2. rest' \in Seq(Octet) /\ token' \in Seq(Octet)
    BY DEF RemuxInv, EndPes
<1>3. Sound(kind', repacker')
    BY <1>1, SendSound, Zenon
<1> QED
    BY <1>1, <1>2, <1>3, NothingCollected DEF RemuxInv

LEMMA PesStartInv == ASSUME RemuxInv, PesStart PROVE RemuxInv'
<1>1. kind \in Kinds /\ kind' = kind
      /\ (repacker' = SendIpack(Calm, buf) \/ repacker' = Calm)
      /\ buf \in Collected
    BY DEF RemuxInv, PesStart
<1>2. rest' \in Seq(Octet) /\ token' \in Seq(Octet)
    BY DEF RemuxInv, PesStart
<1>3. Sound(kind', repacker')
    BY <1>1, SendSound, CalmSound, Zenon
<1>4. buf' \in Collected
  <2>1. PICK pts \in BOOLEAN :
          buf' = [open |-> TRUE, pts |-> pts, body |-> <<>>]
    BY DEF PesStart
  <2> QED
    BY <2>1, NothingCollected
<1> QED
    BY <1>1, <1>2, <1>3, <1>4 DEF RemuxInv

LEMMA ClearInv == ASSUME RemuxInv, Clear PROVE RemuxInv'
<1>1. kind \in Kinds /\ kind' = kind /\ repacker' = Fresh(kind) /\ buf' = None
    BY DEF RemuxInv, Clear
<1>2. rest' \in Seq(Octet) /\ token' \in Seq(Octet)
    BY DEF RemuxInv, Clear
<1>3. Sound(kind', repacker')
    BY <1>1, FreshSound
<1> QED
    BY <1>1, <1>2, <1>3, NothingCollected DEF RemuxInv

LEMMA WriteIpackInv == ASSUME RemuxInv, WriteIpack PROVE RemuxInv'
<1> DEFINE all    == buf.body \o rest
           room   == Size - HeaderSize[buf.pts]
           before == BreakAt(kind, repacker, buf)
           most   == IF before < 0 THEN room ELSE
                     IF before < Len(buf.body) THEN Len(buf.body) ELSE before
           take   == Least(Least(Len(all), room), most)
           full   == [buf EXCEPT !.body = SubSeq(all, 1, take)]
           after  == BreakAt(kind, repacker, full)
           cut    == [buf EXCEPT !.body = SubSeq(all, 1, after)]
<1>1. kind \in Kinds /\ buf \in Collected /\ repacker \in Repacker
      /\ rest \in Seq(Octet) /\ token \in Seq(Octet)
    BY DEF RemuxInv, Sound, Basic
<1>2. buf.body \in Seq(Octet) /\ Len(buf.body) \in Nat
  <2>1. buf.body \in Seq(Octet)
    BY <1>1 DEF Collected
  <2> QED
    BY <2>1, LenProperties
<1>3. all \in Seq(Octet) /\ Len(all) \in Nat
  <2>1. all \in Seq(Octet)
    BY <1>1, <1>2, ConcatProperties, Zenon
  <2> HIDE DEF all
  <2> QED
    BY <2>1, LenProperties
<1>4. room \in Nat
  <2> DEFINE a == HeaderSize[buf.pts]
             b == MaxPacketSize[kind]
  <2>1. buf.pts \in BOOLEAN
    BY <1>1 DEF Collected
  <2>2. a \in Nat /\ b \in Nat /\ Room(kind, buf.pts) \in Nat
    BY <1>1, <2>1, RoomIs
  <2>3. Room(kind, buf.pts) = b - a
    BY DEF Room
  <2>4. QuerySnoopSize(kind) \in Nat
    BY DEF QuerySnoopSize
  <2>5. room = (b + QuerySnoopSize(kind)) - a
    BY DEF Size
  <2> DEFINE q == QuerySnoopSize(kind)
  <2> HIDE DEF room, a, b, q
  <2>6. b - a \in Nat
    BY <2>2, <2>3, Zenon
  <2>7. a \in Nat /\ b \in Nat /\ q \in Nat /\ room = (b + q) - a
    BY <2>2, <2>4, <2>5 DEF q
  <2> QED
    BY <2>6, <2>7
<1>5. /\ kind' = kind /\ token' = token
      /\ \/ /\ after \in 0 .. take
            /\ repacker' = SendIpack(Calm, cut)
            /\ buf' = [None EXCEPT !.open = TRUE]
            /\ rest' = SubSeq(all, after + 1, Len(all))
         \/ /\ repacker' = SendIpack(Calm, full)
            /\ buf' = [None EXCEPT !.open = TRUE]
            /\ rest' = SubSeq(all, take + 1, Len(all))
         \/ /\ repacker' = Calm /\ buf' = full /\ rest' = <<>>
    BY Zenon DEF WriteIpack
<1>6. before \in Int
    BY <1>1, BreakAtIs
<1> HIDE DEF all, room, before
<1>7. take \in Nat /\ take <= Len(all)
    BY <1>2, <1>3, <1>4, <1>6 DEF Least
<1> HIDE DEF take
<1>8. full \in Collected
  <2>1. SubSeq(all, 1, take) \in Seq(Octet)
    BY <1>3, <1>7, FrontIs
  <2> QED
    BY <1>1, <2>1, CollectedIs
<1> HIDE DEF after
<1>9. CASE /\ after \in 0 .. take
           /\ repacker' = SendIpack(Calm, cut)
           /\ buf' = [None EXCEPT !.open = TRUE]
           /\ rest' = SubSeq(all, after + 1, Len(all))
  <2>1. after \in Nat /\ after <= Len(all)
    BY <1>3, <1>7, <1>9
  <2>2. SubSeq(all, 1, after) \in Seq(Octet) /\ rest' \in Seq(Octet)
    BY <1>3, <1>9, <2>1, FrontIs, RestIs
  <2>3. cut \in Collected
    BY <1>1, <2>2, CollectedIs
  <2> HIDE DEF cut
  <2>4. Sound(kind', repacker')
    BY <1>5, <1>9, <2>3, SendSound, Zenon
  <2> QED
    BY <1>1, <1>5, <1>9, <2>2, <2>4, NothingCollected DEF RemuxInv
<1> HIDE DEF full
<1>10. CASE /\ repacker' = SendIpack(Calm, full)
            /\ buf' = [None EXCEPT !.open = TRUE]
            /\ rest' = SubSeq(all, take + 1, Len(all))
  <2>1. rest' \in Seq(Octet)
    BY <1>3, <1>7, <1>10, RestIs
  <2>2. Sound(kind', repacker')
    BY <1>5, <1>8, <1>10, SendSound, Zenon
  <2> QED
    BY <1>1, <1>5, <1>10, <2>1, <2>2, NothingCollected DEF RemuxInv
<1>11. CASE repacker' = Calm /\ buf' = full /\ rest' = <<>>
  <2>1. rest' \in Seq(Octet)
    BY <1>11
  <2>2. Sound(kind', repacker')
    BY <1>5, <1>11, CalmSound, Zenon
  <2> QED
    BY <1>1, <1>5, <1>8, <1>11, <2>1, <2>2 DEF RemuxInv
<1> QED
    BY <1>5, <1>9, <1>10, <1>11

LEMMA RemuxSteps == RemuxInv /\ [RemuxNext]_remuxVars => RemuxInv'
<1> SUFFICES ASSUME RemuxInv, [RemuxNext]_remuxVars PROVE RemuxInv'
    OBVIOUS
<1>1. CASE Payload
    BY <1>1, PayloadInv
<1>2. CASE PayloadRest
    BY <1>2, PayloadRestInv
<1>3. CASE WriteIpack
    BY <1>3, WriteIpackInv
<1>4. CASE EndPes
    BY <1>4, EndPesInv
<1>5. CASE PesStart
    BY <1>5, PesStartInv
<1>6. CASE Clear
    BY <1>6, ClearInv
<1>7. CASE UNCHANGED remuxVars
    BY <1>7 DEF RemuxInv, remuxVars
<1> QED
    BY <1>1, <1>2, <1>3, <1>4, <1>5, <1>6, <1>7 DEF RemuxNext

LEMMA SoundFits == RemuxInv => PacketsFit
<1> SUFFICES ASSUME RemuxInv, NEW i \in 1 .. Len(repacker.out)
             PROVE  /\ repacker.out[i].body # <<>>
                    /\ HeaderSize[repacker.out[i].pts] + Len(repacker.out[i].body)
                         <= MaxPacketSize[kind]
    BY DEF PacketsFit
<1> DEFINE p == repacker.out[i]
<1>1. kind \in Kinds /\ repacker \in Repacker /\ AllFit(kind, repacker.out)
    BY DEF RemuxInv, Sound, Basic
<1>2. p \in Packet
  <2>1. repacker.out \in Seq(Packet)
    BY <1>1, FieldsAre
  <2> QED
    BY <2>1
<1>3. Fit(kind, p)
    BY <1>1 DEF AllFit
<1> HIDE DEF p
<1>4. p.pts \in BOOLEAN
    BY <1>2 DEF Packet
<1>5. p.body \in Seq(Octet)
    BY <1>2 DEF Packet
<1>6. Len(p.body) \in Nat
    BY <1>5, LenProperties
<1> DEFINE a == HeaderSize[p.pts]
           b == MaxPacketSize[kind]
           l == Len(p.body)
<1>7. a \in Nat /\ b \in Nat
    BY <1>1, <1>4, RoomIs
<1>8. p.body # <<>> /\ l <= b - a
    BY <1>3 DEF Fit, Room
<1> HIDE DEF a, b, l
<1>9. a + l <= b
    BY <1>6, <1>7, <1>8 DEF l
<1> QED
    BY <1>8, <1>9 DEF a, b, l, p

(* Whatever bytes come in, cut into PES and TS packets anywhere, no packet *)
(* that a repacker puts out is empty or larger than it may be.             *)
THEOREM PacketsAreWithin == RemuxSpec => []PacketsFit
<1>1. RemuxInit => RemuxInv
    BY RemuxStarts
<1>2. RemuxInv /\ [RemuxNext]_remuxVars => RemuxInv'
    BY RemuxSteps
<1>3. RemuxInv => PacketsFit
    BY SoundFits
<1> QED
    BY <1>1, <1>2, <1>3, PTL DEF RemuxSpec
=============================================================================
