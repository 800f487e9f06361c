------------------------- MODULE LiveStreamer_proofs -------------------------
(***************************************************************************)
(* Of live streamers. What a VTP client is told of its pids is true, for   *)
(* any number of slots, any pids and any content of the unwritten array.   *)
(* A receiver is attached to the device its streamer has, for every number *)
(* of streamers, devices and channels: neither the hook of the main        *)
(* thread, moving a streamer in the middle of its destructor, nor a change *)
(* of the channel leaves one behind.                                       *)
(***************************************************************************)
EXTENDS LivePids, LiveDevice, TLAPS

-----------------------------------------------------------------------------
(* The pids                                                                *)


ListOK ==
    /\ list.pid \in [0..MaxPids -> Nat] /\ list.num \in 0..MaxPids
    /\ \A i \in 0 .. list.num - 1 : list.pid[i] # 0
    /\ \A i, j \in 0 .. list.num - 1 : list.pid[i] = list.pid[j] => i = j
    /\ asked = Listed(list)

(* The array matters only once something was appended: then the receiver   *)
(* was built from it.                                                      *)
VtpInv ==
    TsPids =>
      /\ ListOK
      /\ list.num > 0 => receiver = Read(list.pid)
      /\ filters = [p \in PmtPids |-> 0] /\ air.pid \in PmtPids

(* Everything listed is read, whatever follows the list.                   *)
LEMMA ListedRead ==
    ASSUME ListOK
    PROVE  Listed(list) \subseteq Read(list.pid) \ NoReceiver
<1>1. MaxPids \in Nat /\ list.num \in 0..MaxPids
    BY PidsAssumption DEF PidsAssumption, ListOK
<1>2. ASSUME NEW i \in 0 .. list.num - 1
      PROVE  list.pid[i] \in Read(list.pid) \ NoReceiver
  <2>1. i \in 0 .. MaxPids - 1 /\ \A k \in 0..i : k \in 0 .. list.num - 1
    BY <1>1
  <2>2. \A k \in 0..i : list.pid[k] # 0
    BY <2>1 DEF ListOK
  <2>3. list.pid[i] \in Nat
    BY <1>1, <2>1 DEF ListOK
  <2> QED
    BY <2>1, <2>2, <2>3 DEF Read, NoReceiver
<1> QED
    BY <1>2 DEF Listed

LEMMA VtpImplies == VtpInv => AskedReceived
<1> SUFFICES ASSUME VtpInv, TsPids PROVE
        /\ asked = Listed(list)
        /\ \A i, j \in 0 .. list.num - 1 : list.pid[i] = list.pid[j] => i = j
        /\ asked \subseteq Received
    BY DEF AskedReceived
<1>1. ListOK
    BY DEF VtpInv
<1>2. asked \subseteq Received
  <2>1. CASE list.num > 0
    BY <1>1, <2>1, ListedRead DEF VtpInv, ListOK, Received
  <2>2. CASE ~(list.num > 0)
    <3>1. list.num = 0
        BY <1>1, <2>2, PidsAssumption DEF ListOK, PidsAssumption
    <3> QED
        BY <1>1, <3>1 DEF ListOK, Listed
  <2> QED
    BY <2>1, <2>2
<1> QED
    BY <1>1, <1>2 DEF ListOK

LEMMA InitVtp == PidsInit => VtpInv
<1> SUFFICES ASSUME PidsInit, TsPids PROVE
        /\ ListOK
        /\ list.num > 0 => receiver = Read(list.pid)
        /\ filters = [p \in PmtPids |-> 0] /\ air.pid \in PmtPids
    BY DEF VtpInv
<1>1. /\ list.pid \in [0..MaxPids -> Garbage] /\ list.num = 0 /\ asked = {}
      /\ filters = [p \in PmtPids |-> 0] /\ air.pid \in PmtPids
    BY DEF PidsInit
<1>2. MaxPids \in Nat /\ Garbage \subseteq Nat
    BY PidsAssumption DEF PidsAssumption
<1>3. list.pid \in [0..MaxPids -> Nat]
    BY <1>1, <1>2
<1> QED
    BY <1>1, <1>2, <1>3 DEF ListOK, Listed

(* SetPid(p, true) keeps the list, or appends the pid and a new end.       *)
LEMMA AddPidInv ==
    ASSUME ListOK, list.num > 0 => receiver = Read(list.pid),
           NEW p \in Nat, p # 0, AddPid(p)
    PROVE  ListOK' /\ (list.num > 0 => receiver = Read(list.pid))'
<1>1. MaxPids \in Nat /\ list.num \in 0..MaxPids
    BY PidsAssumption DEF PidsAssumption, ListOK
<1>2. CASE HasPid(list, p)
  <2>1. /\ asked' = asked \cup {p} /\ list' = list /\ receiver' = receiver
    BY <1>2 DEF AddPid
  <2>2. p \in Listed(list)
    BY <1>2 DEF HasPid, Listed
  <2>3. asked' = Listed(list)'
    BY <2>1, <2>2 DEF ListOK, Listed
  <2> QED
    BY <2>1, <2>3 DEF ListOK
<1>3. CASE ~HasPid(list, p) /\ list.num = MaxPids
  <2>1. list' = list /\ receiver' = receiver /\ asked' = asked
    BY <1>3 DEF AddPid
  <2> QED
    BY <2>1 DEF ListOK, Listed
<1>4. CASE ~HasPid(list, p) /\ list.num # MaxPids
  <2> DEFINE n == list.num
             a == [list.pid EXCEPT ![n] = p]
             b == [a EXCEPT ![n + 1] = 0]
  <2>1. n \in 0 .. MaxPids - 1 /\ n + 1 \in 0..MaxPids /\ n + 1 > 0
    BY <1>1, <1>4
  <2>2. /\ b \in [0..MaxPids -> Nat] /\ b[n] = p
        /\ \A i \in 0 .. n - 1 : b[i] = list.pid[i]
    <3>1. list.pid \in [0..MaxPids -> Nat] /\ n \in 0..MaxPids
        BY <2>1 DEF ListOK
    <3>2. /\ a \in [0..MaxPids -> Nat] /\ a[n] = p
          /\ \A i \in 0 .. n - 1 : a[i] = list.pid[i]
      <4>1. \A i \in 0 .. n - 1 : i # n /\ i \in 0..MaxPids
        BY <1>1, <2>1
      <4> HIDE DEF n
      <4> QED
        BY <3>1, <4>1
    <3> HIDE DEF a
    <3>3. /\ b \in [0..MaxPids -> Nat] /\ b[n] = a[n]
          /\ \A i \in 0 .. n - 1 : b[i] = a[i]
        BY SMTT(40), <1>1, <2>1, <3>2
    <3> QED
        BY <3>2, <3>3
  <2>3. /\ list' = [pid |-> b, num |-> n + 1]
        /\ receiver' = ReceiverFor(list') /\ asked' = asked \cup {p}
    BY <1>4 DEF AddPid, Append1, Terminated
  <2> HIDE DEF a, b
  <2>4. list'.pid = b /\ list'.num = n + 1
    BY <2>3
  <2>5. \A i \in 0..n : i = n \/ i \in 0 .. n - 1
    BY <2>1
  <2>6. \A i \in 0 .. n - 1 : list.pid[i] # p /\ list.pid[i] # 0
    BY <1>4 DEF HasPid, ListOK
  <2>7. \A i \in 0..n : b[i] # 0
    BY <2>2, <2>5, <2>6
  <2>8. ASSUME NEW i \in 0..n, NEW j \in 0..n, b[i] = b[j]
        PROVE  i = j
    BY ZenonT(40), <2>2, <2>5, <2>6, <2>8 DEF ListOK
  <2>9. {b[i] : i \in 0..n} = {list.pid[i] : i \in 0 .. n - 1} \cup {p}
    <3>1. \A i \in 0 .. n - 1 : i \in 0..n
        BY <2>1
    <3>2. n \in 0..n
        BY <2>1
    <3> QED
        BY SMTT(40), <2>2, <2>5, <3>1, <3>2
  <2>10. n + 1 - 1 = n
    BY <2>1
  <2>11. asked' = Listed(list)'
    BY SMTT(40), <2>3, <2>4, <2>9, <2>10 DEF ListOK, Listed
  <2>12. ListOK'
    BY SMTT(40), <2>1, <2>2, <2>4, <2>7, <2>8, <2>10, <2>11 DEF ListOK
  <2>13. receiver' = Read(list'.pid)
    BY <2>1, <2>3, <2>4 DEF ReceiverFor
  <2> QED
    BY <2>12, <2>13 DEF Read
<1> QED
    BY <1>2, <1>3, <1>4

(* SetPid(p, false) takes the pid out and closes the gap.                  *)
LEMMA DelPidInv ==
    ASSUME ListOK, NEW p, DelPid(p)
    PROVE  ListOK' /\ (list.num > 0 => receiver = Read(list.pid))'
<1>1. MaxPids \in Nat /\ list.num \in 0..MaxPids
    BY PidsAssumption DEF PidsAssumption, ListOK
<1>2. CASE ~HasPid(list, p)
  <2>1. list' = list /\ receiver' = ReceiverFor(list) /\ asked' = asked \ {p}
    BY <1>2 DEF DelPid
  <2>2. asked' = asked
    BY <1>2, <2>1 DEF HasPid, ListOK, Listed
  <2>3. ListOK'
    BY ZenonT(40), <2>1, <2>2 DEF ListOK, Listed
  <2>4. list.num > 0 => receiver' = Read(list.pid)
    BY <2>1 DEF ReceiverFor
  <2> QED
    BY <2>1, <2>3, <2>4 DEF Read
<1>3. CASE HasPid(list, p)
  <2> DEFINE n == list.num - 1
             x == CHOOSE i \in 0 .. list.num - 1 : list.pid[i] = p
             b == [i \in 0..MaxPids |-> IF i \in x .. list.num - 2
                                          THEN list.pid[i + 1] ELSE list.pid[i]]
  <2>1. x \in 0 .. list.num - 1 /\ list.pid[x] = p
    BY <1>3 DEF HasPid
  <2>2. /\ list' = [pid |-> b, num |-> n] /\ asked' = asked \ {p}
        /\ receiver' = ReceiverFor(list')
    BY <1>3 DEF DelPid, Removed
  <2> HIDE DEF x
  <2>3. n \in 0 .. MaxPids - 1 /\ x \in 0..n /\ list.num - 2 = n - 1
    BY <1>1, <2>1
  <2> DEFINE from(i) == IF i < x THEN i ELSE i + 1
  <2>4. ASSUME NEW i \in 0 .. n - 1
        PROVE  /\ b[i] = list.pid[from(i)]
               /\ from(i) \in 0..n /\ from(i) # x
    <3>1. i \in 0..MaxPids /\ (i \in x .. list.num - 2 <=> ~(i < x))
        BY <1>1, <2>3
    <3>2. b[i] = IF i \in x .. list.num - 2 THEN list.pid[i + 1]
                                           ELSE list.pid[i]
        BY <3>1
    <3>3. b[i] = list.pid[from(i)]
        BY <3>1, <3>2
    <3>4. from(i) \in 0..n /\ from(i) # x
        BY <2>3
    <3> QED
        BY <3>3, <3>4
  <2>5. b \in [0..MaxPids -> Nat]
    <3>1. \A i \in 0..MaxPids : i \in x .. list.num - 2 => i + 1 \in 0..MaxPids
        BY <1>1, <2>3
    <3> QED
        BY <3>1 DEF ListOK
  <2> HIDE DEF b
  <2>6. list'.pid = b /\ list'.num = n
    BY <2>2
  <2>7. \A i \in 0..n : list.pid[i] # 0
    BY DEF ListOK
  <2>8. \A i, j \in 0..n : list.pid[i] = list.pid[j] => i = j
    BY DEF ListOK
  <2>9. \A i \in 0 .. n - 1 : b[i] # 0
    BY <2>4, <2>7
  <2>10. ASSUME NEW i \in 0 .. n - 1, NEW j \in 0 .. n - 1, b[i] = b[j]
         PROVE  i = j
    <3>1. from(i) = from(j)
        BY <2>4, <2>8, <2>10
    <3> QED
        BY <2>3, <3>1
  <2>11. {b[i] : i \in 0 .. n - 1} = {list.pid[i] : i \in 0..n} \ {p}
    <3>1. ASSUME NEW i \in 0 .. n - 1
          PROVE  b[i] \in {list.pid[k] : k \in 0..n} \ {p}
        BY <2>1, <2>3, <2>4, <2>8
    <3>2. ASSUME NEW k \in 0..n, list.pid[k] # p
          PROVE  list.pid[k] \in {b[i] : i \in 0 .. n - 1}
      <4>1. k # x
        BY <2>1, <3>2
      <4>2. CASE k < x
        <5>1. k \in 0 .. n - 1 /\ from(k) = k
            BY <2>3, <4>2
        <5>2. b[k] = list.pid[k]
            BY <2>4, <5>1
        <5> QED
            BY <5>1, <5>2
      <4>3. CASE k > x
        <5>1. k - 1 \in 0 .. n - 1 /\ from(k - 1) = k
            BY <2>3, <4>3
        <5>2. b[k - 1] = list.pid[k]
            BY <2>4, <5>1
        <5> QED
            BY <5>1, <5>2
      <4> QED
        BY <2>3, <4>1, <4>2, <4>3
    <3> QED
        BY <3>1, <3>2
  <2>12. asked' = Listed(list)'
    BY ZenonT(40), <2>2, <2>6, <2>11 DEF ListOK, Listed
  <2>13. ListOK'
    <3>1. n \in 0..MaxPids
        BY <1>1, <2>3
    <3> HIDE DEF n
    <3> QED
        BY <2>5, <2>6, <2>9, <2>10, <2>12, <3>1 DEF ListOK
  <2>14. list'.num > 0 => receiver' = Read(list'.pid)
    BY <2>2, <2>6 DEF ReceiverFor
  <2> QED
    BY <2>13, <2>14 DEF Read
<1> QED
    BY <1>2, <1>3

(* No step changes the type of a stream.                                   *)
LEMMA TypeKept == [PidsNext]_pidsVars => type' = type
BY DEF PidsNext, pidsVars, SetChannelPids, SetChannelTs, Addp, Delp, Change, PatSeen,
   PmtVersionChanged, PmtFirstSeen, FilterUnchanged

LEMMA NextVtp == VtpInv /\ [PidsNext]_pidsVars => VtpInv'
<1> SUFFICES ASSUME VtpInv, [PidsNext]_pidsVars, TsPids
             PROVE  /\ ListOK'
                    /\ (list.num > 0 => receiver = Read(list.pid))'
                    /\ (filters = [p \in PmtPids |-> 0])'
                    /\ (air.pid \in PmtPids)'
    BY TypeKept, Zenon DEF VtpInv, TsPids
<1>1. /\ ListOK /\ (list.num > 0 => receiver = Read(list.pid))
      /\ filters = [p \in PmtPids |-> 0] /\ air.pid \in PmtPids
    BY DEF VtpInv
<1>2. filters[air.pid] = 0
    BY <1>1
<1>3. CASE UNCHANGED pidsVars
    BY <1>1, <1>3 DEF pidsVars, ListOK, Listed, Read
<1>4. CASE SetChannelPids
    BY <1>1, <1>4
    DEF SetChannelPids, FilterUnchanged, ListOK, Listed, Read
<1>5. ASSUME NEW p \in Pids, Addp(p)
      PROVE  ListOK' /\ (list.num > 0 => receiver = Read(list.pid))'
  <2>1. p \in Nat /\ p # 0
    BY PidsAssumption DEF PidsAssumption
  <2> QED
    BY <1>1, <1>5, <2>1, AddPidInv DEF Addp
<1>6. ASSUME NEW p \in Pids, Delp(p)
      PROVE  ListOK' /\ (list.num > 0 => receiver = Read(list.pid))'
    BY <1>1, <1>6, DelPidInv DEF Delp
<1>7. ASSUME NEW p \in Pids, Addp(p) \/ Delp(p)
      PROVE  filters' = filters /\ air' = air
    BY <1>7 DEF Addp, Delp, FilterUnchanged
<1>8. ~SetChannelTs /\ ~Change /\ ~PatSeen /\ ~PmtVersionChanged /\ ~PmtFirstSeen
    BY <1>2 DEF SetChannelTs, Change, PatSeen, PmtVersionChanged, PmtFirstSeen
<1> QED
    BY <1>1, <1>3, <1>4, <1>5, <1>6, <1>7, <1>8 DEF PidsNext, SetChannelPids,
       FilterUnchanged

-----------------------------------------------------------------------------

(* A pid answered with "220 Pid available" is received until it is deleted *)
(* (CmdADDP, CmdDELP, SetPid), for any number of pids and slots.           *)
THEOREM VtpPids == PidsSpec => []AskedReceived
<1>1. PidsInit => VtpInv
    BY InitVtp
<1>2. VtpInv /\ [PidsNext]_pidsVars => VtpInv'
    BY NextVtp
<1>3. VtpInv => AskedReceived
    BY VtpImplies
<1> QED
    BY <1>1, <1>2, <1>3, PTL DEF PidsSpec


-----------------------------------------------------------------------------
(* One streamer                                                            *)

(* AtItsDevice, of one streamer.                                           *)
Right(r) == r.recv \in Devices => r.exists /\ r.recv = r.dev

(* But for the receiver, and perhaps a writer that is done, nothing of     *)
(* what the invariant is about has changed.                                *)
Same(q, r) ==
    /\ q.exists = r.exists /\ q.thread = r.thread
    /\ q.ch = r.ch /\ q.dev = r.dev
    /\ r.writer = "none" => q.writer = "none"

LEMMA LoseKeeps ==
    ASSUME NEW r \in Streamer, NEW d
    PROVE  /\ Lose(r, d) \in Streamer /\ Same(Lose(r, d), r)
           /\ Lose(r, d).recv \in {r.recv, "idle"}
BY DEF Lose, Streamer, Same

LEMMA AttachKeeps ==
    ASSUME NEW r \in Streamer
    PROVE  /\ Attach(r) \in Streamer /\ Same(Attach(r), r)
           /\ Attach(r).recv \in {r.recv, r.dev}
           /\ Attach(r).recv # r.recv => Attach(r).recv = r.dev
BY DeviceAssumption DEF Attach, Streamer, Same

LEMMA DetachKeeps ==
    ASSUME NEW r \in Streamer
    PROVE  /\ Detach(r) \in Streamer /\ Same(Detach(r), r)
           /\ Detach(r).recv \in {r.recv, "idle"}
           /\ r.dev # None /\ r.recv = r.dev => Detach(r).recv = "idle"
BY DeviceAssumption DEF Detach, Streamer, Same

LEMMA SwitchLiveKeeps ==
    ASSUME NEW r \in Streamer, NEW v \in BOOLEAN
    PROVE  /\ [r EXCEPT !.switchLive = v] \in Streamer
           /\ Same([r EXCEPT !.switchLive = v], r)
           /\ [r EXCEPT !.switchLive = v].recv = r.recv
BY DEF Streamer, Same

LEMMA StartReceiverKeeps ==
    ASSUME NEW r \in Streamer
    PROVE  /\ StartReceiver(r) \in Streamer /\ Same(StartReceiver(r), r)
           /\ StartReceiver(r).recv \in {"idle", r.dev}
           /\ r.writer = "none" => StartReceiver(r).recv = "idle"
<1> DEFINE new == [r EXCEPT !.recv = "idle"]
<1>1. new \in Streamer /\ Same(new, r) /\ new.recv = "idle"
    BY DEF Streamer, Same
<1>2. /\ Attach(new) \in Streamer /\ Same(Attach(new), new)
      /\ Attach(new).recv \in {new.recv, new.dev}
    BY <1>1, AttachKeeps
<1> QED
    BY <1>1, <1>2 DEF StartReceiver, Same

-----------------------------------------------------------------------------
(* The invariant                                                           *)

(* A thread at work has a streamer, which exists, and the one that tunes a *)
(* device; the main thread does nothing but look for a device.             *)
WorkInv ==
    /\ \A t \in {"server", "main"} :
         /\ pc[t].at = "idle" => pc[t] = Idle
         /\ pc[t].at # "idle" => pc[t].s \in Streamers /\ str[pc[t].s].exists
         /\ pc[t].at = "switch" => pc[t].dev \in Devices
    /\ pc["main"].at \in Finding
    /\ \A s \in Streamers : str[s].exists => str[s].ch \in Channels

(* What the steps of the destructor have taken down stays down.            *)
StopInv ==
    LET at == pc["server"].at
        r  == str[pc["server"].s]
    IN /\ at \in {"writer", "receiver", "unsubscribe"} => ~r.thread
       /\ at \in {"receiver", "unsubscribe"} => r.writer = "none"
       /\ at = "unsubscribe" => r.recv \notin Devices

IInv == TypeOK /\ WorkInv /\ StopInv /\ AtItsDevice

-----------------------------------------------------------------------------
(* Steps that change at most the receivers that are lost                   *)

(* Receivers may be lost, the rest is as it was.                           *)
Kept(q) ==
    \A s \in Streamers : Same(q[s], str[s]) /\ q[s].recv \in {str[s].recv, "idle"}

(* A thread stays where it is, or goes on with a streamer that exists.     *)
Turn(q, t) ==
    \/ q = pc[t]
    \/ /\ q.at \notin {"writer", "receiver", "unsubscribe"}
       /\ q.at = "idle" => q = Idle
       /\ q.at # "idle" => q.s \in Streamers /\ str[q.s].exists
       /\ q.at = "switch" => q.dev \in Devices

LEMMA KeptInv ==
    ASSUME TypeOK, WorkInv, StopInv, AtItsDevice, Kept(str'),
           \A t \in {"server", "main"} : Turn(pc'[t], t),
           pc'["main"].at \in Finding
    PROVE  WorkInv' /\ StopInv' /\ AtItsDevice'
<1>1. \A s \in Streamers : Same(str'[s], str[s]) /\ str'[s].recv \in {str[s].recv, "idle"}
    BY DEF Kept
<1>2. WorkInv'
  <2>1. ASSUME NEW t \in {"server", "main"}
        PROVE  /\ pc'[t].at = "idle" => pc'[t] = Idle
               /\ pc'[t].at # "idle" => pc'[t].s \in Streamers /\ str[pc'[t].s].exists
               /\ pc'[t].at = "switch" => pc'[t].dev \in Devices
    BY DEF WorkInv, Turn
  <2>2. \A s \in Streamers : str'[s].exists = str[s].exists /\ str'[s].ch = str[s].ch
    BY <1>1 DEF Same
  <2> QED
    BY <2>1, <2>2 DEF WorkInv
<1>3. StopInv'
  <2>1. CASE pc'["server"] # pc["server"]
    BY <2>1 DEF StopInv, Turn, Idle
  <2>2. CASE pc'["server"] = pc["server"] /\ pc["server"].at = "idle"
    BY <2>2 DEF StopInv
  <2>3. CASE pc'["server"] = pc["server"] /\ pc["server"].at # "idle"
    <3>1. pc["server"].s \in Streamers
      BY <2>3 DEF WorkInv
    <3> QED
      BY <1>1, <2>3, <3>1, DeviceAssumption DEF StopInv, Same
  <2> QED
    BY <2>1, <2>2, <2>3
<1>4. AtItsDevice'
    BY <1>1, DeviceAssumption DEF AtItsDevice, Same
<1> QED
    BY <1>2, <1>3, <1>4

(* The receivers of a device that is tuned elsewhere are lost.             *)
LEMMA LostKept ==
    ASSUME TypeOK, NEW d, NEW b \in BOOLEAN,
           str' = [s \in Streamers |-> IF b THEN Lose(str[s], d) ELSE str[s]]
    PROVE  str' \in [Streamers -> Streamer] /\ Kept(str')
<1> SUFFICES ASSUME NEW s \in Streamers
             PROVE  /\ str'[s] \in Streamer /\ Same(str'[s], str[s])
                    /\ str'[s].recv \in {str[s].recv, "idle"}
    BY DEF Kept
<1>1. str[s] \in Streamer
    BY DEF TypeOK
<1>2. str'[s] = IF b THEN Lose(str[s], d) ELSE str[s]
    OBVIOUS
<1>3. Same(str[s], str[s])
    BY DEF Same
<1> QED
    BY <1>1, <1>2, <1>3, LoseKeeps

(* One streamer changes.                                                   *)
LEMMA OneKept ==
    ASSUME TypeOK, NEW s \in Streamers, NEW q \in Streamer, Same(q, str[s]),
           q.recv \in {str[s].recv, "idle"}, str' = [str EXCEPT ![s] = q]
    PROVE  str' \in [Streamers -> Streamer] /\ Kept(str')
<1>1. str \in [Streamers -> Streamer]
    BY DEF TypeOK
<1>2. \A x \in Streamers : str'[x] = IF x = s THEN q ELSE str[x]
    BY <1>1
<1>3. \A x \in Streamers : Same(str[x], str[x])
    BY DEF Same
<1> QED
    BY <1>1, <1>2, <1>3 DEF Kept

(* Types of the rest: a step that has these and KeptInv has IInv.          *)
RestTyped ==
    /\ tuned' \in [Devices -> {Tp[c] : c \in Channels}]
    /\ recording' \in [Devices -> Local \cup {IDLEPRIORITY}]
    /\ live' \in [dev : Devices, ch : Channels] /\ occupied' \subseteq Devices
    /\ pc' \in [{"server", "main"} ->
                  [at : Finding \cup Stopping \cup {"attach"},
                   s : Streamers \cup {None}, dev : Devices \cup {None}]]
    /\ tunes' \in 0..MaxTunes /\ events' \in 0..MaxEvents

LEMMA KeptStep ==
    ASSUME IInv, RestTyped, str' \in [Streamers -> Streamer], Kept(str'),
           \A t \in {"server", "main"} : Turn(pc'[t], t),
           pc'["main"].at \in Finding
    PROVE  IInv'
<1>1. TypeOK'
    BY DEF RestTyped, TypeOK
<1>2. WorkInv' /\ StopInv' /\ AtItsDevice'
    BY KeptInv DEF IInv
<1> QED
    BY <1>1, <1>2 DEF IInv

(* Of a step of VDR or a writer: the two threads stay where they are.      *)
LEMMA Aside ==
    ASSUME IInv, UNCHANGED pc
    PROVE  /\ \A t \in {"server", "main"} : Turn(pc'[t], t)
           /\ pc'["main"].at \in Finding
BY DEF IInv, WorkInv, Turn

LEMMA EventTyped ==
    ASSUME TypeOK, Event PROVE events' \in 0..MaxEvents
BY DeviceAssumption DEF TypeOK, Event

LEMMA RecordInv ==
    ASSUME IInv, NEW d \in Devices, NEW ch \in Channels, NEW p \in Local,
           Record(d, ch, p)
    PROVE  IInv'
<1>1. RestTyped
    BY EventTyped DEF IInv, TypeOK, Record, RestTyped
<1>2. str' \in [Streamers -> Streamer] /\ Kept(str')
  <2>1. Freed(d, ch) \in BOOLEAN
    BY DEF Freed
  <2> QED
    BY <2>1, LostKept DEF IInv, Record
<1> QED
    BY <1>1, <1>2, Aside, KeptStep DEF Record

LEMMA StrSame ==
    ASSUME TypeOK, UNCHANGED str
    PROVE  str' \in [Streamers -> Streamer] /\ Kept(str')
BY DEF TypeOK, Kept, Same

LEMMA EndsInv ==
    ASSUME IInv, NEW d \in Devices, RecordEnds(d) \/ OccupiedEnds(d)
    PROVE  IInv'
<1>1. RestTyped
    BY DEF IInv, TypeOK, RecordEnds, OccupiedEnds, RestTyped
<1> QED
    BY <1>1, StrSame, Aside, KeptStep DEF IInv, RecordEnds, OccupiedEnds

LEMMA DetachAllKeeps ==
    ASSUME TypeOK, NEW d \in Devices, NEW ch \in Channels, DetachAll(d, ch)
    PROVE  /\ str' \in [Streamers -> Streamer] /\ Kept(str')
           /\ recording' \in [Devices -> Local \cup {IDLEPRIORITY}]
<1>1. Freed(d, ch) \in BOOLEAN
    BY DEF Freed
<1>2. str' \in [Streamers -> Streamer] /\ Kept(str')
    BY <1>1, LostKept DEF DetachAll
<1> QED
    BY <1>2 DEF DetachAll, TypeOK

LEMMA ZapInv ==
    ASSUME IInv, NEW d \in Devices, NEW ch \in Channels, Zap(ch, d)
    PROVE  IInv'
<1>1. TypeOK /\ DetachAll(d, ch) /\ UNCHANGED <<occupied, pc, tunes>>
    BY DEF IInv, Zap
<1>2. RestTyped
    BY SMTT(40),
       <1>1, EventTyped, DetachAllKeeps DEF TypeOK, Zap, SwitchTo, RestTyped
<1> QED
    BY <1>1, <1>2, DetachAllKeeps, Aside, KeptStep

-----------------------------------------------------------------------------
(* Finding a device                                                        *)

LEMMA GetDeviceInv ==
    ASSUME IInv, NEW t \in {"server", "main"}, GetDevice(t)
    PROVE  IInv'
<1> DEFINE r == str[pc[t].s]
<1>1. TypeOK /\ WorkInv /\ pc[t].at = "get" /\ pc[t].at # "idle"
    BY DEF IInv, GetDevice
<1>2. pc[t].s \in Streamers /\ r.exists /\ r.ch \in Channels
    BY <1>1 DEF WorkInv
<1>3. CASE Go(t, "take") /\ UNCHANGED <<str, recording>>
  <2>1. RestTyped
    BY <1>1, <1>3 DEF TypeOK, Go, GetDevice, RestTyped, Finding
  <2>2. /\ \A u \in {"server", "main"} : Turn(pc'[u], u)
        /\ pc'["main"].at \in Finding
    BY <1>1, <1>2, <1>3 DEF TypeOK, WorkInv, Go, Turn, Finding
  <2> QED
    BY SMTT(40), <1>1, <1>3, <2>1, <2>2, StrSame, KeptStep
<1>4. ASSUME NEW d \in Devices, DetachAll(d, r.ch),
             pc' = [pc EXCEPT ![t].at = "switch", ![t].dev = d]
      PROVE  IInv'
  <2>1. /\ str' \in [Streamers -> Streamer] /\ Kept(str')
        /\ recording' \in [Devices -> Local \cup {IDLEPRIORITY}]
    BY SMTT(40), <1>1, <1>2, <1>4, DetachAllKeeps
  <2>2. RestTyped
    BY SMTT(40), <1>1, <1>4, <2>1 DEF TypeOK, GetDevice, RestTyped, Finding
  <2>3. /\ \A u \in {"server", "main"} : Turn(pc'[u], u)
        /\ pc'["main"].at \in Finding
    BY SMTT(40), <1>1, <1>2, <1>4 DEF TypeOK, WorkInv, Turn, Finding
  <2> QED
    BY <2>1, <2>2, <2>3, KeptStep
<1> QED
    BY <1>3, <1>4 DEF GetDevice, Provides

LEMMA SwitchDeviceInv ==
    ASSUME IInv, NEW t \in {"server", "main"}, SwitchDevice(t)
    PROVE  IInv'
<1> DEFINE s == pc[t].s
<1>1. TypeOK /\ WorkInv /\ pc[t].at = "switch" /\ pc[t].at # "idle"
    BY DEF IInv, SwitchDevice
<1>2. /\ s \in Streamers /\ str[s].exists /\ str[s].ch \in Channels
      /\ pc[t].dev \in Devices
    BY SMTT(40), <1>1 DEF WorkInv
<1>3. /\ \A u \in {"server", "main"} : Turn(pc'[u], u)
      /\ pc'["main"].at \in Finding
    BY SMTT(40), <1>1, <1>2 DEF TypeOK, WorkInv, SwitchDevice, Go, Turn, Finding
<1>4. str' \in [Streamers -> Streamer] /\ Kept(str')
  <2>1. CASE UNCHANGED str
    BY <1>1, <2>1, StrSame
  <2>2. ASSUME NEW b, str' = [str EXCEPT ![s].switchLive = @ \/ b]
        PROVE  str' \in [Streamers -> Streamer] /\ Kept(str')
    <3> DEFINE q == [str[s] EXCEPT !.switchLive = @ \/ b]
    <3>1. str[s] \in Streamer
      BY <1>1, <1>2 DEF TypeOK
    <3>2. (str[s].switchLive \/ b) \in BOOLEAN
      OBVIOUS
    <3>3. q \in Streamer /\ Same(q, str[s]) /\ q.recv = str[s].recv
      BY <3>1, <3>2, SwitchLiveKeeps
    <3>4. str' = [str EXCEPT ![s] = q]
      BY <2>2
    <3> HIDE DEF q
    <3> QED
      BY <1>1, <1>2, <3>3, <3>4, OneKept
  <2> QED
    BY <2>1, <2>2 DEF SwitchDevice
<1>5. RestTyped
  <2>1. events' \in 0..MaxEvents
    BY SMTT(40), <1>1, EventTyped DEF SwitchDevice, TypeOK
  <2>2. pc' \in [{"server", "main"} ->
                  [at : Finding \cup Stopping \cup {"attach"},
                   s : Streamers \cup {None}, dev : Devices \cup {None}]]
    BY SMTT(40), <1>1 DEF SwitchDevice, Go, TypeOK, Finding
  <2>3. /\ tuned' \in [Devices -> {Tp[c] : c \in Channels}]
        /\ occupied' \subseteq Devices
    BY <1>1, <1>2 DEF SwitchDevice, TypeOK
  <2> QED
    BY <1>1, <2>1, <2>2, <2>3 DEF SwitchDevice, TypeOK, RestTyped
<1> QED
    BY SMTT(40), <1>3, <1>4, <1>5, KeptStep

-----------------------------------------------------------------------------
(* The other steps that keep every streamer but for receivers that are     *)
(* lost                                                                    *)

LEMMA SetPriorityInv ==
    ASSUME IInv, NEW s \in Streamers, NEW p \in Priorities, SetPriority(s, p)
    PROVE  IInv'
<1> DEFINE q == [str[s] EXCEPT !.prio = p]
<1>1. TypeOK /\ str[s] \in Streamer
    BY DEF IInv, TypeOK
<1>2. q \in Streamer /\ Same(q, str[s]) /\ q.recv = str[s].recv
    BY <1>1 DEF Streamer, Same
<1>3. str' = [str EXCEPT ![s] = q]
    BY DEF SetPriority
<1>4. RestTyped
    BY <1>1, EventTyped DEF SetPriority, TypeOK, RestTyped
<1> HIDE DEF q
<1>5. str' \in [Streamers -> Streamer] /\ Kept(str')
    BY <1>1, <1>2, <1>3, OneKept
<1> QED
    BY <1>4, <1>5, Aside, KeptStep DEF SetPriority

LEMMA WriterDoneInv ==
    ASSUME IInv, NEW s \in Streamers, GiveUp(s) \/ Gone(s)
    PROVE  IInv'
<1> DEFINE q == [str[s] EXCEPT !.writer = "done"]
<1>1. TypeOK /\ str[s] \in Streamer /\ WriterDone(s)
    BY DEF IInv, TypeOK, GiveUp, Gone
<1>2. q \in Streamer /\ Same(q, str[s]) /\ q.recv = str[s].recv
    BY <1>1 DEF Streamer, Same, WriterDone
<1>3. str' = [str EXCEPT ![s] = q]
    BY <1>1 DEF WriterDone
<1>4. RestTyped
    BY <1>1, EventTyped DEF WriterDone, GiveUp, Gone, TypeOK, RestTyped
<1> HIDE DEF q
<1>5. str' \in [Streamers -> Streamer] /\ Kept(str')
    BY <1>1, <1>2, <1>3, OneKept
<1> QED
    BY <1>1, <1>4, <1>5, Aside, KeptStep DEF WriterDone

LEMMA StopInvKept ==
    ASSUME IInv, NEW s \in Streamers, NEW at \in {"abrt", "detach"},
           (Event \/ UNCHANGED events), Stop(s, at)
    PROVE  IInv'
<1>1. TypeOK /\ WorkInv
    BY DEF IInv
<1>2. RestTyped
    BY <1>1, EventTyped DEF Stop, TypeOK, RestTyped, Stopping
<1>3. /\ \A t \in {"server", "main"} : Turn(pc'[t], t)
      /\ pc'["main"].at \in Finding
    BY <1>1 DEF TypeOK, WorkInv, Stop, Turn, Finding
<1> QED
    BY <1>1, <1>2, <1>3, StrSame, KeptStep DEF Stop

LEMMA ProvInv ==
    ASSUME IInv, NEW s \in Streamers, Prov(s)
    PROVE  IInv'
<1>1. TypeOK /\ WorkInv /\ str[s] \in Streamer
    BY DEF IInv, TypeOK
<1>2. RestTyped
    BY <1>1, EventTyped DEF Prov, TypeOK, RestTyped, Stopping
<1>3. /\ \A t \in {"server", "main"} : Turn(pc'[t], t)
      /\ pc'["main"].at \in Finding
    BY <1>1 DEF TypeOK, WorkInv, Prov, Turn, Finding
<1>4. str' = [str EXCEPT ![s] = Detach(str[s])]
    BY DEF Prov
<1>5. str' \in [Streamers -> Streamer] /\ Kept(str')
    BY <1>1, <1>4, DetachKeeps, OneKept
<1> QED
    BY <1>2, <1>3, <1>5, KeptStep

LEMMA MainThreadHookInv ==
    ASSUME IInv, NEW s \in Streamers, MainThreadHook(s)
    PROVE  IInv'
<1>1. TypeOK /\ WorkInv
    BY DEF IInv
<1>2. RestTyped
    BY <1>1 DEF MainThreadHook, TypeOK, RestTyped, Finding
<1>3. /\ \A t \in {"server", "main"} : Turn(pc'[t], t)
      /\ pc'["main"].at \in Finding
    BY <1>1 DEF TypeOK, WorkInv, MainThreadHook, Turn, Finding
<1> QED
    BY <1>1, <1>2, <1>3, StrSame, KeptStep DEF MainThreadHook

LEMMA MoveLiveInv ==
    ASSUME IInv, NEW s \in Streamers, MoveLive(s)
    PROVE  IInv'
<1>1. TypeOK /\ WorkInv /\ str \in [Streamers -> Streamer] /\ str[s].exists
    BY DEF IInv, TypeOK, MoveLive
<1>2. /\ pc' = pc /\ tunes' = tunes /\ events' = events
      /\ occupied' = occupied \ {str[s].dev}
    BY DEF MoveLive
<1>3. str[s].ch \in Channels /\ str[s].dev \in Devices \cup {None}
    BY <1>1 DEF WorkInv, Streamer
<1>4. ASSUME NEW f \in [Streamers -> Streamer],
             \A x \in Streamers : Same(f[x], str[x]) /\ f[x].recv \in {str[x].recv, "idle"},
             str' = [f EXCEPT ![s].switchLive = FALSE]
      PROVE  str' \in [Streamers -> Streamer] /\ Kept(str')
  <2> DEFINE q == [f[s] EXCEPT !.switchLive = FALSE]
  <2>1. f[s] \in Streamer
    OBVIOUS
  <2>2. q \in Streamer /\ Same(q, f[s]) /\ q.recv = f[s].recv
    BY <2>1, SwitchLiveKeeps
  <2>3. str' = [f EXCEPT ![s] = q]
    BY <1>4
  <2>4. Same(f[s], str[s]) /\ f[s].recv \in {str[s].recv, "idle"}
    BY <1>4
  <2> HIDE DEF q
  <2>5. Same(q, str[s]) /\ q.recv \in {str[s].recv, "idle"}
    BY <2>2, <2>4 DEF Same
  <2>6. \A x \in Streamers : str'[x] = IF x = s THEN q ELSE f[x]
    BY <2>3
  <2>7. str' \in [Streamers -> Streamer]
    BY <2>2, <2>3
  <2> QED
    BY <1>4, <2>5, <2>6, <2>7 DEF Kept
<1>5. CASE \E d \in Devices \ occupied :
            /\ SwitchTo(live.ch, d)
            /\ str' = [[x \in Streamers |->
                  IF Freed(d, live.ch) THEN Lose(str[x], d) ELSE str[x]]
                    EXCEPT ![s].switchLive = FALSE]
            /\ recording' = [recording EXCEPT
                 ![d] = IF Freed(d, live.ch) THEN IDLEPRIORITY ELSE @]
  <2>1. PICK d \in Devices \ occupied :
            /\ SwitchTo(live.ch, d)
            /\ str' = [[x \in Streamers |->
                  IF Freed(d, live.ch) THEN Lose(str[x], d) ELSE str[x]]
                    EXCEPT ![s].switchLive = FALSE]
            /\ recording' = [recording EXCEPT
                 ![d] = IF Freed(d, live.ch) THEN IDLEPRIORITY ELSE @]
    BY <1>5
  <2> DEFINE f == [x \in Streamers |->
                  IF Freed(d, live.ch) THEN Lose(str[x], d) ELSE str[x]]
  <2>2. \A x \in Streamers : Lose(str[x], d) \in Streamer
           /\ Same(Lose(str[x], d), str[x]) /\ Lose(str[x], d).recv \in {str[x].recv, "idle"}
    BY <1>1, LoseKeeps
  <2>3. \A x \in Streamers : Same(str[x], str[x])
    BY DEF Same
  <2>4. f \in [Streamers -> Streamer]
    BY <1>1, <2>2
  <2>5. \A x \in Streamers : Same(f[x], str[x]) /\ f[x].recv \in {str[x].recv, "idle"}
    BY <2>2, <2>3
  <2>6. str' \in [Streamers -> Streamer] /\ Kept(str')
    <3>1. str' = [f EXCEPT ![s].switchLive = FALSE]
      BY <2>1
    <3> HIDE DEF f
    <3> QED
      BY <1>4, <2>4, <2>5, <3>1
  <2>7. RestTyped
    BY <1>1, <1>2, <2>1 DEF SwitchTo, TypeOK, RestTyped
  <2> QED
    BY <1>2, <2>6, <2>7, Aside, KeptStep
<1>6. CASE /\ live' = [dev |-> IF str[s].dev = None THEN live.dev ELSE str[s].dev,
                       ch |-> str[s].ch]
           /\ str' = [str EXCEPT ![s].switchLive = FALSE]
           /\ UNCHANGED <<tuned, recording>>
  <2>1. \A x \in Streamers : Same(str[x], str[x])
    BY DEF Same
  <2>2. str' \in [Streamers -> Streamer] /\ Kept(str')
    BY <1>1, <1>4, <1>6, <2>1
  <2>3. RestTyped
    BY <1>1, <1>2, <1>3, <1>6 DEF TypeOK, RestTyped
  <2> QED
    BY <1>2, <2>2, <2>3, Aside, KeptStep
<1> QED
    BY <1>5, <1>6 DEF MoveLive

-----------------------------------------------------------------------------
(* Steps that attach a receiver                                            *)

(* What is down of a streamer in its destructor stays down.                *)
Down(q) ==
    LET at == pc["server"].at
    IN /\ at \in {"writer", "receiver", "unsubscribe"} => ~q.thread
       /\ at \in {"receiver", "unsubscribe"} =>
            q.writer = "none" /\ q.recv \notin Devices

(* The streamer s is changed, and others may lose their receivers.         *)
LEMMA OneInv ==
    ASSUME IInv, RestTyped, NEW s \in Streamers, str' \in [Streamers -> Streamer],
           \A x \in Streamers \ {s} :
              Same(str'[x], str[x]) /\ str'[x].recv \in {str[x].recv, "idle"},
           str'[s].exists = str[s].exists, str'[s].ch = str[s].ch, Right(str'[s]),
           pc["server"].s = s => Down(str'[s]),
           \A t \in {"server", "main"} : Turn(pc'[t], t),
           pc'["main"].at \in Finding
    PROVE  IInv'
<1>1. TypeOK /\ WorkInv /\ StopInv /\ AtItsDevice
    BY DEF IInv
<1>2. TypeOK'
    BY DEF RestTyped, TypeOK
<1>3. WorkInv'
  <2>1. ASSUME NEW t \in {"server", "main"}
        PROVE  /\ pc'[t].at = "idle" => pc'[t] = Idle
               /\ pc'[t].at # "idle" => pc'[t].s \in Streamers /\ str[pc'[t].s].exists
               /\ pc'[t].at = "switch" => pc'[t].dev \in Devices
    BY <1>1 DEF WorkInv, Turn
  <2>2. \A x \in Streamers : str'[x].exists = str[x].exists /\ str'[x].ch = str[x].ch
    BY DEF Same
  <2> QED
    BY <1>1, <2>1, <2>2 DEF WorkInv
<1>4. StopInv'
  <2>1. CASE pc'["server"] # pc["server"]
    BY <2>1 DEF StopInv, Turn, Idle
  <2>2. CASE pc'["server"] = pc["server"] /\ pc["server"].at = "idle"
    BY <2>2 DEF StopInv
  <2>3. CASE pc'["server"] = pc["server"] /\ pc["server"].s = s
    BY <2>3 DEF StopInv, Down
  <2>4. CASE /\ pc'["server"] = pc["server"] /\ pc["server"].at # "idle"
             /\ pc["server"].s # s
    <3>1. pc["server"].s \in Streamers \ {s}
      BY <1>1, <2>4 DEF WorkInv
    <3> QED
      BY <1>1, <2>4, <3>1, DeviceAssumption DEF StopInv, Same
  <2> QED
    BY <2>1, <2>2, <2>3, <2>4
<1>5. AtItsDevice'
  <2>1. \A x \in Streamers \ {s} : Right(str'[x])
    BY <1>1, DeviceAssumption DEF AtItsDevice, Same, Right
  <2> QED
    BY <2>1 DEF AtItsDevice, Right
<1> QED
    BY <1>2, <1>3, <1>4, <1>5 DEF IInv

(* The same, of a step that changes no other.                              *)
LEMMA OnlyInv ==
    ASSUME IInv, RestTyped, NEW s \in Streamers, NEW q \in Streamer,
           str' = [str EXCEPT ![s] = q],
           q.exists = str[s].exists, q.ch = str[s].ch, Right(q),
           pc["server"].s = s => Down(q),
           \A t \in {"server", "main"} : Turn(pc'[t], t),
           pc'["main"].at \in Finding
    PROVE  IInv'
<1>1. str \in [Streamers -> Streamer]
    BY DEF IInv, TypeOK
<1>2. str' \in [Streamers -> Streamer] /\ str'[s] = q
      /\ \A x \in Streamers \ {s} : str'[x] = str[x]
    BY <1>1
<1>3. \A x \in Streamers \ {s} :
         Same(str'[x], str[x]) /\ str'[x].recv \in {str[x].recv, "idle"}
    BY <1>2 DEF Same
<1> QED
    BY <1>2, <1>3, OneInv

LEMMA TunedInv ==
    ASSUME IInv, Tuned
    PROVE  IInv'
<1> DEFINE s == pc["server"].s
           d == pc["server"].dev
<1>1. TypeOK /\ WorkInv /\ pc["server"].at = "take"
    BY DEF IInv, Tuned
<1>2. s \in Streamers /\ str[s].exists /\ str[s] \in Streamer
      /\ d \in Devices \cup {None}
    BY <1>1 DEF WorkInv, TypeOK
<1>3. /\ \A t \in {"server", "main"} : Turn(pc'[t], t)
      /\ pc'["main"].at \in Finding
  <2>1. pc' = [pc EXCEPT !["server"].at = "detach"]
        \/ pc' = [pc EXCEPT !["server"] = Idle]
    BY DEF Tuned, Go
  <2>2. pc["main"].at \in Finding /\ pc'["main"] = pc["main"]
    BY <1>1, <2>1 DEF TypeOK, WorkInv
  <2>3. pc'["server"] = Idle
        \/ pc'["server"] = [pc["server"] EXCEPT !.at = "detach"]
    BY <1>1, <2>1 DEF TypeOK
  <2>4. Turn(pc'["server"], "server")
    BY <1>1, <1>2, <2>3 DEF TypeOK, Turn, Idle
  <2> QED
    BY <2>2, <2>4 DEF Turn
<1>4. RestTyped
  <2>1. pc' = [pc EXCEPT !["server"].at = "detach"]
        \/ pc' = [pc EXCEPT !["server"] = Idle]
    BY DEF Tuned, Go
  <2> DEFINE Place == [at : Finding \cup Stopping \cup {"attach"},
                       s : Streamers \cup {None}, dev : Devices \cup {None}]
  <2>2. pc' \in [{"server", "main"} -> Place]
    <3>1. pc \in [{"server", "main"} -> Place] /\ pc["server"] \in Place
      BY <1>1 DEF TypeOK
    <3>2. Idle \in Place
      BY DEF Idle, Finding
    <3>3. [pc["server"] EXCEPT !.at = "detach"] \in Place
      BY <3>1 DEF Stopping
    <3> HIDE DEF Place
    <3> QED
      BY <2>1, <3>1, <3>2, <3>3
  <2> QED
    BY <1>1, <2>2 DEF TypeOK, Tuned, RestTyped
<1>5. CASE UNCHANGED str
    BY <1>1, <1>3, <1>4, <1>5, StrSame, KeptStep
<1>6. CASE str' = [str EXCEPT ![s] = StartReceiver([@ EXCEPT !.dev = d])]
  <2> DEFINE r == [str[s] EXCEPT !.dev = d]
             q == StartReceiver(r)
  <2>1. r \in Streamer /\ r.exists = str[s].exists /\ r.ch = str[s].ch
    BY <1>2 DEF Streamer
  <2>2. str' = [str EXCEPT ![s] = q]
    BY <1>6
  <2> HIDE DEF r
  <2>3. /\ q \in Streamer /\ q.exists = str[s].exists /\ q.ch = str[s].ch
        /\ q.dev = r.dev /\ q.recv \in {"idle", r.dev}
    BY <2>1, StartReceiverKeeps DEF Same
  <2> HIDE DEF q
  <2>4. Right(q)
    BY <1>2, <2>3, DeviceAssumption DEF Right
  <2>5. Down(q)
    BY <1>1 DEF Down
  <2> QED
    BY <1>2, <1>3, <1>4, <2>2, <2>3, <2>4, <2>5, OnlyInv
<1> QED
    BY <1>5, <1>6 DEF Tuned

LEMMA StartInv ==
    ASSUME IInv, NEW s \in Streamers, Start(s)
    PROVE  IInv'
<1> DEFINE r == [str[s] EXCEPT !.writer = "active", !.thread = TRUE]
           q == Attach(r)
<1>1. TypeOK /\ AtItsDevice /\ str[s] \in Streamer /\ str[s].exists
      /\ pc["server"] = Idle /\ UNCHANGED pc
    BY DEF IInv, TypeOK, Start, ServerIdle
<1>2. r \in Streamer /\ r.exists = str[s].exists /\ r.ch = str[s].ch
      /\ r.dev = str[s].dev /\ r.recv = str[s].recv
    BY <1>1 DEF Streamer
<1>3. str' = [str EXCEPT ![s] = q]
    BY DEF Start
<1>4. RestTyped
    BY <1>1 DEF TypeOK, Start, RestTyped
<1> HIDE DEF r
<1>5. /\ q \in Streamer /\ q.exists = str[s].exists /\ q.ch = str[s].ch
      /\ q.dev = r.dev /\ q.recv \in {r.recv, r.dev}
    BY <1>2, AttachKeeps DEF Same
<1> HIDE DEF q
<1>6. Right(q)
    BY <1>1, <1>2, <1>5 DEF Right, AtItsDevice
<1>7. Down(q)
    BY <1>1 DEF Down, Idle
<1> QED
    BY <1>1, <1>3, <1>4, <1>5, <1>6, <1>7, Aside, OnlyInv

LEMMA ProvidedInv ==
    ASSUME IInv, Provided
    PROVE  IInv'
<1> DEFINE s == pc["server"].s
           q == Attach(str[s])
<1>1. TypeOK /\ WorkInv /\ AtItsDevice /\ pc["server"].at = "attach"
    BY DEF IInv, Provided
<1>2. s \in Streamers /\ str[s].exists /\ str[s] \in Streamer
    BY <1>1 DEF WorkInv, TypeOK
<1>3. /\ \A t \in {"server", "main"} : Turn(pc'[t], t)
      /\ pc'["main"].at \in Finding
    BY <1>1, <1>2 DEF TypeOK, WorkInv, Provided, Turn, Finding, Idle
<1>4. RestTyped
    BY <1>1 DEF TypeOK, Provided, RestTyped, Finding, Idle
<1>5. str' = [str EXCEPT ![s] = q]
    BY DEF Provided
<1>6. /\ q \in Streamer /\ q.exists = str[s].exists /\ q.ch = str[s].ch
      /\ q.dev = str[s].dev /\ q.recv \in {str[s].recv, str[s].dev}
    BY <1>2, AttachKeeps DEF Same
<1> HIDE DEF q
<1>7. Right(q)
    BY <1>1, <1>2, <1>6 DEF Right, AtItsDevice
<1>8. Down(q)
    BY <1>1 DEF Down
<1> QED
    BY <1>2, <1>3, <1>4, <1>5, <1>6, <1>7, <1>8, OnlyInv

(* Detach finds the receiver.                                              *)
LEMMA DetachOff ==
    ASSUME NEW r \in Streamer, Right(r)
    PROVE  Detach(r).recv \notin Devices
BY DetachKeeps, DeviceAssumption DEF Right, Streamer

(* Places of a thread.                                                     *)
Place == [at : Finding \cup Stopping \cup {"attach"},
          s : Streamers \cup {None}, dev : Devices \cup {None}]

LEMMA PcTyped ==
    ASSUME TypeOK, NEW t \in {"server", "main"}, NEW q \in Place,
           pc' = [pc EXCEPT ![t] = q]
    PROVE  pc' \in [{"server", "main"} -> Place] /\ pc'[t] = q
           /\ \A u \in {"server", "main"} \ {t} : pc'[u] = pc[u]
BY DEF TypeOK, Place

LEMMA IdlePlace == Idle \in Place
BY DEF Idle, Place, Finding

LEMMA ContinueInv ==
    ASSUME IInv, Continue
    PROVE  IInv'
<1> DEFINE s == pc["main"].s
           d == pc["main"].dev
<1>1. TypeOK /\ WorkInv /\ StopInv /\ AtItsDevice /\ pc["main"].at = "take"
    BY DEF IInv, Continue
<1>2. s \in Streamers /\ str[s].exists /\ str[s] \in Streamer
      /\ d \in Devices \cup {None}
    BY <1>1 DEF WorkInv, TypeOK
<1>3. pc' = [pc EXCEPT !["main"] = Idle]
    BY DEF Continue
<1>4. /\ \A t \in {"server", "main"} : Turn(pc'[t], t)
      /\ pc'["main"].at \in Finding
    BY <1>1, <1>3, PcTyped, IdlePlace DEF Turn, Finding, Idle
<1>5. RestTyped
  <2>1. pc' \in [{"server", "main"} -> Place]
    BY <1>1, <1>3, PcTyped, IdlePlace
  <2> QED
    BY <1>1, <2>1 DEF TypeOK, Continue, RestTyped, Place
<1>6. Right(str[s])
    BY <1>1, <1>2 DEF AtItsDevice, Right
<1>7. CASE str' = [str EXCEPT ![s] = StartReceiver([@ EXCEPT !.dev = d])]
  <2> DEFINE r == [str[s] EXCEPT !.dev = d]
             q == StartReceiver(r)
  <2>1. r \in Streamer /\ Same(r, [str[s] EXCEPT !.dev = d]) /\ r.dev = d
        /\ r.exists = str[s].exists /\ r.ch = str[s].ch
        /\ r.thread = str[s].thread /\ r.writer = str[s].writer
    BY <1>2 DEF Streamer, Same
  <2>2. str' = [str EXCEPT ![s] = q]
    BY <1>7
  <2> HIDE DEF r
  <2>3. /\ q \in Streamer /\ q.exists = str[s].exists /\ q.ch = str[s].ch
        /\ q.dev = r.dev /\ q.recv \in {"idle", r.dev}
        /\ q.thread = str[s].thread
        /\ str[s].writer = "none" => q.writer = "none" /\ q.recv = "idle"
    BY <2>1, StartReceiverKeeps DEF Same
  <2> HIDE DEF q
  <2>4. Right(q)
    BY <1>2, <2>3, DeviceAssumption DEF Right
  <2>5. pc["server"].s = s => Down(q)
    BY <1>1, <2>3, DeviceAssumption DEF Down, StopInv
  <2> QED
    BY <1>2, <1>4, <1>5, <2>2, <2>3, <2>4, <2>5, OnlyInv
<1>8. CASE str' = [str EXCEPT ![s] =
                     [Detach(@) EXCEPT !.thread = FALSE, !.writer = "none"]]
  <2> DEFINE r == Detach(str[s])
             q == [r EXCEPT !.thread = FALSE, !.writer = "none"]
  <2>1. r \in Streamer /\ Same(r, str[s]) /\ r.recv \notin Devices
    BY <1>2, <1>6, DetachKeeps, DetachOff
  <2>2. str' = [str EXCEPT ![s] = q]
    BY <1>8
  <2> HIDE DEF r
  <2>3. /\ q \in Streamer /\ q.exists = str[s].exists /\ q.ch = str[s].ch
        /\ q.recv \notin Devices /\ q.thread = FALSE /\ q.writer = "none"
    BY <2>1 DEF Same, Streamer
  <2> HIDE DEF q
  <2>4. Right(q) /\ Down(q)
    BY <2>3 DEF Right, Down
  <2> QED
    BY <1>2, <1>4, <1>5, <2>2, <2>3, <2>4, OnlyInv
<1> QED
    BY <1>7, <1>8 DEF Continue

LEMMA StopStepInv ==
    ASSUME IInv, StopStep
    PROVE  IInv'
<1> DEFINE at == pc["server"].at
           s == pc["server"].s
           q == str'[s]
           p == pc'["server"]
<1>1. /\ TypeOK /\ WorkInv /\ StopInv /\ AtItsDevice
      /\ at \in {"abrt", "abrt cancel", "abrt writer",
                "detach", "cancel", "writer", "receiver"}
    BY DEF IInv, StopStep
<1>2. s \in Streamers /\ str[s].exists /\ str[s] \in Streamer
      /\ str \in [Streamers -> Streamer] /\ pc["server"] \in Place
    BY ZenonT(40), <1>1 DEF WorkInv, TypeOK, Place
<1>3. /\ \A x \in Streamers \ {s} : str'[x] = str[x]
      /\ q \in Streamer /\ str' \in [Streamers -> Streamer]
      /\ q.exists = str[s].exists /\ q.ch = str[s].ch /\ q.dev = str[s].dev
      /\ q.recv \in {str[s].recv, "idle", "none"}
      /\ at = "cancel" => q.thread = FALSE
      /\ at = "writer" => q.thread = str[s].thread /\ q.writer = "none"
      /\ at = "receiver" => q.thread = str[s].thread /\ q.writer = str[s].writer
                              /\ q.recv = "none"
  <2>1. CASE at \in {"abrt", "detach"}
    <3>1. str' = [str EXCEPT ![s] = Detach(str[s])]
      BY <2>1 DEF StopStep
    <3> QED
      BY <1>2, <2>1, <3>1, DetachKeeps DEF Same
  <2>2. CASE at \in {"abrt cancel", "cancel"}
    <3>1. str' = [str EXCEPT ![s] = [str[s] EXCEPT !.thread = FALSE]]
      BY <2>2 DEF StopStep
    <3> QED
      BY ZenonT(40), <1>2, <2>2, <3>1 DEF Streamer
  <2>3. CASE at \in {"abrt writer", "writer"}
    <3>1. str' = [str EXCEPT ![s] = [str[s] EXCEPT !.writer = "none"]]
      BY <2>3 DEF StopStep
    <3> QED
      BY ZenonT(40), <1>2, <2>3, <3>1 DEF Streamer
  <2>4. CASE at = "receiver"
    <3>1. str' = [str EXCEPT ![s] = [str[s] EXCEPT !.recv = "none"]]
      BY <2>4 DEF StopStep
    <3> QED
      BY ZenonT(40), <1>2, <2>4, <3>1 DEF Streamer
  <2> QED
    BY <1>1, <2>1, <2>2, <2>3, <2>4
<1>4. /\ pc' \in [{"server", "main"} -> Place] /\ pc'["main"] = pc["main"]
      /\ at = "abrt writer" => p = Idle
      /\ at # "abrt writer" => p.s = s /\ p.at \in Stopping
      /\ p.at = "writer" => at = "cancel"
      /\ p.at = "receiver" => at = "writer"
      /\ p.at = "unsubscribe" => at = "receiver"
  <2>1. CASE at = "abrt writer"
    <3>1. pc' = [pc EXCEPT !["server"] = Idle]
      BY <2>1 DEF StopStep, Order
    <3> QED
      BY <1>1, <2>1, <3>1, PcTyped, IdlePlace DEF Idle
  <2>2. CASE at # "abrt writer"
    <3> DEFINE o == Order(at)
    <3>1. /\ o \in Stopping /\ o # "idle"
          /\ o = "writer" => at = "cancel"
          /\ o = "receiver" => at = "writer"
          /\ o = "unsubscribe" => at = "receiver"
      BY <1>1, <2>2 DEF Order, Stopping
    <3>2. pc' = [pc EXCEPT !["server"] = [pc["server"] EXCEPT !.at = o]]
      BY <3>1 DEF StopStep
    <3> HIDE DEF o
    <3>3. [pc["server"] EXCEPT !.at = o] \in Place
      BY <1>2, <3>1 DEF Place
    <3>4. pc'["server"] = [pc["server"] EXCEPT !.at = o]
          /\ pc' \in [{"server", "main"} -> Place] /\ pc'["main"] = pc["main"]
      BY <1>1, <3>2, <3>3, PcTyped
    <3>5. p.at = o /\ p.s = s
      BY SMTT(40), <1>2, <3>4 DEF Place
    <3> QED
      BY <2>2, <3>1, <3>4, <3>5
  <2> QED
    BY <2>1, <2>2
<1> HIDE DEF q, p
<1>5. TypeOK'
    BY <1>1, <1>3, <1>4 DEF TypeOK, StopStep, Place
<1>6. WorkInv'
  <2>1. \A x \in Streamers : str'[x].exists = str[x].exists /\ str'[x].ch = str[x].ch
    BY <1>3 DEF q
  <2>2. CASE at = "abrt writer"
    <3>1. p = Idle
      BY <1>4, <2>2
    <3>2. Idle.at = "idle"
      BY DEF Idle
    <3> QED
      BY ZenonT(40), <1>1, <1>4, <2>1, <3>1, <3>2 DEF WorkInv, p
  <2>3. CASE at # "abrt writer"
    <3>1. /\ p.at # "idle" /\ p.at # "switch"
          /\ p.s \in Streamers /\ str[p.s].exists
      BY <1>2, <1>4, <2>3 DEF Stopping
    <3> QED
      BY ZenonT(40), <1>1, <1>4, <2>1, <3>1 DEF WorkInv, p
  <2> QED
    BY <2>2, <2>3
<1>7. StopInv'
    BY <1>1, <1>3, <1>4, DeviceAssumption DEF StopInv, Idle, p, q
<1>8. AtItsDevice'
    BY ZenonT(40), <1>1, <1>3, DeviceAssumption DEF AtItsDevice, q
<1> QED
    BY <1>5, <1>6, <1>7, <1>8 DEF IInv

LEMMA ChannelChangeInv ==
    ASSUME IInv, NEW s \in Streamers, ChannelChange(s)
    PROVE  IInv'
<1> DEFINE r == str[s]
           e == Detach(r)
<1>1. /\ TypeOK /\ WorkInv /\ StopInv /\ AtItsDevice
      /\ str \in [Streamers -> Streamer] /\ r \in Streamer
      /\ r.exists /\ r.thread /\ Right(r) /\ Event
    BY DEF IInv, TypeOK, ChannelChange, AtItsDevice, Right
<1>2. UNCHANGED <<live, occupied, pc, tunes>>
    BY DEF ChannelChange
<1>3. /\ e \in Streamer /\ e.exists = r.exists /\ e.ch = r.ch
      /\ e.dev = r.dev /\ e.recv \notin Devices
    BY <1>1, DetachKeeps, DetachOff DEF Same
<1>4. ASSUME NEW q, pc["server"].s = s
      PROVE  Down(q)
    BY <1>1, <1>4 DEF StopInv, Down
<1> HIDE DEF e
<1>5. CASE str' = [str EXCEPT ![s] = e] /\ UNCHANGED <<tuned, recording>>
  <2>1. RestTyped
    BY <1>1, <1>2, <1>5, EventTyped DEF TypeOK, RestTyped
  <2>2. Right(e)
    BY <1>3 DEF Right
  <2> QED
    BY <1>2, <1>3, <1>4, <1>5, <2>1, <2>2, Aside, OnlyInv
<1>6. CASE str' = [str EXCEPT ![s] = [e EXCEPT !.dev = None]]
           /\ UNCHANGED <<tuned, recording>>
  <2> DEFINE q == [e EXCEPT !.dev = None]
  <2>1. RestTyped
    BY <1>1, <1>2, <1>6, EventTyped DEF TypeOK, RestTyped
  <2>2. /\ q \in Streamer /\ q.exists = r.exists /\ q.ch = r.ch
        /\ q.recv \notin Devices
    BY <1>3 DEF Streamer
  <2> HIDE DEF q
  <2>3. Right(q) /\ str' = [str EXCEPT ![s] = q]
    BY <1>6, <2>2 DEF Right, q
  <2> QED
    BY <1>2, <1>4, <2>1, <2>2, <2>3, Aside, OnlyInv
<1>7. ASSUME NEW d \in Devices, NEW ok \in BOOLEAN, NEW f,
             f = [x \in Streamers |->
                    IF x = s THEN [e EXCEPT !.dev = d]
                    ELSE IF Freed(d, r.ch) THEN Lose(str[x], d) ELSE str[x]],
             str' = IF ok THEN [f EXCEPT ![s] = Attach(@)] ELSE f,
             recording' = [recording EXCEPT
                    ![d] = IF Freed(d, r.ch) THEN IDLEPRIORITY ELSE @],
             tuned' = IF ok THEN [tuned EXCEPT ![d] = Tp[r.ch]] ELSE tuned
      PROVE  IInv'
  <2> DEFINE q == [e EXCEPT !.dev = d]
  <2>1. r.ch \in Channels
    BY <1>1 DEF WorkInv
  <2>2. RestTyped
    <3>1. events' \in 0..MaxEvents
      BY <1>1, EventTyped
    <3>2. tuned' \in [Devices -> {Tp[c] : c \in Channels}]
      BY <1>1, <1>7, <2>1 DEF TypeOK
    <3>3. recording' \in [Devices -> Local \cup {IDLEPRIORITY}]
      BY <1>1, <1>7 DEF TypeOK
    <3> QED
      BY <1>1, <1>2, <3>1, <3>2, <3>3 DEF TypeOK, RestTyped
  <2>3. /\ q \in Streamer /\ q.exists = r.exists /\ q.ch = r.ch
        /\ q.dev = d /\ q.recv \notin Devices
    BY <1>3 DEF Streamer
  <2>4. /\ Attach(q) \in Streamer /\ Attach(q).exists = r.exists
        /\ Attach(q).ch = r.ch /\ Attach(q).dev = d
        /\ Attach(q).recv \in {q.recv, d}
    BY <2>3, AttachKeeps DEF Same
  <2>5. Right(q) /\ Right(Attach(q))
    BY <1>1, <2>3, <2>4 DEF Right
  <2> HIDE DEF q
  <2>6. \A x \in Streamers :
           /\ str[x] \in Streamer
           /\ Lose(str[x], d) \in Streamer /\ Same(Lose(str[x], d), str[x])
           /\ Lose(str[x], d).recv \in {str[x].recv, "idle"}
    BY <1>1, LoseKeeps
  <2>7. \A x \in Streamers : Same(str[x], str[x])
    BY DEF Same
  <2>8. /\ f[s] = q
        /\ \A x \in Streamers \ {s} :
              f[x] = IF Freed(d, r.ch) THEN Lose(str[x], d) ELSE str[x]
    BY <1>7 DEF q
  <2>9. f \in [Streamers -> Streamer]
    BY <1>7, <2>3, <2>6 DEF q
  <2>10. /\ str'[s] \in {q, Attach(q)}
         /\ \A x \in Streamers \ {s} : str'[x] = f[x]
         /\ str' \in [Streamers -> Streamer]
    BY <1>7, <2>3, <2>4, <2>8, <2>9
  <2>11. \A x \in Streamers \ {s} :
            Same(str'[x], str[x]) /\ str'[x].recv \in {str[x].recv, "idle"}
    BY <2>6, <2>7, <2>8, <2>10
  <2>12. str'[s].exists = r.exists /\ str'[s].ch = r.ch /\ Right(str'[s])
    BY <2>3, <2>4, <2>5, <2>10
  <2> QED
    BY <1>2, <1>4, <2>2, <2>10, <2>11, <2>12, Aside, OneInv
<1> QED
    BY ZenonT(40), <1>5, <1>6, <1>7 DEF ChannelChange, Provides, e

-----------------------------------------------------------------------------
(* A streamer comes and goes                                               *)

LEMMA TuneInv ==
    ASSUME IInv, NEW s \in Streamers, NEW ch \in Channels, Tune(s, ch, First[s])
    PROVE  IInv'
<1> DEFINE q == [NoStreamer EXCEPT !.exists = TRUE, !.ch = ch, !.prio = First[s]]
           p == [at |-> "get", s |-> s, dev |-> None]
<1>1. /\ TypeOK /\ WorkInv /\ StopInv /\ AtItsDevice
      /\ str \in [Streamers -> Streamer] /\ ~str[s].exists
      /\ tunes \in 0..MaxTunes /\ tunes < MaxTunes /\ tunes' = tunes + 1
    BY DEF IInv, TypeOK, Tune
<1>2. /\ UNCHANGED <<tuned, recording, live, occupied, events>>
      /\ str' = [str EXCEPT ![s] = q] /\ pc' = [pc EXCEPT !["server"] = p]
    BY DEF Tune
<1>3. q \in Streamer /\ q.exists /\ q.ch = ch /\ q.recv = "none"
    BY DeviceAssumption DEF NoStreamer, Streamer
<1>4. p \in Place /\ p.at = "get" /\ p.s = s
    BY DEF Place, Finding
<1> HIDE DEF q, p
<1>5. /\ str' \in [Streamers -> Streamer] /\ str'[s] = q
      /\ \A x \in Streamers \ {s} : str'[x] = str[x]
    BY <1>1, <1>2, <1>3
<1>6. /\ pc' \in [{"server", "main"} -> Place] /\ pc'["server"] = p
      /\ pc'["main"] = pc["main"]
    BY <1>1, <1>2, <1>4, PcTyped
<1>7. TypeOK'
  <2>1. tunes' \in 0..MaxTunes
    BY <1>1, DeviceAssumption
  <2> QED
    BY <1>1, <1>2, <1>5, <1>6, <2>1 DEF TypeOK, Place
<1>8. WorkInv'
  <2>1. \A x \in Streamers : str[x].exists => x # s
    BY <1>1
  <2> QED
    BY <1>1, <1>3, <1>4, <1>5, <1>6, <2>1 DEF WorkInv
<1>9. StopInv'
    BY <1>4, <1>6 DEF StopInv
<1>10. AtItsDevice'
    BY <1>1, <1>3, <1>5, DeviceAssumption DEF AtItsDevice
<1> QED
    BY <1>7, <1>8, <1>9, <1>10 DEF IInv

LEMMA UnsubscribeInv ==
    ASSUME IInv, Unsubscribe
    PROVE  IInv'
<1> DEFINE s == pc["server"].s
           q == [str[s] EXCEPT !.exists = FALSE]
<1>1. /\ TypeOK /\ WorkInv /\ StopInv /\ AtItsDevice
      /\ pc["server"].at = "unsubscribe" /\ pc["main"] = Idle
      /\ str \in [Streamers -> Streamer]
    BY DEF IInv, TypeOK, Unsubscribe
<1>2. /\ UNCHANGED <<tuned, recording, live, occupied, tunes, events>>
      /\ str' = [str EXCEPT ![s] = q] /\ pc' = [pc EXCEPT !["server"] = Idle]
    BY DEF Unsubscribe
<1>3. s \in Streamers /\ str[s] \in Streamer /\ str[s].recv \notin Devices
    BY <1>1 DEF WorkInv, StopInv
<1>4. q \in Streamer /\ ~q.exists /\ q.recv = str[s].recv
    BY <1>3 DEF Streamer
<1> HIDE DEF q
<1>5. /\ str' \in [Streamers -> Streamer] /\ str'[s] = q
      /\ \A x \in Streamers \ {s} : str'[x] = str[x]
    BY <1>1, <1>2, <1>3, <1>4
<1>6. /\ pc' \in [{"server", "main"} -> Place] /\ pc'["server"] = Idle
      /\ pc'["main"] = Idle
    BY <1>1, <1>2, PcTyped, IdlePlace
<1>7. TypeOK'
    BY <1>1, <1>2, <1>5, <1>6 DEF TypeOK, Place
<1>8. Idle.at = "idle"
    BY DEF Idle
<1>9. WorkInv'
    BY <1>1, <1>4, <1>5, <1>6, <1>8 DEF WorkInv, Finding
<1>10. StopInv'
    BY <1>6, <1>8 DEF StopInv
<1>11. AtItsDevice'
    BY <1>1, <1>3, <1>4, <1>5 DEF AtItsDevice
<1> QED
    BY <1>7, <1>9, <1>10, <1>11 DEF IInv

-----------------------------------------------------------------------------
(* The theorems                                                            *)

LEMMA InitInv ==
    ASSUME Init
    PROVE  IInv
<1>1. NoStreamer \in Streamer /\ ~NoStreamer.exists /\ NoStreamer.recv = "none"
    BY DEF NoStreamer, Streamer
<1>2. Idle.at = "idle" /\ Idle \in Place
    BY IdlePlace DEF Idle
<1>3. TypeOK
    BY <1>1, <1>2, DeviceAssumption DEF Init, TypeOK, Place
<1>4. WorkInv
    BY <1>1, <1>2 DEF Init, WorkInv, Finding
<1>5. StopInv
    BY <1>2 DEF Init, StopInv
<1>6. AtItsDevice
    BY <1>1, DeviceAssumption DEF Init, AtItsDevice
<1> QED
    BY <1>3, <1>4, <1>5, <1>6 DEF IInv

LEMMA StepInv ==
    ASSUME IInv, [Next]_vars
    PROVE  IInv'
<1>1. CASE Vdr
    BY <1>1, ZapInv, RecordInv, EndsInv DEF Vdr
<1>2. CASE Server
    BY <1>2, SetPriorityInv, TuneInv, StartInv, ProvInv, StopInvKept DEF Server, Abort
<1>3. CASE Main
    BY <1>3, MainThreadHookInv, MoveLiveInv, ChannelChangeInv DEF Main
<1>4. ASSUME NEW t \in {"server", "main"}, Steps(t) PROVE IInv'
    BY <1>4, GetDeviceInv, SwitchDeviceInv, TunedInv, ProvidedInv, StopStepInv,
       UnsubscribeInv, ContinueInv DEF Steps
<1>5. CASE \E s \in Streamers : GiveUp(s) \/ Gone(s)
    BY <1>5, WriterDoneInv
<1>6. CASE UNCHANGED vars
    BY <1>6 DEF vars, IInv, TypeOK, WorkInv, StopInv, AtItsDevice, Idle
<1> QED
    BY <1>1, <1>2, <1>3, <1>4, <1>5, <1>6 DEF Next

THEOREM Inductive == Spec => []IInv
<1>1. Init => IInv
    BY InitInv
<1>2. IInv /\ [Next]_vars => IInv'
    BY StepInv
<1> QED
    BY <1>1, <1>2, PTL DEF Spec

(* The state of devices, streamers and threads is always well-formed:      *)
(* a thread that looks for a device has a streamer to give it to.          *)
THEOREM TypeCorrect == Spec => []TypeOK
<1>1. IInv => TypeOK
    BY DEF IInv
<1> QED
    BY <1>1, Inductive, PTL

(* A receiver is never left attached to a device that its streamer does    *)
(* not have, nor behind a streamer that was deleted: cStreamdevLiveStreamer*)
(* Detach, Stop and the destructor find every one, whatever the hook and   *)
(* the changes of the channel did in between.                              *)
THEOREM AlwaysAtItsDevice == Spec => []AtItsDevice
<1>1. IInv => AtItsDevice
    BY DEF IInv
<1> QED
    BY <1>1, Inductive, PTL

=============================================================================
