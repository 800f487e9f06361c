------------------------------ MODULE LivePids ------------------------------
(***************************************************************************)
(* The pids a live streamer receives (server/livestreamer.c): the array    *)
(* m_Pids with its terminating 0, the receiver built from it, the PAT/PMT  *)
(* filter that keeps a TS stream on the pids of its channel, and the VTP   *)
(* client's ADDP and DELP. Names are apart from those of LiveDevice: the   *)
(* two are extended together.                                              *)
(***************************************************************************)
EXTENDS Integers, Sequences, FiniteSets

CONSTANTS
    MaxPids,     \* MAXRECEIVEPIDS
    Pids,        \* pids of elementary streams, positive
    PmtPids,     \* pids a PMT may be sent on, positive
    SiPids,      \* the pids of SDT, TDT and EIT, in the code's order
    Garbage,     \* what m_Pids may hold before it is written
    Types,       \* stream types: "TSPIDS" is VTP's, "TS" that of HTTP
    ChannelPids, \* pids the channel list may have for the channel: sequences
    Ppid,        \* its PCR pid, 0 if that is the video pid
    Contents,    \* PMT contents: sequences of pids, the PCR pid first
    Versions,    \* PMT versions are numbers below this; 32 in the code
    MaxChange    \* bound: changes of the broadcast

ASSUME PidsAssumption ==
    /\ MaxPids \in Nat \ {0}
    /\ Pids \subseteq Nat \ {0} /\ PmtPids \subseteq Nat \ {0}
    /\ SiPids \in Seq(Nat \ {0}) /\ ChannelPids \subseteq Seq(Nat \ {0})
    /\ Contents \subseteq Seq(Nat \ {0})
    /\ Ppid \in Nat /\ Garbage \subseteq Nat
    /\ Types \subseteq {"TS", "TSPIDS"}
    /\ Versions \in Nat \ {0} /\ MaxChange \in Nat

VARIABLES
    list,       \* m_Pids and m_NumPids
    receiver,   \* the pids m_Receiver was given, NoReceiver if it is NULL
    asked,      \* history: the pids callers were told they get
    ready,      \* SetChannel has run
    pmtPid,     \* cStreamdevPatFilter::pmtPid
    pmtVersion, \* cStreamdevPatFilter::pmtVersion
    filters,    \* how often the filter is set to each PMT pid
    air,        \* what is broadcast: PMT pid, PMT version and content
    taken,      \* history: the PMT SetPids took last, NoPmt if anything that
                \* differs from it has been seen since
    changes,    \* how often the broadcast has changed
    type        \* m_StreamType

pidsVars == <<list, receiver, asked, ready, pmtPid, pmtVersion, filters, air,
              taken, changes, type>>

TsPids == type = "TSPIDS"

NoReceiver == {-1}
Received == receiver \ NoReceiver
Listed(l) == {l.pid[i] : i \in 0 .. l.num - 1}

NoPmt == [pid |-> 0, version |-> -1, content |-> <<>>]

(* AddPids reads up to the terminating 0, and takes MaxPids at most.       *)
Read(pid) == {pid[i] : i \in {j \in 0 .. MaxPids - 1 :
                                \A k \in 0..j : pid[k] # 0}}

HasPid(l, p) == \E i \in 0 .. l.num - 1 : l.pid[i] = p

Append1(l, p) ==
    IF HasPid(l, p)
      THEN l
      ELSE [pid |-> [l.pid EXCEPT ![l.num] = p], num |-> l.num + 1]

Terminated(l) == [pid |-> [l.pid EXCEPT ![l.num] = 0], num |-> l.num]

(* Slip: the move is one element short.                                    *)
RemovedShort(l, p) ==
    LET idx == CHOOSE i \in 0 .. l.num - 1 : l.pid[i] = p IN
    [pid |-> [i \in 0..MaxPids |-> IF i \in idx .. l.num - 3
                                     THEN l.pid[i + 1] ELSE l.pid[i]],
     num |-> l.num - 1]

(* memmove after --m_NumPids: the last pid and the 0 are not moved.        *)
Removed(l, p) ==
    LET idx == CHOOSE i \in 0 .. l.num - 1 : l.pid[i] = p IN
    [pid |-> [i \in 0..MaxPids |-> IF i \in idx .. l.num - 2
                                     THEN l.pid[i + 1] ELSE l.pid[i]],
     num |-> l.num - 1]

ReceiverFor(l) == IF l.num > 0 THEN Read(l.pid) ELSE NoReceiver

(* The list SetPids builds: each pid once, as long as there is room.       *)
Fresh(pids) == {i \in DOMAIN pids : \A j \in 1 .. i - 1 : pids[j] # pids[i]}
Nth(pids, k) ==
    pids[CHOOSE i \in Fresh(pids) : Cardinality(Fresh(pids) \cap 1..i) = k]
Built(pids) ==
    LET n == Cardinality(Fresh(pids))
        num == IF n < MaxPids THEN n ELSE MaxPids
    IN [pid |-> [i \in 0..MaxPids |->
                   IF i < num THEN Nth(pids, i + 1) ELSE list.pid[i]],
        num |-> num]

(* SetPids: the list is built anew; a full one gets no receiver.           *)
SetPids(pids) ==
    LET l == Built(pids) IN
    IF l.num = MaxPids
      THEN list' = l /\ UNCHANGED <<receiver, asked>>
      ELSE /\ list' = Terminated(l)
           /\ receiver' = ReceiverFor(Terminated(l))
           /\ asked' = Listed(l)

(* SetPid(p, true).                                                        *)
AddPid(p) ==
    IF HasPid(list, p)
      THEN asked' = asked \cup {p} /\ UNCHANGED <<list, receiver>>
    ELSE IF list.num = MaxPids
      THEN UNCHANGED <<list, receiver, asked>>
      ELSE /\ list' = Terminated(Append1(list, p))
           /\ receiver' = ReceiverFor(Terminated(Append1(list, p)))
           /\ asked' = asked \cup {p}

(* SetPid(p, false).                                                       *)
DelPid(p) ==
    LET l == IF HasPid(list, p) THEN Removed(list, p) ELSE list IN
    /\ list' = l
    /\ receiver' = ReceiverFor(l)
    /\ asked' = asked \ {p}

PidsInit ==
    /\ list \in [pid : [0..MaxPids -> Garbage], num : {0}]
    /\ receiver = NoReceiver /\ asked = {} /\ ready = FALSE
    /\ pmtPid = 0 /\ pmtVersion = -1
    /\ filters = [p \in PmtPids |-> 0]
    /\ air \in [pid : PmtPids, version : {0}, content : Contents]
    /\ taken = NoPmt /\ changes = 0
    /\ type \in Types

-----------------------------------------------------------------------------

FilterUnchanged == UNCHANGED <<pmtPid, pmtVersion, filters, air, taken,
                               changes, type>>

(* SetChannel of a VTP stream: a receiver, to occupy the device.           *)
SetChannelPids ==
    /\ ~ready /\ TsPids
    /\ ready' = TRUE
    /\ receiver' = Read(list.pid)
    /\ UNCHANGED <<list, asked>> /\ FilterUnchanged

(* SetChannel of a TS stream: SetPids, then SetPid for the PCR pid; their  *)
(* results are not looked at.                                              *)
SetChannelTs ==
    /\ ~ready /\ ~TsPids
    /\ ready' = TRUE
    /\ \E pids \in ChannelPids :
         LET l == Built(pids)
             m == IF Ppid = 0 THEN l ELSE Append1(l, Ppid)
         IN IF l.num = MaxPids
              THEN list' = l /\ UNCHANGED <<receiver, asked>>
              ELSE /\ list' = Terminated(m)
                   /\ receiver' = ReceiverFor(Terminated(m))
                   /\ asked' = Listed(m)
    /\ FilterUnchanged

(* ADDP and DELP.                                                          *)
Addp(p) ==
    /\ ready /\ TsPids
    /\ AddPid(p)
    /\ UNCHANGED ready /\ FilterUnchanged

Delp(p) ==
    /\ ready /\ TsPids
    /\ DelPid(p)
    /\ UNCHANGED ready /\ FilterUnchanged

(* The broadcaster gives the PMT another content, and the next version,    *)
(* which wraps; or moves it to another pid, where it has any version.      *)
Change ==
    /\ ~TsPids
    /\ changes < MaxChange
    /\ changes' = changes + 1
    /\ \E c \in Contents :
         \/ /\ c # air.content
            /\ air' = [air EXCEPT !.content = c,
                                  !.version = (@ + 1) % Versions]
         \/ \E p \in PmtPids \ {air.pid}, v \in 0 .. Versions - 1 :
              air' = [pid |-> p, version |-> v, content |-> c]
    /\ UNCHANGED <<list, receiver, asked, ready, pmtPid, pmtVersion, filters,
                   taken, type>>

SeenElsewhere == taken' = IF air.pid = taken.pid THEN taken ELSE NoPmt

(* Slip: a PMT pid taken up again keeps the version seen before.           *)
PatSeenKeepsVersion ==
    /\ ready /\ ~TsPids
    /\ pmtPid' = air.pid
    /\ IF air.pid = pmtPid
         THEN UNCHANGED <<list, receiver, asked, filters>>
         ELSE /\ AddPid(air.pid)
              /\ filters' = [filters EXCEPT ![air.pid] = @ + 1]
    /\ SeenElsewhere
    /\ UNCHANGED <<ready, air, pmtVersion, changes, type>>

(* Process, the PAT: the PMT pid is looked up and filtered.                *)
PatSeen ==
    /\ ready /\ ~TsPids
    /\ pmtPid' = air.pid
    /\ IF air.pid = pmtPid
         THEN UNCHANGED <<list, receiver, asked, filters, pmtVersion>>
         ELSE /\ AddPid(air.pid)
              /\ filters' = [filters EXCEPT ![air.pid] = @ + 1]
              /\ pmtVersion' = -1
    /\ SeenElsewhere
    /\ UNCHANGED <<ready, air, changes, type>>

(* Process, the PMT: a new version drops the filter, the first one seen    *)
(* since sets the pids.                                                    *)
PmtVersionChanged ==
    /\ filters[air.pid] > 0 /\ air.pid = pmtPid
    /\ pmtVersion # -1 /\ pmtVersion # air.version
    /\ filters' = [filters EXCEPT ![air.pid] = @ - 1]
    /\ pmtPid' = 0
    /\ taken' = NoPmt
    /\ UNCHANGED <<list, receiver, asked, ready, pmtVersion, air, changes,
                   type>>

(* The pids Process collects, MaxPids at most, behind the PCR pid.         *)
PmtList ==
    LET pids == <<pmtPid>> \o SiPids \o Tail(air.content) IN
    <<Head(air.content)>> \o SubSeq(pids, 1, IF Len(pids) < MaxPids
                                               THEN Len(pids) ELSE MaxPids)

PmtFirstSeen ==
    /\ filters[air.pid] > 0 /\ air.pid = pmtPid
    /\ pmtVersion = -1
    /\ pmtVersion' = air.version
    /\ SetPids(PmtList)
    /\ taken' = air
    /\ UNCHANGED <<ready, pmtPid, filters, air, changes, type>>

PidsNext ==
    \/ SetChannelPids \/ SetChannelTs
    \/ \E p \in Pids : Addp(p) \/ Delp(p)
    \/ Change \/ PatSeen \/ PmtVersionChanged \/ PmtFirstSeen

PidsSpec == PidsInit /\ [][PidsNext]_pidsVars

(* PAT and PMT are broadcast over and over.                                *)
PidsFairness == WF_pidsVars(SetChannelTs) /\ WF_pidsVars(PatSeen)
                /\ WF_pidsVars(PmtVersionChanged) /\ WF_pidsVars(PmtFirstSeen)

PidsFairSpec == PidsSpec /\ PidsFairness

-----------------------------------------------------------------------------

(* "220 Pid available" (connectionVTP.c:1328) is true as long as the pid   *)
(* is not deleted: through any sequence of ADDP and DELP, the array keeps  *)
(* every pid asked for, once, and the receiver gets them all.              *)
AskedReceived ==
    TsPids =>
      /\ asked = Listed(list)
      /\ \A i, j \in 0 .. list.num - 1 : list.pid[i] = list.pid[j] => i = j
      /\ asked \subseteq Received

Elements(s) == {s[i] : i \in DOMAIN s}

(* What the receiver is to get, if it fits into the array.                 *)
Wanted == {air.pid} \cup Elements(SiPids) \cup Elements(air.content)
Fits == /\ Cardinality(Wanted) < MaxPids
        /\ Len(SiPids) + Len(air.content) <= MaxPids

(* The broadcast bears the pid and the version of the PMT taken last, and  *)
(* has another content: the numbers came round again, and nothing of what  *)
(* was in between has been seen.                                           *)
Disguised == /\ air.pid = taken.pid /\ air.version = taken.version
             /\ air.content # taken.content

(* However often the broadcaster moves or changes the PMT, the stream ends *)
(* up with the pids of the current one: no change is missed because of a   *)
(* version remembered from another pid or an earlier round of the five bit *)
(* number, and no full list blocks the next one. Only a PMT that is        *)
(* Disguised nothing tells from the old one (livestreamer.c:323).          *)
FollowsPmt == <>[](~TsPids /\ Fits /\ ~Disguised => Received = Wanted)
=============================================================================
