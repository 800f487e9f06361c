------------------------------ MODULE MenuHTTP ------------------------------
(***************************************************************************)
(* The menus and playlists of the HTTP server (server/menuHTTP.c): the     *)
(* iterators over VDR's channels and recordings, which keep a pointer to   *)
(* their current item from one line of the answer to the next, and the     *)
(* writers of HTML, M3U and RSS as the state machines they are. An item is *)
(* its id, Null is the null pointer.                                       *)
(***************************************************************************)
EXTENDS Integers, Sequences, FiniteSets

VARIABLES
    channels,   \* [id, group, name]: a channel or a group, with or without
                \* a name
    recordings  \* [id, pes]

Null == 0
Least(S) == CHOOSE i \in S : \A j \in S : i <= j
IdOf(s, S) == IF S = {} THEN Null ELSE s[Least(S)].id
Place(s, id) == IF \E i \in DOMAIN s : s[i].id = id
                  THEN CHOOSE i \in DOMAIN s : s[i].id = id ELSE 0
ItemAt(s, id) == s[Place(s, id)]

-----------------------------------------------------------------------------
(* Channels of VDR, from behind the place i; nameless groups are no groups *)
(* for GetNextGroup.                                                       *)
IsSep(id) == id # Null /\ ItemAt(channels, id).group
Behind(i) == {j \in DOMAIN channels : j > i}
NextAny(i) == IdOf(channels, Behind(i))
NextNormal(i) == IdOf(channels, {j \in Behind(i) : ~channels[j].group})
NextGroup(i) == IdOf(channels, {j \in Behind(i) : /\ channels[j].group
                                                  /\ channels[j].name})

(* SkipFakeGroups of what is behind i.                                     *)
SkipFakeGroups(i) ==
    IdOf(channels, {j \in Behind(i) : channels[j].group => channels[j].name})

Groups == {j \in DOMAIN channels : channels[j].group /\ channels[j].name}

(* The place of a group among the groups: the id in links to it.           *)
GroupIndex(id) ==
    IF Place(channels, id) \in Groups
      THEN Cardinality({j \in Groups : j < Place(channels, id)})
      ELSE -1

(* The group with so many groups before it.                                *)
GetGroup(n) ==
    IdOf(channels, {j \in Groups : Cardinality({k \in Groups : k < j}) = n})

ItemId(it, id) ==
    IF it = "recordings" THEN Place(recordings, id)
    ELSE IF IsSep(id) THEN GroupIndex(id) ELSE id

ChannelInGroup(i) ==
    IF IsSep(SkipFakeGroups(i)) THEN Null ELSE SkipFakeGroups(i)

Suitable(pes, i) ==
    IdOf(recordings, {j \in DOMAIN recordings :
                        j > i /\ (recordings[j].pes => pes)})

(* The iterators; group is the parameter of the request, or -1.            *)
Iterator(kind, group, pes) ==
    LET sel == IF group < 0 THEN Null ELSE GetGroup(group) IN
    [kind |-> kind, pes |-> pes, current |-> Null,
     first |-> CASE kind = "all" -> NextAny(0)
                 [] kind = "channels" -> NextNormal(0)
                 [] kind \in {"groups", "tree"} -> NextGroup(0)
                 [] kind = "group" ->
                      IF sel = Null THEN Null
                      ELSE ChannelInGroup(Place(channels, sel))
                 [] kind = "recordings" -> Suitable(pes, 0),
     selected |-> sel,
     grp |-> IF kind = "tree" THEN NextGroup(0) ELSE Null]

(* Slip: the tree stays in the group that was selected.                    *)
TreeNextStays(it, i) ==
    LET c == IF it.grp = it.selected THEN SkipFakeGroups(i) ELSE NextGroup(i)
    IN [it EXCEPT !.current = c, !.grp = IF it.grp = it.selected THEN @ ELSE c]

TreeNext(it, i) ==
    LET inside == it.grp = it.selected
        c == IF inside THEN SkipFakeGroups(i) ELSE NextGroup(i)
    IN [it EXCEPT !.current = c,
                  !.grp = IF ~inside \/ IsSep(c) THEN c ELSE @]

(* Next of an iterator. A recordings iterator that has none to begin with  *)
(* asks for the one behind the null pointer (see Undefined).               *)
IteratorNext(it) ==
    LET i == Place(channels, it.current) IN
    IF it.first # Null
      THEN [it EXCEPT !.current = it.first, !.first = Null]
    ELSE IF it.kind = "recordings"
      THEN [it EXCEPT !.current = Suitable(it.pes,
                                           Place(recordings, it.current))]
    ELSE IF it.current = Null THEN it
    ELSE CASE it.kind = "all" -> [it EXCEPT !.current = SkipFakeGroups(i)]
           [] it.kind = "channels" -> [it EXCEPT !.current = NextNormal(i)]
           [] it.kind = "groups" -> [it EXCEPT !.current = NextGroup(i)]
           [] it.kind = "group" -> [it EXCEPT !.current = ChannelInGroup(i)]
           [] it.kind = "tree" -> TreeNext(it, i)

(* The pointer Next is to follow is null or points to what was deleted.    *)
Undefined(it) ==
    LET s == IF it.kind = "recordings" THEN recordings ELSE channels IN
    \/ it.first # Null /\ Place(s, it.first) = 0
    \/ it.first = Null /\ it.current # Null /\ Place(s, it.current) = 0
    \/ it.kind = "recordings" /\ it.first = Null /\ it.current = Null

-----------------------------------------------------------------------------
(* The writers: a state, and the line it puts out.                         *)

Menu(fmt, it, self) ==
    [fmt |-> fmt, it |-> it, self |-> self, onItem |-> TRUE,
     st |-> IF fmt = "html" THEN "Root" ELSE "First"]

HasNext(m) == m.st \notin {"PageBottom", "Last"}

(* In these states of cHtmlMenuList, and always in the playlists, Next     *)
(* moves on to the next item.                                              *)
AsksItem(m) == m.st \in {"PageTop", "PlainItem", "GroupTop", "Item",
                         "Continue"}

(* Slip: a group without items is left open for the next one.              *)
BehindGroupTopOpen(on, sep) ==
    IF on THEN IF sep THEN "GroupTop" ELSE "ItemsTop" ELSE "GroupBottom"

BehindGroupTop(on, sep) == IF on /\ ~sep THEN "ItemsTop" ELSE "GroupBottom"

HtmlState(st, self, on, sep) ==
    CASE st = "Root" -> "HtmlHead"
      [] st = "HtmlHead" -> "Css"
      [] st = "Css" -> IF self THEN "PageTop" ELSE "Js"
      [] st = "Js" -> "PageTop"
      [] st = "PageTop" -> IF ~on THEN "PageBottom"
                           ELSE IF sep THEN "GroupTop" ELSE "PlainTop"
      [] st = "PlainTop" -> "PlainItem"
      [] st = "PlainItem" -> IF on /\ ~sep THEN "PlainItem" ELSE "PlainBottom"
      [] st \in {"PlainBottom", "GroupBottom"} ->
           IF on THEN "GroupTop" ELSE "PageBottom"
      [] st = "GroupTop" -> BehindGroupTop(on, sep)
      [] st = "ItemsTop" -> "Item"
      [] st = "Item" -> IF on /\ ~sep THEN "Item" ELSE "ItemsBottom"
      [] st = "ItemsBottom" -> "GroupBottom"

ListState(st, on) == IF st = "First" THEN "Continue"
                     ELSE IF on THEN "Continue" ELSE "Last"

NextItem(m) ==
    LET it == IteratorNext(m.it)
    IN [m EXCEPT !.it = it, !.onItem = it.current # Null]

MenuNext(m) ==
    LET n == IF AsksItem(m) THEN NextItem(m) ELSE m
        sep == n.it.kind # "recordings" /\ IsSep(n.it.current)
    IN [n EXCEPT !.st = IF m.fmt = "html"
                          THEN HtmlState(m.st, m.self, n.onItem, sep)
                          ELSE ListState(m.st, n.onItem)]

(* The line of the state m has come to: what it opens or closes, or the    *)
(* item it tells of with the id of its link.                               *)
ItemLine(tag, m) == <<tag, m.it.current, ItemId(m.it.kind, m.it.current)>>

HtmlLine(m) ==
    CASE m.st = "GroupTop" -> ItemLine("div", m)
      [] m.st \in {"PlainItem", "Item"} -> ItemLine("li", m)
      [] m.st \in {"PlainTop", "ItemsTop"} -> <<"ol", 0, 0>>
      [] m.st \in {"PlainBottom", "ItemsBottom"} -> <<"/ol", 0, 0>>
      [] m.st = "GroupBottom" -> <<"/div", 0, 0>>
      [] m.st = "PageTop" -> <<"body", 0, 0>>
      [] m.st = "PageBottom" -> <<"/body", 0, 0>>
      [] OTHER -> <<"head", 0, 0>>

ListLine(m, before) ==
    IF before = "First" THEN <<"list", 0, 0>>
    ELSE IF m.st = "Continue" THEN ItemLine("li", m) ELSE <<"/list", 0, 0>>

MenuLine(m, before) ==
    IF m.fmt = "html" THEN HtmlLine(m) ELSE ListLine(m, before)
=============================================================================
