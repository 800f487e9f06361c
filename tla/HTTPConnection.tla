--------------------------- MODULE HTTPConnection ---------------------------
(***************************************************************************)
(* An HTTP connection (server/connectionHTTP.c): one request, read line by *)
(* line, its authorization, the job it stands for (a menu, a channel or a  *)
(* recording), the answer, and what Flushed does each time the answer is   *)
(* out: the next line of the menu, or the start of the streamer. VDR edits *)
(* its lists in between.                                                   *)
(***************************************************************************)
EXTENDS MenuHTTP, SequencesExt

CONSTANTS
    Requests,   \* what clients ask for
    Offset,     \* of a range that does not begin at 0
    Lists,      \* of channels and recordings VDR may begin with
    MaxChanges  \* bound

(* A request: its method; path, of "menu", "rec", "channel" or "none"; the *)
(* kind, format and group of a menu; the type of the stream; whether audio *)
(* only; pos and fake of a recording, its index nr; and long, parameters   *)
(* to be repeated that do not fit the write buffer.                        *)
ASSUME HTTPAssumption ==
    /\ \A r \in Requests :
         /\ r.pos \in Nat /\ r.fake \in BOOLEAN
         /\ r.type \in {"TS", "PES", "ES", "EXT"} /\ r.group \in Int
         /\ r.path = "menu" =>
              r.menu \in {"all", "channels", "groups", "group", "tree",
                         "recordings"}
    /\ Offset \in Nat \ {0} /\ MaxChanges \in Nat

(* No two items of a list are the same.                                    *)
Unequal(s) == \A i, j \in DOMAIN s : s[i].id = s[j].id => i = j

ASSUME ListsAssumption ==
    \A l \in Lists :
      /\ l[1] \in Seq([id : Nat \ {Null}, group : BOOLEAN, name : BOOLEAN])
      /\ l[2] \in Seq([id : Nat \ {Null}, pes : BOOLEAN])
      /\ Unequal(l[1]) /\ Unequal(l[2])

VARIABLES
    acceptable, \* the host is in StreamdevHosts; else credentials are
                \* configured, or the server had not accepted it
    status,     \* m_Status
    req,        \* m_Params and the request line
    auth,       \* scheme and credentials of Authorization headers
    range,      \* the start of the Range header, or NoRange
    menu,       \* m_MenuList
    streamer,   \* m_Streamer
    out,        \* the write buffer: answers, lines of a menu
    deferClose,
    sent,       \* what the client was sent, with "body" for a stream
    conn,       \* "open", "closed" or "undefined"
    changes     \* of VDR's lists so far

listVars == <<channels, recordings, changes>>
reqVars == <<req, auth, range>>
httpVars == <<listVars, acceptable, status, reqVars, menu, streamer, out,
              deferClose, sent, conn>>

NoRange == -1
Nil == [kind |-> "none"]
NoAuth == [scheme |-> "none", right |-> FALSE]
NoReq == [method |-> "none"]

HTTPInit ==
    /\ \E l \in Lists : channels = l[1] /\ recordings = l[2]
    /\ acceptable \in BOOLEAN
    /\ status = "request" /\ req = NoReq /\ auth = NoAuth /\ range = NoRange
    /\ menu = Nil /\ streamer = Nil /\ out = <<>> /\ deferClose = FALSE
    /\ sent = <<>> /\ conn = "open" /\ changes = 0

-----------------------------------------------------------------------------
(* Command, with a line in each status.                                    *)

Close ==
    /\ conn' = "closed"
    /\ UNCHANGED <<listVars, acceptable, status, reqVars, menu, streamer, out,
                   deferClose, sent>>

RequestLine ==
    /\ conn = "open" /\ status = "request"
    /\ \/ /\ \E r \in Requests : req' = r
          /\ status' = "headers"
          /\ UNCHANGED <<listVars, acceptable, auth, range, menu, streamer, out,
                         deferClose, sent, conn>>
       \/ Close  \* not three words

(* Headers are inserted in a map, where the first of a name stays; the     *)
(* credentials are kept beside it, and there the last one stays.           *)
Authorization(scheme, right) ==
    auth' = [scheme |-> IF auth.scheme = "none" THEN scheme ELSE auth.scheme,
             right |-> right]

HeaderLine ==
    /\ conn = "open" /\ status = "headers"
    /\ \/ /\ \E scheme \in {"BASIC", "other"}, right \in BOOLEAN :
               Authorization(scheme, right)
          /\ UNCHANGED range
       \/ range = NoRange /\ range' \in {0, Offset} /\ UNCHANGED auth
    /\ UNCHANGED <<listVars, acceptable, status, req, menu, streamer, out,
                   deferClose, sent, conn>>

(* Blank lines behind the request are skipped; any other ends it.          *)
LateLine ==
    /\ conn = "open" /\ status \in {"body", "finished"}
    /\ Close

Authorized == acceptable \/ (auth.scheme = "BASIC" /\ auth.right)

(* HttpResponse: a last one closes the connection when it is out; one that *)
(* does not fit closes it at once. A header has its code and, for a range, *)
(* the first byte it announces.                                            *)
Fits(r) == ~r.long

Ranged(code, from, last) ==
    /\ deferClose' = last
    /\ IF Fits(req) THEN out' = <<<<"header", code, from>>>> /\ UNCHANGED conn
       ELSE UNCHANGED out /\ conn' = "closed"
Response(code, last) == Ranged(code, 0, last)

(* Respond with a header made beforehand.                                  *)
Plain(code, last) ==
    /\ deferClose' = last /\ out' = <<<<"header", code, 0>>>>
    /\ UNCHANGED conn

NoJob(code) == Response(code, TRUE) /\ UNCHANGED <<menu, streamer>>

Live(prio) == [kind |-> "live", prio |-> prio, pos |-> 0, from |-> 0,
               started |-> FALSE]

MenuListFromString ==
    Menu(req.fmt, Iterator(req.menu, req.group, req.type = "PES"), req.self)

ProcessMenu ==
    /\ menu' = MenuListFromString
    /\ Plain(200, req.method = "HEAD")
    /\ UNCHANGED streamer

(* A device that is free for the channel may be taken before it is asked   *)
(* for once more.                                                          *)
ProcessChannel ==
    \/ NoJob(503)
    \/ /\ req.method = "GET"
       /\ streamer' = Live("http") /\ UNCHANGED menu
       /\ IF req.type = "EXT" THEN Plain(200, FALSE) ELSE Response(200, FALSE)
    \/ /\ req.method = "HEAD"
       /\ IF req.type = "EXT"
            THEN Plain(200, FALSE) /\ streamer' = Live("idle")
                 /\ UNCHANGED menu
            ELSE NoJob(200)

(* Slip: the faked range starts at the position, and is moved as well.     *)
RecStreamerMovedTwice(fake) ==
    [kind |-> "rec", prio |-> "none", pos |-> req.pos,
     from |-> IF fake THEN range + req.pos ELSE range, started |-> FALSE]

(* The streamer of a GET: with a faked range it has all of the recording,  *)
(* and the range is moved to the position asked for.                       *)
RecStreamer(fake) ==
    [kind |-> "rec", prio |-> "none",
     pos |-> IF fake /\ req.method = "GET" THEN 0 ELSE req.pos,
     from |-> IF fake THEN range + req.pos ELSE range, started |-> FALSE]

ProcessRecording ==
    LET head == req.method = "HEAD"
        rec == recordings[req.nr]
        s == RecStreamer(range = 0 /\ req.fake)
        whole == [s EXCEPT !.from = 0]
        remuxed == req.type # "TS" /\ ~rec.pes
    IN IF rec.pes /\ req.type # "PES" THEN NoJob(503)
       ELSE /\ UNCHANGED menu
            /\ \/ /\ req.type = "EXT" /\ Plain(200, FALSE)
                  /\ streamer' = whole
               \/ /\ req.type = "ES" /\ req.audio /\ Response(200, head)
                  /\ streamer' = whole
               \/ /\ req.type # "EXT" /\ ~(req.type = "ES" /\ req.audio)
                  /\ remuxed /\ Response(200, FALSE) /\ streamer' = whole
               \/ /\ ~remuxed /\ range = NoRange
                  /\ Response(200, head) /\ streamer' = whole
               \/ /\ ~remuxed /\ range # NoRange
                  /\ \E t \in {s, whole} :  \* whole: behind the end
                       Ranged(206, t.from, head) /\ streamer' = t
               \/ /\ ~remuxed /\ range # NoRange  \* so is the position
                  /\ Response(416, TRUE) /\ streamer' = whole

RecPlayerFromString == req.path = "rec" /\ req.nr \in DOMAIN recordings

(* ProcessURI: a path that is none of the three is a bad request.          *)
ProcessURI ==
    CASE req.path = "menu" -> ProcessMenu
      [] req.path = "channel" -> ProcessChannel
      [] RecPlayerFromString -> ProcessRecording
      [] OTHER -> NoJob(400)

ProcessRequest ==
    /\ conn = "open" /\ status = "headers"
    /\ status' = "body"
    /\ IF ~Authorized THEN NoJob(401)
       ELSE IF req.method \in {"GET", "HEAD"} THEN ProcessURI
       ELSE NoJob(400)
    /\ UNCHANGED <<listVars, acceptable, reqVars, sent>>

-----------------------------------------------------------------------------
(* Write, once all of the buffer is out, and Flushed.                      *)

(* The next line of the menu is about an item that was deleted.            *)
StaleLine ==
    LET s == IF menu.it.kind = "recordings" THEN recordings ELSE channels IN
    \/ AsksItem(menu) /\ Undefined(menu.it)
    \/ /\ menu.st \in {"PlainTop", "ItemsTop", "PlainBottom", "GroupBottom"}
       /\ menu.onItem /\ Place(s, menu.it.current) = 0

(* Slip: the connection is not closed behind the last line.                *)
FlushedMenuOpen ==
    /\ UNCHANGED <<streamer, deferClose>>
    /\ \/ /\ HasNext(menu)
          /\ \E m \in {MenuNext(menu)} :
               /\ menu' = m /\ UNCHANGED status
               /\ out' = <<MenuLine(m, menu.st)>>
       \/ /\ ~HasNext(menu)
          /\ menu' = Nil /\ status' = "finished" /\ out' = <<>>

(* A line that does not fit the write buffer is left out, and the last.    *)
FlushedMenu ==
    /\ UNCHANGED streamer
    /\ \/ /\ HasNext(menu)
          /\ \E m \in {MenuNext(menu)} :
               /\ menu' = m /\ UNCHANGED status
               /\ \/ out' = <<MenuLine(m, menu.st)>> /\ UNCHANGED deferClose
                  \/ /\ m.st \in {"PlainItem", "Item"}
                     /\ deferClose' = TRUE /\ out' = <<>>
       \/ /\ ~HasNext(menu)
          /\ menu' = Nil /\ status' = "finished" /\ deferClose' = TRUE
          /\ out' = <<>>

FlushedStart ==
    /\ streamer' = [streamer EXCEPT !.started = TRUE]
    /\ status' = "finished" /\ out' = <<>>
    /\ UNCHANGED <<menu, deferClose>>

Flushed ==
    \/ status # "body" /\ out' = <<>>
       /\ UNCHANGED <<menu, status, deferClose, streamer>>
    \/ status = "body" /\ menu # Nil /\ FlushedMenu
    \/ status = "body" /\ menu = Nil /\ FlushedStart

(* Slip: a connection to be closed goes on with its job first.             *)
NothingMore == deferClose /\ out = <<>>

Finished == deferClose

Follows == status = "body" /\ menu # Nil /\ ~Finished /\ StaleLine

Write ==
    /\ conn = "open" /\ (out # <<>> \/ deferClose) /\ ~Follows
    /\ sent' = sent \o out
    /\ IF Finished
         THEN /\ conn' = "closed" /\ out' = <<>>
              /\ UNCHANGED <<menu, status, deferClose, streamer>>
         ELSE Flushed /\ UNCHANGED conn
    /\ UNCHANGED <<listVars, acceptable, reqVars>>

StaleUse ==
    /\ conn = "open" /\ out # <<>> /\ Follows
    /\ conn' = "undefined"
    /\ UNCHANGED <<listVars, acceptable, status, reqVars, menu, streamer, out,
                   deferClose, sent>>

(* The threads of the streamer, which write to the socket by themselves.   *)
Stream ==
    /\ conn = "open" /\ streamer # Nil /\ streamer.started
    /\ \/ /\ sent # <<>> /\ Last(sent)[1] # "body"
          /\ sent' = Append(sent, <<"body", 0, 0>>) /\ UNCHANGED conn
       \/ conn' = "closed" /\ UNCHANGED sent  \* its end
    /\ UNCHANGED <<listVars, acceptable, status, reqVars, menu, streamer, out,
                   deferClose>>

-----------------------------------------------------------------------------

(* An edit before the answer begins is the same as other lists.            *)
VDRDeletes ==
    /\ conn = "open" /\ status = "body" /\ changes < MaxChanges
    /\ changes' = changes + 1
    /\ \/ \E i \in DOMAIN channels : channels' = RemoveAt(channels, i)
                                     /\ UNCHANGED recordings
       \/ \E i \in DOMAIN recordings : recordings' = RemoveAt(recordings, i)
                                       /\ UNCHANGED channels
    /\ UNCHANGED <<acceptable, status, reqVars, menu, streamer, out, deferClose,
                   sent, conn>>

Ended == conn # "open" /\ UNCHANGED httpVars

HTTPNext ==
    \/ RequestLine \/ HeaderLine \/ ProcessRequest \/ LateLine
    \/ Write \/ StaleUse \/ Stream \/ VDRDeletes \/ Ended

HTTPSpec == HTTPInit /\ [][HTTPNext]_httpVars

(* The client takes what it is sent, and the server writes it.             *)
HTTPFairSpec == HTTPSpec /\ WF_httpVars(Write \/ StaleUse)

-----------------------------------------------------------------------------
(* Properties                                                              *)

(* What a page has been sent in full, of lists that have not changed.      *)
WholePage == /\ conn = "closed" /\ changes = 0 /\ sent # <<>>
             /\ Last(sent)[1] \in {"/body", "/list"}

(* What a menu is to hold, said of the lists and without an iterator.      *)
Wanted(j) ==
    LET c == channels[j]
        named == c.group /\ c.name
        before == Cardinality({k \in 1 .. j : channels[k].group
                                              /\ channels[k].name})
        ofGroup == ~c.group /\ before = req.group + 1
    IN CASE req.menu = "all" -> j = 1 \/ ~c.group \/ named
         [] req.menu = "channels" -> ~c.group
         [] req.menu = "groups" -> named
         [] req.menu = "group" -> ofGroup /\ req.group >= 0
         [] req.menu = "tree" -> named \/ (ofGroup /\ req.group >= 0)
Listed == IF req.menu = "recordings" THEN recordings ELSE channels
Page ==
    IF req.menu = "recordings"
      THEN {j \in DOMAIN recordings : recordings[j].pes => req.type = "PES"}
      ELSE {j \in DOMAIN channels : Wanted(j)}
Items(s) == {i \in DOMAIN s : s[i][1] \in {"li", "div"}}

(* How many of a tag are open at the end of a page.                        *)
Closing == [body |-> "/body", div |-> "/div", ol |-> "/ol", list |-> "/list"]
Count(s, tag) == Cardinality({i \in DOMAIN s : s[i][1] = tag})
Open(s, tag) == Count(s, tag) - Count(s, Closing[tag])

(* However VDR edits its lists, the groups and lists of a page are closed  *)
(* in the order they were opened, items are in lists, and a page that ends *)
(* with its last line has closed all (cHtmlMenuList::Next).                *)
Nested(s) ==
    s # <<>> =>
      /\ \A tag \in DOMAIN Closing : Open(s, tag) \in {0, 1}
      /\ Last(s)[1] = "li" => Open(s, "ol") + Open(s, "list") = 1
      /\ Last(s)[1] \in {"div", "/div"} => Open(s, "ol") = 0
      /\ Last(s)[1] \in {"div", "ol"} => Open(s, "body") = 1
      /\ Last(s)[1] \in {"/body", "/list"} =>
           \A tag \in DOMAIN Closing : Open(s, tag) = 0
WellNested == Nested(sent)

(* The link of a group leads to the same group (ItemId and GetGroup).      *)
GroupLinks ==
    \A i \in DOMAIN sent :
      /\ changes = 0 /\ sent[i][1] \in {"li", "div"} /\ req.path = "menu"
      /\ req.menu # "recordings" /\ IsSep(sent[i][2])
      /\ ItemAt(channels, sent[i][2]).name
      => GetGroup(sent[i][3]) = sent[i][2]

(* A page of lists that do not change has each channel, group or recording *)
(* it is to have once and in their order, and the links of its groups lead *)
(* to them; a nameless group is left out but where it is the first of all  *)
(* channels (cListAll::cListAll).                                          *)
PageExact ==
    /\ WholePage => LET At(i) == Place(Listed, sent[i][2]) IN
         /\ {At(i) : i \in Items(sent)} = Page
         /\ \A i, k \in Items(sent) : i < k => At(i) < At(k)
    /\ GroupLinks

(* A request for the head alone is sent no page, and no stream but where   *)
(* the code forgets to close: with an external program, and where a        *)
(* recording is remuxed.                                                   *)
HeadNoBody ==
    req # NoReq /\ req.method = "HEAD" /\ req.type # "EXT"
      /\ ~(req.path = "rec" /\ req.type # "TS")
    => Len(sent) <= 1

(* The stream follows one header with a good code, once all of it was      *)
(* written, and the connection writes nothing more: the streamer's thread  *)
(* has the socket for itself. And where only the head was asked for, it    *)
(* has none.                                                               *)
StreamAfterHeader ==
    /\ HeadNoBody
    /\ streamer # Nil /\ streamer.started =>
         /\ out = <<>> /\ ~deferClose
         /\ sent # <<>> /\ sent[1][1] = "header" /\ sent[1][2] \in {200, 206}
         /\ \A i \in 2 .. Len(sent) : sent[i][1] = "body"

(* The stream of a recording starts where the header says it does, from    *)
(* the position asked for, or with a faked range from the beginning; and   *)
(* the header says the range asked for, or everything. So a faked range of *)
(* what is remuxed loses the position: 0 is announced, from the beginning. *)
StartsAsAsked ==
    streamer # Nil /\ streamer.started /\ streamer.kind = "rec"
      /\ req.method = "GET"
    => LET first == sent[1][3]
           faked == range = 0 /\ req.fake
       IN /\ streamer.pos + streamer.from
               = first + IF faked THEN 0 ELSE req.pos
          /\ first # 0 => /\ sent[1][2] = 206
                          /\ first = IF faked THEN req.pos ELSE range

(* What is asked for ends: the connection is closed, or the streamer has   *)
(* it. A deleted item is followed only because VDR deleted it, or by a     *)
(* menu of recordings that holds none.                                     *)
AnswerEnds == status = "body" ~>
    \/ conn = "closed" \/ (streamer # Nil /\ streamer.started)
    \/ conn = "undefined"
       /\ (changes > 0 \/ (req.menu = "recordings" /\ Page = {}))
=============================================================================
