-------------------------- MODULE MCHTTPConnection --------------------------
(***************************************************************************)
(* Lists of channels with named and nameless groups in every place, and a  *)
(* request of every kind.                                                  *)
(***************************************************************************)
EXTENDS HTTPConnection

C(id) == [id |-> id, group |-> FALSE, name |-> TRUE]
G(id) == [id |-> id, group |-> TRUE, name |-> TRUE]
N(id) == [id |-> id, group |-> TRUE, name |-> FALSE]
R(id, pes) == [id |-> id, pes |-> pes]
Some == <<R(1, TRUE), R(2, FALSE), R(3, FALSE)>>
MCLists == {<<<<>>, Some>>,
            <<<<C(1), G(2), C(3), N(4), C(5), G(6)>>, <<R(1, TRUE)>>>>,
            <<<<N(1), C(2), G(3), G(4), C(5)>>, Some>>,
            <<<<G(1), C(2), C(3), G(4)>>, <<>>>>}

Request == [method |-> "GET", path |-> "none", menu |-> "none",
            fmt |-> "html", group |-> -1, self |-> TRUE, type |-> "TS",
            audio |-> FALSE, pos |-> 0, fake |-> FALSE, nr |-> 0,
            long |-> FALSE]
Page0 == [Request EXCEPT !.path = "menu"]
MCRequests ==
    {[Page0 EXCEPT !.menu = k, !.fmt = f] :
       k \in {"all", "groups", "recordings"}, f \in {"html", "list"}}
    \cup {[Page0 EXCEPT !.menu = k, !.group = g] :
            k \in {"group", "tree"}, g \in {-1, 0, 1}}
    \cup {[Page0 EXCEPT !.menu = "channels", !.self = FALSE],
          [Page0 EXCEPT !.menu = "recordings", !.type = "PES"],
          [Page0 EXCEPT !.menu = "all", !.method = "HEAD"]}
    \cup {[Request EXCEPT !.path = "channel", !.method = m, !.type = t,
                         !.long = l] :
            m \in {"GET", "HEAD"}, t \in {"TS", "EXT"}, l \in BOOLEAN}
    \cup {[Request EXCEPT !.path = "rec", !.nr = 2, !.method = m,
                         !.pos = 5, !.fake = f] :
            m \in {"GET", "HEAD"}, f \in BOOLEAN}
    \cup {[Request EXCEPT !.path = "rec", !.nr = n, !.type = t,
                         !.audio = TRUE, !.method = m] :
            n \in {1, 2}, t \in {"PES", "ES", "EXT"}, m \in {"GET", "HEAD"}}
    \cup {[Request EXCEPT !.path = "rec", !.nr = 2, !.type = "PES", !.pos = 5,
                         !.fake = TRUE]}
    \cup {Request, [Page0 EXCEPT !.menu = "all", !.method = "POST"]}
=============================================================================
