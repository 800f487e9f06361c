---------------------------- MODULE MCConnection ----------------------------
(***************************************************************************)
(* Clients of a Connection: one that waits for its answers, as             *)
(* client/socket.c does, and sends lines of two lengths, and two that do   *)
(* not wait: one with short lines, of which one behind a longer one leaves *)
(* a newline behind the moved rest, and one with a line too long for the   *)
(* read buffer.                                                            *)
(***************************************************************************)
EXTENDS Connection

Patient == [lockStep |-> TRUE, lens |-> {1, 6},
             kinds |-> {"simple", "list", "quit"}]
Pipelining == [lockStep |-> FALSE, lens |-> {1, 2},
               kinds |-> {"simple", "list", "header"}]
Lengthy == [lockStep |-> FALSE, lens |-> {1, 7},
            kinds |-> {"simple", "header"}]
MCWellBehaved == {Patient, Pipelining, Lengthy}
=============================================================================
