----------------------------- MODULE LossyFifo ------------------------------
(***************************************************************************)
(* What the data path of a client promises, with no buffer and no thread:  *)
(* packets may be lost where they enter, never further on.  What was taken *)
(* comes out in order, each unit once, until the outlet closes; units      *)
(* still inside at that time are lost.                                     *)
(***************************************************************************)
EXTENDS Integers, Sequences

CONSTANT Pkt   \* units per packet

VARIABLES taken,  \* units taken in
          out,    \* units delivered: the numbers 1, 2, ... in order
          open    \* the outlet is open

Init == taken = 0 /\ out = <<>> /\ open = TRUE

(* Whole packets are taken in.                                             *)
Take ==
    /\ taken' > taken
    /\ (taken' - taken) % Pkt = 0
    /\ UNCHANGED <<out, open>>

(* The next units, any number of those inside, come out.                   *)
Deliver ==
    LET n == Len(out') - Len(out) IN
    /\ open
    /\ n > 0
    /\ Len(out') <= taken
    /\ out' = out \o [i \in 1..n |-> Len(out) + i]
    /\ UNCHANGED <<taken, open>>

Close == open /\ open' = FALSE /\ UNCHANGED <<taken, out>>

Next == Take \/ Deliver \/ Close

Spec == Init /\ [][Next]_<<taken, out, open>>
=============================================================================
