----------------------------- MODULE MCVTPLists -----------------------------
(***************************************************************************)
(* Three channels, the second without events and another without a         *)
(* schedule, and events with two different sets of fields.                 *)
(***************************************************************************)
EXTENDS VTPLists

MCEpgs ==
    {[filled |-> {"T", "D", "R"},
      epg |-> <<[chan |-> 1, evs |-> <<1, 2, 3>>], [chan |-> 2, evs |-> <<>>],
                [chan |-> 3, evs |-> <<2>>]>>],
     [filled |-> {"S", "V"}, epg |-> <<[chan |-> 3, evs |-> <<1, 3>>]>>],
     [filled |-> {}, epg |-> <<>>]}
=============================================================================
