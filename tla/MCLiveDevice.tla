---------------------------- MODULE MCLiveDevice ----------------------------
(***************************************************************************)
(* Two streamers on two devices, two channels on different transponders.   *)
(***************************************************************************)
EXTENDS LiveDevice

CONSTANTS d1, d2, c1, c2
MCTp == [c \in Channels |-> IF c = c1 THEN "A" ELSE "B"]
MCFirst == [s \in Streamers |-> IF s = 1 THEN 0 ELSE 5]
MCLive == [dev |-> d1, ch |-> c1]

-----------------------------------------------------------------------------

(* A streamer that runs and lost its device gets one again, or ends: its   *)
(* client does not wait for ever.                                          *)
Starved(s) == str[s].exists /\ str[s].thread /\ str[s].recv \notin Devices
Over(s) == ~str[s].exists \/ ~str[s].thread
LostEnds ==
    \A s \in Streamers : Starved(s) ~> (str[s].recv \in Devices \/ Over(s))

=============================================================================
