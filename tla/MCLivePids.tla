----------------------------- MODULE MCLivePids -----------------------------
(***************************************************************************)
(* Instances of LivePids: small pids, contents that overlap, and one that  *)
(* does not fit into the array.                                            *)
(***************************************************************************)
EXTENDS LivePids

MCSiPids == <<8>>
MCChannelPids == {<<>>, <<1, 2, 1>>, <<1, 2, 3, 4, 5>>}
MCContents == {<<1, 1>>, <<2, 1>>, <<1, 2, 3>>, <<1, 2, 3, 4, 5>>}
=============================================================================
