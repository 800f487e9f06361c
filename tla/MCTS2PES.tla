------------------------------ MODULE MCTS2PES ------------------------------
(***************************************************************************)
(* Tracks of each kind on small packets. A picture begins with 0 0 1 0 and *)
(* its slices with 0 0 1 5; an audio header is 255 253 and a byte that     *)
(* gives the size of the frame, or none (free format); an AC3 frame has    *)
(* its size in its fifth byte. A body byte may look like the beginning of  *)
(* a frame.                                                                *)
(***************************************************************************)
EXTENDS TS2PES

MCHeaderSize == [p \in BOOLEAN |-> IF p THEN 3 ELSE 2]
MCMaxPacketSize == [k \in Kinds |->
    CASE k = "video" -> 7 [] k = "audio" -> 9 [] k = "dolby" -> 8]
MCAudioSizes == [v \in {0, 5} |-> v]
MCAc3Sizes == [v \in {6, 9} |-> v]

Pad(head, n) == head \o [i \in 1 .. n |-> IF i = n THEN 15 ELSE 255]
MCFrames == [k \in Kinds |->
    CASE k = "video" -> {<<0, 0, 1, 0>>}
      [] k = "audio" -> {Pad(<<255, 253, 5>>, 2), Pad(<<255, 253, 0>>, 2),
                         Pad(<<255, 253, 0>>, 8)}
      [] k = "dolby" -> {<<11, 119, 1, 2, 6, 11>>,
                         <<11, 119, 1, 2, 9, 11, 11, 119, 1>>}]
MCNoise == [k \in Kinds |->
    CASE k = "video" -> {<<0>>, <<0, 0, 1, 5>>}
      [] k = "audio" -> {<<15>>, <<255>>}
      [] k = "dolby" -> {<<11>>, <<11, 119>>, <<11, 119, 5>>}]
MCMaxSent == [k \in Kinds |->
    CASE k = "video" -> 13 [] k = "audio" -> 21 [] k = "dolby" -> 24]
MCMaxPes == [k \in Kinds |-> IF k = "video" THEN 2 ELSE 3]

=============================================================================
