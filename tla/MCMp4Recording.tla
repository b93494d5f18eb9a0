--------------------------- MODULE MCMp4Recording ---------------------------
(***************************************************************************)
(* Instance of Mp4Recording for TLC: an hour of 3 frames and 4 chunks in   *)
(* groups of 2, with room for 2 frames, 1 key frame, 3 chunks and 1 group  *)
(* between two saves, so that every table can be outgrown; and films of 12 *)
(* frames per second, whose records need two parts, and of 15.             *)
(***************************************************************************)
EXTENDS Mp4Recording

Hour   == 3
Chunks == 4

Rates         == {12, 15}
RepairedRates == {5, 12, 25, 30}
PartsOfRate   == [rate \in Rates |-> IF rate = 12 THEN 2 ELSE 1]
=============================================================================
