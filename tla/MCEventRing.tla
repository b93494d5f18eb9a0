---------------------------- MODULE MCEventRing ----------------------------
(***************************************************************************)
(* Instance of EventRing for TLC: a ring of two slots, so that it is full, *)
(* wraps and is emptied with few events.                                   *)
(***************************************************************************)
EXTENDS EventRing

\* The radio and the network thread.
Clients == {"radio"}
=============================================================================
