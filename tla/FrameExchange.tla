---------------------------- MODULE FrameExchange ----------------------------
(***************************************************************************)
(* What a group of transport buffers promises, without its slots: the      *)
(* producer publishes frames 0, 1, 2, ...; a frame is owed to the readers  *)
(* plugged when it was published; an InOrder reader takes what it is owed  *)
(* in order; and nobody but the readers of MayLose is deprived of a frame  *)
(* while it is plugged, or of one it is using.                             *)
(***************************************************************************)
EXTENDS Naturals

CONSTANTS
  Reader,   \* the readers of the group
  InOrder,  \* those that read their frames one after the other
  MayLose   \* those whose frames may be overwritten before they read them

VARIABLES
  next,     \* number of the next frame
  plugged,  \* the readers plugged to the group
  owed,     \* for each reader, the frames it has not completed
  using     \* for each reader, the frame it is using, if any

exchangeVars == <<next, plugged, owed, using>>

Init ==
  /\ next = 0
  /\ plugged = {}
  /\ owed = [r \in Reader |-> {}]
  /\ using = [r \in Reader |-> {}]

\* A producer starts or ends: nobody uses a frame, all frames are gone.
Restart ==
  /\ plugged = {}
  /\ using = [r \in Reader |-> {}]
  /\ owed' = [r \in Reader |-> {}]
  /\ next' \in {0, next}
  /\ UNCHANGED <<plugged, using>>

\* A producer starts before its frames are wanted: numbers begin at 0 again.
Renumber ==
  /\ \A r \in Reader : owed[r] = {} /\ using[r] = {}
  /\ next' = 0
  /\ UNCHANGED <<plugged, owed, using>>

Publish ==
  /\ next' = next + 1
  /\ owed' = [r \in Reader |->
                IF r \in plugged THEN owed[r] \cup {next} ELSE owed[r]]
  /\ UNCHANGED <<plugged, using>>

Overwrite(n) ==
  /\ \A r \in Reader : n \notin using[r]
  /\ \A r \in plugged \ MayLose : n \notin owed[r]
  /\ owed' = [r \in Reader |-> owed[r] \ {n}]
  /\ UNCHANGED <<next, plugged, using>>

Plug(r) ==
  /\ r \notin plugged
  /\ plugged' = plugged \cup {r}
  /\ UNCHANGED <<next, owed, using>>

\* An InOrder reader gives up its frame with its place.
Unplug(r) ==
  /\ r \in plugged
  /\ plugged' = plugged \ {r}
  /\ using' = IF r \in InOrder THEN [using EXCEPT ![r] = {}] ELSE using
  /\ UNCHANGED <<next, owed>>

Take(r, n) ==
  /\ using[r] = {}
  /\ n \in owed[r]
  /\ r \in InOrder => \A m \in owed[r] : n <= m
  /\ using' = [using EXCEPT ![r] = {n}]
  /\ UNCHANGED <<next, plugged, owed>>

Complete(r) ==
  /\ using[r] # {}
  /\ owed' = [owed EXCEPT ![r] = @ \ using[r]]
  /\ using' = [using EXCEPT ![r] = {}]
  /\ UNCHANGED <<next, plugged>>

\* A reader that is not in order may drop a frame, which stays owed to it.
Drop(r) ==
  /\ r \notin InOrder
  /\ using' = [using EXCEPT ![r] = {}]
  /\ UNCHANGED <<next, plugged, owed>>

Next ==
  \/ Restart \/ Renumber \/ Publish
  \/ \E n \in 0 .. next : Overwrite(n)
  \/ \E r \in Reader :
       \/ Plug(r) \/ Unplug(r) \/ Complete(r) \/ Drop(r)
       \/ \E n \in owed[r] : Take(r, n)

Spec == Init /\ [][Next]_exchangeVars
=============================================================================
