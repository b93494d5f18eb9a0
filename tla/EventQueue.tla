----------------------------- MODULE EventQueue -----------------------------
(***************************************************************************)
(* What logEvent promises to its callers, without the ring and its posts:  *)
(* a queue of at most Room events, in which every event that was accepted  *)
(* stays, behind all that were accepted before it, until it is the first   *)
(* and is taken.  A call comes back only when its event is in the queue    *)
(* or, once the device finishes, when it found the queue full.             *)
(***************************************************************************)
EXTENDS Naturals, Sequences

CONSTANTS
  Caller,  \* the threads that log
  Room     \* events that the queue has room for

VARIABLES
  queue,     \* the numbers of the events that wait
  accepted,  \* how many events were put in the queue so far
  call,      \* where each caller is in logEvent
  finishing  \* the device finishes, for good

queueVars == <<queue, accepted, call, finishing>>

Init ==
  /\ queue = <<>> /\ accepted = 0
  /\ call = [t \in Caller |-> "idle"]
  /\ finishing = FALSE

\* The caller that finishes the device logs that.
Begin(t) ==
  /\ call[t] = "idle"
  /\ call' = [call EXCEPT ![t] = "trying"]
  /\ finishing' \in {finishing, TRUE}
  /\ UNCHANGED <<queue, accepted>>

Put(t) ==
  /\ call[t] = "trying"
  /\ Len(queue) < Room
  /\ queue' = Append(queue, accepted + 1)
  /\ accepted' = accepted + 1
  /\ call' = [call EXCEPT ![t] = "posting"]
  /\ UNCHANGED finishing

Return(t) ==
  /\ call[t] = "posting"
  /\ call' = [call EXCEPT ![t] = "idle"]
  /\ UNCHANGED <<queue, accepted, finishing>>

GiveUp(t) ==
  /\ call[t] = "trying"
  /\ Len(queue) = Room /\ finishing
  /\ call' = [call EXCEPT ![t] = "idle"]
  /\ UNCHANGED <<queue, accepted, finishing>>

Take ==
  /\ queue # <<>>
  /\ queue' = Tail(queue)
  /\ UNCHANGED <<accepted, call, finishing>>

Next ==
  \/ \E t \in Caller : Begin(t) \/ Put(t) \/ Return(t) \/ GiveUp(t)
  \/ Take

Spec == Init /\ [][Next]_queueVars
=============================================================================
