----------------------------- MODULE EventRing -----------------------------
(***************************************************************************)
(* The ring of events between the threads that call logEvent and the       *)
(* logging thread (logging.h, logging.c), with the part of the main loop   *)
(* that starts and stops the logging thread: SLEEP, wake-up and FINISH.    *)
(*                                                                         *)
(* An event is the number of the call that put it in the ring.  A call of  *)
(* logEvent is at "trying" until trySetEvent succeeds or the call is given *)
(* up, and at "posting" between trySetEvent and sem_post.  logEvent tries  *)
(* again every 30 ms, without a bound; a try that fails changes nothing,   *)
(* so only the one that ends the call is an action.                        *)
(***************************************************************************)
EXTENDS Integers, FiniteSets

CONSTANTS
  RING_BUF_SIZE, \* slots of the ring
  Client,        \* threads that log, besides main and the logging thread
  LogFileMayFail,\* TRUE if initLogFile may fail
  MaxCalls,      \* bound of the calls of logEvent by running threads
  MaxSleeps      \* bound of the times main decides to sleep

ASSUME RingAssumption ==
  /\ RING_BUF_SIZE \in Nat \ {0}
  /\ LogFileMayFail \in BOOLEAN
  /\ MaxCalls \in Nat /\ MaxSleeps \in Nat
ASSUME ClientAssumption ==
  /\ IsFiniteSet(Client)
  /\ Client \cap {"main", "logging"} = {}

VARIABLES
  eventItem,  \* evtBuf.eventItem: the event in each slot
  head, tail, \* evtBuf.head, evtBuf.tail
  semaphore,
  cmd,        \* gbl.cmd, START and STOP commands as one
  call,       \* where each thread is in logEvent
  logging,    \* where the logging thread is
  main,       \* where main is
  accepted,   \* number of events put in the ring
  taken,      \* number of events taken from it
  calls,      \* logEvent calls of running threads, for MaxCalls
  sleeps      \* decisions to sleep, for MaxSleeps

ring    == <<eventItem, head, tail, accepted, taken>>
bounds  == <<calls, sleeps>>
vars    == <<ring, semaphore, cmd, call, logging, main, bounds>>

Thread  == Client \cup {"main", "logging"}
Index   == 0 .. RING_BUF_SIZE - 1
NoEvent == 0
Command == {"NO_COMMAND", "OTHER", "SLEEP", "FINISH"}

\* The system is suspended between sleep and wake-up: no thread runs.
Awake == main \notin {"asleep", "off"}

\* The event logged before initEventRingBuf is gone, its post is not.
Init ==
  /\ eventItem = [i \in Index |-> NoEvent]
  /\ head = 0 /\ tail = 0
  /\ semaphore \in {0, 1}
  /\ cmd = "NO_COMMAND"
  /\ call = [t \in Thread |-> "idle"]
  /\ logging = "starting" /\ main = "starting"
  /\ accepted = 0 /\ taken = 0
  /\ calls = 0 /\ sleeps = 0

-----------------------------------------------------------------------------
(* logEvent.                                                               *)

logEvent(t) ==
  /\ Awake
  /\ t \in Client \/ main = "run"
  /\ call[t] = "idle"
  /\ calls < MaxCalls
  /\ call' = [call EXCEPT ![t] = "trying"]
  /\ calls' = calls + 1
  /\ UNCHANGED <<ring, semaphore, cmd, logging, main, sleeps>>

\* Faulty variant: the slot at the tail is taken whatever it holds.
RoomAlways == TRUE

Room == eventItem[tail] = NoEvent

trySetEvent(t) ==
  /\ Awake
  /\ call[t] = "trying"
  /\ Room
  /\ eventItem' = [eventItem EXCEPT ![tail] = accepted + 1]
  /\ tail' = (tail + 1) % RING_BUF_SIZE
  /\ accepted' = accepted + 1
  /\ call' = [call EXCEPT ![t] = "posting"]
  /\ UNCHANGED <<head, taken, semaphore, cmd, logging, main, bounds>>

\* Faulty variant: a post only if the logging thread is known to wait.
PostIfWaiting == IF logging = "waiting" THEN semaphore + 1 ELSE semaphore

Post == semaphore + 1

sem_post(t) ==
  /\ Awake
  /\ call[t] = "posting"
  /\ semaphore' = Post
  /\ call' = [call EXCEPT ![t] = "idle"]
  /\ UNCHANGED <<ring, cmd, logging, main, bounds>>

\* Faulty variant: a call waits for room whatever the command is.
MayGiveUpNever == FALSE

MayGiveUp == cmd = "FINISH"

GiveUp(t) ==
  /\ Awake
  /\ call[t] = "trying"
  /\ ~Room
  /\ MayGiveUp
  /\ call' = [call EXCEPT ![t] = "idle"]
  /\ UNCHANGED <<ring, semaphore, cmd, logging, main, bounds>>

-----------------------------------------------------------------------------
(* The logging thread.                                                     *)

\* initLogFile; when it fails the files are removed and the thread ends.
OpenLogFile ==
  /\ logging = "opening"
  /\ \/ /\ logging' = "loop"
        /\ UNCHANGED call
     \/ /\ LogFileMayFail
        /\ logging' = "failing"
        /\ call' = [call EXCEPT !["logging"] = "trying"]
  /\ UNCHANGED <<ring, semaphore, cmd, main, bounds>>

FailureLogged ==
  /\ logging = "failing"
  /\ call["logging"] = "idle"
  /\ logging' = "meeting"
  /\ UNCHANGED <<ring, semaphore, cmd, call, main, bounds>>

CheckCommand ==
  /\ logging = "loop"
  /\ logging' = IF cmd \in {"FINISH", "SLEEP"} THEN "meeting" ELSE "waiting"
  /\ UNCHANGED <<ring, semaphore, cmd, call, main, bounds>>

sem_wait ==
  /\ logging = "waiting"
  /\ semaphore > 0
  /\ semaphore' = semaphore - 1
  /\ logging' = "woken"
  /\ UNCHANGED <<ring, cmd, call, main, bounds>>

\* Faulty variant: the event is written but its slot is not cleared.
KeptSlot == eventItem[head]

ClearedSlot == NoEvent

\* writeEvent clears the slot first, without the mutex of the ring.
writeEvent ==
  /\ logging = "woken"
  /\ \/ /\ eventItem[head] # NoEvent
        /\ eventItem' = [eventItem EXCEPT ![head] = ClearedSlot]
        /\ taken' = taken + 1
        /\ logging' = "writing"
     \/ /\ eventItem[head] = NoEvent
        /\ logging' = "loop"
        /\ UNCHANGED <<eventItem, taken>>
  /\ UNCHANGED <<head, tail, accepted, semaphore, cmd, call, main, bounds>>

\* Faulty variant: the head is not moved back to the first slot.
HeadAfterNoWrap == head + 1

HeadAfter == IF head + 1 = RING_BUF_SIZE THEN 0 ELSE head + 1

\* The rest of writeEvent; LogFile has what it does to the files.  The event
\* is written or, when an operation on the files fails, lost.
FinishWriting ==
  /\ logging = "writing"
  /\ head' = HeadAfter
  /\ logging' = "loop"
  /\ UNCHANGED <<eventItem, tail, accepted, taken, semaphore, cmd, call, main,
                 bounds>>

-----------------------------------------------------------------------------
(* Main.                                                                   *)

\* Rendezvous_meet of hRendezvousInitLG, at start-up and after wake-up.
LoggingStarted ==
  /\ main = "starting"
  /\ logging = "starting"
  /\ main' = "run" /\ logging' = "opening"
  /\ UNCHANGED <<ring, semaphore, cmd, call, bounds>>

\* change_command, for what the logging thread can see of it.
change_command(c) ==
  /\ main = "run"
  /\ call["main"] = "idle"
  /\ cmd' = c
  /\ \/ /\ c \in {"OTHER", "NO_COMMAND"}
        /\ c = "NO_COMMAND" => cmd = "NO_COMMAND"
        /\ UNCHANGED <<main, call, sleeps>>
     \/ /\ c = "SLEEP"
        /\ sleeps < MaxSleeps
        /\ sleeps' = sleeps + 1
        /\ main' = "polling"
        /\ UNCHANGED call
     \/ /\ c = "FINISH"
        /\ main' = "finishing"
        /\ call' = [call EXCEPT !["main"] = "trying"]
        /\ UNCHANGED sleeps
  /\ UNCHANGED <<ring, semaphore, logging, calls>>

\* poll_port_expander(1) found an interrupt: no sleep, and the command stays.
SleepAborted ==
  /\ main = "polling"
  /\ main' = "run"
  /\ UNCHANGED <<ring, semaphore, cmd, call, logging, bounds>>

SleepGoesOn ==
  /\ main = "polling"
  /\ main' = "sleeping"
  /\ call' = [call EXCEPT !["main"] = "trying"]
  /\ UNCHANGED <<ring, semaphore, cmd, logging, bounds>>

\* Rendezvous_meet of hRendezvousFinishLG and pthread_join.
LoggingStopped ==
  /\ main \in {"sleeping", "finishing"}
  /\ call["main"] = "idle"
  /\ logging = "meeting"
  /\ logging' = "ended"
  /\ main' = IF main = "sleeping" THEN "asleep" ELSE "off"
  /\ UNCHANGED <<ring, semaphore, cmd, call, bounds>>

WakeUp ==
  /\ main = "asleep"
  /\ cmd' = "NO_COMMAND"
  /\ main' = "starting" /\ logging' = "starting"
  /\ UNCHANGED <<ring, semaphore, call, bounds>>

-----------------------------------------------------------------------------

Calling(t) == trySetEvent(t) \/ sem_post(t) \/ GiveUp(t)

LoggingThread ==
  \/ OpenLogFile \/ FailureLogged \/ CheckCommand
  \/ sem_wait \/ writeEvent \/ FinishWriting

MainGoesOn ==
  \/ LoggingStarted \/ SleepAborted \/ SleepGoesOn
  \/ LoggingStopped \/ WakeUp

Next ==
  \/ \E t \in Client \cup {"main"} : logEvent(t)
  \/ \E t \in Thread : Calling(t)
  \/ LoggingThread
  \/ MainGoesOn
  \/ \E c \in Command : change_command(c)

Spec == Init /\ [][Next]_vars

\* Every thread runs on; new calls and new commands may stay away.
Fairness ==
  /\ \A t \in Thread : WF_vars(Calling(t))
  /\ WF_vars(LoggingThread)
  /\ WF_vars(MainGoesOn)

FairSpec == Spec /\ Fairness

-----------------------------------------------------------------------------
(* Properties.                                                             *)

(* The types of the ring and of the places of the threads.                 *)
TypeOK ==
  /\ eventItem \in [Index -> Nat]
  /\ head \in Index /\ tail \in Index
  /\ semaphore \in Nat
  /\ cmd \in Command
  /\ call \in [Thread -> {"idle", "trying", "posting"}]
  /\ logging \in {"starting", "opening", "failing", "loop", "waiting",
                  "woken", "writing", "meeting", "ended"}
  /\ main \in {"starting", "run", "polling", "sleeping", "asleep",
               "finishing", "off"}
  /\ accepted \in Nat /\ taken \in Nat
  /\ calls \in 0 .. MaxCalls /\ sleeps \in 0 .. MaxSleeps

Pending == accepted - taken

\* The slot the next event is taken from: writeEvent clears a slot before it
\* moves the head.
Front == IF logging = "writing" THEN (head + 1) % RING_BUF_SIZE ELSE head

(* The ring is a queue although the logging thread clears slots and moves
   the head without the mutex: the events that were accepted and not taken
   are in it, each once, in the order they were logged, and nothing else.  *)
RingInOrder ==
  /\ Pending \in 0 .. RING_BUF_SIZE
  /\ \A k \in 0 .. RING_BUF_SIZE - 1 :
       eventItem[(Front + k) % RING_BUF_SIZE] =
         IF k < Pending THEN taken + k + 1 ELSE NoEvent

(* The ring is the queue of events that logEvent promises: nothing that was
   accepted is lost or overtaken, a call comes back without its event in the
   ring only when the ring is full and the device finishes, and FINISH is for
   good, although other threads wait 30 ms with the command they have read
   (logging.h:228-254).                                                    *)
Queue ==
  INSTANCE EventQueue WITH
    Caller    <- Thread,
    Room      <- RING_BUF_SIZE,
    queue     <- [k \in 1 .. Pending |->
                    eventItem[(Front + (k - 1)) % RING_BUF_SIZE]],
    finishing <- cmd = "FINISH"

ImplementsQueue == Queue!Spec

Posting == {t \in Thread : call[t] = "posting"}

(* No event waits in the ring for a wake-up that nobody will send: every one
   has a post on its way, in the semaphore or in the logging thread's hands,
   and at most one post, that of the event before initEventRingBuf, is for
   nothing.                                                                *)
PostsCover ==
  LET posts == semaphore + Cardinality(Posting)
                 + (IF logging = "woken" THEN 1 ELSE 0)
  IN  posts \in Pending .. Pending + 1

Serving == logging \in {"loop", "waiting", "woken", "writing"}

(* As long as the logging thread is in its loop, an event in the ring is
   written in the end.                                                     *)
EventsReachFile ==
  \A e \in 1 .. MaxCalls :
    accepted >= e /\ taken < e ~> taken >= e \/ ~Serving

(* As long as the logging thread is in its loop, no call of logEvent goes on
   for ever.                                                               *)
CallsReturn ==
  \A t \in Thread : call[t] = "trying" ~> call[t] = "idle" \/ ~Serving

(* The event that main logs on FINISH wakes the logging thread, or the thread
   needs no wake-up: main always meets it and the device goes off.         *)
FinishGoesOff == cmd = "FINISH" ~> main = "off"

(* main.c:1277: when the port expander has an interrupt the device does not
   go to sleep, so while main runs and neither sleeps nor finishes the
   logging thread is there to log.                                         *)
AwakeLogs ==
  main = "run" /\ cmd \in {"NO_COMMAND", "OTHER"} =>
    logging \in {"opening", "failing", "loop", "waiting", "woken", "writing"}
=============================================================================
