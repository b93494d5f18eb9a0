------------------------- MODULE EventRing_proofs -------------------------
(***************************************************************************)
(* Proofs about EventRing, for a ring of any size, any threads that log    *)
(* and any number of calls and sleeps.                                     *)
(***************************************************************************)
EXTENDS EventRing, Sequences, FiniteSetTheorems, TLAPS

\* The tail lies behind the events that were not taken yet.
TailInv == tail = (Front + Pending) % RING_BUF_SIZE

\* The logging thread is joined before the device sleeps.
SleepInv == main = "asleep" => logging = "ended"

\* Main and the logging thread log only where they are not already in logEvent.
CallInv ==
  /\ main = "polling" => call["main"] = "idle"
  /\ logging # "failing" => call["logging"] = "idle"

\* Nothing follows the command to finish.
FinishInv == cmd = "FINISH" => main \in {"finishing", "off"}

\* When main waits for the logging thread to end, and that waits for a post,
\* there is one, or a thread that makes one.
WakeInv ==
  /\ main \in {"polling", "sleeping"} => cmd = "SLEEP"
  /\ main = "finishing" => cmd = "FINISH"
  /\ main \in {"sleeping", "finishing"} /\ logging = "waiting" =>
       semaphore > 0 \/ Posting # {} \/ call["main"] = "trying"

\* The invariant that the steps keep.
IInv ==
  /\ TypeOK /\ SleepInv /\ CallInv /\ FinishInv
  /\ TailInv /\ RingInOrder /\ PostsCover /\ WakeInv

-----------------------------------------------------------------------------
(* Remainders: the slots of a ring of m slots.                             *)

LEMMA ModBelow ==
  ASSUME NEW m \in Nat \ {0}, NEW a \in 0 .. m - 1
  PROVE  a % m = a
  OBVIOUS

LEMMA ModAbove ==
  ASSUME NEW m \in Nat \ {0}, NEW a \in m .. 2 * m - 1
  PROVE  a % m = a - m
  OBVIOUS

(* The k-th slot from a on.                                                *)
LEMMA Wrap ==
  ASSUME NEW m \in Nat \ {0}, NEW a \in 0 .. m - 1, NEW k \in 0 .. m
  PROVE  (a + k) % m = IF a + k < m THEN a + k ELSE a + k - m
  <1>1. CASE a + k < m
    BY <1>1, ModBelow
  <1>2. CASE ~(a + k < m)
    <2>1. a + k \in m .. 2 * m - 1
      BY <1>2
    <2> QED
      BY <1>2, <2>1, ModAbove
  <1> QED
    BY <1>1, <1>2

(* Slots less than a round apart are different.                            *)
LEMMA WrapDistinct ==
  ASSUME NEW m \in Nat \ {0}, NEW a \in 0 .. m - 1,
         NEW k \in 0 .. m - 1, NEW l \in 0 .. m - 1,
         (a + k) % m = (a + l) % m
  PROVE  k = l
  <1>1. k \in 0 .. m /\ l \in 0 .. m
    OBVIOUS
  <1> DEFINE b == (a + k) % m
             c == (a + l) % m
  <1>2. b = IF a + k < m THEN a + k ELSE a + k - m
    BY <1>1, Wrap
  <1>3. c = IF a + l < m THEN a + l ELSE a + l - m
    BY <1>1, Wrap
  <1>4. b = c
    OBVIOUS
  <1> HIDE DEF b, c
  <1> QED
    BY <1>2, <1>3, <1>4

(* The slot after the k-th, and the k-th from the next one on.             *)
LEMMA WrapNext ==
  ASSUME NEW m \in Nat \ {0}, NEW a \in 0 .. m - 1, NEW k \in 0 .. m - 1
  PROVE  /\ (a + k) % m \in 0 .. m - 1
         /\ (((a + k) % m) + 1) % m = (a + (k + 1)) % m
         /\ (((a + 1) % m) + k) % m = (a + (k + 1)) % m
  <1>1. k \in 0 .. m /\ 1 \in 0 .. m /\ k + 1 \in 0 .. m
    OBVIOUS
  <1> DEFINE b == (a + k) % m
             c == (a + 1) % m
             d == (a + (k + 1)) % m
  <1>2. b = IF a + k < m THEN a + k ELSE a + k - m
    BY <1>1, Wrap
  <1>3. c = IF a + 1 < m THEN a + 1 ELSE a + 1 - m
    BY <1>1, Wrap
  <1>4. d = IF a + (k + 1) < m THEN a + (k + 1) ELSE a + (k + 1) - m
    BY <1>1, Wrap
  <1> HIDE DEF b, c, d
  <1>5. b \in 0 .. m - 1 /\ c \in 0 .. m - 1
    BY <1>2, <1>3
  <1>6. (b + 1) % m = IF b + 1 < m THEN b + 1 ELSE b + 1 - m
    BY <1>1, <1>5, Wrap
  <1>7. (c + k) % m = IF c + k < m THEN c + k ELSE c + k - m
    BY <1>1, <1>5, Wrap
  <1>8. (b + 1) % m = d /\ (c + k) % m = d
    BY <1>2, <1>3, <1>4, <1>6, <1>7
  <1> QED
    BY <1>5, <1>8 DEF b, c, d

(* A whole round ends at the slot it began with.                           *)
LEMMA WrapRound ==
  ASSUME NEW m \in Nat \ {0}, NEW a \in 0 .. m - 1
  PROVE  (a + m) % m = a /\ (a + 0) % m = a
  <1>1. m \in 0 .. m /\ 0 \in 0 .. m
    OBVIOUS
  <1>2. (a + m) % m = IF a + m < m THEN a + m ELSE a + m - m
    BY <1>1, Wrap
  <1>3. (a + 0) % m = IF a + 0 < m THEN a + 0 ELSE a + 0 - m
    BY <1>1, Wrap
  <1> QED
    BY <1>2, <1>3

-----------------------------------------------------------------------------
(* Each step keeps the types.                                              *)
LEMMA TypeStep == TypeOK /\ SleepInv /\ [Next]_vars => TypeOK' /\ SleepInv'
  <1> SUFFICES ASSUME TypeOK, SleepInv, [Next]_vars PROVE TypeOK' /\ SleepInv'
    OBVIOUS
  <1> USE DEF TypeOK, SleepInv
  <1>1. ASSUME NEW t \in Client \cup {"main"}, logEvent(t)
        PROVE  TypeOK' /\ SleepInv'
    <2>1. calls + 1 \in 0 .. MaxCalls
      BY <1>1, RingAssumption DEF logEvent
    <2> QED
      BY <1>1, <2>1 DEF logEvent, ring
  <1>2. ASSUME NEW t \in Thread, trySetEvent(t)
        PROVE  TypeOK' /\ SleepInv'
    <2>1. (tail + 1) % RING_BUF_SIZE \in Index
      BY RingAssumption, WrapNext DEF Index
    <2>2. eventItem' \in [Index -> Nat]
      BY <1>2 DEF trySetEvent
    <2> QED
      BY <1>2, <2>1, <2>2 DEF trySetEvent, bounds
  <1>3. ASSUME NEW t \in Thread, sem_post(t)
        PROVE  TypeOK' /\ SleepInv'
    BY <1>3 DEF sem_post, Post, ring, bounds
  <1>4. ASSUME NEW t \in Thread, GiveUp(t)
        PROVE  TypeOK' /\ SleepInv'
    BY <1>4 DEF GiveUp, ring, bounds
  <1>5. CASE OpenLogFile
    BY <1>5 DEF OpenLogFile, ring, bounds
  <1>6. CASE FailureLogged
    BY <1>6 DEF FailureLogged, ring, bounds
  <1>7. CASE CheckCommand
    BY <1>7 DEF CheckCommand, ring, bounds
  <1>8. CASE sem_wait
    BY <1>8 DEF sem_wait, ring, bounds
  <1>9. CASE writeEvent
    <2>1. eventItem' \in [Index -> Nat]
      BY <1>9 DEF writeEvent, ClearedSlot, NoEvent
    <2> QED
      BY <1>9, <2>1 DEF writeEvent, bounds
  <1>10. CASE FinishWriting
    <2>1. HeadAfter \in Index
      BY RingAssumption DEF HeadAfter, Index
    <2> QED
      BY <1>10, <2>1 DEF FinishWriting, bounds
  <1>11. CASE LoggingStarted
    BY <1>11 DEF LoggingStarted, ring, bounds
  <1>12. CASE SleepAborted
    BY <1>12 DEF SleepAborted, ring, bounds
  <1>13. CASE SleepGoesOn
    BY <1>13 DEF SleepGoesOn, ring, bounds
  <1>14. CASE LoggingStopped
    BY <1>14 DEF LoggingStopped, ring, bounds
  <1>15. CASE WakeUp
    BY <1>15 DEF WakeUp, ring, bounds, Command
  <1>16. ASSUME NEW c \in Command, change_command(c)
         PROVE  TypeOK' /\ SleepInv'
    <2>1. sleeps' \in 0 .. MaxSleeps
      BY <1>16, RingAssumption DEF change_command
    <2> QED
      BY <1>16, <2>1 DEF change_command, ring
  <1>17. CASE UNCHANGED vars
    BY <1>17 DEF vars, ring, bounds
  <1> QED
    BY <1>1, <1>2, <1>3, <1>4, <1>5, <1>6, <1>7, <1>8, <1>9, <1>10, <1>11,
       <1>12, <1>13, <1>14, <1>15, <1>16, <1>17
       DEF Next, Calling, LoggingThread, MainGoesOn

-----------------------------------------------------------------------------
(* The front of the queue is a slot, and there are at most as many events  *)
(* as slots.                                                               *)
LEMMA Places ==
  ASSUME TypeOK, RingInOrder
  PROVE  /\ RING_BUF_SIZE \in Nat \ {0}
         /\ Front \in 0 .. RING_BUF_SIZE - 1
         /\ Pending \in 0 .. RING_BUF_SIZE
         /\ taken \in Nat /\ accepted = taken + Pending
  <1>1. RING_BUF_SIZE \in Nat \ {0} /\ head \in 0 .. RING_BUF_SIZE - 1
    BY RingAssumption DEF TypeOK, Index
  <1>2. 0 \in 0 .. RING_BUF_SIZE /\ 1 \in 0 .. RING_BUF_SIZE
    BY <1>1
  <1>3. (head + 1) % RING_BUF_SIZE = IF head + 1 < RING_BUF_SIZE THEN head + 1
                                     ELSE head + 1 - RING_BUF_SIZE
    BY <1>1, <1>2, Wrap
  <1>4. Front \in 0 .. RING_BUF_SIZE - 1
    BY <1>1, <1>3 DEF Front
  <1>5. taken \in Nat /\ accepted \in Nat
    BY DEF TypeOK
  <1> QED
    BY <1>1, <1>4, <1>5 DEF RingInOrder, Pending

(* A step that leaves the ring alone, and does not end a write, keeps it.  *)
LEMMA RingSame ==
  ASSUME TailInv, RingInOrder, UNCHANGED ring, Front' = Front
  PROVE  TailInv' /\ RingInOrder'
  BY DEF TailInv, RingInOrder, Pending, ring

(* An event that finds room is the last of the queue.                      *)
LEMMA RingGrows ==
  ASSUME TypeOK, TailInv, RingInOrder, NEW t \in Thread, trySetEvent(t)
  PROVE  TailInv' /\ RingInOrder'
  <1> DEFINE m == RING_BUF_SIZE
             f == Front
             p == Pending
  <1>1. /\ m \in Nat \ {0} /\ f \in 0 .. m - 1 /\ p \in 0 .. m
        /\ taken \in Nat /\ accepted = taken + p
    BY Places
  <1>2. /\ tail = (f + p) % m
        /\ \A k \in 0 .. m - 1 : eventItem[(f + k) % m] =
                                   IF k < p THEN taken + k + 1 ELSE NoEvent
    BY DEF TailInv, RingInOrder
  <1>3. /\ eventItem \in [Index -> Nat] /\ tail \in Index
        /\ eventItem[tail] = NoEvent
        /\ eventItem' = [eventItem EXCEPT ![tail] = accepted + 1]
        /\ tail' = (tail + 1) % m /\ accepted' = accepted + 1
        /\ UNCHANGED <<taken, head, logging>>
    BY DEF TypeOK, trySetEvent, Room
  <1>4. Front' = f
    BY <1>3 DEF Front
  <1>4a. Pending' = accepted' - taken'
    BY DEF Pending
  <1> HIDE DEF m, f, p
  <1>5. p # m
    <2> SUFFICES ASSUME p = m PROVE FALSE
      OBVIOUS
    <2>1. tail = f /\ (f + 0) % m = f
      BY <1>1, <1>2, WrapRound
    <2>2. 0 \in 0 .. m - 1 /\ 0 < p
      BY <1>1
    <2>3. eventItem[f] = taken + 0 + 1
      BY <1>2, <2>1, <2>2
    <2> QED
      BY <1>1, <1>3, <2>1, <2>3 DEF NoEvent
  <1>6. p \in 0 .. m - 1 /\ p + 1 \in 0 .. m
    BY <1>1, <1>5
  <1>7. Pending' = p + 1
    BY <1>1, <1>3, <1>4a
  <1>8. tail' = (f + (p + 1)) % m
    BY <1>1, <1>2, <1>3, <1>6, WrapNext
  <1>9. ASSUME NEW k \in 0 .. m - 1
        PROVE  eventItem'[(f + k) % m] =
                 IF k < p + 1 THEN taken + k + 1 ELSE NoEvent
    <2>1. CASE k = p
      <3>1. (f + k) % m = tail /\ k < p + 1
        BY <1>1, <1>2, <2>1
      <3>2. eventItem'[tail] = taken + k + 1
        BY <1>1, <1>3, <2>1
      <3> QED
        BY <3>1, <3>2
    <2>2. CASE k # p
      <3>1. (f + k) % m # tail
        BY <1>1, <1>2, <1>6, <2>2, WrapDistinct
      <3>2. eventItem'[(f + k) % m] = eventItem[(f + k) % m]
        BY <1>3, <3>1
      <3>3. k < p + 1 <=> k < p
        BY <1>1, <2>2
      <3> QED
        BY <1>2, <3>2, <3>3
    <2> QED
      BY <2>1, <2>2
  <1>10. TailInv'
    BY <1>4, <1>7, <1>8 DEF TailInv, m, f
  <1>11. RingInOrder'
    BY <1>3, <1>4, <1>6, <1>7, <1>9 DEF RingInOrder, m, f
  <1> QED
    BY <1>10, <1>11

(* The event that is taken is the first of the queue.                      *)
LEMMA RingShrinks ==
  ASSUME TypeOK, TailInv, RingInOrder, writeEvent
  PROVE  TailInv' /\ RingInOrder'
  <1> DEFINE m == RING_BUF_SIZE
             h == head
             p == Pending
  <1>1. /\ m \in Nat \ {0} /\ Front \in 0 .. m - 1 /\ p \in 0 .. m
        /\ taken \in Nat /\ accepted = taken + p
    BY Places
  <1>2. logging = "woken" /\ Front = h
    BY DEF writeEvent, Front
  <1>3. /\ tail = (h + p) % m
        /\ \A k \in 0 .. m - 1 : eventItem[(h + k) % m] =
                                   IF k < p THEN taken + k + 1 ELSE NoEvent
    BY <1>2 DEF TailInv, RingInOrder
  <1>4. CASE eventItem[head] = NoEvent
    <2>1. UNCHANGED ring /\ logging' = "loop"
      BY <1>4 DEF writeEvent, ring
    <2>2. Front' = Front
      BY <1>2, <2>1 DEF Front, ring
    <2> QED
      BY <2>1, <2>2, RingSame
  <1>5. CASE eventItem[head] # NoEvent
    <2>1. /\ eventItem \in [Index -> Nat] /\ h \in Index
          /\ eventItem' = [eventItem EXCEPT ![h] = NoEvent]
          /\ taken' = taken + 1 /\ logging' = "writing"
          /\ UNCHANGED <<head, tail, accepted>>
      BY <1>5 DEF TypeOK, writeEvent, ClearedSlot
    <2>2. Front' = (h + 1) % m /\ Pending' = accepted - (taken + 1)
      BY <2>1 DEF Front, Pending
    <2>3. h \in 0 .. m - 1
      BY <1>1, <1>2
    <2>4. eventItem[h] # NoEvent
      BY <1>5
    <2> HIDE DEF m, h, p
    <2>5. (h + 0) % m = h /\ (h + m) % m = h
      BY <1>1, <2>3, WrapRound
    <2>6. 0 \in 0 .. m - 1
      BY <1>1
    <2>7. 0 < p
      BY <1>3, <2>4, <2>5, <2>6
    <2>8. /\ p - 1 \in 0 .. m - 1 /\ p - 1 \in 0 .. m /\ Pending' = p - 1
          /\ (p - 1) + 1 = p
      BY <1>1, <2>2, <2>7
    <2>9. tail' = (((h + 1) % m) + (p - 1)) % m
      BY <1>1, <1>3, <2>1, <2>3, <2>8, WrapNext
    <2>10. ASSUME NEW k \in 0 .. m - 1
           PROVE  eventItem'[(((h + 1) % m) + k) % m] =
                    IF k < p - 1 THEN (taken + 1) + k + 1 ELSE NoEvent
      <3>1. (((h + 1) % m) + k) % m = (h + (k + 1)) % m
        BY <1>1, <2>3, WrapNext
      <3>2. CASE k = m - 1
        <4>1. k + 1 = m /\ ~(k < p - 1)
          BY <1>1, <3>2
        <4>2. (((h + 1) % m) + k) % m = h
          BY <2>5, <3>1, <4>1
        <4>3. eventItem'[h] = NoEvent
          BY <2>1
        <4> QED
          BY <4>1, <4>2, <4>3
      <3>3. CASE k # m - 1
        <4>1. k + 1 \in 0 .. m - 1 /\ k + 1 # 0
          BY <1>1, <3>3
        <4>2. (h + (k + 1)) % m # (h + 0) % m
          BY <1>1, <2>3, <2>6, <4>1, WrapDistinct
        <4>3. eventItem'[(h + (k + 1)) % m] = eventItem[(h + (k + 1)) % m]
          BY <2>1, <2>5, <4>2
        <4>4. /\ k + 1 < p <=> k < p - 1
              /\ taken + (k + 1) + 1 = (taken + 1) + k + 1
          BY <1>1
        <4>5. eventItem[(h + (k + 1)) % m] =
                IF k + 1 < p THEN taken + (k + 1) + 1 ELSE NoEvent
          BY <1>3, <4>1
        <4> QED
          BY <3>1, <4>3, <4>4, <4>5
      <3> QED
        BY <3>2, <3>3
    <2>11. TailInv'
      BY <2>2, <2>8, <2>9 DEF TailInv, m
    <2>12. RingInOrder'
      BY <2>1, <2>2, <2>8, <2>10 DEF RingInOrder, m
    <2> QED
      BY <2>11, <2>12
  <1> QED
    BY <1>4, <1>5

(* The head moves only when the slot it leaves is clear.                   *)
LEMMA HeadMoves ==
  ASSUME TypeOK, TailInv, RingInOrder, FinishWriting
  PROVE  TailInv' /\ RingInOrder'
  <1> DEFINE m == RING_BUF_SIZE
  <1>1. m \in Nat \ {0} /\ head \in 0 .. m - 1
    BY RingAssumption DEF TypeOK, Index
  <1>2. 1 \in 0 .. m
    BY <1>1
  <1>3. (head + 1) % m = IF head + 1 < m THEN head + 1 ELSE head + 1 - m
    BY <1>1, <1>2, Wrap
  <1>4. head' = HeadAfter /\ logging = "writing" /\ logging' = "loop"
        /\ UNCHANGED <<eventItem, tail, accepted, taken>>
    BY DEF FinishWriting
  <1>5. HeadAfter = IF head + 1 = m THEN 0 ELSE head + 1
    BY DEF HeadAfter
  <1>6. Front' = head' /\ Front = (head + 1) % m
    BY <1>4 DEF Front
  <1> HIDE DEF m
  <1>7. Front' = Front
    BY <1>1, <1>3, <1>4, <1>5, <1>6
  <1>8. Pending' = Pending
    BY <1>4 DEF Pending
  <1> QED
    BY <1>4, <1>7, <1>8 DEF TailInv, RingInOrder

(* Each step keeps the queue in the ring.                                  *)
LEMMA RingStep ==
  ASSUME TypeOK, SleepInv, TailInv, RingInOrder, [Next]_vars
  PROVE  TailInv' /\ RingInOrder'
  <1>1. ASSUME NEW t \in Thread, trySetEvent(t)
        PROVE  TailInv' /\ RingInOrder'
    BY <1>1, RingGrows
  <1>2. CASE writeEvent
    BY <1>2, RingShrinks
  <1>3. CASE FinishWriting
    BY <1>3, HeadMoves
  <1>4. ASSUME UNCHANGED ring, UNCHANGED logging
        PROVE  TailInv' /\ RingInOrder'
    <2>1. Front' = Front
      BY <1>4 DEF Front, ring
    <2> QED
      BY <1>4, <2>1, RingSame
  <1>5. ASSUME UNCHANGED ring, logging # "writing", logging' # "writing"
        PROVE  TailInv' /\ RingInOrder'
    <2>1. Front' = Front
      BY <1>5 DEF Front, ring
    <2> QED
      BY <1>5, <2>1, RingSame
  <1>6. ASSUME NEW t \in Client \cup {"main"}, logEvent(t)
        PROVE  TailInv' /\ RingInOrder'
    BY <1>4, <1>6 DEF logEvent
  <1>7. ASSUME NEW t \in Thread, sem_post(t)
        PROVE  TailInv' /\ RingInOrder'
    BY <1>4, <1>7 DEF sem_post
  <1>8. ASSUME NEW t \in Thread, GiveUp(t)
        PROVE  TailInv' /\ RingInOrder'
    BY <1>4, <1>8 DEF GiveUp
  <1>9. CASE OpenLogFile
    BY <1>5, <1>9 DEF OpenLogFile
  <1>10. CASE FailureLogged
    BY <1>5, <1>10 DEF FailureLogged
  <1>11. CASE CheckCommand
    BY <1>5, <1>11 DEF CheckCommand
  <1>12. CASE sem_wait
    BY <1>5, <1>12 DEF sem_wait
  <1>13. CASE LoggingStarted
    BY <1>5, <1>13 DEF LoggingStarted
  <1>14. CASE SleepAborted \/ SleepGoesOn
    BY <1>4, <1>14 DEF SleepAborted, SleepGoesOn
  <1>15. CASE LoggingStopped
    BY <1>5, <1>15 DEF LoggingStopped
  <1>16. CASE WakeUp
    BY <1>5, <1>16 DEF WakeUp, SleepInv
  <1>17. ASSUME NEW c \in Command, change_command(c)
         PROVE  TailInv' /\ RingInOrder'
    BY <1>4, <1>17 DEF change_command
  <1>18. CASE UNCHANGED vars
    BY <1>4, <1>18 DEF vars
  <1> QED
    BY <1>1, <1>2, <1>3, <1>6, <1>7, <1>8, <1>9, <1>10, <1>11, <1>12, <1>13,
       <1>14, <1>15, <1>16, <1>17, <1>18
       DEF Next, Calling, LoggingThread, MainGoesOn

-----------------------------------------------------------------------------
(* Each step keeps main and the logging thread out of a second logEvent.   *)
LEMMA CallStep ==
  ASSUME TypeOK, SleepInv, CallInv, [Next]_vars
  PROVE  CallInv'
  <1> USE ClientAssumption DEF TypeOK, CallInv, Thread
  <1>1. ASSUME NEW t \in Client \cup {"main"}, logEvent(t)
        PROVE  CallInv'
    BY <1>1 DEF logEvent
  <1>2. ASSUME NEW t \in Thread, Calling(t)
        PROVE  CallInv'
    BY <1>2 DEF Calling, trySetEvent, sem_post, GiveUp
  <1>3. CASE OpenLogFile
    BY <1>3 DEF OpenLogFile
  <1>4. CASE FailureLogged
    BY <1>4 DEF FailureLogged
  <1>5. CASE CheckCommand \/ sem_wait
    BY <1>5 DEF CheckCommand, sem_wait
  <1>6. CASE writeEvent \/ FinishWriting
    BY <1>6 DEF writeEvent, FinishWriting
  <1>7. CASE LoggingStarted \/ LoggingStopped \/ WakeUp
    BY <1>7 DEF LoggingStarted, LoggingStopped, WakeUp, SleepInv
  <1>8. CASE SleepAborted \/ SleepGoesOn
    BY <1>8 DEF SleepAborted, SleepGoesOn
  <1>9. ASSUME NEW c \in Command, change_command(c)
        PROVE  CallInv'
    BY <1>9 DEF change_command
  <1>10. CASE UNCHANGED vars
    BY <1>10 DEF vars
  <1> QED
    BY <1>1, <1>2, <1>3, <1>4, <1>5, <1>6, <1>7, <1>8, <1>9, <1>10
       DEF Next, LoggingThread, MainGoesOn

-----------------------------------------------------------------------------
(* The threads between trySetEvent and sem_post are finitely many.         *)
LEMMA PostingFinite ==
  /\ IsFiniteSet(Posting)
  /\ Cardinality(Posting) \in Nat
  <1>1. IsFiniteSet(Client \cup {"main"})
    BY ClientAssumption, FS_AddElement
  <1>2. IsFiniteSet((Client \cup {"main"}) \cup {"logging"})
    BY <1>1, FS_AddElement
  <1>3. Thread = (Client \cup {"main"}) \cup {"logging"}
    BY DEF Thread
  <1>4. IsFiniteSet(Thread)
    BY <1>2, <1>3
  <1>5. Posting \in SUBSET Thread
    BY DEF Posting
  <1>6. IsFiniteSet(Posting)
    BY <1>4, <1>5, FS_Subset
  <1> QED
    BY <1>6, FS_CardinalityType

(* The slot at the head is clear when the ring is empty, and only then.    *)
LEMMA EmptyRing ==
  ASSUME TypeOK, RingInOrder, logging = "woken"
  PROVE  eventItem[head] = NoEvent <=> Pending = 0
  <1>1. /\ RING_BUF_SIZE \in Nat \ {0} /\ head \in 0 .. RING_BUF_SIZE - 1
        /\ Pending \in 0 .. RING_BUF_SIZE /\ taken \in Nat /\ Front = head
    BY Places DEF Front
  <1>2. (head + 0) % RING_BUF_SIZE = head
    BY <1>1, WrapRound
  <1>3. 0 \in 0 .. RING_BUF_SIZE - 1
    BY <1>1
  <1>4. eventItem[(head + 0) % RING_BUF_SIZE] =
          IF 0 < Pending THEN taken + 0 + 1 ELSE NoEvent
    BY <1>1, <1>3 DEF RingInOrder
  <1> QED
    BY <1>1, <1>2, <1>4 DEF NoEvent

(* Each step keeps the events covered by posts.                            *)
LEMMA PostStep ==
  ASSUME TypeOK, SleepInv, CallInv, RingInOrder, PostsCover, [Next]_vars
  PROVE  PostsCover'
  <1> DEFINE c == Cardinality(Posting)
             w == IF logging = "woken" THEN 1 ELSE 0
             p == Pending
  <1>1. /\ c \in Nat /\ semaphore \in Nat /\ accepted \in Nat /\ taken \in Nat
        /\ p = accepted - taken /\ p \in Nat
        /\ semaphore + c + w \in p .. p + 1
    <2>1. p \in Nat
      BY Places
    <2>2. semaphore + c + w \in p .. p + 1
      BY DEF PostsCover
    <2> QED
      BY <2>1, <2>2, PostingFinite DEF TypeOK, Pending
  <1>2. PostsCover' <=> semaphore' + c' + w' \in p' .. p' + 1
    BY DEF PostsCover
  <1>3. p' = accepted' - taken'
    BY DEF Pending
  <1>4. w \in {0, 1} /\ w' \in {0, 1}
    OBVIOUS
  <1>5. UNCHANGED call => c' = c
    BY DEF Posting
  <1>6. ASSUME NEW t \in Thread, call[t] # "posting",
               call' = [call EXCEPT ![t] = "trying"]
                 \/ call' = [call EXCEPT ![t] = "idle"]
        PROVE  c' = c
    <2>1. Posting' = Posting
      BY <1>6 DEF Posting, TypeOK
    <2> QED
      BY <2>1
  <1>7. ASSUME UNCHANGED <<semaphore, accepted, taken>>, c' = c, w' = w
        PROVE  PostsCover'
    BY <1>1, <1>2, <1>3, <1>7
  <1>8. ASSUME NEW t \in Client \cup {"main"}, logEvent(t)
        PROVE  PostsCover'
    <2>1. t \in Thread
      BY DEF Thread
    <2>2. c' = c
      BY <1>6, <1>8, <2>1 DEF logEvent
    <2> QED
      BY <1>7, <1>8, <2>2 DEF logEvent, ring
  <1>9. ASSUME NEW t \in Thread, trySetEvent(t)
        PROVE  PostsCover'
    <2>1. t \notin Posting /\ Posting' = Posting \cup {t}
      BY <1>9 DEF trySetEvent, Posting, TypeOK
    <2>2. c' = c + 1
      BY <2>1, PostingFinite, FS_AddElement
    <2>3. semaphore' = semaphore /\ accepted' = accepted + 1 /\ taken' = taken
          /\ w' = w
      BY <1>9 DEF trySetEvent
    <2> QED
      BY <1>1, <1>2, <1>3, <1>4, <2>2, <2>3
  <1>10. ASSUME NEW t \in Thread, sem_post(t)
         PROVE  PostsCover'
    <2>1. t \in Posting /\ Posting' = Posting \ {t}
      BY <1>10 DEF sem_post, Posting, TypeOK
    <2>2. c' = c - 1
      BY <2>1, PostingFinite, FS_RemoveElement
    <2>3. semaphore' = semaphore + 1 /\ accepted' = accepted /\ taken' = taken
          /\ w' = w
      BY <1>10 DEF sem_post, Post, ring
    <2> QED
      BY <1>1, <1>2, <1>3, <1>4, <2>2, <2>3
  <1>11. ASSUME NEW t \in Thread, GiveUp(t)
         PROVE  PostsCover'
    <2>1. c' = c
      BY <1>6, <1>11 DEF GiveUp
    <2> QED
      BY <1>7, <1>11, <2>1 DEF GiveUp, ring
  <1>12. CASE OpenLogFile
    <2>1. c' = c
      <3>1. "logging" \in Thread /\ call["logging"] = "idle"
        BY <1>12 DEF OpenLogFile, CallInv, Thread
      <3> QED
        BY <1>5, <1>6, <1>12, <3>1 DEF OpenLogFile
    <2> QED
      BY <1>7, <1>12, <2>1 DEF OpenLogFile, ring
  <1>13. CASE FailureLogged \/ CheckCommand
    BY <1>5, <1>7, <1>13 DEF FailureLogged, CheckCommand, ring
  <1>14. CASE sem_wait
    <2>1. c' = c /\ w = 0 /\ w' = 1 /\ accepted' = accepted /\ taken' = taken
          /\ semaphore' = semaphore - 1
      BY <1>5, <1>14 DEF sem_wait, ring
    <2> QED
      BY <1>1, <1>2, <1>3, <2>1
  <1>15. CASE writeEvent
    <2>1. c' = c /\ w = 1 /\ w' = 0 /\ accepted' = accepted
          /\ semaphore' = semaphore
      BY <1>5, <1>15 DEF writeEvent
    <2>2. CASE eventItem[head] # NoEvent
      <3>1. taken' = taken + 1
        BY <1>15, <2>2 DEF writeEvent
      <3>2. p # 0
        BY <1>15, <2>2, EmptyRing DEF writeEvent
      <3> QED
        BY <1>1, <1>2, <1>3, <2>1, <3>1, <3>2
    <2>3. CASE eventItem[head] = NoEvent
      <3>1. taken' = taken
        BY <1>15, <2>3 DEF writeEvent
      <3>2. p = 0
        BY <1>15, <2>3, EmptyRing DEF writeEvent
      <3> QED
        BY <1>1, <1>2, <1>3, <2>1, <3>1, <3>2
    <2> QED
      BY <2>2, <2>3
  <1>16. CASE FinishWriting
    BY <1>5, <1>7, <1>16 DEF FinishWriting
  <1>17. CASE LoggingStarted \/ SleepAborted \/ LoggingStopped
    BY <1>5, <1>7, <1>17 DEF LoggingStarted, SleepAborted, LoggingStopped, ring
  <1>18. CASE SleepGoesOn
    <2>1. "main" \in Thread /\ call["main"] = "idle"
      BY <1>18 DEF SleepGoesOn, CallInv, Thread
    <2>2. c' = c
      BY <1>6, <1>18, <2>1 DEF SleepGoesOn
    <2> QED
      BY <1>7, <1>18, <2>2 DEF SleepGoesOn, ring
  <1>19. CASE WakeUp
    BY <1>5, <1>7, <1>19 DEF WakeUp, SleepInv, ring
  <1>20. ASSUME NEW d \in Command, change_command(d)
         PROVE  PostsCover'
    <2>1. "main" \in Thread /\ call["main"] = "idle"
      BY <1>20 DEF change_command, Thread
    <2>2. c' = c
      BY <1>5, <1>6, <1>20, <2>1 DEF change_command
    <2> QED
      BY <1>7, <1>20, <2>2 DEF change_command, ring
  <1>21. CASE UNCHANGED vars
    BY <1>5, <1>7, <1>21 DEF vars, ring
  <1> QED
    BY <1>8, <1>9, <1>10, <1>11, <1>12, <1>13, <1>14, <1>15, <1>16, <1>17,
       <1>18, <1>19, <1>20, <1>21 DEF Next, Calling, LoggingThread, MainGoesOn

-----------------------------------------------------------------------------
(* There is room exactly as long as the queue is not as long as the ring.  *)
LEMMA FullRing ==
  ASSUME TypeOK, TailInv, RingInOrder
  PROVE  Room <=> Pending # RING_BUF_SIZE
  <1> DEFINE m == RING_BUF_SIZE
             f == Front
             p == Pending
  <1>1. /\ m \in Nat \ {0} /\ f \in 0 .. m - 1 /\ p \in 0 .. m
        /\ taken \in Nat
    BY Places
  <1>2. /\ tail = (f + p) % m
        /\ \A k \in 0 .. m - 1 : eventItem[(f + k) % m] =
                                   IF k < p THEN taken + k + 1 ELSE NoEvent
    BY DEF TailInv, RingInOrder
  <1>3. Room <=> eventItem[tail] = NoEvent
    BY DEF Room
  <1> HIDE DEF m, f, p
  <1>4. CASE p = m
    <2>1. tail = f /\ (f + 0) % m = f
      BY <1>1, <1>2, <1>4, WrapRound
    <2>2. 0 \in 0 .. m - 1 /\ 0 < p
      BY <1>1, <1>4
    <2>3. eventItem[f] = taken + 0 + 1
      BY <1>2, <2>1, <2>2
    <2> QED
      BY <1>1, <1>3, <1>4, <2>1, <2>3 DEF NoEvent, p, m
  <1>5. CASE p # m
    <2>1. p \in 0 .. m - 1 /\ ~(p < p)
      BY <1>1, <1>5
    <2>2. eventItem[tail] = NoEvent
      BY <1>2, <2>1
    <2> QED
      BY <1>3, <1>5, <2>2 DEF p, m
  <1> QED
    BY <1>4, <1>5

(* FINISH is the last command.                                             *)
LEMMA FinishStep ==
  ASSUME FinishInv, [Next]_vars
  PROVE  FinishInv'
  <1> USE DEF FinishInv
  <1>1. ASSUME NEW t \in Client \cup {"main"}, logEvent(t)
        PROVE  FinishInv'
    BY <1>1 DEF logEvent
  <1>2. ASSUME NEW t \in Thread, Calling(t)
        PROVE  FinishInv'
    BY <1>2 DEF Calling, trySetEvent, sem_post, GiveUp
  <1>3. CASE LoggingThread
    BY <1>3 DEF LoggingThread, OpenLogFile, FailureLogged, CheckCommand,
                sem_wait, writeEvent, FinishWriting
  <1>4. CASE MainGoesOn
    BY <1>4 DEF MainGoesOn, LoggingStarted, SleepAborted, SleepGoesOn,
                LoggingStopped, WakeUp
  <1>5. ASSUME NEW c \in Command, change_command(c)
        PROVE  FinishInv'
    BY <1>5 DEF change_command
  <1>6. CASE UNCHANGED vars
    BY <1>6 DEF vars
  <1> QED
    BY <1>1, <1>2, <1>3, <1>4, <1>5, <1>6 DEF Next

(* When the ring is full, a post is there or on its way.                   *)
LEMMA FullRingPosts ==
  ASSUME TypeOK, TailInv, RingInOrder, PostsCover, ~Room,
         logging = "waiting"
  PROVE  semaphore > 0 \/ Posting # {}
  <1>1. Pending = RING_BUF_SIZE /\ RING_BUF_SIZE \in Nat \ {0}
    BY FullRing, Places
  <1>2. semaphore + Cardinality(Posting) >= Pending
    <2>1. semaphore + Cardinality(Posting) + 0 \in Pending .. Pending + 1
      BY DEF PostsCover
    <2> QED
      BY <1>1, <2>1, PostingFinite DEF TypeOK
  <1>3. Posting = {} => Cardinality(Posting) = 0
    BY FS_EmptySet
  <1> QED
    BY <1>1, <1>2, <1>3, PostingFinite DEF TypeOK

(* Each step keeps the wake-up of the logging thread.                      *)
LEMMA WakeStep ==
  ASSUME TypeOK, TailInv, RingInOrder, PostsCover, CallInv, WakeInv,
         [Next]_vars
  PROVE  WakeInv'
  <1>1. ASSUME UNCHANGED <<semaphore, cmd, main, logging>>,
               Posting # {} => Posting' # {},
               call["main"] = "trying" =>
                 call'["main"] = "trying" \/ Posting' # {}
        PROVE  WakeInv'
    BY <1>1 DEF WakeInv
  <1>2. ASSUME NEW t \in Client \cup {"main"}, logEvent(t)
        PROVE  WakeInv'
    <2>1. call[t] = "idle" /\ call' = [call EXCEPT ![t] = "trying"]
          /\ UNCHANGED <<semaphore, cmd, main, logging>>
      BY <1>2 DEF logEvent
    <2>2. Posting' = Posting
      BY <2>1 DEF Posting, TypeOK
    <2>3. "main" \in Thread /\ t \in Thread
      BY DEF Thread
    <2> QED
      BY <1>1, <2>1, <2>2, <2>3 DEF TypeOK
  <1>3. ASSUME NEW t \in Thread, trySetEvent(t)
        PROVE  WakeInv'
    <2>1. t \in Posting'
      BY <1>3 DEF trySetEvent, Posting, TypeOK
    <2> QED
      BY <1>1, <1>3, <2>1 DEF trySetEvent
  <1>4. ASSUME NEW t \in Thread, sem_post(t)
        PROVE  WakeInv'
    <2>1. semaphore' > 0 /\ UNCHANGED <<cmd, main, logging>>
      BY <1>4 DEF sem_post, Post, TypeOK
    <2> QED
      BY <2>1 DEF WakeInv
  <1>5. ASSUME NEW t \in Thread, GiveUp(t)
        PROVE  WakeInv'
    <2>1. UNCHANGED <<semaphore, cmd, main, logging>> /\ ~Room
          /\ call[t] = "trying" /\ call' = [call EXCEPT ![t] = "idle"]
      BY <1>5 DEF GiveUp
    <2>2. Posting' = Posting
      BY <2>1 DEF Posting, TypeOK
    <2>3. logging = "waiting" => semaphore > 0 \/ Posting # {}
      BY <2>1, FullRingPosts
    <2> QED
      BY <2>1, <2>2, <2>3 DEF WakeInv
  <1>6. CASE OpenLogFile
    BY <1>6 DEF OpenLogFile, WakeInv
  <1>7. CASE FailureLogged \/ sem_wait \/ writeEvent \/ FinishWriting
    BY <1>7 DEF FailureLogged, sem_wait, writeEvent, FinishWriting, WakeInv
  <1>8. CASE CheckCommand
    BY <1>8 DEF CheckCommand, WakeInv
  <1>9. CASE LoggingStarted \/ SleepAborted \/ LoggingStopped \/ WakeUp
    BY <1>9 DEF LoggingStarted, SleepAborted, LoggingStopped, WakeUp, WakeInv
  <1>10. CASE SleepGoesOn
    <2>1. "main" \in Thread
      BY DEF Thread
    <2>2. call'["main"] = "trying"
      BY <1>10, <2>1 DEF SleepGoesOn, TypeOK
    <2> QED
      BY <1>10, <2>2 DEF SleepGoesOn, WakeInv
  <1>11. ASSUME NEW c \in Command, change_command(c)
         PROVE  WakeInv'
    <2>1. CASE c = "FINISH"
      <3>1. "main" \in Thread
        BY DEF Thread
      <3>2. call'["main"] = "trying"
        BY <1>11, <2>1, <3>1 DEF change_command, TypeOK
      <3> QED
        BY <1>11, <2>1, <3>2 DEF change_command, WakeInv
    <2>2. CASE c # "FINISH"
      BY <1>11, <2>2 DEF change_command, WakeInv
    <2> QED
      BY <2>1, <2>2
  <1>12. CASE UNCHANGED vars
    BY <1>1, <1>12 DEF vars, Posting
  <1> QED
    BY <1>2, <1>3, <1>4, <1>5, <1>6, <1>7, <1>8, <1>9, <1>10, <1>11, <1>12
       DEF Next, Calling, LoggingThread, MainGoesOn

-----------------------------------------------------------------------------

(* The steps keep the invariant.                                           *)
THEOREM Inductive == Spec => []IInv
  <1>1. Init => IInv
    <2> SUFFICES ASSUME Init PROVE IInv
      OBVIOUS
    <2>1. RING_BUF_SIZE \in Nat \ {0} /\ 0 \in 0 .. RING_BUF_SIZE - 1
      BY RingAssumption
    <2>2. TypeOK /\ SleepInv /\ CallInv /\ FinishInv /\ WakeInv
      BY <2>1, RingAssumption
         DEF Init, TypeOK, SleepInv, CallInv, FinishInv, WakeInv, Index,
             NoEvent, Command, Thread
    <2>3. Front = 0 /\ Pending = 0
      BY DEF Init, Front, Pending
    <2>4. TailInv
      BY <2>1, <2>3, WrapRound DEF Init, TailInv
    <2>5. RingInOrder
      <3>1. ASSUME NEW k \in 0 .. RING_BUF_SIZE - 1
            PROVE  (0 + k) % RING_BUF_SIZE \in Index
        BY <2>1, WrapNext DEF Index
      <3>2. 0 \in 0 .. RING_BUF_SIZE
        BY <2>1
      <3> QED
        BY <2>3, <3>1, <3>2 DEF Init, RingInOrder
    <2>6. PostsCover
      <3>1. Posting = {}
        BY DEF Init, Posting
      <3>2. Cardinality(Posting) = 0
        BY <3>1, FS_EmptySet
      <3> QED
        BY <2>3, <3>2 DEF Init, PostsCover
    <2> QED
      BY <2>2, <2>4, <2>5, <2>6 DEF IInv
  <1>2. IInv /\ [Next]_vars => IInv'
    <2> SUFFICES ASSUME IInv, [Next]_vars PROVE IInv'
      OBVIOUS
    <2>1. /\ TypeOK /\ SleepInv /\ CallInv /\ FinishInv
          /\ TailInv /\ RingInOrder /\ PostsCover /\ WakeInv
      BY DEF IInv
    <2>2. TypeOK' /\ SleepInv'
      BY <2>1, TypeStep
    <2>3. CallInv'
      BY <2>1, CallStep
    <2>4. TailInv' /\ RingInOrder'
      BY <2>1, RingStep
    <2>5. PostsCover'
      BY <2>1, PostStep
    <2>6. FinishInv' /\ WakeInv'
      BY <2>1, FinishStep, WakeStep
    <2> QED
      BY <2>2, <2>3, <2>4, <2>5, <2>6 DEF IInv
  <1> QED
    BY <1>1, <1>2, PTL DEF Spec

(* The ring and the threads in logEvent are of their types for every size
   of the ring, every set of threads and every number of calls.            *)
THEOREM TypeCorrect == Spec => []TypeOK
  <1>1. IInv => TypeOK
    BY DEF IInv
  <1> QED
    BY <1>1, Inductive, PTL

(* logging.c, trySetEvent and writeEvent: the ring is a queue whatever its
   size, although the logging thread takes events without the mutex.       *)
THEOREM AlwaysInOrder == Spec => []RingInOrder
  <1>1. IInv => RingInOrder
    BY DEF IInv
  <1> QED
    BY <1>1, Inductive, PTL

(* logging.c, logEvent: every event that waits in the ring has its post,
   across any number of sleeps and restarts of the logging thread.         *)
THEOREM PostsAlwaysCover == Spec => []PostsCover
  <1>1. IInv => PostsCover
    BY DEF IInv
  <1> QED
    BY <1>1, Inductive, PTL

(* logging.c, logging_thr and main.c, stop of the logging thread: main never
   waits for a logging thread that nobody wakes, on SLEEP and on FINISH, even
   when the last call of logEvent found the ring full and was given up.    *)
THEOREM AlwaysWoken == Spec => []WakeInv
  <1>1. IInv => WakeInv
    BY DEF IInv
  <1> QED
    BY <1>1, Inductive, PTL

-----------------------------------------------------------------------------
(* The ring implements the queue.                                          *)

\* The events that wait, as the ring has them and as they are numbered.
InRing == [k \in 1 .. Pending |->
             eventItem[(Front + (k - 1)) % RING_BUF_SIZE]]

Numbered(a, n) == [k \in 1 .. n |-> a + k]

\* The ring has the events that were accepted and not taken.
NumberInv == InRing = Numbered(taken, Pending)

(* What is in order in the ring is numbered.                               *)
LEMMA InRingIsNumbered ==
  ASSUME TypeOK, RingInOrder
  PROVE  NumberInv
  <1>1. /\ RING_BUF_SIZE \in Nat \ {0} /\ Pending \in 0 .. RING_BUF_SIZE
        /\ taken \in Nat
    BY Places
  <1>2. \A k \in 0 .. RING_BUF_SIZE - 1 :
          eventItem[(Front + k) % RING_BUF_SIZE] =
            IF k < Pending THEN taken + k + 1 ELSE NoEvent
    BY DEF RingInOrder
  <1>3. ASSUME NEW k \in 1 .. Pending
        PROVE  eventItem[(Front + (k - 1)) % RING_BUF_SIZE] = taken + k
    <2>1. k - 1 \in 0 .. RING_BUF_SIZE - 1 /\ k - 1 < Pending
          /\ taken + (k - 1) + 1 = taken + k
      BY <1>1
    <2> QED
      BY <1>2, <2>1
  <1> QED
    BY <1>3 DEF InRing, Numbered, NumberInv

(* Numbered events are a sequence; one more at its end, one less at its
   beginning.                                                              *)
LEMMA NumberedSeq ==
  ASSUME NEW a \in Nat, NEW n \in Nat
  PROVE  /\ Numbered(a, n) \in Seq(Nat)
         /\ Len(Numbered(a, n)) = n
         /\ Append(Numbered(a, n), a + n + 1) = Numbered(a, n + 1)
         /\ n > 0 => /\ Tail(Numbered(a, n)) = Numbered(a + 1, n - 1)
                     /\ Numbered(a, n) # <<>>
  <1>1. Numbered(a, n) \in Seq(Nat) /\ Len(Numbered(a, n)) = n
    BY DEF Numbered
  <1>2. Append(Numbered(a, n), a + n + 1) = Numbered(a, n + 1)
    BY DEF Numbered
  <1>3. ASSUME n > 0
        PROVE  /\ Tail(Numbered(a, n)) = Numbered(a + 1, n - 1)
               /\ Numbered(a, n) # <<>>
    BY <1>3 DEF Numbered
  <1> QED
    BY <1>1, <1>2, <1>3

(* A step that leaves the queue, the calls and the end alone is none for the
   queue's users.                                                          *)
LEMMA QueueStutters ==
  ASSUME InRing' = InRing, UNCHANGED <<accepted, call>>,
         cmd' = "FINISH" <=> cmd = "FINISH"
  PROVE  [Queue!Next]_(Queue!queueVars)
  BY DEF InRing, Queue!queueVars

(* A caller begins; the ring does not change.                              *)
LEMMA QueueBegins ==
  ASSUME NEW t \in Thread, call[t] = "idle",
         call' = [call EXCEPT ![t] = "trying"],
         InRing' = InRing, UNCHANGED accepted,
         cmd = "FINISH" => cmd' = "FINISH"
  PROVE  Queue!Next
  <1>1. Queue!Begin(t)
    BY DEF InRing, Queue!Begin
  <1> QED
    BY <1>1 DEF Queue!Next

(* Each step of the ring is one of the queue, or none.                     *)
LEMMA QueueStep ==
  ASSUME TypeOK, SleepInv, CallInv, FinishInv, TailInv, RingInOrder,
         NumberInv, TypeOK', RingInOrder', NumberInv', [Next]_vars
  PROVE  [Queue!Next]_(Queue!queueVars)
  <1>1. /\ InRing = Numbered(taken, Pending)
        /\ InRing' = Numbered(taken', Pending')
        /\ Pending = accepted - taken /\ Pending' = accepted' - taken'
        /\ Pending \in Nat /\ Pending' \in Nat
        /\ taken \in Nat /\ taken' \in Nat
        /\ accepted \in Nat /\ accepted' \in Nat
        /\ RING_BUF_SIZE \in Nat /\ Pending <= RING_BUF_SIZE
    <2>1. InRing = Numbered(taken, Pending)
          /\ InRing' = Numbered(taken', Pending')
      BY DEF NumberInv
    <2>2. Pending = accepted - taken /\ Pending' = accepted' - taken'
      BY DEF Pending
    <2>3. Pending \in 0 .. RING_BUF_SIZE /\ Pending' \in 0 .. RING_BUF_SIZE
      BY DEF RingInOrder
    <2>4. /\ taken \in Nat /\ taken' \in Nat
          /\ accepted \in Nat /\ accepted' \in Nat
      BY DEF TypeOK
    <2>5. /\ Pending \in Nat /\ Pending' \in Nat
          /\ RING_BUF_SIZE \in Nat /\ Pending <= RING_BUF_SIZE
      BY <2>3, RingAssumption
    <2> QED
      BY <2>1, <2>2, <2>4, <2>5, Zenon
  <1>2. ASSUME UNCHANGED <<accepted, taken>>
        PROVE  InRing' = InRing
    BY <1>1, <1>2
  <1>3. ASSUME NEW t \in Client \cup {"main"}, logEvent(t)
        PROVE  [Queue!Next]_(Queue!queueVars)
    <2>1. t \in Thread
      BY DEF Thread
    <2> QED
      BY <1>2, <1>3, <2>1, QueueBegins DEF logEvent, ring
  <1>4. ASSUME NEW t \in Thread, trySetEvent(t)
        PROVE  [Queue!Next]_(Queue!queueVars)
    <2>1. /\ call[t] = "trying" /\ call' = [call EXCEPT ![t] = "posting"]
          /\ accepted' = accepted + 1 /\ taken' = taken /\ cmd' = cmd
          /\ Pending # RING_BUF_SIZE
      BY <1>4, FullRing DEF trySetEvent
    <2>2. /\ Pending' = Pending + 1 /\ accepted = taken + Pending
          /\ Pending < RING_BUF_SIZE
      BY <1>1, <2>1
    <2>3. /\ Len(InRing) < RING_BUF_SIZE
          /\ InRing' = Append(InRing, accepted + 1)
      <3>1. /\ Len(Numbered(taken, Pending)) = Pending
            /\ Append(Numbered(taken, Pending), taken + Pending + 1) =
                 Numbered(taken, Pending + 1)
        BY <1>1, NumberedSeq
      <3> QED
        BY <1>1, <2>1, <2>2, <3>1
    <2>4. Queue!Put(t)
      BY <2>1, <2>3 DEF Queue!Put, InRing
    <2> QED
      BY <2>4 DEF Queue!Next
  <1>5. ASSUME NEW t \in Thread, sem_post(t)
        PROVE  [Queue!Next]_(Queue!queueVars)
    <2>1. /\ call[t] = "posting" /\ call' = [call EXCEPT ![t] = "idle"]
          /\ UNCHANGED <<accepted, cmd>> /\ InRing' = InRing
      BY <1>2, <1>5 DEF sem_post, ring
    <2>2. Queue!Return(t)
      BY <2>1 DEF Queue!Return, InRing
    <2> QED
      BY <2>2 DEF Queue!Next
  <1>6. ASSUME NEW t \in Thread, GiveUp(t)
        PROVE  [Queue!Next]_(Queue!queueVars)
    <2>1. /\ call[t] = "trying" /\ call' = [call EXCEPT ![t] = "idle"]
          /\ UNCHANGED <<accepted, cmd>> /\ InRing' = InRing
          /\ cmd = "FINISH" /\ Pending = RING_BUF_SIZE
      BY <1>2, <1>6, FullRing DEF GiveUp, ring, MayGiveUp
    <2>2. Len(InRing) = RING_BUF_SIZE
      BY <1>1, <2>1, NumberedSeq
    <2>3. Queue!GiveUp(t)
      BY <2>1, <2>2 DEF Queue!GiveUp, InRing
    <2> QED
      BY <2>3 DEF Queue!Next
  <1>7. CASE OpenLogFile
    <2>1. InRing' = InRing /\ UNCHANGED <<accepted, cmd>>
      BY <1>2, <1>7 DEF OpenLogFile, ring
    <2>2. "logging" \in Thread /\ call["logging"] = "idle"
      BY <1>7 DEF OpenLogFile, CallInv, Thread
    <2>3. CASE UNCHANGED call
      BY <2>1, <2>3, QueueStutters
    <2>4. CASE call' = [call EXCEPT !["logging"] = "trying"]
      BY <2>1, <2>2, <2>4, QueueBegins
    <2> QED
      BY <1>7, <2>3, <2>4 DEF OpenLogFile
  <1>8. CASE FailureLogged \/ CheckCommand \/ sem_wait \/ FinishWriting
    <2>1. UNCHANGED <<accepted, taken, call, cmd>>
      BY <1>8 DEF FailureLogged, CheckCommand, sem_wait, FinishWriting, ring
    <2> QED
      BY <1>2, <2>1, QueueStutters
  <1>9. CASE writeEvent
    <2>1. UNCHANGED <<accepted, call, cmd>>
      BY <1>9 DEF writeEvent
    <2>2. CASE eventItem[head] = NoEvent
      BY <1>2, <1>9, <2>1, <2>2, QueueStutters DEF writeEvent
    <2>3. CASE eventItem[head] # NoEvent
      <3>1. taken' = taken + 1 /\ Pending # 0
        BY <1>9, <2>3, EmptyRing DEF writeEvent
      <3>2. Pending' = Pending - 1 /\ Pending > 0
        BY <1>1, <2>1, <3>1
      <3>3. InRing # <<>> /\ InRing' = Tail(InRing)
        <4>1. /\ Numbered(taken, Pending) # <<>>
              /\ Tail(Numbered(taken, Pending)) =
                   Numbered(taken + 1, Pending - 1)
          BY <1>1, <3>2, NumberedSeq
        <4> QED
          BY <1>1, <3>1, <3>2, <4>1
      <3>4. Queue!Take
        BY <2>1, <3>3 DEF Queue!Take, InRing
      <3> QED
        BY <3>4 DEF Queue!Next
    <2> QED
      BY <2>2, <2>3
  <1>10. CASE LoggingStarted \/ SleepAborted \/ LoggingStopped
    <2>1. UNCHANGED <<accepted, taken, call, cmd>>
      BY <1>10 DEF LoggingStarted, SleepAborted, LoggingStopped, ring
    <2> QED
      BY <1>2, <2>1, QueueStutters
  <1>11. CASE SleepGoesOn
    <2>1. /\ "main" \in Thread /\ call["main"] = "idle"
          /\ call' = [call EXCEPT !["main"] = "trying"]
          /\ UNCHANGED <<accepted, taken, cmd>>
      BY <1>11 DEF SleepGoesOn, CallInv, Thread, ring
    <2> QED
      BY <1>2, <2>1, QueueBegins
  <1>12. CASE WakeUp
    <2>1. /\ UNCHANGED <<accepted, taken, call>>
          /\ cmd # "FINISH" /\ cmd' # "FINISH"
      BY <1>12 DEF WakeUp, FinishInv, ring
    <2> QED
      BY <1>2, <2>1, QueueStutters
  <1>13. ASSUME NEW c \in Command, change_command(c)
         PROVE  [Queue!Next]_(Queue!queueVars)
    <2>1. /\ UNCHANGED <<accepted, taken>> /\ InRing' = InRing
          /\ cmd # "FINISH" /\ cmd' = c
      BY <1>2, <1>13 DEF change_command, FinishInv, ring
    <2>2. CASE c = "FINISH"
      <3>1. /\ "main" \in Thread /\ call["main"] = "idle"
            /\ call' = [call EXCEPT !["main"] = "trying"]
        BY <1>13, <2>2 DEF change_command, Thread
      <3> QED
        BY <2>1, <3>1, QueueBegins
    <2>3. CASE c # "FINISH"
      <3>1. UNCHANGED call
        BY <1>13, <2>3 DEF change_command, Command
      <3> QED
        BY <2>1, <2>3, <3>1, QueueStutters
    <2> QED
      BY <2>2, <2>3
  <1>14. CASE UNCHANGED vars
    BY <1>2, <1>14, QueueStutters DEF vars, ring
  <1> QED
    BY <1>3, <1>4, <1>5, <1>6, <1>7, <1>8, <1>9, <1>10, <1>11, <1>12, <1>13,
       <1>14 DEF Next, Calling, LoggingThread, MainGoesOn

(* logging.h, logEvent, and logging.c, trySetEvent and writeEvent: for every
   size of the ring and any threads, what the callers see is a queue that
   loses nothing it accepted, and a refusal means a full ring at the end.  *)
THEOREM RingIsQueue == Spec => ImplementsQueue
  <1>1. Init => Queue!Init
    <2> SUFFICES ASSUME Init PROVE Queue!Init
      OBVIOUS
    <2>1. Pending = 0
      BY DEF Init, Pending
    <2>2. [k \in 1 .. Pending |->
             eventItem[(Front + (k - 1)) % RING_BUF_SIZE]] = <<>>
      BY <2>1
    <2> QED
      BY <2>2 DEF Init, Queue!Init
  <1>2. IInv => NumberInv
    BY InRingIsNumbered DEF IInv
  <1>3. IInv /\ NumberInv /\ IInv' /\ NumberInv' /\ [Next]_vars
          => [Queue!Next]_(Queue!queueVars)
    BY QueueStep DEF IInv
  <1> QED
    BY <1>1, <1>2, <1>3, Inductive, PTL
       DEF Spec, ImplementsQueue, Queue!Spec
=============================================================================
