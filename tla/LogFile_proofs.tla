--------------------------- MODULE LogFile_proofs ---------------------------
(***************************************************************************)
(* Proofs about LogFile, for files and entries of any size and any numbers *)
(* of events and crashes: positions and sizes keep their range, a log with *)
(* an event whose position was saved is never given up unless an operation *)
(* failed, and events are overwritten in the order they were written in.   *)
(***************************************************************************)
EXTENDS LogFile, TLAPS

\* Events are numbered as they are written, and only written ones are saved.
SavedInv == saved \subseteq 1 .. events /\ (pc = "entry" => events > 0)

\* No operation failed since logpos last got a number, and yet there is none in
\* it, or the start-up gave the log up.
GivenUp ==
  /\ ~broken
  /\ pc \in {"failed", "log removed"} \/ logpos \in {Absent, Empty}

\* A file logpos without a number is one that was just created, or one whose
\* first number a crash took, unless an operation failed: nothing that is in
\* the log was saved since.
PositionInv ==
  /\ pc = "position" => logpos # Absent
  /\ pc = "new position" => logpos = Empty
  /\ GivenUp => \A e \in saved : ~Intact(e)

\* The most an entry that lies across the end lets size and position become,
\* and the types with it.
Top == MEGABYTE + LOG_ENTRY_SIZE - 1

Typed ==
  /\ bytes \in [Byte -> 0 .. MaxEvents]
  /\ size = Absent \/ size \in 0 .. Top
  /\ logpos \in {Absent, Empty} \/ logpos \in 0 .. Top
  /\ curLogFilePos \in 0 .. Top
  /\ pc \in {"down", "log open", "position", "new position", "ready",
             "entry", "failed", "log removed", "ended"}
  /\ events \in Nat /\ events <= MaxEvents
  /\ base \in Nat /\ base <= MaxEvents
  /\ broken \in BOOLEAN
  /\ saved \subseteq 1 .. MaxEvents
  /\ crashes \in Nat /\ crashes <= MaxCrashes

\* The entry of event e lies at byte q of a log that holds B.
At(B, e, q) == \A b \in q .. q + LOG_ENTRY_SIZE - 1 : b \in Byte /\ B[b] = e

Before(q, r, h) ==
  IF q + LOG_ENTRY_SIZE > h THEN r + LOG_ENTRY_SIZE > h /\ r < q
                            ELSE r + LOG_ENTRY_SIZE > h \/ r < q

\* If the next entry goes to byte h, the events of S will be overwritten after
\* every older one: for an event that is not behind h all that is older lies
\* between h and the event, for one behind h nothing older lies between the
\* event and h.
InOrderFrom(B, h, S) ==
  \A e \in S, f \in 1 .. MaxEvents, q, r \in 0 .. MEGABYTE - 1 :
    f < e /\ At(B, e, q) /\ At(B, f, r) => Before(q, r, h)

\* The byte of the next entry if p is the position.
NextByte(p) == IF p >= MEGABYTE THEN 0 ELSE p

\* The events whose position is saved, or may be saved next.
Kept == saved \cup IF pc = "entry" THEN {events} ELSE {}

\* Of the events S those after the first n.
After(S, n) == {e \in S : e > n}

\* Of the events since the last start at position 0 those that are kept lie in
\* order from where the thread writes next, and the saved ones from where it
\* would write after a crash.  A log that is not filled up yet holds no event,
\* and one that is too long is so until it is removed.
OrderInv ==
  /\ \A b \in Byte : bytes[b] <= events
  /\ base <= events
  /\ size < MEGABYTE => \A b \in Byte : bytes[b] = 0
  /\ pc \in {"ready", "entry"} => size >= MEGABYTE
  /\ pc \in {"ready", "entry"} =>
       InOrderFrom(bytes, NextByte(curLogFilePos), After(Kept, base))
  /\ logpos \in Nat /\ size <= MEGABYTE =>
       InOrderFrom(bytes, NextByte(logpos), After(saved, base))

BaseInv == Typed /\ SavedInv /\ PositionInv
IInv == BaseInv /\ OrderInv

-----------------------------------------------------------------------------
\* Absent and Empty are no positions.
LEMMA NoPositions == Absent \notin Nat /\ Empty \notin Nat /\ Absent # Empty
  BY DEF Absent, Empty

\* The bounds are numbers, and an entry that begins below MEGABYTE ends at Top
\* at the latest.
LEMMA Bounds ==
  /\ MEGABYTE \in Nat /\ LOG_ENTRY_SIZE \in Nat /\ LOG_ENTRY_SIZE > 0
  /\ MaxEvents \in Nat /\ MaxCrashes \in Nat /\ Top \in Nat
  /\ 0 \in 0 .. Top /\ MEGABYTE \in 0 .. Top /\ MEGABYTE > 0
  /\ \A p \in 0 .. MEGABYTE - 1 : p + LOG_ENTRY_SIZE \in 0 .. Top
  BY FileAssumption DEF Top

\* Typed is TypeOK.
LEMMA TypedIsTypeOK == Typed <=> TypeOK
<1>1. events \in 0 .. MaxEvents <=> events \in Nat /\ events <= MaxEvents
  BY Bounds
<1>2. crashes \in 0 .. MaxCrashes <=> crashes \in Nat /\ crashes <= MaxCrashes
  BY Bounds
<1>3. base \in 0 .. MaxEvents <=> base \in Nat /\ base <= MaxEvents
  BY Bounds
<1>4. \A x : x \in {Absent} \cup 0 .. Top <=> x = Absent \/ x \in 0 .. Top
  OBVIOUS
<1>5. \A x : x \in {Absent, Empty} \cup 0 .. Top
              <=> x \in {Absent, Empty} \/ x \in 0 .. Top
  OBVIOUS
<1>6. TypeOK <=> /\ bytes \in [Byte -> 0 .. MaxEvents]
                 /\ size \in {Absent} \cup 0 .. Top
                 /\ logpos \in {Absent, Empty} \cup 0 .. Top
                 /\ curLogFilePos \in 0 .. Top
                 /\ pc \in {"down", "log open", "position", "new position",
                            "ready", "entry", "failed", "log removed", "ended"}
                 /\ events \in 0 .. MaxEvents /\ base \in 0 .. MaxEvents
                 /\ saved \subseteq 1 .. MaxEvents
                 /\ broken \in BOOLEAN
                 /\ crashes \in 0 .. MaxCrashes
  BY Zenon DEF TypeOK, Top
<1> HIDE DEF Top
<1> QED
  BY <1>1, <1>2, <1>3, <1>4, <1>5, <1>6, Zenon DEF Typed

\* At first there is no file and no event.
LEMMA InitInv == Init => BaseInv
<1> SUFFICES ASSUME Init PROVE BaseInv
  OBVIOUS
<1>1. Typed
  <2>1. bytes \in [Byte -> 0 .. MaxEvents] /\ 0 <= MaxEvents /\ 0 <= MaxCrashes
    BY Bounds DEF Init
  <2>2. 0 \in Nat /\ {} \subseteq 1 .. MaxEvents
    OBVIOUS
  <2> QED
    BY <2>1, <2>2, Bounds, Zenon DEF Init, Typed
<1>2. SavedInv /\ PositionInv
  BY NoPositions DEF Init, SavedInv, PositionInv, GivenUp
<1> QED
  BY <1>1, <1>2 DEF BaseInv

\* What can be read back of an event depends on the bytes alone.
LEMMA IntactKept ==
  ASSUME BaseInv, UNCHANGED <<bytes, saved>>, GivenUp' => GivenUp
  PROVE  GivenUp' => \A e \in saved' : ~Intact(e)'
  BY DEF BaseInv, PositionInv, Intact

\* Where a start-up stands decides what it may find in logpos.
LEMMA PositionFound ==
  ASSUME BaseInv, Opened
  PROVE  /\ PositionRead \in {Empty} \cup 0 .. Top
         /\ PositionRead = Empty => logpos = Empty
         /\ pc = "new position" => PositionRead = 0
         /\ pc = "position" => PositionRead = logpos
  BY Bounds, NoPositions
     DEF Opened, PositionRead, BaseInv, Typed, PositionInv

\* initLogFile up to the moment the size is looked at.
LEMMA OpeningKeepsInv ==
  ASSUME BaseInv, OpenLog \/ OpenPosition \/ CreatePosition
  PROVE  BaseInv'
<1>1. Typed'
  <2>1. CASE OpenLog
    BY <2>1, Bounds DEF OpenLog, OpenedSize, BaseInv, Typed, Absent
  <2>2. CASE OpenPosition
    BY <2>2 DEF OpenPosition, files, BaseInv, Typed
  <2>3. CASE CreatePosition
    BY <2>3 DEF CreatePosition, BaseInv, Typed
  <2> QED
    BY <2>1, <2>2, <2>3
<1>2. SavedInv'
  BY DEF OpenLog, OpenPosition, CreatePosition, files, BaseInv, SavedInv
<1>3. /\ pc' = "position" => logpos' # Absent
      /\ pc' = "new position" => logpos' = Empty
      /\ UNCHANGED <<bytes, saved>>
  BY NoPositions DEF OpenLog, OpenPosition, CreatePosition, files
<1>4. GivenUp' => GivenUp
  BY DEF OpenLog, OpenPosition, CreatePosition, files, GivenUp, BaseInv, Typed
<1> QED
  BY <1>1, <1>2, <1>3, <1>4, IntactKept DEF BaseInv, PositionInv

\* The ends of initLogFile that leave the log ready: the position is the one
\* read, 0 for a logpos that is new.
LEMMA ReadyKeepsInv ==
  ASSUME BaseInv, TooLong \/ TooShort \/ Complete
  PROVE  BaseInv'
<1>1. /\ PositionRead \in {Empty} \cup 0 .. Top
      /\ PositionRead = Empty => logpos = Empty
  BY PositionFound DEF TooLong, TooShort, Complete
<1>2. /\ pc' = "ready" /\ logpos' = PositionRead
      /\ broken' = (broken /\ PositionRead = Empty)
      /\ base' \in {base, events}
      /\ UNCHANGED <<bytes, events, saved, crashes>>
  BY DEF TooLong, TooShort, Complete, Close, ClosePosition, BaseOfPosition
<1>3. /\ size' \in {Absent} \cup (0 .. Top)
      /\ curLogFilePos' \in 0 .. Top
  <2>1. CASE TooLong
    BY <2>1, Bounds DEF TooLong, BaseInv, Typed
  <2>2. CASE TooShort
    BY <2>2, Bounds DEF TooShort, BaseInv, Typed
  <2>3. CASE Complete
    BY <2>3, <1>1 DEF Complete, Readable, BaseInv, Typed
  <2> QED
    BY <2>1, <2>2, <2>3
<1>4. Typed'
  BY <1>1, <1>2, <1>3 DEF BaseInv, Typed
<1>5. SavedInv'
  BY <1>2 DEF BaseInv, SavedInv
<1>6. PositionInv'
  <2>1. logpos' \in {Absent, Empty} => PositionRead = Empty /\ logpos = Empty
    BY <1>1, <1>2, NoPositions, Bounds
  <2>2. ~broken' /\ PositionRead = Empty => ~broken
    BY <1>2, Zenon
  <2>3. GivenUp' => GivenUp
    BY <1>2, <2>1, <2>2 DEF GivenUp
  <2> QED
    BY <1>2, <2>3, IntactKept DEF PositionInv
<1> QED
  BY <1>4, <1>5, <1>6 DEF BaseInv

\* A start-up that gives the log up, because an operation failed or because
\* logpos is empty.
LEMMA FailureKeepsInv ==
  ASSUME BaseInv, InitFails \/ PositionMissing
  PROVE  BaseInv'
<1>1. CASE InitFails
  <2>1. /\ pc' = "failed" /\ broken' = TRUE
        /\ base' \in {base, events}
        /\ UNCHANGED <<bytes, curLogFilePos, events, saved, crashes>>
    BY <1>1 DEF InitFails, ClosePosition, BaseOfPosition
  <2>2. size' = Absent \/ size' \in 0 .. Top
    <3>1. size = Absent \/ size \in 0 .. Top
      BY DEF BaseInv, Typed
    <3>2. size' \in {size, 0} \/ size' \in size .. MEGABYTE
      BY <1>1 DEF InitFails, OpenedSize
    <3> QED
      BY <3>1, <3>2, Bounds DEF Absent
  <2>3. logpos' \in {Absent, Empty} \/ logpos' \in 0 .. Top
    <3>1. logpos' \in {logpos, Empty} \/ (Opened /\ logpos' = PositionRead)
      BY <1>1 DEF InitFails, ClosePosition
    <3> QED
      BY <3>1, PositionFound DEF BaseInv, Typed
  <2>4. Typed' /\ SavedInv'
    BY <2>1, <2>2, <2>3 DEF BaseInv, Typed, SavedInv
  <2> QED
    BY <2>1, <2>4 DEF BaseInv, PositionInv, GivenUp
<1>2. CASE PositionMissing
  <2>1. /\ pc' = "failed" /\ logpos' = logpos /\ logpos = Empty
        /\ UNCHANGED <<bytes, size, curLogFilePos, events, saved, base, broken, crashes>>
    BY <1>2 DEF PositionMissing, Unreadable, files
  <2>2. Typed' /\ SavedInv'
    BY <2>1 DEF BaseInv, Typed, SavedInv
  <2>3. GivenUp' => GivenUp
    BY <2>1 DEF GivenUp
  <2> QED
    BY <2>1, <2>2, <2>3, IntactKept DEF BaseInv, PositionInv
<1> QED
  BY <1>1, <1>2

\* A log of zeros has no event, and one that could not be removed is one where
\* an operation failed.
LEMMA RemovalKeepsInv ==
  ASSUME BaseInv, RemoveLog \/ RemovePosition
  PROVE  BaseInv'
<1>1. CASE RemoveLog
  <2>1. /\ pc = "failed" /\ pc' = "log removed"
        /\ UNCHANGED <<logpos, curLogFilePos, events, saved, base, crashes>>
        /\ \/ bytes' = [b \in Byte |-> 0] /\ size' = Absent /\ broken' = broken
           \/ broken' = TRUE /\ UNCHANGED <<bytes, size>>
    BY <1>1 DEF RemoveLog
  <2>2. Typed' /\ SavedInv'
    <3>1. bytes' \in [Byte -> 0 .. MaxEvents]
      <4>1. [b \in Byte |-> 0] \in [Byte -> 0 .. MaxEvents]
        BY Bounds
      <4>2. bytes \in [Byte -> 0 .. MaxEvents]
        BY DEF BaseInv, Typed
      <4> QED
        BY <2>1, <4>1, <4>2, Zenon
    <3> QED
      BY <2>1, <3>1 DEF BaseInv, Typed, SavedInv
  <2>3. ASSUME bytes' = [b \in Byte |-> 0]
        PROVE  \A e \in saved' : ~Intact(e)'
    <3> SUFFICES ASSUME NEW e \in saved, NEW p \in 0 .. MEGABYTE - 1,
                        \A b \in p .. p + LOG_ENTRY_SIZE - 1 :
                           b \in Byte /\ bytes'[b] = e
                 PROVE  FALSE
      BY <2>1 DEF Intact
    <3>1. p \in p .. p + LOG_ENTRY_SIZE - 1
      BY Bounds
    <3>2. p \in Byte /\ bytes'[p] = e
      BY <3>1
    <3>3. e = 0
      BY <2>3, <3>2
    <3>4. e \in 1 .. events /\ events \in Nat
      BY Bounds DEF BaseInv, SavedInv, Typed
    <3> QED
      BY <3>3, <3>4
  <2> QED
    BY <2>1, <2>2, <2>3 DEF BaseInv, PositionInv, GivenUp
<1>2. CASE RemovePosition
  <2>1. /\ pc = "log removed" /\ pc' = "ended"
        /\ UNCHANGED <<bytes, size, curLogFilePos, events, saved, base, crashes>>
        /\ \/ logpos' = Absent /\ broken' = broken
           \/ broken' = TRUE /\ logpos' = logpos
    BY <1>2 DEF RemovePosition
  <2>2. Typed' /\ SavedInv'
    BY <2>1 DEF BaseInv, Typed, SavedInv
  <2>3. GivenUp' => GivenUp
    BY <2>1 DEF GivenUp
  <2> QED
    BY <2>1, <2>2, <2>3, IntactKept DEF BaseInv, PositionInv
<1> QED
  BY <1>1, <1>2

\* An entry is written, and its position saved or not.
LEMMA WritingKeepsInv ==
  ASSUME BaseInv, WriteEntry \/ SavePosition \/ PositionNotSaved \/ EventLost
  PROVE  BaseInv'
<1>1. CASE WriteEntry
  <2> DEFINE p == EntryPosition
             end == p + LOG_ENTRY_SIZE
  <2>1. /\ bytes' = [b \in Byte |->
                       IF b \in p .. end - 1 THEN events + 1 ELSE bytes[b]]
        /\ size' = IF end > size THEN end ELSE size
        /\ curLogFilePos' = end
        /\ events < MaxEvents /\ events' = events + 1
        /\ pc' = "entry"
        /\ UNCHANGED <<logpos, saved, base, broken, crashes>>
    BY <1>1 DEF WriteEntry
  <2>2. end \in 0 .. Top
    <3>1. curLogFilePos \in 0 .. Top
      BY DEF BaseInv, Typed
    <3>2. p \in 0 .. MEGABYTE - 1
      BY <3>1, Bounds DEF EntryPosition
    <3> HIDE DEF p
    <3> QED
      BY <3>2, Bounds
  <2> HIDE DEF p, end
  <2>n. events \in Nat /\ events + 1 <= MaxEvents /\ events + 1 \in 0 .. MaxEvents
    <3>1. events \in Nat
      BY DEF BaseInv, Typed
    <3> QED
      BY <2>1, <3>1, Bounds
  <2>3. bytes' \in [Byte -> 0 .. MaxEvents]
    <3>1. bytes \in [Byte -> 0 .. MaxEvents]
      BY DEF BaseInv, Typed
    <3> QED
      BY <2>1, <2>n, <3>1
  <2>4. Typed'
    <3>1. size' = Absent \/ size' \in 0 .. Top
      BY <2>1, <2>2 DEF BaseInv, Typed
    <3>2. events' \in Nat /\ events' <= MaxEvents
      BY <2>1, <2>n
    <3> QED
      BY <2>1, <2>2, <2>3, <3>1, <3>2 DEF BaseInv, Typed
  <2>5. SavedInv'
    <3>1. saved' \subseteq 1 .. events
      BY <2>1 DEF BaseInv, SavedInv
    <3>2. 1 .. events \subseteq 1 .. events' /\ events' > 0
      BY <2>1, <2>n
    <3> QED
      BY <3>1, <3>2, Zenon DEF SavedInv
  <2>6. \A e \in saved : Intact(e)' => Intact(e)
    <3> SUFFICES ASSUME NEW e \in saved, NEW q \in 0 .. MEGABYTE - 1,
                        \A b \in q .. q + LOG_ENTRY_SIZE - 1 :
                           b \in Byte /\ bytes'[b] = e
                 PROVE  \A b \in q .. q + LOG_ENTRY_SIZE - 1 :
                           b \in Byte /\ bytes[b] = e
      BY DEF Intact
    <3>1. e # events + 1
      <4>1. e \in 1 .. events
        BY DEF BaseInv, SavedInv
      <4> QED
        BY <2>n, <4>1
    <3> QED
      BY <2>1, <3>1
  <2>7. PositionInv'
    BY <2>1, <2>6 DEF BaseInv, PositionInv, GivenUp
  <2> QED
    BY <2>4, <2>5, <2>7 DEF BaseInv
<1>2. CASE SavePosition
  <2>1. /\ pc = "entry" /\ pc' = "ready"
        /\ logpos' = curLogFilePos
        /\ saved' = saved \cup {events}
        /\ broken' = FALSE
        /\ UNCHANGED <<bytes, size, curLogFilePos, events, base, crashes>>
    BY <1>2 DEF SavePosition, PositionToSave
  <2>2. events \in 1 .. events /\ events \in 1 .. MaxEvents
    BY <2>1, Bounds DEF BaseInv, SavedInv, Typed
  <2>3. Typed' /\ SavedInv'
    BY <2>1, <2>2 DEF BaseInv, Typed, SavedInv
  <2>4. logpos' \in Nat
    BY <2>1, Bounds DEF BaseInv, Typed
  <2> QED
    BY <2>1, <2>3, <2>4, NoPositions DEF BaseInv, PositionInv, GivenUp
<1>3. CASE PositionNotSaved \/ EventLost
  <2>1. /\ pc' = "ready"
        /\ UNCHANGED <<bytes, size, logpos, saved, base, broken, crashes>>
        /\ curLogFilePos' \in {curLogFilePos, 0}
        /\ \/ events' = events
           \/ events < MaxEvents /\ events' = events + 1
    BY <1>3 DEF PositionNotSaved, EventLost, EntryPosition, files
  <2>2. /\ events' \in Nat /\ events' <= MaxEvents
        /\ 1 .. events \subseteq 1 .. events'
    <3>1. events \in Nat /\ events <= MaxEvents
      BY DEF BaseInv, Typed
    <3> QED
      BY <2>1, <3>1, Bounds
  <2>3. Typed'
    BY <2>1, <2>2, Bounds DEF BaseInv, Typed
  <2>4. SavedInv'
    BY <2>1, <2>2 DEF BaseInv, SavedInv
  <2>5. GivenUp' => GivenUp
    BY <2>1 DEF GivenUp
  <2> QED
    BY <2>1, <2>3, <2>4, <2>5, IntactKept DEF BaseInv, PositionInv
<1> QED
  BY <1>1, <1>2, <1>3

\* A crash leaves logpos and the bytes as they are.
LEMMA CrashKeepsInv ==
  ASSUME BaseInv, Crash
  PROVE  BaseInv'
<1>1. /\ pc' = "down"
      /\ crashes < MaxCrashes /\ crashes' = crashes + 1
      /\ size' \in size .. MEGABYTE \/ size' = size
      /\ UNCHANGED <<bytes, logpos, curLogFilePos, events, saved, base, broken>>
  BY DEF Crash
<1>2. Typed'
  <2>1. size' = Absent \/ size' \in 0 .. Top
    <3>1. CASE size = Absent
      <4>1. size' \in -1 .. MEGABYTE \/ size' = Absent
        BY <1>1, <3>1 DEF Absent
      <4> QED
        BY <4>1, Bounds DEF Absent
    <3>2. CASE size \in 0 .. Top
      BY <1>1, <3>2, Bounds
    <3> QED
      BY <3>1, <3>2 DEF BaseInv, Typed
  <2>2. crashes' \in Nat /\ crashes' <= MaxCrashes
    <3>1. crashes \in Nat
      BY DEF BaseInv, Typed
    <3> QED
      BY <1>1, <3>1, Bounds
  <2> QED
    BY <1>1, <2>1, <2>2 DEF BaseInv, Typed
<1>3. SavedInv'
  BY <1>1 DEF BaseInv, SavedInv
<1>4. GivenUp' => GivenUp
  BY <1>1 DEF GivenUp
<1> QED
  BY <1>1, <1>2, <1>3, <1>4, IntactKept DEF BaseInv, PositionInv

\* A step keeps the types, what was saved and what logpos says.
LEMMA BaseStep == BaseInv /\ [Next]_vars => BaseInv'
<1> SUFFICES ASSUME BaseInv, [Next]_vars PROVE BaseInv'
  OBVIOUS
<1>1. CASE UNCHANGED vars
  <2>1. Typed' /\ SavedInv'
    BY <1>1 DEF vars, files, BaseInv, Typed, SavedInv
  <2>2. GivenUp' => GivenUp
    BY <1>1 DEF vars, files, GivenUp
  <2> QED
    BY <1>1, <2>1, <2>2, IntactKept DEF vars, files, BaseInv, PositionInv
<1> QED
  BY <1>1, OpeningKeepsInv, ReadyKeepsInv, FailureKeepsInv, RemovalKeepsInv,
     WritingKeepsInv, CrashKeepsInv DEF Next

-----------------------------------------------------------------------------
(* The order of the entries: facts about any log of bytes B.               *)

\* What Intact says, said of the place of the entry.
LEMMA IntactIsSomewhere ==
  ASSUME NEW e
  PROVE  /\ Intact(e) <=> \E q \in 0 .. MEGABYTE - 1 : At(bytes, e, q)
         /\ Intact(e)' <=> \E q \in 0 .. MEGABYTE - 1 : At(bytes', e, q)
  BY DEF Intact, At

\* Events that cannot be read are in order from anywhere.
LEMMA NothingInOrder ==
  ASSUME NEW B, NEW S, NEW h,
         \A e \in S, q \in 0 .. MEGABYTE - 1 : ~At(B, e, q)
  PROVE  InOrderFrom(B, h, S)
  BY DEF InOrderFrom

\* In a file of zeros there is no event.
LEMMA ZerosHoldNothing ==
  ASSUME NEW B, \A b \in Byte : B[b] = 0, NEW e \in 1 .. MaxEvents,
         NEW q \in 0 .. MEGABYTE - 1
  PROVE  ~At(B, e, q)
<1> SUFFICES ASSUME At(B, e, q) PROVE FALSE
  OBVIOUS
<1>1. q \in q .. q + LOG_ENTRY_SIZE - 1
  BY Bounds
<1>2. B[q] = e /\ B[q] = 0
  BY <1>1 DEF At
<1> QED
  BY <1>2

\* Fewer events are in order too.
LEMMA FewerInOrder ==
  ASSUME NEW B, NEW S, NEW T, NEW h, S \subseteq T, InOrderFrom(B, h, T)
  PROVE  InOrderFrom(B, h, S)
  BY DEF InOrderFrom

\* B with an entry of event n at byte p.
WithEntry(B, n, p) ==
  [b \in Byte |-> IF b \in p .. (p + LOG_ENTRY_SIZE) - 1 THEN n ELSE B[b]]

\* Of another event an entry that can be read after that could be before, and
\* lies beside the new one.
LEMMA OldEntry ==
  ASSUME NEW B, NEW n, NEW p \in 0 .. MEGABYTE - 1,
         NEW e, e # n, NEW q \in 0 .. MEGABYTE - 1, At(WithEntry(B, n, p), e, q)
  PROVE  At(B, e, q) /\ (q + LOG_ENTRY_SIZE <= p \/ p + LOG_ENTRY_SIZE <= q)
<1> DEFINE L == LOG_ENTRY_SIZE
           C == WithEntry(B, n, p)
<1>0. L \in Nat /\ L > 0 /\ p \in Nat /\ q \in Nat
  BY Bounds
<1>1. \A b \in q .. q + L - 1 : b \in Byte /\ C[b] = e
  BY DEF At
<1>2. \A b \in Byte : C[b] = IF b \in p .. (p + L) - 1 THEN n ELSE B[b]
  BY DEF WithEntry
<1> HIDE DEF L, C
<1>3. \A b \in q .. q + L - 1 : b \in Byte /\ b \notin p .. (p + L) - 1 /\ B[b] = e
  BY <1>1, <1>2
<1>4. At(B, e, q)
  BY <1>3 DEF At, L
<1>5. q + L <= p \/ p + L <= q
  <2>1. CASE q <= p
    <3>1. p \in p .. (p + L) - 1
      BY <1>0
    <3>2. p \notin q .. q + L - 1
      BY <1>3, <3>1
    <3> QED
      BY <1>0, <2>1, <3>2
  <2>2. CASE p < q
    <3>1. q \in q .. q + L - 1
      BY <1>0
    <3>2. q \notin p .. (p + L) - 1
      BY <1>3, <3>1
    <3> QED
      BY <1>0, <2>2, <3>2
  <2> QED
    BY <1>0, <2>1, <2>2
<1> QED
  BY <1>4, <1>5 DEF L

\* The new event lies where it was written and nowhere else.
LEMMA NewEntry ==
  ASSUME NEW B, NEW n, NEW p \in 0 .. MEGABYTE - 1, \A b \in Byte : B[b] # n,
         NEW q \in 0 .. MEGABYTE - 1, At(WithEntry(B, n, p), n, q)
  PROVE  q = p
<1> DEFINE L == LOG_ENTRY_SIZE
           C == WithEntry(B, n, p)
<1>0. L \in Nat /\ L > 0 /\ p \in Nat /\ q \in Nat
  BY Bounds
<1>1. \A b \in q .. q + L - 1 : b \in Byte /\ C[b] = n
  BY DEF At
<1>2. \A b \in Byte : C[b] = IF b \in p .. (p + L) - 1 THEN n ELSE B[b]
  BY DEF WithEntry
<1> HIDE DEF L, C
<1>3. \A b \in q .. q + L - 1 : b \in p .. (p + L) - 1
  BY <1>1, <1>2
<1>4. q \in q .. q + L - 1 /\ q + L - 1 \in q .. q + L - 1
  BY <1>0
<1>5. q \in p .. (p + L) - 1 /\ q + L - 1 \in p .. (p + L) - 1
  BY <1>3, <1>4
<1> QED
  BY <1>0, <1>5

\* Where an entry at r lies beside one at p, it is before q from the byte after
\* p if it was from p, and before p itself.
LEMMA HeadMoves ==
  ASSUME NEW p \in 0 .. MEGABYTE - 1,
         NEW q \in 0 .. MEGABYTE - 1, NEW r \in 0 .. MEGABYTE - 1,
         r + LOG_ENTRY_SIZE <= p \/ p + LOG_ENTRY_SIZE <= r,
         \/ q = p
         \/ /\ q + LOG_ENTRY_SIZE <= p \/ p + LOG_ENTRY_SIZE <= q
            /\ Before(q, r, p)
  PROVE  Before(q, r, NextByte(p + LOG_ENTRY_SIZE))
<1> DEFINE h == NextByte(p + LOG_ENTRY_SIZE)
<1>0. /\ p \in Nat /\ q \in Nat /\ r \in Nat /\ LOG_ENTRY_SIZE \in Nat
      /\ LOG_ENTRY_SIZE > 0 /\ MEGABYTE \in Nat
      /\ p < MEGABYTE /\ q < MEGABYTE /\ r < MEGABYTE
  BY Bounds
<1>1. CASE p + LOG_ENTRY_SIZE >= MEGABYTE
  BY <1>0, <1>1 DEF Before, NextByte
<1>2. CASE p + LOG_ENTRY_SIZE < MEGABYTE
  BY <1>0, <1>2 DEF Before, NextByte
<1> QED
  BY <1>0, <1>1, <1>2

\* An entry of a new event at p keeps the order from p, with the new event, as
\* the order from the byte after it.
LEMMA EntryKeepsOrder ==
  ASSUME NEW B, NEW n \in Nat, NEW p \in 0 .. MEGABYTE - 1,
         \A b \in Byte : B[b] # n,
         NEW S, S \subseteq 1 .. n - 1, InOrderFrom(B, p, S)
  PROVE  InOrderFrom(WithEntry(B, n, p), NextByte(p + LOG_ENTRY_SIZE), S \cup {n})
<1> DEFINE C == WithEntry(B, n, p)
<1> SUFFICES ASSUME NEW e \in S \cup {n}, NEW f \in 1 .. MaxEvents,
                    NEW q \in 0 .. MEGABYTE - 1, NEW r \in 0 .. MEGABYTE - 1,
                    f < e, At(C, e, q), At(C, f, r)
             PROVE  Before(q, r, NextByte(p + LOG_ENTRY_SIZE))
  BY DEF InOrderFrom
<1>1. f # n
  BY Bounds
<1>2. At(B, f, r) /\ (r + LOG_ENTRY_SIZE <= p \/ p + LOG_ENTRY_SIZE <= r)
  BY <1>1, OldEntry
<1>3. CASE e = n
  BY <1>2, <1>3, NewEntry, HeadMoves
<1>4. CASE e # n
  <2>1. At(B, e, q) /\ (q + LOG_ENTRY_SIZE <= p \/ p + LOG_ENTRY_SIZE <= q)
    BY <1>4, OldEntry
  <2>2. Before(q, r, p)
    BY <1>2, <1>4, <2>1 DEF InOrderFrom
  <2> QED
    BY <1>2, <2>1, <2>2, HeadMoves
<1> QED
  BY <1>3, <1>4

\* It keeps the order of older events from any other byte as well.
LEMMA EntryKeepsOtherOrder ==
  ASSUME NEW B, NEW n \in Nat, NEW p \in 0 .. MEGABYTE - 1,
         NEW S, S \subseteq 1 .. n - 1, NEW h, InOrderFrom(B, h, S)
  PROVE  InOrderFrom(WithEntry(B, n, p), h, S)
<1> DEFINE C == WithEntry(B, n, p)
<1> SUFFICES ASSUME NEW e \in S, NEW f \in 1 .. MaxEvents,
                    NEW q \in 0 .. MEGABYTE - 1, NEW r \in 0 .. MEGABYTE - 1,
                    f < e, At(C, e, q), At(C, f, r)
             PROVE  Before(q, r, h)
  BY DEF InOrderFrom
<1>1. e # n /\ f # n
  BY Bounds
<1>2. At(B, e, q) /\ At(B, f, r)
  BY <1>1, OldEntry
<1> QED
  BY <1>2 DEF InOrderFrom

-----------------------------------------------------------------------------
(* The order of the entries: the steps.                                    *)

\* Sizes and numbers can be compared, and no event has a number above events.
LEMMA Numbers ==
  ASSUME Typed, \A b \in Byte : bytes[b] <= events
  PROVE  /\ size \in Int /\ MEGABYTE \in Nat /\ events \in Nat
         /\ size = Absent => size < MEGABYTE
         /\ \A b \in Byte : bytes[b] \in Nat /\ bytes[b] < events + 1
<1>1. size = Absent \/ size \in 0 .. Top
  BY DEF Typed
<1>2. size \in Int /\ (size = Absent => size < MEGABYTE)
  BY <1>1, Bounds DEF Absent
<1>3. bytes \in [Byte -> 0 .. MaxEvents] /\ events \in Nat
  BY DEF Typed
<1>4. \A b \in Byte : bytes[b] \in Nat
  BY <1>3, Bounds
<1>5. \A b \in Byte : bytes[b] < events + 1
  BY <1>3, <1>4
<1> QED
  BY <1>2, <1>3, <1>4, <1>5, Bounds

\* At first there is no file to have an order.
LEMMA InitOrder == Init => OrderInv
<1> SUFFICES ASSUME Init PROVE OrderInv
  OBVIOUS
<1>1. \A b \in Byte : bytes[b] = 0
  BY DEF Init
<1> QED
  BY <1>1, NoPositions, Bounds DEF Init, OrderInv

\* Of events that are all there is no later one.
LEMMA NoneAfter ==
  ASSUME Typed, NEW S \in SUBSET (1 .. events), NEW B, NEW h
  PROVE  InOrderFrom(B, h, After(S, events))
<1>1. events \in Nat
  BY DEF Typed
<1>2. \A e \in S : ~(e > events)
  BY <1>1
<1>3. After(S, events) = {}
  BY <1>2 DEF After
<1> QED
  BY <1>3 DEF InOrderFrom

\* What a step that leaves the bytes leaves of the order.
LEMMA SameBytes ==
  ASSUME BaseInv, OrderInv, bytes' = bytes, saved' = saved,
         events' \in Nat, events' >= events,
         base' = base \/ (base' = events /\ events' = events),
         \/ size' = size
         \/ size < MEGABYTE /\ size' \in Int /\ size' <= MEGABYTE /\ size <= size',
         pc' \in {"ready", "entry"} => size' >= MEGABYTE,
         pc' \in {"ready", "entry"} =>
           InOrderFrom(bytes, NextByte(curLogFilePos'), After(Kept', base')),
         logpos' \in Nat => logpos' = logpos \/ base' = events
  PROVE  OrderInv'
<1>1. /\ size \in Int /\ MEGABYTE \in Nat /\ events \in Nat /\ base \in Nat
      /\ \A b \in Byte : bytes[b] \in Nat /\ bytes[b] < events + 1
  BY Numbers DEF BaseInv, OrderInv, Typed
<1>2. \A b \in Byte : bytes'[b] <= events'
  BY <1>1
<1>3. size' < MEGABYTE => \A b \in Byte : bytes'[b] = 0
  BY <1>1 DEF OrderInv
<1>4. logpos' \in Nat /\ size' <= MEGABYTE =>
        InOrderFrom(bytes, NextByte(logpos'), After(saved, base'))
  <2> SUFFICES ASSUME logpos' \in Nat, size' <= MEGABYTE
               PROVE  InOrderFrom(bytes, NextByte(logpos'), After(saved, base'))
    OBVIOUS
  <2>1. size <= MEGABYTE
    BY <1>1
  <2>2. CASE base' = base /\ logpos' = logpos
    BY <2>1, <2>2 DEF OrderInv
  <2>3. CASE base' = events
    BY <2>3, NoneAfter DEF BaseInv, SavedInv
  <2> QED
    BY <2>2, <2>3
<1>5. base' <= events'
  BY <1>1 DEF OrderInv
<1>6. InOrderFrom(bytes, NextByte(curLogFilePos), After(Kept, base))'
        <=> InOrderFrom(bytes', NextByte(curLogFilePos'), After(Kept', base'))
  BY DEF InOrderFrom, At, Before, NextByte, After
<1>7. InOrderFrom(bytes, NextByte(logpos), After(saved, base))'
        <=> InOrderFrom(bytes', NextByte(logpos'), After(saved', base'))
  BY DEF InOrderFrom, At, Before, NextByte, After
<1> QED
  BY <1>2, <1>3, <1>4, <1>5, <1>6, <1>7 DEF OrderInv

\* initLogFile up to the moment the size is looked at.
LEMMA OpeningKeepsOrder ==
  ASSUME BaseInv, OrderInv, OpenLog \/ OpenPosition \/ CreatePosition
  PROVE  OrderInv'
<1>0. /\ size \in Int /\ MEGABYTE \in Nat /\ MEGABYTE > 0 /\ events \in Nat
      /\ size = Absent => size < MEGABYTE
  BY Numbers, Bounds DEF BaseInv, OrderInv
<1>1. CASE OpenLog
  <2>1. /\ pc' = "log open"
        /\ UNCHANGED <<bytes, saved, events, logpos, base>>
        /\ size' = size \/ (size = Absent /\ size' = 0)
    BY <1>1 DEF OpenLog, OpenedSize
  <2>2. pc' \notin {"ready", "entry"}
    BY <2>1
  <2>3. \/ size' = size
        \/ size < MEGABYTE /\ size' \in Int /\ size' <= MEGABYTE /\ size <= size'
    <3>1. CASE size' = size
      BY <3>1
    <3>2. CASE size = Absent /\ size' = 0
      BY <1>0, <3>2 DEF Absent
    <3> QED
      BY <2>1, <3>1, <3>2
  <2>4. events' \in Nat /\ events' >= events
    <3>1. events \in Nat /\ events' = events
      BY <1>0, <2>1
    <3> QED
      BY <3>1
  <2> QED
    BY <2>1, <2>2, <2>3, <2>4, SameBytes
<1>2. CASE OpenPosition \/ CreatePosition
  <2>1. /\ pc' \notin {"ready", "entry"}
        /\ UNCHANGED <<bytes, saved, events, size, base>>
        /\ logpos' = logpos \/ logpos' = Empty
    BY <1>2 DEF OpenPosition, CreatePosition, files
  <2> QED
    BY <1>0, <2>1, NoPositions, SameBytes
<1> QED
  BY <1>1, <1>2

\* The end of a start-up that gives the log up.
LEMMA FailureKeepsOrder ==
  ASSUME BaseInv, OrderInv, InitFails \/ PositionMissing
  PROVE  OrderInv'
<1>0. /\ size \in Int /\ MEGABYTE \in Nat /\ MEGABYTE > 0 /\ events \in Nat
      /\ size = Absent => size < MEGABYTE
  BY Numbers, Bounds DEF BaseInv, OrderInv
<1>1. /\ pc' \notin {"ready", "entry"}
      /\ UNCHANGED <<bytes, saved, events>>
  BY DEF InitFails, PositionMissing, ClosePosition, files
<1>2. \/ size' = size
      \/ size < MEGABYTE /\ size' \in Int /\ size' <= MEGABYTE /\ size <= size'
  <2>1. CASE size' = size
    BY <2>1
  <2>2. CASE size = Absent /\ size' = 0
    BY <1>0, <2>2 DEF Absent
  <2>3. CASE size <= MEGABYTE /\ size' \in size .. MEGABYTE
    BY <1>0, <2>3
  <2> QED
    BY <2>1, <2>2, <2>3 DEF InitFails, OpenedSize, PositionMissing, files
<1>3. /\ base' = base \/ base' = events
      /\ logpos' \in Nat => logpos' = logpos \/ base' = events
  <2>1. CASE logpos' \in {logpos, Empty} /\ base' = base
    BY <2>1, NoPositions
  <2>2. CASE Opened /\ logpos' = PositionRead /\ base' = BaseOfPosition
    BY <2>2 DEF Opened, PositionRead, BaseOfPosition
  <2> QED
    BY <2>1, <2>2 DEF InitFails, ClosePosition, PositionMissing, files
<1> QED
  BY <1>0, <1>1, <1>2, <1>3, SameBytes

\* The removals: a file of zeros, and no position or the one that was there.
LEMMA RemovalKeepsOrder ==
  ASSUME BaseInv, OrderInv, RemoveLog \/ RemovePosition
  PROVE  OrderInv'
<1>0. /\ size \in Int /\ MEGABYTE \in Nat /\ MEGABYTE > 0 /\ events \in Nat
  BY Numbers, Bounds DEF BaseInv, OrderInv
<1>1. CASE RemoveLog /\ bytes' = [b \in Byte |-> 0]
  <2>1. /\ pc' = "log removed" /\ UNCHANGED <<events, base, saved, logpos>>
    BY <1>1 DEF RemoveLog
  <2>2. \A b \in Byte : bytes'[b] = 0
    BY <1>1
  <2>3. saved \subseteq 1 .. MaxEvents
    BY DEF BaseInv, Typed
  <2>4. InOrderFrom(bytes', NextByte(logpos'), After(saved', base'))
    <3>1. After(saved', base') \subseteq 1 .. MaxEvents
      BY <2>1, <2>3 DEF After
    <3> QED
      BY <2>2, <3>1, ZerosHoldNothing, NothingInOrder
  <2>5. InOrderFrom(bytes, NextByte(logpos), After(saved, base))'
          <=> InOrderFrom(bytes', NextByte(logpos'), After(saved', base'))
    BY DEF InOrderFrom, At, Before, NextByte, After
  <2>6. pc' \notin {"ready", "entry"}
    BY <2>1
  <2>7. base' <= events'
    <3>1. base <= events
      BY DEF OrderInv
    <3> QED
      BY <2>1, <3>1
  <2>8. \A b \in Byte : bytes'[b] <= events'
    <3>1. events' = events
      BY <2>1
    <3> QED
      BY <1>0, <2>2, <3>1
  <2> QED
    BY <2>2, <2>4, <2>5, <2>6, <2>7, <2>8 DEF OrderInv
<1>2. CASE (RemoveLog \/ RemovePosition) /\ UNCHANGED <<bytes, size>>
  <2>1. /\ pc' \notin {"ready", "entry"}
        /\ UNCHANGED <<bytes, saved, events, size, base>>
        /\ logpos' = logpos \/ logpos' = Absent
    BY <1>2 DEF RemoveLog, RemovePosition
  <2> QED
    BY <1>0, <2>1, NoPositions, SameBytes
<1> QED
  BY <1>1, <1>2 DEF RemoveLog, RemovePosition

\* The ends of initLogFile that leave the log ready.
LEMMA ReadyKeepsOrder ==
  ASSUME BaseInv, OrderInv, TooLong \/ TooShort \/ Complete
  PROVE  OrderInv'
<1>0. /\ size \in Int /\ MEGABYTE \in Nat /\ MEGABYTE > 0 /\ events \in Nat
  BY Numbers, Bounds DEF BaseInv, OrderInv
<1>1. /\ Opened /\ pc' = "ready" /\ logpos' = PositionRead
      /\ UNCHANGED <<bytes, saved, events>>
      /\ base' = events \/ (base' = base /\ pc = "position")
  BY DEF TooLong, TooShort, Complete, Close, ClosePosition, Opened, BaseOfPosition
<1>2. /\ size' >= MEGABYTE
      /\ \/ size' = size
         \/ size < MEGABYTE /\ size' \in Int /\ size' <= MEGABYTE /\ size <= size'
  <2>1. CASE TooLong
    BY <1>0, <2>1 DEF TooLong
  <2>2. CASE TooShort
    BY <1>0, <2>2 DEF TooShort
  <2>3. CASE Complete
    BY <1>0, <2>3 DEF Complete
  <2> QED
    BY <2>1, <2>2, <2>3
<1>3. Kept' = saved
  BY <1>1 DEF Kept
<1>4. logpos' = logpos \/ base' = events
  BY <1>1 DEF PositionRead
<1>5. InOrderFrom(bytes, NextByte(curLogFilePos'), After(saved, base'))
  <2>1. CASE base' = events
    BY <2>1, NoneAfter DEF BaseInv, SavedInv
  <2>2. CASE TooShort
    <3>1. \A b \in Byte : bytes[b] = 0
      BY <2>2 DEF TooShort, OrderInv
    <3>2. After(saved, base') \subseteq 1 .. MaxEvents
      BY DEF BaseInv, Typed, After
    <3> QED
      BY <3>1, <3>2, ZerosHoldNothing, NothingInOrder
  <2>3. CASE Complete /\ base' = base /\ pc = "position"
    <3>1. /\ curLogFilePos' = logpos /\ logpos # Empty /\ size <= MEGABYTE
      BY <2>3, <1>0 DEF Complete, Readable, PositionRead
    <3>2. logpos \in Nat
      BY <2>3, <3>1, Bounds DEF BaseInv, PositionInv, Typed
    <3> QED
      BY <2>3, <3>1, <3>2 DEF OrderInv
  <2> QED
    BY <1>1, <2>1, <2>2, <2>3 DEF TooLong
<1> QED
  BY <1>0, <1>1, <1>2, <1>3, <1>4, <1>5, SameBytes

\* The byte of the next entry is one below MEGABYTE.
LEMMA NextByteBelow ==
  ASSUME BaseInv
  PROVE  /\ NextByte(curLogFilePos) = EntryPosition
         /\ EntryPosition \in 0 .. MEGABYTE - 1
<1>1. curLogFilePos \in 0 .. Top
  BY DEF BaseInv, Typed
<1> QED
  BY <1>1, Bounds DEF NextByte, EntryPosition

\* What WriteEntry does to the bytes.
LEMMA EntryBytes ==
  ASSUME WriteEntry
  PROVE  bytes' = WithEntry(bytes, events + 1, EntryPosition)
  BY DEF WriteEntry, WithEntry

\* An entry of a new event goes to the next byte.
LEMMA WriteEntryKeepsOrder ==
  ASSUME BaseInv, OrderInv, WriteEntry
  PROVE  OrderInv'
<1> DEFINE p == EntryPosition
           n == events + 1
<1>1. /\ pc = "ready" /\ pc' = "entry" /\ events' = n
      /\ bytes' = WithEntry(bytes, n, p)
      /\ curLogFilePos' = p + LOG_ENTRY_SIZE
      /\ size' = IF p + LOG_ENTRY_SIZE > size THEN p + LOG_ENTRY_SIZE ELSE size
      /\ UNCHANGED <<logpos, base, saved>>
  <2>1. bytes' = WithEntry(bytes, n, p)
    BY EntryBytes
  <2> QED
    BY <2>1 DEF WriteEntry
<1>2. p \in 0 .. MEGABYTE - 1 /\ p = NextByte(curLogFilePos)
  BY NextByteBelow
<1>3. /\ size \in Int /\ MEGABYTE \in Nat /\ events \in Nat
      /\ \A b \in Byte : bytes[b] \in Nat /\ bytes[b] < n
  BY Numbers DEF BaseInv, OrderInv
<1>4. saved \subseteq 1 .. n - 1 /\ n \in Nat
  BY <1>3 DEF BaseInv, SavedInv
<1>5. /\ Kept = saved /\ After(Kept', base') = After(saved, base) \cup {n}
      /\ After(saved, base) \subseteq 1 .. n - 1
  <2>1. base \in Nat /\ base < n
    <3>1. base \in Nat /\ base <= events
      BY DEF OrderInv, BaseInv, Typed
    <3> QED
      BY <1>3, <3>1 DEF n
  <2>2. Kept = saved /\ Kept' = saved \cup {n}
    BY <1>1 DEF Kept
  <2>3. After(Kept', base) = After(saved, base) \cup {n}
    BY <1>4, <2>1, <2>2 DEF After
  <2> QED
    BY <1>1, <1>4, <2>2, <2>3 DEF After
<1> HIDE DEF p, n
<1>6. size >= MEGABYTE /\ size' >= size /\ size' \in Int
  BY <1>1, <1>2, <1>3, Bounds DEF OrderInv
<1>7. \A b \in Byte : bytes'[b] <= n
  <2>1. \A b \in Byte : bytes'[b] = n \/ bytes'[b] = bytes[b]
    BY <1>1 DEF WithEntry
  <2> QED
    BY <1>3, <1>4, <2>1
<1>8. \A b \in Byte : bytes[b] # n
  BY <1>3, <1>4
<1>9. InOrderFrom(bytes', NextByte(curLogFilePos'), After(Kept', base'))
  <2>1. InOrderFrom(bytes, p, After(saved, base))
    BY <1>1, <1>2, <1>5 DEF OrderInv
  <2>2. InOrderFrom(WithEntry(bytes, n, p), NextByte(p + LOG_ENTRY_SIZE),
                    After(saved, base) \cup {n})
    BY <1>2, <1>4, <1>5, <1>8, <2>1, EntryKeepsOrder
  <2> QED
    BY <1>1, <1>5, <2>2
<1>10. logpos' \in Nat /\ size' <= MEGABYTE =>
         InOrderFrom(bytes', NextByte(logpos'), After(saved', base'))
  <2> SUFFICES ASSUME logpos \in Nat, size' <= MEGABYTE
               PROVE  InOrderFrom(WithEntry(bytes, n, p), NextByte(logpos),
                                  After(saved, base))
    BY <1>1
  <2>1. InOrderFrom(bytes, NextByte(logpos), After(saved, base))
    BY <1>3, <1>6 DEF OrderInv
  <2> QED
    BY <1>2, <1>4, <1>5, <1>8, <2>1, EntryKeepsOtherOrder
<1>11. InOrderFrom(bytes, NextByte(curLogFilePos), After(Kept, base))'
         <=> InOrderFrom(bytes', NextByte(curLogFilePos'), After(Kept', base'))
  BY DEF InOrderFrom, At, Before, NextByte, After
<1>12. InOrderFrom(bytes, NextByte(logpos), After(saved, base))'
         <=> InOrderFrom(bytes', NextByte(logpos'), After(saved', base'))
  BY DEF InOrderFrom, At, Before, NextByte, After
<1>13. size' >= MEGABYTE /\ ~(size' < MEGABYTE)
  BY <1>3, <1>6
<1>14. base' <= events'
  BY <1>1, <1>3, <1>4 DEF OrderInv, BaseInv, Typed, n
<1> QED
  BY <1>1, <1>7, <1>9, <1>10, <1>11, <1>12, <1>13, <1>14 DEF OrderInv

\* The position is saved: what was kept is what is saved.
LEMMA SavePositionKeepsOrder ==
  ASSUME BaseInv, OrderInv, SavePosition
  PROVE  OrderInv'
<1>1. /\ pc = "entry" /\ pc' = "ready" /\ logpos' = curLogFilePos
      /\ saved' = saved \cup {events}
      /\ UNCHANGED <<bytes, size, curLogFilePos, events, base>>
  BY DEF SavePosition, PositionToSave
<1>2. Kept' = Kept /\ saved' = Kept
  BY <1>1 DEF Kept
<1>3. InOrderFrom(bytes, NextByte(curLogFilePos), After(Kept, base))'
        <=> InOrderFrom(bytes', NextByte(curLogFilePos'), After(Kept', base'))
  BY DEF InOrderFrom, At, Before, NextByte, After
<1>4. InOrderFrom(bytes, NextByte(logpos), After(saved, base))'
        <=> InOrderFrom(bytes', NextByte(logpos'), After(saved', base'))
  BY DEF InOrderFrom, At, Before, NextByte, After
<1> QED
  BY <1>1, <1>2, <1>3, <1>4 DEF OrderInv

\* The position is not saved, or the event is lost: fewer events are kept.
LEMMA LossKeepsOrder ==
  ASSUME BaseInv, OrderInv, PositionNotSaved \/ EventLost
  PROVE  OrderInv'
<1>0. size \in Int /\ MEGABYTE \in Nat /\ events \in Nat
  BY Numbers DEF BaseInv, OrderInv
<1>1. /\ pc' = "ready" /\ pc \in {"ready", "entry"}
      /\ UNCHANGED <<bytes, size, logpos, base, saved>>
      /\ events' = events \/ events' = events + 1
      /\ curLogFilePos' \in {curLogFilePos, EntryPosition}
  BY DEF PositionNotSaved, EventLost, files
<1>2. Kept' = saved /\ After(saved, base) \subseteq After(Kept, base)
  BY <1>1 DEF Kept, After
<1>3. NextByte(curLogFilePos') = NextByte(curLogFilePos)
  BY <1>1, Bounds, NextByteBelow DEF NextByte
<1>4. InOrderFrom(bytes, NextByte(curLogFilePos'), After(Kept', base'))
  BY <1>1, <1>2, <1>3, FewerInOrder DEF OrderInv
<1>5. events' \in Nat /\ events' >= events
  BY <1>0, <1>1
<1>6. size' >= MEGABYTE
  BY <1>1 DEF OrderInv
<1> QED
  BY <1>1, <1>4, <1>5, <1>6, SameBytes

\* A crash leaves any part of the zeros that fill the file up, and no more.
LEMMA CrashKeepsOrder ==
  ASSUME BaseInv, OrderInv, Crash
  PROVE  OrderInv'
<1>0. size \in Int /\ MEGABYTE \in Nat /\ events \in Nat
  BY Numbers DEF BaseInv, OrderInv
<1>1. /\ pc' = "down"
      /\ UNCHANGED <<bytes, logpos, events, saved, base>>
      /\ size' \in IF Opened /\ size < MEGABYTE THEN size .. MEGABYTE ELSE {size}
  BY DEF Crash
<1>2. \/ size' = size
      \/ size < MEGABYTE /\ size' \in Int /\ size' <= MEGABYTE /\ size <= size'
  BY <1>0, <1>1
<1> QED
  BY <1>0, <1>1, <1>2, SameBytes

\* A step keeps the order of the entries.
LEMMA OrderStep == BaseInv /\ OrderInv /\ [Next]_vars => OrderInv'
<1> SUFFICES ASSUME BaseInv, OrderInv, [Next]_vars PROVE OrderInv'
  OBVIOUS
<1>1. CASE UNCHANGED vars
  <2>1. UNCHANGED <<bytes, size, logpos, curLogFilePos, pc, base, events, saved>>
    BY <1>1 DEF vars, files
  <2> QED
    BY <2>1 DEF OrderInv, Kept, After, InOrderFrom, At, Before, NextByte
<1> QED
  BY <1>1, OpeningKeepsOrder, ReadyKeepsOrder, FailureKeepsOrder,
     RemovalKeepsOrder, WriteEntryKeepsOrder, SavePositionKeepsOrder,
     LossKeepsOrder, CrashKeepsOrder DEF Next

\* The inductive invariant: types, saved events are written ones, what an empty
\* or absent logpos says of the log, and the order of the entries in the file.
THEOREM Inductive == Spec => []IInv
<1>1. Init => IInv
  BY InitInv, InitOrder DEF IInv
<1>2. IInv /\ [Next]_vars => IInv'
  BY BaseStep, OrderStep DEF IInv
<1> QED
  BY <1>1, <1>2, PTL DEF Spec

\* For files and entries of any size, an entry that lies across the end is the
\* most by which the file and the position pass it.
THEOREM TypeCorrect == Spec => []TypeOK
<1>1. IInv => TypeOK
  BY TypedIsTypeOK DEF IInv, BaseInv
<1> QED
  BY <1>1, Inductive, PTL

\* No crash, wherever it comes, makes initLogFile give up a log in which an
\* event with a saved position can be read: only an operation that failed since
\* logpos last got a number does (logging.c:135-286).
THEOREM RemovalAlwaysHarmless == Spec => []RemovalLosesNothing
<1>1. IInv => RemovalLosesNothing
  BY DEF IInv, BaseInv, PositionInv, GivenUp, RemovalLosesNothing
<1> QED
  BY <1>1, Inductive, PTL
-----------------------------------------------------------------------------
\* Over any number of rounds, crashes, lost events, failed start-ups and
\* positions that are not saved, the log loses first the oldest of the entries
\* that follow the last start at position 0 over an old log (logging.c:48-120,
\* 187-240).
THEOREM NewestAlwaysKept == Spec => KeepsSaved
<1> DEFINE Keeps ==
      \A e \in saved, f \in 1 .. MaxEvents :
        /\ e > base /\ pc = "ready"
        /\ Intact(e) /\ ~Intact(e)' /\ f < e /\ Intact(f)
        => ~Intact(f)'
<1>1. IInv /\ [Next]_vars => [Keeps]_vars
  <2> SUFFICES ASSUME IInv, Next, NEW e \in saved, NEW f \in 1 .. MaxEvents,
                      e > base, pc = "ready",
                      Intact(e), ~Intact(e)', f < e, Intact(f)'
               PROVE  FALSE
    BY DEF Keeps
  <2>1. bytes' # bytes
    BY IntactIsSomewhere
  <2>2. WriteEntry
    BY <2>1 DEF Next, OpenLog, OpenPosition, CreatePosition, TooLong, TooShort,
       Complete, Opened, InitFails, PositionMissing, RemoveLog, RemovePosition,
       SavePosition, PositionNotSaved, EventLost, Crash, files
  <2> DEFINE p == EntryPosition
             n == events + 1
  <2>3. bytes' = WithEntry(bytes, n, p)
    BY <2>2, EntryBytes
  <2>4. p \in 0 .. MEGABYTE - 1 /\ p = NextByte(curLogFilePos)
    BY NextByteBelow DEF IInv
  <2>5. InOrderFrom(bytes, p, After(saved, base)) /\ e \in After(saved, base)
    BY <2>4 DEF IInv, OrderInv, Kept, After
  <2>6. e # n /\ f # n
    BY Numbers DEF IInv, BaseInv, SavedInv, OrderInv
  <2> HIDE DEF p, n
  <2>7. PICK q \in 0 .. MEGABYTE - 1 : At(bytes, e, q)
    BY IntactIsSomewhere
  <2>8. PICK r \in 0 .. MEGABYTE - 1 : At(bytes', f, r)
    BY IntactIsSomewhere
  <2>9. At(bytes, f, r) /\ (r + LOG_ENTRY_SIZE <= p \/ p + LOG_ENTRY_SIZE <= r)
    BY <2>3, <2>4, <2>6, <2>8, OldEntry
  <2>10. Before(q, r, p)
    BY <2>5, <2>7, <2>9 DEF InOrderFrom
  <2>11. q + LOG_ENTRY_SIZE > p /\ q < p + LOG_ENTRY_SIZE
    <3>1. ~At(bytes', e, q)
      BY IntactIsSomewhere
    <3>2. PICK b \in q .. q + LOG_ENTRY_SIZE - 1 : ~(b \in Byte /\ bytes'[b] = e)
      BY <3>1 DEF At
    <3>3. b \in Byte /\ bytes[b] = e
      BY <2>7 DEF At
    <3>4. b \in p .. (p + LOG_ENTRY_SIZE) - 1
      BY <2>3, <3>2, <3>3 DEF WithEntry
    <3> QED
      BY <2>4, <3>4, Bounds
  <2> QED
    BY <2>4, <2>9, <2>10, <2>11, Bounds DEF Before
<1> QED
  BY Inductive, <1>1, PTL DEF Spec, KeepsSaved
=============================================================================
