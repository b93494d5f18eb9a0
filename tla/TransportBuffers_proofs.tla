---------------------- MODULE TransportBuffers_proofs ----------------------
(***************************************************************************)
(* Proofs about TransportBuffers, for every number of slots and readers.   *)
(***************************************************************************)
EXTENDS TransportBuffers, FiniteSetTheorems, TLAPS

(* Both ends of the counters: a modulus keeps a number in its range.       *)
LEMMA ModRange ==
  ASSUME NEW a \in Int, NEW m \in Nat \ {0}
  PROVE  a % m \in 0 .. m - 1
  OBVIOUS

(* One more read leaves the count of reads a u8.                           *)
LEMMA CountRange == \A n \in 0 .. 255 : (n + 1) % 256 \in 0 .. 255
  BY ModRange

(* A count of reads that fits in a u8 is what it is modulo 256.            *)
LEMMA CountFits ==
  ASSUME NEW n \in Nat, NEW a \in Nat, n + 1 + a \in 1 .. 255
  PROVE  (n + a + 1) % 256 = n + 1 + a
  OBVIOUS

(* A slot after memset, and one that was given a buffer, are descriptors.  *)
LEMMA ZeroedTyped ==
  /\ Zeroed \in Descriptor
  /\ \A i \in Slot : [Zeroed EXCEPT !.hBuf = i] \in Descriptor
  <1>1. Zeroed \in Descriptor
    BY DEF Zeroed, Descriptor, Status
  <1>2. ASSUME NEW i \in Slot, NEW d \in Descriptor
        PROVE  [d EXCEPT !.hBuf = i] \in Descriptor
    BY DEF Descriptor
  <1> QED
    BY <1>1, <1>2

(* A slot that is given a new frame is a descriptor.                       *)
LEMMA PublishedTyped ==
  ASSUME NEW d \in Descriptor, NEW k \in BOOLEAN, NEW t \in Nat,
         NEW n \in Nat, NEW c \in SUBSET Reader
  PROVE  [d EXCEPT !.properties = k, !.timestamp = t, !.clients = c,
                   !.status = "READY", !.number = n, !.number_of_reading = 0]
           \in Descriptor
  <1>1. [d EXCEPT !.properties = k, !.timestamp = t] \in Descriptor
    BY DEF Descriptor
  <1>2. ASSUME NEW e \in Descriptor
        PROVE  [e EXCEPT !.clients = c, !.status = "READY"] \in Descriptor
    BY DEF Descriptor, Status
  <1>3. ASSUME NEW e \in Descriptor
        PROVE  [e EXCEPT !.number = n] \in Descriptor
    BY DEF Descriptor
  <1>4. ASSUME NEW e \in Descriptor
        PROVE  [e EXCEPT !.number_of_reading = 0] \in Descriptor
    BY DEF Descriptor
  <1> QED
    BY <1>1, <1>2, <1>3, <1>4

(* So is one that is taken by one more reader.                             *)
LEMMA TakenTyped ==
  ASSUME NEW d \in Descriptor, NEW n \in 0 .. 255
  PROVE  [d EXCEPT !.status = "READING", !.number_of_reading = n]
           \in Descriptor
  <1>1. [d EXCEPT !.status = "READING"] \in Descriptor
    BY DEF Descriptor, Status
  <1>2. ASSUME NEW e \in Descriptor
        PROVE  [e EXCEPT !.number_of_reading = n] \in Descriptor
    BY DEF Descriptor
  <1> QED
    BY <1>1, <1>2

(* The initial state has the types.                                        *)
LEMMA TypeInit == Init => TypeOK
  <1> SUFFICES ASSUME Init PROVE TypeOK
    OBVIOUS
  <1>1. 0 \in 0 .. TBUF_NUMBER
    BY SlotAssumption
  <1> QED
    BY <1>1, ZeroedTyped DEF Init, TypeOK, PC

(* A read that is given up is added to those of its slot.                  *)
LEMMA GiveUpTyped ==
  ASSUME TypeOK, NEW r \in Reader, GiveUp(r)
  PROVE  /\ pc' \in [Reader -> PC]
         /\ at' \in [Reader -> Slot \cup {NoBuf}]
         /\ abandoned' \in [Slot -> Nat]
  <1>1. CASE at[r] \in Slot
    BY <1>1 DEF TypeOK, GiveUp, PC
  <1>2. CASE at[r] \notin Slot
    BY <1>2 DEF TypeOK, GiveUp, PC
  <1> QED
    BY <1>1, <1>2

(* Each step of the producer or of a reader keeps the types.               *)
LEMMA TypeStep == TypeOK /\ [Next]_vars => TypeOK'
  <1> SUFFICES ASSUME TypeOK, [Next]_vars PROVE TypeOK'
    OBVIOUS
  <1> USE DEF TypeOK
  <1>1. CASE RegisterTransportBufGroup
    <2>1. buf' \in [Slot -> Descriptor]
      BY <1>1, ZeroedTyped DEF RegisterTransportBufGroup
    <2>2. FirstTable \in 0 .. TBUF_NUMBER
      BY SlotAssumption
    <2> QED
      BY <1>1, <2>1, <2>2 DEF RegisterTransportBufGroup, readerVars
  <1>2. CASE AddBuffers
    <2>1. ASSUME NEW i \in Slot, NEW d \in Descriptor
          PROVE  [d EXCEPT !.hBuf = i, !.status = "FREE"] \in Descriptor
      BY DEF Descriptor, Status
    <2>2. buf' \in [Slot -> Descriptor]
      BY <1>2, <2>1 DEF AddBuffers
    <2>3. TBUF_NUMBER \in 0 .. TBUF_NUMBER
      BY SlotAssumption
    <2> QED
      BY <1>2, <2>2, <2>3 DEF AddBuffers, readerVars
  <1>3. ASSUME NEW getanyway \in GetAnyway, GetBufferToWrite(getanyway)
        PROVE  TypeOK'
    <2>1. PICK i \in Slot : StartWriting(i)
      BY <1>3 DEF GetBufferToWrite, Idle, Victims
    <2>2. buf' \in [Slot -> Descriptor]
      BY <2>1 DEF StartWriting, Descriptor, Status
    <2> QED
      BY <2>1, <2>2 DEF StartWriting, groupVars, readerVars
  <1>4. ASSUME NEW h \in Slot, NEW step \in TimeStep, SetBufferReady(h, step)
        PROVE  TypeOK'
    <2>1. clock + step \in Nat
      BY ProducerAssumption
    <2> DEFINE key == Gop # 0 /\ TBufFrameNum % Gop = 0
    <2>4. PICK frame \in Descriptor :
            frame = [buf[h] EXCEPT !.properties = key,
                                   !.timestamp = clock + step,
                                   !.clients = TBufReadersMask,
                                   !.status = "READY",
                                   !.number = TBufFrameNum,
                                   !.number_of_reading = 0]
      <3>1. key \in BOOLEAN
        OBVIOUS
      <3> QED
        BY <2>1, <3>1, PublishedTyped
    <2>5. buf' = [buf EXCEPT ![h] = frame]
      BY <1>4, <2>4 DEF SetBufferReady
    <2>2. buf' \in [Slot -> Descriptor]
      BY <2>4, <2>5
    <2> QED
      BY <1>4, <2>1, <2>2 DEF SetBufferReady, NumberAfter, readerVars
  <1>5. ASSUME NEW h \in Slot, LoseBuffer(h)
        PROVE  TypeOK'
    BY <1>5 DEF LoseBuffer, groupVars, readerVars
  <1>6. CASE FreeTransportBufGroup
    <2>1. buf' \in [Slot -> Descriptor]
      BY <1>6, ZeroedTyped DEF FreeTransportBufGroup
    <2> QED
      BY <1>6, <2>1 DEF FreeTransportBufGroup, groupVars
  <1>7. ASSUME NEW r \in Reader, PlugToTransportBufGroup(r)
        PROVE  TypeOK'
    BY <1>7 DEF PlugToTransportBufGroup, AddReader, readerVars
  <1>8. ASSUME NEW r \in Reader, ReleaseTransportBufGroup(r)
        PROVE  TypeOK'
    BY <1>8 DEF ReleaseTransportBufGroup, RemoveReader, readerVars, PC
  <1>9. ASSUME NEW r \in Reader, EnterRead(r)
        PROVE  TypeOK'
    BY <1>9 DEF EnterRead, groupVars, PC
  <1>10. ASSUME NEW r \in Reader, NEW i \in Slot, Take(r, i)
         PROVE  TypeOK'
    <2>1. (buf[i].number_of_reading + 1) % 256 \in 0 .. 255
      <3>1. buf[i].number_of_reading \in 0 .. 255
        BY DEF Descriptor
      <3> QED
        BY <3>1, CountRange, Zenon
    <2>2. buf' \in [Slot -> Descriptor]
      <3>1. buf[i] \in Descriptor
        OBVIOUS
      <3>2. [buf[i] EXCEPT !.status = "READING", !.number_of_reading =
               (buf[i].number_of_reading + 1) % 256] \in Descriptor
        BY <2>1, <3>1, TakenTyped, Zenon
      <3> QED
        BY <1>10, <3>2 DEF Take
    <2> QED
      BY <1>10, <2>2 DEF Take, groupVars, PC
  <1>11. ASSUME NEW r \in Reader, NothingToRead(r)
         PROVE  TypeOK'
    BY <1>11 DEF NothingToRead, groupVars, PC
  <1>12. ASSUME NEW r \in Reader, NEW i \in Slot, LeaveOrGiveUp(r, i),
                UNCHANGED <<buf, writing, groupVars>>
         PROVE  TypeOK'
    <2>1. CASE GiveUp(r)
      BY <1>12, <2>1, GiveUpTyped DEF groupVars
    <2>2. CASE ~GiveUp(r)
      BY <1>12, <2>2 DEF LeaveOrGiveUp, groupVars, PC
    <2> QED
      BY <2>1, <2>2
  <1>13. ASSUME NEW r \in Reader, AbandonFrame(r)
         PROVE  TypeOK'
    <2>1. GiveUp(r) /\ UNCHANGED <<buf, writing, groupVars>>
      BY <1>13 DEF AbandonFrame
    <2> QED
      BY <2>1, GiveUpTyped DEF groupVars
  <1>14. ASSUME NEW r \in Reader, CompleteRead(r)
         PROVE  TypeOK'
    <2> DEFINE i == at[r]
               left == buf[i].clients \ {r}
               n == (buf[i].number_of_reading - 1) % 256
               status == StatusAfterRead(n, left)
    <2>1. buf' = [buf EXCEPT ![i].clients = left, ![i].number_of_reading = n,
                             ![i].status = status]
      BY <1>14 DEF CompleteRead
    <2>2. ASSUME i \in Slot
          PROVE  /\ left \subseteq Reader
                 /\ n \in 0 .. 255
                 /\ status \in Status
      BY <2>2 DEF Descriptor, StatusAfterRead, Status
    <2>3. buf' \in [Slot -> Descriptor]
      <3> HIDE DEF i, left, n, status
      <3>1. CASE i \in Slot
        <4>1. buf[i] \in Descriptor /\ left \in SUBSET Reader
          BY <2>2, <3>1
        <4>2. [buf[i] EXCEPT !.clients = left, !.number_of_reading = n,
                             !.status = status] \in Descriptor
          BY <2>2, <3>1, <4>1 DEF Descriptor
        <4>3. buf' = [buf EXCEPT ![i] =
                        [buf[i] EXCEPT !.clients = left,
                                       !.number_of_reading = n,
                                       !.status = status]]
          BY <2>1, <3>1
        <4> QED
          BY <3>1, <4>2, <4>3
      <3>2. CASE i \notin Slot
        BY <2>1, <3>2
      <3> QED
        BY <3>1, <3>2
    <2> QED
      BY <1>14, <2>3 DEF CompleteRead, groupVars, PC
  <1>15. CASE UNCHANGED vars
    BY <1>15 DEF vars, groupVars, readerVars
  <1> QED
    BY <1>1, <1>2, <1>3, <1>4, <1>5, <1>6, <1>7, <1>8, <1>9, <1>10, <1>11,
       <1>12, <1>13, <1>14, <1>15
       DEF Next, Producer, ReaderStep, GetBufferToRead,
           GetLastKeyBufferToRead, GetBufferByNumToRead, BufferReadComplete,
           BufferReadCompleteByNum, Wanted, KeyFrames

(* TypeOK is an invariant.                                                 *)
THEOREM TypeCorrect == Spec => []TypeOK
  <1> QED
    BY TypeInit, TypeStep, PTL DEF Spec

-----------------------------------------------------------------------------
(* The inductive invariant.                                                *)

\* A slot holds its own buffer or none; frames are in complete groups only.
SlotInv ==
  /\ \A i \in Slot : buf[i].hBuf \in {NoBuf, i}
  /\ \A i \in Slot : buf[i].hBuf # NoBuf => i < TBufCount
  /\ \A i \in Slot :
       Published(i) => buf[i].hBuf = i /\ TBufCount = TBUF_NUMBER
  /\ \A h \in writing : buf[h].status = "WRITING" /\ buf[h].hBuf = h

\* The next frame is numbered and stamped after all those in the group.
NumberInv ==
  /\ \A i \in Slot :
       Published(i) => /\ buf[i].number < TBufFrameNum
                       /\ buf[i].timestamp <= clock
  /\ OrderAgrees

ReadInv ==
  /\ NoTornFrame
  /\ ReadsAccounted
  /\ TestsStillHold
  /\ \A i \in Slot : abandoned[i] <= MaxAbandoned

IInv == TypeOK /\ SlotInv /\ NumberInv /\ ReadInv

\* number_of_reading after one more completion of the frame in slot i.
ReadsLeft(i) == (buf[i].number_of_reading - 1) % 256

(* What the steps that change one slot do to it, field by field.           *)
LEMMA StartWritingEffect ==
  ASSUME TypeOK, NEW i \in Slot, StartWriting(i)
  PROVE  /\ \A j \in Slot \ {i} : buf'[j] = buf[j]
         /\ buf'[i].status = "WRITING"
         /\ buf'[i].hBuf = buf[i].hBuf
         /\ buf'[i].number_of_reading = buf[i].number_of_reading
         /\ UNCHANGED <<groupVars, readerVars>>
         /\ writing' \subseteq writing \cup {i}
         /\ i \in writing' => i \in writing \/ buf[i].hBuf # NoBuf
  BY DEF StartWriting, TypeOK, Descriptor

LEMMA SetBufferReadyEffect ==
  ASSUME TypeOK, NEW h \in Slot, NEW step \in TimeStep, SetBufferReady(h, step)
  PROVE  /\ \A j \in Slot \ {h} : buf'[j] = buf[j]
         /\ buf'[h].status = "READY"
         /\ buf'[h].hBuf = buf[h].hBuf
         /\ buf'[h].number_of_reading = 0
         /\ buf'[h].number = TBufFrameNum
         /\ buf'[h].timestamp = clock + step
  BY DEF SetBufferReady, TypeOK, Descriptor

LEMMA TakeEffect ==
  ASSUME TypeOK, NEW r \in Reader, NEW i \in Slot, Take(r, i)
  PROVE  /\ \A j \in Slot \ {i} : buf'[j] = buf[j]
         /\ buf'[i].status = "READING"
         /\ buf'[i].hBuf = buf[i].hBuf
         /\ buf'[i].number_of_reading = (buf[i].number_of_reading + 1) % 256
         /\ buf'[i].number = buf[i].number
         /\ buf'[i].timestamp = buf[i].timestamp
         /\ buf'[i].clients = buf[i].clients
         /\ UNCHANGED <<writing, groupVars, abandoned>>
         /\ pc' = [pc EXCEPT ![r] = "using"]
         /\ at' = [at EXCEPT ![r] = i]
  BY DEF Take, TypeOK, Descriptor

LEMMA CompleteReadEffect ==
  ASSUME TypeOK, NEW r \in Reader, NEW i \in Slot, CompleteRead(r), at[r] = i
  PROVE  /\ \A j \in Slot \ {i} : buf'[j] = buf[j]
         /\ buf'[i].status = StatusAfterRead(ReadsLeft(i), buf[i].clients \ {r})
         /\ buf'[i].hBuf = buf[i].hBuf
         /\ buf'[i].number_of_reading = ReadsLeft(i)
         /\ buf'[i].number = buf[i].number
         /\ buf'[i].timestamp = buf[i].timestamp
         /\ buf'[i].clients = buf[i].clients \ {r}
         /\ UNCHANGED <<writing, groupVars, abandoned>>
         /\ pc' = [pc EXCEPT ![r] = "idle"]
         /\ at' = [at EXCEPT ![r] = NoBuf]
  BY DEF CompleteRead, TypeOK, Descriptor, ReadsLeft

(* Nobody reads and nothing is abandoned in the initial state.             *)
LEMMA IInit == Init => IInv
  <1> SUFFICES ASSUME Init PROVE IInv
    OBVIOUS
  <1>1. TypeOK
    BY TypeInit
  <1>2. \A i \in Slot : buf[i].status = "FREE" /\ buf[i].hBuf = NoBuf
                        /\ buf[i].number_of_reading = 0 /\ abandoned[i] = 0
    BY DEF Init, Zeroed
  <1>3. \A r \in Reader : ~Inside(r) /\ pc[r] # "leaving"
    BY DEF Init, Inside
  <1>4. writing = {}
    BY DEF Init
  <1>5. SlotInv
    BY <1>2, <1>4 DEF SlotInv, Published
  <1>6. NumberInv
    BY <1>2 DEF NumberInv, OrderAgrees, Published
  <1>7. \A i \in Slot : Readers(i) = {}
    BY <1>3 DEF Readers
  <1>8. \A i \in Slot : abandoned[i] <= MaxAbandoned
    BY <1>2, BoundAssumption
  <1>9. ReadInv
    BY <1>2, <1>3, <1>7, <1>8
       DEF ReadInv, NoTornFrame, ReadsAccounted, TestsStillHold
  <1> QED
    BY <1>1, <1>5, <1>6, <1>9 DEF IInv

(* Where a reader works, there is a frame.                                 *)
LEMMA InsideReads ==
  ASSUME IInv, NEW r \in Reader, Inside(r)
  PROVE  /\ at[r] \in Slot \ writing
         /\ buf[at[r]].status = "READING"
         /\ Published(at[r])
         /\ buf[at[r]].hBuf = at[r]
         /\ TBufCount = TBUF_NUMBER
  BY DEF IInv, ReadInv, NoTornFrame, SlotInv, Published

(* No frame is in a group that is not complete, and no handle is out.      *)
LEMMA NothingPublished ==
  ASSUME IInv, NotRegistered \/ TBufCount < TBUF_NUMBER
  PROVE  /\ \A i \in Slot : ~Published(i)
         /\ NotRegistered => writing = {}
         /\ \A r \in Reader : ~Inside(r)
  <1>1. \A i \in Slot : ~Published(i)
    <2> SUFFICES ASSUME NEW i \in Slot, Published(i) PROVE FALSE
      OBVIOUS
    <2>1. buf[i].hBuf = i /\ TBufCount = TBUF_NUMBER
      BY DEF IInv, SlotInv
    <2>2. i # NoBuf
      BY DEF Slot, NoBuf
    <2>3. TBUF_NUMBER \in Nat
      BY SlotAssumption
    <2> QED
      BY <2>1, <2>2, <2>3 DEF NotRegistered
  <1>2. NotRegistered => writing = {}
    BY DEF IInv, SlotInv, NotRegistered, NoBuf, Slot, TypeOK
  <1>3. \A r \in Reader : ~Inside(r)
    BY <1>1 DEF IInv, ReadInv, NoTornFrame, Published
  <1> QED
    BY <1>1, <1>2, <1>3

(* The steps of a reader on a frame leave the slots where they are.        *)
LEMMA SlotStep == IInv /\ [Next]_vars => SlotInv'
  <1> SUFFICES ASSUME IInv, [Next]_vars PROVE SlotInv'
    OBVIOUS
  <1> USE DEF SlotInv, Published
  <1>0. TypeOK /\ SlotInv
    BY DEF IInv
  <1>1. CASE RegisterTransportBufGroup
    <2>1. writing' = {}
      BY <1>1, NothingPublished DEF RegisterTransportBufGroup
    <2>2. ASSUME NEW i \in Slot
          PROVE  /\ buf'[i].status = "FREE"
                 /\ buf'[i].hBuf = IF i < FirstTable THEN i ELSE NoBuf
      BY <1>1 DEF RegisterTransportBufGroup, Zeroed
    <2> QED
      BY <1>1, <2>1, <2>2 DEF RegisterTransportBufGroup
  <1>2. CASE AddBuffers
    <2>1. \A i \in Slot : ~Published(i)
      BY <1>2, NothingPublished DEF AddBuffers
    <2>2. ASSUME NEW i \in Slot
          PROVE  /\ i < TBufCount => buf'[i] = buf[i]
                 /\ ~(i < TBufCount) => /\ buf'[i].status = "FREE"
                                        /\ buf'[i].hBuf = i
      <3>1. buf'[i] = IF i < TBufCount THEN buf[i]
                      ELSE [buf[i] EXCEPT !.hBuf = i, !.status = "FREE"]
        BY <1>2 DEF AddBuffers
      <3>2. buf[i] \in Descriptor
        BY <1>0 DEF TypeOK
      <3> QED
        BY <3>1, <3>2 DEF Descriptor
    <2>3. \A h \in writing : h \in Slot /\ h < TBufCount
      BY <1>0 DEF TypeOK, NoBuf, Slot
    <2>4. writing' = writing /\ TBufCount' = TBUF_NUMBER
      BY <1>2 DEF AddBuffers
    <2>5. \A i \in Slot : i < TBUF_NUMBER
      BY SlotAssumption DEF Slot
    <2> QED
      BY <1>0, <2>1, <2>2, <2>3, <2>4, <2>5
  <1>3. ASSUME NEW getanyway \in GetAnyway, GetBufferToWrite(getanyway)
        PROVE  SlotInv'
    <2>1. PICK i \in Slot : StartWriting(i)
      BY <1>3 DEF GetBufferToWrite, Idle, Victims
    <2> QED
      BY <1>0, <2>1, StartWritingEffect DEF TypeOK, groupVars
  <1>4. ASSUME NEW h \in Slot, NEW step \in TimeStep, SetBufferReady(h, step)
        PROVE  SlotInv'
    <2>1. /\ h \in writing /\ writing' = writing \ {h}
          /\ TBufCount = TBUF_NUMBER /\ TBufCount' = TBufCount
      BY <1>4 DEF SetBufferReady
    <2> QED
      BY <1>0, <1>4, <2>1, SetBufferReadyEffect DEF TypeOK
  <1>5. ASSUME NEW h \in Slot, LoseBuffer(h)
        PROVE  SlotInv'
    BY <1>0, <1>5 DEF LoseBuffer, groupVars
  <1>6. CASE FreeTransportBufGroup
    <2>1. \A i \in Slot : buf'[i].status = "FREE" /\ buf'[i].hBuf = NoBuf
      BY <1>6 DEF FreeTransportBufGroup, Zeroed
    <2> QED
      BY <1>6, <2>1 DEF FreeTransportBufGroup
  <1>7. ASSUME UNCHANGED <<buf, writing, TBufCount>>
        PROVE  SlotInv'
    BY <1>0, <1>7
  <1>8. ASSUME NEW r \in Reader, NEW i \in Wanted(r), Take(r, i)
        PROVE  SlotInv'
    BY <1>0, <1>8, TakeEffect DEF Wanted, TypeOK, groupVars
  <1>9. ASSUME NEW r \in Reader, CompleteRead(r)
        PROVE  SlotInv'
    <2>1. Inside(r)
      BY <1>9 DEF CompleteRead, Inside
    <2>2. PICK i \in Slot : i = at[r] /\ buf[i].hBuf = i
                             /\ TBufCount = TBUF_NUMBER /\ i \notin writing
      BY <2>1, InsideReads
    <2>3. /\ \A j \in Slot \ {i} : buf'[j] = buf[j]
          /\ buf'[i].hBuf = buf[i].hBuf
          /\ UNCHANGED <<writing, groupVars>>
      BY <1>0, <1>9, <2>2, CompleteReadEffect
    <2> QED
      BY <1>0, <2>2, <2>3 DEF TypeOK, groupVars
  <1> QED
    BY <1>1, <1>2, <1>3, <1>4, <1>5, <1>6, <1>7, <1>8, <1>9
       DEF Next, Producer, ReaderStep, GetBufferToRead,
           GetLastKeyBufferToRead, GetBufferByNumToRead, BufferReadComplete,
           BufferReadCompleteByNum, Wanted, KeyFrames, groupVars, vars,
           PlugToTransportBufGroup, ReleaseTransportBufGroup, AddReader,
           RemoveReader, EnterRead, NothingToRead, AbandonFrame

\* Slot j has a frame in the next state only if it has the same one now.
SameFrame(j) ==
  Published(j)' => /\ Published(j)
                   /\ buf'[j].number = buf[j].number
                   /\ buf'[j].timestamp = buf[j].timestamp

(* Frames that are kept stay numbered and stamped in the same order.       *)
LEMMA NumberKept ==
  ASSUME IInv, \A j \in Slot : SameFrame(j), UNCHANGED <<TBufFrameNum, clock>>
  PROVE  NumberInv'
  BY DEF IInv, NumberInv, OrderAgrees, SameFrame

(* A frame is numbered and stamped after those that are in the group.      *)
LEMMA NumberStep == IInv /\ [Next]_vars => NumberInv'
  <1> SUFFICES ASSUME IInv, [Next]_vars PROVE NumberInv'
    OBVIOUS
  <1>0. TypeOK /\ NumberInv /\ SlotInv
    BY DEF IInv
  <1>1. CASE RegisterTransportBufGroup
    <2>1. \A i \in Slot : ~Published(i)'
      BY <1>1 DEF RegisterTransportBufGroup, Zeroed, Published
    <2> QED
      BY <2>1 DEF NumberInv, OrderAgrees
  <1>2. CASE AddBuffers
    <2>1. \A i \in Slot : ~Published(i)
      BY <1>2, NothingPublished DEF AddBuffers
    <2>2. ASSUME NEW i \in Slot
          PROVE  ~Published(i)'
      <3>1. buf'[i] = IF i < TBufCount THEN buf[i]
                      ELSE [buf[i] EXCEPT !.hBuf = i, !.status = "FREE"]
        BY <1>2 DEF AddBuffers
      <3>2. buf[i] \in Descriptor
        BY <1>0 DEF TypeOK
      <3> QED
        BY <2>1, <3>1, <3>2 DEF Descriptor, Published
    <2> QED
      BY <2>2 DEF NumberInv, OrderAgrees
  <1>3. ASSUME NEW getanyway \in GetAnyway, GetBufferToWrite(getanyway)
        PROVE  NumberInv'
    <2>1. PICK i \in Slot : StartWriting(i)
      BY <1>3 DEF GetBufferToWrite, Idle, Victims
    <2>2. \A j \in Slot : SameFrame(j)
      BY <1>0, <2>1, StartWritingEffect DEF SameFrame, Published
    <2> QED
      BY <2>1, <2>2, NumberKept DEF StartWriting, groupVars
  <1>4. ASSUME NEW h \in Slot, NEW step \in TimeStep, SetBufferReady(h, step)
        PROVE  NumberInv'
    <2>1. /\ clock' = clock + step /\ clock \in Nat
          /\ step \in Nat \ {0}
          /\ TBufFrameNum' = TBufFrameNum + 1 /\ TBufFrameNum \in Nat
      BY <1>0, <1>4, ProducerAssumption
         DEF SetBufferReady, NumberAfter, TypeOK
    <2>2. /\ buf'[h].number = TBufFrameNum
          /\ buf'[h].timestamp = clock + step
      BY <1>0, <1>4, SetBufferReadyEffect
    <2>3. \A j \in Slot \ {h} : SameFrame(j)
      BY <1>0, <1>4, SetBufferReadyEffect DEF SameFrame, Published
    <2>4. \A j \in Slot : buf[j].number \in Nat /\ buf[j].timestamp \in Nat
      BY <1>0 DEF TypeOK, Descriptor
    <2>5. ASSUME NEW j \in Slot \ {h}, Published(j)'
          PROVE  /\ buf'[j].number = buf[j].number
                 /\ buf'[j].timestamp = buf[j].timestamp
                 /\ buf[j].number < TBufFrameNum
                 /\ buf[j].timestamp <= clock
      BY <1>0, <2>3, <2>5 DEF NumberInv, SameFrame
    <2>6. \A j \in Slot : Published(j)' => /\ buf'[j].number < TBufFrameNum'
                                           /\ buf'[j].timestamp <= clock'
      BY <2>1, <2>2, <2>4, <2>5
    <2>7. ASSUME NEW i \in Slot, NEW j \in Slot, i # j,
                 Published(i)', Published(j)'
          PROVE  /\ buf'[i].number # buf'[j].number
                 /\ buf'[i].number < buf'[j].number
                      => buf'[i].timestamp < buf'[j].timestamp
      <3>1. CASE i = h
        BY <2>1, <2>2, <2>4, <2>5, <2>7, <3>1
      <3>2. CASE j = h
        BY <2>1, <2>2, <2>4, <2>5, <2>7, <3>2
      <3>3. CASE i # h /\ j # h
        BY <1>0, <2>3, <2>7, <3>3 DEF NumberInv, OrderAgrees, SameFrame
      <3> QED
        BY <3>1, <3>2, <3>3
    <2> QED
      BY <2>6, <2>7 DEF NumberInv, OrderAgrees
  <1>5. CASE FreeTransportBufGroup
    <2>1. \A i \in Slot : ~Published(i)'
      BY <1>5 DEF FreeTransportBufGroup, Zeroed, Published
    <2> QED
      BY <2>1 DEF NumberInv, OrderAgrees
  <1>6. ASSUME UNCHANGED <<buf, TBufFrameNum, clock>>
        PROVE  NumberInv'
    BY <1>6, NumberKept DEF SameFrame, Published
  <1>7. ASSUME NEW r \in Reader, NEW i \in Wanted(r), Take(r, i)
        PROVE  NumberInv'
    <2>1. i \in Slot /\ Published(i)
      BY DEF Wanted
    <2>2. \A j \in Slot : SameFrame(j)
      BY <1>0, <1>7, <2>1, TakeEffect DEF SameFrame, Published
    <2> QED
      BY <1>7, <2>2, NumberKept DEF Take, groupVars
  <1>8. ASSUME NEW r \in Reader, CompleteRead(r)
        PROVE  NumberInv'
    <2>1. Inside(r)
      BY <1>8 DEF CompleteRead, Inside
    <2>2. PICK i \in Slot : i = at[r] /\ Published(i)
      BY <2>1, InsideReads
    <2>3. \A j \in Slot : SameFrame(j)
      BY <1>0, <1>8, <2>2, CompleteReadEffect DEF SameFrame, Published
    <2> QED
      BY <1>8, <2>3, NumberKept DEF CompleteRead, groupVars
  <1> QED
    BY <1>1, <1>2, <1>3, <1>4, <1>5, <1>6, <1>7, <1>8
       DEF Next, Producer, ReaderStep, GetBufferToRead,
           GetLastKeyBufferToRead, GetBufferByNumToRead, BufferReadComplete,
           BufferReadCompleteByNum, Wanted, KeyFrames, groupVars, vars,
           LoseBuffer, PlugToTransportBufGroup, ReleaseTransportBufGroup,
           EnterRead, NothingToRead, AbandonFrame

(* The readers of one slot can be counted.                                 *)
LEMMA ReadersFinite ==
  ASSUME NEW i
  PROVE  /\ IsFiniteSet(Readers(i)) /\ Cardinality(Readers(i)) \in Nat
         /\ Cardinality(Readers(i)) <= Cardinality(Reader)
         /\ Cardinality(Reader) \in Nat
         /\ Readers(i) = {} <=> Cardinality(Readers(i)) = 0
  <1>1. Readers(i) \in SUBSET Reader
    BY DEF Readers
  <1>2. IsFiniteSet(Reader)
    BY ReaderAssumption
  <1>3. IsFiniteSet(Readers(i)) /\ Cardinality(Readers(i)) <= Cardinality(Reader)
    BY <1>1, <1>2, FS_Subset
  <1> QED
    BY <1>2, <1>3, FS_CardinalityType, FS_EmptySet

(* A step that changes no reader that is inside, and no slot that is being
   read, keeps the counts.                                                 *)
LEMMA ReadKept ==
  ASSUME IInv, UNCHANGED readerVars, writing' \subseteq Slot,
         \A h \in writing' : buf'[h].status = "WRITING",
         \A j \in Slot : \/ buf'[j] = buf[j]
                         \/ /\ buf[j].status # "READING"
                            /\ buf'[j].status # "READING"
                            /\ buf'[j].number_of_reading = 0
  PROVE  ReadInv'
  <1>0. ReadInv
    BY DEF IInv
  <1>1. \A r \in Reader : Inside(r)' = Inside(r)
    BY DEF Inside, readerVars
  <1>2. \A j \in Slot : Readers(j)' = Readers(j)
    BY <1>1 DEF Readers, readerVars
  <1>3. ASSUME NEW r \in Reader, Inside(r)
        PROVE  at[r] \in Slot /\ buf[at[r]].status = "READING"
               /\ buf'[at[r]] = buf[at[r]]
    BY <1>0, <1>3 DEF ReadInv, NoTornFrame
  <1>4. NoTornFrame'
    BY <1>1, <1>3 DEF NoTornFrame, readerVars
  <1>5. ReadsAccounted'
    BY <1>0, <1>2 DEF ReadInv, ReadsAccounted, readerVars
  <1>6. TestsStillHold'
    BY <1>0, <1>3 DEF ReadInv, TestsStillHold, Inside, readerVars
  <1> QED
    BY <1>0, <1>4, <1>5, <1>6 DEF ReadInv, readerVars

(* A reader that goes in or out of one slot changes the set of that slot.  *)
LEMMA ReadersChange ==
  ASSUME TypeOK, NEW r \in Reader, NEW i \in Slot
  PROVE  /\ /\ Inside(r) /\ at[r] = i
            /\ pc' = [pc EXCEPT ![r] = "idle"]
            /\ at' = [at EXCEPT ![r] = NoBuf]
            => /\ Readers(i)' = Readers(i) \ {r} /\ r \in Readers(i)
               /\ \A j \in Slot \ {i} : Readers(j)' = Readers(j)
         /\ /\ ~Inside(r)
            /\ pc' = [pc EXCEPT ![r] = "using"]
            /\ at' = [at EXCEPT ![r] = i]
            => /\ Readers(i)' = Readers(i) \cup {r} /\ r \notin Readers(i)
               /\ \A j \in Slot \ {i} : Readers(j)' = Readers(j)
  BY DEF TypeOK, Readers, Inside, NoBuf, Slot

(* A read that is given up stays counted.                                  *)
LEMMA ReadGivenUp ==
  ASSUME IInv, NEW r \in Reader, Inside(r), GiveUp(r), UNCHANGED <<buf, writing>>
  PROVE  ReadInv'
  <1>0. TypeOK /\ ReadInv
    BY DEF IInv
  <1>1. PICK i \in Slot : i = at[r] /\ buf[i].status = "READING"
    BY InsideReads
  <1>2. /\ Readers(i)' = Readers(i) \ {r} /\ r \in Readers(i)
        /\ \A j \in Slot \ {i} : Readers(j)' = Readers(j)
    BY <1>0, <1>1, ReadersChange DEF GiveUp
  <1>3. Cardinality(Readers(i)') = Cardinality(Readers(i)) - 1
    BY <1>2, ReadersFinite, FS_RemoveElement
  <1>4. /\ abandoned'[i] = abandoned[i] + 1
        /\ abandoned[i] < MaxAbandoned
        /\ \A j \in Slot \ {i} : abandoned'[j] = abandoned[j]
        /\ \A j \in Slot : abandoned[j] \in Nat
    BY <1>0, <1>1 DEF GiveUp, TypeOK
  <1>5. ReadsAccounted'
    <2>1. ASSUME NEW j \in Slot, j # i
          PROVE  /\ Readers(j)' = Readers(j)
                 /\ abandoned'[j] = abandoned[j]
      BY <1>2, <1>4, <2>1
    <2>2. buf'[i].number_of_reading =
            Cardinality(Readers(i)') + abandoned'[i]
      BY <1>0, <1>1, <1>3, <1>4, ReadersFinite DEF ReadInv, ReadsAccounted
    <2> QED
      BY <1>0, <1>1, <2>1, <2>2 DEF ReadInv, ReadsAccounted
  <1>6. \A q \in Reader \ {r} : pc'[q] = pc[q] /\ at'[q] = at[q]
    BY <1>0 DEF GiveUp, TypeOK
  <1>7. pc'[r] = "idle"
    BY <1>0 DEF GiveUp, TypeOK
  <1>8. NoTornFrame' /\ TestsStillHold'
    BY <1>0, <1>6, <1>7 DEF ReadInv, NoTornFrame, TestsStillHold, Inside
  <1>9. \A j \in Slot : abandoned'[j] <= MaxAbandoned
    BY <1>0, <1>4, BoundAssumption DEF ReadInv
  <1> QED
    BY <1>5, <1>8, <1>9 DEF ReadInv

(* A frame that is taken is counted once more.                             *)
LEMMA ReadTaken ==
  ASSUME IInv, NEW r \in Reader, ~Inside(r), NEW i \in Wanted(r), Take(r, i)
  PROVE  ReadInv'
  <1>0. TypeOK /\ ReadInv /\ SlotInv
    BY DEF IInv
  <1>1. i \in Slot /\ Published(i)
    BY DEF Wanted
  <1>2. /\ Readers(i)' = Readers(i) \cup {r} /\ r \notin Readers(i)
        /\ \A j \in Slot \ {i} : Readers(j)' = Readers(j)
    BY <1>0, <1>1, TakeEffect, ReadersChange
  <1>3. Cardinality(Readers(i)') = Cardinality(Readers(i)) + 1
    BY <1>2, ReadersFinite, FS_AddElement
  <1>4. buf[i].number_of_reading = Cardinality(Readers(i)) + abandoned[i]
    BY <1>0, <1>1, ReadersFinite DEF ReadInv, ReadsAccounted, Published
  <1>5. Cardinality(Readers(i)') + abandoned[i] \in 1 .. 255
    <2>1. Readers(i)' \in SUBSET Reader
      BY DEF Readers
    <2>2. Cardinality(Readers(i)') <= Cardinality(Reader)
      BY <2>1, FS_Subset, ReaderAssumption
    <2>3. Cardinality(Readers(i)) \in Nat /\ Cardinality(Reader) \in Nat
      BY ReadersFinite
    <2>4. abandoned[i] \in Nat /\ abandoned[i] <= MaxAbandoned
      BY <1>0, <1>1 DEF ReadInv, TypeOK
    <2>5. Cardinality(Readers(i)') >= 1
      BY <1>3, <2>3
    <2> HIDE DEF Readers
    <2> QED
      BY <1>3, <2>2, <2>3, <2>4, <2>5, CountAssumption, BoundAssumption
  <1>6. buf'[i].number_of_reading = Cardinality(Readers(i)') + abandoned[i]
    <2>1. buf'[i].number_of_reading = (buf[i].number_of_reading + 1) % 256
      BY <1>0, <1>1, TakeEffect
    <2>2. abandoned[i] \in Nat
      BY <1>0, <1>1 DEF TypeOK
    <2>3. Cardinality(Readers(i)) \in Nat
      BY ReadersFinite
    <2>4. (Cardinality(Readers(i)) + abandoned[i] + 1) % 256
            = Cardinality(Readers(i)) + 1 + abandoned[i]
      BY <1>3, <1>5, <2>2, <2>3, CountFits
    <2> QED
      BY <1>3, <1>4, <2>1, <2>4
  <1>7. /\ \A j \in Slot \ {i} : buf'[j] = buf[j]
        /\ buf'[i].status = "READING" /\ buf'[i].clients = buf[i].clients
        /\ writing' = writing /\ abandoned' = abandoned
        /\ \A q \in Reader \ {r} : pc'[q] = pc[q] /\ at'[q] = at[q]
        /\ pc'[r] = "using" /\ at'[r] = i
    BY <1>0, <1>1, TakeEffect DEF TypeOK
  <1>8. i \notin writing
    BY <1>0, <1>1 DEF SlotInv, Published
  <1>9. NoTornFrame'
    BY <1>0, <1>1, <1>7, <1>8 DEF ReadInv, NoTornFrame, Inside
  <1>10. ReadsAccounted'
    <2>1. /\ buf'[i].number_of_reading > 0
          /\ buf'[i].number_of_reading =
               Cardinality(Readers(i)') + abandoned'[i]
      BY <1>5, <1>6, <1>7
    <2>2. \A j \in Slot \ {i} : /\ Readers(j)' = Readers(j)
                               /\ abandoned'[j] = abandoned[j]
                               /\ buf'[j] = buf[j]
      BY <1>2, <1>7
    <2> QED
      BY <1>0, <1>7, <2>1, <2>2 DEF ReadInv, ReadsAccounted
  <1>11. TestsStillHold'
    <2> SUFFICES ASSUME NEW q \in Reader, pc'[q] = "leaving"
                 PROVE  /\ buf'[at'[q]].status = "READING"
                        /\ q \in buf'[at'[q]].clients
                        /\ buf'[at'[q]].number_of_reading # 0
      BY DEF TestsStillHold
    <2>1. q # r /\ pc[q] = "leaving" /\ at'[q] = at[q]
      BY <1>7
    <2>2. /\ at[q] \in Slot /\ buf[at[q]].status = "READING"
          /\ q \in buf[at[q]].clients
          /\ buf[at[q]].number_of_reading # 0
      BY <1>0, <2>1 DEF ReadInv, NoTornFrame, TestsStillHold, Inside
    <2>3. CASE at[q] = i
      BY <1>5, <1>6, <1>7, <2>1, <2>2, <2>3
    <2>4. CASE at[q] # i
      BY <1>7, <2>1, <2>2, <2>4
    <2> QED
      BY <2>3, <2>4
  <1> QED
    BY <1>0, <1>7, <1>9, <1>10, <1>11 DEF ReadInv

(* A read that is completed is counted no more, and the slot returns to the
   pool only when that was the last one.                                   *)
LEMMA ReadCompleted ==
  ASSUME IInv, NEW r \in Reader, CompleteRead(r)
  PROVE  ReadInv'
  <1>0. TypeOK /\ ReadInv
    BY DEF IInv
  <1>1. Inside(r) /\ pc[r] = "leaving"
    BY DEF CompleteRead, Inside
  <1>2. PICK i \in Slot : i = at[r] /\ i \notin writing
                          /\ buf[i].status = "READING"
    BY <1>1, InsideReads
  <1> DEFINE n == ReadsLeft(i)
  <1>3. /\ \A j \in Slot \ {i} : buf'[j] = buf[j]
        /\ buf'[i].status = StatusAfterRead(n, buf[i].clients \ {r})
        /\ buf'[i].number_of_reading = n
        /\ buf'[i].clients = buf[i].clients \ {r}
        /\ writing' = writing /\ abandoned' = abandoned
        /\ pc' = [pc EXCEPT ![r] = "idle"] /\ at' = [at EXCEPT ![r] = NoBuf]
    BY <1>0, <1>2, CompleteReadEffect
  <1>4. /\ Readers(i)' = Readers(i) \ {r} /\ r \in Readers(i)
        /\ \A j \in Slot \ {i} : Readers(j)' = Readers(j)
    BY <1>0, <1>1, <1>2, <1>3, ReadersChange
  <1>5. /\ Cardinality(Readers(i)') = Cardinality(Readers(i)) - 1
        /\ IsFiniteSet(Readers(i)') /\ Cardinality(Readers(i)') \in Nat
    BY <1>4, ReadersFinite, FS_RemoveElement, FS_CardinalityType
  <1>6. /\ n = Cardinality(Readers(i)') + abandoned[i]
        /\ abandoned[i] \in Nat
    <2>1. /\ buf[i].number_of_reading = Cardinality(Readers(i)) + abandoned[i]
          /\ buf[i].number_of_reading > 0
      BY <1>0, <1>2 DEF ReadInv, ReadsAccounted
    <2>2. buf[i].number_of_reading \in 0 .. 255 /\ abandoned[i] \in Nat
      BY <1>0, <1>2 DEF TypeOK, Descriptor
    <2>3. n = buf[i].number_of_reading - 1
      BY <2>1, <2>2 DEF ReadsLeft
    <2> HIDE DEF n
    <2> QED
      BY <1>5, <2>1, <2>2, <2>3, ReadersFinite
  <1>7. n # 0 => buf'[i].status = "READING"
    BY <1>3 DEF StatusAfterRead
  <1>8. n = 0 => buf'[i].status # "READING"
    BY <1>3 DEF StatusAfterRead
  <1>9. n = 0 => Readers(i)' = {} /\ abandoned[i] = 0
    BY <1>5, <1>6, FS_EmptySet
  <1> HIDE DEF n
  <1>10. ASSUME NEW q \in Reader, Inside(q)'
         PROVE  /\ q # r /\ pc'[q] = pc[q] /\ at'[q] = at[q]
                /\ Inside(q) /\ at[q] \in Slot \ writing
                /\ at[q] = i => n # 0
    <2>1. q # r /\ pc'[q] = pc[q] /\ at'[q] = at[q] /\ Inside(q)
      BY <1>0, <1>3, <1>10 DEF TypeOK, Inside
    <2>2. at[q] \in Slot \ writing
      BY <1>0, <2>1 DEF ReadInv, NoTornFrame
    <2>3. at[q] = i => q \in Readers(i)'
      BY <1>10, <2>1 DEF Readers
    <2> QED
      BY <1>9, <2>1, <2>2, <2>3
  <1>11. NoTornFrame'
    <2> SUFFICES ASSUME NEW q \in Reader, Inside(q)'
                 PROVE  /\ at'[q] \in Slot \ writing'
                        /\ buf'[at'[q]].status = "READING"
      BY DEF NoTornFrame
    <2>1. CASE at[q] = i
      BY <1>3, <1>7, <1>10, <2>1
    <2>2. CASE at[q] # i
      BY <1>0, <1>3, <1>10, <2>2 DEF ReadInv, NoTornFrame
    <2> QED
      BY <2>1, <2>2
  <1>12. ReadsAccounted'
    <2>1. ASSUME NEW j \in Slot, j # i
          PROVE  /\ Readers(j)' = Readers(j)
                 /\ abandoned'[j] = abandoned[j]
                 /\ buf'[j] = buf[j]
      BY <1>3, <1>4, <2>1
    <2>2. CASE n = 0
      BY <1>0, <1>3, <1>8, <1>9, <2>1, <2>2 DEF ReadInv, ReadsAccounted
    <2>3. CASE n # 0
      <3>1. n > 0
        BY <1>5, <1>6, <2>3
      <3>2. buf'[i].number_of_reading =
              Cardinality(Readers(i)') + abandoned'[i]
        BY <1>3, <1>6
      <3> QED
        BY <1>0, <1>3, <1>7, <2>1, <2>3, <3>1, <3>2
           DEF ReadInv, ReadsAccounted
    <2> QED
      BY <2>2, <2>3
  <1>13. TestsStillHold'
    <2> SUFFICES ASSUME NEW q \in Reader, pc'[q] = "leaving"
                 PROVE  /\ buf'[at'[q]].status = "READING"
                        /\ q \in buf'[at'[q]].clients
                        /\ buf'[at'[q]].number_of_reading # 0
      BY DEF TestsStillHold
    <2>1. Inside(q)'
      BY DEF Inside
    <2>2. q # r /\ pc[q] = "leaving" /\ at'[q] = at[q] /\ at[q] \in Slot
      BY <1>10, <2>1
    <2>3. /\ buf[at[q]].status = "READING"
          /\ q \in buf[at[q]].clients
          /\ buf[at[q]].number_of_reading # 0
      BY <1>0, <2>2 DEF ReadInv, TestsStillHold
    <2>4. CASE at[q] = i
      BY <1>3, <1>7, <1>10, <2>1, <2>2, <2>3, <2>4
    <2>5. CASE at[q] # i
      BY <1>3, <2>2, <2>3, <2>5
    <2> QED
      BY <2>4, <2>5
  <1> QED
    BY <1>0, <1>3, <1>11, <1>12, <1>13 DEF ReadInv

(* A reader that passed the tests of a completion is at the frame it read. *)
LEMMA LeavesItsFrame ==
  ASSUME IInv, NEW r \in Reader, pc[r] = "using", NEW i \in Slot,
         \/ buf[i].hBuf = at[r]
         \/ buf[i].number = buf[at[r]].number,
         Completable(r, i)
  PROVE  i = at[r]
  <1>1. /\ at[r] \in Slot /\ Published(at[r]) /\ buf[at[r]].hBuf = at[r]
    BY InsideReads DEF Inside
  <1>2. Published(i) /\ buf[i].hBuf = i
    BY DEF Completable, Published, IInv, SlotInv
  <1>3. buf[i].number = buf[at[r]].number => i = at[r]
    BY <1>1, <1>2 DEF IInv, NumberInv, OrderAgrees
  <1> QED
    BY <1>1, <1>2, <1>3

(* Moving from one place of its program to another, a reader that stays in
   the same slot, or out of all, changes no count.                         *)
LEMMA ReadMoves ==
  ASSUME IInv, NEW r \in Reader, NEW p \in PC,
         pc' = [pc EXCEPT ![r] = p],
         Inside(r) <=> p \in {"using", "leaving"},
         p = "leaving" => Completable(r, at[r]),
         UNCHANGED <<buf, writing, at, abandoned>>
  PROVE  ReadInv'
  <1>0. TypeOK /\ ReadInv
    BY DEF IInv
  <1>1. \A q \in Reader : Inside(q)' = Inside(q)
    BY <1>0 DEF TypeOK, Inside
  <1>2. \A j \in Slot : Readers(j)' = Readers(j)
    BY <1>1 DEF Readers
  <1>3. TestsStillHold'
    BY <1>0 DEF TypeOK, ReadInv, TestsStillHold, Completable
  <1> QED
    BY <1>0, <1>1, <1>2, <1>3 DEF ReadInv, NoTornFrame, ReadsAccounted

(* The two completion functions, up to the mutex.                          *)
LEMMA ReadLeft ==
  ASSUME IInv, NEW r \in Reader, pc[r] = "using", NEW i \in Slot,
         \/ buf[i].hBuf = at[r]
         \/ buf[i].number = buf[at[r]].number,
         LeaveOrGiveUp(r, i), UNCHANGED <<buf, writing>>
  PROVE  ReadInv'
  <1>0. TypeOK /\ Inside(r)
    BY DEF IInv, Inside
  <1>1. CASE Completable(r, i)
    <2>1. i = at[r]
      BY <1>1, LeavesItsFrame
    <2>2. pc' = [pc EXCEPT ![r] = "leaving"] /\ at' = [at EXCEPT ![r] = i]
          /\ UNCHANGED abandoned
      BY <1>1 DEF LeaveOrGiveUp
    <2>3. UNCHANGED at
      BY <1>0, <2>1, <2>2 DEF TypeOK
    <2> QED
      BY <1>0, <1>1, <2>1, <2>2, <2>3, ReadMoves DEF PC
  <1>2. CASE ~Completable(r, i)
    BY <1>0, <1>2, ReadGivenUp DEF LeaveOrGiveUp
  <1> QED
    BY <1>1, <1>2

(* Every step keeps the counts of the readers.                             *)
LEMMA ReadStep == IInv /\ [Next]_vars => ReadInv'
  <1> SUFFICES ASSUME IInv, [Next]_vars PROVE ReadInv'
    OBVIOUS
  <1>0. TypeOK /\ ReadInv /\ SlotInv
    BY DEF IInv
  <1>a. \A j \in Slot : buf[j].status # "READING" => buf[j].number_of_reading = 0
    BY <1>0 DEF ReadInv, ReadsAccounted
  <1>1. CASE RegisterTransportBufGroup
    <2>1. /\ writing' = {} /\ UNCHANGED readerVars
          /\ \A j \in Slot : buf[j].status # "READING"
      BY <1>1, NothingPublished DEF RegisterTransportBufGroup, Published
    <2>2. \A j \in Slot : buf'[j].status = "FREE" /\ buf'[j].number_of_reading = 0
      BY <1>1 DEF RegisterTransportBufGroup, Zeroed
    <2> QED
      BY <2>1, <2>2, ReadKept
  <1>2. CASE AddBuffers
    <2>1. \A j \in Slot : buf[j].status # "READING"
      BY <1>2, NothingPublished DEF AddBuffers, Published
    <2>2. writing' = writing /\ UNCHANGED readerVars
      BY <1>2 DEF AddBuffers
    <2>3. ASSUME NEW j \in Slot, buf'[j] # buf[j]
          PROVE  /\ buf'[j].status # "READING"
                 /\ buf'[j].number_of_reading = 0
      <3>1. buf'[j] = [buf[j] EXCEPT !.hBuf = j, !.status = "FREE"]
        BY <1>2, <2>3 DEF AddBuffers
      <3>2. buf[j] \in Descriptor
        BY <1>0 DEF TypeOK
      <3> QED
        BY <1>a, <2>1, <3>1, <3>2 DEF Descriptor
    <2>4. \A h \in writing' : buf'[h].status = "WRITING"
      <3> SUFFICES ASSUME NEW h \in writing PROVE buf'[h].status = "WRITING"
        BY <2>2
      <3>1. h \in Slot /\ h < TBufCount /\ buf[h].status = "WRITING"
        BY <1>0 DEF TypeOK, SlotInv, NoBuf, Slot
      <3> QED
        BY <1>2, <3>1 DEF AddBuffers
    <2> QED
      BY <1>0, <2>1, <2>2, <2>3, <2>4, ReadKept DEF TypeOK
  <1>3. ASSUME NEW getanyway \in GetAnyway, GetBufferToWrite(getanyway)
        PROVE  ReadInv'
    <2>1. PICK i \in Slot : StartWriting(i) /\ buf[i].status # "READING"
      BY <1>3 DEF GetBufferToWrite, Idle, Victims
    <2>2. /\ \A j \in Slot \ {i} : buf'[j] = buf[j]
          /\ buf'[i].status = "WRITING"
          /\ buf'[i].number_of_reading = 0
          /\ UNCHANGED readerVars
          /\ writing' \subseteq writing \cup {i}
      BY <1>0, <1>a, <2>1, StartWritingEffect
    <2>3. writing' \subseteq Slot /\ \A h \in writing' : buf'[h].status = "WRITING"
      BY <1>0, <2>2 DEF TypeOK, SlotInv
    <2> QED
      BY <2>1, <2>2, <2>3, ReadKept
  <1>4. ASSUME NEW h \in Slot, NEW step \in TimeStep, SetBufferReady(h, step)
        PROVE  ReadInv'
    <2>1. /\ buf[h].status = "WRITING" /\ writing' = writing \ {h}
          /\ UNCHANGED readerVars
      BY <1>4 DEF SetBufferReady
    <2>2. /\ \A j \in Slot \ {h} : buf'[j] = buf[j]
          /\ buf'[h].status = "READY" /\ buf'[h].number_of_reading = 0
      BY <1>0, <1>4, SetBufferReadyEffect
    <2>3. writing' \subseteq Slot /\ \A g \in writing' : buf'[g].status = "WRITING"
      BY <1>0, <2>1, <2>2 DEF TypeOK, SlotInv
    <2> QED
      BY <2>1, <2>2, <2>3, ReadKept
  <1>5. ASSUME NEW h \in Slot, LoseBuffer(h)
        PROVE  ReadInv'
    <2>1. writing' = writing \ {h} /\ UNCHANGED <<buf, readerVars>>
      BY <1>5 DEF LoseBuffer
    <2> QED
      BY <1>0, <2>1, ReadKept DEF TypeOK, SlotInv
  <1>6. CASE FreeTransportBufGroup
    <2>1. \A r \in Reader : ~Inside(r)'
      BY <1>6 DEF FreeTransportBufGroup, GroupQuiet, Inside
    <2>2. \A j \in Slot : Readers(j)' = {}
      BY <2>1 DEF Readers
    <2>3. \A j \in Slot : /\ buf'[j].status = "FREE"
                          /\ buf'[j].number_of_reading = 0
                          /\ abandoned'[j] = 0
      BY <1>6 DEF FreeTransportBufGroup, Zeroed
    <2>4. NoTornFrame' /\ TestsStillHold'
      BY <2>1 DEF NoTornFrame, TestsStillHold, Inside
    <2> QED
      BY <2>2, <2>3, <2>4, BoundAssumption DEF ReadInv, ReadsAccounted
  <1>7. ASSUME UNCHANGED <<buf, writing, readerVars>>
        PROVE  ReadInv'
    BY <1>0, <1>7, ReadKept DEF TypeOK, SlotInv
  <1>8. ASSUME NEW r \in Reader, ReleaseTransportBufGroup(r)
        PROVE  ReadInv'
    <2>1. CASE GiveUp(r) /\ pc[r] = "using" /\ UNCHANGED <<buf, writing>>
      BY <2>1, ReadGivenUp DEF Inside
    <2> QED
      BY <1>7, <1>8, <2>1 DEF ReleaseTransportBufGroup, GiveUp
  <1>9. ASSUME NEW r \in Reader, EnterRead(r)
        PROVE  ReadInv'
    BY <1>9, ReadMoves DEF EnterRead, Inside, PC
  <1>10. ASSUME NEW r \in Reader, NothingToRead(r)
         PROVE  ReadInv'
    BY <1>10, ReadMoves DEF NothingToRead, Inside, PC
  <1>11. ASSUME NEW r \in Reader, NEW i \in Wanted(r), pc[r] = "entering",
                Take(r, i)
         PROVE  ReadInv'
    BY <1>11, ReadTaken DEF Inside
  <1>12. ASSUME NEW r \in Reader, AbandonFrame(r)
         PROVE  ReadInv'
    BY <1>12, ReadGivenUp DEF AbandonFrame, Inside
  <1>13. ASSUME NEW r \in Reader, BufferReadComplete(r)
         PROVE  ReadInv'
    BY <1>13, ReadLeft DEF BufferReadComplete
  <1>14. ASSUME NEW r \in Reader, BufferReadCompleteByNum(r)
         PROVE  ReadInv'
    BY <1>14, ReadLeft DEF BufferReadCompleteByNum
  <1>15. ASSUME NEW r \in Reader, CompleteRead(r)
         PROVE  ReadInv'
    BY <1>15, ReadCompleted
  <1> QED
    BY <1>1, <1>2, <1>3, <1>4, <1>5, <1>6, <1>7, <1>8, <1>9, <1>10, <1>11,
       <1>12, <1>13, <1>14, <1>15
       DEF Next, Producer, ReaderStep, GetBufferToRead,
           GetLastKeyBufferToRead, GetBufferByNumToRead, Wanted, KeyFrames,
           vars, PlugToTransportBufGroup

-----------------------------------------------------------------------------
(* The theorems.                                                           *)

(* The strengthened invariant holds in every reachable state.              *)
THEOREM Inductive == Spec => []IInv
  <1>1. IInv /\ [Next]_vars => IInv'
    BY TypeStep, SlotStep, NumberStep, ReadStep DEF IInv
  <1> QED
    BY IInit, <1>1, PTL DEF Spec

(* With any number of slots and readers, no frame is overwritten while a
   reader works on it.                                                     *)
THEOREM NeverTorn == Spec => []NoTornFrame
  <1>1. IInv => NoTornFrame
    BY DEF IInv, ReadInv
  <1> QED
    BY Inductive, <1>1, PTL

(* number_of_reading counts the readers of a slot and the reads that were
   given up, as long as a u8 can hold them.                                *)
THEOREM AlwaysAccounted == Spec => []ReadsAccounted
  <1>1. IInv => ReadsAccounted
    BY DEF IInv, ReadInv
  <1> QED
    BY Inductive, <1>1, PTL

(* What a completion tested before the mutex holds when it has the mutex.  *)
THEOREM TestsAlwaysHold == Spec => []TestsStillHold
  <1>1. IInv => TestsStillHold
    BY DEF IInv, ReadInv
  <1> QED
    BY Inductive, <1>1, PTL

(* Frame numbers are unique and increase with time.                        *)
THEOREM OrderAlwaysAgrees == Spec => []OrderAgrees
  <1>1. IInv => OrderAgrees
    BY DEF IInv, NumberInv
  <1> QED
    BY Inductive, <1>1, PTL

(* Reading the lowest time stamp is reading the oldest frame: a reader of the
   recorder or an encoder never skips a frame it is owed.                  *)
THEOREM AlwaysOldest == Spec => TakesOldest
  <1> DEFINE Oldest ==
        \A r \in Reader \ LiveReader :
          pc[r] # "using" /\ pc'[r] = "using" =>
            \A j \in Wanted(r) : buf[at'[r]].number <= buf[j].number
  <1>1. IInv /\ [Next]_vars => [Oldest]_vars
    <2> SUFFICES ASSUME IInv, Next,
                        NEW r \in Reader \ LiveReader,
                        pc[r] # "using", pc'[r] = "using",
                        NEW j \in Wanted(r)
                 PROVE  buf[at'[r]].number <= buf[j].number
      BY DEF Oldest
    <2>0. TypeOK
      BY DEF IInv
    <2>1. GetBufferToRead(r)
      <3>1. ~Producer
        <4>1. ASSUME NEW getanyway, GetBufferToWrite(getanyway)
              PROVE  UNCHANGED pc
          BY <4>1 DEF GetBufferToWrite, StartWriting, readerVars
        <4>2. ASSUME NEW h, NEW step, SetBufferReady(h, step)
              PROVE  UNCHANGED pc
          BY <4>2 DEF SetBufferReady, readerVars
        <4> QED
          BY <4>1, <4>2
             DEF Producer, RegisterTransportBufGroup, AddBuffers, LoseBuffer,
                 FreeTransportBufGroup, readerVars
      <3>2. PICK q \in Reader : ReaderStep(q)
        BY <3>1 DEF Next
      <3>3. \/ UNCHANGED pc
            \/ \E p \in PC \ {"using"} : pc' = [pc EXCEPT ![q] = p]
            \/ GetBufferToRead(q)
            \/ /\ q \in LiveReader
               /\ pc' = [pc EXCEPT ![q] = "using"]
        BY <3>2 DEF ReaderStep, PlugToTransportBufGroup, readerVars,
             ReleaseTransportBufGroup, EnterRead, GetLastKeyBufferToRead,
             GetBufferByNumToRead, Take, NothingToRead, AbandonFrame,
             GiveUp, BufferReadComplete, BufferReadCompleteByNum,
             LeaveOrGiveUp, CompleteRead, PC
      <3>4. CASE GetBufferToRead(q)
        <4>1. pc' = [pc EXCEPT ![q] = "using"]
          BY <3>4 DEF GetBufferToRead, Take
        <4> QED
          BY <2>0, <3>4, <4>1 DEF TypeOK
      <3> QED
        BY <2>0, <3>3, <3>4 DEF TypeOK
    <2>2. PICK i \in Wanted(r) : Earliest(i, Wanted(r)) /\ Take(r, i)
      BY <2>1 DEF GetBufferToRead
    <2>3. at'[r] = i
      BY <2>0, <2>2 DEF Take, TypeOK
    <2>4. /\ i \in Slot /\ j \in Slot /\ Published(i) /\ Published(j)
          /\ buf[i].number \in Nat /\ buf[j].number \in Nat
          /\ buf[i].timestamp \in Nat /\ buf[j].timestamp \in Nat
      BY <2>0 DEF Wanted, TypeOK, Descriptor
    <2>5. buf[i].timestamp <= buf[j].timestamp
      BY <2>2, <2>4 DEF Earliest
    <2>6. buf[j].number < buf[i].number =>
            buf[j].timestamp < buf[i].timestamp
      BY <2>4 DEF IInv, NumberInv, OrderAgrees
    <2> QED
      BY <2>3, <2>4, <2>5, <2>6
  <1> QED
    BY Inductive, <1>1, PTL DEF Spec, TakesOldest
=============================================================================
