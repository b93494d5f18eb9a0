------------------------- MODULE FrameExchange_proofs -------------------------
(***************************************************************************)
(* The proof that TransportBuffers implements FrameExchange, for every     *)
(* number of slots, readers, handles and frames: the initial states map to *)
(* initial states, and every step to a step or a stutter.                  *)
(***************************************************************************)
EXTENDS TransportBuffers_proofs

\* What the mapping gives reader r.
Owed(r) == {buf[i].number : i \in Wanted(r)}
Using(r) == IF Inside(r) THEN {buf[at[r]].number} ELSE {}

\* A reader at a frame is one of those the frame was published to and has not
\* completed it; a thread that reads one frame after the other is plugged until
\* it has given up its frame.
HoldInv ==
  \A r \in Reader :
    /\ Inside(r) => r \in buf[at[r]].clients
    /\ r \notin LiveReader /\ pc[r] # "idle" => r \in TBufReadersMask

HInv == IInv /\ HoldInv

-----------------------------------------------------------------------------
(* The steps of FrameExchange, in terms of what the mapping gives.         *)

LEMMA StutterMapped ==
  ASSUME UNCHANGED <<TBufFrameNum, TBufReadersMask>>,
         \A r \in Reader : Owed(r)' = Owed(r) /\ Using(r)' = Using(r)
  PROVE  UNCHANGED Exchange!exchangeVars
BY DEF Exchange!exchangeVars, Owed, Using

LEMMA RenumberMapped ==
  ASSUME \A r \in Reader : Owed(r) = {} /\ Using(r) = {},
         \A r \in Reader : Owed(r)' = {} /\ Using(r)' = {},
         TBufFrameNum' = 0, UNCHANGED TBufReadersMask
  PROVE  Exchange!Next
<1>1. Exchange!Renumber
  BY DEF Exchange!Renumber, Owed, Using
<1> QED
  BY <1>1 DEF Exchange!Next

LEMMA RestartMapped ==
  ASSUME TBufReadersMask = {},
         \A r \in Reader : Using(r) = {} /\ Owed(r)' = {} /\ Using(r)' = {},
         UNCHANGED <<TBufFrameNum, TBufReadersMask>>
  PROVE  Exchange!Next
<1>1. Exchange!Restart
  BY DEF Exchange!Restart, Owed, Using
<1> QED
  BY <1>1 DEF Exchange!Next

LEMMA PublishMapped ==
  ASSUME TBufFrameNum' = TBufFrameNum + 1, UNCHANGED TBufReadersMask,
         \A r \in Reader :
           /\ Owed(r)' = IF r \in TBufReadersMask
                         THEN Owed(r) \cup {TBufFrameNum} ELSE Owed(r)
           /\ Using(r)' = Using(r)
  PROVE  Exchange!Next
<1>1. Exchange!Publish
  BY DEF Exchange!Publish, Owed, Using
<1> QED
  BY <1>1 DEF Exchange!Next

\* The readers that may lose a frame.
Losers == IF TRUE \in GetAnyway THEN Reader
          ELSE IF Compressed THEN {StreamB} ELSE {}

LEMMA OverwriteMapped ==
  ASSUME NEW n \in 0 .. TBufFrameNum,
         \A r \in Reader : n \notin Using(r),
         \A r \in TBufReadersMask \ Losers : n \notin Owed(r),
         TypeOK,
         \A r \in Reader : Owed(r)' = Owed(r) \ {n} /\ Using(r)' = Using(r),
         UNCHANGED <<TBufFrameNum, TBufReadersMask>>
  PROVE  Exchange!Next
<1>1. Exchange!Overwrite(n)
  BY DEF Exchange!Overwrite, Owed, Using, Losers, TypeOK
<1> QED
  BY <1>1 DEF Exchange!Next

LEMMA PlugMapped ==
  ASSUME NEW r \in Reader, r \notin TBufReadersMask,
         TBufReadersMask' = TBufReadersMask \cup {r}, UNCHANGED TBufFrameNum,
         \A q \in Reader : Owed(q)' = Owed(q) /\ Using(q)' = Using(q)
  PROVE  Exchange!Next
<1>1. Exchange!Plug(r)
  BY DEF Exchange!Plug, Owed, Using
<1> QED
  BY <1>1 DEF Exchange!Next

LEMMA UnplugMapped ==
  ASSUME NEW r \in Reader, r \in TBufReadersMask,
         TBufReadersMask' = TBufReadersMask \ {r}, UNCHANGED TBufFrameNum,
         \A q \in Reader : Owed(q)' = Owed(q),
         \A q \in Reader \ {r} : Using(q)' = Using(q),
         Using(r)' = IF r \in LiveReader THEN Using(r) ELSE {}
  PROVE  Exchange!Next
<1>1. Exchange!Unplug(r)
  BY DEF Exchange!Unplug, Owed, Using
<1> QED
  BY <1>1 DEF Exchange!Next

LEMMA TakeMapped ==
  ASSUME NEW r \in Reader, Using(r) = {}, NEW n \in Owed(r),
         r \notin LiveReader => \A m \in Owed(r) : n <= m,
         Using(r)' = {n}, \A q \in Reader \ {r} : Using(q)' = Using(q),
         \A q \in Reader : Owed(q)' = Owed(q),
         UNCHANGED <<TBufFrameNum, TBufReadersMask>>
  PROVE  Exchange!Next
<1>1. Exchange!Take(r, n)
  BY DEF Exchange!Take, Owed, Using
<1> QED
  BY <1>1 DEF Exchange!Next, Owed

LEMMA CompleteMapped ==
  ASSUME NEW r \in Reader, Using(r) # {}, Using(r)' = {},
         Owed(r)' = Owed(r) \ Using(r),
         \A q \in Reader \ {r} : Owed(q)' = Owed(q) /\ Using(q)' = Using(q),
         UNCHANGED <<TBufFrameNum, TBufReadersMask>>
  PROVE  Exchange!Next
<1>1. Exchange!Complete(r)
  BY DEF Exchange!Complete, Owed, Using
<1> QED
  BY <1>1 DEF Exchange!Next

LEMMA DropMapped ==
  ASSUME NEW r \in LiveReader, Using(r)' = {},
         \A q \in Reader \ {r} : Using(q)' = Using(q),
         \A q \in Reader : Owed(q)' = Owed(q),
         UNCHANGED <<TBufFrameNum, TBufReadersMask>>
  PROVE  Exchange!Next
<1>1. r \in Reader
  BY ReaderAssumption
<1>2. Exchange!Drop(r)
  BY <1>1 DEF Exchange!Drop, Owed, Using
<1> QED
  BY <1>1, <1>2 DEF Exchange!Next

-----------------------------------------------------------------------------
(* The steps of TransportBuffers.                                          *)

\* A step of FrameExchange, or none.
Mapped == [Exchange!Next]_(Exchange!exchangeVars)

\* What a reader is owed depends on the slots it wants and their numbers.
LEMMA OwedKept ==
  ASSUME NEW r, Wanted(r)' = Wanted(r),
         \A j \in Wanted(r) : buf'[j].number = buf[j].number
  PROVE  Owed(r)' = Owed(r)
BY DEF Owed

\* Numbers identify frames: without its slot a frame is owed no more.
LEMMA OwedLoses ==
  ASSUME IInv, NEW r, NEW i \in Slot, Published(i),
         Wanted(r)' = Wanted(r) \ {i},
         \A j \in Wanted(r) \ {i} : buf'[j].number = buf[j].number
  PROVE  Owed(r)' = Owed(r) \ {buf[i].number}
<1>1. \A j \in Wanted(r) \ {i} : buf[j].number # buf[i].number
  BY DEF IInv, NumberInv, OrderAgrees, Wanted
<1> QED
  BY <1>1 DEF Owed

\* A reader uses the frame it used as long as it does not move and the slot
\* keeps its number.
LEMMA UsingKept ==
  ASSUME NEW r \in Reader, UNCHANGED <<pc[r], at[r]>>,
         Inside(r) => buf'[at[r]].number = buf[at[r]].number
  PROVE  Using(r)' = Using(r)
BY DEF Using, Inside

\* RegisterTransportBufGroup and the second table: nothing was published.
LEMMA TablesMapped ==
  ASSUME HInv, RegisterTransportBufGroup \/ AddBuffers
  PROVE  Exchange!Next
<1>1. /\ \A i \in Slot : ~Published(i)
      /\ \A r \in Reader : ~Inside(r)
  BY NothingPublished
     DEF HInv, IInv, TypeOK, RegisterTransportBufGroup, AddBuffers
<1>2. /\ TBufFrameNum' = 0 /\ UNCHANGED <<TBufReadersMask, pc>>
      /\ \A i \in Slot : buf'[i].status = "FREE" \/ buf'[i] = buf[i]
  <2>1. CASE RegisterTransportBufGroup
    BY <2>1 DEF RegisterTransportBufGroup, Zeroed, readerVars
  <2>2. CASE AddBuffers
    BY <2>2 DEF AddBuffers, readerVars, HInv, IInv, TypeOK, Descriptor
  <2> QED
    BY <2>1, <2>2
<1>3. \A i \in Slot : ~Published(i)'
  BY <1>1, <1>2 DEF Published
<1>4. \A r \in Reader : ~Inside(r)'
  BY <1>1, <1>2 DEF Inside
<1>5. \A r \in Reader : Wanted(r) = {} /\ Wanted(r)' = {}
  BY <1>1, <1>3 DEF Wanted
<1> QED
  BY <1>1, <1>2, <1>4, <1>5, RenumberMapped DEF Owed, Using

\* GetBufferToWrite: an idle slot without a frame changes nothing, one that
\* held a frame is a frame that is overwritten.
LEMMA WriteMapped ==
  ASSUME HInv, NEW getanyway \in GetAnyway, GetBufferToWrite(getanyway)
  PROVE  Mapped
<1>0. IInv /\ TypeOK
  BY DEF HInv, IInv
<1>1. PICK i \in Slot :
        /\ StartWriting(i)
        /\ \/ buf[i].status = "FREE"
           \/ /\ buf[i].status = "READY"
              /\ \/ buf[i].clients \cap TBufReadersMask = {}
                 \/ getanyway \/ (Compressed /\ buf[i].clients = {StreamB})
  BY DEF GetBufferToWrite, Idle, Victims
<1>2. /\ \A j \in Slot \ {i} : buf'[j] = buf[j]
      /\ buf'[i].status = "WRITING"
      /\ UNCHANGED <<TBufFrameNum, TBufReadersMask, pc, at>>
  BY <1>0, <1>1, StartWritingEffect DEF groupVars, readerVars
<1>3. \A r \in Reader : Wanted(r)' = Wanted(r) \ {i}
  BY <1>2 DEF Wanted, Published
<1>4. \A r \in Reader : Inside(r) => at[r] \in Slot \ {i} /\ Published(at[r])
  BY <1>0, <1>1, InsideReads
<1>5. \A r \in Reader : Using(r)' = Using(r)
  BY <1>2, <1>4, UsingKept
<1>6. CASE buf[i].status = "FREE"
  <2>1. \A r \in Reader : Wanted(r)' = Wanted(r) /\ i \notin Wanted(r)
    BY <1>3, <1>6 DEF Wanted, Published
  <2>2. \A r \in Reader : Owed(r)' = Owed(r)
    BY <1>2, <2>1, OwedKept DEF Wanted
  <2> QED
    BY <1>2, <1>5, <2>2, StutterMapped DEF Mapped
<1>7. CASE buf[i].status = "READY"
  <2> DEFINE n == buf[i].number
  <2>1. Published(i) /\ n \in Nat /\ n < TBufFrameNum /\ TBufFrameNum \in Nat
    BY <1>0, <1>7 DEF Published, IInv, NumberInv, TypeOK, Descriptor
  <2>2. \A r \in Reader : Owed(r)' = Owed(r) \ {n}
    BY <1>0, <1>2, <1>3, <2>1, OwedLoses DEF Wanted
  <2>3. \A r \in Reader : n \notin Using(r)
    BY <1>0, <1>4, <2>1 DEF Using, IInv, NumberInv, OrderAgrees
  <2>4. ASSUME NEW r \in TBufReadersMask \ Losers
        PROVE  n \notin Owed(r)
    <3>1. r \in Reader
      BY <1>0 DEF TypeOK
    <3>2. r \notin buf[i].clients
      BY <1>1, <1>7, <3>1 DEF Losers
    <3>3. \A j \in Wanted(r) : j # i /\ buf[j].number # n
      BY <1>0, <2>1, <3>2 DEF Wanted, IInv, NumberInv, OrderAgrees
    <3> QED
      BY <3>3 DEF Owed
  <2>5. n \in 0 .. TBufFrameNum
    BY <2>1
  <2> HIDE DEF n
  <2> QED
    BY <1>0, <1>2, <1>5, <2>2, <2>3, <2>4, <2>5, OverwriteMapped DEF Mapped
<1> QED
  BY <1>1, <1>6, <1>7

\* SetBufferReady: the frame is owed to the readers plugged now.
LEMMA ReadyMapped ==
  ASSUME HInv, NEW h \in Slot, NEW step \in TimeStep, SetBufferReady(h, step)
  PROVE  Mapped
<1>0. IInv /\ TypeOK
  BY DEF HInv, IInv
<1>1. /\ \A j \in Slot \ {h} : buf'[j] = buf[j]
      /\ buf'[h].status = "READY" /\ buf'[h].number = TBufFrameNum
      /\ buf'[h].clients = TBufReadersMask
      /\ buf[h].status = "WRITING"
      /\ TBufFrameNum' = TBufFrameNum + 1
      /\ UNCHANGED <<TBufReadersMask, pc, at>>
  <2>1. buf'[h].clients = TBufReadersMask
    BY <1>0 DEF SetBufferReady, TypeOK, Descriptor
  <2> QED
    BY <1>0, <2>1, SetBufferReadyEffect
       DEF SetBufferReady, NumberAfter, readerVars
<1>2. \A r \in Reader :
        /\ h \notin Wanted(r)
        /\ Wanted(r)' = IF r \in TBufReadersMask THEN Wanted(r) \cup {h}
                        ELSE Wanted(r)
  BY <1>1 DEF Wanted, Published
<1>3. \A r \in Reader : \A j \in Wanted(r) : buf'[j].number = buf[j].number
  BY <1>1, <1>2 DEF Wanted
<1>4. \A r \in Reader :
        Owed(r)' = IF r \in TBufReadersMask THEN Owed(r) \cup {TBufFrameNum}
                   ELSE Owed(r)
  BY <1>1, <1>2, <1>3 DEF Owed
<1>5. \A r \in Reader : Inside(r) => at[r] \in Slot \ {h}
  BY <1>0, <1>1, InsideReads
<1>6. \A r \in Reader : Using(r)' = Using(r)
  BY <1>1, <1>5, UsingKept
<1> QED
  BY <1>1, <1>4, <1>6, PublishMapped DEF Mapped

\* A handle that is lost holds no frame; a group that is freed has no reader.
LEMMA LoseAndFreeMapped ==
  ASSUME HInv, (\E h \in Slot : LoseBuffer(h)) \/ FreeTransportBufGroup
  PROVE  Mapped
<1>1. CASE \E h \in Slot : LoseBuffer(h)
  <2>1. UNCHANGED <<buf, TBufFrameNum, TBufReadersMask, pc, at>>
    BY <1>1 DEF LoseBuffer, groupVars, readerVars
  <2>2. \A r \in Reader : Owed(r)' = Owed(r) /\ Using(r)' = Using(r)
    BY <2>1 DEF Owed, Using, Wanted, Published, Inside
  <2> QED
    BY <2>1, <2>2, StutterMapped DEF Mapped
<1>2. CASE FreeTransportBufGroup
  <2>1. /\ TBufReadersMask = {} /\ \A r \in Reader : ~Inside(r)
        /\ \A i \in Slot : buf'[i].status = "FREE"
        /\ UNCHANGED <<TBufFrameNum, TBufReadersMask, pc>>
    BY <1>2 DEF FreeTransportBufGroup, GroupQuiet, Inside, Zeroed, groupVars
  <2>2. \A r \in Reader : Wanted(r)' = {} /\ ~Inside(r)'
    BY <2>1 DEF Wanted, Published, Inside
  <2>3. \A r \in Reader : Using(r) = {} /\ Owed(r)' = {} /\ Using(r)' = {}
    BY <2>1, <2>2 DEF Owed, Using
  <2> QED
    BY <2>1, <2>3, RestartMapped DEF Mapped
<1> QED
  BY <1>1, <1>2

\* Who is plugged changes by one; the reader gives up its frame with its place
\* unless it is the live library.
LEMMA PlugReleaseMapped ==
  ASSUME HInv, NEW r \in Reader,
         PlugToTransportBufGroup(r) \/ ReleaseTransportBufGroup(r)
  PROVE  Mapped
<1>0. IInv /\ TypeOK
  BY DEF HInv, IInv
<1>1. \A q \in Reader : Owed(q)' = Owed(q)
  <2>1. UNCHANGED buf
    BY DEF PlugToTransportBufGroup, ReleaseTransportBufGroup
  <2> QED
    BY <2>1 DEF Owed, Wanted, Published
<1>2. CASE PlugToTransportBufGroup(r)
  <2>1. /\ r \notin TBufReadersMask
        /\ TBufReadersMask' = TBufReadersMask \cup {r}
        /\ UNCHANGED <<buf, TBufFrameNum, pc, at>>
    BY <1>0, <1>2 DEF PlugToTransportBufGroup, AddReader, CheckReader,
                      readerVars, TypeOK
  <2>2. \A q \in Reader : Using(q)' = Using(q)
    BY <2>1, UsingKept
  <2> QED
    BY <1>1, <2>1, <2>2, PlugMapped DEF Mapped
<1>3. CASE ReleaseTransportBufGroup(r)
  <2>1. /\ r \in TBufReadersMask
        /\ TBufReadersMask' = TBufReadersMask \ {r}
        /\ UNCHANGED <<buf, TBufFrameNum>>
        /\ \/ (r \in LiveReader \/ pc[r] = "idle") /\ UNCHANGED <<pc, at>>
           \/ /\ r \notin LiveReader
              /\ pc' = [pc EXCEPT ![r] = "idle"]
              /\ at' = [at EXCEPT ![r] = NoBuf]
    BY <1>0, <1>3 DEF ReleaseTransportBufGroup, RemoveReader, readerVars,
                      TypeOK
  <2>2. \A q \in Reader \ {r} : Using(q)' = Using(q)
    <3>1. \A q \in Reader \ {r} : UNCHANGED <<pc[q], at[q]>>
      BY <1>0, <2>1 DEF TypeOK
    <3> QED
      BY <2>1, <3>1, UsingKept
  <2>3. Using(r)' = IF r \in LiveReader THEN Using(r) ELSE {}
    <3>1. CASE UNCHANGED <<pc, at>> /\ r \in LiveReader
      BY <2>1, <3>1, UsingKept
    <3>2. CASE r \notin LiveReader
      <4>1. pc'[r] = "idle"
        BY <1>0, <2>1, <3>2 DEF TypeOK
      <4> QED
        BY <3>2, <4>1 DEF Using, Inside
    <3> QED
      BY <2>1, <3>1, <3>2
  <2> QED
    BY <1>1, <2>1, <2>2, <2>3, UnplugMapped DEF Mapped
<1> QED
  BY <1>2, <1>3

\* A reader that comes in, or finds nothing, uses no frame.
LEMMA EnterMapped ==
  ASSUME HInv, NEW r \in Reader, EnterRead(r) \/ NothingToRead(r)
  PROVE  Mapped
<1>1. /\ pc[r] \in {"idle", "entering"}
      /\ \E p \in {"idle", "entering"} : pc' = [pc EXCEPT ![r] = p]
      /\ UNCHANGED <<buf, TBufFrameNum, TBufReadersMask, at>>
  BY DEF EnterRead, NothingToRead, groupVars
<1>2. \A q \in Reader : Inside(q)' = Inside(q)
  BY <1>1 DEF Inside, HInv, IInv, TypeOK
<1>3. \A q \in Reader : Owed(q)' = Owed(q) /\ Using(q)' = Using(q)
  BY <1>1, <1>2 DEF Owed, Using, Wanted, Published
<1> QED
  BY <1>1, <1>3, StutterMapped DEF Mapped

\* The three reads.  The lowest time stamp is the lowest number.
LEMMA ReadMapped ==
  ASSUME HInv, NEW r \in Reader,
         \/ GetBufferToRead(r) \/ GetLastKeyBufferToRead(r)
         \/ \E n \in 1 .. MaxFrame : GetBufferByNumToRead(r, n)
  PROVE  Mapped
<1>0. IInv /\ TypeOK
  BY DEF HInv, IInv
<1>1. PICK i \in Wanted(r) :
        /\ Take(r, i) /\ pc[r] = "entering"
        /\ r \notin LiveReader => Earliest(i, Wanted(r))
  BY DEF GetBufferToRead, GetLastKeyBufferToRead, GetBufferByNumToRead,
         KeyFrames
<1>2. /\ i \in Slot /\ Published(i) /\ r \in buf[i].clients
      /\ \A j \in Slot \ {i} : buf'[j] = buf[j]
      /\ buf'[i].status = "READING" /\ buf'[i].number = buf[i].number
      /\ buf'[i].clients = buf[i].clients
      /\ UNCHANGED <<TBufFrameNum, TBufReadersMask>>
      /\ pc' = [pc EXCEPT ![r] = "using"] /\ at' = [at EXCEPT ![r] = i]
  BY <1>0, <1>1, TakeEffect DEF Wanted, groupVars
<1>3. \A q \in Reader : Wanted(q)' = Wanted(q)
  BY <1>2 DEF Wanted, Published
<1>4. \A q \in Reader : Owed(q)' = Owed(q)
  BY <1>2, <1>3, OwedKept DEF Wanted
<1>5. \A q \in Reader \ {r} : Using(q)' = Using(q)
  <2>1. \A q \in Reader \ {r} :
          /\ UNCHANGED <<pc[q], at[q]>>
          /\ Inside(q) => buf'[at[q]].number = buf[at[q]].number
    BY <1>0, <1>2, InsideReads DEF TypeOK
  <2> QED
    BY <2>1, UsingKept
<1>6. Using(r) = {} /\ Using(r)' = {buf[i].number}
  BY <1>0, <1>1, <1>2 DEF Using, Inside, TypeOK
<1>7. buf[i].number \in Owed(r)
  BY <1>1 DEF Owed
<1>8. r \notin LiveReader => \A m \in Owed(r) : buf[i].number <= m
  <2> SUFFICES ASSUME r \notin LiveReader, NEW j \in Wanted(r)
               PROVE  buf[i].number <= buf[j].number
    BY DEF Owed
  <2>1. /\ j \in Slot /\ Published(j)
        /\ buf[i].number \in Nat /\ buf[j].number \in Nat
        /\ buf[i].timestamp \in Nat /\ buf[j].timestamp \in Nat
    BY <1>0, <1>2 DEF Wanted, TypeOK, Descriptor
  <2>2. buf[i].timestamp <= buf[j].timestamp
    BY <1>1, <2>1 DEF Earliest
  <2>3. buf[j].number < buf[i].number => buf[j].timestamp < buf[i].timestamp
    BY <1>0, <1>2, <2>1 DEF IInv, NumberInv, OrderAgrees
  <2> QED
    BY <2>1, <2>2, <2>3
<1> QED
  BY <1>2, <1>4, <1>5, <1>6, <1>7, <1>8, TakeMapped DEF Mapped

\* The live library gives up a frame: it uses none, and is owed it still.
LEMMA GiveUpMapped ==
  ASSUME HInv, NEW r \in LiveReader, GiveUp(r),
         UNCHANGED <<buf, writing, groupVars>>
  PROVE  Mapped
<1>1. r \in Reader /\ TypeOK
  BY ReaderAssumption DEF HInv, IInv
<1>2. /\ UNCHANGED <<buf, TBufFrameNum, TBufReadersMask>>
      /\ pc' = [pc EXCEPT ![r] = "idle"] /\ at' = [at EXCEPT ![r] = NoBuf]
  BY DEF GiveUp, groupVars
<1>3. \A q \in Reader : Owed(q)' = Owed(q)
  BY <1>2 DEF Owed, Wanted, Published
<1>4. \A q \in Reader \ {r} : Using(q)' = Using(q)
  <2>1. \A q \in Reader \ {r} : UNCHANGED <<pc[q], at[q]>>
    BY <1>1, <1>2 DEF TypeOK
  <2> QED
    BY <1>2, <2>1, UsingKept
<1>5. Using(r)' = {}
  BY <1>1, <1>2 DEF Using, Inside, TypeOK
<1> QED
  BY <1>2, <1>3, <1>4, <1>5, DropMapped DEF Mapped

\* A thread that completes its frame passes the tests; the live library, whose
\* place may be gone, passes them or gives its frame up.
LEMMA LeaveMapped ==
  ASSUME HInv, NEW r \in Reader,
         AbandonFrame(r) \/ BufferReadComplete(r) \/ BufferReadCompleteByNum(r)
  PROVE  Mapped
<1>0. IInv /\ TypeOK /\ HoldInv
  BY DEF HInv, IInv
<1>1. /\ pc[r] = "using" /\ Inside(r)
      /\ UNCHANGED <<buf, writing, groupVars>>
  BY DEF AbandonFrame, BufferReadComplete, BufferReadCompleteByNum, Inside
<1>2. \/ r \in LiveReader /\ GiveUp(r)
      \/ /\ pc' = [pc EXCEPT ![r] = "leaving"]
         /\ UNCHANGED at
  <2>1. CASE AbandonFrame(r)
    BY <2>1 DEF AbandonFrame
  <2>2. ASSUME NEW i \in Slot, LeaveOrGiveUp(r, i),
               \/ buf[i].hBuf = at[r]
               \/ r \in LiveReader /\ buf[i].number = buf[at[r]].number
        PROVE  \/ r \in LiveReader /\ GiveUp(r)
               \/ /\ pc' = [pc EXCEPT ![r] = "leaving"]
                  /\ UNCHANGED at
    <3>1. CASE Completable(r, i)
      <4>1. i = at[r]
        BY <1>0, <1>1, <2>2, <3>1, LeavesItsFrame
      <4> QED
        BY <1>0, <2>2, <3>1, <4>1 DEF LeaveOrGiveUp, TypeOK
    <3>2. CASE ~Completable(r, i) /\ r \in LiveReader
      BY <2>2, <3>2 DEF LeaveOrGiveUp
    <3>3. CASE r \notin LiveReader
      <4>1. i = at[r] /\ buf[i].status = "READING"
        <5>1. /\ at[r] \in Slot /\ buf[at[r]].status = "READING"
              /\ buf[at[r]].hBuf = at[r]
          BY <1>0, <1>1, InsideReads
        <5>2. buf[i].hBuf \in {NoBuf, i} /\ at[r] # NoBuf
          BY <1>0, <5>1 DEF IInv, SlotInv, Slot, NoBuf
        <5> QED
          BY <2>2, <3>3, <5>1, <5>2
      <4>2. r \in buf[i].clients /\ r \in TBufReadersMask /\ r \in bufReaders
        BY <1>0, <1>1, <3>3, <4>1 DEF HoldInv, TypeOK
      <4>3. buf[i].number_of_reading # 0
        BY <1>0, <4>1 DEF IInv, ReadInv, ReadsAccounted, TypeOK, Descriptor
      <4> QED
        BY <3>1, <4>1, <4>2, <4>3 DEF Completable, CheckReader
    <3> QED
      BY <3>1, <3>2, <3>3
  <2> QED
    BY <2>1, <2>2 DEF BufferReadComplete, BufferReadCompleteByNum
<1>3. CASE r \in LiveReader /\ GiveUp(r)
  BY <1>1, <1>3, GiveUpMapped
<1>4. CASE /\ pc' = [pc EXCEPT ![r] = "leaving"]
           /\ UNCHANGED at
  <2>1. \A q \in Reader : Inside(q)' = Inside(q)
    BY <1>0, <1>1, <1>4 DEF Inside, TypeOK
  <2>2. \A q \in Reader : Owed(q)' = Owed(q) /\ Using(q)' = Using(q)
    BY <1>1, <1>4, <2>1 DEF Owed, Using, Wanted, Published
  <2> QED
    BY <1>1, <2>2, StutterMapped DEF Mapped, groupVars
<1> QED
  BY <1>2, <1>3, <1>4

\* The locked end of a completion.
LEMMA CompleteReadMapped ==
  ASSUME HInv, NEW r \in Reader, CompleteRead(r)
  PROVE  Mapped
<1>0. IInv /\ TypeOK /\ HoldInv
  BY DEF HInv, IInv
<1>1. PICK i \in Slot : at[r] = i /\ Inside(r) /\ Published(i)
  BY <1>0, InsideReads DEF CompleteRead, Inside
<1>2. /\ \A j \in Slot \ {i} : buf'[j] = buf[j]
      /\ buf'[i].clients = buf[i].clients \ {r}
      /\ buf'[i].number = buf[i].number
      /\ buf'[i].status = StatusAfterRead(ReadsLeft(i), buf[i].clients \ {r})
      /\ UNCHANGED <<TBufFrameNum, TBufReadersMask>>
      /\ pc' = [pc EXCEPT ![r] = "idle"] /\ at' = [at EXCEPT ![r] = NoBuf]
  BY <1>0, <1>1, CompleteReadEffect DEF groupVars
<1>3. \A q \in Reader \ {r} : Wanted(q)' = Wanted(q)
  BY <1>1, <1>2 DEF Wanted, Published, StatusAfterRead
<1>4. Wanted(r)' = Wanted(r) \ {i}
  BY <1>1, <1>2 DEF Wanted, Published
<1>5. /\ \A q \in Reader \ {r} : Owed(q)' = Owed(q)
      /\ Owed(r)' = Owed(r) \ {buf[i].number}
  BY <1>0, <1>1, <1>2, <1>3, <1>4, OwedKept, OwedLoses DEF Wanted
<1>6. Using(r) = {buf[i].number} /\ Using(r)' = {}
  BY <1>0, <1>1, <1>2 DEF Using, Inside, TypeOK
<1>7. \A q \in Reader \ {r} : Using(q)' = Using(q)
  <2>1. \A q \in Reader \ {r} :
          /\ UNCHANGED <<pc[q], at[q]>>
          /\ Inside(q) => buf'[at[q]].number = buf[at[q]].number
    BY <1>0, <1>2, InsideReads DEF TypeOK
  <2> QED
    BY <2>1, UsingKept
<1> QED
  BY <1>2, <1>5, <1>6, <1>7, CompleteMapped DEF Mapped

-----------------------------------------------------------------------------
(* The readers' hold on their frames is kept.                              *)

\* A step of the producer, or of one that is plugged, leaves readers where they
\* are and the clients of frames that are read alone.
LEMMA HoldKept ==
  ASSUME HoldInv, UNCHANGED <<pc, at>>,
         TBufReadersMask \subseteq TBufReadersMask',
         \A r \in Reader : Inside(r) => buf'[at[r]].clients = buf[at[r]].clients
  PROVE  HoldInv'
BY DEF HoldInv, Inside

LEMMA ProducerHolds ==
  ASSUME HInv, Producer
  PROVE  HoldInv'
<1>0. IInv /\ TypeOK /\ HoldInv
  BY DEF HInv, IInv
<1>1. CASE RegisterTransportBufGroup \/ AddBuffers
  <2>1. \A r \in Reader : ~Inside(r)
    BY <1>0, <1>1, NothingPublished
       DEF RegisterTransportBufGroup, AddBuffers, TypeOK
  <2>2. UNCHANGED <<pc, at, TBufReadersMask>>
    BY <1>1 DEF RegisterTransportBufGroup, AddBuffers, readerVars
  <2> QED
    BY <1>0, <2>1, <2>2, HoldKept
<1>2. ASSUME NEW getanyway \in GetAnyway, GetBufferToWrite(getanyway)
      PROVE  HoldInv'
  <2>1. PICK i \in Slot : StartWriting(i) /\ buf[i].status # "READING"
    BY <1>2 DEF GetBufferToWrite, Idle, Victims
  <2>2. /\ \A j \in Slot \ {i} : buf'[j] = buf[j]
        /\ UNCHANGED <<pc, at, TBufReadersMask>>
    BY <1>0, <2>1, StartWritingEffect DEF groupVars, readerVars
  <2> QED
    BY <1>0, <2>1, <2>2, InsideReads, HoldKept
<1>3. ASSUME NEW h \in Slot, NEW step \in TimeStep, SetBufferReady(h, step)
      PROVE  HoldInv'
  <2>1. /\ buf[h].status = "WRITING"
        /\ \A j \in Slot \ {h} : buf'[j] = buf[j]
        /\ UNCHANGED <<pc, at, TBufReadersMask>>
    BY <1>0, <1>3, SetBufferReadyEffect DEF SetBufferReady, readerVars
  <2> QED
    BY <1>0, <2>1, InsideReads, HoldKept
<1>4. ASSUME NEW h \in Slot, LoseBuffer(h)
      PROVE  HoldInv'
  BY <1>0, <1>4, HoldKept DEF LoseBuffer, groupVars, readerVars
<1>5. CASE FreeTransportBufGroup
  <2>1. /\ \A r \in Reader : ~Inside(r)
        /\ UNCHANGED <<pc, at, TBufReadersMask>>
    BY <1>5 DEF FreeTransportBufGroup, GroupQuiet, Inside, groupVars
  <2> QED
    BY <1>0, <2>1, HoldKept
<1> QED
  BY <1>1, <1>2, <1>3, <1>4, <1>5 DEF Producer

LEMMA ReaderHolds ==
  ASSUME HInv, NEW r \in Reader, ReaderStep(r)
  PROVE  HoldInv'
<1>0. IInv /\ TypeOK /\ HoldInv
  BY DEF HInv, IInv
<1>1. CASE PlugToTransportBufGroup(r)
  BY <1>0, <1>1, HoldKept
     DEF PlugToTransportBufGroup, AddReader, readerVars
<1>2. ASSUME UNCHANGED buf,
             \/ UNCHANGED <<pc, at>> /\ (r \in LiveReader \/ pc[r] = "idle")
             \/ /\ pc' = [pc EXCEPT ![r] = "idle"]
                /\ UNCHANGED at \/ at' = [at EXCEPT ![r] = NoBuf],
             TBufReadersMask \ {r} \subseteq TBufReadersMask'
      PROVE  HoldInv'
  <2>1. \A q \in Reader \ {r} : UNCHANGED <<pc[q], at[q]>>
    BY <1>0, <1>2 DEF TypeOK
  <2>2. \/ pc'[r] = "idle"
        \/ r \in LiveReader /\ UNCHANGED <<pc[r], at[r]>>
    BY <1>0, <1>2 DEF TypeOK
  <2> QED
    BY <1>0, <1>2, <2>1, <2>2 DEF HoldInv, Inside
<1>3. CASE ReleaseTransportBufGroup(r)
  BY <1>2, <1>3 DEF ReleaseTransportBufGroup, RemoveReader, readerVars
<1>4. CASE NothingToRead(r)
  BY <1>2, <1>4 DEF NothingToRead, groupVars
<1>5. CASE EnterRead(r)
  <2>1. /\ pc' = [pc EXCEPT ![r] = "entering"]
        /\ UNCHANGED <<buf, at, TBufReadersMask>>
        /\ r \in TBufReadersMask
    BY <1>5 DEF EnterRead, CheckReader, groupVars
  <2> QED
    BY <1>0, <2>1 DEF HoldInv, Inside, TypeOK
<1>6. CASE \/ GetBufferToRead(r) \/ GetLastKeyBufferToRead(r)
           \/ \E n \in 1 .. MaxFrame : GetBufferByNumToRead(r, n)
  <2>1. PICK i \in Wanted(r) : Take(r, i) /\ pc[r] = "entering"
    BY <1>6 DEF GetBufferToRead, GetLastKeyBufferToRead,
                GetBufferByNumToRead, KeyFrames
  <2>2. /\ i \in Slot /\ r \in buf[i].clients
        /\ \A j \in Slot : buf'[j].clients = buf[j].clients
        /\ UNCHANGED TBufReadersMask
        /\ pc' = [pc EXCEPT ![r] = "using"] /\ at' = [at EXCEPT ![r] = i]
    BY <1>0, <2>1, TakeEffect DEF Wanted, groupVars
  <2>3. \A q \in Reader \ {r} : UNCHANGED <<pc[q], at[q]>>
    BY <1>0, <2>2 DEF TypeOK
  <2>4. \A q \in Reader : Inside(q) => at[q] \in Slot
    BY <1>0, InsideReads
  <2>5. pc'[r] = "using" /\ at'[r] = i
    BY <1>0, <2>2 DEF TypeOK
  <2>6. r \notin LiveReader => r \in TBufReadersMask
    BY <1>0, <2>1 DEF HoldInv
  <2> QED
    BY <1>0, <2>2, <2>3, <2>4, <2>5, <2>6 DEF HoldInv, Inside
<1>7. CASE AbandonFrame(r)
  BY <1>2, <1>7 DEF AbandonFrame, GiveUp, groupVars
<1>8. ASSUME NEW i \in Slot, pc[r] = "using", LeaveOrGiveUp(r, i),
             \/ buf[i].hBuf = at[r]
             \/ buf[i].number = buf[at[r]].number,
             UNCHANGED <<buf, writing, groupVars>>
      PROVE  HoldInv'
  <2>1. CASE Completable(r, i)
    <3>1. i = at[r] /\ r \in buf[i].clients /\ r \in TBufReadersMask
      BY <1>0, <1>8, <2>1, LeavesItsFrame DEF Completable, CheckReader
    <3>2. /\ pc' = [pc EXCEPT ![r] = "leaving"] /\ UNCHANGED at
          /\ UNCHANGED <<buf, TBufReadersMask>>
      BY <1>0, <1>8, <2>1, <3>1 DEF LeaveOrGiveUp, TypeOK, groupVars
    <3> QED
      BY <1>0, <3>1, <3>2 DEF HoldInv, Inside, TypeOK
  <2>2. CASE ~Completable(r, i)
    BY <1>2, <1>8, <2>2 DEF LeaveOrGiveUp, GiveUp, groupVars
  <2> QED
    BY <2>1, <2>2
<1>9. CASE BufferReadComplete(r) \/ BufferReadCompleteByNum(r)
  BY <1>8, <1>9 DEF BufferReadComplete, BufferReadCompleteByNum
<1>10. CASE CompleteRead(r)
  <2>1. PICK i \in Slot : at[r] = i
    BY <1>0, <1>10, InsideReads DEF CompleteRead, Inside
  <2>2. /\ \A j \in Slot \ {i} : buf'[j] = buf[j]
        /\ buf'[i].clients = buf[i].clients \ {r}
        /\ UNCHANGED TBufReadersMask
        /\ pc' = [pc EXCEPT ![r] = "idle"]
    BY <1>0, <1>10, <2>1, CompleteReadEffect DEF groupVars
  <2>3. \A q \in Reader \ {r} : UNCHANGED <<pc[q], at[q]>>
    BY <1>0, <1>10 DEF CompleteRead, TypeOK
  <2>4. \A q \in Reader : Inside(q) => at[q] \in Slot
    BY <1>0, InsideReads
  <2>5. pc'[r] = "idle"
    BY <1>0, <2>2 DEF TypeOK
  <2> QED
    BY <1>0, <2>2, <2>3, <2>4, <2>5 DEF HoldInv, Inside
<1> QED
  BY <1>1, <1>3, <1>4, <1>5, <1>6, <1>7, <1>9, <1>10 DEF ReaderStep

-----------------------------------------------------------------------------
(* The theorems.                                                           *)

\* No reader loses its hold: what it reads is owed to it until it completes or
\* gives it up.
THEOREM AlwaysHeld == Spec => []HInv
<1>1. Init => HoldInv
  BY DEF Init, HoldInv, Inside
<1>2. HInv /\ [Next]_vars => HoldInv'
  <2>1. HInv /\ UNCHANGED vars => HoldInv'
    BY DEF HInv, HoldInv, Inside, vars, groupVars, readerVars
  <2> QED
    BY <2>1, ProducerHolds, ReaderHolds DEF Next
<1>3. HInv /\ [Next]_vars => IInv'
  BY TypeStep, SlotStep, NumberStep, ReadStep DEF HInv, IInv
<1>4. Init => HInv
  BY <1>1, IInit DEF HInv
<1>5. HInv /\ [Next]_vars => HInv'
  BY <1>2, <1>3 DEF HInv
<1> QED
  BY <1>4, <1>5, PTL DEF Spec

\* For any number of slots, readers, handles and frames, a group of transport
\* buffers is the exchange of numbered frames FrameExchange describes: nobody
\* but those it names is deprived of a frame.
THEOREM GroupIsExchange == Spec => ImplementsExchange
<1>1. Init => Exchange!Init
  <2> SUFFICES ASSUME Init PROVE Exchange!Init
    OBVIOUS
  <2>1. \A r \in Reader : Owed(r) = {} /\ Using(r) = {}
    BY DEF Init, Owed, Using, Wanted, Published, Inside, Zeroed
  <2> QED
    BY <2>1 DEF Init, Exchange!Init, Owed, Using
<1>2. HInv /\ [Next]_vars => [Exchange!Next]_(Exchange!exchangeVars)
  <2> SUFFICES ASSUME HInv, [Next]_vars PROVE Mapped
    BY DEF Mapped
  <2>1. CASE UNCHANGED vars
    <3>1. UNCHANGED <<buf, TBufFrameNum, TBufReadersMask, pc, at>>
      BY <2>1 DEF vars, groupVars, readerVars
    <3>2. \A r \in Reader : Owed(r)' = Owed(r) /\ Using(r)' = Using(r)
      BY <3>1 DEF Owed, Using, Wanted, Published, Inside
    <3> QED
      BY <3>1, <3>2, StutterMapped DEF Mapped
  <2>2. CASE Producer
    BY <2>2, TablesMapped, WriteMapped, ReadyMapped, LoseAndFreeMapped
       DEF Producer, Mapped
  <2>3. ASSUME NEW r \in Reader, ReaderStep(r)
        PROVE  Mapped
    BY <2>3, PlugReleaseMapped, EnterMapped, ReadMapped, LeaveMapped,
       CompleteReadMapped DEF ReaderStep
  <2> QED
    BY <2>1, <2>2, <2>3 DEF Next
<1> QED
  BY <1>1, <1>2, AlwaysHeld, PTL DEF Spec, ImplementsExchange, Exchange!Spec
=============================================================================
