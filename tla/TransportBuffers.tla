-------------------------- MODULE TransportBuffers --------------------------
(***************************************************************************)
(* One group of transport buffers (transport_buffers.c): TBUF_NUMBER slots *)
(* through which one producer thread hands frames to several readers.      *)
(*                                                                         *)
(* The variables of the C file are kept under their names.  Every locked   *)
(* section of the file is one action; a function that looks at the group   *)
(* before it takes buf_mutex is two actions, with pc[r] between them.  The *)
(* callers are modelled by what they still hold of the group: the handles  *)
(* the producer writes to (writing) and the slot each reader works on      *)
(* (at).                                                                   *)
(*                                                                         *)
(* Readers are of two kinds.  A thread of the recorder or of an encoder    *)
(* reads the oldest frame, completes it and reads the next one; the live   *)
(* library (LiveReader) asks for frames by number or for the last key      *)
(* frame, may drop a frame without completing it, and is plugged and       *)
(* released by another thread than the one that reads.                     *)
(***************************************************************************)
EXTENDS Integers, FiniteSets

CONSTANTS
  TBUF_NUMBER,   \* number of slots of the group
  FirstTable,    \* buffers of the table given to RegisterTransportBufGroup
  Reader,        \* reader numbers that use this group
  LiveReader,    \* those of them that are the live library
  StreamB,       \* vcStreamB_trd
  Compressed,    \* TRUE for eVENCODER_SRC and eAENCODER_SRC
  GetAnyway,     \* the values of getanyway the producer uses
  MayLoseBuffer, \* TRUE if the producer may let a handle go unpublished
  TimeStep,      \* distances, in time, between two frames of the producer
  Gop,           \* every Gop-th frame is a key frame, 0 if none is
  MaxWriting,    \* handles the producer keeps at a time
  MaxFrame,      \* bound of TBufFrameNum
  MaxAbandoned   \* bound of the reads of one frame that are never completed

ASSUME SlotAssumption ==
  /\ TBUF_NUMBER \in Nat \ {0}
  /\ FirstTable \in 1 .. TBUF_NUMBER
ASSUME ReaderAssumption ==
  /\ IsFiniteSet(Reader)
  /\ LiveReader \subseteq Reader
ASSUME BoundAssumption ==
  /\ MaxWriting \in Nat /\ MaxFrame \in Nat /\ MaxAbandoned \in Nat
\* number_of_reading is a u8: as many reads as one frame can have fit in it.
ASSUME CountAssumption == Cardinality(Reader) + MaxAbandoned < 256
ASSUME ProducerAssumption ==
  /\ Compressed \in BOOLEAN /\ MayLoseBuffer \in BOOLEAN
  /\ GetAnyway \subseteq BOOLEAN
  /\ TimeStep \subseteq Nat \ {0}
  /\ Gop \in Nat

VARIABLES
  buf,              \* TransportBuffersGroup[grp_num]
  bufReaders,       \* the readers whose reader_info is busy
  TBufReadersMask,  \* the readers whose bit is set
  TBufFrameNum,     \* number of the next frame
  TBufCount,        \* buffers registered
  clock,            \* time stamp of the producer's last frame
  writing,          \* handles the producer got and did not publish yet
  pc,               \* where each reader is
  at,               \* the slot each reader works on
  abandoned         \* reads of the frame in a slot that nobody will complete

groupVars  == <<bufReaders, TBufReadersMask, TBufFrameNum, TBufCount, clock>>
readerVars == <<pc, at, abandoned>>
vars == <<buf, writing, groupVars, readerVars>>

Slot   == 0 .. TBUF_NUMBER - 1
NoBuf  == -1
Status == {"FREE", "READY", "READING", "WRITING"}
PC     == {"idle", "entering", "using", "leaving"}

\* A slot after memset: no buffer, eBUF_FREE is 0, nobody owes a read.
Zeroed == [hBuf |-> NoBuf, status |-> "FREE", properties |-> FALSE,
           number_of_reading |-> 0, timestamp |-> 0, number |-> 0,
           clients |-> {}]

Published(i) == buf[i].status \in {"READY", "READING"}

-----------------------------------------------------------------------------
(* Initialisation and the producer's side.                                 *)

Init ==
  /\ buf = [i \in Slot |-> Zeroed]
  /\ bufReaders = {} /\ TBufReadersMask = {}
  /\ TBufFrameNum = 0 /\ TBufCount = 0 /\ clock = 0
  /\ writing = {}
  /\ pc = [r \in Reader |-> "idle"]
  /\ at = [r \in Reader |-> NoBuf]
  /\ abandoned = [i \in Slot |-> 0]

NotRegistered == \A i \in Slot : buf[i].hBuf = NoBuf

\* The controller stops the threads that read a group before its producer
\* (GroupsOutliveReaders of CameraControl).  That the live library, too, is done
\* with its frame then is assumed: vbuf_stop covers only its asking for a number
\* (stream_buffs.c:58-65, video.c:689).
GroupQuiet == TBufReadersMask = {} /\ \A r \in Reader : pc[r] = "idle"

RegisterTransportBufGroup ==
  /\ NotRegistered
  /\ buf' = [i \in Slot |->
               IF i < FirstTable THEN [Zeroed EXCEPT !.hBuf = i] ELSE Zeroed]
  /\ TBufFrameNum' = 0 /\ clock' = 0
  /\ TBufCount' = FirstTable
  /\ UNCHANGED <<bufReaders, TBufReadersMask, writing, readerVars>>

\* The second table of the video capture, added once the first one is with
\* the driver.
AddBuffers ==
  /\ ~NotRegistered
  /\ TBufCount < TBUF_NUMBER
  /\ Cardinality(writing) = FirstTable
  /\ buf' = [i \in Slot |->
               IF i < TBufCount THEN buf[i]
               ELSE [buf[i] EXCEPT !.hBuf = i, !.status = "FREE"]]
  /\ TBufFrameNum' = 0
  /\ TBufCount' = TBUF_NUMBER
  /\ UNCHANGED <<bufReaders, TBufReadersMask, clock, writing,
                 readerVars>>

\* Faulty variants: a slot is idle although it holds an unread frame, or
\* although a reader that was released is still working on it.
IdleAlthoughUnread == {i \in Slot : buf[i].status \in {"FREE", "READY"}}
IdleAlthoughRead ==
  {i \in Slot : \/ buf[i].status = "FREE"
                \/ /\ Published(i)
                   /\ buf[i].clients \cap TBufReadersMask = {}}

\* Free, or full but wanted by no reader that is still plugged.
Idle == {i \in Slot :
           \/ buf[i].status = "FREE"
           \/ /\ buf[i].status = "READY"
              /\ buf[i].clients \cap TBufReadersMask = {}}

\* Faulty variant: the test that is commented out in the code.
VictimsBeingRead(getanyway) ==
  {i \in Slot :
     /\ Published(i)
     /\ getanyway \/ (Compressed /\ buf[i].clients = {StreamB})}

\* What may be overwritten when no slot is idle.
Victims(getanyway) ==
  {i \in Slot :
     /\ buf[i].status = "READY"
     /\ getanyway \/ (Compressed /\ buf[i].clients = {StreamB})}

StartWriting(i) ==
  /\ buf' = [buf EXCEPT ![i].status = "WRITING"]
  /\ writing' = IF buf[i].hBuf = NoBuf THEN writing ELSE writing \cup {i}
  /\ UNCHANGED <<groupVars, readerVars>>

GetBufferToWrite(getanyway) ==
  /\ ~NotRegistered
  /\ Cardinality(writing) < (IF TBufCount < TBUF_NUMBER THEN FirstTable
                             ELSE MaxWriting)
  /\ \/ \E i \in Idle : (\A j \in Idle : i <= j) /\ StartWriting(i)
     \/ /\ Idle = {}
        /\ \E i \in Victims(getanyway) :
             /\ \A j \in Victims(getanyway) : buf[i].number <= buf[j].number
             /\ StartWriting(i)

\* Faulty variant: only frames that somebody reads are counted.
NumberAfterIfRead ==
  IF TBufReadersMask = {} THEN TBufFrameNum ELSE TBufFrameNum + 1

NumberAfter == TBufFrameNum + 1

\* The frame is published to the readers plugged now.  Its keyF argument is 1
\* for the first frame of a group of pictures.
SetBufferReady(h, step) ==
  /\ TBufCount = TBUF_NUMBER
  /\ h \in writing
  /\ buf[h].status = "WRITING"
  /\ TBufFrameNum < MaxFrame
  /\ clock' = clock + step
  /\ buf' = [buf EXCEPT ![h].properties = Gop # 0 /\ TBufFrameNum % Gop = 0,
                        ![h].timestamp = clock + step,
                        ![h].clients = TBufReadersMask,
                        ![h].status = "READY",
                        ![h].number = TBufFrameNum,
                        ![h].number_of_reading = 0]
  /\ TBufFrameNum' = NumberAfter
  /\ writing' = writing \ {h}
  /\ UNCHANGED <<bufReaders, TBufReadersMask, TBufCount, readerVars>>

\* A frame of 0 bytes: SetBufferReady returns before it touches the slot, and
\* the producer goes on with another buffer.  The audio capture does the same
\* to a buffer when the driver answers -EAGAIN.
LoseBuffer(h) ==
  /\ MayLoseBuffer
  /\ TBufCount = TBUF_NUMBER
  /\ h \in writing
  /\ writing' = writing \ {h}
  /\ UNCHANGED <<buf, groupVars, readerVars>>

FreeTransportBufGroup ==
  /\ ~NotRegistered
  /\ TBufCount = TBUF_NUMBER
  /\ GroupQuiet
  /\ buf' = [i \in Slot |-> Zeroed]
  /\ writing' = {}
  /\ abandoned' = [i \in Slot |-> 0]
  /\ UNCHANGED <<groupVars, pc, at>>

-----------------------------------------------------------------------------
(* The readers' side.                                                      *)

CheckReader(r) ==
  IF r \in bufReaders /\ r \in TBufReadersMask THEN 1
  ELSE IF r \notin bufReaders /\ r \notin TBufReadersMask THEN 0 ELSE -1

AddReader(r) ==
  /\ bufReaders' = bufReaders \cup {r}
  /\ TBufReadersMask' = TBufReadersMask \cup {r}

PlugToTransportBufGroup(r) ==
  /\ CheckReader(r) = 0
  /\ r \in LiveReader \/ pc[r] = "idle"
  /\ AddReader(r)
  /\ UNCHANGED <<buf, TBufFrameNum, TBufCount, clock, writing,
                 readerVars>>

\* Faulty variant: the bit of the mask stays set.
RemoveReaderKeepsBit(r) ==
  /\ r \in bufReaders
  /\ bufReaders' = bufReaders \ {r}
  /\ UNCHANGED TBufReadersMask

RemoveReader(r) ==
  /\ r \in bufReaders
  /\ bufReaders' = bufReaders \ {r}
  /\ TBufReadersMask' = TBufReadersMask \ {r}

\* A reader that reads and releases in one thread gives up the frame it has;
\* the live library goes on with its frame, not knowing of the release.
ReleaseTransportBufGroup(r) ==
  /\ CheckReader(r) >= 0
  /\ RemoveReader(r)
  /\ \/ /\ r \in LiveReader \/ pc[r] = "idle"
        /\ UNCHANGED readerVars
     \/ /\ r \notin LiveReader
        /\ pc[r] = "using"
        /\ abandoned[at[r]] < MaxAbandoned
        /\ abandoned' = [abandoned EXCEPT ![at[r]] = @ + 1]
        /\ pc' = [pc EXCEPT ![r] = "idle"]
        /\ at' = [at EXCEPT ![r] = NoBuf]
  /\ UNCHANGED <<buf, TBufFrameNum, TBufCount, clock, writing>>

\* The test of the reader, before the mutex.
EnterRead(r) ==
  /\ pc[r] = "idle"
  /\ CheckReader(r) = 1
  /\ pc' = [pc EXCEPT ![r] = "entering"]
  /\ UNCHANGED <<buf, writing, groupVars, at, abandoned>>

\* The frames reader r has not completed yet.
Wanted(r) == {i \in Slot : Published(i) /\ r \in buf[i].clients}

Take(r, i) ==
  /\ buf' = [buf EXCEPT ![i].status = "READING",
                        ![i].number_of_reading = (@ + 1) % 256]
  /\ pc' = [pc EXCEPT ![r] = "using"]
  /\ at' = [at EXCEPT ![r] = i]
  /\ UNCHANGED <<writing, groupVars, abandoned>>

\* Faulty variant: the first slot.
EarliestSlot(i, S) == \A j \in S : i <= j

\* The first of the frames with the lowest time stamp.
Earliest(i, S) ==
  \A j \in S : \/ buf[i].timestamp < buf[j].timestamp
               \/ buf[i].timestamp = buf[j].timestamp /\ i <= j

GetBufferToRead(r) ==
  /\ r \notin LiveReader
  /\ pc[r] = "entering"
  /\ \E i \in Wanted(r) : Earliest(i, Wanted(r)) /\ Take(r, i)

KeyFrames(r) == {i \in Wanted(r) : buf[i].properties}

GetLastKeyBufferToRead(r) ==
  /\ r \in LiveReader
  /\ pc[r] = "entering"
  /\ \E i \in KeyFrames(r) :
       /\ \A j \in KeyFrames(r) : buf[j].number <= buf[i].number
       /\ Take(r, i)

\* The live library never asks for number 0: a serial it starts from is > 0.
GetBufferByNumToRead(r, sequence_num) ==
  /\ r \in LiveReader
  /\ pc[r] = "entering"
  /\ \E i \in Wanted(r) :
       /\ buf[i].number = sequence_num
       /\ \A j \in Wanted(r) : buf[j].number = sequence_num => i <= j
       /\ Take(r, i)

\* No frame for the reader: FAILURE and a NULL handle.
NothingToRead(r) ==
  /\ pc[r] = "entering"
  /\ r \in LiveReader \/ Wanted(r) = {}
  /\ pc' = [pc EXCEPT ![r] = "idle"]
  /\ UNCHANGED <<buf, writing, groupVars, at, abandoned>>

GiveUp(r) ==
  /\ abandoned[at[r]] < MaxAbandoned
  /\ abandoned' = [abandoned EXCEPT ![at[r]] = @ + 1]
  /\ pc' = [pc EXCEPT ![r] = "idle"]
  /\ at' = [at EXCEPT ![r] = NoBuf]

\* readFromFile starts a new group of pictures: it drops the key frame it got.
AbandonFrame(r) ==
  /\ r \in LiveReader
  /\ pc[r] = "using"
  /\ buf[at[r]].properties
  /\ GiveUp(r)
  /\ UNCHANGED <<buf, writing, groupVars>>

\* What the completion functions test of slot i, before the mutex.
Completable(r, i) ==
  /\ CheckReader(r) = 1
  /\ buf[i].status = "READING"
  /\ r \in buf[i].clients
  /\ buf[i].number_of_reading # 0

LeaveOrGiveUp(r, i) ==
  \/ /\ Completable(r, i)
     /\ pc' = [pc EXCEPT ![r] = "leaving"]
     /\ at' = [at EXCEPT ![r] = i]
     /\ UNCHANGED abandoned
  \/ /\ ~Completable(r, i)
     /\ GiveUp(r)

BufferReadComplete(r) ==
  /\ r \notin LiveReader
  /\ pc[r] = "using"
  /\ \E i \in Slot : /\ buf[i].hBuf = at[r]
                     /\ \A j \in Slot : buf[j].hBuf = at[r] => i <= j
                     /\ LeaveOrGiveUp(r, i)
  /\ UNCHANGED <<buf, writing, groupVars>>

\* The first slot with the frame's number, whatever its status.
BufferReadCompleteByNum(r) ==
  /\ r \in LiveReader
  /\ pc[r] = "using"
  /\ \E i \in Slot :
       /\ buf[i].number = buf[at[r]].number
       /\ \A j \in Slot : buf[j].number = buf[i].number => i <= j
       /\ LeaveOrGiveUp(r, i)
  /\ UNCHANGED <<buf, writing, groupVars>>

\* Faulty variant: the other readers of the frame are not counted.
StatusAfterAnyRead(n, left) == IF left = {} THEN "FREE" ELSE "READY"

StatusAfterRead(n, left) ==
  IF n # 0 THEN "READING" ELSE IF left = {} THEN "FREE" ELSE "READY"

\* The locked end of both completion functions.
CompleteRead(r) ==
  /\ pc[r] = "leaving"
  /\ LET i    == at[r]
         left == buf[i].clients \ {r}
         n    == (buf[i].number_of_reading - 1) % 256
     IN  buf' = [buf EXCEPT
                   ![i].clients = left,
                   ![i].number_of_reading = n,
                   ![i].status = StatusAfterRead(n, left)]
  /\ pc' = [pc EXCEPT ![r] = "idle"]
  /\ at' = [at EXCEPT ![r] = NoBuf]
  /\ UNCHANGED <<writing, groupVars, abandoned>>

-----------------------------------------------------------------------------

Producer ==
  \/ RegisterTransportBufGroup
  \/ AddBuffers
  \/ \E getanyway \in GetAnyway : GetBufferToWrite(getanyway)
  \/ \E h \in Slot, step \in TimeStep : SetBufferReady(h, step)
  \/ \E h \in Slot : LoseBuffer(h)
  \/ FreeTransportBufGroup

ReaderStep(r) ==
  \/ PlugToTransportBufGroup(r)
  \/ ReleaseTransportBufGroup(r)
  \/ EnterRead(r)
  \/ GetBufferToRead(r)
  \/ GetLastKeyBufferToRead(r)
  \/ \E n \in 1 .. MaxFrame : GetBufferByNumToRead(r, n)
  \/ NothingToRead(r)
  \/ AbandonFrame(r)
  \/ BufferReadComplete(r)
  \/ BufferReadCompleteByNum(r)
  \/ CompleteRead(r)

Next == Producer \/ \E r \in Reader : ReaderStep(r)

Spec == Init /\ [][Next]_vars

-----------------------------------------------------------------------------
(* Properties.                                                             *)

Descriptor ==
  [hBuf : Slot \cup {NoBuf}, status : Status, properties : BOOLEAN,
   number_of_reading : 0 .. 255, timestamp : Nat, number : Nat,
   clients : SUBSET Reader]

(* The types of the group's fields; the reader's flag and its mask bit are
   always set and cleared together, so CheckReader never answers -1.       *)
TypeOK ==
  /\ buf \in [Slot -> Descriptor]
  /\ TBufReadersMask \subseteq Reader
  /\ bufReaders = TBufReadersMask
  /\ TBufFrameNum \in Nat /\ clock \in Nat
  /\ TBufCount \in 0 .. TBUF_NUMBER
  /\ writing \subseteq Slot
  /\ pc \in [Reader -> PC]
  /\ at \in [Reader -> Slot \cup {NoBuf}]
  /\ abandoned \in [Slot -> Nat]

Inside(r) == pc[r] \in {"using", "leaving"}

(* A reader that works on a frame never has it overwritten: the slot it got
   is being read, under the same number, and is not a handle the producer
   holds (GetBufferToWrite against the three read functions).              *)
NoTornFrame ==
  \A r \in Reader : Inside(r) =>
    /\ at[r] \in Slot \ writing
    /\ buf[at[r]].status = "READING"

Readers(i) == {r \in Reader : Inside(r) /\ at[r] = i}

(* number_of_reading of a slot that is being read is exactly the number of
   readers on it and of reads that were given up: a slot that returns to the
   pool has no reader left, only an abandoned read keeps one for good, and
   the reset in SetBufferReady, "must be zero - not necessary", is what it
   says.                                                                   *)
ReadsAccounted ==
  \A i \in Slot :
    /\ buf[i].status = "READING" =>
         /\ buf[i].number_of_reading > 0
         /\ buf[i].number_of_reading = Cardinality(Readers(i)) + abandoned[i]
    /\ buf[i].status # "READING" =>
         /\ buf[i].number_of_reading = 0
         /\ Readers(i) = {} /\ abandoned[i] = 0

(* BufferReadComplete and BufferReadCompleteByNum test the slot before they
   take buf_mutex: whatever the other threads did in between, the tests hold
   when the mutex is taken.                                                *)
TestsStillHold ==
  \A r \in Reader : pc[r] = "leaving" =>
    /\ buf[at[r]].status = "READING"
    /\ r \in buf[at[r]].clients
    /\ buf[at[r]].number_of_reading # 0

(* Frame numbers identify published frames and agree with their time stamps,
   so that reading by lowest time stamp is reading in the order published. *)
OrderAgrees ==
  \A i, j \in Slot : Published(i) /\ Published(j) /\ i # j =>
    /\ buf[i].number # buf[j].number
    /\ buf[i].number < buf[j].number => buf[i].timestamp < buf[j].timestamp

(* A reader of the recorder or of an encoder takes, of the frames it has not
   completed, the one published first.                                     *)
TakesOldest ==
  [][\A r \in Reader \ LiveReader :
       pc[r] # "using" /\ pc'[r] = "using" =>
         \A j \in Wanted(r) : buf[at'[r]].number <= buf[j].number]_vars

(* The group is an exchange of numbered frames: FrameExchange says who may
   lose a frame and who may not.                                           *)
Exchange ==
  INSTANCE FrameExchange WITH
    MayLose <- IF TRUE \in GetAnyway THEN Reader
               ELSE IF Compressed THEN {StreamB} ELSE {},
    InOrder <- Reader \ LiveReader,
    next    <- TBufFrameNum,
    plugged <- TBufReadersMask,
    owed    <- [r \in Reader |-> {buf[i].number : i \in Wanted(r)}],
    using   <- [r \in Reader |-> IF Inside(r) THEN {buf[at[r]].number} ELSE {}]

ImplementsExchange == Exchange!Spec
=============================================================================
