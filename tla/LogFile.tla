------------------------------ MODULE LogFile ------------------------------
(***************************************************************************)
(* The files of the event log: device.log, a file of MEGABYTE bytes that   *)
(* is written round and round, and logpos, the position of the next entry. *)
(* initLogFile and writeEvent of logging.c, with a crash (power cut,       *)
(* watchdog reset) between any two steps.                                  *)
(*                                                                         *)
(* A byte of device.log is the number of the event it belongs to, 0 where  *)
(* it was filled with zeros.  An entry reaches device.log when that file   *)
(* is closed and logpos when that is, in this order; what a close wrote    *)
(* survives a crash.  A file operation may fail wherever the code looks at *)
(* its result; that what a close wrote is lost unnoticed is left out.      *)
(* EventRing has the ring the events come from.                            *)
(***************************************************************************)
EXTENDS Integers

CONSTANTS
  MEGABYTE,       \* size device.log is made to have
  LOG_ENTRY_SIZE, \* bytes of an entry
  MaxEvents,      \* bound of the number of events
  MaxCrashes      \* bound of the number of crashes

ASSUME FileAssumption ==
  /\ LOG_ENTRY_SIZE \in Nat \ {0}
  /\ MEGABYTE \in Nat /\ MEGABYTE >= LOG_ENTRY_SIZE
  /\ MaxEvents \in Nat /\ MaxCrashes \in Nat

VARIABLES
  bytes,          \* what device.log holds
  size,           \* its size, or Absent
  logpos,         \* the number in logpos, or Empty or Absent
  curLogFilePos,
  pc,             \* where the logging thread is
  events,         \* events written so far
  saved,          \* those whose position was written to logpos
  base,           \* events at the last start at position 0 over an old log
  broken,         \* an operation failed since logpos last got a number
  crashes

files == <<bytes, size, logpos>>
vars  == <<files, curLogFilePos, pc, events, saved, base, broken, crashes>>

Absent == -1
Empty  == -2

\* The last entry before the position is reset may lie across MEGABYTE.
Byte == 0 .. MEGABYTE + LOG_ENTRY_SIZE - 2

Init ==
  /\ bytes = [b \in Byte |-> 0]
  /\ size = Absent /\ logpos = Absent
  /\ curLogFilePos = 0
  /\ pc = "down"
  /\ events = 0 /\ saved = {} /\ base = 0
  /\ broken = FALSE /\ crashes = 0

-----------------------------------------------------------------------------
(* initLogFile.                                                            *)

\* fopen creates a log that is absent.
OpenedSize == IF size = Absent THEN 0 ELSE size

OpenLog ==
  /\ pc = "down"
  /\ size' = OpenedSize
  /\ curLogFilePos' = size'
  /\ pc' = "log open"
  /\ UNCHANGED <<bytes, logpos, events, saved, base, broken, crashes>>

OpenPosition ==
  /\ pc = "log open"
  /\ logpos # Absent
  /\ pc' = "position"
  /\ UNCHANGED <<files, curLogFilePos, events, saved, base, broken, crashes>>

\* A logpos that is absent, or that could not be opened, is created anew and is
\* empty until it is closed.
CreatePosition ==
  /\ pc = "log open"
  /\ logpos' = Empty
  /\ broken' = (broken \/ logpos # Absent)
  /\ pc' = "new position"
  /\ UNCHANGED <<bytes, size, curLogFilePos, events, saved, base, crashes>>

Opened == pc \in {"position", "new position"}

\* What fread finds in logpos: the 0 just written, for a new one.
PositionRead == IF pc = "new position" THEN 0 ELSE logpos

\* logpos is closed: a new one has its 0 now.
ClosePosition ==
  /\ logpos' = PositionRead
  /\ UNCHANGED <<events, saved, crashes>>

\* The closes at the end of initLogFile.
Close ==
  /\ ClosePosition
  /\ broken' = (broken /\ PositionRead = Empty)
  /\ pc' = "ready"

\* The number of events the position leaves behind if logpos is new.
BaseOfPosition == IF pc = "new position" THEN events ELSE base

TooLong ==
  /\ Opened
  /\ size > MEGABYTE
  /\ curLogFilePos' = 0
  /\ base' = events
  /\ Close
  /\ UNCHANGED <<bytes, size>>

\* The file is filled up with zeros, and written from its old end on.
TooShort ==
  /\ Opened
  /\ size < MEGABYTE
  /\ size' = MEGABYTE
  /\ base' = BaseOfPosition
  /\ Close
  /\ UNCHANGED <<bytes, curLogFilePos>>

Readable == PositionRead # Empty

Complete ==
  /\ Opened
  /\ size = MEGABYTE
  /\ Readable
  /\ curLogFilePos' = PositionRead
  /\ base' = BaseOfPosition
  /\ Close
  /\ UNCHANGED <<bytes, size>>

\* An operation fails: the open, seek or tell of the log; the open of logpos or
\* its first write; the memory or the write for the zeros, of which any part is
\* in the file; the seek or the read of logpos.
InitFails ==
  /\ \/ /\ pc = "down"
        /\ size' \in {size, OpenedSize}
        /\ UNCHANGED <<logpos, events, saved, base, crashes>>
     \/ /\ pc = "log open"
        /\ logpos' \in {logpos, Empty}
        /\ UNCHANGED <<size, events, saved, base, crashes>>
     \/ /\ Opened
        /\ size <= MEGABYTE
        /\ size' \in size .. MEGABYTE
        /\ base' = BaseOfPosition
        /\ ClosePosition
  /\ broken' = TRUE
  /\ pc' = "failed"
  /\ UNCHANGED <<bytes, curLogFilePos>>

\* Faulty variant: the log is thrown away whatever state logpos is in.
UnreadableAlways == TRUE

Unreadable == logpos = Empty

\* No operation fails, but logpos holds no number.
PositionMissing ==
  /\ pc = "position"
  /\ size = MEGABYTE
  /\ Unreadable
  /\ pc' = "failed"
  /\ UNCHANGED <<files, curLogFilePos, events, saved, base, broken, crashes>>

\* The thread removes both files, one after the other, and ends.
RemoveLog ==
  /\ pc = "failed"
  /\ \/ bytes' = [b \in Byte |-> 0] /\ size' = Absent /\ broken' = broken
     \/ broken' = TRUE /\ UNCHANGED <<bytes, size>>
  /\ pc' = "log removed"
  /\ UNCHANGED <<logpos, curLogFilePos, events, saved, base, crashes>>

RemovePosition ==
  /\ pc = "log removed"
  /\ \/ logpos' = Absent /\ broken' = broken
     \/ broken' = TRUE /\ logpos' = logpos
  /\ pc' = "ended"
  /\ UNCHANGED <<bytes, size, curLogFilePos, events, saved, base, crashes>>

-----------------------------------------------------------------------------
(* writeEvent, once it has taken an event from the ring.                   *)

\* Faulty variant: the position is never reset.
EntryPositionUnbounded == curLogFilePos

EntryPosition == IF curLogFilePos >= MEGABYTE THEN 0 ELSE curLogFilePos

WriteEntry ==
  /\ pc = "ready"
  /\ events < MaxEvents
  /\ LET p == EntryPosition
         end == p + LOG_ENTRY_SIZE
     IN  /\ bytes' = [b \in Byte |->
                        IF b \in p .. end - 1 THEN events + 1 ELSE bytes[b]]
         /\ size' = IF end > size THEN end ELSE size
         /\ curLogFilePos' = end
  /\ events' = events + 1
  /\ pc' = "entry"
  /\ UNCHANGED <<logpos, saved, base, broken, crashes>>

\* Faulty variant: the position of the entry, not of the one after it.
PositionOfEntry == curLogFilePos - LOG_ENTRY_SIZE

PositionToSave == curLogFilePos

SavePosition ==
  /\ pc = "entry"
  /\ logpos' = PositionToSave
  /\ saved' = saved \cup {events}
  /\ broken' = FALSE
  /\ pc' = "ready"
  /\ UNCHANGED <<bytes, size, curLogFilePos, events, base, crashes>>

\* logpos cannot be opened: the entry is there, its position is not saved.
PositionNotSaved ==
  /\ pc = "entry"
  /\ pc' = "ready"
  /\ UNCHANGED <<files, curLogFilePos, events, saved, base, broken, crashes>>

\* device.log cannot be opened, before the position is looked at, or not be
\* written, after that: the event is lost.
EventLost ==
  /\ pc = "ready"
  /\ events < MaxEvents
  /\ events' = events + 1
  /\ curLogFilePos' \in {curLogFilePos, EntryPosition}
  /\ UNCHANGED <<files, pc, saved, base, broken, crashes>>

-----------------------------------------------------------------------------

\* A crash while the zeros are written leaves any part of them.  Where the
\* thread has nothing open, the end of it for a sleep, and its new start at
\* the wake-up, are the same to the files.
Crash ==
  /\ pc # "down"
  /\ crashes < MaxCrashes
  /\ crashes' = crashes + 1
  /\ pc' = "down"
  /\ size' \in IF Opened /\ size < MEGABYTE THEN size .. MEGABYTE ELSE {size}
  /\ UNCHANGED <<bytes, logpos, curLogFilePos, events, saved, base, broken>>

Next ==
  \/ OpenLog \/ OpenPosition \/ CreatePosition
  \/ TooLong \/ TooShort \/ Complete
  \/ InitFails \/ PositionMissing \/ RemoveLog \/ RemovePosition
  \/ WriteEntry \/ SavePosition \/ PositionNotSaved \/ EventLost
  \/ Crash

Spec == Init /\ [][Next]_vars

-----------------------------------------------------------------------------
(* Properties.                                                             *)

(* The types of the files' sizes and positions: device.log never grows by
   more than the part of an entry that lies across MEGABYTE.               *)
TypeOK ==
  /\ bytes \in [Byte -> 0 .. MaxEvents]
  /\ size \in {Absent} \cup 0 .. MEGABYTE + LOG_ENTRY_SIZE - 1
  /\ logpos \in {Absent, Empty} \cup 0 .. MEGABYTE + LOG_ENTRY_SIZE - 1
  /\ curLogFilePos \in 0 .. MEGABYTE + LOG_ENTRY_SIZE - 1
  /\ pc \in {"down", "log open", "position", "new position", "ready",
             "entry", "failed", "log removed", "ended"}
  /\ events \in 0 .. MaxEvents /\ base \in 0 .. MaxEvents
  /\ saved \subseteq 1 .. MaxEvents
  /\ broken \in BOOLEAN
  /\ crashes \in 0 .. MaxCrashes

\* The whole entry of event e can be read back.
Intact(e) ==
  \E p \in 0 .. MEGABYTE - 1 :
    \A b \in p .. p + LOG_ENTRY_SIZE - 1 : b \in Byte /\ bytes[b] = e

(* An event whose position was saved is overwritten only after every older
   one: crashes, lost events, positions that could not be saved, failures of
   the start-up and removals that were left half done do not make the log lose
   its newest entries.  Exception: the events that a start at position 0 over
   an old log found written (the log is too long, or logpos had to be created
   anew) are overwritten from the beginning of the file.                    *)
KeepsSaved ==
  [][\A e \in saved, f \in 1 .. MaxEvents :
       /\ e > base /\ pc = "ready"
       /\ Intact(e) /\ ~Intact(e)' /\ f < e /\ Intact(f)
       => ~Intact(f)']_vars

(* initLogFile gives the log up and removes it only when there is no event in
   it whose position was ever saved, or when an operation failed since logpos
   last got a number: crashes alone, wherever they come, never make a start
   throw saved events away.                                                 *)
RemovalLosesNothing ==
  pc = "failed" /\ ~broken => \A e \in saved : ~Intact(e)
=============================================================================
