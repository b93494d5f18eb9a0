------------------------ MODULE Mp4Recording_proofs ------------------------
(***************************************************************************)
(* Proofs about Mp4Recording, for any sizes of the tables and any number   *)
(* of films, power cuts and failed writes: the types, that the records the *)
(* repair would use are those of the film beside them, that no film with   *)
(* saved records is taken away, and that the tables of every film are true *)
(* and those of a repaired one complete.  The last two rest on what joining*)
(* the parts of the records does (FlattenSeq of SequencesExt), for which   *)
(* SetInduction draws induction over numbers from WFMin: a theorem of the  *)
(* library about sets, with no operator to instantiate.                    *)
(***************************************************************************)
EXTENDS Mp4Recording, WellFoundedInduction, TLAPS

\* The card, and who works on it.
StepInv ==
  /\ card \in {"in", "out"} /\ is_sd_mounted \in BOOLEAN
  /\ who \in {"none", "packer", "main"}
  /\ step \in {"idle", "new temp", "new mp4", "record", "close",
               "remove temp", "rename", "discard", "drop temp"}
  /\ who = "none" <=> step = "idle"
  /\ erred \in BOOLEAN /\ stalled \in BOOLEAN

\* The counters.
CountInv ==
  /\ frameCount \in 0 .. FramesPerHour /\ chunkCount \in 0 .. ChunksPerHour
  /\ savedFrames \in Nat /\ films \in 0 .. MaxFilms

\* The tables of the part, within their rooms.
PartInv ==
  /\ part \in Tables
  /\ Len(part.stco) <= FrameRoom /\ Len(part.stss) <= KeyRoom
  /\ Len(part.asz) <= ChunkRoom /\ Len(part.aco) <= GroupRoom

TempFile == [film : 0 .. MaxFilms, rate : Nat, avcc : BOOLEAN,
             parts : Seq(Tables)]

\* The files; some steps have the film under their hands.
FileInv ==
  /\ "film" \in DOMAIN mp4File
  /\ mp4File.film = 0 => mp4File = NoFile
  /\ mp4File.film \in 0 .. MaxFilms
  /\ tempFile \in TempFile
  /\ tempFile.film = 0 => tempFile = NoTemp
  /\ tempFile.film # 0 => tempFile.rate \in Rate
  /\ step \in {"record", "close", "remove temp", "rename", "discard"}
       => mp4File.film # 0
  /\ step \in {"new mp4", "record"} => films # 0 /\ tempFile.film # 0

TypeInv == StepInv /\ CountInv /\ PartInv /\ FileInv

\* Whose records are in new_video_file.temp.
OwnInv ==
  /\ step = "new mp4" =>
       ~tempFile.avcc /\ tempFile.parts = <<>> /\ tempFile.film = films
  /\ step = "record" => tempFile.film = mp4File.film
  /\ mp4File.film # 0 /\ tempFile.avcc => tempFile.film = mp4File.film

\* Records that the repair accepts as soon as there are any, if they are for
\* the repair.
SavedWell ==
  /\ \A i \in DOMAIN tempFile.parts : ~HasEmptyTable(tempFile.parts[i])
  /\ savedFrames > 0 => tempFile.avcc /\ tempFile.parts # <<>>

\* A recording begins only where nothing is left of another, and what is left
\* has good records, unless something went wrong.
StayInv ==
  /\ is_sd_mounted /\ step = "idle" => mp4File.film = 0 \/ erred
  /\ step \in {"new temp", "new mp4"} => mp4File.film = 0 \/ erred
  /\ step = "drop temp" => mp4File.film = 0
  /\ step = "discard" => Refuses(tempFile) \/ erred
  /\ step \in {"record", "close"} => savedFrames <= frameCount
  /\ step = "record" /\ frameCount > 0 => tempFile.avcc
  /\ step = "record" /\ ~erred /\ ~stalled => SavedWell
  /\ mp4File.film # 0 /\ ~erred /\ ~stalled => tempFile = NoTemp \/ SavedWell

IInv == TypeInv /\ OwnInv /\ StayInv

\* The film's table of key frames has frames only.
KeyInv ==
  /\ "moov" \in DOMAIN mp4File
  /\ step \in {"record", "close"} => keyFrames \in Seq(1 .. frameCount)

\* A table in the parts that are in the file.
Saved(table) == Joined(table, tempFile.parts)

\* What is saved and what is not yet, one after the other, is the whole film.
RecordInv ==
  step = "record" /\ ~erred /\ ~stalled =>
    /\ Saved("stco") \o part.stco = UpTo(frameCount)
    /\ Saved("asz") \o part.asz = UpTo(chunkCount)
    /\ Saved("aco") \o part.aco = UpTo(GroupsOf(chunkCount))
    /\ part.stss \in Seq(Range(keyFrames))

\* What is saved is a film of its own: its frames are the first ones, and its
\* groups have no chunk whose size was not saved.
SavedInv ==
  mp4File.film # 0 /\ tempFile.film = mp4File.film /\ ~erred /\ ~stalled =>
    /\ Saved("stco") = UpTo(savedFrames)
    /\ Saved("stss") \in Seq(Range(keyFrames) \cap 1 .. savedFrames)
    /\ \E chunks, groups \in Nat :
         /\ Saved("asz") = UpTo(chunks)
         /\ Saved("aco") = UpTo(groups)
         /\ GroupSize * groups <= chunks

DataInv == KeyInv /\ RecordInv /\ SavedInv /\ FilmsTrue /\ SavedFramesRestored

-----------------------------------------------------------------------------
(* The assumptions one by one.                                             *)
LEMMA Sizes ==
  /\ FramesPerHour \in Nat /\ ChunksPerHour \in Nat /\ GroupSize \in Nat \ {0}
  /\ FrameRoom \in Nat /\ KeyRoom \in Nat /\ ChunkRoom \in Nat /\ GroupRoom \in Nat
  /\ MaxFilms \in Nat
  BY SizeAssumption, BoundAssumption

(* Zero is a count.                                                        *)
LEMMA Zeros ==
  0 \in 0 .. FramesPerHour /\ 0 \in 0 .. ChunksPerHour /\ 0 \in 0 .. MaxFilms
  BY Sizes

(* An entry is of the table, and the table keeps within its room.          *)
LEMMA PutTyped ==
  ASSUME NEW S, NEW table \in Seq(S), NEW entry \in S, NEW room \in Nat,
         Len(table) <= room
  PROVE  /\ Put(table, entry, room) \in Seq(S)
         /\ Len(Put(table, entry, room)) <= room
  BY DEF Put

(* Nothing saved yet.                                                      *)
LEMMA NoPartTyped ==
  /\ NoPart \in Tables
  /\ Len(NoPart.stco) <= FrameRoom /\ Len(NoPart.stss) <= KeyRoom
  /\ Len(NoPart.asz) <= ChunkRoom /\ Len(NoPart.aco) <= GroupRoom
  BY Sizes DEF NoPart, Tables

(* The n-th chunk completes a group only if there is a whole one.          *)
LEMMA GroupNumber ==
  ASSUME NEW n \in Nat \ {0}, NEW k \in Nat \ {0}, n % k = 0
  PROVE  n \div k \in 1 .. n
  OBVIOUS

(* No records are records of no film.                                      *)
LEMMA NoTempTyped == NoTemp \in TempFile /\ NoTemp.film = 0 /\ ~NoTemp.avcc
  BY BoundAssumption DEF NoTemp, TempFile

(* The moov atom does not change whose file it is.                         *)
LEMMA MoovOnly ==
  ASSUME NEW tables, "film" \in DOMAIN mp4File, WriteMoov(tables)
  PROVE  /\ "film" \in DOMAIN mp4File' /\ mp4File'.film = mp4File.film
         /\ tempFile' = tempFile
  BY DEF WriteMoov

(* Records change neither whose they are nor the parts before them.        *)
LEMMA TempChanged ==
  ASSUME NEW t \in TempFile, NEW p \in Tables
  PROVE  /\ [t EXCEPT !.avcc = TRUE] \in TempFile
         /\ [t EXCEPT !.avcc = TRUE].film = t.film
         /\ [t EXCEPT !.avcc = TRUE].rate = t.rate
         /\ [t EXCEPT !.avcc = TRUE].parts = t.parts
         /\ [t EXCEPT !.avcc = TRUE].avcc
         /\ [t EXCEPT !.parts = Append(t.parts, p)] \in TempFile
         /\ [t EXCEPT !.parts = Append(t.parts, p)].film = t.film
         /\ [t EXCEPT !.parts = Append(t.parts, p)].rate = t.rate
         /\ [t EXCEPT !.parts = Append(t.parts, p)].avcc = t.avcc
         /\ [t EXCEPT !.parts = Append(t.parts, p)].parts = Append(t.parts, p)
  <1>1. t.parts \in Seq(Tables)
    BY DEF TempFile
  <1> DEFINE longer == Append(t.parts, p)
  <1>2. longer \in Seq(Tables)
    BY <1>1
  <1> HIDE DEF longer
  <1>3. /\ [t EXCEPT !.parts = longer] \in TempFile
        /\ [t EXCEPT !.parts = longer].film = t.film
        /\ [t EXCEPT !.parts = longer].rate = t.rate
        /\ [t EXCEPT !.parts = longer].avcc = t.avcc
        /\ [t EXCEPT !.parts = longer].parts = longer
    BY <1>2 DEF TempFile
  <1>4. /\ [t EXCEPT !.avcc = TRUE] \in TempFile
        /\ [t EXCEPT !.avcc = TRUE].film = t.film
        /\ [t EXCEPT !.avcc = TRUE].rate = t.rate
        /\ [t EXCEPT !.avcc = TRUE].parts = t.parts
        /\ [t EXCEPT !.avcc = TRUE].avcc
    BY DEF TempFile
  <1> QED
    BY <1>3, <1>4 DEF longer

(* What a sequence has after Append.                                       *)
LEMMA Appended ==
  ASSUME NEW s \in Seq(Tables), NEW p \in Tables
  PROVE  /\ Append(s, p) # <<>>
         /\ \A i \in DOMAIN Append(s, p) :
              Append(s, p)[i] = p \/ (i \in DOMAIN s /\ Append(s, p)[i] = s[i])
  <1>1. Len(s) \in Nat /\ Len(Append(s, p)) = Len(s) + 1
    OBVIOUS
  <1>2. Append(s, p) # <<>>
    BY <1>1
  <1>3. ASSUME NEW i \in DOMAIN Append(s, p)
        PROVE  Append(s, p)[i] = p \/ (i \in DOMAIN s /\ Append(s, p)[i] = s[i])
    <2>1. CASE i = Len(s) + 1
      <3>1. Append(s, p)[Len(s) + 1] = p
        OBVIOUS
      <3> QED
        BY <2>1, <3>1
    <2>2. CASE i # Len(s) + 1
      BY <1>1, <2>2
    <2> QED
      BY <2>1, <2>2
  <1> QED
    BY <1>2, <1>3

(* The empty sequence has no entry.                                        *)
LEMMA EmptyDomain == \A i : i \notin DOMAIN <<>>
  OBVIOUS

(* A film has a number.                                                    *)
LEMMA SomeFilm ==
  ASSUME NEW n \in 0 .. MaxFilms, n # 0
  PROVE  n \in Film
  BY Sizes DEF Film

(* So has the next one.                                                    *)
LEMMA NextFilm ==
  ASSUME NEW n \in 0 .. MaxFilms, n < MaxFilms
  PROVE  n + 1 \in 1 .. MaxFilms /\ n + 1 \in 0 .. MaxFilms /\ n + 1 # 0
  BY Sizes

(* The records of a new film.                                              *)
LEMMA NewTemp ==
  ASSUME films + 1 \in 0 .. MaxFilms, NEW rate \in Rate
  PROVE  /\ NewRecords(rate) \in TempFile
         /\ NewRecords(rate).film = films + 1 /\ NewRecords(rate).rate = rate
         /\ ~NewRecords(rate).avcc /\ NewRecords(rate).parts = <<>>
  BY RateAssumption DEF TempFile, NewRecords

(* No file is a file of no film.                                           *)
LEMMA NoFileTyped == "film" \in DOMAIN NoFile /\ NoFile.film = 0
  BY DEF NoFile

(* Each step keeps who works on the card.                                  *)
LEMMA StepStep ==
  StepInv /\ [Next]_vars => StepInv'
  <1> SUFFICES ASSUME StepInv, [Next]_vars PROVE StepInv'
    OBVIOUS
  <1> USE DEF StepInv
  <1>1. CASE StartRecording
    BY <1>1 DEF StartRecording, disk, memory, history, bounds
  <1>2. CASE NewFileFails
    BY <1>2 DEF NewFileFails, GoIdle, Recorder, disk, history, bounds
  <1>3. CASE NewTempFile
    BY <1>3 DEF NewTempFile, GoTo, Recorder, memory, history
  <1>4. CASE NewMp4File
    BY <1>4 DEF NewMp4File, GoIdle, Recorder, WriteFails, bounds
  <1>5. ASSUME NEW key \in BOOLEAN, ReadFrame(key)
        PROVE  StepInv'
    BY <1>5 DEF ReadFrame, Recorder, AddFrame, bounds
  <1>6. ASSUME NEW key \in BOOLEAN, ReadFrameWrittenShort(key)
        PROVE  StepInv'
    BY <1>6 DEF ReadFrameWrittenShort, Recorder, AddFrame, disk
  <1>7. CASE SkipFrame
    BY <1>7 DEF SkipFrame, Recorder, disk, history, bounds
  <1>8. CASE ReadChunk
    BY <1>8 DEF ReadChunk, Recorder, disk, bounds
  <1>9. CASE SaveRecords
    BY <1>9 DEF SaveRecords, Recorder, WriteFails, bounds
  <1>10. ASSUME NEW cut \in BOOLEAN, EndOfFile(cut)
        PROVE  StepInv'
    BY <1>10 DEF EndOfFile, Recorder, disk, memory, history, bounds
  <1>11. CASE CloseFile
    BY <1>11 DEF CloseFile, GoTo, Recorder, CloseFails, GoIdle, WriteFails,
       memory, disk, WriteMoov, history, bounds
  <1>12. CASE RemoveTemp
    BY <1>12 DEF RemoveTemp, GoTo, memory, history, bounds
  <1>13. CASE Rename
    BY <1>13 DEF Rename, GoIdle, GoTo, history, bounds, memory
  <1>14. CASE Mount
    BY <1>14 DEF Mount, CardFound, WriteMoov, disk, memory, history, bounds
  <1>15. CASE Discard
    BY <1>15 DEF Discard, GoTo, memory, history, bounds
  <1>16. CASE DropTemp
    BY <1>16 DEF DropTemp, GoIdle, GoTo, history, bounds, memory
  <1>17. CASE PowerCut
    BY <1>17 DEF PowerCut, GoIdle, disk, history
  <1>18. CASE CardOut
    BY <1>18 DEF CardOut, disk, memory, history
  <1>19. CASE LeaveCard
    BY <1>19 DEF LeaveCard, GoIdle, disk, history, bounds
  <1>20. CASE CardIn
    BY <1>20 DEF CardIn, disk, memory, history, bounds
  <1>21. CASE UNCHANGED vars
    BY <1>21 DEF vars, disk, memory, history, bounds
  <1>22. CASE RepairFails
    BY <1>22 DEF RepairFails, CardFound, WriteFails,
       GoIdle, disk, memory
  <1> QED
    BY <1>1, <1>2, <1>3, <1>4, <1>5, <1>6, <1>7, <1>8, <1>9, <1>10, <1>11,
       <1>12, <1>13, <1>14, <1>15, <1>16, <1>17, <1>18, <1>19, <1>20, <1>21,
       <1>22
       DEF Next, Opens, Ends, Repairs

(* Each step keeps the counters in their ranges.                           *)
LEMMA CountStep ==
  CountInv /\ [Next]_vars => CountInv'
  <1> SUFFICES ASSUME CountInv, [Next]_vars PROVE CountInv'
    OBVIOUS
  <1> USE DEF CountInv
  <1>1. CASE StartRecording
    BY <1>1, Sizes, Zeros DEF StartRecording, disk, memory, history, bounds
  <1>2. CASE NewFileFails
    BY <1>2, Sizes, Zeros DEF NewFileFails, GoIdle, Recorder, disk, history,
       bounds
  <1>3. CASE NewTempFile
    <2>1. films < MaxFilms /\ films' = films + 1
      BY <1>3 DEF NewTempFile
    <2>2. films' \in 0 .. MaxFilms
      BY <2>1, Sizes
    <2> QED
      BY <1>3, <2>2 DEF NewTempFile, memory, history
  <1>4. CASE NewMp4File
    <2>1. /\ frameCount' = 0 /\ chunkCount' = 0 /\ films' = films
          /\ savedFrames' = 0 \/ savedFrames' = savedFrames
      BY <1>4 DEF NewMp4File, GoIdle, WriteFails, bounds
    <2> QED
      BY <2>1, Zeros
  <1>5. ASSUME NEW key \in BOOLEAN, ReadFrame(key)
        PROVE  CountInv'
    BY <1>5, Sizes, Zeros DEF ReadFrame, Recorder, AddFrame, bounds
  <1>6. ASSUME NEW key \in BOOLEAN, ReadFrameWrittenShort(key)
        PROVE  CountInv'
    BY <1>6, Sizes, Zeros DEF ReadFrameWrittenShort, Recorder, AddFrame, disk
  <1>7. CASE SkipFrame
    BY <1>7, Sizes, Zeros DEF SkipFrame, Recorder, disk, history, bounds
  <1>8. CASE ReadChunk
    BY <1>8, Sizes, Zeros DEF ReadChunk, Recorder, disk, bounds
  <1>9. CASE SaveRecords
    BY <1>9, Sizes, Zeros DEF SaveRecords, Recorder, WriteFails, bounds
  <1>10. ASSUME NEW cut \in BOOLEAN, EndOfFile(cut)
        PROVE  CountInv'
    BY <1>10, Sizes, Zeros DEF EndOfFile, Recorder, disk, memory, history,
       bounds
  <1>11. CASE CloseFile
    BY <1>11, Sizes, Zeros DEF CloseFile, GoTo, Recorder, CloseFails, GoIdle,
       WriteFails, memory, disk, WriteMoov, history, bounds
  <1>12. CASE RemoveTemp
    BY <1>12, Sizes, Zeros DEF RemoveTemp, GoTo, memory, history, bounds
  <1>13. CASE Rename
    BY <1>13, Sizes, Zeros DEF Rename, GoIdle, GoTo, history, bounds, memory
  <1>14. CASE Mount
    BY <1>14, Sizes, Zeros DEF Mount, CardFound, WriteMoov, disk, memory, history, bounds
  <1>15. CASE Discard
    BY <1>15, Sizes, Zeros DEF Discard, GoTo, memory, history, bounds
  <1>16. CASE DropTemp
    BY <1>16, Sizes, Zeros DEF DropTemp, GoIdle, GoTo, history, bounds, memory
  <1>17. CASE PowerCut
    BY <1>17, Sizes, Zeros DEF PowerCut, GoIdle, disk, history
  <1>18. CASE CardOut
    BY <1>18, Sizes, Zeros DEF CardOut, disk, memory, history
  <1>19. CASE LeaveCard
    BY <1>19, Sizes, Zeros DEF LeaveCard, GoIdle, disk, history, bounds
  <1>20. CASE CardIn
    BY <1>20, Sizes, Zeros DEF CardIn, disk, memory, history, bounds
  <1>21. CASE UNCHANGED vars
    BY <1>21, Sizes, Zeros DEF vars, disk, memory, history, bounds
  <1>22. CASE RepairFails
    BY <1>22, Sizes, Zeros DEF RepairFails, CardFound, WriteFails,
       GoIdle, disk, memory
  <1> QED
    BY <1>1, <1>2, <1>3, <1>4, <1>5, <1>6, <1>7, <1>8, <1>9, <1>10, <1>11,
       <1>12, <1>13, <1>14, <1>15, <1>16, <1>17, <1>18, <1>19, <1>20, <1>21,
       <1>22
       DEF Next, Opens, Ends, Repairs

(* Each step keeps the part within its rooms.                              *)
LEMMA PartStep ==
  CountInv /\ PartInv /\ [Next]_vars => PartInv'
  <1> SUFFICES ASSUME CountInv, PartInv, [Next]_vars PROVE PartInv'
    OBVIOUS
  <1> USE DEF PartInv
  <1>1. CASE StartRecording
    BY <1>1, NoPartTyped DEF StartRecording, disk, memory, history, bounds
  <1>2. CASE NewFileFails
    BY <1>2, NoPartTyped DEF NewFileFails, GoIdle, Recorder, disk, history,
       bounds
  <1>3. CASE NewTempFile
    BY <1>3, NoPartTyped DEF NewTempFile, GoTo, Recorder, memory, history
  <1>4. CASE NewMp4File
    BY <1>4, NoPartTyped DEF NewMp4File, GoIdle, Recorder, WriteFails, bounds
  <1>5. ASSUME NEW key \in BOOLEAN, ReadFrame(key)
        PROVE  PartInv'
    <2>1. frameCount + 1 \in 1 .. FramesPerHour
      BY <1>5, Sizes DEF ReadFrame, Recorder, CountInv
    <2>2. part.stco \in Seq(1 .. FramesPerHour) /\ part.stss \in Seq(1 .. FramesPerHour)
      BY DEF Tables
    <2> DEFINE stco == Put(part.stco, frameCount + 1, FrameRoom)
               stss == IF key THEN Put(part.stss, frameCount + 1, KeyRoom)
                       ELSE part.stss
    <2>3. stco \in Seq(1 .. FramesPerHour) /\ Len(stco) <= FrameRoom
      BY <2>1, <2>2, PutTyped, Sizes
    <2>4. stss \in Seq(1 .. FramesPerHour) /\ Len(stss) <= KeyRoom
      BY <2>1, <2>2, PutTyped, Sizes
    <2> HIDE DEF stco, stss
    <2>5. part' = [part EXCEPT !.stco = stco, !.stss = stss]
      BY <1>5 DEF ReadFrame, AddFrame, stco, stss
    <2> QED
      BY <2>3, <2>4, <2>5 DEF Tables
  <1>6. ASSUME NEW key \in BOOLEAN, ReadFrameWrittenShort(key)
        PROVE  PartInv'
    <2>1. frameCount + 1 \in 1 .. FramesPerHour
      BY <1>6, Sizes DEF ReadFrameWrittenShort, Recorder, CountInv
    <2>2. part.stco \in Seq(1 .. FramesPerHour) /\ part.stss \in Seq(1 .. FramesPerHour)
      BY DEF Tables
    <2> DEFINE stco == Put(part.stco, frameCount + 1, FrameRoom)
               stss == IF key THEN Put(part.stss, frameCount + 1, KeyRoom)
                       ELSE part.stss
    <2>3. stco \in Seq(1 .. FramesPerHour) /\ Len(stco) <= FrameRoom
      BY <2>1, <2>2, PutTyped, Sizes
    <2>4. stss \in Seq(1 .. FramesPerHour) /\ Len(stss) <= KeyRoom
      BY <2>1, <2>2, PutTyped, Sizes
    <2> HIDE DEF stco, stss
    <2>5. part' = [part EXCEPT !.stco = stco, !.stss = stss]
      BY <1>6 DEF ReadFrameWrittenShort, AddFrame, stco, stss
    <2> QED
      BY <2>3, <2>4, <2>5 DEF Tables
  <1>7. CASE SkipFrame
    BY <1>7, NoPartTyped DEF SkipFrame, Recorder, disk, history, bounds
  <1>8. CASE ReadChunk
    <2> DEFINE n == chunkCount + 1
    <2>1. n \in 1 .. ChunksPerHour
      BY <1>8, Sizes DEF ReadChunk, CountInv
    <2>2. part.asz \in Seq(1 .. ChunksPerHour) /\ part.aco \in Seq(1 .. ChunksPerHour)
      BY DEF Tables
    <2>3. n % GroupSize = 0 => GroupsOf(n) \in 1 .. ChunksPerHour
      BY <2>1, Sizes, GroupNumber DEF GroupsOf
    <2> DEFINE asz == Put(part.asz, n, ChunkRoom)
               aco == IF n % GroupSize = 0 THEN Put(part.aco, GroupsOf(n), GroupRoom)
                      ELSE part.aco
    <2>4. asz \in Seq(1 .. ChunksPerHour) /\ Len(asz) <= ChunkRoom
      BY <2>1, <2>2, PutTyped, Sizes
    <2>5. aco \in Seq(1 .. ChunksPerHour) /\ Len(aco) <= GroupRoom
      BY <2>2, <2>3, PutTyped, Sizes
    <2>6. part' = [part EXCEPT !.asz = asz, !.aco = aco]
      BY <1>8 DEF ReadChunk
    <2> HIDE DEF asz, aco
    <2> QED
      BY <2>4, <2>5, <2>6 DEF Tables
  <1>9. CASE SaveRecords
    BY <1>9, NoPartTyped DEF SaveRecords, Recorder, WriteFails, bounds
  <1>10. ASSUME NEW cut \in BOOLEAN, EndOfFile(cut)
        PROVE  PartInv'
    BY <1>10, NoPartTyped DEF EndOfFile, Recorder, disk, memory, history,
       bounds
  <1>11. CASE CloseFile
    BY <1>11, NoPartTyped DEF CloseFile, GoTo, Recorder, CloseFails, GoIdle,
       WriteFails, memory, disk, WriteMoov, history, bounds
  <1>12. CASE RemoveTemp
    BY <1>12, NoPartTyped DEF RemoveTemp, GoTo, memory, history, bounds
  <1>13. CASE Rename
    BY <1>13, NoPartTyped DEF Rename, GoIdle, GoTo, history, bounds, memory
  <1>14. CASE Mount
    BY <1>14, NoPartTyped DEF Mount, CardFound, WriteMoov, disk, memory, history, bounds
  <1>15. CASE Discard
    BY <1>15, NoPartTyped DEF Discard, GoTo, memory, history, bounds
  <1>16. CASE DropTemp
    BY <1>16, NoPartTyped DEF DropTemp, GoIdle, GoTo, history, bounds, memory
  <1>17. CASE PowerCut
    BY <1>17, NoPartTyped DEF PowerCut, GoIdle, disk, history
  <1>18. CASE CardOut
    BY <1>18, NoPartTyped DEF CardOut, disk, memory, history
  <1>19. CASE LeaveCard
    BY <1>19, NoPartTyped DEF LeaveCard, GoIdle, disk, history, bounds
  <1>20. CASE CardIn
    BY <1>20, NoPartTyped DEF CardIn, disk, memory, history, bounds
  <1>21. CASE UNCHANGED vars
    BY <1>21, NoPartTyped DEF vars, disk, memory, history, bounds
  <1>22. CASE RepairFails
    BY <1>22, NoPartTyped DEF RepairFails, CardFound, WriteFails,
       GoIdle, disk, memory
  <1> QED
    BY <1>1, <1>2, <1>3, <1>4, <1>5, <1>6, <1>7, <1>8, <1>9, <1>10, <1>11,
       <1>12, <1>13, <1>14, <1>15, <1>16, <1>17, <1>18, <1>19, <1>20, <1>21,
       <1>22
       DEF Next, Opens, Ends, Repairs

(* Each step keeps the files those of films.                               *)
LEMMA FileStep ==
  StepInv /\ CountInv /\ PartInv /\ FileInv /\ [Next]_vars => FileInv'
  <1> SUFFICES ASSUME StepInv, CountInv, PartInv, FileInv, [Next]_vars PROVE FileInv'
    OBVIOUS
  <1> USE DEF FileInv
  <1>1. CASE StartRecording
    BY <1>1, Zeros, NoTempTyped, NoFileTyped DEF StartRecording, disk, memory,
       history, bounds
  <1>2. CASE NewFileFails
    BY <1>2, Zeros, NoTempTyped, NoFileTyped DEF NewFileFails, GoIdle,
       Recorder, disk, history, bounds
  <1>3. CASE NewTempFile
    <2>1. films \in 0 .. MaxFilms /\ films < MaxFilms
      BY <1>3 DEF NewTempFile, CountInv
    <2>2. films + 1 \in 0 .. MaxFilms /\ films + 1 # 0
      BY <2>1, NextFilm
    <2>3. PICK rate \in Rate : tempFile' = NewRecords(rate)
      BY <1>3 DEF NewTempFile
    <2>4. /\ tempFile' \in TempFile /\ tempFile'.film = films + 1
          /\ tempFile'.rate \in Rate
      BY <2>2, <2>3, NewTemp
    <2>5. films' = films + 1 /\ mp4File' = mp4File /\ step' = "new mp4"
      BY <1>3 DEF NewTempFile, GoTo
    <2> QED
      BY <2>2, <2>4, <2>5
  <1>4. CASE NewMp4File
    <2>1. CASE mp4File' = [film |-> films, moov |-> NoMoov] /\ step' = "record"
      <3>1. "film" \in DOMAIN mp4File' /\ mp4File'.film = films
        BY <2>1
      <3>2. films # 0 /\ films \in 0 .. MaxFilms
        BY <1>4 DEF NewMp4File, Recorder, CountInv
      <3>3. tempFile' = tempFile /\ films' = films /\ tempFile.film # 0
        BY <1>4, <2>1 DEF NewMp4File, Recorder, GoIdle, bounds
      <3> QED
        BY <2>1, <3>1, <3>2, <3>3
    <2>2. CASE mp4File' = mp4File /\ GoIdle
      BY <1>4, <2>2 DEF NewMp4File, GoIdle
    <2> QED
      BY <1>4, <2>1, <2>2 DEF NewMp4File
  <1>5. ASSUME NEW key \in BOOLEAN, ReadFrame(key)
        PROVE  FileInv'
    <2>1. /\ tempFile' \in TempFile /\ tempFile'.film = tempFile.film
          /\ tempFile'.rate = tempFile.rate
      BY <1>5, TempChanged, NoPartTyped DEF ReadFrame
    <2>2. step' = step /\ mp4File' = mp4File /\ films' = films /\ step = "record"
      BY <1>5 DEF ReadFrame, Recorder, bounds
    <2> QED
      BY <2>1, <2>2
  <1>6. ASSUME NEW key \in BOOLEAN, ReadFrameWrittenShort(key)
        PROVE  FileInv'
    BY <1>6, Zeros, NoTempTyped, NoFileTyped DEF ReadFrameWrittenShort,
       Recorder, AddFrame, disk
  <1>7. CASE SkipFrame
    BY <1>7, Zeros, NoTempTyped, NoFileTyped DEF SkipFrame, Recorder, disk,
       history, bounds
  <1>8. CASE ReadChunk
    BY <1>8, Zeros, NoTempTyped, NoFileTyped DEF ReadChunk, Recorder, disk,
       bounds
  <1>9. CASE SaveRecords
    <2>1. step' = step /\ mp4File' = mp4File /\ films' = films /\ step = "record"
      BY <1>9 DEF SaveRecords, Recorder, WriteFails, bounds
    <2>2. tempFile' = [tempFile EXCEPT !.parts = Append(tempFile.parts, part)] \/ tempFile' = tempFile
      BY <1>9 DEF SaveRecords
    <2> HIDE DEF FileInv
    <2>3. part \in Tables /\ tempFile \in TempFile
      BY DEF PartInv, FileInv
    <2>4. /\ tempFile' \in TempFile /\ tempFile'.film = tempFile.film
          /\ tempFile'.rate = tempFile.rate
      BY <2>2, <2>3, TempChanged
    <2> QED
      BY <2>1, <2>4 DEF FileInv
  <1>10. ASSUME NEW cut \in BOOLEAN, EndOfFile(cut)
        PROVE  FileInv'
    BY <1>10, Zeros, NoTempTyped, NoFileTyped DEF EndOfFile, Recorder, disk,
       memory, history, bounds
  <1>11. CASE CloseFile
    <2>1. films' = films
      BY <1>11 DEF CloseFile, CloseFails, WriteFails, bounds
    <2>2. CASE WriteMoov(TablesInMemory) /\ step' = "remove temp"
      BY <1>11, <2>1, <2>2, MoovOnly DEF CloseFile, Recorder
    <2>3. CASE CloseFails
      BY <1>11, <2>1, <2>3 DEF CloseFails, GoIdle, disk
    <2>4. CASE mp4File' = NoFile /\ tempFile' = tempFile /\ step' = "drop temp"
      BY <2>1, <2>4, NoFileTyped, Zeros
    <2> QED
      BY <1>11, <2>2, <2>3, <2>4 DEF CloseFile, GoTo
  <1>12. CASE RemoveTemp
    BY <1>12, Zeros, NoTempTyped, NoFileTyped DEF RemoveTemp, GoTo, memory,
       history, bounds
  <1>13. CASE Rename
    BY <1>13, Zeros, NoTempTyped, NoFileTyped DEF Rename, GoIdle, GoTo,
       history, bounds, memory
  <1>14. CASE Mount
    <2>1. films' = films
      BY <1>14 DEF Mount, bounds
    <2>2. CASE WriteMoov(TablesInRecords(tempFile)) /\ mp4File # NoFile
               /\ step' = "remove temp"
      BY <2>1, <2>2, MoovOnly
    <2>3. CASE UNCHANGED disk /\ (step' = "discard" => mp4File # NoFile)
               /\ (step' = step \/ step' = "discard")
      BY <1>14, <2>1, <2>3 DEF Mount, CardFound, disk
    <2> QED
      BY <1>14, <2>2, <2>3 DEF Mount, CardFound
  <1>15. CASE Discard
    BY <1>15, Zeros, NoTempTyped, NoFileTyped DEF Discard, GoTo, memory,
       history, bounds
  <1>16. CASE DropTemp
    BY <1>16, Zeros, NoTempTyped, NoFileTyped DEF DropTemp, GoIdle, GoTo,
       history, bounds, memory
  <1>17. CASE PowerCut
    BY <1>17, Zeros, NoTempTyped, NoFileTyped DEF PowerCut, GoIdle, disk,
       history
  <1>18. CASE CardOut
    BY <1>18, Zeros, NoTempTyped, NoFileTyped DEF CardOut, disk, memory,
       history
  <1>19. CASE LeaveCard
    BY <1>19, Zeros, NoTempTyped, NoFileTyped DEF LeaveCard, GoIdle, disk,
       history, bounds
  <1>20. CASE CardIn
    BY <1>20, Zeros, NoTempTyped, NoFileTyped DEF CardIn, disk, memory,
       history, bounds
  <1>21. CASE UNCHANGED vars
    BY <1>21, Zeros, NoTempTyped, NoFileTyped DEF vars, disk, memory, history,
       bounds
  <1>22. CASE RepairFails
    BY <1>22, Zeros, NoTempTyped, NoFileTyped DEF RepairFails, CardFound, WriteFails,
       GoIdle, disk, memory
  <1> QED
    BY <1>1, <1>2, <1>3, <1>4, <1>5, <1>6, <1>7, <1>8, <1>9, <1>10, <1>11,
       <1>12, <1>13, <1>14, <1>15, <1>16, <1>17, <1>18, <1>19, <1>20, <1>21,
       <1>22
       DEF Next, Opens, Ends, Repairs

(* Each step keeps the records with their film.                            *)
LEMMA OwnStep ==
  FileInv /\ PartInv /\ OwnInv /\ [Next]_vars => OwnInv'
  <1> SUFFICES ASSUME FileInv, PartInv, OwnInv, [Next]_vars PROVE OwnInv'
    OBVIOUS
  <1> USE DEF OwnInv
  <1>1. CASE StartRecording
    BY <1>1, NoTempTyped, NoFileTyped DEF StartRecording, disk, memory,
       history, bounds
  <1>2. CASE NewFileFails
    BY <1>2, NoTempTyped, NoFileTyped DEF NewFileFails, GoIdle, Recorder,
       disk, history, bounds
  <1>3. CASE NewTempFile
    <2>1. PICK rate \in Rate : tempFile' = NewRecords(rate)
      BY <1>3 DEF NewTempFile
    <2>2. /\ tempFile'.film = films + 1 /\ ~tempFile'.avcc
          /\ tempFile'.parts = <<>>
      BY <2>1 DEF NewRecords
    <2>3. films' = films + 1 /\ mp4File' = mp4File /\ step' = "new mp4"
      BY <1>3 DEF NewTempFile, GoTo
    <2> QED
      BY <2>2, <2>3
  <1>4. CASE NewMp4File
    <2>1. tempFile' = tempFile /\ step = "new mp4" /\ films' = films
      BY <1>4 DEF NewMp4File, Recorder, WriteFails, bounds
    <2>2. CASE mp4File' = [film |-> films, moov |-> NoMoov] /\ step' = "record"
      <3>1. mp4File'.film = films
        BY <2>2
      <3> QED
        BY <2>1, <2>2, <3>1
    <2>3. CASE mp4File' = mp4File /\ step' = "idle"
      BY <2>1, <2>3
    <2> QED
      BY <1>4, <2>2, <2>3 DEF NewMp4File, GoIdle
  <1>5. ASSUME NEW key \in BOOLEAN, ReadFrame(key)
        PROVE  OwnInv'
    <2>1. tempFile'.film = tempFile.film
      BY <1>5, TempChanged, NoPartTyped DEF ReadFrame, FileInv
    <2>2. step' = step /\ mp4File' = mp4File /\ step = "record"
      BY <1>5 DEF ReadFrame, Recorder
    <2> QED
      BY <2>1, <2>2
  <1>6. ASSUME NEW key \in BOOLEAN, ReadFrameWrittenShort(key)
        PROVE  OwnInv'
    BY <1>6, NoTempTyped, NoFileTyped DEF ReadFrameWrittenShort, Recorder,
       AddFrame, disk
  <1>7. CASE SkipFrame
    BY <1>7, NoTempTyped, NoFileTyped DEF SkipFrame, Recorder, disk, history,
       bounds
  <1>8. CASE ReadChunk
    BY <1>8, NoTempTyped, NoFileTyped DEF ReadChunk, Recorder, disk, bounds
  <1>9. CASE SaveRecords
    <2>1. step' = step /\ mp4File' = mp4File /\ step = "record"
      BY <1>9 DEF SaveRecords, Recorder, WriteFails
    <2>2. tempFile' = [tempFile EXCEPT !.parts = Append(tempFile.parts, part)] \/ tempFile' = tempFile
      BY <1>9 DEF SaveRecords
    <2>3. part \in Tables /\ tempFile \in TempFile
      BY DEF PartInv, FileInv
    <2> HIDE DEF OwnInv
    <2>4. tempFile'.film = tempFile.film /\ tempFile'.avcc = tempFile.avcc
      BY <2>2, <2>3, TempChanged
    <2> QED
      BY <2>1, <2>4 DEF OwnInv
  <1>10. ASSUME NEW cut \in BOOLEAN, EndOfFile(cut)
        PROVE  OwnInv'
    BY <1>10, NoTempTyped, NoFileTyped DEF EndOfFile, Recorder, disk, memory,
       history, bounds
  <1>11. CASE CloseFile
    <2>1. step = "close" /\ "film" \in DOMAIN mp4File
      BY <1>11 DEF CloseFile, Recorder, FileInv
    <2>2. CASE WriteMoov(TablesInMemory) /\ step' = "remove temp"
      BY <2>1, <2>2, MoovOnly
    <2>3. CASE CloseFails
      BY <2>1, <2>3 DEF CloseFails, GoIdle, disk
    <2>4. CASE mp4File' = NoFile /\ tempFile' = tempFile /\ step' = "drop temp"
      BY <2>4, NoFileTyped
    <2> QED
      BY <1>11, <2>2, <2>3, <2>4 DEF CloseFile, GoTo
  <1>12. CASE RemoveTemp
    BY <1>12, NoTempTyped, NoFileTyped DEF RemoveTemp, GoTo, memory, history,
       bounds
  <1>13. CASE Rename
    BY <1>13, NoTempTyped, NoFileTyped DEF Rename, GoIdle, GoTo, history,
       bounds, memory
  <1>14. CASE Mount
    <2>1. step = "idle" /\ "film" \in DOMAIN mp4File
      BY <1>14 DEF Mount, CardFound, FileInv
    <2>2. CASE WriteMoov(TablesInRecords(tempFile)) /\ step' = "remove temp"
      BY <2>1, <2>2, MoovOnly
    <2>3. CASE UNCHANGED disk /\ step' \in {"idle", "discard"}
      BY <2>3 DEF disk
    <2> QED
      BY <1>14, <2>1, <2>2, <2>3 DEF Mount, CardFound
  <1>15. CASE Discard
    BY <1>15, NoTempTyped, NoFileTyped DEF Discard, GoTo, memory, history,
       bounds
  <1>16. CASE DropTemp
    BY <1>16, NoTempTyped, NoFileTyped DEF DropTemp, GoIdle, GoTo, history,
       bounds, memory
  <1>17. CASE PowerCut
    BY <1>17, NoTempTyped, NoFileTyped DEF PowerCut, GoIdle, disk, history
  <1>18. CASE CardOut
    BY <1>18, NoTempTyped, NoFileTyped DEF CardOut, disk, memory, history
  <1>19. CASE LeaveCard
    BY <1>19, NoTempTyped, NoFileTyped DEF LeaveCard, GoIdle, disk, history,
       bounds
  <1>20. CASE CardIn
    BY <1>20, NoTempTyped, NoFileTyped DEF CardIn, disk, memory, history,
       bounds
  <1>21. CASE UNCHANGED vars
    BY <1>21, NoTempTyped, NoFileTyped DEF vars, disk, memory, history, bounds
  <1>22. CASE RepairFails
    BY <1>22, NoTempTyped, NoFileTyped DEF RepairFails, CardFound, WriteFails,
       GoIdle, disk, memory
  <1> QED
    BY <1>1, <1>2, <1>3, <1>4, <1>5, <1>6, <1>7, <1>8, <1>9, <1>10, <1>11,
       <1>12, <1>13, <1>14, <1>15, <1>16, <1>17, <1>18, <1>19, <1>20, <1>21,
       <1>22
       DEF Next, Opens, Ends, Repairs

(* Each step keeps what protects films that have saved records.            *)
LEMMA StayStep ==
  StepInv /\ CountInv /\ PartInv /\ FileInv /\ OwnInv /\ StayInv
    /\ [Next]_vars => StayInv'
  <1> SUFFICES ASSUME StepInv, CountInv, PartInv, FileInv, OwnInv, StayInv, [Next]_vars PROVE StayInv'
    OBVIOUS
  <1> USE DEF StayInv
  <1>1. CASE StartRecording
    BY <1>1, NoTempTyped, NoFileTyped DEF StartRecording, disk, memory,
       history, bounds, SavedWell
  <1>2. CASE NewFileFails
    BY <1>2, NoTempTyped, NoFileTyped DEF NewFileFails, GoIdle, Recorder,
       disk, history, bounds, SavedWell
  <1>3. CASE NewTempFile
    <2>1. /\ step = "new temp" /\ step' = "new mp4" /\ mp4File' = mp4File
          /\ erred' = erred
      BY <1>3 DEF NewTempFile, Recorder, GoTo, history
    <2> QED
      BY <2>1
  <1>4. CASE NewMp4File
    <2>1. tempFile' = tempFile /\ step = "new mp4" /\ is_sd_mounted' = is_sd_mounted
      BY <1>4 DEF NewMp4File, Recorder
    <2>2. CASE /\ step' = "record" /\ savedFrames' = 0 /\ frameCount' = 0
      <3>1. tempFile.parts = <<>>
        BY <2>1 DEF OwnInv
      <3>2. tempFile'.parts = <<>>
        BY <2>1, <3>1
      <3>3. \A i : i \notin DOMAIN tempFile'.parts
        BY <3>2, EmptyDomain
      <3> HIDE DEF StayInv
      <3>4. ~(savedFrames' > 0) /\ ~(frameCount' > 0) /\ savedFrames' <= frameCount'
        BY <2>2
      <3>5. SavedWell'
        BY <3>3, <3>4 DEF SavedWell
      <3> QED
        BY <2>2, <3>4, <3>5 DEF StayInv
    <2>3. CASE erred' = TRUE /\ step' = "idle"
      BY <2>3
    <2> QED
      BY <1>4, <2>2, <2>3 DEF NewMp4File, GoIdle, WriteFails
  <1>5. ASSUME NEW key \in BOOLEAN, ReadFrame(key)
        PROVE  StayInv'
    <2>1. /\ tempFile'.parts = tempFile.parts
          /\ tempFile'.avcc
      BY <1>5, TempChanged, NoPartTyped, Zeros DEF ReadFrame, FileInv, Recorder, CountInv
    <2>2. /\ step' = step /\ mp4File' = mp4File /\ step = "record"
          /\ savedFrames' = savedFrames /\ erred' = erred
          /\ stalled = TRUE => stalled' = TRUE
      BY <1>5 DEF ReadFrame, Recorder, AddFrame
    <2>3. frameCount' = frameCount + 1
      BY <1>5 DEF ReadFrame, AddFrame
    <2>4. savedFrames <= frameCount'
      BY <2>2, <2>3 DEF CountInv
    <2>5. ~erred /\ ~stalled => SavedWell'
      BY <2>1, <2>2 DEF SavedWell
    <2> QED
      BY <2>1, <2>2, <2>4, <2>5 DEF StepInv
  <1>6. ASSUME NEW key \in BOOLEAN, ReadFrameWrittenShort(key)
        PROVE  StayInv'
    <2>1. /\ step' = step /\ mp4File' = mp4File /\ step = "record"
          /\ savedFrames' = savedFrames /\ erred' = TRUE
          /\ tempFile' = tempFile /\ frameCount > 0
          /\ frameCount' = frameCount + 1
      BY <1>6, Zeros DEF ReadFrameWrittenShort, Recorder, AddFrame, disk, CountInv
    <2>2. savedFrames <= frameCount'
      BY <2>1 DEF CountInv
    <2> QED
      BY <2>1, <2>2
  <1>7. CASE SkipFrame
    BY <1>7, NoTempTyped, NoFileTyped DEF SkipFrame, Recorder, disk, history,
       bounds, SavedWell
  <1>8. CASE ReadChunk
    <2>1. /\ step' = step /\ step = "record"
          /\ savedFrames' = savedFrames /\ erred' = erred
          /\ UNCHANGED <<tempFile, mp4File, frameCount>>
          /\ stalled = TRUE => stalled' = TRUE
      BY <1>8 DEF ReadChunk, Recorder, disk
    <2>2. SavedWell' = SavedWell
      BY <2>1 DEF SavedWell
    <2> QED
      BY <2>1, <2>2 DEF StepInv
  <1>9. CASE SaveRecords
    <2>1. /\ step' = step /\ mp4File' = mp4File /\ step = "record"
          /\ frameCount' = frameCount
      BY <1>9 DEF SaveRecords, Recorder, WriteFails
    <2>2. part \in Tables /\ tempFile \in TempFile
      BY DEF PartInv, FileInv
    <2>3. CASE /\ tempFile' = [tempFile EXCEPT !.parts = Append(tempFile.parts, part)]
               /\ savedFrames' = frameCount /\ erred' = erred
               /\ stalled' = (stalled \/ HasEmptyTable(part))
      <3>1. tempFile'.parts = Append(tempFile.parts, part) /\ tempFile'.avcc = tempFile.avcc
        <4> HIDE DEF StayInv
        <4> QED
          BY <2>2, <2>3, TempChanged
      <3>2. tempFile.parts \in Seq(Tables)
        BY <2>2 DEF TempFile
      <3>3. ASSUME ~erred, ~stalled'
            PROVE  SavedWell'
        <4>1. ~HasEmptyTable(part) /\ SavedWell
          BY <2>1, <2>3, <3>3 DEF StepInv
        <4>2. /\ tempFile'.parts # <<>>
              /\ \A i \in DOMAIN tempFile'.parts :
                   \/ tempFile'.parts[i] = part
                   \/ i \in DOMAIN tempFile.parts
                      /\ tempFile'.parts[i] = tempFile.parts[i]
          <5> HIDE DEF StayInv
          <5> QED
            BY <2>2, <3>1, <3>2, Appended
        <4>3. frameCount > 0 => tempFile'.avcc
          BY <2>1, <3>1
        <4> QED
          BY <2>3, <4>1, <4>2, <4>3 DEF SavedWell
      <3> QED
        BY <2>1, <2>3, <3>1, <3>3 DEF CountInv
    <2>4. CASE WriteFails /\ tempFile' = tempFile
      BY <2>1, <2>4 DEF WriteFails
    <2> QED
      BY <1>9, <2>3, <2>4 DEF SaveRecords
  <1>10. ASSUME NEW cut \in BOOLEAN, EndOfFile(cut)
        PROVE  StayInv'
    BY <1>10, NoTempTyped, NoFileTyped DEF EndOfFile, Recorder, disk, memory,
       history, bounds, SavedWell
  <1>11. CASE CloseFile
    <2>1. step = "close" /\ "film" \in DOMAIN mp4File
      BY <1>11 DEF CloseFile, Recorder, FileInv
    <2>2. CASE WriteMoov(TablesInMemory) /\ step' = "remove temp" /\ UNCHANGED history
      <3>1. mp4File'.film = mp4File.film /\ tempFile' = tempFile
        BY <2>1, <2>2, MoovOnly
      <3>2. SavedWell' = SavedWell
        BY <2>2, <3>1 DEF SavedWell, history
      <3> QED
        BY <2>2, <3>1, <3>2 DEF history
    <2>3. CASE CloseFails
      BY <2>1, <2>3 DEF CloseFails, WriteFails, GoIdle
    <2>4. CASE mp4File' = NoFile /\ step' = "drop temp"
      BY <2>4, NoFileTyped
    <2> QED
      BY <1>11, <2>2, <2>3, <2>4 DEF CloseFile, GoTo
  <1>12. CASE RemoveTemp
    BY <1>12, NoTempTyped, NoFileTyped DEF RemoveTemp, GoTo, memory, history,
       bounds, SavedWell
  <1>13. CASE Rename
    BY <1>13, NoTempTyped, NoFileTyped DEF Rename, GoIdle, GoTo, history,
       bounds, memory, SavedWell
  <1>14. CASE Mount
    <2>1. step = "idle" /\ "film" \in DOMAIN mp4File
      BY <1>14 DEF Mount, CardFound, FileInv
    <2>2. CASE WriteMoov(TablesInRecords(tempFile)) /\ step' = "remove temp"
      <3>1. mp4File'.film = mp4File.film /\ tempFile' = tempFile
        BY <2>1, <2>2, MoovOnly
      <3>2. SavedWell' = SavedWell
        BY <1>14, <3>1 DEF SavedWell, Mount, history
      <3> QED
        BY <1>14, <2>2, <3>1, <3>2 DEF Mount, history
    <2>3. CASE /\ UNCHANGED disk
               /\ \/ step' = "idle" /\ mp4File = NoFile
                  \/ step' = "discard" /\ Refuses(tempFile)
      <3>1. SavedWell' = SavedWell
        BY <1>14, <2>3 DEF SavedWell, Mount, history, disk
      <3> QED
        BY <1>14, <2>3, <3>1, NoFileTyped DEF Mount, disk, history
    <2> QED
      BY <1>14, <2>1, <2>2, <2>3 DEF Mount, CardFound
  <1>15. CASE Discard
    BY <1>15, NoTempTyped, NoFileTyped DEF Discard, GoTo, memory, history,
       bounds, SavedWell
  <1>16. CASE DropTemp
    BY <1>16, NoTempTyped, NoFileTyped DEF DropTemp, GoIdle, GoTo, history,
       bounds, memory, SavedWell
  <1>17. CASE PowerCut
    BY <1>17, NoTempTyped, NoFileTyped DEF PowerCut, GoIdle, disk, history,
       SavedWell
  <1>18. CASE CardOut
    BY <1>18, NoTempTyped, NoFileTyped DEF CardOut, disk, memory, history,
       SavedWell
  <1>19. CASE LeaveCard
    BY <1>19, NoTempTyped, NoFileTyped DEF LeaveCard, GoIdle, disk, history,
       bounds, SavedWell
  <1>20. CASE CardIn
    BY <1>20, NoTempTyped, NoFileTyped DEF CardIn, disk, memory, history,
       bounds, SavedWell
  <1>21. CASE UNCHANGED vars
    BY <1>21, NoTempTyped, NoFileTyped DEF vars, disk, memory, history,
       bounds, SavedWell
  <1>22. CASE RepairFails
    <2>1. /\ erred' = TRUE /\ UNCHANGED disk /\ step' \in {"idle", "discard"}
          /\ mp4File # NoFile
      BY <1>22 DEF RepairFails, WriteFails, GoIdle
    <2> QED
      BY <2>1
  <1> QED
    BY <1>1, <1>2, <1>3, <1>4, <1>5, <1>6, <1>7, <1>8, <1>9, <1>10, <1>11,
       <1>12, <1>13, <1>14, <1>15, <1>16, <1>17, <1>18, <1>19, <1>20, <1>21,
       <1>22
       DEF Next, Opens, Ends, Repairs

-----------------------------------------------------------------------------
(* Sequences that are joined, and the numbers up to n.                     *)

(* A set of numbers that is not empty has a least one.                     *)
LEMMA LeastNumber ==
  ASSUME NEW T \in SUBSET Nat, T # {}
  PROVE  \E x \in T : \A y \in T : x <= y
  <1> DEFINE R == OpToRel(<, Nat)
  <1>1. IsWellFoundedOn(R, Nat)
    BY NatLessThanWellFounded
  <1> HIDE DEF R
  <1>2. PICK x \in T : \A y \in T : <<y, x>> \notin R
    BY <1>1, WFMin
  <1>3. ASSUME NEW y \in T
        PROVE  x <= y
    <2>1. x \in Nat /\ y \in Nat /\ <<y, x>> \notin R
      BY <1>2
    <2> QED
      BY <2>1 DEF R, OpToRel
  <1> QED
    BY <1>3

(* Induction: of a set of numbers instead of a predicate.                  *)
LEMMA SetInduction ==
  ASSUME NEW T, 0 \in T, \A n \in Nat : n \in T => n + 1 \in T
  PROVE  Nat \subseteq T
  <1> SUFFICES ASSUME Nat \ T # {} PROVE FALSE
    OBVIOUS
  <1>1. PICK x \in Nat \ T : \A y \in Nat \ T : x <= y
    BY LeastNumber
  <1>2. x - 1 \in Nat /\ (x - 1) + 1 = x
    BY <1>1
  <1>3. x - 1 \in T
    BY <1>1, <1>2
  <1> QED
    BY <1>1, <1>2, <1>3

(* What FlattenSeq computes with: f[i] joins the first i sequences.        *)
Joins(f, ss, n) ==
  f = [i \in 1 .. n |-> IF i = 1 THEN ss[i] ELSE f[i - 1] \o ss[i]]

(* Each entry joins one sequence to the entry before.                      *)
LEMMA JoinsValue ==
  ASSUME NEW f, NEW ss, NEW n \in Nat, Joins(f, ss, n), NEW i \in 1 .. n
  PROVE  f[i] = IF i = 1 THEN ss[i] ELSE f[i - 1] \o ss[i]
  <1> DEFINE e(j) == IF j = 1 THEN ss[j] ELSE f[j - 1] \o ss[j]
  <1>1. f = [j \in 1 .. n |-> e(j)]
    BY DEF Joins
  <1> HIDE DEF e
  <1>2. f[i] = e(i)
    BY <1>1
  <1> QED
    BY <1>2 DEF e

(* There are such entries for any number of sequences.                     *)
LEMMA JoinsExists ==
  ASSUME NEW ss, NEW n \in Nat
  PROVE  \E f : Joins(f, ss, n)
  <1> DEFINE T == {k \in Nat : \E f : Joins(f, ss, k)}
  <1>1. 0 \in T
    <2>1. Joins(<<>>, ss, 0)
      <3> DEFINE e(j) == IF j = 1 THEN ss[j] ELSE (<<>>)[j - 1] \o ss[j]
      <3> SUFFICES <<>> = [j \in 1 .. 0 |-> e(j)]
        BY DEF Joins
      <3> HIDE DEF e
      <3> QED
        OBVIOUS
    <2> QED
      BY <2>1
  <1>2. ASSUME NEW k \in Nat, k \in T
        PROVE  k + 1 \in T
    <2>1. PICK f : Joins(f, ss, k)
      BY <1>2
    <2> DEFINE last == IF k = 0 THEN ss[1] ELSE f[k] \o ss[k + 1]
               g == [j \in 1 .. k + 1 |-> IF j = k + 1 THEN last ELSE f[j]]
    <2>2. ASSUME NEW j \in 1 .. k + 1
          PROVE  g[j] = IF j = 1 THEN ss[j] ELSE g[j - 1] \o ss[j]
      <3>1. CASE j = k + 1
        <4> HIDE DEF last
        <4>1. g[j] = last /\ (k # 0 => g[j - 1] = f[k])
          BY <3>1
        <4> HIDE DEF g
        <4> QED
          BY <3>1, <4>1 DEF last
      <3>2. CASE j # k + 1
        <4> HIDE DEF last
        <4>1. j \in 1 .. k /\ g[j] = f[j] /\ (j # 1 => g[j - 1] = f[j - 1])
          BY <3>2
        <4>2. f[j] = IF j = 1 THEN ss[j] ELSE f[j - 1] \o ss[j]
          BY <2>1, <4>1, JoinsValue
        <4> HIDE DEF g
        <4> QED
          BY <4>1, <4>2
      <3> QED
        BY <3>1, <3>2
    <2>3. Joins(g, ss, k + 1)
      <3> DEFINE e(j) == IF j = 1 THEN ss[j] ELSE g[j - 1] \o ss[j]
      <3>1. g = [j \in 1 .. k + 1 |-> g[j]]
        BY DEF g
      <3>2. \A j \in 1 .. k + 1 : g[j] = e(j)
        BY <2>2
      <3> HIDE DEF g, e
      <3>3. g = [j \in 1 .. k + 1 |-> e(j)]
        BY <3>1, <3>2, Zenon
      <3> QED
        BY <3>3, Zenon DEF Joins, e
    <2> HIDE DEF g
    <2> QED
      BY <2>3
  <1> HIDE DEF T
  <1>3. Nat \subseteq T
    BY <1>1, <1>2, SetInduction
  <1> QED
    BY <1>3 DEF T

(* FlattenSeq of no sequence, and of some.                                 *)
LEMMA FlattenEmpty == FlattenSeq(<<>>) = <<>>
  BY DEF FlattenSeq

(* FlattenSeq is the last entry.                                           *)
LEMMA FlattenLast ==
  ASSUME NEW ss, Len(ss) \in Nat \ {0}
  PROVE  \E f : Joins(f, ss, Len(ss)) /\ FlattenSeq(ss) = f[Len(ss)]
  <1> DEFINE F == CHOOSE f : f = [i \in 1 .. Len(ss) |->
                                    IF i = 1 THEN ss[i] ELSE f[i - 1] \o ss[i]]
  <1>1. FlattenSeq(ss) = F[Len(ss)]
    BY DEF FlattenSeq
  <1>2. \E f : f = [i \in 1 .. Len(ss) |->
                      IF i = 1 THEN ss[i] ELSE f[i - 1] \o ss[i]]
    BY JoinsExists, Zenon DEF Joins
  <1>3. Joins(F, ss, Len(ss))
    BY <1>2, Zenon DEF Joins
  <1> HIDE DEF F
  <1> QED
    BY <1>1, <1>3

(* The first n sequences are joined to a sequence.                         *)
LEMMA JoinsTyped ==
  ASSUME NEW S, NEW ss \in Seq(Seq(S)), NEW n \in Nat, n <= Len(ss),
         NEW f, Joins(f, ss, n)
  PROVE  \A i \in 1 .. n : f[i] \in Seq(S)
  <1> DEFINE T == {i \in Nat : i \in 1 .. n => f[i] \in Seq(S)}
  <1>1. 0 \in T
    OBVIOUS
  <1>2. ASSUME NEW i \in Nat, i \in T
        PROVE  i + 1 \in T
    <2> SUFFICES ASSUME i + 1 \in 1 .. n PROVE f[i + 1] \in Seq(S)
      OBVIOUS
    <2>1. f[i + 1] = IF i + 1 = 1 THEN ss[i + 1] ELSE f[i] \o ss[i + 1]
      <3>1. f[i + 1] = IF i + 1 = 1 THEN ss[i + 1] ELSE f[(i + 1) - 1] \o ss[i + 1]
        BY JoinsValue
      <3>2. (i + 1) - 1 = i
        OBVIOUS
      <3> QED
        BY <3>1, <3>2
    <2>2. ss[i + 1] \in Seq(S)
      OBVIOUS
    <2>3. i # 0 => f[i] \in Seq(S)
      BY <1>2
    <2> QED
      BY <2>1, <2>2, <2>3
  <1> HIDE DEF T
  <1>3. Nat \subseteq T
    BY <1>1, <1>2, SetInduction
  <1> QED
    BY <1>3 DEF T

(* Sequences over a set flatten to a sequence over it.                     *)
LEMMA FlattenTyped ==
  ASSUME NEW S, NEW ss \in Seq(Seq(S))
  PROVE  FlattenSeq(ss) \in Seq(S)
  <1>1. CASE ss = <<>>
    <2>1. <<>> \in Seq(S)
      OBVIOUS
    <2> QED
      BY <1>1, <2>1, FlattenEmpty
  <1>2. CASE ss # <<>>
    <2>1. Len(ss) \in Nat \ {0}
      BY <1>2
    <2>2. PICK f : Joins(f, ss, Len(ss)) /\ FlattenSeq(ss) = f[Len(ss)]
      BY <2>1, FlattenLast
    <2> QED
      BY <2>1, <2>2, JoinsTyped
  <1> QED
    BY <1>1, <1>2

\* Two functions agree on the numbers up to n.
Agree(f, g, n) == \A i \in 1 .. n : g[i] = f[i]

(* What was joined stays when a sequence is added behind.                  *)
LEMMA JoinsAgree ==
  ASSUME NEW ss, NEW tt, NEW n \in Nat, NEW m \in Nat, NEW f, NEW g,
         Joins(f, ss, n), Joins(g, tt, m), n <= m, Agree(ss, tt, n)
  PROVE  Agree(f, g, n)
  <1> DEFINE T == {i \in Nat : i \in 1 .. n => g[i] = f[i]}
  <1>1. 0 \in T
    OBVIOUS
  <1>2. ASSUME NEW i \in Nat, i \in T
        PROVE  i + 1 \in T
    <2> SUFFICES ASSUME i + 1 \in 1 .. n PROVE g[i + 1] = f[i + 1]
      OBVIOUS
    <2>1. /\ f[i + 1] = IF i + 1 = 1 THEN ss[i + 1] ELSE f[(i + 1) - 1] \o ss[i + 1]
          /\ g[i + 1] = IF i + 1 = 1 THEN tt[i + 1] ELSE g[(i + 1) - 1] \o tt[i + 1]
      BY JoinsValue
    <2>2. (i + 1) - 1 = i /\ tt[i + 1] = ss[i + 1]
      BY DEF Agree
    <2>3. i # 0 => g[i] = f[i]
      BY <1>2
    <2>4. i = 0 => i + 1 = 1
      OBVIOUS
    <2>5. CASE i = 0
      BY <2>1, <2>2, <2>4, <2>5
    <2>6. CASE i # 0
      BY <2>1, <2>2, <2>3, <2>6
    <2> QED
      BY <2>5, <2>6
  <1> HIDE DEF T
  <1>3. Nat \subseteq T
    BY <1>1, <1>2, SetInduction
  <1> QED
    BY <1>3 DEF T, Agree

(* One sequence more is one sequence joined at the end.                    *)
LEMMA FlattenAppend ==
  ASSUME NEW S, NEW ss \in Seq(Seq(S)), NEW s \in Seq(S)
  PROVE  FlattenSeq(Append(ss, s)) = FlattenSeq(ss) \o s
  <1> DEFINE tt == Append(ss, s)
             n  == Len(ss)
  <1>1. /\ n \in Nat /\ Len(tt) = n + 1 /\ tt[n + 1] = s
        /\ \A i \in 1 .. n : tt[i] = ss[i]
    OBVIOUS
  <1> HIDE DEF tt, n
  <1>2. PICK g : Joins(g, tt, n + 1) /\ FlattenSeq(tt) = g[n + 1]
    <2>1. Len(tt) \in Nat \ {0}
      BY <1>1
    <2> QED
      BY <1>1, <2>1, FlattenLast
  <1>3. g[n + 1] = IF n + 1 = 1 THEN tt[n + 1] ELSE g[(n + 1) - 1] \o tt[n + 1]
    BY <1>1, <1>2, JoinsValue
  <1>4. CASE n = 0
    <2>1. ss = <<>>
      BY <1>4 DEF n
    <2>2. <<>> \o s = s
      OBVIOUS
    <2> QED
      BY <1>1, <1>2, <1>3, <1>4, <2>1, <2>2, FlattenEmpty DEF tt
  <1>5. CASE n # 0
    <2>1. PICK f : Joins(f, ss, n) /\ FlattenSeq(ss) = f[n]
      BY <1>1, <1>5, FlattenLast DEF n
    <2>2. g[n] = f[n]
      <3>1. n + 1 \in Nat /\ n <= n + 1 /\ n \in 1 .. n
        BY <1>1, <1>5
      <3> DEFINE m == n + 1
      <3>2. Joins(f, ss, n) /\ Joins(g, tt, m) /\ n \in Nat /\ m \in Nat /\ n <= m
        BY <1>1, <1>2, <2>1, <3>1
      <3> HIDE DEF m
      <3>3. Agree(ss, tt, n)
        BY <1>1 DEF Agree
      <3>4. Agree(f, g, n)
        BY <3>2, <3>3, JoinsAgree
      <3> QED
        BY <3>1, <3>4 DEF Agree
    <2>3. (n + 1) - 1 = n /\ n + 1 # 1
      BY <1>1, <1>5
    <2> QED
      BY <1>1, <1>2, <1>3, <2>1, <2>2, <2>3 DEF tt
  <1> QED
    BY <1>4, <1>5

(* The numbers from 1 on.                                                  *)
LEMMA UpToNumbers ==
  ASSUME NEW n \in Nat
  PROVE  /\ UpTo(n) \in Seq(Nat) /\ Len(UpTo(n)) = n
         /\ Append(UpTo(n), n + 1) = UpTo(n + 1)
         /\ UpTo(0) = <<>>
  BY DEF UpTo

(* The numbers that join to the numbers up to n begin at 1 themselves.     *)
LEMMA ConcatFacts ==
  ASSUME NEW S, NEW s \in Seq(S), NEW t \in Seq(S), NEW e \in S
  PROVE  /\ s \o Append(t, e) = Append(s \o t, e)
         /\ s \o <<>> = s /\ <<>> \o s = s
         /\ s \o t \in Seq(S)
  OBVIOUS

(* Two sequences over a set are one.                                       *)
LEMMA ConcatTyped ==
  ASSUME NEW S, NEW s \in Seq(S), NEW t \in Seq(S)
  PROVE  s \o t \in Seq(S)
  OBVIOUS

(* A sequence is one over the set of its elements.                         *)
LEMMA SeqOfOwn ==
  ASSUME NEW n \in Nat, NEW s \in Seq(1 .. n)
  PROVE  s \in Seq(Range(s) \cap 1 .. n)
  <1> DEFINE S == Range(s) \cap 1 .. n
  <1>1. DOMAIN s = 1 .. Len(s) /\ Len(s) \in Nat
    OBVIOUS
  <1>2. s = [i \in 1 .. Len(s) |-> s[i]]
    OBVIOUS
  <1>3. \A i \in 1 .. Len(s) : s[i] \in S
    BY <1>1 DEF Range
  <1> HIDE DEF S
  <1>4. [i \in 1 .. Len(s) |-> s[i]] \in Seq(S)
    BY <1>1, <1>3
  <1> QED
    BY <1>2, <1>4 DEF S

(* Division with a remainder.                                              *)
LEMMA Divided ==
  ASSUME NEW n \in Nat, NEW k \in Nat \ {0}
  PROVE  /\ n \div k \in Nat /\ n % k \in 0 .. k - 1
         /\ n = k * (n \div k) + (n % k)
  OBVIOUS

(* The only number that divides so.                                        *)
LEMMA Quotient ==
  ASSUME NEW n \in Nat, NEW k \in Nat \ {0}, NEW q \in Nat,
         k * q <= n, n < k * q + k
  PROVE  n \div k = q
  <1> DEFINE d == n \div k
  <1>1. d \in Nat /\ k * d <= n /\ n < k * d + k
    BY Divided
  <1> HIDE DEF d
  <1>2. CASE d < q
    <2>1. k * (d + 1) <= k * q
      BY <1>1, <1>2
    <2>2. k * (d + 1) = k * d + k
      BY <1>1
    <2> QED
      BY <1>1, <2>1, <2>2
  <1>3. CASE q < d
    <2>1. k * (q + 1) <= k * d
      BY <1>1, <1>3
    <2>2. k * (q + 1) = k * q + k
      OBVIOUS
    <2> QED
      BY <1>1, <2>1, <2>2
  <1> QED
    BY <1>1, <1>2, <1>3 DEF d

-----------------------------------------------------------------------------
(* The tables of a film.                                                   *)
(* A sequence over a set is one over a larger set.                         *)
LEMMA SeqOfMore ==
  ASSUME NEW S, NEW T, S \subseteq T, NEW s \in Seq(S)
  PROVE  s \in Seq(T)
  OBVIOUS

TableNames == {"stco", "stss", "asz", "aco"}

(* Every table is one of numbers.                                          *)
LEMMA TablesOfNumbers ==
  ASSUME NEW p \in Tables, NEW table \in TableNames
  PROVE  p[table] \in Seq(Nat)
  <1>1. /\ p.stco \in Seq(1 .. FramesPerHour) /\ p.stss \in Seq(1 .. FramesPerHour)
        /\ p.asz \in Seq(1 .. ChunksPerHour) /\ p.aco \in Seq(1 .. ChunksPerHour)
    BY DEF Tables
  <1>2. 1 .. FramesPerHour \subseteq Nat /\ 1 .. ChunksPerHour \subseteq Nat
    BY Sizes
  <1>3. /\ p.stco \in Seq(Nat) /\ p.stss \in Seq(Nat)
        /\ p.asz \in Seq(Nat) /\ p.aco \in Seq(Nat)
    BY <1>1, <1>2, SeqOfMore
  <1> QED
    BY <1>3, Zenon DEF TableNames

(* The tables of the parts, and of one part more.                          *)
LEMMA JoinedEmpty == \A table : Joined(table, <<>>) = <<>>
  <1> SUFFICES ASSUME NEW table PROVE Joined(table, <<>>) = <<>>
    OBVIOUS
  <1>1. [i \in DOMAIN <<>> |-> (<<>>)[i][table]] = <<>>
    OBVIOUS
  <1> QED
    BY <1>1, FlattenEmpty DEF Joined

(* One part more joins its table at the end.                               *)
LEMMA JoinedAppend ==
  ASSUME NEW parts \in Seq(Tables), NEW p \in Tables, NEW table \in TableNames
  PROVE  /\ Joined(table, parts) \in Seq(Nat)
         /\ Joined(table, Append(parts, p)) = Joined(table, parts) \o p[table]
  <1> DEFINE ss == [i \in DOMAIN parts |-> parts[i][table]]
             tt == [i \in DOMAIN Append(parts, p) |-> Append(parts, p)[i][table]]
  <1>1. ss \in Seq(Seq(Nat)) /\ p[table] \in Seq(Nat)
    <2>1. \A i \in DOMAIN parts : parts[i][table] \in Seq(Nat)
      BY TablesOfNumbers
    <2>2. Len(parts) \in Nat /\ DOMAIN parts = 1 .. Len(parts)
      OBVIOUS
    <2> QED
      BY <2>1, <2>2, TablesOfNumbers
  <1>2. tt = Append(ss, p[table])
    <2>1. /\ Len(parts) \in Nat /\ DOMAIN parts = 1 .. Len(parts)
          /\ DOMAIN Append(parts, p) = 1 .. Len(parts) + 1
      OBVIOUS
    <2>2. Len(ss) = Len(parts)
      BY <2>1
    <2>3. \A i \in 1 .. Len(parts) : Append(parts, p)[i] = parts[i]
      OBVIOUS
    <2>4. Append(parts, p)[Len(parts) + 1] = p
      OBVIOUS
    <2>5. /\ DOMAIN Append(ss, p[table]) = 1 .. Len(parts) + 1
          /\ \A i \in 1 .. Len(parts) : Append(ss, p[table])[i] = ss[i]
          /\ Append(ss, p[table])[Len(parts) + 1] = p[table]
      <3> HIDE DEF ss
      <3> QED
        BY <1>1, <2>2
    <2>6. \A i \in 1 .. Len(parts) + 1 : tt[i] = Append(ss, p[table])[i]
      <3> SUFFICES ASSUME NEW i \in 1 .. Len(parts) + 1
                   PROVE  tt[i] = Append(ss, p[table])[i]
        OBVIOUS
      <3>1. CASE i = Len(parts) + 1
        BY <2>1, <2>4, <2>5, <3>1
      <3>2. CASE i # Len(parts) + 1
        <4>1. i \in 1 .. Len(parts)
          BY <2>1, <3>2
        <4> QED
          BY <2>1, <2>3, <2>5, <4>1
      <3> QED
        BY <3>1, <3>2
    <2>7. Append(ss, p[table]) \in Seq(Seq(Nat)) /\ DOMAIN tt = 1 .. Len(parts) + 1
      <3>1. DOMAIN tt = DOMAIN Append(parts, p)
        OBVIOUS
      <3> HIDE DEF tt, ss
      <3> QED
        BY <1>1, <2>1, <3>1
    <2>8. tt = [i \in 1 .. Len(parts) + 1 |-> tt[i]]
      BY <2>1
    <2>9. Append(ss, p[table]) = [i \in 1 .. Len(parts) + 1 |-> Append(ss, p[table])[i]]
      <3> HIDE DEF ss
      <3> QED
        BY <2>5, <2>7
    <2> HIDE DEF ss, tt
    <2> QED
      BY <2>6, <2>8, <2>9, Zenon
  <1> HIDE DEF ss, tt
  <1>3. Joined(table, parts) = FlattenSeq(ss)
    BY DEF Joined, ss
  <1>4. Joined(table, Append(parts, p)) = FlattenSeq(tt)
    BY DEF Joined, tt
  <1> QED
    BY <1>1, <1>2, <1>3, <1>4, FlattenAppend, FlattenTyped

(* Frames that are added to the table of the key frames.                   *)
LEMMA KeyAppended ==
  ASSUME NEW m \in Nat, NEW k \in Seq(1 .. m)
  PROVE  /\ k \in Seq(1 .. m + 1) /\ Append(k, m + 1) \in Seq(1 .. m + 1)
         /\ Range(k) \subseteq 1 .. m
         /\ Range(k) \subseteq Range(Append(k, m + 1))
         /\ m + 1 \in Range(Append(k, m + 1))
  <1>1. 1 .. m \subseteq 1 .. m + 1 /\ m + 1 \in 1 .. m + 1
    OBVIOUS
  <1>2. k \in Seq(1 .. m + 1) /\ Append(k, m + 1) \in Seq(1 .. m + 1)
    BY <1>1
  <1>3. /\ Len(k) \in Nat /\ DOMAIN k = 1 .. Len(k)
        /\ DOMAIN Append(k, m + 1) = 1 .. Len(k) + 1
        /\ Append(k, m + 1)[Len(k) + 1] = m + 1
        /\ \A i \in 1 .. Len(k) : Append(k, m + 1)[i] = k[i] /\ k[i] \in 1 .. m
    OBVIOUS
  <1>4. Len(k) + 1 \in DOMAIN Append(k, m + 1) /\ DOMAIN k \subseteq DOMAIN Append(k, m + 1)
    BY <1>3
  <1> HIDE <1>1
  <1> QED
    BY <1>2, <1>3, <1>4 DEF Range

(* The whole groups of so many chunks, with a chunk more.                  *)
LEMMA GroupsGrow ==
  ASSUME NEW n \in Nat
  PROVE  /\ GroupsOf(n) \in Nat /\ GroupsOf(0) = 0
         /\ GroupSize * GroupsOf(n) <= n
         /\ GroupsOf(n + 1) = IF (n + 1) % GroupSize = 0 THEN GroupsOf(n) + 1
                              ELSE GroupsOf(n)
  <1> DEFINE k == GroupSize
             q == n \div k
             r == (n + 1) % k
             d == (n + 1) \div k
  <1>1. k \in Nat \ {0}
    BY Sizes
  <1>2. q \in Nat /\ k * q <= n /\ n < k * q + k
    BY <1>1, Divided
  <1>3. d \in Nat /\ r \in 0 .. k - 1 /\ n + 1 = k * d + r
    <2>1. n + 1 \in Nat
      OBVIOUS
    <2> QED
      BY <1>1, <2>1, Divided
  <1>4. GroupsOf(n) = q /\ GroupsOf(n + 1) = d
    BY DEF GroupsOf
  <1>5. GroupsOf(0) = 0
    BY <1>1, Quotient DEF GroupsOf
  <1> HIDE DEF k, q, r, d
  <1>6. CASE r = 0
    <2>1. d # 0
      BY <1>1, <1>3, <1>6
    <2>2. k * (d - 1) = k * d - k /\ d - 1 \in Nat
      BY <1>1, <1>3, <2>1
    <2>3. k * (d - 1) <= n /\ n < k * (d - 1) + k
      BY <1>1, <1>3, <1>6, <2>2
    <2>4. q = d - 1
      BY <1>1, <2>2, <2>3, Quotient DEF q
    <2> QED
      BY <1>2, <1>3, <1>4, <1>5, <1>6, <2>4 DEF k, r
  <1>7. CASE r # 0
    <2>1. k * d <= n /\ n < k * d + k
      BY <1>1, <1>3, <1>7
    <2>2. q = d
      BY <1>1, <1>3, <2>1, Quotient DEF q
    <2> QED
      BY <1>2, <1>4, <1>5, <1>7, <2>2 DEF k, r
  <1> QED
    BY <1>6, <1>7

(* Tables of the first frames, of the sizes of the first chunks and of the *)
(* groups that all of them are in, are true.                               *)
LEMMA TrueTables ==
  ASSUME NEW t, NEW frames \in Nat, NEW chunks \in Nat, NEW groups \in Nat,
         t.stco = UpTo(frames),
         t.stss \in Seq(Range(keyFrames) \cap 1 .. frames),
         t.asz = UpTo(chunks), t.aco = UpTo(groups),
         t.chunkCount \in Nat, t.chunkCount <= chunks,
         t.chunkCount <= GroupSize * groups
  PROVE  TablesTrue(t)
  <1>1. /\ DOMAIN t.stco = 1 .. frames
        /\ \A i \in 1 .. frames : t.stco[i] = i
    BY DEF UpTo
  <1>2. /\ DOMAIN t.asz = 1 .. chunks
        /\ \A i \in 1 .. chunks : t.asz[i] = i
    BY DEF UpTo
  <1>3. /\ DOMAIN t.aco = 1 .. groups
        /\ \A i \in 1 .. groups : t.aco[i] = i
    BY DEF UpTo
  <1>4. ASSUME NEW i \in DOMAIN t.stss
        PROVE  t.stss[i] \in DOMAIN t.stco /\ t.stco[t.stss[i]] \in Range(keyFrames)
    <2>1. t.stss[i] \in Range(keyFrames) /\ t.stss[i] \in 1 .. frames
      <3>1. \A s : s \in Seq(Range(keyFrames) \cap 1 .. frames) =>
              \A j \in DOMAIN s : s[j] \in Range(keyFrames) \cap 1 .. frames
        OBVIOUS
      <3> QED
        BY <3>1
    <2> QED
      BY <1>1, <2>1
  <1>5. ASSUME NEW i \in 1 .. t.chunkCount
        PROVE  /\ i \in DOMAIN t.asz
               /\ ((i - 1) \div GroupSize) + 1 \in DOMAIN t.aco
               /\ t.asz[i] = (t.aco[((i - 1) \div GroupSize) + 1] - 1) * GroupSize
                               + ((i - 1) % GroupSize) + 1
    <2> DEFINE k == GroupSize
               q == (i - 1) \div k
               r == (i - 1) % k
    <2>1. k \in Nat \ {0} /\ i \in Nat /\ i - 1 \in Nat /\ i \in 1 .. chunks
      BY Sizes
    <2>2. q \in Nat /\ r \in 0 .. k - 1 /\ i - 1 = k * q + r
      BY <2>1, Divided
    <2>3. k * q < k * groups
      <3>1. i <= k * groups /\ k * groups \in Nat
        BY <2>1
      <3> HIDE DEF k, q, r
      <3>2. k * q \in Nat
        BY <2>1, <2>2
      <3> QED
        BY <2>1, <2>2, <3>1, <3>2
    <2> HIDE DEF k, q, r
    <2>4. q < groups
      <3> SUFFICES ASSUME groups <= q PROVE FALSE
        BY <2>2
      <3>1. k * groups <= k * q
        BY <2>1, <2>2
      <3>2. k * q \in Nat /\ k * groups \in Nat
        BY <2>1, <2>2
      <3> QED
        BY <2>3, <3>1, <3>2
    <2>5. q + 1 \in 1 .. groups /\ (q + 1) - 1 = q
      BY <2>2, <2>4
    <2>6. t.aco[q + 1] = q + 1
      BY <1>3, <2>5
    <2>7. t.asz[i] = i
      BY <1>2, <2>1
    <2>8. i = q * k + r + 1
      BY <2>1, <2>2
    <2>9. t.asz[i] = (t.aco[q + 1] - 1) * k + r + 1
      BY <2>5, <2>6, <2>7, <2>8
    <2> QED
      BY <1>2, <1>3, <2>1, <2>5, <2>9 DEF k, q, r
  <1> QED
    BY <1>1, <1>4, <1>5 DEF TablesTrue

-----------------------------------------------------------------------------
(* The steps and the tables.                                               *)

(* Nothing but whole records is written where no film is recorded.         *)
LEMMA Untouched ==
  ASSUME DataInv, UNCHANGED history, "moov" \in DOMAIN mp4File',
         step' \in {"record", "close"} =>
           step \in {"record", "close"} /\ frameCount' = frameCount,
         step' = "record" =>
           step = "record" /\ UNCHANGED <<part, chunkCount, tempFile>>,
         mp4File'.film # 0 /\ tempFile'.film = mp4File'.film =>
           mp4File'.film = mp4File.film /\ tempFile' = tempFile,
         Closed' => Closed /\ UNCHANGED <<mp4File, who>>
  PROVE  DataInv'
  <1>1. KeyInv'
    BY DEF DataInv, KeyInv, history
  <1>2. RecordInv'
    BY DEF DataInv, RecordInv, Saved, history
  <1>3. SavedInv'
    BY DEF DataInv, SavedInv, Saved, history
  <1>4. FilmsTrue'
    BY DEF DataInv, FilmsTrue, TablesTrue, history
  <1>5. SavedFramesRestored'
    BY DEF DataInv, SavedFramesRestored, history
  <1> QED
    BY <1>1, <1>2, <1>3, <1>4, <1>5 DEF DataInv

(* Of a film with a failed write nothing is claimed.                       *)
LEMMA Spoilt ==
  ASSUME DataInv, erred', "moov" \in DOMAIN mp4File',
         step' \in {"record", "close"} =>
           /\ step \in {"record", "close"}
           /\ UNCHANGED <<frameCount, keyFrames>>
  PROVE  DataInv'
  BY DEF DataInv, KeyInv, RecordInv, SavedInv, FilmsTrue, SavedFramesRestored

(* mp4File has a moov atom, be it none.                                    *)
LEMMA MoovStep ==
  ASSUME "moov" \in DOMAIN mp4File, [Next]_vars
  PROVE  "moov" \in DOMAIN mp4File'
  <1>1. "moov" \in DOMAIN NoFile
    BY DEF NoFile
  <1>2. CASE UNCHANGED mp4File
    BY <1>2
  <1>3. CASE NewMp4File
    <2>1. mp4File' = mp4File \/ mp4File' = [film |-> films, moov |-> NoMoov]
      BY <1>3 DEF NewMp4File
    <2>2. "moov" \in DOMAIN [film |-> films, moov |-> NoMoov]
      OBVIOUS
    <2> QED
      BY <2>1, <2>2
  <1>4. CASE CloseFile
    BY <1>1, <1>4 DEF CloseFile, WriteMoov, CloseFails, disk
  <1>5. CASE Rename
    BY <1>1, <1>5 DEF Rename
  <1>6. CASE Mount
    BY <1>1, <1>6 DEF Mount, CardFound, WriteMoov, disk
  <1>7. CASE Discard
    BY <1>1, <1>7 DEF Discard
  <1>8. \/ NewMp4File \/ CloseFile \/ Rename \/ Mount \/ Discard
        \/ UNCHANGED mp4File
    BY DEF Next, Opens, Ends, Repairs, StartRecording, NewFileFails,
       NewTempFile, ReadFrame, ReadFrameWrittenShort, SkipFrame, ReadChunk,
       SaveRecords, EndOfFile, RemoveTemp, DropTemp, PowerCut, CardOut,
       LeaveCard, CardIn, RepairFails, disk, vars
  <1> QED
    BY <1>2, <1>3, <1>4, <1>5, <1>6, <1>7, <1>8

(* A new film begins with empty tables and empty records.                  *)
LEMMA NewMp4FileKeepsData ==
  ASSUME IInv, DataInv, NewMp4File
  PROVE  DataInv'
  <1>1. "moov" \in DOMAIN mp4File'
    BY MoovStep DEF DataInv, KeyInv, Next, Opens
  <1>2. CASE WriteFails /\ GoIdle
    BY <1>1, <1>2, Spoilt DEF WriteFails, GoIdle
  <1>3. CASE /\ mp4File' = [film |-> films, moov |-> NoMoov]
             /\ part' = NoPart /\ frameCount' = 0 /\ chunkCount' = 0
             /\ keyFrames' = <<>> /\ savedFrames' = 0 /\ step' = "record"
    <2>1. tempFile' = tempFile /\ tempFile.parts = <<>>
      BY DEF NewMp4File, Recorder, IInv, OwnInv
    <2>2. \A table : Saved(table)' = <<>>
      BY <2>1, JoinedEmpty DEF Saved
    <2>3. UpTo(0) = <<>> /\ <<>> \o <<>> = <<>> /\ \A S : <<>> \in Seq(S)
      BY UpToNumbers
    <2>4. KeyInv'
      BY <1>1, <1>3, <2>3 DEF KeyInv
    <2>5. RecordInv'
      BY <1>3, <2>2, <2>3, GroupsGrow DEF RecordInv, NoPart
    <2>6. SavedInv'
      <3>1. GroupSize * 0 <= 0
        BY Sizes
      <3>2. /\ UpTo(0) = <<>> /\ 0 \in Nat
            /\ <<>> \in Seq(Range(keyFrames') \cap 1 .. savedFrames')
        BY <2>3
      <3> QED
        BY <1>3, <2>2, <3>1, <3>2 DEF SavedInv
    <2> QED
      BY <1>3, <2>4, <2>5, <2>6 DEF DataInv, FilmsTrue, SavedFramesRestored, Closed
  <1> QED
    BY <1>2, <1>3 DEF NewMp4File

(* A frame that is added is one of the table of the key frames or not.     *)
LEMMA FrameKeepsKeys ==
  ASSUME IInv, DataInv, step = "record", NEW key \in BOOLEAN, AddFrame(key)
  PROVE  /\ keyFrames' \in Seq(1 .. frameCount')
         /\ Range(keyFrames) \subseteq Range(keyFrames')
         /\ key => frameCount + 1 \in Range(keyFrames')
  <1>1. frameCount' = frameCount + 1 /\ frameCount \in Nat
    BY Sizes DEF AddFrame, IInv, TypeInv, CountInv
  <1>2. keyFrames \in Seq(1 .. frameCount)
    BY DEF DataInv, KeyInv
  <1>3. keyFrames' = IF key THEN Append(keyFrames, frameCount + 1) ELSE keyFrames
    BY DEF AddFrame
  <1> QED
    BY <1>1, <1>2, <1>3, KeyAppended

(* The entry that a table has room for goes to the end of the whole.       *)
LEMMA PutJoins ==
  ASSUME NEW saved \in Seq(Nat), NEW table \in Seq(Nat),
         NEW entry \in Nat, NEW room \in Nat, Len(table) < room
  PROVE  saved \o Put(table, entry, room) = Append(saved \o table, entry)
  <1>1. Put(table, entry, room) = Append(table, entry)
    BY DEF Put
  <1> QED
    BY <1>1, ConcatFacts

(* An entry that a table has room for, and one that may be dropped.        *)
LEMMA PutEntry ==
  ASSUME NEW S, NEW table \in Seq(S), NEW entry \in S, NEW room \in Nat,
         Len(table) <= room
  PROVE  /\ Len(table) # room => Put(table, entry, room) = Append(table, entry)
         /\ Put(table, entry, room) \in Seq(S)
  BY DEF Put

(* The entry of a frame joins its table in the records.                    *)
LEMMA ReadFrameKeepsData ==
  ASSUME IInv, DataInv, NEW key \in BOOLEAN, ReadFrame(key)
  PROVE  DataInv'
  <1> DEFINE n == frameCount + 1
  <1>1. /\ step = "record" /\ step' = "record" /\ frameCount' = n
        /\ AddFrame(key)
        /\ UNCHANGED <<mp4File, chunkCount, savedFrames, erred>>
    BY DEF ReadFrame, Recorder, AddFrame, bounds
  <1>2. tempFile'.parts = tempFile.parts /\ tempFile'.film = tempFile.film
    <2>1. tempFile \in TempFile
      BY DEF IInv, TypeInv, FileInv
    <2>2. tempFile' = tempFile \/ tempFile' = [tempFile EXCEPT !.avcc = TRUE]
      BY DEF ReadFrame
    <2> QED
      BY <2>1, <2>2 DEF TempFile
  <1>3. \A table : Saved(table)' = Saved(table)
    BY <1>2 DEF Saved
  <1>4. /\ part \in Tables /\ Len(part.stco) <= FrameRoom /\ Len(part.stss) <= KeyRoom
        /\ frameCount \in Nat /\ n \in Nat
    BY Sizes DEF IInv, TypeInv, PartInv, CountInv
  <1>5. /\ keyFrames' \in Seq(1 .. frameCount')
        /\ Range(keyFrames) \subseteq Range(keyFrames')
        /\ key => n \in Range(keyFrames')
    BY <1>1, FrameKeepsKeys
  <1>6. KeyInv'
    BY <1>1, <1>5 DEF DataInv, KeyInv
  <1>7. /\ part'.stco = Put(part.stco, n, FrameRoom)
        /\ part'.stss = IF key THEN Put(part.stss, n, KeyRoom) ELSE part.stss
        /\ part'.asz = part.asz /\ part'.aco = part.aco
        /\ stalled' = (stalled \/ Len(part.stco) = FrameRoom)
    BY <1>1, <1>4 DEF AddFrame, Tables
  <1>8. RecordInv'
    <2> SUFFICES ASSUME ~erred, ~stalled'
                 PROVE  /\ Saved("stco") \o part'.stco = UpTo(n)
                        /\ part'.stss \in Seq(Range(keyFrames'))
      BY <1>1, <1>3, <1>7 DEF DataInv, RecordInv
    <2>1. /\ ~stalled /\ Len(part.stco) # FrameRoom
          /\ Saved("stco") \o part.stco = UpTo(frameCount)
          /\ part.stss \in Seq(Range(keyFrames))
      BY <1>1, <1>7 DEF DataInv, RecordInv, IInv, TypeInv, StepInv
    <2>2. part.stco \in Seq(Nat) /\ Saved("stco") \in Seq(Nat)
      BY <1>4, TablesOfNumbers, JoinedAppend DEF TableNames, Saved, IInv, TypeInv,
         FileInv, TempFile
    <2>3. /\ Saved("stco") \in Seq(Nat) /\ part.stco \in Seq(Nat)
          /\ n \in Nat /\ FrameRoom \in Nat
          /\ Len(part.stco) < FrameRoom
          /\ Saved("stco") \o part.stco = UpTo(frameCount)
      BY <1>4, <2>1, <2>2, Sizes
    <2>4. Saved("stco") \o part'.stco = Append(UpTo(frameCount), n)
      <3> HIDE DEF n
      <3>1. Saved("stco") \o Put(part.stco, n, FrameRoom)
              = Append(UpTo(frameCount), n)
        <4> DEFINE s == Saved("stco")
                   t == part.stco
        <4>1. /\ s \in Seq(Nat) /\ t \in Seq(Nat) /\ n \in Nat
              /\ FrameRoom \in Nat /\ Len(t) < FrameRoom
          BY <2>3
        <4> HIDE DEF s, t
        <4>2. s \o Put(t, n, FrameRoom) = Append(s \o t, n)
          BY <4>1, PutJoins
        <4> QED
          BY <2>3, <4>2 DEF s, t
      <3> QED
        BY <1>7, <3>1
    <2>5. part.stss \in Seq(Range(keyFrames'))
      BY <1>5, <2>1, SeqOfMore
    <2>6. part'.stss \in Seq(Range(keyFrames'))
      BY <1>4, <1>5, <1>7, <2>5, PutEntry, Sizes
    <2> QED
      BY <1>4, <2>4, <2>6, UpToNumbers
  <1>9. SavedInv'
    <2> SUFFICES ASSUME mp4File.film # 0, tempFile.film = mp4File.film,
                        ~erred, ~stalled
                 PROVE  Saved("stss") \in Seq(Range(keyFrames') \cap 1 .. savedFrames)
      BY <1>1, <1>2, <1>3, <1>7 DEF DataInv, SavedInv, IInv, TypeInv, StepInv
    <2>1. Saved("stss") \in Seq(Range(keyFrames) \cap 1 .. savedFrames)
      BY DEF DataInv, SavedInv
    <2>2. Range(keyFrames) \cap 1 .. savedFrames
            \subseteq Range(keyFrames') \cap 1 .. savedFrames
      BY <1>5
    <2> QED
      BY <2>1, <2>2, SeqOfMore
  <1> QED
    BY <1>1, <1>6, <1>8, <1>9 DEF DataInv, FilmsTrue, SavedFramesRestored, Closed

(* The frame is registered, and the film has met a failed write.           *)
LEMMA ReadFrameWrittenShortKeepsData ==
  ASSUME IInv, DataInv, NEW key \in BOOLEAN, ReadFrameWrittenShort(key)
  PROVE  DataInv'
  <1>1. /\ step = "record" /\ step' = "record" /\ erred' /\ AddFrame(key)
        /\ UNCHANGED mp4File
    BY DEF ReadFrameWrittenShort, Recorder, disk
  <1>2. keyFrames' \in Seq(1 .. frameCount')
    BY <1>1, FrameKeepsKeys
  <1> QED
    BY <1>1, <1>2 DEF DataInv, KeyInv, RecordInv, SavedInv, FilmsTrue,
       SavedFramesRestored

(* The entry of a chunk joins its table, and that of a group with its last *)
(* chunk.                                                                  *)
LEMMA ReadChunkKeepsData ==
  ASSUME IInv, DataInv, ReadChunk
  PROVE  DataInv'
  <1> DEFINE n == chunkCount + 1
             asz == Put(part.asz, n, ChunkRoom)
             aco == IF n % GroupSize = 0 THEN Put(part.aco, GroupsOf(n), GroupRoom)
                    ELSE part.aco
  <1>1. /\ step = "record" /\ step' = "record" /\ chunkCount' = n
        /\ UNCHANGED <<mp4File, tempFile, frameCount, keyFrames, savedFrames, erred>>
        /\ stalled' = \/ stalled
                      \/ Len(part.asz) = ChunkRoom
                      \/ n % GroupSize = 0 /\ Len(part.aco) = GroupRoom
    BY DEF ReadChunk, Recorder, disk
  <1>2. part' = [part EXCEPT !.asz = asz, !.aco = aco]
    BY DEF ReadChunk
  <1>3. /\ part \in Tables /\ Len(part.asz) <= ChunkRoom /\ Len(part.aco) <= GroupRoom
        /\ chunkCount \in Nat /\ n \in Nat
    BY Sizes DEF IInv, TypeInv, PartInv, CountInv
  <1>4. /\ part'.asz = asz /\ part'.aco = aco
        /\ part'.stco = part.stco /\ part'.stss = part.stss
    <2> HIDE DEF asz, aco
    <2> QED
      BY <1>2, <1>3 DEF Tables
  <1>5. \A table : Saved(table)' = Saved(table)
    BY <1>1 DEF Saved
  <1>6. RecordInv'
    <2> SUFFICES ASSUME ~erred, ~stalled'
                 PROVE  /\ Saved("asz") \o asz = UpTo(n)
                        /\ Saved("aco") \o aco = UpTo(GroupsOf(n))
      <3> HIDE DEF asz, aco, n
      <3>1. ASSUME ~stalled' PROVE ~stalled
        BY <1>1, <3>1 DEF IInv, TypeInv, StepInv
      <3> QED
        BY <1>1, <1>4, <1>5, <3>1 DEF DataInv, RecordInv
    <2>1. /\ ~stalled /\ Len(part.asz) # ChunkRoom
          /\ n % GroupSize = 0 => Len(part.aco) # GroupRoom
          /\ Saved("asz") \o part.asz = UpTo(chunkCount)
          /\ Saved("aco") \o part.aco = UpTo(GroupsOf(chunkCount))
      BY <1>1 DEF DataInv, RecordInv, IInv, TypeInv, StepInv
    <2>2. /\ part.asz \in Seq(Nat) /\ Saved("asz") \in Seq(Nat)
          /\ part.aco \in Seq(Nat) /\ Saved("aco") \in Seq(Nat)
      BY <1>3, TablesOfNumbers, JoinedAppend DEF TableNames, Saved, IInv, TypeInv,
         FileInv, TempFile
    <2>3. /\ GroupsOf(chunkCount) \in Nat
          /\ GroupsOf(n) = IF n % GroupSize = 0 THEN GroupsOf(chunkCount) + 1
                           ELSE GroupsOf(chunkCount)
      BY <1>3, GroupsGrow
    <2> HIDE DEF n
    <2>4. Saved("asz") \o asz = Append(UpTo(chunkCount), n)
      <3>1. /\ Saved("asz") \in Seq(Nat) /\ part.asz \in Seq(Nat)
            /\ n \in Nat /\ ChunkRoom \in Nat
            /\ Len(part.asz) < ChunkRoom
            /\ Saved("asz") \o part.asz = UpTo(chunkCount)
        BY <1>3, <2>1, <2>2, Sizes
      <3>2. Saved("asz") \o Put(part.asz, n, ChunkRoom) = Append(UpTo(chunkCount), n)
        <4> DEFINE s == Saved("asz")
                   t == part.asz
        <4>1. /\ s \in Seq(Nat) /\ t \in Seq(Nat) /\ n \in Nat
              /\ ChunkRoom \in Nat /\ Len(t) < ChunkRoom
          BY <3>1
        <4> HIDE DEF s, t
        <4>2. s \o Put(t, n, ChunkRoom) = Append(s \o t, n)
          BY <4>1, PutJoins
        <4> QED
          BY <3>1, <4>2 DEF s, t
      <3> QED
        BY <3>2
    <2>5. Saved("asz") \o asz = UpTo(n)
      BY <1>3, <2>4, UpToNumbers DEF n
    <2>6. Saved("aco") \o aco = UpTo(GroupsOf(n))
      <3>1. CASE n % GroupSize = 0
        <4>1. GroupsOf(n) \in Nat /\ GroupsOf(n) = GroupsOf(chunkCount) + 1
          BY <2>3, <3>1
        <4>2. GroupRoom \in Nat /\ Len(part.aco) <= GroupRoom
          BY <1>3, Sizes
        <4>3. Saved("aco") \o aco = Append(UpTo(GroupsOf(chunkCount)), GroupsOf(n))
          <5>1. /\ Saved("aco") \in Seq(Nat) /\ part.aco \in Seq(Nat)
                /\ GroupsOf(n) \in Nat /\ GroupRoom \in Nat
                /\ Len(part.aco) < GroupRoom
                /\ Saved("aco") \o part.aco = UpTo(GroupsOf(chunkCount))
            BY <2>1, <2>2, <3>1, <4>1, <4>2
          <5>2. Saved("aco") \o Put(part.aco, GroupsOf(n), GroupRoom)
                  = Append(UpTo(GroupsOf(chunkCount)), GroupsOf(n))
            <6> DEFINE s == Saved("aco")
                       t == part.aco
            <6>1. /\ s \in Seq(Nat) /\ t \in Seq(Nat) /\ GroupsOf(n) \in Nat
                  /\ GroupRoom \in Nat /\ Len(t) < GroupRoom
              BY <5>1
            <6> HIDE DEF s, t
            <6>2. s \o Put(t, GroupsOf(n), GroupRoom) = Append(s \o t, GroupsOf(n))
              BY <6>1, PutJoins
            <6> QED
              BY <5>1, <6>2 DEF s, t
          <5> QED
            BY <3>1, <5>2
        <4> QED
          BY <2>3, <4>1, <4>3, UpToNumbers
      <3>2. CASE n % GroupSize # 0
        BY <2>1, <2>3, <3>2
      <3> QED
        BY <3>1, <3>2
    <2> QED
      BY <2>5, <2>6
  <1>7. SavedInv'
    BY <1>1, <1>5 DEF DataInv, SavedInv, IInv, TypeInv, StepInv
  <1>8. KeyInv'
    BY <1>1 DEF DataInv, KeyInv
  <1> QED
    BY <1>1, <1>6, <1>7, <1>8 DEF DataInv, FilmsTrue, SavedFramesRestored, Closed

(* The tables of the part join those in the file.                          *)
LEMMA SaveRecordsKeepsData ==
  ASSUME IInv, DataInv, SaveRecords
  PROVE  DataInv'
  <1>1. /\ step = "record" /\ step' = "record"
        /\ UNCHANGED <<mp4File, frameCount, chunkCount, keyFrames>>
    BY DEF SaveRecords, Recorder, WriteFails
  <1>2. "moov" \in DOMAIN mp4File'
    BY <1>1 DEF DataInv, KeyInv
  <1>3. CASE WriteFails
    BY <1>1, <1>2, <1>3, Spoilt DEF WriteFails
  <1>4. CASE /\ tempFile' = [tempFile EXCEPT !.parts = Append(tempFile.parts, part)]
             /\ part' = NoPart
             /\ savedFrames' = frameCount
             /\ stalled' = (stalled \/ HasEmptyTable(part))
             /\ erred' = erred
    <2>1. /\ part \in Tables /\ tempFile \in TempFile
          /\ tempFile.parts \in Seq(Tables) /\ frameCount \in Nat /\ chunkCount \in Nat
      <3>1. part \in Tables
        BY DEF IInv, TypeInv, PartInv
      <3>2. tempFile \in TempFile
        BY DEF IInv, TypeInv, FileInv
      <3>3. tempFile.parts \in Seq(Tables)
        BY <3>2 DEF TempFile
      <3>4. frameCount \in Nat /\ chunkCount \in Nat
        BY Sizes DEF IInv, TypeInv, CountInv
      <3> QED
        BY <3>1, <3>2, <3>3, <3>4
    <2>2. /\ tempFile'.parts = Append(tempFile.parts, part)
          /\ tempFile'.film = tempFile.film
      BY <1>4, <2>1, TempChanged
    <2>3. \A table \in TableNames :
            /\ Saved(table)' = Saved(table) \o part[table]
            /\ Saved(table) \in Seq(Nat)
      BY <2>1, <2>2, JoinedAppend DEF Saved
    <2> SUFFICES ASSUME ~erred, ~stalled' PROVE DataInv'
      <3>1. KeyInv'
        BY <1>1, <1>2 DEF DataInv, KeyInv
      <3>2. CASE erred' \/ stalled'
        BY <3>1, <3>2 DEF DataInv, RecordInv, SavedInv, FilmsTrue, SavedFramesRestored
      <3> QED
        BY <1>4, <3>2
    <2>4. /\ ~stalled
          /\ Saved("stco") \o part.stco = UpTo(frameCount)
          /\ Saved("asz") \o part.asz = UpTo(chunkCount)
          /\ Saved("aco") \o part.aco = UpTo(GroupsOf(chunkCount))
          /\ part.stss \in Seq(Range(keyFrames))
      BY <1>1, <1>4 DEF DataInv, RecordInv, IInv, TypeInv, StepInv
    <2>5. /\ Saved("stco")' = UpTo(frameCount)
          /\ Saved("asz")' = UpTo(chunkCount)
          /\ Saved("aco")' = UpTo(GroupsOf(chunkCount))
      BY <2>3, <2>4 DEF TableNames
    <2>6. /\ GroupsOf(chunkCount) \in Nat /\ GroupSize * GroupsOf(chunkCount) <= chunkCount
      BY <2>1, GroupsGrow
    <2>7. RecordInv'
      <3>1. /\ NoPart.stco = <<>> /\ NoPart.stss = <<>> /\ NoPart.asz = <<>>
            /\ NoPart.aco = <<>> /\ \A S : <<>> \in Seq(S)
        BY DEF NoPart
      <3>2. /\ UpTo(frameCount) \o <<>> = UpTo(frameCount)
            /\ UpTo(chunkCount) \o <<>> = UpTo(chunkCount)
            /\ UpTo(GroupsOf(chunkCount)) \o <<>> = UpTo(GroupsOf(chunkCount))
        BY <2>1, <2>6, UpToNumbers, ConcatFacts
      <3> QED
        BY <1>1, <1>4, <2>5, <3>1, <3>2 DEF RecordInv
    <2>8. Saved("stss")' \in Seq(Range(keyFrames) \cap 1 .. frameCount)
      <3>1. mp4File.film # 0 /\ tempFile.film = mp4File.film
        BY <1>1 DEF IInv, TypeInv, FileInv, OwnInv
      <3>2. Saved("stss") \in Seq(Range(keyFrames) \cap 1 .. savedFrames)
        BY <1>4, <2>4, <3>1 DEF DataInv, SavedInv
      <3>3. Range(keyFrames) \subseteq 1 .. frameCount
        BY <1>1, <2>1, KeyAppended DEF DataInv, KeyInv
      <3>4. /\ Saved("stss") \in Seq(Range(keyFrames) \cap 1 .. frameCount)
            /\ part.stss \in Seq(Range(keyFrames) \cap 1 .. frameCount)
        <4>1. /\ Range(keyFrames) \cap 1 .. savedFrames
                   \subseteq Range(keyFrames) \cap 1 .. frameCount
              /\ Range(keyFrames) \subseteq Range(keyFrames) \cap 1 .. frameCount
          BY <3>3
        <4> QED
          BY <2>4, <3>2, <4>1, SeqOfMore
      <3>5. Saved("stss")' = Saved("stss") \o part.stss
        BY <2>3 DEF TableNames
      <3> QED
        BY <3>4, <3>5, ConcatTyped
    <2>9. SavedInv'
      <3>1. \E chunks, groups \in Nat :
              /\ Saved("asz")' = UpTo(chunks)
              /\ Saved("aco")' = UpTo(groups)
              /\ GroupSize * groups <= chunks
        BY <2>1, <2>5, <2>6
      <3> QED
        BY <1>1, <1>4, <2>5, <2>8, <3>1 DEF SavedInv
    <2>10. KeyInv'
      BY <1>1, <1>2 DEF DataInv, KeyInv
    <2> QED
      BY <1>1, <2>7, <2>9, <2>10 DEF DataInv, FilmsTrue, SavedFramesRestored, Closed
  <1> QED
    BY <1>3, <1>4 DEF SaveRecords

(* The recorder writes the tables in memory.                               *)
LEMMA CloseFileKeepsData ==
  ASSUME IInv, DataInv, CloseFile
  PROVE  DataInv'
  <1>1. step = "close" /\ who = "packer"
    BY DEF CloseFile, Recorder
  <1>2. "moov" \in DOMAIN mp4File'
    BY MoovStep DEF DataInv, KeyInv, Next, Ends
  <1>3. CASE WriteMoov(TablesInMemory) /\ GoTo("remove temp") /\ UNCHANGED history
    <2>1. /\ mp4File'.film = mp4File.film /\ tempFile' = tempFile
          /\ mp4File'.moov = TablesInMemory
          /\ step' = "remove temp" /\ who' = "packer"
      BY <1>1, <1>3 DEF WriteMoov, GoTo, DataInv, KeyInv, IInv, TypeInv, FileInv
    <2>2. TablesTrue(TablesInMemory)
      <3>1. frameCount \in Nat /\ chunkCount \in Nat /\ GroupSize \in Nat \ {0}
        BY Sizes DEF IInv, TypeInv, CountInv
      <3> DEFINE groups == (chunkCount + GroupSize - 1) \div GroupSize
      <3>2. groups \in Nat /\ chunkCount <= GroupSize * groups
        <4> DEFINE m == chunkCount + GroupSize - 1
                   r == m % GroupSize
        <4>1. m \in Nat /\ m + 1 = chunkCount + GroupSize
          BY <3>1
        <4>2. /\ groups \in Nat /\ r \in 0 .. GroupSize - 1
              /\ m = GroupSize * groups + r
          BY <3>1, <4>1, Divided
        <4> HIDE DEF groups, m, r
        <4> QED
          BY <3>1, <4>1, <4>2
      <3>3. keyFrames \in Seq(Range(keyFrames) \cap 1 .. frameCount)
        <4>1. keyFrames \in Seq(1 .. frameCount)
          BY <1>1 DEF DataInv, KeyInv
        <4> QED
          BY <3>1, <4>1, SeqOfOwn
      <3> HIDE DEF groups
      <3>4. /\ TablesInMemory.stco = UpTo(frameCount)
            /\ TablesInMemory.stss = keyFrames
            /\ TablesInMemory.asz = UpTo(chunkCount)
            /\ TablesInMemory.aco = UpTo(groups)
            /\ TablesInMemory.chunkCount = chunkCount
        BY DEF TablesInMemory, groups
      <3>5. chunkCount <= chunkCount
        BY <3>1
      <3> QED
        BY <3>1, <3>2, <3>3, <3>4, <3>5, TrueTables
    <2>3. FilmsTrue'
      <3>1. TablesTrue(mp4File.moov)' = TablesTrue(TablesInMemory)
        BY <1>3, <2>1 DEF TablesTrue, history
      <3> QED
        BY <2>2, <3>1 DEF FilmsTrue
    <2>4. SavedInv'
      BY <1>3, <2>1 DEF DataInv, SavedInv, Saved, history
    <2> QED
      BY <1>2, <2>1, <2>3, <2>4 DEF DataInv, KeyInv, RecordInv, SavedFramesRestored
  <1>4. CASE CloseFails
    <2>1. erred' /\ step' \notin {"record", "close"}
      BY <1>4 DEF CloseFails, WriteFails, GoIdle
    <2> QED
      BY <1>2, <2>1, Spoilt
  <1>5. CASE mp4File' = NoFile /\ GoTo("drop temp") /\ UNCHANGED history
    BY <1>2, <1>5, NoFileTyped, Untouched DEF GoTo, Closed
  <1> QED
    BY <1>3, <1>4, <1>5 DEF CloseFile

(* The repair writes the tables of the records.                            *)
LEMMA MountKeepsData ==
  ASSUME IInv, DataInv, Mount
  PROVE  DataInv'
  <1>1. step = "idle" /\ UNCHANGED <<frameCount, history>> /\ tempFile' = tempFile
    BY DEF Mount, CardFound, memory, disk, WriteMoov
  <1>2. "moov" \in DOMAIN mp4File'
    BY MoovStep DEF DataInv, KeyInv, Next, Repairs
  <1>3. CASE /\ mp4File # NoFile /\ ~Refuses(tempFile)
             /\ WriteMoov(TablesInRecords(tempFile))
             /\ who' = "main" /\ step' = "remove temp"
    <2> DEFINE t == TablesInRecords(tempFile)
    <2>1. mp4File'.film = mp4File.film /\ mp4File'.moov = t
      BY <1>3 DEF WriteMoov, DataInv, KeyInv, IInv, TypeInv, FileInv
    <2>2. SavedInv'
      BY <1>1, <2>1 DEF DataInv, SavedInv, Saved, history
    <2>3. mp4File.film # 0 /\ tempFile.film = mp4File.film
      BY <1>3 DEF IInv, TypeInv, FileInv, OwnInv, Refuses
    <2>4. ASSUME ~erred, ~stalled
          PROVE  /\ TablesTrue(t)
                 /\ Len(t.stco) = savedFrames
      <3>1. /\ Saved("stco") = UpTo(savedFrames)
            /\ Saved("stss") \in Seq(Range(keyFrames) \cap 1 .. savedFrames)
            /\ \E chunks, groups \in Nat :
                 /\ Saved("asz") = UpTo(chunks)
                 /\ Saved("aco") = UpTo(groups)
                 /\ GroupSize * groups <= chunks
        BY <2>3, <2>4 DEF DataInv, SavedInv
      <3>2. PICK chunks \in Nat, groups \in Nat :
              /\ Saved("asz") = UpTo(chunks)
              /\ Saved("aco") = UpTo(groups)
              /\ GroupSize * groups <= chunks
        BY <3>1
      <3>3. /\ t.stco = UpTo(savedFrames) /\ t.stss = Saved("stss")
            /\ t.asz = UpTo(chunks) /\ t.aco = UpTo(groups)
            /\ t.chunkCount = Len(UpTo(groups)) * GroupSize
        BY <3>1, <3>2 DEF TablesInRecords, JoinedTables, Saved
      <3> HIDE DEF t
      <3>4. savedFrames \in Nat /\ GroupSize \in Nat
        BY Sizes DEF IInv, TypeInv, CountInv
      <3>5. /\ t.chunkCount = GroupSize * groups /\ t.chunkCount \in Nat
            /\ t.chunkCount <= chunks /\ t.chunkCount <= GroupSize * groups
        <4>1. Len(UpTo(groups)) = groups
          BY UpToNumbers
        <4>2. groups * GroupSize = GroupSize * groups /\ GroupSize * groups \in Nat
          BY <3>4
        <4> QED
          BY <3>2, <3>3, <4>1, <4>2
      <3> QED
        BY <3>1, <3>3, <3>4, <3>5, TrueTables, UpToNumbers
    <2>5. FilmsTrue'
      <3>1. TablesTrue(mp4File.moov)' <=> TablesTrue(t)
        BY <1>1, <2>1 DEF TablesTrue, history
      <3> HIDE DEF t
      <3> QED
        BY <1>1, <2>4, <3>1 DEF FilmsTrue, history
    <2>6. SavedFramesRestored'
      <3> HIDE DEF t
      <3> QED
        BY <1>1, <2>1, <2>4 DEF SavedFramesRestored, history
    <2> QED
      BY <1>2, <1>3, <2>2, <2>5, <2>6 DEF DataInv, KeyInv, RecordInv
  <1>4. CASE UNCHANGED disk /\ step' \in {"idle", "discard"}
    BY <1>1, <1>2, <1>4, Untouched DEF disk, Closed
  <1> QED
    BY <1>1, <1>3, <1>4 DEF Mount, CardFound

(* A step keeps the tables.                                                *)
LEMMA DataStep == IInv /\ DataInv /\ [Next]_vars => DataInv'
  <1> SUFFICES ASSUME IInv, DataInv, [Next]_vars PROVE DataInv'
    OBVIOUS
  <1>0. "moov" \in DOMAIN mp4File'
    BY MoovStep DEF DataInv, KeyInv
  <1>1. CASE StartRecording \/ NewFileFails
    BY <1>0, <1>1, Untouched DEF StartRecording, NewFileFails, GoIdle, disk, memory,
       Closed
  <1>2. CASE NewTempFile
    <2>1. step = "new temp" /\ step' = "new mp4" /\ UNCHANGED <<mp4File, history>>
      BY <1>2 DEF NewTempFile, Recorder, GoTo
    <2>2. mp4File.film = 0 \/ erred
      BY <2>1 DEF IInv, StayInv
    <2> QED
      BY <1>0, <2>1, <2>2, Untouched, Spoilt DEF Closed, history
  <1>3. CASE SkipFrame \/ \E cut \in BOOLEAN : EndOfFile(cut)
    BY <1>0, <1>3, Untouched DEF SkipFrame, EndOfFile, Recorder, disk, memory, Closed
  <1>4. CASE RemoveTemp
    <2>1. /\ step = "remove temp" /\ step' = "rename" /\ who' = who
          /\ UNCHANGED <<mp4File, history>> /\ tempFile' = NoTemp
      BY <1>4 DEF RemoveTemp, GoTo
    <2> QED
      BY <1>0, <2>1, NoTempTyped, Untouched DEF Closed
  <1>5. CASE Rename
    BY <1>0, <1>5, NoFileTyped, Untouched DEF Rename, GoTo, GoIdle, Closed
  <1>6. CASE Discard
    BY <1>0, <1>6, NoFileTyped, Untouched DEF Discard, GoTo, Closed
  <1>7. CASE DropTemp
    <2>1. mp4File' = mp4File /\ mp4File.film = 0 /\ UNCHANGED history
      BY <1>7 DEF DropTemp, IInv, StayInv
    <2>2. step' \in {"new temp", "idle"}
      BY <1>7 DEF DropTemp, GoTo, GoIdle
    <2> QED
      BY <1>0, <2>1, <2>2, Untouched DEF Closed
  <1>8. CASE PowerCut \/ LeaveCard
    BY <1>0, <1>8, Untouched DEF PowerCut, LeaveCard, GoIdle, disk, Closed
  <1>10. CASE RepairFails
    <2>1. erred' /\ step' \in {"idle", "discard"}
      BY <1>10 DEF RepairFails, WriteFails, GoIdle
    <2> QED
      BY <1>0, <2>1, Spoilt
  <1>9. CASE CardOut \/ CardIn \/ UNCHANGED vars
    BY <1>0, <1>9, Untouched DEF CardOut, CardIn, vars, disk, memory, history, Closed
  <1> QED
    BY <1>1, <1>2, <1>3, <1>4, <1>5, <1>6, <1>7, <1>8, <1>9, <1>10, NewMp4FileKeepsData,
       ReadFrameKeepsData, ReadFrameWrittenShortKeepsData, ReadChunkKeepsData,
       SaveRecordsKeepsData, CloseFileKeepsData, MountKeepsData
       DEF Next, Opens, Ends, Repairs

-----------------------------------------------------------------------------
(* Every reachable state satisfies the invariant.                          *)
THEOREM Inductive == Spec => []IInv
  <1>1. Init => IInv
    <2> SUFFICES ASSUME Init PROVE IInv
      OBVIOUS
    <2>1. StepInv /\ OwnInv
      BY NoFileTyped DEF Init, StepInv, OwnInv
    <2>2. CountInv
      BY Zeros DEF Init, CountInv
    <2>3. PartInv
      BY NoPartTyped DEF Init, PartInv
    <2>4. FileInv
      BY NoFileTyped, NoTempTyped, Zeros DEF Init, FileInv
    <2>5. StayInv
      BY NoFileTyped DEF Init, StayInv
    <2> QED
      BY <2>1, <2>2, <2>3, <2>4, <2>5 DEF IInv, TypeInv
  <1>2. IInv /\ [Next]_vars => IInv'
    BY StepStep, CountStep, PartStep, FileStep, OwnStep, StayStep
       DEF IInv, TypeInv
  <1> QED
    BY <1>1, <1>2, PTL DEF Spec

(* The records never outgrow the memory that AllocRecoveryTables took for  *)
(* them, whatever frames and chunks come (mp4ff.c:1001-1101).              *)
THEOREM TypeCorrect == Spec => []TypeOK
  <1>1. IInv => TypeOK
    <2> SUFFICES ASSUME IInv PROVE TypeOK
      OBVIOUS
    <2>1. mp4File = NoFile \/ mp4File.film \in Film
      BY SomeFilm DEF IInv, TypeInv, FileInv
    <2>2. \/ tempFile = NoTemp
          \/ tempFile.film \in Film /\ tempFile.rate \in Rate
      <3>1. /\ tempFile.film \in 0 .. MaxFilms
            /\ tempFile.film = 0 => tempFile = NoTemp
            /\ tempFile.film # 0 => tempFile.rate \in Rate
        BY DEF IInv, TypeInv, FileInv, TempFile
      <3> QED
        BY <3>1, SomeFilm
    <2>3. step \in {"record", "close", "remove temp", "rename", "discard"}
            => mp4File # NoFile
      BY NoFileTyped DEF IInv, TypeInv, FileInv
    <2> QED
      BY <2>1, <2>2, <2>3 DEF IInv, TypeInv, StepInv, CountInv, PartInv, TypeOK
  <1> QED
    BY Inductive, <1>1, PTL

(* Records the repair accepts are those of the film beside them, after any *)
(* number of power cuts and removals at any step (mp4ff.c:1117, 1218).     *)
THEOREM AlwaysOwnRecords == Spec => []RecordsOfThisFilm
  <1>1. IInv => RecordsOfThisFilm
    BY DEF IInv, TypeInv, FileInv, OwnInv, RecordsOfThisFilm, Refuses
  <1> QED
    BY Inductive, <1>1, PTL

(* A film with saved records is not taken away before it is finished; but  *)
(* for the exceptions of the property (mp4ff.c:2064-2070).                 *)
THEOREM SavedFilmsAlwaysStay == Spec => SavedFilmsStay
  <1> DEFINE Stays ==
        /\ mp4File # NoFile /\ mp4File'.film # mp4File.film
        /\ savedFrames > 0 /\ ~erred /\ ~stalled /\ ~NotForRepair
        => tempFile = NoTemp \/ mp4File.film \in finished'
  <1>1. IInv /\ [Next]_vars => [Stays]_vars
    <2> SUFFICES ASSUME IInv, Next, mp4File # NoFile,
                        mp4File'.film # mp4File.film,
                        savedFrames > 0, ~erred, ~stalled, ~NotForRepair,
                        tempFile # NoTemp
                 PROVE  mp4File.film \in finished'
      OBVIOUS
    <2>0. /\ mp4File.film # 0 /\ "film" \in DOMAIN mp4File
          /\ SavedWell /\ mp4File' # mp4File
      BY DEF IInv, TypeInv, FileInv, StayInv
    <2>1. CASE NewMp4File
      BY <2>0, <2>1 DEF NewMp4File, Recorder, IInv, StayInv
    <2>2. CASE CloseFile
      <3>1. ~(frameCount + chunkCount = 0)
        <4>1. savedFrames <= frameCount
          BY <2>2 DEF CloseFile, Recorder, IInv, StayInv
        <4>2. savedFrames \in Nat /\ frameCount \in Nat /\ chunkCount \in Nat
          BY Sizes DEF IInv, TypeInv, CountInv
        <4> QED
          BY <4>1, <4>2
      <3>2. CASE WriteMoov(TablesInMemory)
        BY <2>0, <3>2, MoovOnly
      <3>3. CASE CloseFails
        BY <2>0, <3>3 DEF CloseFails, disk
      <3> QED
        BY <2>2, <3>1, <3>2, <3>3 DEF CloseFile
    <2>3. CASE Rename
      BY <2>3 DEF Rename
    <2>4. CASE Mount
      <3>1. CASE WriteMoov(TablesInRecords(tempFile))
        BY <2>0, <3>1, MoovOnly
      <3> QED
        BY <2>0, <2>4, <3>1 DEF Mount, disk
    <2>5. CASE Discard
      <3>1. Refuses(tempFile)
        BY <2>5 DEF Discard, IInv, StayInv
      <3>2. /\ tempFile.avcc /\ tempFile.parts # <<>>
            /\ \A i \in DOMAIN tempFile.parts : ~HasEmptyTable(tempFile.parts[i])
        BY <2>0 DEF SavedWell
      <3>3. OddRate(tempFile) \/ TooShort(tempFile)
        BY <3>1, <3>2 DEF Refuses
      <3>4. tempFile.film = mp4File.film
        BY <2>0, <3>2 DEF IInv, OwnInv
      <3> QED
        BY <3>3, <3>4 DEF NotForRepair
    <2>6. CASE UNCHANGED mp4File
      BY <2>0, <2>6
    <2>7. \/ NewMp4File \/ CloseFile \/ Rename \/ Mount \/ Discard
          \/ UNCHANGED mp4File
      BY DEF Next, Opens, Ends, Repairs, StartRecording, NewFileFails,
         NewTempFile, ReadFrame, ReadFrameWrittenShort, SkipFrame, ReadChunk,
         SaveRecords, EndOfFile, RemoveTemp, DropTemp, PowerCut, CardOut,
         LeaveCard, CardIn, RepairFails, disk
    <2> QED
      BY <2>1, <2>2, <2>3, <2>4, <2>5, <2>6, <2>7
  <1> QED
    BY Inductive, <1>1, PTL DEF Spec, SavedFilmsStay

(* The tables of every film, in memory, in the records and in the file.    *)
THEOREM TablesInductive == Spec => []DataInv
  <1>1. Init => DataInv
    <2> SUFFICES ASSUME Init PROVE DataInv
      OBVIOUS
    <2>1. KeyInv /\ RecordInv /\ SavedInv
      BY NoFileTyped DEF Init, KeyInv, RecordInv, SavedInv, NoFile
    <2> QED
      BY <2>1 DEF Init, DataInv, FilmsTrue, SavedFramesRestored, Closed
  <1> QED
    BY <1>1, Inductive, DataStep, PTL DEF Spec

(* The tables of every film are true, whoever wrote them and whatever cuts *)
(* and removals came before, for any sizes (mp4ff.c:541-792, 1942-1995).   *)
THEOREM FilmsAlwaysTrue == Spec => []FilmsTrue
  BY TablesInductive, PTL DEF DataInv

(* A repaired film has every frame whose record was saved                  *)
(* (mp4ff.c:541-553).                                                      *)
THEOREM SavedFramesAlwaysRestored == Spec => []SavedFramesRestored
  BY TablesInductive, PTL DEF DataInv
=============================================================================
