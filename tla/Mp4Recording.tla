---------------------------- MODULE Mp4Recording ----------------------------
(***************************************************************************)
(* The recording on the SD card: the recorder thread (packer.c) that adds  *)
(* frames and chunks of sound to new_video_file.mp4 and every 5 seconds    *)
(* their records to new_video_file.temp, the end of a film (mp4ff.c), and  *)
(* main, which repairs at mount what a power cut or a removed card left.   *)
(*                                                                         *)
(* A frame, a chunk and a group of chunks are their numbers in the film,   *)
(* so that an entry of a table says whose offset or size it is.  The table *)
(* of offsets of the frames (stco) also stands for the one of their sizes, *)
(* which gets an entry under the same condition.  The card gets writes in  *)
(* the order they are issued.                                              *)
(***************************************************************************)
EXTENDS Integers, Sequences, SequencesExt

CONSTANTS
  FramesPerHour, \* frames_per_hour
  ChunksPerHour, \* AUDIO_CHUNKS_PER_HOUR
  GroupSize,     \* chunks that are written together, 4
  FrameRoom,     \* frames_per_sec * SECS_TO_SAVE - 3
  KeyRoom,       \* KEY_FRAME_INTERVAL * SECS_TO_SAVE - 3
  ChunkRoom,     \* MAX_ACHUNKS_IN_SEC * SECS_TO_SAVE - 3
  GroupRoom,     \* (MAX_ACHUNKS_IN_SEC >> 2) * SECS_TO_SAVE - 3
  SkipLimit,     \* 35
  Rate,          \* values of frames_per_sec; one size of the tables for all
  RepairedRate,  \* those ParseRecoveryData takes: 5, 12, 25, 30
  MinParts,      \* parts that make MIN_RECFILE_SIZE bytes, at each rate
  MaxFilms, MaxParts, \* bounds of the films and of the parts of records
  MaxCuts, MaxErrors  \* bounds of power cuts and removals, of failed writes

ASSUME SizeAssumption ==
  /\ {FramesPerHour, ChunksPerHour, GroupSize} \subseteq Nat \ {0}
  /\ {FrameRoom, KeyRoom, ChunkRoom, GroupRoom} \subseteq Nat \ {0}
ASSUME RateAssumption == Rate \subseteq Nat \ {0} /\ MinParts \in [Rate -> Nat]
ASSUME BoundAssumption ==
  {SkipLimit, MaxFilms, MaxParts, MaxCuts, MaxErrors} \subseteq Nat

VARIABLES
  card,          \* "in" or "out", as check_sd_card_inserted sees it
  is_sd_mounted,
  mp4File,       \* new_video_file.mp4: its film and its moov atom, if any
  tempFile,      \* new_video_file.temp: whose it is, rate, avcC, parts of records
  finished,      \* the films that were renamed
  who, step,     \* who works on the files, and its next step
  cutting,       \* the recorder closes a file of an hour and opens another
  part,          \* the records since the last SaveRecoveryData
  frameCount, chunkCount,
  k_timestamp,   \* the recorder has met a key frame
  skipped_frames,
  keyFrames,     \* v_stss, which the properties need after the end of the film
  \* for the properties: of the last film the frames whose records were saved;
  \* whether a write of it failed, and whether its records outgrew their tables
  \* or had an empty one
  savedFrames, erred, stalled,
  films, cuts, errors

disk    == <<mp4File, tempFile, finished>>
memory  == <<part, frameCount, chunkCount, k_timestamp, skipped_frames>>
history == <<keyFrames, savedFrames, erred, stalled>>
bounds  == <<films, cuts, errors>>
vars == <<card, is_sd_mounted, disk, who, step, cutting, memory, history, bounds>>

NoMoov   == [none |-> TRUE]
NoFile   == [film |-> 0, moov |-> NoMoov]
NoTemp   == [film |-> 0, rate |-> 0, avcc |-> FALSE, parts |-> <<>>]
NoPart   == [stco |-> <<>>, stss |-> <<>>, asz |-> <<>>, aco |-> <<>>]
Film     == 1 .. MaxFilms
UpTo(n)  == [i \in 1 .. n |-> i]

Init ==
  /\ card = "in" /\ is_sd_mounted = FALSE
  /\ mp4File = NoFile /\ tempFile = NoTemp /\ finished = {}
  /\ who = "none" /\ step = "idle" /\ cutting = FALSE
  /\ part = NoPart /\ frameCount = 0 /\ chunkCount = 0
  /\ k_timestamp = FALSE /\ skipped_frames = 0
  /\ keyFrames = <<>> /\ savedFrames = 0 /\ erred = FALSE /\ stalled = FALSE
  /\ films = 0 /\ cuts = 0 /\ errors = 0

\* The end of the recorder thread or of the repair: mp4MoovAtomData and the
\* other variables of the thread are gone.
GoIdle ==
  /\ who' = "none" /\ step' = "idle" /\ cutting' = FALSE
  /\ part' = NoPart /\ frameCount' = 0 /\ chunkCount' = 0
  /\ k_timestamp' = FALSE /\ skipped_frames' = 0

GoTo(s) == step' = s /\ UNCHANGED <<who, cutting>>

Recorder(s) == who = "packer" /\ step = s /\ card = "in"

\* A write fails on a card that stays.
WriteFails ==
  /\ errors < MaxErrors
  /\ errors' = errors + 1
  /\ erred' = TRUE
  /\ UNCHANGED <<keyFrames, savedFrames, stalled, films, cuts>>

-----------------------------------------------------------------------------
(* The tables of a film.                                                   *)

\* Faulty variant: the room of the table is not looked at.
PutAlways(table, entry, room) == Append(table, entry)

\* An entry is kept if the table of the part has room for it.
Put(table, entry, room) == IF Len(table) < room THEN Append(table, entry) ELSE table

\* The number of the group that the n-th chunk completes.
GroupsOf(n) == n \div GroupSize

\* What SaveAndCloseMP4File writes at the end of a recording.
TablesInMemory ==
  [stco |-> UpTo(frameCount),
   stss |-> keyFrames,
   asz  |-> UpTo(chunkCount),
   aco  |-> UpTo((chunkCount + GroupSize - 1) \div GroupSize),
   chunkCount |-> chunkCount]

\* A table as ParseRecoveryData and FillMovieTables put its parts together.
Joined(table, parts) == FlattenSeq([i \in DOMAIN parts |-> parts[i][table]])

JoinedTables(parts) ==
  [stco |-> Joined("stco", parts), stss |-> Joined("stss", parts),
   asz  |-> Joined("asz", parts),  aco  |-> Joined("aco", parts),
   chunkCount |-> Len(Joined("aco", parts)) * GroupSize]

\* Faulty variant: the last part is left out.
TablesInRecordsButLast(temp) == JoinedTables(Front(temp.parts))

TablesInRecords(temp) == JoinedTables(temp.parts)

HasEmptyTable(p) == <<>> \in {p.stco, p.stss, p.asz, p.aco}

\* Half of 30 frames per second is none of the rates that are taken.
OddRate(temp) == temp.rate \notin RepairedRate

\* At 12 frames per second the first part may not be enough.
TooShort(temp) == temp # NoTemp /\ Len(temp.parts) < MinParts[temp.rate]

\* ParseRecoveryData returns FAILURE: a tag is missing or has a value that is
\* not taken, the file is too short, or a table is empty.
Refuses(temp) ==
  \/ ~temp.avcc
  \/ temp.parts = <<>>
  \/ OddRate(temp)
  \/ TooShort(temp)
  \/ \E i \in DOMAIN temp.parts : HasEmptyTable(temp.parts[i])

-----------------------------------------------------------------------------
(* NewMP4File.                                                             *)

\* Faulty variant: a recording begins before the card is mounted and repaired.
StartRecordingAtOnce ==
  /\ card = "in" /\ step = "idle"
  /\ films < MaxFilms
  /\ who' = "packer" /\ step' = "new temp"
  /\ UNCHANGED <<card, is_sd_mounted, disk, cutting, memory, history, bounds>>

\* START_REC, or the next file after a cut of the recording.
StartRecording ==
  /\ card = "in" /\ is_sd_mounted /\ step = "idle"
  /\ films < MaxFilms
  /\ who' = "packer" /\ step' = "new temp"
  /\ UNCHANGED <<card, is_sd_mounted, disk, cutting, memory, history, bounds>>

\* The card has no room, or the file cannot be opened.
NewFileFails ==
  /\ Recorder("new temp")
  /\ GoIdle
  /\ UNCHANGED <<card, is_sd_mounted, disk, history, bounds>>

NewRecords(rate) ==
  [film |-> films + 1, rate |-> rate, avcc |-> FALSE, parts |-> <<>>]

\* Faulty variant: records that are there are kept.
NewTempFileAppends ==
  /\ Recorder("new temp") /\ films < MaxFilms
  /\ films' = films + 1
  /\ IF tempFile = NoTemp
     THEN \E rate \in Rate : tempFile' = NewRecords(rate)
     ELSE UNCHANGED tempFile
  /\ GoTo("new mp4")
  /\ UNCHANGED <<card, is_sd_mounted, mp4File, finished, memory, history, cuts,
                 errors>>

NewTempFile ==
  /\ Recorder("new temp") /\ films < MaxFilms
  /\ films' = films + 1
  /\ \E rate \in Rate : tempFile' = NewRecords(rate)
  /\ GoTo("new mp4")
  /\ UNCHANGED <<card, is_sd_mounted, mp4File, finished, memory, history, cuts,
                 errors>>

\* Faulty variant: the records of the last film that were not saved stay.
NewMp4FileKeepsRecords ==
  /\ Recorder("new mp4")
  /\ \/ /\ mp4File' = [film |-> films, moov |-> NoMoov]
        /\ frameCount' = 0 /\ chunkCount' = 0
        /\ keyFrames' = <<>> /\ savedFrames' = 0
        /\ erred' = FALSE /\ stalled' = FALSE
        /\ step' = "record" /\ cutting' = FALSE
        /\ UNCHANGED <<who, part, k_timestamp, skipped_frames, bounds>>
     \/ WriteFails /\ GoIdle /\ UNCHANGED mp4File
  /\ UNCHANGED <<card, is_sd_mounted, tempFile, finished>>

NewMp4File ==
  /\ Recorder("new mp4")
  /\ \/ /\ mp4File' = [film |-> films, moov |-> NoMoov]
        /\ part' = NoPart /\ frameCount' = 0 /\ chunkCount' = 0
        /\ keyFrames' = <<>> /\ savedFrames' = 0
        /\ erred' = FALSE /\ stalled' = FALSE
        /\ step' = "record" /\ cutting' = FALSE
        /\ UNCHANGED <<who, k_timestamp, skipped_frames, bounds>>
     \/ WriteFails /\ GoIdle /\ UNCHANGED mp4File
  /\ UNCHANGED <<card, is_sd_mounted, tempFile, finished>>

-----------------------------------------------------------------------------
(* The loop of the recorder.                                               *)

\* MovieAddFrame.
AddFrame(key) ==
  LET n == frameCount + 1 IN
  /\ frameCount' = n
  /\ part' = [part EXCEPT
       !.stco = Put(@, n, FrameRoom),
       !.stss = IF key THEN Put(@, n, KeyRoom) ELSE @]
  /\ keyFrames' = IF key THEN Append(keyFrames, n) ELSE keyFrames
  /\ stalled' = (stalled \/ Len(part.stco) = FrameRoom)
  /\ k_timestamp' = (k_timestamp \/ n = 1)

\* A frame of the encoder is read and added; the first of a file is a key
\* frame, of which GetAvcCFromH264 saves the parameters.
ReadFrame(key) ==
  /\ Recorder("record")
  /\ frameCount < FramesPerHour
  /\ key \/ frameCount > 0
  /\ tempFile' = IF frameCount = 0 THEN [tempFile EXCEPT !.avcc = TRUE]
                 ELSE tempFile
  /\ AddFrame(key)
  /\ UNCHANGED <<card, is_sd_mounted, mp4File, finished, who, step, cutting,
                 chunkCount, skipped_frames, savedFrames, erred, bounds>>

\* The loop over the units of the frame ends at a short write, the frame is
\* registered all the same.
ReadFrameWrittenShort(key) ==
  /\ Recorder("record")
  /\ 0 < frameCount /\ frameCount < FramesPerHour
  /\ errors < MaxErrors /\ errors' = errors + 1
  /\ erred' = TRUE
  /\ AddFrame(key)
  /\ UNCHANGED <<card, is_sd_mounted, disk, who, step, cutting, chunkCount,
                 skipped_frames, savedFrames, films, cuts>>

\* A file does not begin with another frame; the count is of the whole thread.
SkipFrame ==
  /\ Recorder("record") /\ frameCount = 0
  /\ \/ /\ skipped_frames <= SkipLimit
        /\ skipped_frames' = skipped_frames + 1
        /\ UNCHANGED step
     \/ /\ skipped_frames > SkipLimit
        /\ step' = "close"
        /\ UNCHANGED skipped_frames
  /\ UNCHANGED <<card, is_sd_mounted, disk, who, cutting, part, frameCount,
                 chunkCount, k_timestamp, history, bounds>>

\* AddAudioChunk and, with the last chunk of a group, MovieAddChunksGroup.
ReadChunk ==
  LET n == chunkCount + 1 IN
  /\ Recorder("record")
  /\ chunkCount < ChunksPerHour /\ k_timestamp
  /\ chunkCount' = n
  /\ part' = [part EXCEPT
       !.asz = Put(@, n, ChunkRoom),
       !.aco = IF n % GroupSize = 0 THEN Put(@, GroupsOf(n), GroupRoom) ELSE @]
  /\ stalled' = \/ stalled
                \/ Len(part.asz) = ChunkRoom
                \/ n % GroupSize = 0 /\ Len(part.aco) = GroupRoom
  /\ UNCHANGED <<card, is_sd_mounted, disk, who, step, cutting, frameCount,
                 k_timestamp, skipped_frames, keyFrames, savedFrames, erred,
                 bounds>>

\* SaveRecoveryData, when 5 seconds have passed since the last time, however
\* many frames came in them.  The records fit in the buffer of the stream: a
\* failed write is one of fclose, whose result is not looked at.
SaveRecords ==
  /\ Recorder("record")
  /\ Len(tempFile.parts) < MaxParts
  /\ \/ /\ tempFile' = [tempFile EXCEPT !.parts = Append(@, part)]
        /\ part' = NoPart
        /\ savedFrames' = frameCount
        /\ stalled' = (stalled \/ HasEmptyTable(part))
        /\ UNCHANGED <<keyFrames, erred, bounds>>
     \/ WriteFails /\ part' = NoPart /\ UNCHANGED tempFile \* lost by fclose
     \/ WriteFails /\ UNCHANGED <<part, tempFile>>         \* not opened
  /\ UNCHANGED <<card, is_sd_mounted, mp4File, finished, who, step, cutting,
                 frameCount, chunkCount, k_timestamp, skipped_frames>>

\* The hour is full, or the thread is told to end or cannot add a frame.
EndOfFile(cut) ==
  /\ Recorder("record")
  /\ cut => frameCount = FramesPerHour /\ chunkCount = ChunksPerHour
  /\ step' = "close" /\ cutting' = cut
  /\ UNCHANGED <<card, is_sd_mounted, disk, who, memory, history, bounds>>

-----------------------------------------------------------------------------
(* The end of a film.                                                      *)

\* SaveAndCloseMP4File up to its fclose, of the recorder with the tables in
\* memory, of the repair with those of the records.
WriteMoov(tables) ==
  /\ mp4File' = [mp4File EXCEPT !.moov = tables]
  /\ UNCHANGED <<tempFile, finished>>

\* After a failure the recorder begins the next file, unless it ends or this
\* was the third in a row.
CloseFails ==
  /\ WriteFails
  /\ \/ cutting /\ step' = "new temp" /\ UNCHANGED <<who, cutting, memory>>
     \/ GoIdle
  /\ UNCHANGED disk

\* is_file_not_empty; otherwise CloseMP4File removes the file.
CloseFile ==
  /\ Recorder("close")
  /\ \/ /\ frameCount + chunkCount > 0
        /\ \/ /\ WriteMoov(TablesInMemory) /\ GoTo("remove temp")
              /\ UNCHANGED <<memory, history, bounds>>
           \/ CloseFails
     \/ /\ frameCount + chunkCount = 0
        /\ mp4File' = NoFile
        /\ GoTo("drop temp")
        /\ UNCHANGED <<tempFile, finished, memory, history, bounds>>
  /\ UNCHANGED <<card, is_sd_mounted>>

RemoveTemp ==
  /\ card = "in" /\ step = "remove temp"
  /\ tempFile' = NoTemp
  /\ GoTo("rename")
  /\ UNCHANGED <<card, is_sd_mounted, mp4File, finished, memory, history, bounds>>

\* rename, sync; the recorder goes on to the next file after a cut.
Rename ==
  /\ card = "in" /\ step = "rename"
  /\ finished' = finished \cup {mp4File.film}
  /\ mp4File' = NoFile
  /\ IF cutting THEN GoTo("new temp") /\ UNCHANGED memory ELSE GoIdle
  /\ UNCHANGED <<card, is_sd_mounted, tempFile, history, bounds>>

-----------------------------------------------------------------------------
(* main: the card.                                                         *)

\* The recorder is started by main only, and main stops and joins one that is
\* at work when the card goes before it looks for the card again.
CardFound == card = "in" /\ ~is_sd_mounted /\ step = "idle"

\* check_sd_card mounts the card; RepairSDCard finds no file, or finishes the
\* one it finds, or main begins to remove it.
Mount ==
  /\ CardFound
  /\ is_sd_mounted' = TRUE
  /\ \/ /\ mp4File = NoFile
        /\ UNCHANGED <<disk, who, step>>
     \/ /\ mp4File # NoFile /\ ~Refuses(tempFile)
        /\ WriteMoov(TablesInRecords(tempFile))
        /\ who' = "main" /\ step' = "remove temp"
     \/ /\ mp4File # NoFile /\ Refuses(tempFile)
        /\ who' = "main" /\ step' = "discard"
        /\ UNCHANGED disk
  /\ UNCHANGED <<card, cutting, memory, history, bounds>>

\* The records cannot be read or the moov atom not be written, and main begins
\* to remove both files; but the file was closed in SaveAndCloseMP4File, so
\* that closing it once more may end the program.
RepairFails ==
  /\ CardFound
  /\ mp4File # NoFile
  /\ WriteFails
  /\ \/ /\ is_sd_mounted' = TRUE /\ who' = "main" /\ step' = "discard"
        /\ UNCHANGED <<cutting, memory>>
     \/ /\ ~Refuses(tempFile)
        /\ UNCHANGED is_sd_mounted /\ GoIdle
  /\ UNCHANGED <<card, disk>>


Discard ==
  /\ card = "in" /\ step = "discard"
  /\ mp4File' = NoFile
  /\ GoTo("drop temp")
  /\ UNCHANGED <<card, is_sd_mounted, tempFile, finished, memory, history, bounds>>

\* After a failed repair the card stays mounted at the start of the program,
\* in the loop of main it is mounted again.
DropTemp ==
  /\ card = "in" /\ step = "drop temp"
  /\ tempFile' = NoTemp
  /\ is_sd_mounted' \in IF who = "main" THEN BOOLEAN ELSE {is_sd_mounted}
  /\ IF cutting THEN GoTo("new temp") /\ UNCHANGED memory ELSE GoIdle
  /\ UNCHANGED <<card, mp4File, finished, history, bounds>>

PowerCut ==
  /\ cuts < MaxCuts
  /\ cuts' = cuts + 1
  /\ is_sd_mounted' = FALSE
  /\ GoIdle
  /\ UNCHANGED <<card, disk, history, films, errors>>

CardOut ==
  /\ card = "in" /\ cuts < MaxCuts
  /\ cuts' = cuts + 1
  /\ card' = "out"
  /\ UNCHANGED <<is_sd_mounted, disk, who, step, cutting, memory, history,
                 films, errors>>

\* main polls the card, the recorder ends at its next check or at a call that
\* fails; whatever it still tries does not reach the card.
LeaveCard ==
  /\ card = "out"
  /\ is_sd_mounted \/ step # "idle"
  /\ is_sd_mounted' = FALSE
  /\ GoIdle
  /\ UNCHANGED <<card, disk, history, bounds>>

\* A hand is slower than the poll.
CardIn ==
  /\ card = "out" /\ ~is_sd_mounted /\ step = "idle"
  /\ card' = "in"
  /\ UNCHANGED <<is_sd_mounted, disk, who, step, cutting, memory, history, bounds>>

-----------------------------------------------------------------------------
Opens   == NewTempFile \/ NewMp4File
Ends    == CloseFile \/ RemoveTemp \/ Rename
Repairs == Mount \/ RepairFails \/ Discard \/ DropTemp

Next ==
  \/ StartRecording \/ NewFileFails \/ Opens
  \/ \E key \in BOOLEAN : ReadFrame(key) \/ ReadFrameWrittenShort(key)
  \/ SkipFrame \/ ReadChunk \/ SaveRecords
  \/ \E cut \in BOOLEAN : EndOfFile(cut)
  \/ Ends \/ Repairs
  \/ PowerCut \/ CardOut \/ LeaveCard \/ CardIn

\* Steps that were begun are ended, and main mounts a card that is there.
Spec == Init /\ [][Next]_vars /\ WF_vars(Opens \/ Ends) /\ WF_vars(Repairs)

-----------------------------------------------------------------------------
Tables == [stco : Seq(1 .. FramesPerHour), stss : Seq(1 .. FramesPerHour),
           asz : Seq(1 .. ChunksPerHour), aco : Seq(1 .. ChunksPerHour)]

\* The parts stay within the memory that AllocRecoveryTables took for them,
\* the files are those of films, and only a file that exists is worked on.
TypeOK ==
  /\ part \in Tables
  /\ Len(part.stco) <= FrameRoom /\ Len(part.stss) <= KeyRoom
  /\ Len(part.asz) <= ChunkRoom /\ Len(part.aco) <= GroupRoom
  /\ frameCount \in 0 .. FramesPerHour /\ chunkCount \in 0 .. ChunksPerHour
  /\ mp4File = NoFile \/ mp4File.film \in Film
  /\ \/ tempFile = NoTemp
     \/ tempFile.film \in Film /\ tempFile.rate \in Rate
  /\ step \in {"record", "close", "remove temp", "rename", "discard"}
       /\ card = "in" => mp4File # NoFile
  /\ who = "none" <=> step = "idle"

\* What a player does with the tables of a film: the i-th frame is the one at
\* the i-th offset, sync samples are frames to begin with, and the i-th chunk
\* of sound is found in its group with the size of the i-th entry.
TablesTrue(t) ==
  LET ChunkAt(i) == (t.aco[((i - 1) \div GroupSize) + 1] - 1) * GroupSize
                      + ((i - 1) % GroupSize) + 1
  IN /\ \A i \in DOMAIN t.stco : t.stco[i] = i
     /\ \A i \in DOMAIN t.stss : /\ t.stss[i] \in DOMAIN t.stco
                                 /\ t.stco[t.stss[i]] \in Range(keyFrames)
     /\ \A i \in 1 .. t.chunkCount :
          /\ i \in DOMAIN t.asz
          /\ ((i - 1) \div GroupSize) + 1 \in DOMAIN t.aco
          /\ t.asz[i] = ChunkAt(i)

\* The film gets its final name with its next steps.
Closed == step \in {"remove temp", "rename"}

\* Every film, whether the recorder ended it or the repair put it together
\* from its records, after cuts of the power and removals of the card at any
\* step, has true tables; but for films that met a failed write and those
\* whose records did not fit between two saves (packer.c:405-415, mp4ff.c:558).
FilmsTrue == Closed /\ ~erred /\ ~stalled => TablesTrue(mp4File.moov)

\* The repair loses no frame whose record was saved: a repaired film has all
\* frames up to the last SaveRecoveryData (mp4ff.c:541-553).
SavedFramesRestored ==
  Closed /\ who = "main" /\ ~erred /\ ~stalled
    => Len(mp4File.moov.stco) = savedFrames

\* Records that the repair would accept are those of the film beside them,
\* whatever step of the recorder or of a repair was cut off: otherwise the
\* offsets of one film would be written into another (mp4ff.c:1117, 1218).
RecordsOfThisFilm ==
  mp4File # NoFile /\ ~Refuses(tempFile) => tempFile.film = mp4File.film

\* The records of the film say a rate the repair does not take, or are not
\* enough for it yet (mp4ff.c:201, 281).
NotForRepair ==
  tempFile.film = mp4File.film /\ (OddRate(tempFile) \/ TooShort(tempFile))

\* A film with saved records goes only when it is finished: neither the next
\* recording nor the repair takes it away.  The exceptions the code has: a
\* failed operation, a part of the records with an empty table, the power cut
\* between the removal of the records and the new name (mp4ff.c:2064-2070),
\* and records that are not for the repair.
SavedFilmsStay ==
  [][/\ mp4File # NoFile /\ mp4File'.film # mp4File.film
     /\ savedFrames > 0 /\ ~erred /\ ~stalled /\ ~NotForRepair
     => tempFile = NoTemp \/ mp4File.film \in finished']_vars

=============================================================================
