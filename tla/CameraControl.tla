---------------------------- MODULE CameraControl ----------------------------
(***************************************************************************)
(* The control of the camera: the main loop (main.c), which turns requests *)
(* to record and to stream into commands that start and stop four groups   *)
(* of threads, and the starts and ends of those threads (vcapture.c,       *)
(* acapture.c, video.c, audio.c, packer.c, stream_buffs.c).                *)
(*                                                                         *)
(* main is one action from the read of gbl.cmd to the point of a handler   *)
(* where it waits for the threads of a group; a thread is modelled by      *)
(* where it is between its rendezvous, what it does with frames is in      *)
(* TransportBuffers.  A thread that comes to its cleanup sets its group's  *)
(* finishing flag, forces the rendezvous of the start and waits for the    *)
(* one of the end in one step, so that a rendezvous is a condition on      *)
(* where its participants are.                                             *)
(***************************************************************************)
EXTENDS Integers, FiniteSets

CONSTANTS
  CapThread,     \* capture threads: vcapture and acapture, or only acapture
  EncThread,     \* encoder threads: video and audio, or only audio
  DigitalCamera, \* video_source_num = 2
  LiveClient,    \* TRUE if clients of the live library come
  MaxChanges,    \* bound of the changes of the inputs
  MaxFaults      \* bound of the failures of threads

ASSUME ThreadAssumption ==
  \/ CapThread = {"vcapture", "acapture"} /\ EncThread = {"video", "audio"}
  \/ CapThread = {"acapture"} /\ EncThread = {"audio"}
ASSUME CameraAssumption ==
  /\ DigitalCamera \in BOOLEAN /\ LiveClient \in BOOLEAN
  /\ MaxChanges \in Nat /\ MaxFaults \in Nat

Group == {"cap", "enc", "rec", "stream"}
Threads(g) == CASE g = "cap" -> CapThread
                [] g = "enc" -> EncThread
                [] g = "rec" -> {"packer"}
                [] g = "stream" -> {"streamBuffs"}
Thread == UNION {Threads(g) : g \in Group}
GroupOf(t) == CHOOSE g \in Group : t \in Threads(g)

Card == {"ready", "unusable", "out"}

QuitFlag == {"REC", "STRM", "RFTX"}

VARIABLES
  \* inputs: the switch or a command to record, the state of the SD card,
  \* USB, the battery, no activity of wifi and radio
  start_rec, card, is_usb_on, charge_low, sleep_condition,
  \* the live library: where its thread is, vbuf_stop and abuf_stop
  live, buf_stop, wis_hw_started,
  \* flags of main and the threads
  is_rec_request, is_stream_request, started, finishing, is_rec_failed,
  quit, cmd,
  \* where main is and the group it starts or stops, where the threads are,
  \* and which threads end with a failure
  main, group, thread, failed,
  changes, faults

inputs   == <<start_rec, card, is_usb_on, charge_low, sleep_condition>>
liveVars == <<live, buf_stop, wis_hw_started>>
requests == <<is_rec_request, is_stream_request>>
bounds   == <<changes, faults>>
vars == <<inputs, liveVars, requests, started, finishing, is_rec_failed, quit,
          cmd, main, group, thread, failed, bounds>>

Media == {"video", "audio"}

\* wis_video_hw_started or wis_audio_hw_started.
wis_started == live # "away"

Starting(g) == main = "start" /\ group = g
Stopping(g) == main = "stop" /\ group = g
Awake == main \notin {"asleep", "off"}

Init ==
  /\ start_rec \in BOOLEAN
  /\ card = "ready" /\ is_usb_on \in BOOLEAN
  /\ charge_low = FALSE /\ sleep_condition = FALSE
  /\ live = "away" /\ buf_stop = [s \in Media |-> FALSE]
  /\ wis_hw_started = FALSE
  /\ is_rec_request = FALSE /\ is_stream_request = FALSE
  /\ started = [g \in Group |-> FALSE]
  /\ finishing = [g \in Group |-> FALSE]
  /\ is_rec_failed = FALSE
  /\ quit = QuitFlag
  /\ cmd = "NO_COMMAND"
  /\ main = "loop" /\ group = "none"
  /\ thread = [t \in Thread |-> "none"]
  /\ failed = {}
  /\ changes = 0 /\ faults = 0

-----------------------------------------------------------------------------
(* The inputs.                                                             *)

Change ==
  /\ Awake
  /\ changes < MaxChanges
  /\ changes' = changes + 1
  /\ UNCHANGED <<requests, started, finishing, is_rec_failed, quit, cmd, main,
                 group, thread, failed, faults>>

RecordSwitched ==
  /\ start_rec' = ~start_rec
  /\ UNCHANGED <<card, is_usb_on, charge_low, sleep_condition, liveVars>>
  /\ Change

\* Mounted with room, full or not mounted, not inserted.
CardChanges ==
  /\ card' \in Card \ {card}
  /\ UNCHANGED <<start_rec, is_usb_on, charge_low, sleep_condition, liveVars>>
  /\ Change

\* poll_port_expander, called by main.
UsbChanges ==
  /\ main = "loop"
  /\ is_usb_on' = ~is_usb_on
  /\ UNCHANGED <<start_rec, card, charge_low, sleep_condition, liveVars>>
  /\ Change

\* check_battery_status and what main makes of it.
BatteryChanges ==
  /\ main = "loop"
  /\ charge_low' = ~charge_low
  /\ UNCHANGED <<start_rec, card, is_usb_on, sleep_condition, liveVars>>
  /\ Change

ActivityChanges ==
  /\ sleep_condition' = ~sleep_condition
  /\ UNCHANGED <<start_rec, card, is_usb_on, charge_low, liveVars>>
  /\ Change

-----------------------------------------------------------------------------
(* The thread of the live library, as far as it touches the control.       *)

LiveStep ==
  /\ Awake
  /\ UNCHANGED <<inputs, requests, started, finishing, is_rec_failed, quit,
                 cmd, main, group, thread, failed, faults>>

\* StartVideoHW, which waits for wis_hw_started, or only StartAudioHW.
LiveConnects ==
  /\ LiveClient
  /\ live = "away" /\ changes < MaxChanges
  /\ live' \in {"starting", "playing"}
  /\ changes' = changes + 1
  /\ UNCHANGED <<buf_stop, wis_hw_started>>
  /\ LiveStep

LiveStarts ==
  /\ live = "starting" /\ wis_hw_started
  /\ live' = "playing"
  /\ UNCHANGED <<buf_stop, wis_hw_started, changes>>
  /\ LiveStep

\* GetMP4_Serial and GetAACSerial, up to their wait for a frame.
LiveAsks(s) ==
  /\ live = "playing"
  /\ live' = s
  /\ buf_stop' = [buf_stop EXCEPT ![s] = FALSE]
  /\ UNCHANGED <<wis_hw_started, changes>>
  /\ LiveStep

Plugged(s) ==
  \/ thread["streamBuffs"] \in {"at finish", "releasing", "spinning"}
  \/ /\ s = "audio"
     /\ thread["streamBuffs"] \in {"releasing audio", "spinning audio"}

\* A frame of the encoder was found, or none came while no stream is wanted.
LiveAnswered ==
  /\ live \in Media
  /\ \/ /\ Plugged(live)
        /\ live \in Thread /\ thread[live] \in {"run", "at finish"}
     \/ ~is_stream_request
  /\ live' = "playing"
  /\ buf_stop' = [buf_stop EXCEPT ![live] = TRUE]
  /\ UNCHANGED <<wis_hw_started, changes>>
  /\ LiveStep

\* StopVideoHW, called by the same thread.
LiveLeaves ==
  /\ live = "playing"
  /\ live' = "away"
  /\ UNCHANGED <<buf_stop, wis_hw_started, changes>>
  /\ LiveStep

-----------------------------------------------------------------------------
(* The threads of the groups.                                              *)

AtEnd(t) == thread[t] \in {"at finish", "ended"}

\* Threads of a rendezvous; for a digital camera a thread is counted that is
\* not started any more.
Number(g) ==
  IF g = "cap" /\ DigitalCamera /\ CapThread # {"acapture"} THEN 4
  ELSE Cardinality(Threads(g)) + 1

\* Faulty variant: the cleanups force no rendezvous.
StartMetByAll(g) ==
  Cardinality({t \in Threads(g) : thread[t] \notin {"init", "at finish"}})
    + (IF Starting(g) THEN 1 ELSE 0) >= Number(g)

\* The rendezvous at the start of g: all are there, or one forces it.
StartMet(g) ==
  \/ \E t \in Threads(g) : AtEnd(t)
  \/ Cardinality({t \in Threads(g) : thread[t] # "init"})
       + (IF Starting(g) THEN 1 ELSE 0) >= Number(g)

\* Faulty variant: a cleanup forces the rendezvous of the end, too.
EndMetByOne(g) == \E t \in Threads(g) : AtEnd(t)

EndMet(g) ==
  Cardinality({t \in Threads(g) : AtEnd(t)})
    + (IF Stopping(g) THEN 1 ELSE 0) >= Number(g)

Goes(t, place) ==
  /\ Awake
  /\ thread' = [thread EXCEPT ![t] = place]
  /\ UNCHANGED <<inputs, liveVars, requests, started, cmd, main, group,
                 changes>>

Unharmed == UNCHANGED <<is_rec_failed, quit, failed, faults>>

Initialised(t) ==
  /\ t # "streamBuffs"
  /\ thread[t] = "init"
  /\ Goes(t, "ready")
  /\ UNCHANGED finishing
  /\ Unharmed

\* hRendezvousCapture, for the two capture threads.
SyncMet ==
  \/ \A t \in CapThread : thread[t] \in {"sync", "run"}
  \/ \E t \in CapThread : AtEnd(t)

\* Faulty variant: the encoders and the packer meet the capture, too.
AllSync(t) == "sync"

\* Where t goes on from the rendezvous of its start.
AfterStart(t) == IF t \in CapThread THEN "sync" ELSE "run"

Runs(t) ==
  /\ \/ /\ thread[t] = "ready"
        /\ Starting(GroupOf(t)) => StartMet(GroupOf(t))
        /\ Goes(t, AfterStart(t))
     \/ /\ thread[t] = "sync"
        /\ SyncMet
        /\ Goes(t, "run")
  /\ UNCHANGED finishing
  /\ Unharmed

\* The flags that end a thread when all of them are set.
QuitFlags(t) ==
  CASE t \in CapThread -> QuitFlag
    [] t \in EncThread -> {"REC", "STRM"}
    [] t = "packer" -> {"REC"}
    [] t = "streamBuffs" -> {"STRM"}

\* The beginning of every cleanup, up to the rendezvous of the end.
Finishes(t) ==
  /\ finishing' = [finishing EXCEPT ![GroupOf(t)] = TRUE]
  /\ Goes(t, "at finish")

Quits(t) ==
  /\ t # "streamBuffs"
  /\ thread[t] = "run"
  /\ \/ QuitFlags(t) \subseteq quit
     \/ t = "packer" /\ card = "out"
  /\ Finishes(t)
  /\ Unharmed

Fails(t, status) ==
  /\ is_rec_failed' = TRUE
  /\ failed' = status
  /\ quit' = quit \cup QuitFlags(t)
  /\ Finishes(t)

MayBreak(t) ==
  CASE t = "streamBuffs" -> {}
    [] t = "packer" -> {"run"}
    [] t = "vcapture" -> {"init", "sync", "run"}
    [] OTHER -> {"init", "run"}

\* A device, a codec or the file system makes a thread fail.
Breaks(t) ==
  /\ thread[t] \in MayBreak(t)
  /\ faults < MaxFaults
  /\ faults' = faults + 1
  /\ Fails(t, failed \cup {t})

\* The camera gives no signal, or the wait for it is called off: vcapture ends
\* with THREAD_SUCCESS.
NoSignal ==
  /\ "vcapture" \in Thread
  /\ thread["vcapture"] = "init"
  /\ \/ QuitFlag \subseteq quit /\ UNCHANGED faults
     \/ faults < MaxFaults /\ faults' = faults + 1
  /\ Fails("vcapture", failed)

Source(t) == IF t = "video" THEN "vcapture" ELSE "acapture"

\* An encoder gets no frame to read for half a second: its capture thread has
\* ended or, which is counted as a fault, is late.
Starves(t) ==
  /\ t \in EncThread
  /\ thread[t] = "run"
  /\ \/ AtEnd(Source(t)) /\ UNCHANGED faults
     \/ /\ thread[Source(t)] \in {"ready", "sync"}
        /\ faults < MaxFaults /\ faults' = faults + 1
  /\ Fails(t, failed \cup {t})

\* The packer cannot make its next file.
NoFile ==
  /\ thread["packer"] = "run"
  /\ card = "unusable"
  /\ Fails("packer", failed \cup {"packer"})
  /\ UNCHANGED faults

\* The rest of a cleanup; a thread that writes frees its group of buffers.
Ends(t) ==
  /\ t # "streamBuffs"
  /\ thread[t] = "at finish"
  /\ EndMet(GroupOf(t))
  /\ Goes(t, "ended")
  /\ UNCHANGED finishing
  /\ Unharmed

\* StreamBuffsThrFxn plugs to both groups and waits to be stopped.
StreamPlugs ==
  /\ thread["streamBuffs"] = "init"
  /\ Goes("streamBuffs", "at finish")
  /\ UNCHANGED finishing
  /\ Unharmed

\* The loop that waits for vbuf_stop and that for abuf_stop have no call and
\* the flags are not volatile: the build, with -O2, may read them only once.
StreamReleases ==
  /\ thread["streamBuffs"] = "at finish"
  /\ Stopping("stream")
  /\ finishing' = [finishing EXCEPT !["stream"] = TRUE]
  /\ \/ Goes("streamBuffs", "releasing")
     \/ ~buf_stop["video"] /\ Goes("streamBuffs", "spinning")
  /\ Unharmed

\* The video group is unplugged, then the audio group.
StreamEnds ==
  /\ \/ /\ thread["streamBuffs"] = "releasing"
        /\ buf_stop["video"]
        /\ \/ Goes("streamBuffs", "releasing audio")
           \/ ~buf_stop["audio"] /\ Goes("streamBuffs", "spinning audio")
     \/ /\ thread["streamBuffs"] = "releasing audio"
        /\ buf_stop["audio"]
        /\ Goes("streamBuffs", "ended")
  /\ UNCHANGED finishing
  /\ Unharmed

-----------------------------------------------------------------------------
(* main: change_command.                                                   *)

\* The last command whose condition holds is the one that is given.
Order == <<"START_WIS", "START_REC", "START_ENC", "START_CAP", "STOP_CAP",
           "STOP_ENC", "STOP_REC", "STOP_WIS", "SLEEP", "FINISH">>

Command == {"NO_COMMAND"} \cup {Order[i] : i \in DOMAIN Order}

\* Faulty variants of the condition to stop the encoders: one forgets a group
\* that ends by itself, one waits for the capture to stop.
StopEncOnRequest(s, r) ==
  ~s /\ ~r /\ started["enc"] /\ ~started["rec"] /\ ~started["stream"]

StopEncAfterCapture(s, r) ==
  /\ (~s /\ ~r) \/ finishing["enc"] \/ finishing["cap"]
  /\ started["enc"] /\ ~started["cap"] /\ ~started["rec"] /\ ~started["stream"]

StopEnc(s, r) ==
  /\ (~s /\ ~r) \/ finishing["enc"] \/ finishing["cap"]
  /\ started["enc"] /\ ~started["rec"] /\ ~started["stream"]

\* Faulty variants: only the battery and USB are looked at; radio and wifi are
\* waited for, too.
FinishAtOnce(r) == ~is_usb_on /\ charge_low
FinishInIdle(r) ==
  /\ ~started["cap"] /\ ~started["enc"] /\ ~started["rec"] /\ ~r
  /\ ~is_usb_on /\ charge_low /\ sleep_condition

Finish(r) ==
  /\ ~started["cap"] /\ ~started["enc"] /\ ~started["rec"] /\ ~r
  /\ ~is_usb_on /\ charge_low

\* The condition of command c when s and r are the requests.
Condition(c, s, r) ==
  CASE c = "START_WIS" ->
         /\ s /\ ~started["stream"] /\ started["enc"] /\ ~charge_low
         /\ ~finishing["stream"] /\ ~finishing["enc"] /\ ~finishing["cap"]
    [] c = "START_REC" ->
         /\ r /\ ~started["rec"] /\ started["enc"] /\ ~charge_low
         /\ card = "ready"
         /\ ~finishing["rec"] /\ ~finishing["enc"] /\ ~finishing["cap"]
    [] c = "START_ENC" ->
         /\ s \/ r
         /\ ~started["enc"] /\ started["cap"] /\ ~charge_low
         /\ ~finishing["enc"] /\ ~finishing["cap"]
    [] c = "START_CAP" ->
         (s \/ r) /\ ~started["cap"] /\ ~finishing["cap"] /\ ~charge_low
    [] c = "STOP_CAP" ->
         /\ (~s /\ ~r) \/ finishing["cap"]
         /\ started["cap"] /\ ~started["enc"] /\ ~started["rec"]
         /\ ~started["stream"]
    [] c = "STOP_ENC" -> StopEnc(s, r)
    [] c = "STOP_REC" ->
         /\ ~r \/ finishing["rec"] \/ finishing["enc"] \/ finishing["cap"]
         /\ started["rec"]
    [] c = "STOP_WIS" ->
         /\ ~s \/ finishing["stream"] \/ finishing["enc"] \/ finishing["cap"]
         /\ started["stream"]
    [] c = "SLEEP" ->
         /\ ~started["cap"] /\ ~started["enc"] /\ ~started["rec"] /\ ~r
         /\ ~is_usb_on /\ sleep_condition
    [] c = "FINISH" -> Finish(r)

PoweringDown == charge_low /\ (started["rec"] \/ started["stream"])

StreamRequested ==
  /\ wis_started /\ (is_stream_request \/ ~charge_low)
  /\ ~PoweringDown

\* A recorder that ended by itself, without a failure, is not started again
\* before it was stopped.
RecordRequested ==
  /\ start_rec /\ card = "ready" /\ ~charge_low
  /\ ~("REC" \in quit /\ ~is_rec_failed /\ started["rec"])

\* The command before is kept when no condition holds.
CommandFor(s, r) ==
  LET given == {i \in DOMAIN Order : Condition(Order[i], s, r)}
  IN  IF given = {} THEN cmd
      ELSE Order[CHOOSE i \in given : \A j \in given : j <= i]

-----------------------------------------------------------------------------
(* main: the handlers.                                                     *)

\* The flags that are reset for the threads to be started.
Target(s) == IF s THEN {"STRM"} ELSE {"REC"}

Creates(g) ==
  /\ thread' = [t \in Thread |->
                  IF t \in Threads(g) THEN "init" ELSE thread[t]]
  /\ failed' = failed \ Threads(g)

Starts(g, flags) ==
  /\ ~started[g]
  /\ main' = "start" /\ group' = g
  /\ quit' = quit \ flags
  /\ Creates(g)
  /\ UNCHANGED started

Stops(g, flags) ==
  /\ started[g]
  /\ main' = "stop" /\ group' = g
  /\ quit' = quit \cup flags
  /\ UNCHANGED <<started, thread, failed>>

GroupFor(c) ==
  CASE c \in {"START_CAP", "STOP_CAP"} -> "cap"
    [] c \in {"START_ENC", "STOP_ENC"} -> "enc"
    [] c \in {"START_REC", "STOP_REC"} -> "rec"
    [] c \in {"START_WIS", "STOP_WIS"} -> "stream"

\* A command that was given before and is done already.
DoneBefore(c) ==
  \/ c = "NO_COMMAND"
  \/ /\ c \in {"START_CAP", "START_ENC", "START_REC", "START_WIS"}
     /\ started[GroupFor(c)]
  \/ /\ c \in {"STOP_CAP", "STOP_ENC", "STOP_REC", "STOP_WIS"}
     /\ ~started[GroupFor(c)]

START_CAP(s) == Starts("cap", Target(s))

START_ENC(s) == Starts("enc", Target(s))

START_REC == Starts("rec", {"REC"})

\* It waits for no thread.
START_WIS ==
  /\ ~started["stream"]
  /\ quit' = quit \ {"STRM"}
  /\ started' = [started EXCEPT !["stream"] = TRUE]
  /\ Creates("stream")
  /\ UNCHANGED <<main, group>>

STOP_CAP == Stops("cap", QuitFlag)

STOP_ENC == Stops("enc", {"REC", "STRM"})

STOP_REC == Stops("rec", {"REC"})

STOP_WIS == Stops("stream", {"STRM"})

Leaves(place) ==
  /\ main' = place
  /\ UNCHANGED <<group, quit, started, thread, failed>>

Handles(c, s) ==
  \/ DoneBefore(c) /\ UNCHANGED <<main, group, quit, started, thread, failed>>
  \/ c = "START_CAP" /\ START_CAP(s)
  \/ c = "START_ENC" /\ START_ENC(s)
  \/ c = "START_REC" /\ START_REC
  \/ c = "START_WIS" /\ START_WIS
  \/ c = "STOP_CAP" /\ STOP_CAP
  \/ c = "STOP_ENC" /\ STOP_ENC
  \/ c = "STOP_REC" /\ STOP_REC
  \/ c = "STOP_WIS" /\ STOP_WIS
  \/ c = "SLEEP" /\ Leaves("sleep")
  \/ c = "FINISH" /\ Leaves("off")

\* An iteration of main's loop: the requests, the command and its handler.
change_command ==
  /\ main = "loop"
  /\ is_stream_request' = StreamRequested
  /\ is_rec_request' = RecordRequested
  /\ cmd' = CommandFor(is_stream_request', is_rec_request')
  /\ Handles(cmd', is_stream_request')
  /\ is_rec_failed' = (is_rec_failed /\ cmd' # "START_REC")
  /\ UNCHANGED <<inputs, liveVars, finishing, bounds>>

\* The end of the handlers that start a group.
Started(g) ==
  /\ Starting(g)
  /\ StartMet(g)
  /\ started' = [started EXCEPT ![g] = TRUE]
  /\ wis_hw_started' = (wis_hw_started \/ g = "enc")
  /\ main' = "loop" /\ group' = "none"
  /\ UNCHANGED <<inputs, live, buf_stop, requests, finishing, is_rec_failed,
                 quit, cmd, thread, failed, bounds>>

\* Faulty variant: the flag of the end is left to the next start.
FinishingKept(g) == finishing

FinishingReset(g) == [finishing EXCEPT ![g] = FALSE]

\* The end of the handlers that stop a group: its threads are joined.
Stopped(g) ==
  /\ Stopping(g)
  /\ \A t \in Threads(g) : thread[t] = "ended"
  /\ thread' = [t \in Thread |->
                  IF t \in Threads(g) THEN "none" ELSE thread[t]]
  /\ is_rec_failed' = (is_rec_failed \/ failed \cap Threads(g) # {})
  /\ failed' = failed \ Threads(g)
  /\ started' = [started EXCEPT ![g] = FALSE]
  /\ finishing' = FinishingReset(g)
  /\ main' = "loop" /\ group' = "none"
  /\ UNCHANGED <<inputs, liveVars, requests, quit, cmd, bounds>>

\* The SLEEP handler.  An interrupt of the port expander, the switch or USB,
\* calls the sleep off, and the command stays.
SleepAborted ==
  /\ main = "sleep" /\ changes < MaxChanges
  /\ changes' = changes + 1
  /\ start_rec' \in BOOLEAN /\ is_usb_on' \in BOOLEAN
  /\ main' = "loop"
  /\ UNCHANGED <<card, charge_low, sleep_condition, liveVars, requests,
                 started, finishing, is_rec_failed, quit, cmd, group, thread,
                 failed, faults>>

Sleep ==
  /\ main = "sleep"
  /\ main' = "asleep"
  /\ UNCHANGED <<inputs, liveVars, requests, started, finishing, is_rec_failed,
                 quit, cmd, group, thread, failed, bounds>>

WakeUp ==
  /\ main = "asleep"
  /\ main' = "loop"
  /\ cmd' = "NO_COMMAND"
  /\ sleep_condition' = FALSE
  /\ UNCHANGED <<start_rec, card, is_usb_on, charge_low, liveVars, requests,
                 started, finishing, is_rec_failed, quit, group, thread,
                 failed, bounds>>

-----------------------------------------------------------------------------

Inputs ==
  \/ RecordSwitched \/ CardChanges \/ UsbChanges
  \/ BatteryChanges \/ ActivityChanges

LiveThread ==
  LiveStarts \/ LiveAnswered

ThreadGoesOn(t) ==
  Initialised(t) \/ Runs(t) \/ Quits(t) \/ Starves(t) \/ Ends(t)

StreamGoesOn == StreamPlugs \/ StreamReleases \/ StreamEnds

MainGoesOn ==
  \/ change_command
  \/ \E g \in Group : Started(g) \/ Stopped(g)
  \/ Sleep

Next ==
  \/ Inputs
  \/ LiveThread \/ LiveConnects \/ LiveLeaves
  \/ \E s \in Media : LiveAsks(s)
  \/ \E t \in Thread : ThreadGoesOn(t) \/ Breaks(t)
  \/ NoSignal \/ NoFile
  \/ StreamGoesOn
  \/ MainGoesOn
  \/ SleepAborted \/ WakeUp

Spec == Init /\ [][Next]_vars

\* Every thread runs on; inputs, clients, failures and wake-ups may stay away.
Fairness ==
  /\ WF_vars(MainGoesOn)
  /\ \A t \in Thread : WF_vars(ThreadGoesOn(t))
  /\ WF_vars(StreamGoesOn)
  /\ WF_vars(LiveThread)

FairSpec == Spec /\ Fairness

-----------------------------------------------------------------------------
(* Properties.                                                             *)

Releasing == {"releasing", "spinning", "releasing audio", "spinning audio"}
Place == {"none", "init", "ready", "sync", "run", "at finish", "ended"}
           \cup Releasing

(* The types of the flags; only the capture threads meet each other, and   *)
(* only the streaming thread waits for the live library.                   *)
TypeOK ==
  /\ start_rec \in BOOLEAN /\ is_usb_on \in BOOLEAN
  /\ charge_low \in BOOLEAN /\ sleep_condition \in BOOLEAN
  /\ card \in Card
  /\ live \in {"away", "starting", "playing"} \cup Media
  /\ buf_stop \in [Media -> BOOLEAN] /\ wis_hw_started \in BOOLEAN
  /\ is_rec_request \in BOOLEAN /\ is_stream_request \in BOOLEAN
  /\ started \in [Group -> BOOLEAN] /\ finishing \in [Group -> BOOLEAN]
  /\ is_rec_failed \in BOOLEAN
  /\ quit \subseteq QuitFlag
  /\ cmd \in Command
  /\ main \in {"loop", "start", "stop", "sleep", "asleep", "off"}
  /\ group \in Group \cup {"none"}
  /\ thread \in [Thread -> Place]
  /\ \A t \in Thread :
       /\ thread[t] = "sync" => t \in CapThread
       /\ thread[t] \in Releasing => t = "streamBuffs"
  /\ failed \subseteq Thread
  /\ changes \in 0 .. MaxChanges /\ faults \in 0 .. MaxFaults

\* t has taken a group of buffers for its output and not freed it.
HasBuffers(t) == thread[t] \notin {"none", "init", "ended"}

Reads(t) == thread[t] \notin {"none", "init", "ready", "ended"}

(* A thread that writes frees its buffers only after every thread that     *)
(* reads them has unplugged, and none plugs to a group that is not there:  *)
(* the packer and the streaming thread end before the encoders, the        *)
(* encoders before the capture, in every order of requests, failures and   *)
(* commands (main.c:749-783).                                              *)
GroupsOutliveReaders ==
  \A r \in {"packer", "streamBuffs"} \cup EncThread :
    Reads(r) => \A w \in IF r \in EncThread THEN CapThread ELSE EncThread :
                  HasBuffers(w)

(* The flag that says a group ends never outlives the group: START_* asks  *)
(* for the flag to be down, so one that is left up would keep the group    *)
(* from being started for good.                                            *)
NoStaleFinishing ==
  main = "loop" => \A g \in Group : finishing[g] => started[g]

(* main goes to sleep or powers off only when no thread of any group is    *)
(* left.                                                                   *)
SleepsAlone ==
  main \in {"sleep", "asleep", "off"} => \A t \in Thread : thread[t] = "none"

(* A handler that starts or stops a group comes back: main waits for       *)
(* threads, kicking no watchdog, and each of them comes to its rendezvous  *)
(* or forces it.                                                           *)
HandlersReturn == main \in {"start", "stop"} ~> main = "loop"

RecordingWanted == start_rec /\ card = "ready" /\ ~charge_low

(* When recording stays wanted, failures that stop leave a recorder at     *)
(* work.                                                                   *)
RecordingStarts ==
  <>[](RecordingWanted /\ main # "asleep")
    => <>[](started["rec"] /\ thread["packer"] = "run")

(* When nothing is wanted any more, all threads end.                       *)
AllStops ==
  <>[](~RecordingWanted /\ ~wis_started)
    => <>[](\A t \in Thread : thread[t] = "none")

(* Once the battery stays low without USB, the device powers off: "Low     *)
(* charge level. Will shutdown now..." (main.c:1253).                      *)
PowersOff == <>[](charge_low /\ ~is_usb_on) => <>(main = "off")

(* The streaming thread that is told to stop gives the buffers back,       *)
(* whatever the clients do (stream_buffs.c:60).                            *)
StreamReleased == Stopping("stream") ~> thread["streamBuffs"] = "ended"

=============================================================================
