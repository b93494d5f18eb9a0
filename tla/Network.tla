------------------------------- MODULE Network -------------------------------
(***************************************************************************)
(* Radio, wifi and sleep: the thread of the radio (radiocomm.c), which     *)
(* executes orders to record and to switch wifi; the thread of the network *)
(* (net_connection.c), which connects, looks whether the connection is     *)
(* there and starts the streaming thread anew (wis_stream.c,               *)
(* wis-streamer.cpp); and main, which reads the switch, posts interrupts   *)
(* to the radio, decides to sleep by the flags of the two and ends the     *)
(* network for it.                                                         *)
(*                                                                         *)
(* The setting server and the service, which the network thread starts and *)
(* joins too, are in SettingService, of which only the request of a host   *)
(* to record is here; what main does between the order to record and the   *)
(* recording is in CameraControl.                                          *)
(***************************************************************************)
EXTENDS Naturals

None == [none |-> TRUE]
Order == [record : BOOLEAN] \cup [wifi : BOOLEAN]

\* What the program finds: the state of recording kept from its last life, the
\* switch, and whether another station is there.
Start == [start_rec : BOOLEAN, sw_pwr_on : BOOLEAN, linked : BOOLEAN]

CONSTANTS
  Starts,    \* what the program may find at its start
  Orders,    \* the orders that may be sent by radio
  MaxEvents  \* bound of what comes from outside: orders by radio, moves of the
             \* switch, changes of the connection, requests of hosts, errors

ASSUME StartsAssumption == Starts \subseteq Start
ASSUME OrdersAssumption == Orders \subseteq Order
ASSUME BoundAssumption == MaxEvents \in Nat

VARIABLES
  \* the world: the order in the radio chip, the interrupt of the port
  \* expander, whether another station is there, 5 minutes without one
  order, interrupt, linked, idle,
  \* the switch: the pin, what main read of it last, its interrupt
  sw_pwr_on, last_sw_pwr_on, sw_interrupt,
  \* main: where it is, gbl.cmd, is_rec_started
  main, cmd, recording,
  \* the radio: where it is, rfSem, and what orders set
  radio, rfSem, update_dev_stat_only,
  start_rec, stop_netconnect,
  \* the thread of the network
  net, ending, is_access_point, network_off, is_netconnect_on,
  connect_res, wifi_sleep_condition,
  \* the streaming thread, wis_watchVariable, streaming_stoped, and reasons to
  \* start it anew: reboot_now or strm_error, a bitrate that is not its own
  wis, watch, streaming_stoped, again, other_bitrate,
  events

world     == <<order, interrupt, linked, idle>>
switch    == <<sw_pwr_on, last_sw_pwr_on, sw_interrupt>>
control   == <<main, cmd, recording>>
receiver  == <<radio, rfSem, update_dev_stat_only>>
wanted    == <<start_rec, stop_netconnect>>
connected == <<is_access_point, network_off, is_netconnect_on, connect_res>>
network   == <<net, ending, connected, wifi_sleep_condition>>
stream    == <<wis, watch, streaming_stoped, again, other_bitrate>>
vars == <<world, switch, control, receiver, wanted, network, stream, events>>

Init ==
  /\ \E s \in Starts :
       start_rec = s.start_rec /\ sw_pwr_on = s.sw_pwr_on /\ linked = s.linked
  /\ order = None /\ interrupt = FALSE /\ idle = FALSE
  /\ last_sw_pwr_on = sw_pwr_on /\ sw_interrupt = FALSE
  /\ main = "poll" /\ cmd = "none" /\ recording = FALSE
  /\ radio = "wait" /\ rfSem = 0 /\ update_dev_stat_only = FALSE
  /\ stop_netconnect = TRUE
  /\ net = "start" /\ ending = FALSE
  /\ is_access_point = TRUE /\ network_off = FALSE
  /\ is_netconnect_on = FALSE /\ connect_res = TRUE
  /\ wifi_sleep_condition = FALSE
  /\ wis = "none" /\ watch = FALSE /\ streaming_stoped = FALSE
  /\ again = FALSE /\ other_bitrate = TRUE
  /\ events = 0

\* The radio is quiet exactly while it waits.
rf_sleep_condition == radio = "wait"

\* The threads are frozen while the device sleeps.
Awake == main # "asleep"

-----------------------------------------------------------------------------
(* The world.                                                              *)

\* One more of the events that are bounded.
Event == events < MaxEvents /\ events' = events + 1

\* An order arrives, which the port expander tells by an interrupt; the next
\* one is sent when it was confirmed.
Send(o) ==
  /\ order = None
  /\ Event
  /\ order' = o /\ interrupt' = TRUE
  /\ UNCHANGED <<linked, idle, switch, control, receiver, wanted, network, stream>>

\* The switch is moved, also while the device sleeps.
FlipSwitch ==
  /\ Event
  /\ sw_pwr_on' = ~sw_pwr_on /\ sw_interrupt' = TRUE
  /\ UNCHANGED <<last_sw_pwr_on, world, control, receiver, wanted, network, stream>>

LinkChanges ==
  /\ Event
  /\ linked' = ~linked
  /\ UNCHANGED <<order, interrupt, idle, switch, control, receiver, wanted, network,
                 stream>>

\* A host sets the bitrate, or the stream fails (strm_error).
StreamChanges ==
  /\ Awake
  /\ Event
  /\ \/ other_bitrate' = TRUE /\ UNCHANGED again
     \/ wis = "loop" /\ again' = TRUE /\ UNCHANGED other_bitrate
  /\ UNCHANGED <<world, switch, control, receiver, wanted, network, wis, watch,
                 streaming_stoped>>

\* The steps of the loop of the network thread.
Loop == {"loop", "switch", "restart"}

\* A host sets the work mode; it can end only what is recorded.
HostRecords ==
  /\ Awake /\ linked /\ net \in Loop /\ ~network_off
  /\ Event
  /\ start_rec' \in {TRUE, ~recording}
  /\ UNCHANGED <<world, switch, control, receiver, stop_netconnect, network, stream>>

\* 5 minutes since last_time_connected, in which the loop checks ten times.
Tick ==
  /\ ~idle
  /\ ~(linked /\ net \in Loop /\ ~network_off)
  /\ idle' = TRUE
  /\ UNCHANGED <<order, interrupt, linked, switch, control, receiver, wanted, network,
                 stream, events>>

-----------------------------------------------------------------------------
(* main.                                                                   *)

\* A thread of the radio that was posted runs before main goes on: it has a
\* real-time priority and main has none (common.h:125), on one processor.
RadioFirst == radio = "wait" /\ rfSem > 0

\* poll_port_expander: it reads all interrupts at once, takes a switch that has
\* moved since as an order to record or to end, and posts the radio.
ReadInterrupts ==
  /\ interrupt' = FALSE /\ sw_interrupt' = FALSE
  /\ last_sw_pwr_on' = IF sw_interrupt THEN sw_pwr_on ELSE last_sw_pwr_on
  /\ start_rec' = IF last_sw_pwr_on' = last_sw_pwr_on THEN start_rec ELSE sw_pwr_on
  /\ rfSem' = rfSem + IF interrupt THEN 1 ELSE 0
  /\ UNCHANGED <<order, linked, idle, sw_pwr_on, radio, update_dev_stat_only,
                 stop_netconnect>>

PollPortExpander ==
  /\ main = "poll" /\ ~RadioFirst
  /\ main' = "command"
  /\ ReadInterrupts
  /\ UNCHANGED <<cmd, recording, network, stream, events>>

\* change_command; a command for which no condition holds any more is kept.
ChangeCommand ==
  /\ main = "command" /\ ~RadioFirst
  /\ \/ /\ start_rec # recording
        /\ recording' = start_rec
        /\ cmd' = "none" /\ main' = "poll"
     \/ /\ start_rec = recording
        /\ cmd' = IF ~recording /\ wifi_sleep_condition /\ rf_sleep_condition
                  THEN "sleep" ELSE cmd
        /\ main' = IF cmd' = "sleep" THEN "sleep" ELSE "poll"
        /\ UNCHANGED recording
  /\ UNCHANGED <<world, switch, receiver, wanted, network, stream, events>>

\* The handler of SLEEP: an interrupt calls the sleep off, the command stays
\* until a recording begins.
BeginSleep ==
  /\ main = "sleep" /\ ~RadioFirst
  /\ main' = IF interrupt \/ sw_interrupt THEN "poll" ELSE "wait net"
  /\ ReadInterrupts
  /\ UNCHANGED <<cmd, recording, network, stream, events>>

\* The join of the network; the radio shall only show the status.
NetJoined ==
  /\ main = "wait net" /\ net = "met" /\ ~RadioFirst
  /\ net' = "none"
  /\ update_dev_stat_only' = TRUE /\ rfSem' = rfSem + 1
  /\ main' = "status"
  /\ UNCHANGED <<world, switch, cmd, recording, radio, wanted, ending,
                 connected, wifi_sleep_condition, stream, events>>

\* main waits for the radio, 100 ms at the longest: enough for what it does
\* when it wakes, be it an order or the status.
Sleep ==
  /\ main = "status" /\ ~RadioFirst /\ rf_sleep_condition
  /\ main' = "asleep"
  /\ UNCHANGED <<world, switch, cmd, recording, receiver, wanted, network, stream, events>>

\* An interrupt wakes the device, or something else.
Wake ==
  /\ main = "asleep"
  /\ main' = "poll" /\ cmd' = "none"
  /\ wifi_sleep_condition' = FALSE
  /\ net' = "start" /\ ending' = FALSE
  /\ UNCHANGED <<world, switch, recording, receiver, wanted, connected, stream, events>>

-----------------------------------------------------------------------------
(* The radio.                                                              *)

\* sem_timedwait: posted, or 5 seconds have passed; they are long to main, and
\* end while it sleeps in its loop or joins the network.
RadioWakes ==
  /\ Awake /\ radio = "wait"
  /\ \/ /\ rfSem > 0 /\ rfSem' = rfSem - 1
        /\ radio' = IF update_dev_stat_only THEN "update" ELSE "process"
     \/ /\ rfSem = 0 /\ main \in {"poll", "wait net"}
        /\ radio' = "update" /\ UNCHANGED rfSem
  /\ UNCHANGED <<world, switch, control, update_dev_stat_only, wanted, network, stream,
                 events>>

\* Faulty variant: the request of main is not taken back.
UpdateDevStatKeepsRequest == UNCHANGED update_dev_stat_only

\* The status, and the answer to main, who waits for it.
UpdateDevStat == update_dev_stat_only' = FALSE

\* process_rx, apply_cmd: an order is executed and confirmed.
Process ==
  /\ Awake /\ radio = "process"
  /\ order' = None
  /\ start_rec' = IF "record" \in DOMAIN order THEN order.record ELSE start_rec
  /\ stop_netconnect' =
       IF "wifi" \in DOMAIN order THEN ~order.wifi ELSE stop_netconnect
  /\ UpdateDevStat
  /\ radio' = "wait"
  /\ UNCHANGED <<interrupt, linked, idle, switch, control, rfSem, network, stream, events>>

OnlyUpdate ==
  /\ Awake /\ radio = "update"
  /\ UpdateDevStat
  /\ radio' = "wait"
  /\ UNCHANGED <<world, switch, control, rfSem, wanted, network, stream, events>>

-----------------------------------------------------------------------------
(* The thread of the network.                                              *)

NetStep == Awake /\ UNCHANGED <<switch, control, receiver, wanted, events, order,
                                interrupt, linked>>

\* check_wifi_sleep_condition.
SleepCondition ==
  IF stop_netconnect THEN wifi_sleep_condition \/ ~is_netconnect_on
  ELSE ~is_netconnect_on /\ idle

\* The mode is read from the card; a station waits for its access point, as
\* EthIfaceCheckIP is never below 0 nobody waits for an address.
NetStarts ==
  /\ net = "start"
  /\ is_access_point' \in BOOLEAN
  /\ network_off' = stop_netconnect
  /\ idle' = FALSE /\ wifi_sleep_condition' = FALSE /\ connect_res' = TRUE
  /\ net' = IF stop_netconnect \/ is_access_point' THEN "services" ELSE "connect"
  /\ UNCHANGED <<ending, is_netconnect_on, stream>>
  /\ NetStep

Connect ==
  /\ net = "connect"
  /\ wifi_sleep_condition' = SleepCondition
  /\ connect_res' = linked
  /\ \/ linked /\ net' = "services" /\ idle' = FALSE
     \/ ~linked /\ net' = (IF cmd = "sleep" THEN "end" ELSE net) /\ UNCHANGED idle
  /\ UNCHANGED <<ending, is_access_point, network_off, is_netconnect_on, stream>>
  /\ NetStep

\* The streaming thread is the last of the services but one.
StartServices ==
  /\ net = "services"
  /\ net' = "loop" /\ wis' = "init"
  /\ is_netconnect_on' = ~network_off
  /\ UNCHANGED <<ending, is_access_point, network_off, connect_res, idle,
                 wifi_sleep_condition, watch, streaming_stoped, again,
                 other_bitrate>>
  /\ NetStep

\* The loop begins with the condition and the command.
LoopEnds ==
  /\ net = "loop" /\ cmd = "sleep"
  /\ wifi_sleep_condition' = SleepCondition
  /\ net' = "end"
  /\ UNCHANGED <<ending, connected, idle, stream>>
  /\ NetStep

LoopBegins ==
  /\ net = "loop" /\ cmd # "sleep"
  /\ wifi_sleep_condition' = SleepCondition
  /\ net' = "switch"
  /\ UNCHANGED <<ending, connected, idle, stream>>
  /\ NetStep

\* Every 30 seconds it looks at the connection.  A station whose access point
\* came back starts the streaming thread anew, unless a client is there.
CheckConnection ==
  /\ net = "loop" /\ cmd # "sleep" /\ ~network_off
  /\ wifi_sleep_condition' = SleepCondition
  /\ net' = "switch"
  /\ connect_res' = linked /\ is_netconnect_on' = linked
  /\ idle' = (idle /\ ~linked)
  /\ again' \in IF linked /\ ~connect_res /\ ~is_access_point
                THEN {again, TRUE} ELSE {again}
  /\ UNCHANGED <<ending, is_access_point, network_off, wis, watch,
                 streaming_stoped, other_bitrate>>
  /\ NetStep

\* The network is switched off or on as the radio ordered; a connection that
\* is on again counts as such with the next check.
Switch ==
  /\ net = "switch"
  /\ \/ /\ stop_netconnect = network_off
        /\ net' = "restart"
        /\ UNCHANGED <<network_off, is_netconnect_on, idle, wifi_sleep_condition>>
     \/ /\ stop_netconnect /\ ~network_off
        /\ net' = "restart"
        /\ network_off' = TRUE /\ is_netconnect_on' = FALSE
        /\ UNCHANGED <<idle, wifi_sleep_condition>>
     \/ /\ ~stop_netconnect /\ network_off
        /\ wifi_sleep_condition' = FALSE
        /\ \/ is_access_point /\ net' = "restart" /\ network_off' = FALSE
              /\ idle' = FALSE
           \/ ~is_access_point /\ net' = "connect again"
              /\ UNCHANGED <<network_off, idle>>
        /\ UNCHANGED is_netconnect_on
  /\ UNCHANGED <<ending, is_access_point, connect_res, stream>>
  /\ NetStep

\* Neither the order to switch off nor the condition to sleep is looked at.
ConnectAgain ==
  /\ net = "connect again"
  /\ connect_res' = linked
  /\ \/ linked /\ net' = "restart" /\ network_off' = FALSE /\ idle' = FALSE
     \/ /\ ~linked /\ net' = (IF cmd = "sleep" THEN "end" ELSE net)
        /\ UNCHANGED <<network_off, idle>>
  /\ UNCHANGED <<ending, is_access_point, is_netconnect_on, wifi_sleep_condition,
                 stream>>
  /\ NetStep

\* A bitrate that is not the one the streaming thread took, also when it did
\* not take any yet.
RestartStream ==
  /\ net = "restart"
  /\ \/ (again \/ other_bitrate) /\ net' = "stop" /\ again' = FALSE
     \/ ~(again \/ other_bitrate) /\ net' = "loop" /\ UNCHANGED again
  /\ UNCHANGED <<ending, connected, idle, wifi_sleep_condition, wis, watch,
                 streaming_stoped, other_bitrate>>
  /\ NetStep

\* Faulty variant: the streaming thread is not joined.
NetEndsAtOnce ==
  /\ net = "end"
  /\ is_netconnect_on' = FALSE
  /\ ending' = TRUE
  /\ net' = "met"
  /\ UNCHANGED <<is_access_point, network_off, connect_res, idle,
                 wifi_sleep_condition, stream>>
  /\ NetStep

NetEnds ==
  /\ net = "end"
  /\ is_netconnect_on' = FALSE
  /\ ending' = TRUE
  /\ net' = IF wis = "none" THEN "met" ELSE "stop"
  /\ UNCHANGED <<is_access_point, network_off, connect_res, idle,
                 wifi_sleep_condition, stream>>
  /\ NetStep

\* wis_stop_streaming.
StopStreaming ==
  /\ net = "stop" /\ ~watch
  /\ watch' = TRUE
  /\ net' = "stopping"
  /\ UNCHANGED <<ending, connected, idle, wifi_sleep_condition, wis,
                 streaming_stoped, again, other_bitrate>>
  /\ NetStep

\* The end of wis_stop_streaming, the rendezvous, the join and, in the loop,
\* another thread.
JoinStream ==
  /\ net = "stopping" /\ streaming_stoped /\ wis = "finish"
  /\ \/ ending /\ wis' = "none" /\ net' = "met"
     \/ ~ending /\ wis' = "init" /\ net' = "loop"
  /\ UNCHANGED <<ending, connected, idle, wifi_sleep_condition, watch,
                 streaming_stoped, again, other_bitrate>>
  /\ NetStep

-----------------------------------------------------------------------------
(* The streaming thread.                                                   *)

WisStep ==
  Awake /\ UNCHANGED <<world, switch, control, receiver, wanted, network, events, again>>

TakeBitrate ==
  /\ wis = "init"
  /\ wis' = "start" /\ other_bitrate' = FALSE
  /\ UNCHANGED <<watch, streaming_stoped>>
  /\ WisStep

\* wis_start_streaming up to its event loop; without an RTSP server it is
\* called again.
StartStreaming ==
  /\ wis = "start"
  /\ wis' = "loop" /\ watch' = FALSE
  /\ UNCHANGED <<streaming_stoped, other_bitrate>>
  /\ WisStep

\* Faulty variant: nobody is told that the streaming stopped.
EndStreamingSilently ==
  /\ wis = "loop" /\ watch
  /\ wis' = "finish"
  /\ UNCHANGED <<watch, streaming_stoped, other_bitrate>>
  /\ WisStep

EndStreaming ==
  /\ wis = "loop" /\ watch
  /\ wis' = "finish" /\ streaming_stoped' = TRUE
  /\ UNCHANGED <<watch, other_bitrate>>
  /\ WisStep

-----------------------------------------------------------------------------
Main   == PollPortExpander \/ ChangeCommand \/ BeginSleep \/ NetJoined \/ Sleep
Radio  == RadioWakes \/ Process \/ OnlyUpdate
Net    == NetStarts \/ Connect \/ StartServices \/ LoopEnds \/ LoopBegins
            \/ CheckConnection \/ Switch \/ ConnectAgain \/ RestartStream \/ NetEnds
            \/ StopStreaming \/ JoinStream
Stream == TakeBitrate \/ StartStreaming \/ EndStreaming

Next ==
  \/ \E o \in Orders : Send(o)
  \/ FlipSwitch \/ LinkChanges \/ StreamChanges \/ HostRecords \/ Tick
  \/ Main \/ Wake \/ Radio \/ Net \/ Stream

\* The threads run, time passes and an interrupt wakes the device; of the
\* checks of the connection, which come every 30 seconds, some come, and main,
\* which looks every 17 ms, sees the radio in some of its waits of 5 seconds.
\* Every step of these actions but one that leaves all as it is changes the
\* variables of its subscript.
Spec ==
  /\ Init /\ [][Next]_vars
  /\ WF_main(Main) /\ WF_radio(Radio) /\ WF_wis(Stream) /\ WF_idle(Tick)
  /\ WF_<<network, idle, stream>>(Net)
  /\ WF_main((interrupt \/ sw_interrupt) /\ Wake)
  /\ SF_net(CheckConnection)
  /\ SF_main(rf_sleep_condition /\ PollPortExpander)

-----------------------------------------------------------------------------
\* The streaming thread lives only under the network thread and is gone before
\* main joins that one (net_connection.c:1294, main.c:1313); main is asleep, or
\* about to be, exactly when the network is gone, and the request for the status
\* stands only while the radio is still to answer it.
TypeOK ==
  /\ order \in Orders \cup {None}
  /\ main \in {"poll", "command", "sleep", "wait net", "status", "asleep"}
  /\ radio \in {"wait", "process", "update"}
  /\ update_dev_stat_only => rfSem > 0 \/ radio # "wait"
  /\ net \in Loop \cup {"none", "start", "connect", "services", "connect again",
                       "stop", "stopping", "end", "met"}
  /\ net = "none" <=> main \in {"status", "asleep"}
  /\ net \in {"none", "start", "connect", "services", "met"} => wis = "none"
  /\ wis = "finish" => streaming_stoped /\ watch

\* An order that is not executed is announced: its interrupt is still to be
\* read, or the radio is posted, or is about to execute it.  A request of main
\* for nothing but the status uses up one post and leaves the post of an order
\* (main.c:1335, radiocomm.c:211), over any number of sleeps.
OrderAnnounced ==
  order # None => interrupt \/ rfSem > 0 \/ radio = "process"

\* The first stop of the program came before the event loop began, which takes
\* it back: wis_stop_streaming waits for ever (wis-streamer.cpp:130, 156).
StopLost == net = "stopping" /\ wis = "loop" /\ ~watch /\ ~streaming_stoped

\* A sleep was called off when the network thread had ended for it and found the
\* condition gone; a recording took the place of the command SLEEP.  The thread
\* waits for main, and nobody looks at the condition again.
NetStranded == net = "met" /\ cmd # "sleep" /\ ~wifi_sleep_condition

\* Nobody needs the device.
Quiet == ~linked /\ ~start_rec /\ order = None /\ ~interrupt /\ ~sw_interrupt

\* A device that nobody needs for good sleeps again and again: radio and network
\* come to say so at the same time, and the network and its streaming thread end
\* (main.c:791, net_connection.c:757, 1264), also after recordings that the
\* switch, the radio or a host began, in the middle of a sleep too.  Not so once
\* the stop of the streaming thread is lost or the network thread is stranded at
\* its end (net_connection.c:1325), and while the network waits for the access
\* point after it was switched on: that loop does not look at the condition to
\* sleep (net_connection.c:1177).
DeviceSleeps ==
  <>[](Quiet /\ net # "connect again" /\ ~StopLost /\ ~NetStranded)
    => []<>(main = "asleep")
=============================================================================
