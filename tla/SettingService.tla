--------------------------- MODULE SettingService ---------------------------
(***************************************************************************)
(* The settings over the network: the thread of the network                *)
(* (net_connection.c), the setting server, which gives the service of the  *)
(* settings to one host (setting_server.c), and the service itself, which  *)
(* takes packets of that host, releases it by time, saves the settings and *)
(* protects them while capture runs (packet_io.c, avrec_service.c); with   *)
(* main, the radio and cuts of power around them.                          *)
(*                                                                         *)
(* The network is whatever any host may send at any time, so requests are  *)
(* lost, repeated and reordered freely.  A host is its address, port and   *)
(* ssrc.  A request to the server sets the status of the service, once or  *)
(* several times; the name, the other field it may set, is left out, and   *)
(* so are the requests to the server's own class.  Of the settings there   *)
(* is one, the channel of the camera, which is protected and which the     *)
(* radio sets too.                                                         *)
(***************************************************************************)
EXTENDS Naturals, Sequences

CONSTANTS
  Host,
  Master,  \* the hosts that use SPECIAL_SSRC, the password
  Data,    \* of the requests: the status fields that are executed, its length
  Value,   \* of the setting
  Period   \* IF_RELEASE_PERIOD in steps of time

\* AppStatus, and any other byte.
Status == {"disabled", "ready", "captured", "other"}

ASSUME HostAssumption == Master \subseteq Host

\* After two bytes of data every status field has three.  Data is executed up
\* to the first field that is none; what the check saw, all of the data unless
\* it is longer than u8 can say, has no such field.
ASSUME DataAssumption ==
  \A d \in Data :
    /\ DOMAIN d = {"fields", "length"}
    /\ d.fields \in Seq(Status) /\ d.length \in Nat
    /\ Len(d.fields) \in 1 .. d.length \div 3
    /\ d.length < 256 => Len(d.fields) = d.length \div 3
ASSUME PeriodAssumption == Period \in Nat \ {0}

VARIABLES
  cmd,      \* gbl.cmd: "sleep", or one that the network does not look at
  main,     \* "run", "wait" (for the end of net), "asleep"
  capture,  \* "off", "stream", "record": is_cap_started and is_rec_started
  net,      \* the thread of the network
  server, request,   \* the setting server and the request it executes
  service, packet,   \* the service and the packet it executes
  status, session,   \* app.status and the host of the session
  socket,   \* curEthIf.apps[1].inited
  age,      \* time since LastReadTimer
  due,      \* 100 ms have passed since ChangesCheckPeriod
  settings, saved, \* curr_settings with the globals it is copied to, /opt/appdata
  changed,  \* is_config_changed_from_wlan
  locked,   \* prev_cap_state, and the access flags of the table
  forgotten \* for the properties: why a change may stay unsaved

device  == <<cmd, main, capture, net>>
serving == <<server, request>>
working == <<service, packet>>
owner   == <<status, session>>
time    == <<age, due>>
values  == <<settings, saved>>
flags   == <<changed, locked, forgotten>>
vars == <<device, serving, working, owner, socket, time, values, flags>>

None == [none |-> TRUE]

Init ==
  /\ cmd = "none" /\ main = "run" /\ capture = "off" /\ net = "start"
  /\ server = "none" /\ request = None
  /\ service = "none" /\ packet = None
  /\ status = "ready" /\ session = None
  /\ socket = FALSE
  /\ age = 0 /\ due = FALSE
  /\ \E v \in Value : settings = v /\ saved = v
  /\ changed = FALSE /\ locked = FALSE /\ forgotten = FALSE

-----------------------------------------------------------------------------
(* main.                                                                   *)

StartCapture ==
  /\ main = "run" /\ capture = "off"
  /\ capture' \in {"stream", "record"}
  /\ cmd' = "none"
  /\ UNCHANGED <<main, net, serving, working, owner, socket, time, values, flags>>

StopCapture ==
  /\ main = "run" /\ capture # "off"
  /\ capture' = "off"
  /\ cmd' = "none"
  /\ UNCHANGED <<main, net, serving, working, owner, socket, time, values, flags>>

\* Nothing runs and wifi_sleep_condition holds; who owns the service and what
\* is not saved yet is not asked.  An interrupt of the port expander calls the
\* sleep off, and the command stays; else main waits for the end of net.
GoToSleep ==
  /\ main = "run" /\ capture = "off"
  /\ cmd' = "sleep"
  /\ main' \in {"run", "wait"}
  /\ UNCHANGED <<capture, net, serving, working, owner, socket, time, values,
                 flags>>

Sleep ==
  /\ main = "wait" /\ net = "met"
  /\ main' = "asleep" /\ net' = "none"
  /\ UNCHANGED <<cmd, capture, serving, working, owner, socket, time, values,
                 flags>>

Wake ==
  /\ main = "asleep"
  /\ main' = "run" /\ cmd' = "none" /\ net' = "start"
  /\ UNCHANGED <<capture, serving, working, owner, socket, time, values, flags>>

-----------------------------------------------------------------------------
(* The thread of the network.                                              *)

\* Without a connection to an access point the thread waits, until a sleep.
NetStarts ==
  /\ net = "start"
  /\ \/ net' = "wait server" /\ server' = "init"
     \/ cmd = "sleep" /\ net' = "end" /\ UNCHANGED server
  /\ UNCHANGED <<cmd, main, capture, request, working, owner, socket, time,
                 values, flags>>

\* After the rendezvous with the server.
ServiceStarts ==
  /\ net = "start services"
  /\ net' = "loop"
  /\ service' = "poll"
  /\ changed' = FALSE /\ locked' = FALSE
  /\ forgotten' = (forgotten \/ settings # saved)
  /\ UNCHANGED <<cmd, main, capture, serving, packet, owner, socket, time, values>>

NetEnds ==
  /\ net = "loop" /\ cmd = "sleep"
  /\ net' = "end"
  /\ UNCHANGED <<cmd, main, capture, serving, working, owner, socket, time, values,
                 flags>>

\* The joins, in their order.
JoinServer ==
  /\ net = "end" /\ server = "finish"
  /\ server' = "none"
  /\ UNCHANGED <<device, request, working, owner, socket, time, values, flags>>

JoinService ==
  /\ net = "end" /\ server = "none" /\ service = "finish"
  /\ service' = "none"
  /\ UNCHANGED <<device, serving, packet, owner, socket, time, values, flags>>

\* Faulty variant: the service is not waited for.
NetMeetsAtOnce ==
  /\ net = "end" /\ server = "none"
  /\ net' = "met"
  /\ UNCHANGED <<cmd, main, capture, serving, working, owner, socket, time, values,
                 flags>>

NetMeets ==
  /\ net = "end" /\ server = "none" /\ service = "none"
  /\ net' = "met"
  /\ UNCHANGED <<cmd, main, capture, serving, working, owner, socket, time, values,
                 flags>>

-----------------------------------------------------------------------------
(* The setting server.                                                     *)

\* InitServer, SetAVApplication and the rendezvous with net: whoever owned the
\* service before a sleep does not own it any more.
ServerStarts ==
  /\ server = "init"
  /\ server' = "run" /\ net' = "start services"
  /\ status' = "ready"
  /\ UNCHANGED <<cmd, main, capture, request, working, session, socket, time, values, flags>>

\* Faulty variant: who owns the service is not asked.
PermittedToAll(h, s) == TRUE

\* CheckSetCmd: host h sets the status to s.
Permitted(h, s) ==
  /\ status # "disabled"
  /\ s \in {"ready", "captured"}
  /\ \/ status = "ready"
     \/ status = "captured" /\ session = h
     \/ s = "ready" /\ h \in Master

\* The length as CheckSetCmd gets it, in a u8, and the number of fields that
\* begin in as many bytes of data.
U8(n) == n % 256
Checked(d) == U8(d.length) \div 3

\* Where the server goes to execute the rest of a request.
StepOf(fields) ==
  IF fields = <<>> THEN "run"
  ELSE IF Head(fields) = "captured" THEN "session" ELSE "status"

\* DoDataExchange up to the check; what is not permitted changes nothing.
ReadRequest(h, d) ==
  /\ server = "run" /\ cmd # "sleep" /\ request = None
  /\ U8(d.length) >= 2
  /\ \A i \in DOMAIN d.fields : i <= Checked(d) => Permitted(h, d.fields[i])
  /\ Checked(d) <= Len(d.fields)
  /\ request' = [host |-> h, fields |-> d.fields, length |-> d.length]
  /\ server' = StepOf(d.fields)
  /\ UNCHANGED <<device, working, owner, socket, time, values, flags>>

\* ExecuteAction takes field by field; the host comes before the status.
SetSession ==
  /\ server = "session"
  /\ session' = request.host
  /\ server' = "status"
  /\ UNCHANGED <<device, request, working, status, socket, time, values, flags>>

SetStatus ==
  /\ server = "status"
  /\ status' = Head(request.fields)
  /\ server' = StepOf(Tail(request.fields))
  /\ request' = IF Tail(request.fields) = <<>> THEN None
                ELSE [request EXCEPT !.fields = Tail(@)]
  /\ UNCHANGED <<device, working, session, socket, time, values, flags>>

ServerEnds ==
  /\ server = "run" /\ cmd = "sleep"
  /\ server' = "finish"
  /\ UNCHANGED <<device, request, working, owner, socket, time, values, flags>>

-----------------------------------------------------------------------------
(* The service: PacketIOProcessInterfaces.                                 *)

ServiceGoes(s) == service' = s /\ UNCHANGED packet

\* CheckReleaseTime up to the comparison of the times.
CheckReleaseTime ==
  /\ service = "poll" /\ cmd # "sleep"
  /\ \/ status # "captured" /\ age' = 0 /\ ServiceGoes("iface")
     \/ status = "captured" /\ age < Period /\ ServiceGoes("iface")
        /\ UNCHANGED age
     \/ status = "captured" /\ age = Period /\ ServiceGoes("release")
        /\ UNCHANGED age
  /\ UNCHANGED <<device, serving, owner, socket, due, values, flags>>

\* The status is compared once more, and then written.
Release ==
  /\ service = "release"
  /\ age' = 0
  /\ \/ status' = "ready"
     \/ status # "captured" /\ UNCHANGED status
  /\ ServiceGoes("iface")
  /\ UNCHANGED <<device, serving, session, socket, due, values, flags>>

\* The socket is there while the service is captured; it may not be had.
CheckInterface ==
  /\ service = "iface"
  /\ \/ /\ status = "captured"
        /\ \/ socket' = TRUE /\ ServiceGoes("read")
           \/ ~socket /\ ServiceGoes("changes") /\ UNCHANGED socket
     \/ status # "captured" /\ socket' = FALSE /\ ServiceGoes("changes")
  /\ UNCHANGED <<device, serving, owner, time, values, flags>>

\* Faulty variant: LastReadTimer is set by every attempt to read.
ReadNothingRenews ==
  /\ service = "read"
  /\ age' = 0
  /\ ServiceGoes("changes")
  /\ UNCHANGED <<device, serving, owner, socket, due, values, flags>>

\* ReadPacket: there is none, or it is of a host whose session this is not.
ReadNothing ==
  /\ service = "read"
  /\ ServiceGoes("changes")
  /\ UNCHANGED <<device, serving, owner, socket, time, values, flags>>

\* What a host sends to the service: the setting, the clock, or a packet of
\* the short version or one that cannot be parsed.
Short  == [short |-> TRUE]
Orders == [set : Value] \cup {[clock |-> TRUE], Short}

\* The short version is not compared with the session; all count for the time.
ReadPacket(h, o) ==
  /\ service = "read"
  /\ session = h \/ o = Short
  /\ age' = 0
  /\ packet' = o
  /\ service' = "process"
  /\ UNCHANGED <<device, serving, owner, socket, due, values, flags>>

\* CheckAllParams refuses what is protected.
Refused(o) == locked /\ "set" \in DOMAIN o

\* PacketProcessParams and the answer, which is sent if the service is still
\* captured.  The clock moves the present time away from LastReadTimer, to
\* either side: as u64 every difference backward is a long time.
Process ==
  LET o == packet IN
  /\ service = "process"
  /\ IF "set" \in DOMAIN o /\ ~Refused(o)
     THEN settings' = o.set /\ changed' = (changed \/ settings # o.set)
     ELSE UNCHANGED <<settings, changed>>
  /\ IF "clock" \in DOMAIN o THEN age' \in 0 .. Period ELSE UNCHANGED age
  /\ packet' = None /\ service' = "changes"
  /\ UNCHANGED <<device, serving, owner, socket, due, saved, locked, forgotten>>

-----------------------------------------------------------------------------
(* The service: ProcessChanges.                                            *)

\* Faulty variant: nothing is saved while capture runs.
DoConfigChangesWithoutCapture ==
  /\ service = "changes"
  /\ due' = FALSE
  /\ ServiceGoes(IF due /\ changed /\ capture = "off" THEN "save" ELSE "lock")
  /\ UNCHANGED <<device, serving, owner, socket, age, values, flags>>

\* DoConfigChanges looks at the flag every 100 ms.
DoConfigChanges ==
  /\ service = "changes"
  /\ due' = FALSE
  /\ ServiceGoes(IF due /\ changed THEN "save" ELSE "lock")
  /\ UNCHANGED <<device, serving, owner, socket, age, values, flags>>

\* SaveSettings; a value of the radio that comes while the file is written
\* is in the globals that are written.
Save ==
  /\ service = "save"
  /\ \/ saved' = settings /\ UNCHANGED forgotten
     \/ forgotten' = TRUE /\ UNCHANGED saved \* a failed write
  /\ ServiceGoes("clear")
  /\ UNCHANGED <<device, serving, owner, socket, time, settings, changed, locked>>

\* The flag is cleared after the save, and after a failed one.
Clear ==
  /\ service = "clear"
  /\ changed' = FALSE
  /\ forgotten' = IF settings = saved THEN FALSE ELSE forgotten
  /\ ServiceGoes("lock")
  /\ UNCHANGED <<device, serving, owner, socket, time, values, locked>>

\* The access flags follow the capture.
Protect ==
  /\ service = "lock"
  /\ locked' = (capture # "off")
  /\ ServiceGoes("poll")
  /\ UNCHANGED <<device, serving, owner, socket, time, values, changed,
                 forgotten>>

\* Faulty variant: the socket is left open.
ServiceEndsWithSocket ==
  /\ service = "poll" /\ cmd = "sleep"
  /\ ServiceGoes("finish")
  /\ UNCHANGED <<device, serving, owner, socket, time, values, flags>>

\* Faulty variant: the command is not looked at while the service is captured.
ServiceEndsIfReady ==
  /\ service = "poll" /\ cmd = "sleep" /\ status # "captured"
  /\ socket' = FALSE
  /\ ServiceGoes("finish")
  /\ UNCHANGED <<device, serving, owner, time, values, flags>>

\* DestroyService.
ServiceEnds ==
  /\ service = "poll" /\ cmd = "sleep"
  /\ socket' = FALSE
  /\ ServiceGoes("finish")
  /\ UNCHANGED <<device, serving, owner, time, values, flags>>

-----------------------------------------------------------------------------
(* The radio, time and the power.                                          *)

\* Faulty variant: the value is not flagged.
RadioSetsSilently(v) ==
  /\ main # "asleep" /\ capture # "record"
  /\ settings' = v
  /\ UNCHANGED <<device, serving, working, owner, socket, time, saved, changed,
                 locked, forgotten>>

\* apply_cmd, CTRL_ACAM_NUM: the value and the flag, which is forgotten if a
\* save that has written the file clears it.
RadioSets(v) ==
  /\ main # "asleep" /\ capture # "record"
  /\ settings' = v /\ changed' = TRUE
  /\ forgotten' = (forgotten \/ service = "clear")
  /\ UNCHANGED <<device, serving, working, owner, socket, time, saved, locked>>

Tick ==
  /\ age < Period \/ ~due
  /\ age' = IF age < Period THEN age + 1 ELSE age
  /\ due' = TRUE
  /\ UNCHANGED <<device, serving, working, owner, socket, values, flags>>

Reboot ==
  /\ cmd' = "none" /\ main' = "run" /\ capture' = "off" /\ net' = "start"
  /\ server' = "none" /\ request' = None /\ service' = "none" /\ packet' = None
  /\ status' = "ready" /\ session' = None /\ socket' = FALSE
  /\ age' = 0 /\ due' = FALSE
  /\ settings' = saved
  /\ changed' = FALSE /\ locked' = FALSE /\ forgotten' = FALSE
  /\ UNCHANGED saved

PowerCut == Reboot

\* A sleep finds the server without its interface: it forces the rendezvous,
\* and the service starts with a descriptor that nobody filled.  The watchdog
\* starts the device again.
Crash ==
  /\ server = "init" /\ cmd = "sleep"
  /\ Reboot

-----------------------------------------------------------------------------
Main    == StartCapture \/ StopCapture \/ GoToSleep \/ Sleep \/ Wake
Net     == NetStarts \/ ServiceStarts \/ NetEnds \/ JoinServer \/ JoinService \/ NetMeets
Answer  == SetSession \/ SetStatus \/ ServerEnds
Serve   == CheckReleaseTime \/ Release \/ CheckInterface \/ ReadNothing \/ Process
             \/ DoConfigChanges \/ Save \/ Clear \/ Protect \/ ServiceEnds

Next ==
  \/ Main \/ Net \/ ServerStarts \/ Answer \/ Serve
  \/ \E h \in Host : \/ \E d \in Data : ReadRequest(h, d)
                     \/ \E o \in Orders : ReadPacket(h, o)
  \/ \E v \in Value : RadioSets(v)
  \/ Tick \/ PowerCut \/ Crash

\* The threads run and time passes; an address and an interface for the
\* sockets may never come, and nobody has to send anything.
Spec ==
  /\ Init /\ [][Next]_vars
  /\ WF_vars(Sleep)
  /\ WF_vars(Net /\ (net = "start" => cmd = "sleep"))
  /\ WF_vars(cmd = "sleep" /\ (ServerStarts \/ Crash))
  /\ WF_vars(Answer) /\ WF_vars(Serve)
  /\ WF_vars(Tick)

-----------------------------------------------------------------------------
Request == [host : Host, fields : Seq(Status) \ {<<>>}, length : Nat]

\* The steps of the threads agree with the requests and packets they execute,
\* with the threads that wait for them and with the socket they use.
TypeOK ==
  /\ main \in {"run", "wait", "asleep"}
  /\ capture \in {"off", "stream", "record"}
  /\ request \in Request \cup {None} /\ packet \in Orders \cup {None}
  /\ request # None <=> server \in {"session", "status"}
  /\ packet # None <=> service = "process"
  /\ service # "none" => net \in {"loop", "end"}
  /\ net = "none" <=> main = "asleep"
  /\ status \in Status /\ (status = "captured" => session \in Host)
  /\ socket => service \notin {"none", "finish"}
  /\ service \in {"read", "process"} => socket
  /\ age \in 0 .. Period /\ due \in BOOLEAN
  /\ {settings, saved} \subseteq Value

\* Longer data is checked as if it had its low byte for a length, and executed
\* as a whole (setting_server.c:190, 477).
CheckedInPart == request # None /\ request.length > 255

\* The service is never taken from the host that has it: the session changes
\* only while the service is free, although the service releases it by time in
\* another thread between the check and the writes (setting_server.c:312-321).
\* Exception: a request that was checked in part.
NoStealing ==
  [][status = "captured" /\ status' = "captured" /\ ~CheckedInPart
       => session' = session]_vars

\* The service knows of every change that is not in the file yet; but for a
\* write that failed, a value of the radio that comes at the end of a save,
\* and a sleep before the save (avrec_service.c:624-631).
NoChangeForgotten ==
  settings # saved => changed \/ forgotten

\* A change gets into the file while the service runs.
ChangesSaved ==
  (settings # saved /\ ~forgotten)
    ~> (settings = saved \/ forgotten \/ service \in {"none", "finish"})

\* The service does not stay with a silent host: it is released, or a packet
\* comes, whatever is done to the clock (packet_io.c:77-121).
SilentHostReleased ==
  status = "captured"
    ~> (status # "captured" \/ service \in {"process", "none", "finish"})

\* The device sleeps without a thread of the services and without a socket of
\* them, also after a sleep that was called off when some had ended already.
AsleepAlone ==
  main = "asleep" =>
    server = "none" /\ service = "none" /\ request = None /\ ~socket

\* main does not wait for ever for the network to end (main.c:1317), whatever
\* rendezvous or loop its threads are in.
SleepIsReached == main = "wait" ~> main # "wait"
=============================================================================
