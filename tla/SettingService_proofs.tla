----------------------- MODULE SettingService_proofs -----------------------
(***************************************************************************)
(* Proofs about SettingService: for any hosts, values and period, the      *)
(* types, that nobody takes the service from the host that has it, that no *)
(* change of a setting is forgotten, and that the device sleeps without    *)
(* threads of the services.                                                *)
(***************************************************************************)
EXTENDS SettingService, TLAPS

\* The threads and what they wait for: the server lives while the thread of
\* the network starts or runs it, the service only after it.
LifeInv ==
  /\ main \in {"run", "wait", "asleep"}
  /\ net \in {"start", "wait server", "start services", "loop", "end", "met", "none"}
  /\ server \in {"none", "init", "run", "session", "status", "finish"}
  /\ service \in {"none", "poll", "release", "iface", "read", "process",
                  "changes", "save", "clear", "lock", "finish"}
  /\ net = "none" <=> main = "asleep"
  /\ server = "init" => net = "wait server"
  /\ server # "none" => net \in {"wait server", "start services", "loop", "end"}
  /\ service # "none" => net \in {"loop", "end"}

\* A request belongs to a step of the server, a packet to one of the service,
\* and the service reads only from a socket.
WorkInv ==
  /\ request \in Request \cup {None} /\ packet \in Orders \cup {None}
  /\ request # None <=> server \in {"session", "status"}
  /\ packet # None <=> service = "process"
  /\ socket => service \notin {"none", "finish"}
  /\ service \in {"read", "process"} => socket

\* What is left of a request takes the service.
Asks(r) == \E i \in DOMAIN r.fields : r.fields[i] = "captured"

\* Who takes a captured service by a request that was checked as a whole is
\* the host that has it; before the status is written the session is the
\* host's.
OwnerInv ==
  /\ status \in Status
  /\ session \in Host \cup {None}
  /\ status = "captured" => session \in Host
  /\ server = "session" => Head(request.fields) = "captured"
  /\ request # None /\ request.length < 256 /\ Asks(request)
       /\ status = "captured" => session = request.host
  /\ server = "status" /\ Head(request.fields) = "captured" =>
       session = request.host

\* The flag is cleared only when the file has the value or the exception is
\* noted already.
ChangeInv ==
  /\ {settings, saved} \subseteq Value
  /\ changed \in BOOLEAN /\ forgotten \in BOOLEAN
  /\ NoChangeForgotten
  /\ service = "clear" /\ settings # saved => forgotten

OtherInv ==
  /\ capture \in {"off", "stream", "record"}
  /\ age \in 0 .. Period /\ due \in BOOLEAN

\* The invariant that the steps keep.
IInv == LifeInv /\ WorkInv /\ OwnerInv /\ ChangeInv /\ OtherInv

-----------------------------------------------------------------------------
(* Each step keeps the order in which threads start and end.               *)
LEMMA LifeStep == LifeInv /\ [Next]_vars => LifeInv'
  <1> SUFFICES ASSUME LifeInv, [Next]_vars PROVE LifeInv'
    OBVIOUS
  <1> USE DEF LifeInv
  <1>1. CASE StartCapture
    BY <1>1 DEF StartCapture, serving, working, owner, time, values, flags
  <1>2. CASE StopCapture
    BY <1>2 DEF StopCapture, serving, working, owner, time, values, flags
  <1>3. CASE GoToSleep
    BY <1>3 DEF GoToSleep, serving, working, owner, time, values, flags
  <1>4. CASE Sleep
    BY <1>4 DEF Sleep, serving, working, owner, time, values, flags
  <1>5. CASE Wake
    BY <1>5 DEF Wake, serving, working, owner, time, values, flags
  <1>6. CASE NetStarts
    BY <1>6 DEF NetStarts, working, owner, time, values, flags
  <1>7. CASE ServiceStarts
    BY <1>7 DEF ServiceStarts, serving, owner, time, values
  <1>8. CASE NetEnds
    BY <1>8 DEF NetEnds, serving, working, owner, time, values, flags
  <1>9. CASE JoinServer
    BY <1>9 DEF JoinServer, device, working, owner, time, values, flags
  <1>10. CASE JoinService
    BY <1>10 DEF JoinService, device, serving, owner, time, values, flags
  <1>11. CASE NetMeets
    BY <1>11 DEF NetMeets, serving, working, owner, time, values, flags
  <1>12. CASE ServerStarts
    BY <1>12 DEF ServerStarts, working, time, values, flags
  <1>13. CASE SetSession
    BY <1>13 DEF SetSession, device, working, time, values, flags
  <1>14. CASE SetStatus
    BY <1>14 DEF SetStatus, StepOf, device, working, time, values, flags
  <1>15. CASE ServerEnds
    BY <1>15 DEF ServerEnds, device, working, owner, time, values, flags
  <1>16. CASE CheckReleaseTime
    BY <1>16 DEF CheckReleaseTime, ServiceGoes, device, serving, owner,
       values, flags
  <1>17. CASE Release
    BY <1>17 DEF Release, ServiceGoes, device, serving, values, flags
  <1>18. CASE CheckInterface
    BY <1>18 DEF CheckInterface, ServiceGoes, device, serving, owner, time,
       values, flags
  <1>19. CASE ReadNothing
    BY <1>19 DEF ReadNothing, ServiceGoes, device, serving, owner, time,
       values, flags
  <1>20. CASE Process
    BY <1>20 DEF Process, device, serving, owner
  <1>21. CASE DoConfigChanges
    BY <1>21 DEF DoConfigChanges, ServiceGoes, device, serving, owner, values,
       flags
  <1>22. CASE Save
    BY <1>22 DEF Save, ServiceGoes, device, serving, owner, time
  <1>23. CASE Clear
    BY <1>23 DEF Clear, ServiceGoes, device, serving, owner, time, values
  <1>24. CASE Protect
    BY <1>24 DEF Protect, ServiceGoes, device, serving, owner, time, values
  <1>25. CASE ServiceEnds
    BY <1>25 DEF ServiceEnds, ServiceGoes, device, serving, owner, time,
       values, flags
  <1>26. CASE Tick
    BY <1>26 DEF Tick, device, serving, working, owner, values, flags
  <1>27. CASE PowerCut
    BY <1>27 DEF PowerCut, Reboot
  <1>28. CASE Crash
    BY <1>28 DEF Crash, Reboot
  <1>29. ASSUME NEW h \in Host, NEW d \in Data, ReadRequest(h, d)
        PROVE  LifeInv'
    BY <1>29 DEF ReadRequest, StepOf, device, working, owner, time, values,
       flags
  <1>30. ASSUME NEW h \in Host, NEW o \in Orders, ReadPacket(h, o)
        PROVE  LifeInv'
    BY <1>30 DEF ReadPacket, device, serving, owner, values, flags
  <1>31. ASSUME NEW v \in Value, RadioSets(v)
        PROVE  LifeInv'
    BY <1>31 DEF RadioSets, device, serving, working, owner, time
  <1>32. CASE UNCHANGED vars
    BY <1>32 DEF vars, device, serving, working, owner, time, values, flags
  <1> QED
    BY <1>1, <1>2, <1>3, <1>4, <1>5, <1>6, <1>7, <1>8, <1>9, <1>10, <1>11,
       <1>12, <1>13, <1>14, <1>15, <1>16, <1>17, <1>18, <1>19, <1>20, <1>21,
       <1>22, <1>23, <1>24, <1>25, <1>26, <1>27, <1>28, <1>29, <1>30, <1>31,
       <1>32
       DEF Next, Main, Net, Answer, Serve

(* A request is not the absence of one, a packet neither.                  *)
LEMMA NoneIsNothing == None \notin Request /\ None \notin Orders
  BY DEF None, Request, Orders, Short

(* What is left of a request without its first field is one, or nothing.   *)
LEMMA RestOfRequest ==
  ASSUME NEW r \in Request
  PROVE  /\ r.host \in Host /\ r.fields \in Seq(Status) /\ r.fields # <<>>
         /\ Head(r.fields) \in Status /\ Head(r.fields) = r.fields[1]
         /\ 1 \in DOMAIN r.fields
         /\ StepOf(Tail(r.fields)) = "run" <=> Tail(r.fields) = <<>>
         /\ StepOf(Tail(r.fields)) \in {"run", "session", "status"}
         /\ StepOf(Tail(r.fields)) = "session" =>
              Head(Tail(r.fields)) = "captured"
         /\ StepOf(Tail(r.fields)) = "status" =>
              Head(Tail(r.fields)) # "captured"
         /\ Tail(r.fields) # <<>> =>
              [r EXCEPT !.fields = Tail(@)] \in Request
         /\ \A i \in DOMAIN Tail(r.fields) :
              i + 1 \in DOMAIN r.fields /\ Tail(r.fields)[i] = r.fields[i + 1]
  <1>1. /\ r.host \in Host /\ r.fields \in Seq(Status) /\ r.fields # <<>>
        /\ r.length \in Nat /\ r = [host |-> r.host, fields |-> r.fields,
                                   length |-> r.length]
    BY DEF Request
  <1>2. /\ Tail(r.fields) \in Seq(Status) /\ Head(r.fields) \in Status
        /\ Head(r.fields) = r.fields[1] /\ 1 \in DOMAIN r.fields
        /\ \A i \in DOMAIN Tail(r.fields) :
             i + 1 \in DOMAIN r.fields /\ Tail(r.fields)[i] = r.fields[i + 1]
    BY <1>1
  <1>3. Tail(r.fields) # <<>> => [r EXCEPT !.fields = Tail(@)] \in Request
    BY <1>1, <1>2 DEF Request
  <1>4. /\ StepOf(Tail(r.fields)) = "run" <=> Tail(r.fields) = <<>>
        /\ StepOf(Tail(r.fields)) \in {"run", "session", "status"}
        /\ StepOf(Tail(r.fields)) = "session" => Head(Tail(r.fields)) = "captured"
        /\ StepOf(Tail(r.fields)) = "status" => Head(Tail(r.fields)) # "captured"
    BY DEF StepOf
  <1> QED
    BY <1>1, <1>2, <1>3, <1>4

(* The data of a request, as the check lets it through.                    *)
LEMMA DataRead ==
  ASSUME NEW h \in Host, NEW d \in Data, ReadRequest(h, d)
  PROVE  /\ request' = [host |-> h, fields |-> d.fields, length |-> d.length]
         /\ request' \in Request
         /\ server' \in {"session", "status"}
         /\ server' = "session" <=> Head(d.fields) = "captured"
         /\ d.length < 256 => \A i \in DOMAIN d.fields : Permitted(h, d.fields[i])
  <1>1. /\ d.fields \in Seq(Status) /\ d.length \in Nat
        /\ Len(d.fields) \in 1 .. d.length \div 3
        /\ d.length < 256 => Len(d.fields) = d.length \div 3
    BY DataAssumption
  <1>2. d.fields # <<>> /\ DOMAIN d.fields = 1 .. Len(d.fields)
    BY <1>1
  <1>3. /\ request' = [host |-> h, fields |-> d.fields, length |-> d.length]
        /\ server' = StepOf(d.fields)
        /\ \A i \in DOMAIN d.fields : i <= Checked(d) => Permitted(h, d.fields[i])
    BY DEF ReadRequest
  <1>4. d.length < 256 => Checked(d) = Len(d.fields)
    BY <1>1 DEF Checked, U8
  <1>5. request' \in Request
    BY <1>1, <1>2, <1>3 DEF Request
  <1>6. /\ server' \in {"session", "status"}
        /\ server' = "session" <=> Head(d.fields) = "captured"
    BY <1>2, <1>3 DEF StepOf
  <1>7. d.length < 256 => \A i \in DOMAIN d.fields : Permitted(h, d.fields[i])
    BY <1>1, <1>2, <1>3, <1>4
  <1> QED
    BY <1>3, <1>5, <1>6, <1>7

(* Each step keeps requests, packets and the socket with their threads.    *)
LEMMA WorkStep == LifeInv /\ WorkInv /\ [Next]_vars => WorkInv'
  <1> SUFFICES ASSUME LifeInv, WorkInv, [Next]_vars PROVE WorkInv'
    OBVIOUS
  <1> USE DEF LifeInv, WorkInv
  <1>1. CASE StartCapture
    BY <1>1, NoneIsNothing DEF StartCapture, serving, working, owner, time,
       values, flags
  <1>2. CASE StopCapture
    BY <1>2, NoneIsNothing DEF StopCapture, serving, working, owner, time,
       values, flags
  <1>3. CASE GoToSleep
    BY <1>3, NoneIsNothing DEF GoToSleep, serving, working, owner, time,
       values, flags
  <1>4. CASE Sleep
    BY <1>4, NoneIsNothing DEF Sleep, serving, working, owner, time, values,
       flags
  <1>5. CASE Wake
    BY <1>5, NoneIsNothing DEF Wake, serving, working, owner, time, values,
       flags
  <1>6. CASE NetStarts
    BY <1>6, NoneIsNothing DEF NetStarts, working, owner, time, values, flags
  <1>7. CASE ServiceStarts
    BY <1>7, NoneIsNothing DEF ServiceStarts, serving, owner, time, values
  <1>8. CASE NetEnds
    BY <1>8, NoneIsNothing DEF NetEnds, serving, working, owner, time, values,
       flags
  <1>9. CASE JoinServer
    BY <1>9, NoneIsNothing DEF JoinServer, device, working, owner, time,
       values, flags
  <1>10. CASE JoinService
    BY <1>10, NoneIsNothing DEF JoinService, device, serving, owner, time,
       values, flags
  <1>11. CASE NetMeets
    BY <1>11, NoneIsNothing DEF NetMeets, serving, working, owner, time,
       values, flags
  <1>12. CASE ServerStarts
    BY <1>12, NoneIsNothing DEF ServerStarts, working, time, values, flags
  <1>13. CASE SetSession
    BY <1>13, NoneIsNothing DEF SetSession, device, working, time, values,
       flags
  <1>14. CASE SetStatus
    <2>1. request \in Request
      BY <1>14 DEF SetStatus
    <2>2. \/ request' = None /\ server' = "run"
          \/ request' \in Request /\ server' \in {"session", "status"}
      <3>1. CASE Tail(request.fields) = <<>>
        BY <1>14, <2>1, <3>1, RestOfRequest DEF SetStatus
      <3>2. CASE Tail(request.fields) # <<>>
        BY <1>14, <2>1, <3>2, RestOfRequest DEF SetStatus
      <3> QED
        BY <3>1, <3>2
    <2> QED
      BY <1>14, <2>2, NoneIsNothing DEF SetStatus, device, working
  <1>15. CASE ServerEnds
    BY <1>15, NoneIsNothing DEF ServerEnds, device, working, owner, time,
       values, flags
  <1>16. CASE CheckReleaseTime
    BY <1>16, NoneIsNothing DEF CheckReleaseTime, ServiceGoes, device,
       serving, owner, values, flags
  <1>17. CASE Release
    BY <1>17, NoneIsNothing DEF Release, ServiceGoes, device, serving, values,
       flags
  <1>18. CASE CheckInterface
    BY <1>18, NoneIsNothing DEF CheckInterface, ServiceGoes, device, serving,
       owner, time, values, flags
  <1>19. CASE ReadNothing
    BY <1>19, NoneIsNothing DEF ReadNothing, ServiceGoes, device, serving,
       owner, time, values, flags
  <1>20. CASE Process
    BY <1>20, NoneIsNothing DEF Process, device, serving, owner, None
  <1>21. CASE DoConfigChanges
    BY <1>21, NoneIsNothing DEF DoConfigChanges, ServiceGoes, device, serving,
       owner, values, flags
  <1>22. CASE Save
    BY <1>22, NoneIsNothing DEF Save, ServiceGoes, device, serving, owner,
       time
  <1>23. CASE Clear
    BY <1>23, NoneIsNothing DEF Clear, ServiceGoes, device, serving, owner,
       time, values
  <1>24. CASE Protect
    BY <1>24, NoneIsNothing DEF Protect, ServiceGoes, device, serving, owner,
       time, values
  <1>25. CASE ServiceEnds
    BY <1>25, NoneIsNothing DEF ServiceEnds, ServiceGoes, device, serving,
       owner, time, values, flags
  <1>26. CASE Tick
    BY <1>26, NoneIsNothing DEF Tick, device, serving, working, owner, values,
       flags
  <1>27. CASE PowerCut
    BY <1>27, NoneIsNothing DEF PowerCut, Reboot, None
  <1>28. CASE Crash
    BY <1>28, NoneIsNothing DEF Crash, Reboot, None
  <1>29. ASSUME NEW h \in Host, NEW d \in Data, ReadRequest(h, d)
        PROVE  WorkInv'
    BY <1>29, DataRead, NoneIsNothing DEF ReadRequest, device, working
  <1>30. ASSUME NEW h \in Host, NEW o \in Orders, ReadPacket(h, o)
        PROVE  WorkInv'
    BY <1>30, NoneIsNothing DEF ReadPacket, device, serving, owner, values,
       flags
  <1>31. ASSUME NEW v \in Value, RadioSets(v)
        PROVE  WorkInv'
    BY <1>31, NoneIsNothing DEF RadioSets, device, serving, working, owner,
       time
  <1>32. CASE UNCHANGED vars
    BY <1>32, NoneIsNothing DEF vars, device, serving, working, owner, time,
       values, flags
  <1> QED
    BY <1>1, <1>2, <1>3, <1>4, <1>5, <1>6, <1>7, <1>8, <1>9, <1>10, <1>11,
       <1>12, <1>13, <1>14, <1>15, <1>16, <1>17, <1>18, <1>19, <1>20, <1>21,
       <1>22, <1>23, <1>24, <1>25, <1>26, <1>27, <1>28, <1>29, <1>30, <1>31,
       <1>32
       DEF Next, Main, Net, Answer, Serve

(* Each step keeps the account of who has the service and who gets it.     *)
LEMMA OwnerStep ==
  LifeInv /\ WorkInv /\ OwnerInv /\ [Next]_vars => OwnerInv'
  <1> SUFFICES ASSUME LifeInv, WorkInv, OwnerInv, [Next]_vars PROVE OwnerInv'
    OBVIOUS
  <1> USE DEF OwnerInv
  <1>0. request # None => request \in Request
    BY DEF WorkInv
  <1>1. CASE UNCHANGED <<serving, owner>>
    BY <1>1 DEF serving, owner, Asks
  <1>2. CASE NetStarts
    BY <1>2 DEF NetStarts, owner, Asks
  <1>3. CASE JoinServer
    BY <1>3 DEF JoinServer, owner, Asks
  <1>4. CASE ServerStarts
    BY <1>4 DEF ServerStarts, Status
  <1>5. ASSUME NEW h \in Host, NEW d \in Data, ReadRequest(h, d)
        PROVE  OwnerInv'
    <2>1. d.length < 256 /\ status = "captured"
            /\ (\E i \in DOMAIN d.fields : d.fields[i] = "captured") => session = h
      BY <1>5, DataRead DEF Permitted
    <2>2. /\ UNCHANGED <<status, session>>
          /\ request' = [host |-> h, fields |-> d.fields, length |-> d.length]
          /\ server' \in {"session", "status"}
          /\ server' = "session" <=> Head(d.fields) = "captured"
      BY <1>5, DataRead DEF ReadRequest, owner
    <2>3. Asks(request)' => \E i \in DOMAIN d.fields : d.fields[i] = "captured"
      BY <2>2 DEF Asks
    <2> QED
      BY <2>1, <2>2, <2>3
  <1>6. CASE SetSession
    <2>1. request \in Request
      BY <1>0, <1>6 DEF SetSession, WorkInv
    <2> QED
      BY <1>6, <2>1, RestOfRequest DEF SetSession, Asks
  <1>7. CASE SetStatus
    <2>1. request \in Request
      BY <1>0, <1>7 DEF SetStatus, WorkInv
    <2>2. /\ status' = Head(request.fields) /\ session' = session
          /\ server = "status" /\ server' = StepOf(Tail(request.fields))
          /\ request' = IF Tail(request.fields) = <<>> THEN None
                        ELSE [request EXCEPT !.fields = Tail(@)]
      BY <1>7 DEF SetStatus
    <2>3. status' = "captured" => session = request.host /\ session \in Host
      BY <2>1, <2>2, RestOfRequest
    <2>4. CASE Tail(request.fields) = <<>>
      BY <2>1, <2>2, <2>3, <2>4, RestOfRequest
    <2>5. CASE Tail(request.fields) # <<>>
      <3>1. request'.host = request.host /\ request'.fields = Tail(request.fields)
        BY <2>1, <2>2, <2>5 DEF Request
      <3>2. status' \in Status /\ session' \in Host \cup {None}
        BY <2>1, <2>2, RestOfRequest
      <3>3. /\ server' = "session" => Head(request'.fields) = "captured"
            /\ server' = "status" => Head(request'.fields) # "captured"
        BY <2>1, <2>2, <3>1, RestOfRequest
      <3> QED
        BY <2>2, <2>3, <3>1, <3>2, <3>3
    <2> QED
      BY <2>4, <2>5
  <1>8. CASE ServerEnds
    BY <1>8 DEF ServerEnds, owner, Asks
  <1>9. CASE Release
    BY <1>9 DEF Release, serving, Asks, Status
  <1>10. CASE PowerCut \/ Crash
    BY <1>10 DEF PowerCut, Crash, Reboot, Status
  <1>11. CASE StartCapture
    BY <1>1, <1>11 DEF StartCapture, serving, owner
  <1>12. CASE StopCapture
    BY <1>1, <1>12 DEF StopCapture, serving, owner
  <1>13. CASE GoToSleep
    BY <1>1, <1>13 DEF GoToSleep, serving, owner
  <1>14. CASE Sleep
    BY <1>1, <1>14 DEF Sleep, serving, owner
  <1>15. CASE Wake
    BY <1>1, <1>15 DEF Wake, serving, owner
  <1>16. CASE ServiceStarts
    BY <1>1, <1>16 DEF ServiceStarts, serving, owner
  <1>17. CASE NetEnds
    BY <1>1, <1>17 DEF NetEnds, serving, owner
  <1>18. CASE JoinService
    BY <1>1, <1>18 DEF JoinService, serving, owner
  <1>19. CASE NetMeets
    BY <1>1, <1>19 DEF NetMeets, serving, owner
  <1>20. CASE CheckReleaseTime
    BY <1>1, <1>20 DEF CheckReleaseTime, serving, owner
  <1>21. CASE CheckInterface
    BY <1>1, <1>21 DEF CheckInterface, serving, owner
  <1>22. CASE ReadNothing
    BY <1>1, <1>22 DEF ReadNothing, serving, owner
  <1>23. CASE Process
    BY <1>1, <1>23 DEF Process, serving, owner
  <1>24. CASE DoConfigChanges
    BY <1>1, <1>24 DEF DoConfigChanges, serving, owner
  <1>25. CASE Save
    BY <1>1, <1>25 DEF Save, serving, owner
  <1>26. CASE Clear
    BY <1>1, <1>26 DEF Clear, serving, owner
  <1>27. CASE Protect
    BY <1>1, <1>27 DEF Protect, serving, owner
  <1>28. CASE ServiceEnds
    BY <1>1, <1>28 DEF ServiceEnds, serving, owner
  <1>29. CASE Tick
    BY <1>1, <1>29 DEF Tick, serving, owner
  <1>30. ASSUME NEW h \in Host, NEW o \in Orders, ReadPacket(h, o)
        PROVE  OwnerInv'
    BY <1>1, <1>30 DEF ReadPacket, serving, owner
  <1>31. ASSUME NEW v \in Value, RadioSets(v)
        PROVE  OwnerInv'
    BY <1>1, <1>31 DEF RadioSets, serving, owner
  <1>32. CASE UNCHANGED vars
    BY <1>1, <1>32 DEF vars
  <1> QED
    BY <1>2, <1>3, <1>4, <1>5, <1>6, <1>7, <1>8, <1>9, <1>10, <1>11, <1>12,
       <1>13, <1>14, <1>15, <1>16, <1>17, <1>18, <1>19, <1>20, <1>21, <1>22,
       <1>23, <1>24, <1>25, <1>26, <1>27, <1>28, <1>29, <1>30, <1>31, <1>32
       DEF Next, Main, Net, Answer, Serve

(* Each step keeps the account of changes that are not saved yet.          *)
LEMMA ChangeStep ==
  LifeInv /\ WorkInv /\ ChangeInv /\ [Next]_vars => ChangeInv'
  <1> SUFFICES ASSUME LifeInv, WorkInv, ChangeInv, [Next]_vars PROVE ChangeInv'
    OBVIOUS
  <1> USE DEF ChangeInv
  <1>1. CASE UNCHANGED <<settings, saved, changed, forgotten, service>>
    BY <1>1 DEF NoChangeForgotten
  <1>2. CASE ServiceStarts
    BY <1>2 DEF ServiceStarts, NoChangeForgotten, values
  <1>3. CASE JoinService
    BY <1>3 DEF JoinService, NoChangeForgotten, values, flags
  <1>4. CASE CheckReleaseTime
    BY <1>4 DEF CheckReleaseTime, ServiceGoes, NoChangeForgotten, values, flags
  <1>5. CASE Release
    BY <1>5 DEF Release, ServiceGoes, NoChangeForgotten, values, flags
  <1>6. CASE CheckInterface
    BY <1>6 DEF CheckInterface, ServiceGoes, NoChangeForgotten, values, flags
  <1>7. CASE ReadNothing
    BY <1>7 DEF ReadNothing, ServiceGoes, NoChangeForgotten, values, flags
  <1>8. ASSUME NEW h \in Host, NEW o \in Orders, ReadPacket(h, o)
        PROVE  ChangeInv'
    BY <1>8 DEF ReadPacket, NoChangeForgotten, values, flags
  <1>9. CASE Process
    <2>1. settings' \in Value
      BY <1>9, NoneIsNothing DEF Process, WorkInv, Orders, Short
    <2>2. settings' # saved => changed' \/ forgotten'
      BY <1>9 DEF Process, NoChangeForgotten
    <2> QED
      BY <1>9, <2>1, <2>2 DEF Process, NoChangeForgotten
  <1>10. CASE DoConfigChanges
    BY <1>10 DEF DoConfigChanges, ServiceGoes, NoChangeForgotten, values, flags
  <1>11. CASE Save
    BY <1>11 DEF Save, ServiceGoes, NoChangeForgotten
  <1>12. CASE Clear
    BY <1>12 DEF Clear, ServiceGoes, NoChangeForgotten, values
  <1>13. CASE Protect
    BY <1>13 DEF Protect, ServiceGoes, NoChangeForgotten, values
  <1>14. CASE ServiceEnds
    BY <1>14 DEF ServiceEnds, ServiceGoes, NoChangeForgotten, values, flags
  <1>15. ASSUME NEW v \in Value, RadioSets(v)
        PROVE  ChangeInv'
    BY <1>15 DEF RadioSets, NoChangeForgotten, working
  <1>16. CASE PowerCut \/ Crash
    BY <1>16 DEF PowerCut, Crash, Reboot, NoChangeForgotten
  <1>17. CASE StartCapture
    BY <1>1, <1>17 DEF StartCapture, serving, working, owner, time, values,
       flags
  <1>18. CASE StopCapture
    BY <1>1, <1>18 DEF StopCapture, serving, working, owner, time, values,
       flags
  <1>19. CASE GoToSleep
    BY <1>1, <1>19 DEF GoToSleep, serving, working, owner, time, values, flags
  <1>20. CASE Sleep
    BY <1>1, <1>20 DEF Sleep, serving, working, owner, time, values, flags
  <1>21. CASE Wake
    BY <1>1, <1>21 DEF Wake, serving, working, owner, time, values, flags
  <1>22. CASE NetStarts
    BY <1>1, <1>22 DEF NetStarts, working, owner, time, values, flags
  <1>23. CASE NetEnds
    BY <1>1, <1>23 DEF NetEnds, serving, working, owner, time, values, flags
  <1>24. CASE JoinServer
    BY <1>1, <1>24 DEF JoinServer, device, working, owner, time, values, flags
  <1>25. CASE NetMeets
    BY <1>1, <1>25 DEF NetMeets, serving, working, owner, time, values, flags
  <1>26. CASE ServerStarts
    BY <1>1, <1>26 DEF ServerStarts, working, time, values, flags
  <1>27. CASE SetSession
    BY <1>1, <1>27 DEF SetSession, device, working, time, values, flags
  <1>28. CASE SetStatus
    BY <1>1, <1>28 DEF SetStatus, device, working, time, values, flags
  <1>29. CASE ServerEnds
    BY <1>1, <1>29 DEF ServerEnds, device, working, owner, time, values, flags
  <1>30. CASE Tick
    BY <1>1, <1>30 DEF Tick, device, serving, working, owner, values, flags
  <1>31. ASSUME NEW h \in Host, NEW d \in Data, ReadRequest(h, d)
        PROVE  ChangeInv'
    BY <1>1, <1>31 DEF ReadRequest, device, working, owner, time, values,
       flags
  <1>32. CASE UNCHANGED vars
    BY <1>1, <1>32 DEF vars, device, serving, working, owner, time, values,
       flags
  <1> QED
    BY <1>2, <1>3, <1>4, <1>5, <1>6, <1>7, <1>8, <1>9, <1>10, <1>11, <1>12,
       <1>13, <1>14, <1>15, <1>16, <1>17, <1>18, <1>19, <1>20, <1>21, <1>22,
       <1>23, <1>24, <1>25, <1>26, <1>27, <1>28, <1>29, <1>30, <1>31, <1>32
       DEF Next, Main, Net, Answer, Serve

(* Each step keeps the types of the rest.                                  *)
LEMMA OtherStep ==
  OtherInv /\ [Next]_vars => OtherInv'
  <1> SUFFICES ASSUME OtherInv, [Next]_vars PROVE OtherInv'
    OBVIOUS
  <1> USE DEF OtherInv
  <1>1. CASE UNCHANGED <<capture, age, due>>
    BY <1>1
  <1>2. CASE StartCapture
    BY <1>2 DEF StartCapture, time
  <1>3. CASE StopCapture
    BY <1>3 DEF StopCapture, time
  <1>4. CASE CheckReleaseTime
    BY <1>4, PeriodAssumption DEF CheckReleaseTime, device
  <1>5. CASE Release
    BY <1>5, PeriodAssumption DEF Release, device
  <1>6. ASSUME NEW h \in Host, NEW o \in Orders, ReadPacket(h, o)
        PROVE  OtherInv'
    BY <1>6, PeriodAssumption DEF ReadPacket, device
  <1>7. CASE Process
    BY <1>7 DEF Process, device
  <1>8. CASE DoConfigChanges
    BY <1>8 DEF DoConfigChanges, device
  <1>9. CASE Tick
    BY <1>9, PeriodAssumption DEF Tick, device
  <1>10. CASE PowerCut \/ Crash
    <2>1. 0 \in 0 .. Period
      BY PeriodAssumption
    <2> QED
      BY <1>10, <2>1 DEF PowerCut, Crash, Reboot
  <1>11. CASE GoToSleep
    BY <1>1, <1>11 DEF GoToSleep, serving, working, owner, time, values, flags
  <1>12. CASE Sleep
    BY <1>1, <1>12 DEF Sleep, serving, working, owner, time, values, flags
  <1>13. CASE Wake
    BY <1>1, <1>13 DEF Wake, serving, working, owner, time, values, flags
  <1>14. CASE NetStarts
    BY <1>1, <1>14 DEF NetStarts, working, owner, time, values, flags
  <1>15. CASE ServiceStarts
    BY <1>1, <1>15 DEF ServiceStarts, serving, owner, time, values
  <1>16. CASE NetEnds
    BY <1>1, <1>16 DEF NetEnds, serving, working, owner, time, values, flags
  <1>17. CASE JoinServer
    BY <1>1, <1>17 DEF JoinServer, device, working, owner, time, values, flags
  <1>18. CASE JoinService
    BY <1>1, <1>18 DEF JoinService, device, serving, owner, time, values,
       flags
  <1>19. CASE NetMeets
    BY <1>1, <1>19 DEF NetMeets, serving, working, owner, time, values, flags
  <1>20. CASE ServerStarts
    BY <1>1, <1>20 DEF ServerStarts, working, time, values, flags
  <1>21. CASE SetSession
    BY <1>1, <1>21 DEF SetSession, device, working, time, values, flags
  <1>22. CASE SetStatus
    BY <1>1, <1>22 DEF SetStatus, device, working, time, values, flags
  <1>23. CASE ServerEnds
    BY <1>1, <1>23 DEF ServerEnds, device, working, owner, time, values, flags
  <1>24. CASE CheckInterface
    BY <1>1, <1>24 DEF CheckInterface, ServiceGoes, device, serving, owner,
       time, values, flags
  <1>25. CASE ReadNothing
    BY <1>1, <1>25 DEF ReadNothing, ServiceGoes, device, serving, owner, time,
       values, flags
  <1>26. CASE Save
    BY <1>1, <1>26 DEF Save, ServiceGoes, device, serving, owner, time
  <1>27. CASE Clear
    BY <1>1, <1>27 DEF Clear, ServiceGoes, device, serving, owner, time,
       values
  <1>28. CASE Protect
    BY <1>1, <1>28 DEF Protect, ServiceGoes, device, serving, owner, time,
       values
  <1>29. CASE ServiceEnds
    BY <1>1, <1>29 DEF ServiceEnds, ServiceGoes, device, serving, owner, time,
       values, flags
  <1>30. ASSUME NEW h \in Host, NEW d \in Data, ReadRequest(h, d)
        PROVE  OtherInv'
    BY <1>1, <1>30 DEF ReadRequest, device, working, owner, time, values,
       flags
  <1>31. ASSUME NEW v \in Value, RadioSets(v)
        PROVE  OtherInv'
    BY <1>1, <1>31 DEF RadioSets, device, serving, working, owner, time
  <1>32. CASE UNCHANGED vars
    BY <1>1, <1>32 DEF vars, device, serving, working, owner, time, values,
       flags
  <1> QED
    BY <1>2, <1>3, <1>4, <1>5, <1>6, <1>7, <1>8, <1>9, <1>10, <1>11, <1>12,
       <1>13, <1>14, <1>15, <1>16, <1>17, <1>18, <1>19, <1>20, <1>21, <1>22,
       <1>23, <1>24, <1>25, <1>26, <1>27, <1>28, <1>29, <1>30, <1>31, <1>32
       DEF Next, Main, Net, Answer, Serve

-----------------------------------------------------------------------------
(* Every reachable state satisfies the invariant.                          *)
THEOREM Inductive == Spec => []IInv
  <1>1. Init => IInv
    <2> SUFFICES ASSUME Init PROVE IInv
      OBVIOUS
    <2>1. 0 \in 0 .. Period
      BY PeriodAssumption
    <2>2. LifeInv /\ OtherInv
      BY <2>1 DEF Init, LifeInv, OtherInv
    <2>3. WorkInv /\ OwnerInv
      BY DEF Init, WorkInv, OwnerInv, Status
    <2>4. ChangeInv
      BY DEF Init, ChangeInv, NoChangeForgotten
    <2> QED
      BY <2>2, <2>3, <2>4 DEF IInv
  <1>2. IInv /\ [Next]_vars => IInv'
    BY LifeStep, WorkStep, OwnerStep, ChangeStep, OtherStep DEF IInv
  <1> QED
    BY <1>1, <1>2, PTL DEF Spec

(* The threads, the requests and packets they execute and the socket agree *)
(* (avrec_service.c:463-530, setting_server.c:35-110).                     *)
THEOREM TypeCorrect == Spec => []TypeOK
  <1>1. IInv => TypeOK
    BY DEF IInv, LifeInv, WorkInv, OwnerInv, ChangeInv, OtherInv, TypeOK
  <1> QED
    BY Inductive, <1>1, PTL

(* No change of a setting stays out of the file unless the flag is set or  *)
(* one of the code's exceptions is met (avrec_service.c:612-637).          *)
THEOREM NothingForgotten == Spec => []NoChangeForgotten
  <1>1. IInv => NoChangeForgotten
    BY DEF IInv, ChangeInv
  <1> QED
    BY Inductive, <1>1, PTL

(* The device never sleeps while a thread of the services lives or has its *)
(* socket (net_connection.c:1294-1327).                                    *)
THEOREM AlwaysAsleepAlone == Spec => []AsleepAlone
  <1>1. IInv => AsleepAlone
    BY DEF IInv, LifeInv, WorkInv, AsleepAlone
  <1> QED
    BY Inductive, <1>1, PTL

(* No host takes the service from another that has it, with any number of  *)
(* hosts that ask for it while the service releases it by time, unless its *)
(* request is longer than the check sees (setting_server.c:190-340,        *)
(* packet_io.c:119).                                                       *)
THEOREM NobodyStolenFrom == Spec => NoStealing
  <1> DEFINE Keeps ==
        status = "captured" /\ status' = "captured" /\ ~CheckedInPart
          => session' = session
  <1>1. IInv /\ [Next]_vars => [Keeps]_vars
    <2> SUFFICES ASSUME IInv, Next, status = "captured", status' = "captured",
                        ~CheckedInPart
                 PROVE  session' = session
      OBVIOUS
    <2>1. CASE SetSession
      <3>1. request # None /\ request \in Request
        BY <2>1 DEF SetSession, IInv, WorkInv
      <3>2. request.length \in Nat /\ ~(request.length > 255)
        BY <3>1 DEF CheckedInPart, Request
      <3>3. request.length < 256
        BY <3>2
      <3>4. Asks(request)
        BY <2>1, <3>1, RestOfRequest DEF SetSession, IInv, OwnerInv, Asks
      <3> QED
        BY <2>1, <3>1, <3>3, <3>4 DEF SetSession, IInv, OwnerInv
    <2>2. CASE PowerCut \/ Crash
      BY <2>2 DEF PowerCut, Crash, Reboot
    <2>3. CASE Main \/ Net \/ ServerStarts
      BY <2>3 DEF Main, Net, StartCapture, StopCapture, GoToSleep, Sleep, Wake,
         NetStarts, ServiceStarts, NetEnds, JoinServer, JoinService, NetMeets,
         ServerStarts, owner
    <2>4. CASE SetStatus \/ ServerEnds \/ Tick
      BY <2>4 DEF SetStatus, ServerEnds, Tick, owner
    <2>5. CASE Serve
      BY <2>5 DEF Serve, CheckReleaseTime, Release, CheckInterface,
         ReadNothing, Process, DoConfigChanges, Save, Clear, Protect,
         ServiceEnds, owner
    <2>6. ASSUME NEW h, NEW d, ReadRequest(h, d)
          PROVE  session' = session
      BY <2>6 DEF ReadRequest, owner
    <2>7. ASSUME NEW h, NEW o, ReadPacket(h, o)
          PROVE  session' = session
      BY <2>7 DEF ReadPacket, owner
    <2>8. ASSUME NEW v, RadioSets(v)
          PROVE  session' = session
      BY <2>8 DEF RadioSets, owner
    <2> QED
      BY <2>1, <2>2, <2>3, <2>4, <2>5, <2>6, <2>7, <2>8 DEF Next, Answer
  <1> QED
    BY Inductive, <1>1, PTL DEF Spec, NoStealing
=============================================================================
