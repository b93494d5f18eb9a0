--------------------------- MODULE Network_proofs ---------------------------
(***************************************************************************)
(* Proofs about Network, for any orders and any bounds: no order by radio  *)
(* loses its wake-up, and the streaming thread lives only under the        *)
(* network thread.                                                         *)
(***************************************************************************)
EXTENDS Network, TLAPS

\* The posts of the semaphore cover what the radio is woken for: an order that
\* waits has one of its own beside that of a request for the status, which the
\* radio takes first.
PostsInv ==
  /\ rfSem \in Nat
  /\ update_dev_stat_only \in BOOLEAN /\ interrupt \in BOOLEAN
  /\ order # None /\ ~interrupt /\ radio # "process" => rfSem > 0
  /\ order # None /\ ~interrupt /\ radio = "wait" /\ update_dev_stat_only
       => rfSem > 1

IInv == TypeOK /\ PostsInv

\* What the radio, its orders and its wake-ups consist of.
radioVars == <<order, interrupt, radio, rfSem, update_dev_stat_only>>

\* What the two other threads consist of.
threadVars == <<main, net, wis, watch, streaming_stoped>>

-----------------------------------------------------------------------------
\* A post more and a post less.
LEMMA Posted ==
  ASSUME NEW n \in Nat
  PROVE  n + 0 = n /\ n + 1 \in Nat /\ n + 1 > 0 /\ (n > 0 => n + 1 > 1)
  OBVIOUS

LEMMA Taken ==
  ASSUME NEW n \in Nat
  PROVE  /\ n > 0 => n - 1 \in Nat
         /\ n > 1 => n > 0 /\ n - 1 > 0
         /\ n = 0 => ~(n > 0)
         /\ ~(n > 0) => n = 0
  OBVIOUS

\* At first nobody is posted and nobody waits.
LEMMA InitInv == Init => IInv
<1> SUFFICES ASSUME Init PROVE IInv
  OBVIOUS
<1>1. /\ update_dev_stat_only = FALSE /\ interrupt = FALSE /\ order = None
      /\ rfSem = 0 /\ main = "poll" /\ radio = "wait" /\ net = "start"
      /\ wis = "none"
  BY DEF Init
<1>2. TypeOK
  BY <1>1 DEF TypeOK, Loop
<1>3. PostsInv
  <2>1. rfSem \in Nat
    BY <1>1
  <2> QED
    BY <1>1, <2>1, Zenon DEF PostsInv
<1> QED
  BY <1>2, <1>3 DEF IInv

\* A step of the thread of the network or of the streaming thread leaves the
\* radio alone, and the world but for the clock.
LEMMA RadioUntouched ==
  ASSUME IInv, UNCHANGED radioVars
  PROVE  /\ PostsInv'
         /\ order' \in Orders \cup {None}
         /\ radio' \in {"wait", "process", "update"}
         /\ (update_dev_stat_only => rfSem > 0 \/ radio # "wait")'
  BY DEF IInv, TypeOK, PostsInv, radioVars

\* The same for a step of the radio and the threads.
LEMMA ThreadsUntouched ==
  ASSUME IInv, UNCHANGED threadVars
  PROVE  /\ main' \in {"poll", "command", "sleep", "wait net", "status", "asleep"}
         /\ net' \in Loop \cup {"none", "start", "connect", "services",
                                "connect again", "stop", "stopping", "end", "met"}
         /\ (net = "none" <=> main \in {"status", "asleep"})'
         /\ (net \in {"none", "start", "connect", "services", "met"}
               => wis = "none")'
         /\ (wis = "finish" => streaming_stoped /\ watch)'
  BY DEF IInv, TypeOK, threadVars

\* What comes from outside: orders, connections, bitrates, errors and time.
FromOutside ==
  \/ \E o \in Orders : Send(o)
  \/ FlipSwitch \/ LinkChanges \/ StreamChanges \/ HostRecords \/ Tick

\* It changes under the threads.
LEMMA WorldKeepsInv ==
  ASSUME IInv, FromOutside
  PROVE  IInv'
<1>1. CASE \E o \in Orders : Send(o)
  <2>1. PICK o \in Orders : Send(o)
    BY <1>1
  <2>2. UNCHANGED threadVars
    BY <2>1 DEF Send, threadVars, control, network, stream
  <2>3. /\ PostsInv'
        /\ order' \in Orders \cup {None}
        /\ radio' \in {"wait", "process", "update"}
        /\ (update_dev_stat_only => rfSem > 0 \/ radio # "wait")'
    BY <2>1 DEF Send, IInv, TypeOK, PostsInv, receiver
  <2> QED
    BY <2>2, <2>3, ThreadsUntouched DEF IInv, TypeOK
<1>2. CASE FlipSwitch \/ LinkChanges \/ StreamChanges \/ HostRecords \/ Tick
  <2>1. UNCHANGED radioVars /\ UNCHANGED threadVars
    BY <1>2 DEF FlipSwitch, LinkChanges, StreamChanges, HostRecords, Tick, radioVars, threadVars, world,
                control, receiver, network, stream
  <2> QED
    BY <2>1, RadioUntouched, ThreadsUntouched DEF IInv, TypeOK
<1> QED
  BY <1>1, <1>2 DEF FromOutside

\* main: it posts for every interrupt it takes, and once for the status.
LEMMA MainKeepsInv ==
  ASSUME IInv, Main \/ Wake
  PROVE  IInv'
<1>1. CASE PollPortExpander \/ BeginSleep
  <2>1. /\ order' = order /\ radio' = radio
        /\ update_dev_stat_only' = update_dev_stat_only
        /\ interrupt' = FALSE
        /\ rfSem' = rfSem + (IF interrupt THEN 1 ELSE 0)
    BY <1>1, Zenon DEF PollPortExpander, BeginSleep, ReadInterrupts
  <2>2. /\ PostsInv'
        /\ order' \in Orders \cup {None}
        /\ radio' \in {"wait", "process", "update"}
        /\ (update_dev_stat_only => rfSem > 0 \/ radio # "wait")'
    <3>1. rfSem \in Nat
      BY DEF IInv, PostsInv
    <3>2. CASE interrupt
      <4>1. rfSem' = rfSem + 1
        BY <2>1, <3>2, Zenon
      <4> QED
        BY <2>1, <3>1, <3>2, <4>1, Posted, Zenon DEF IInv, TypeOK, PostsInv
    <3>3. CASE ~interrupt
      <4>1. rfSem' = rfSem + 0
        BY <2>1, <3>3, Zenon
      <4>2. rfSem' = rfSem
        BY <3>1, <4>1, Posted, Zenon
      <4> QED
        BY <2>1, <3>3, <4>2, Zenon DEF IInv, TypeOK, PostsInv
    <3> QED
      BY <3>2, <3>3
  <2>4. /\ main \in {"poll", "sleep"}
        /\ main' \in {"command", "poll", "wait net"}
        /\ UNCHANGED <<net, wis, watch, streaming_stoped>>
    BY <1>1 DEF PollPortExpander, BeginSleep, network, stream
  <2> QED
    BY <2>2, <2>4 DEF IInv, TypeOK
<1>2. CASE ChangeCommand
  <2>1. UNCHANGED radioVars
    BY <1>2 DEF ChangeCommand, radioVars, world, receiver
  <2>2. /\ main = "command" /\ main' \in {"poll", "sleep"}
        /\ UNCHANGED <<net, wis, watch, streaming_stoped>>
    BY <1>2 DEF ChangeCommand, network, stream
  <2> QED
    BY <2>1, <2>2, RadioUntouched DEF IInv, TypeOK
<1>3. CASE NetJoined
  <2>1. /\ UNCHANGED <<order, interrupt, radio>>
        /\ update_dev_stat_only' = TRUE /\ rfSem' = rfSem + 1
    BY <1>3 DEF NetJoined, world
  <2>2. rfSem \in Nat /\ (order # None /\ ~interrupt => rfSem > 0 \/ radio = "process")
    BY Zenon DEF IInv, PostsInv
  <2>3. /\ PostsInv'
        /\ order' \in Orders \cup {None}
        /\ radio' \in {"wait", "process", "update"}
        /\ (update_dev_stat_only => rfSem > 0 \/ radio # "wait")'
    BY <2>1, <2>2, Posted, Zenon DEF IInv, TypeOK, PostsInv
  <2>4. /\ net = "met" /\ net' = "none" /\ main' = "status"
        /\ UNCHANGED <<wis, watch, streaming_stoped>>
    BY <1>3 DEF NetJoined, stream
  <2> QED
    BY <2>3, <2>4 DEF IInv, TypeOK
<1>4. CASE Sleep \/ Wake
  <2>1. UNCHANGED radioVars
    BY <1>4 DEF Sleep, Wake, radioVars, world, receiver
  <2>2. /\ \/ main = "status" /\ main' = "asleep" /\ net' = net
           \/ main = "asleep" /\ main' = "poll" /\ net' = "start"
        /\ UNCHANGED <<wis, watch, streaming_stoped>>
    BY <1>4 DEF Sleep, Wake, network, stream
  <2> QED
    BY <2>1, <2>2, RadioUntouched DEF IInv, TypeOK
<1> QED
  BY <1>1, <1>2, <1>3, <1>4 DEF Main

\* The radio: it takes one post at a time and looks at the request of main.
LEMMA RadioKeepsInv ==
  ASSUME IInv, Radio
  PROVE  IInv'
<1>1. UNCHANGED threadVars
  BY DEF Radio, RadioWakes, Process, OnlyUpdate, threadVars, control, network,
         stream
<1>2. /\ PostsInv'
      /\ order' \in Orders \cup {None}
      /\ radio' \in {"wait", "process", "update"}
      /\ (update_dev_stat_only => rfSem > 0 \/ radio # "wait")'
  <2>1. CASE RadioWakes
    <3>1. UNCHANGED <<order, interrupt, update_dev_stat_only>>
      BY <2>1 DEF RadioWakes, world
    <3>2. rfSem \in Nat
      BY DEF IInv, PostsInv
    <3>3. \/ /\ rfSem > 0 /\ radio = "wait" /\ rfSem' = rfSem - 1
             /\ \/ update_dev_stat_only /\ radio' = "update"
                \/ ~update_dev_stat_only /\ radio' = "process"
          \/ ~(rfSem > 0) /\ radio = "wait" /\ radio' = "update" /\ rfSem' = rfSem
      BY <2>1, <3>2, Taken, Zenon DEF RadioWakes
    <3> QED
      BY <3>1, <3>2, <3>3, Taken, Zenon DEF IInv, TypeOK, PostsInv
  <2>2. CASE Process
    <3>1. /\ order' = None /\ radio' = "wait" /\ update_dev_stat_only' = FALSE
          /\ UNCHANGED <<interrupt, rfSem>>
      BY <2>2 DEF Process, UpdateDevStat
    <3> QED
      BY <3>1 DEF IInv, PostsInv
  <2>3. CASE OnlyUpdate
    <3>1. /\ radio = "update" /\ radio' = "wait" /\ update_dev_stat_only' = FALSE
          /\ UNCHANGED <<order, interrupt, rfSem>>
      BY <2>3 DEF OnlyUpdate, UpdateDevStat, world
    <3> QED
      BY <3>1 DEF IInv, TypeOK, PostsInv
  <2> QED
    BY <2>1, <2>2, <2>3 DEF Radio
<1> QED
  BY <1>1, <1>2, ThreadsUntouched DEF IInv, TypeOK

\* The thread of the network: it begins without a streaming thread and meets
\* main without one.
LEMMA NetKeepsInv ==
  ASSUME IInv, Net
  PROVE  IInv'
<1>1. UNCHANGED radioVars /\ UNCHANGED main
  BY DEF Net, NetStarts, Connect, StartServices, LoopEnds, LoopBegins,
         CheckConnection, Switch, ConnectAgain, RestartStream, NetEnds,
         StopStreaming, JoinStream, NetStep, control, receiver, radioVars
<1> DEFINE Kept == /\ net # "none"
                   /\ net' \in Loop \cup {"connect", "services", "connect again",
                                          "stop", "stopping", "end", "met"}
                   /\ net' \in {"connect", "services", "met"} => wis' = "none"
                   /\ wis' = "finish" => streaming_stoped' /\ watch'
<1>2. Kept
  <2>1. CASE NetStarts \/ Connect
    BY <2>1 DEF NetStarts, Connect, stream, IInv, TypeOK, Loop
  <2>2. CASE StartServices
    BY <2>2 DEF StartServices, IInv, TypeOK, Loop
  <2>3. CASE LoopEnds \/ LoopBegins \/ CheckConnection
    BY <2>3 DEF LoopEnds, LoopBegins, CheckConnection, stream, IInv, TypeOK, Loop
  <2>4. CASE Switch \/ ConnectAgain
    BY <2>4 DEF Switch, ConnectAgain, stream, IInv, TypeOK, Loop
  <2>5. CASE RestartStream
    BY <2>5 DEF RestartStream, IInv, TypeOK, Loop
  <2>6. CASE NetEnds
    BY <2>6 DEF NetEnds, stream, IInv, TypeOK, Loop
  <2>7. CASE StopStreaming
    BY <2>7 DEF StopStreaming, IInv, TypeOK, Loop
  <2>8. CASE JoinStream
    BY <2>8 DEF JoinStream, IInv, TypeOK, Loop
  <2> QED
    BY <2>1, <2>2, <2>3, <2>4, <2>5, <2>6, <2>7, <2>8 DEF Net
<1>3. net' # "none"
  BY <1>2 DEF Loop
<1> QED
  BY <1>1, <1>2, <1>3, RadioUntouched DEF IInv, TypeOK, Loop

\* The streaming thread runs only while it is there.
LEMMA StreamKeepsInv ==
  ASSUME IInv, Stream
  PROVE  IInv'
<1>1. UNCHANGED radioVars /\ UNCHANGED <<main, net>>
  BY DEF Stream, TakeBitrate, StartStreaming, EndStreaming, WisStep, world,
         control, receiver, network, radioVars
<1>2. /\ wis # "none"
      /\ wis' = "finish" => streaming_stoped' /\ watch'
  BY DEF Stream, TakeBitrate, StartStreaming, EndStreaming
<1> QED
  BY <1>1, <1>2, RadioUntouched DEF IInv, TypeOK

\* The inductive invariant: what TypeOK says of the threads, and the account of
\* the posts.
THEOREM Inductive == Spec => []IInv
<1>1. Init => IInv
  BY InitInv
<1>2. IInv /\ [Next]_vars => IInv'
  <2> SUFFICES ASSUME IInv, [Next]_vars PROVE IInv'
    OBVIOUS
  <2>1. CASE FromOutside
    BY <2>1, WorldKeepsInv
  <2>2. CASE Main \/ Wake
    BY <2>2, MainKeepsInv
  <2>3. CASE Radio
    BY <2>3, RadioKeepsInv
  <2>4. CASE Net
    BY <2>4, NetKeepsInv
  <2>5. CASE Stream
    BY <2>5, StreamKeepsInv
  <2>6. CASE UNCHANGED vars
    <3>1. UNCHANGED radioVars /\ UNCHANGED threadVars
      BY <2>6 DEF vars, world, control, receiver, network, stream, radioVars,
                  threadVars
    <3> QED
      BY <3>1, RadioUntouched, ThreadsUntouched DEF IInv, TypeOK
  <2> QED
    BY <2>1, <2>2, <2>3, <2>4, <2>5, <2>6 DEF Next, FromOutside
<1> QED
  BY <1>1, <1>2, PTL DEF Spec

\* The threads of the radio, the network and the stream agree on their lives,
\* for any orders and any bounds.
THEOREM TypeCorrect == Spec => []TypeOK
<1>1. IInv => TypeOK
  BY DEF IInv
<1> QED
  BY <1>1, Inductive, PTL

\* No order by radio ever loses its wake-up, over any number of sleeps.
THEOREM AlwaysAnnounced == Spec => []OrderAnnounced
<1>1. IInv => OrderAnnounced
  BY DEF IInv, PostsInv, OrderAnnounced
<1> QED
  BY <1>1, Inductive, PTL

-----------------------------------------------------------------------------
(* The stop of the streaming thread.                                       *)

\* A streaming thread in its loop is told to stop only by a network thread that
\* waits for it.  Once a stop was answered, streaming_stoped says so of every
\* later one; then the next stop is not begun before the loop has taken back
\* the last one.
StopInv ==
  /\ wis \in {"none", "init", "start", "loop", "finish"}
  /\ net \in Loop \cup {"connect again", "stop", "stopping"} => wis # "none"
  /\ wis = "loop" /\ watch => net = "stopping"
  /\ wis = "finish" => net = "stopping"
  /\ streaming_stoped /\ wis \in {"none", "init", "start"}
       => watch /\ net # "stopping"
  /\ streaming_stoped /\ wis = "loop" /\ net = "stopping" => watch

\* A network thread that waits for the streaming thread, to begin a stop or to
\* see it done, waits for one that has a step to do or has done it.
StopIsAnswered ==
  /\ net = "stop" /\ watch => wis \in {"init", "start"}
  /\ net = "stopping" => \/ wis \in {"init", "start"}
                         \/ wis = "loop" /\ watch
                         \/ wis = "finish" /\ streaming_stoped
                         \/ StopLost

\* Each step keeps the account of stops.
LEMMA StopStep ==
  ASSUME IInv, StopInv, [Next]_vars
  PROVE  StopInv'
<1> USE DEF StopInv, Loop
<1>1. CASE UNCHANGED <<wis, watch, streaming_stoped, net>>
  BY <1>1
<1>2. CASE FromOutside \/ Radio
  BY <1>1, <1>2 DEF FromOutside, Send, FlipSwitch, LinkChanges, StreamChanges,
                    HostRecords, Tick, Radio, RadioWakes, Process, OnlyUpdate,
                    network, stream
<1>3. CASE PollPortExpander \/ ChangeCommand \/ BeginSleep \/ Sleep
  BY <1>1, <1>3 DEF PollPortExpander, ChangeCommand, BeginSleep, Sleep, network,
                    stream
<1>4. CASE NetJoined \/ Wake
  <2>1. net' \in {"none", "start"} /\ UNCHANGED <<wis, watch, streaming_stoped>>
    BY <1>4 DEF NetJoined, Wake, stream
  <2>2. wis = "none"
    BY <1>4 DEF NetJoined, Wake, IInv, TypeOK
  <2> QED
    BY <2>1, <2>2
<1>5. CASE NetStarts \/ Connect
  <2>1. /\ net \in {"start", "connect"} /\ net' \in {"services", "connect", "end"}
        /\ UNCHANGED <<wis, watch, streaming_stoped>>
    BY <1>5 DEF NetStarts, Connect, stream
  <2>2. wis = "none"
    BY <2>1 DEF IInv, TypeOK
  <2> QED
    BY <2>1, <2>2
<1>6. CASE StartServices
  <2>1. wis = "none"
    BY <1>6 DEF StartServices, IInv, TypeOK
  <2> QED
    BY <1>6, <2>1 DEF StartServices
<1>7. CASE LoopEnds \/ LoopBegins \/ CheckConnection \/ Switch \/ ConnectAgain
             \/ RestartStream
  <2>1. /\ net \in Loop \cup {"connect again"}
        /\ net' \in Loop \cup {"connect again", "end", "stop"}
        /\ UNCHANGED <<wis, watch, streaming_stoped>>
    BY <1>7 DEF LoopEnds, LoopBegins, CheckConnection, Switch, ConnectAgain,
                RestartStream, stream
  <2> QED
    BY <2>1
<1>8. CASE NetEnds
  BY <1>8 DEF NetEnds, stream
<1>9. CASE StopStreaming
  BY <1>9 DEF StopStreaming
<1>10. CASE JoinStream
  <2>1. wis = "finish" /\ watch /\ UNCHANGED <<watch, streaming_stoped>>
    BY <1>10 DEF JoinStream, IInv, TypeOK
  <2>2. \/ wis' = "none" /\ net' = "met"
        \/ wis' = "init" /\ net' = "loop"
    BY <1>10 DEF JoinStream
  <2> QED
    BY <2>1, <2>2, Zenon
<1>11. CASE Stream
  <2>1. UNCHANGED net
    BY <1>11 DEF Stream, TakeBitrate, StartStreaming, EndStreaming, WisStep,
                 network
  <2>2. CASE TakeBitrate
    <3>1. wis = "init" /\ wis' = "start" /\ UNCHANGED <<watch, streaming_stoped>>
      BY <2>2 DEF TakeBitrate
    <3> QED
      BY <2>1, <3>1, Zenon
  <2>3. CASE StartStreaming
    <3>1. wis = "start" /\ wis' = "loop" /\ ~watch' /\ UNCHANGED streaming_stoped
      BY <2>3 DEF StartStreaming
    <3> QED
      BY <2>1, <3>1, Zenon
  <2>4. CASE EndStreaming
    <3>1. wis = "loop" /\ watch /\ wis' = "finish"
      BY <2>4 DEF EndStreaming
    <3> QED
      BY <2>1, <3>1, Zenon
  <2> QED
    BY <1>11, <2>2, <2>3, <2>4 DEF Stream
<1>12. CASE UNCHANGED vars
  BY <1>1, <1>12 DEF vars, network, stream
<1> QED
  BY <1>2, <1>3, <1>4, <1>5, <1>6, <1>7, <1>8, <1>9, <1>10, <1>11, <1>12
     DEF Next, FromOutside, Main, Net

\* wis_stop_streaming (wis-streamer.cpp:156): the network thread waits in vain
\* for the streaming thread in one case only, the first stop of the program
\* taken back by the start of the event loop; every other stop is answered.
THEOREM OnlyFirstStopLost == Spec => []StopIsAnswered
<1>1. Init => StopInv
  BY DEF Init, StopInv, Loop
<1>2. IInv /\ StopInv /\ [Next]_vars => StopInv'
  BY StopStep
<1>3. IInv /\ StopInv => StopIsAnswered
  BY DEF IInv, TypeOK, StopInv, StopIsAnswered, StopLost
<1> QED
  BY <1>1, <1>2, <1>3, Inductive, PTL DEF Spec

=============================================================================
