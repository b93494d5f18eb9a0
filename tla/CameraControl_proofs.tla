------------------------- MODULE CameraControl_proofs -------------------------
(***************************************************************************)
(* Proofs about CameraControl, for any number of changes of the inputs and *)
(* of failures, with or without video, a digital camera and clients of the *)
(* live library: a group of buffers outlives the threads that read it, no  *)
(* flag of an end outlives its group, and the device sleeps and powers off *)
(* only without threads.                                                   *)
(***************************************************************************)
EXTENDS CameraControl, FiniteSetTheorems, TLAPS

\* A group has threads as long as it is started or about to be.
Lives(g) == started[g] \/ Starting(g)

\* The threads of a group are there as long as main takes them to be, and none
\* but those that wait for the live library end before main stops the group.
LifeInv ==
  \A g \in Group : \A t \in Threads(g) :
    /\ thread[t] = "none" <=> ~Lives(g)
    /\ thread[t] \in Releasing \cup {"ended"} => Stopping(g)

\* The flag of a group is up only while it lives; it is up once a thread of it
\* is at its end, and a group is started without it only when all its threads
\* are past their initialisation.
FinishInv ==
  \A g \in Group :
    /\ finishing[g] => Lives(g)
    /\ g # "stream" => \A t \in Threads(g) :
         /\ AtEnd(t) => finishing[g]
         /\ started[g] /\ thread[t] = "init" => finishing[g]

\* The group whose buffers the threads of g read.
SourceGroup(g) == IF g = "enc" THEN "cap" ELSE "enc"

\* A group lives only while the one it reads from is started, is not being
\* stopped, and has its buffers.
OrderInv ==
  \A g \in Group \ {"cap"} :
    Lives(g) => /\ started[SourceGroup(g)] /\ ~Stopping(SourceGroup(g))
                /\ \A t \in Threads(SourceGroup(g)) : thread[t] # "init"

StartCommand == {"START_CAP", "START_ENC", "START_REC", "START_WIS"}
StopCommand == {"STOP_CAP", "STOP_ENC", "STOP_REC", "STOP_WIS"}

\* main starts or stops the group its command names, a command that is kept is
\* one that was carried out, and a command to sleep
\* or to power off means that nothing is started.
CommandInv ==
  /\ main = "start" => /\ cmd \in StartCommand /\ group = GroupFor(cmd)
                       /\ group # "stream" /\ ~started[group]
  /\ main = "stop" => /\ cmd \in StopCommand /\ group = GroupFor(cmd)
                      /\ started[group]
  /\ main \in {"start", "stop"} <=> group # "none"
  /\ main = "loop" => /\ \A c \in StartCommand :
                           cmd = c => started[GroupFor(c)]
                      /\ \A c \in StopCommand :
                           cmd = c => ~started[GroupFor(c)]
  /\ main \in {"sleep", "asleep", "off"} => cmd \in {"SLEEP", "FINISH"}
  /\ cmd \in {"SLEEP", "FINISH"} => \A g \in Group : ~Lives(g)

Control == LifeInv /\ FinishInv /\ OrderInv /\ CommandInv

IInv == TypeOK /\ Control

-----------------------------------------------------------------------------
(* Groups, threads and their rendezvous.                                   *)

\* Every thread belongs to one group.
LEMMA GroupsOfThreads ==
  /\ \A t \in Thread : GroupOf(t) \in Group /\ t \in Threads(GroupOf(t))
  /\ \A g \in Group : \A t \in Threads(g) : t \in Thread /\ GroupOf(t) = g
  /\ Threads("cap") = CapThread /\ Threads("enc") = EncThread
  /\ Threads("rec") = {"packer"} /\ Threads("stream") = {"streamBuffs"}
  /\ "streamBuffs" \notin CapThread \cup EncThread
<1>1. /\ Threads("cap") = CapThread /\ Threads("enc") = EncThread
      /\ Threads("rec") = {"packer"} /\ Threads("stream") = {"streamBuffs"}
  BY DEF Threads
<1>2. /\ CapThread \subseteq {"vcapture", "acapture"}
      /\ EncThread \subseteq {"video", "audio"}
  BY ThreadAssumption
<1>3. \A g, h \in Group : \A t \in Threads(g) \cap Threads(h) : g = h
  BY <1>1, <1>2 DEF Group
<1>4. \A t \in Thread : GroupOf(t) \in Group /\ t \in Threads(GroupOf(t))
  BY DEF Thread, GroupOf
<1>5. \A g \in Group : \A t \in Threads(g) : t \in Thread
  BY DEF Thread
<1>6. \A g \in Group : \A t \in Threads(g) : GroupOf(t) = g
  BY <1>3, <1>4, <1>5
<1> QED
  BY <1>1, <1>2, <1>4, <1>5, <1>6

\* A thread of the video, the audio, the recorder or the streams.
LEMMA NamesOfThreads ==
  \A t \in Thread : t \in {"vcapture", "acapture", "video", "audio", "packer",
                           "streamBuffs"}
<1> SUFFICES ASSUME NEW g \in Group, NEW t \in Threads(g)
             PROVE  t \in {"vcapture", "acapture", "video", "audio", "packer",
                           "streamBuffs"}
  BY DEF Thread
<1> QED
  BY GroupsOfThreads, ThreadAssumption DEF Group

\* Two threads are two.
LEMMA TwoThreads ==
  ASSUME NEW a, NEW b, a # b
  PROVE  IsFiniteSet({a, b}) /\ Cardinality({a, b}) = 2
<1>1. IsFiniteSet({b}) /\ Cardinality({b}) = 1
  BY FS_Singleton
<1>2. a \notin {b} /\ {b} \cup {a} = {a, b}
  OBVIOUS
<1>3. /\ IsFiniteSet({b} \cup {a})
      /\ Cardinality({b} \cup {a}) = Cardinality({b}) + 1
  BY <1>1, <1>2, FS_AddElement, Zenon
<1> QED
  BY <1>1, <1>2, <1>3

\* A rendezvous is for main besides the threads of the group.
LEMMA MainCounts ==
  ASSUME NEW g \in Group
  PROVE  /\ IsFiniteSet(Threads(g)) /\ Cardinality(Threads(g)) \in Nat
         /\ Number(g) \in Nat /\ Number(g) > Cardinality(Threads(g))
<1>1. /\ IsFiniteSet({"acapture"}) /\ Cardinality({"acapture"}) = 1
      /\ IsFiniteSet({"audio"}) /\ Cardinality({"audio"}) = 1
      /\ IsFiniteSet({"packer"}) /\ Cardinality({"packer"}) = 1
      /\ IsFiniteSet({"streamBuffs"}) /\ Cardinality({"streamBuffs"}) = 1
  BY FS_Singleton
<1>2. /\ IsFiniteSet({"vcapture", "acapture"})
      /\ Cardinality({"vcapture", "acapture"}) = 2
  BY TwoThreads
<1>3. IsFiniteSet({"video", "audio"}) /\ Cardinality({"video", "audio"}) = 2
  BY TwoThreads
<1>4. IsFiniteSet(Threads(g)) /\ Cardinality(Threads(g)) \in {1, 2}
  BY <1>1, <1>2, <1>3, ThreadAssumption, GroupsOfThreads DEF Group
<1> QED
  BY <1>4 DEF Number

\* The rendezvous of the end is met only with main.
LEMMA EndMetWithMain ==
  ASSUME NEW g \in Group, EndMet(g)
  PROVE  Stopping(g)
<1> DEFINE A == {t \in Threads(g) : AtEnd(t)}
<1>1. Cardinality(A) \in Nat /\ Cardinality(A) <= Cardinality(Threads(g))
  BY MainCounts, FS_Subset, FS_CardinalityType
<1> QED
  BY <1>1, MainCounts DEF EndMet

\* The rendezvous of the start is met by all threads of the group, or one of
\* them is at its end.
LEMMA StartMetByAllOrForced ==
  ASSUME NEW g \in Group, StartMet(g)
  PROVE  \/ \E t \in Threads(g) : AtEnd(t)
         \/ \A t \in Threads(g) : thread[t] # "init"
<1> DEFINE A == {t \in Threads(g) : thread[t] # "init"}
<1>1. /\ IsFiniteSet(A) /\ Cardinality(A) \in Nat
      /\ Cardinality(A) <= Cardinality(Threads(g))
      /\ Cardinality(A) = Cardinality(Threads(g)) => A = Threads(g)
  BY MainCounts, FS_Subset, FS_CardinalityType
<1>2. CASE Cardinality(A) + (IF Starting(g) THEN 1 ELSE 0) >= Number(g)
  BY <1>1, <1>2, MainCounts
<1> QED
  BY <1>2 DEF StartMet

-----------------------------------------------------------------------------
(* The inputs, the live library and the threads.                           *)

\* The invariant of the control looks at these only.
LEMMA ControlUnchanged ==
  ASSUME Control, UNCHANGED <<started, finishing, cmd, main, group, thread>>
  PROVE  Control'
BY DEF Control, LifeInv, FinishInv, OrderInv, CommandInv, Lives, Starting,
       Stopping, AtEnd

\* At first nothing is started.
LEMMA InitInv == Init => IInv
<1> SUFFICES ASSUME Init PROVE IInv
  OBVIOUS
<1>1. TypeOK
  <2>1. 0 \in 0 .. MaxChanges /\ 0 \in 0 .. MaxFaults
    BY CameraAssumption
  <2>2. /\ cmd \in Command /\ quit \subseteq QuitFlag /\ card \in Card
        /\ main = "loop" /\ group = "none" /\ live = "away" /\ failed = {}
        /\ changes = 0 /\ faults = 0
    BY DEF Init, Command, Card
  <2>3. /\ start_rec \in BOOLEAN /\ is_usb_on \in BOOLEAN
        /\ charge_low \in BOOLEAN /\ sleep_condition \in BOOLEAN
        /\ wis_hw_started \in BOOLEAN /\ is_rec_request \in BOOLEAN
        /\ is_stream_request \in BOOLEAN /\ is_rec_failed \in BOOLEAN
    BY DEF Init
  <2>4. /\ buf_stop \in [Media -> BOOLEAN]
        /\ started \in [Group -> BOOLEAN] /\ finishing \in [Group -> BOOLEAN]
    BY DEF Init
  <2>5. /\ thread \in [Thread -> Place]
        /\ \A t \in Thread : thread[t] = "none"
    BY DEF Init, Place
  <2> QED
    BY <2>1, <2>2, <2>3, <2>4, <2>5 DEF TypeOK, Releasing
<1>2. /\ \A g \in Group : ~Lives(g) /\ ~Stopping(g)
      /\ \A g \in Group : \A t \in Threads(g) : thread[t] = "none"
  BY GroupsOfThreads DEF Init, Lives, Starting, Stopping
<1>3. Control
  BY <1>2 DEF Init, Control, LifeInv, FinishInv, OrderInv, CommandInv, AtEnd,
              Releasing, StartCommand, StopCommand
<1> QED
  BY <1>1, <1>3 DEF IInv

\* Inputs and clients change no control.
LEMMA OutsideKeepsInv ==
  ASSUME IInv, Inputs \/ LiveThread \/ LiveConnects \/ LiveLeaves
                 \/ (\E s \in Media : LiveAsks(s))
  PROVE  IInv'
<1>1. UNCHANGED <<requests, started, finishing, is_rec_failed, quit, cmd, main,
                  group, thread, failed, faults>>
  BY DEF Inputs, RecordSwitched, CardChanges, UsbChanges, BatteryChanges,
         ActivityChanges, Change, LiveThread, LiveStarts, LiveAnswered,
         LiveConnects, LiveLeaves, LiveAsks, LiveStep
<1>2. /\ start_rec' \in BOOLEAN /\ is_usb_on' \in BOOLEAN
      /\ charge_low' \in BOOLEAN /\ sleep_condition' \in BOOLEAN
      /\ card' \in Card
      /\ live' \in {"away", "starting", "playing"} \cup Media
      /\ buf_stop' \in [Media -> BOOLEAN] /\ wis_hw_started' \in BOOLEAN
      /\ changes' \in 0 .. MaxChanges
  <2>1. changes' = changes \/ (changes < MaxChanges /\ changes' = changes + 1)
    <3>1. CASE Inputs
      BY <3>1, Zenon
         DEF Inputs, RecordSwitched, CardChanges, UsbChanges, BatteryChanges,
             ActivityChanges, Change
    <3>2. CASE LiveThread \/ LiveConnects \/ LiveLeaves
                 \/ (\E s \in Media : LiveAsks(s))
      BY <3>2, Zenon DEF LiveThread, LiveStarts, LiveAnswered, LiveConnects,
                         LiveLeaves, LiveAsks
    <3> QED
      BY <3>1, <3>2
  <2>2. changes' \in 0 .. MaxChanges
    BY <2>1, CameraAssumption DEF IInv, TypeOK
  <2>3. CASE Inputs
    <3>1. /\ start_rec' \in {start_rec, ~start_rec}
          /\ is_usb_on' \in {is_usb_on, ~is_usb_on}
          /\ charge_low' \in {charge_low, ~charge_low}
          /\ sleep_condition' \in {sleep_condition, ~sleep_condition}
          /\ card' \in {card} \cup Card
          /\ UNCHANGED liveVars
      BY <2>3, Zenon
         DEF Inputs, RecordSwitched, CardChanges, UsbChanges, BatteryChanges,
             ActivityChanges
    <3> QED
      BY <2>2, <3>1 DEF IInv, TypeOK, liveVars
  <2>4. CASE LiveThread \/ LiveConnects \/ LiveLeaves
               \/ (\E s \in Media : LiveAsks(s))
    <3>1. /\ live' \in {"away", "starting", "playing"} \cup Media
          /\ UNCHANGED <<inputs, wis_hw_started>>
      BY <2>4 DEF LiveThread, LiveStarts, LiveAnswered, LiveConnects,
                  LiveLeaves, LiveAsks, LiveStep
    <3>2. \/ UNCHANGED buf_stop
          \/ \E s \in Media, b \in BOOLEAN :
               buf_stop' = [buf_stop EXCEPT ![s] = b]
      BY <2>4 DEF LiveThread, LiveStarts, LiveAnswered, LiveConnects,
                  LiveLeaves, LiveAsks
    <3>3. buf_stop' \in [Media -> BOOLEAN]
      BY <3>2 DEF IInv, TypeOK
    <3> QED
      BY <2>2, <3>1, <3>3 DEF IInv, TypeOK, inputs
  <2> QED
    BY <2>3, <2>4
<1>3. TypeOK'
  BY <1>1, <1>2 DEF IInv, TypeOK, requests
<1>4. Control'
  BY <1>1, ControlUnchanged DEF IInv
<1> QED
  BY <1>3, <1>4 DEF IInv

\* What every step of a thread is: from one of its places to a later one, the
\* flag of its group up when it comes to its end, and main there at the latest
\* when it ends.
Step(t, place) ==
  /\ t \in Thread /\ thread[t] # "none" /\ place \in Place \ {"none", "init"}
  /\ Goes(t, place)
  /\ place = "sync" => t \in CapThread
  /\ place \in Releasing => t = "streamBuffs"
  /\ place \in Releasing \cup {"ended"} => Stopping(GroupOf(t))
  /\ finishing' \in {finishing, [finishing EXCEPT ![GroupOf(t)] = TRUE]}
  /\ t # "streamBuffs" /\ place \in {"at finish", "ended"}
       => finishing'[GroupOf(t)]
  /\ \/ Unharmed
     \/ /\ is_rec_failed' = TRUE
        /\ failed' \in {failed, failed \cup {t}}
        /\ quit' = quit \cup QuitFlags(t)
        /\ faults' = faults \/ (faults < MaxFaults /\ faults' = faults + 1)

\* A step keeps the types.
LEMMA StepKeepsTypes ==
  ASSUME IInv, NEW t, NEW place, Step(t, place)
  PROVE  TypeOK'
<1>1. /\ t \in Thread /\ place \in Place
      /\ place = "sync" => t \in CapThread
      /\ place \in Releasing => t = "streamBuffs"
      /\ thread' = [thread EXCEPT ![t] = place]
      /\ UNCHANGED <<inputs, liveVars, requests, started, cmd, main, group,
                     changes>>
  BY DEF Step, Goes
<1>2. finishing' \in [Group -> BOOLEAN]
  <2>1. finishing \in [Group -> BOOLEAN]
    BY DEF IInv, TypeOK
  <2>2. finishing' \in {finishing, [finishing EXCEPT ![GroupOf(t)] = TRUE]}
    BY DEF Step
  <2> QED
    BY <2>1, <2>2
<1>3. QuitFlags(t) \subseteq QuitFlag
  <2>1. t \in CapThread \/ t \in EncThread \/ t = "packer" \/ t = "streamBuffs"
    BY <1>1, GroupsOfThreads DEF Group
  <2> QED
    BY <2>1 DEF QuitFlags, QuitFlag
<1>4. /\ is_rec_failed' \in BOOLEAN /\ quit' \subseteq QuitFlag
      /\ failed' \subseteq Thread
  BY <1>1, <1>3 DEF Step, Unharmed, IInv, TypeOK
<1>5. faults' \in 0 .. MaxFaults
  <2>1. faults' = faults \/ (faults < MaxFaults /\ faults' = faults + 1)
    BY Zenon DEF Step, Unharmed
  <2> QED
    BY <2>1, CameraAssumption DEF IInv, TypeOK
<1>6. /\ thread' \in [Thread -> Place]
      /\ \A s \in Thread :
           /\ thread'[s] = "sync" => s \in CapThread
           /\ thread'[s] \in Releasing => s = "streamBuffs"
  BY <1>1 DEF IInv, TypeOK
<1> QED
  BY <1>1, <1>2, <1>4, <1>5, <1>6 DEF IInv, TypeOK, inputs, liveVars, requests

\* A step keeps what control takes the threads to be.
LEMMA StepKeepsControl ==
  ASSUME IInv, NEW t, NEW place, Step(t, place)
  PROVE  Control'
<1>1. /\ t \in Thread /\ thread[t] # "none"
      /\ place \notin {"none", "init"}
      /\ place \in Releasing \cup {"ended"} => Stopping(GroupOf(t))
      /\ thread' = [thread EXCEPT ![t] = place]
      /\ UNCHANGED <<started, cmd, main, group>>
  BY DEF Step, Goes
<1>2. /\ \A s \in Thread : thread'[s] = IF s = t THEN place ELSE thread[s]
      /\ \A g \in Group : /\ finishing[g] => finishing'[g]
                          /\ finishing'[g] => finishing[g] \/ g = GroupOf(t)
      /\ t # "streamBuffs" /\ place \in {"at finish", "ended"}
           => finishing'[GroupOf(t)]
  <2>1. thread \in [Thread -> Place] /\ finishing \in [Group -> BOOLEAN]
    BY DEF IInv, TypeOK
  <2>2. \A s \in Thread : thread'[s] = IF s = t THEN place ELSE thread[s]
    BY <1>1, <2>1
  <2>3. finishing' = finishing
          \/ finishing' = [finishing EXCEPT ![GroupOf(t)] = TRUE]
    BY DEF Step
  <2>4. \A g \in Group : /\ finishing[g] => finishing'[g]
                         /\ finishing'[g] => finishing[g] \/ g = GroupOf(t)
    BY <2>1, <2>3
  <2>5. t # "streamBuffs" /\ place \in {"at finish", "ended"}
           => finishing'[GroupOf(t)]
    BY DEF Step
  <2> QED
    BY <2>2, <2>4, <2>5
<1>3. \A g : Lives(g)' = Lives(g) /\ Starting(g)' = Starting(g)
               /\ Stopping(g)' = Stopping(g)
  BY <1>1 DEF Lives, Starting, Stopping
<1>4. Lives(GroupOf(t))
  BY <1>1, GroupsOfThreads DEF IInv, Control, LifeInv
<1>5. LifeInv'
  <2> SUFFICES ASSUME NEW g \in Group, NEW s \in Threads(g)
               PROVE  /\ thread'[s] = "none" <=> ~Lives(g)
                      /\ thread'[s] \in Releasing \cup {"ended"} => Stopping(g)
    BY <1>3 DEF LifeInv, Releasing
  <2>1. CASE s = t
    <3>1. g = GroupOf(t) /\ thread'[t] = place
      BY <1>1, <1>2, <2>1, GroupsOfThreads
    <3> QED
      BY <1>1, <1>4, <2>1, <3>1
  <2>2. CASE s # t
    BY <1>2, <2>2, GroupsOfThreads DEF IInv, Control, LifeInv
  <2> QED
    BY <2>1, <2>2
<1>6. FinishInv'
  <2>1. \A g \in Group : finishing'[g] => Lives(g)
    BY <1>2, <1>4 DEF IInv, Control, FinishInv
  <2>2. ASSUME NEW g \in Group \ {"stream"}, NEW s \in Threads(g)
        PROVE  /\ AtEnd(s)' => finishing'[g]
               /\ started[g] /\ thread'[s] = "init" => finishing'[g]
    <3>1. /\ s \in Thread /\ GroupOf(s) = g /\ g # "stream"
          /\ AtEnd(s) => finishing[g]
          /\ started[g] /\ thread[s] = "init" => finishing[g]
      BY <2>2, GroupsOfThreads DEF IInv, Control, FinishInv
    <3>2. s # "streamBuffs"
      BY <3>1, GroupsOfThreads DEF Group
    <3>3. CASE s = t
      BY <1>1, <1>2, <3>1, <3>2, <3>3 DEF AtEnd
    <3>4. CASE s # t
      BY <1>2, <3>1, <3>4 DEF AtEnd
    <3> QED
      BY <3>3, <3>4
  <2> QED
    BY <1>1, <1>3, <2>1, <2>2 DEF FinishInv
<1>7. OrderInv'
  <2>1. \A s \in Thread : thread[s] # "init" => thread'[s] # "init"
    BY <1>1, <1>2
  <2>2. \A g : SourceGroup(g) \in Group
    BY DEF SourceGroup, Group
  <2> QED
    BY <1>1, <1>3, <2>1, <2>2, GroupsOfThreads
       DEF IInv, Control, OrderInv, SourceGroup
<1>8. CommandInv'
  BY <1>1, <1>3 DEF IInv, Control, CommandInv
<1> QED
  BY <1>5, <1>6, <1>7, <1>8 DEF Control

\* The steps of the threads are such steps.
LEMMA ThreadsStep ==
  ASSUME IInv,
         (\E t \in Thread : ThreadGoesOn(t) \/ Breaks(t)) \/ NoSignal
            \/ NoFile \/ StreamGoesOn
  PROVE  \E t, place : Step(t, place)
<1> USE DEF Place, Releasing
<1>1. ASSUME NEW t \in Thread, t # "streamBuffs", thread[t] # "none",
             Finishes(t),
             \/ Unharmed
             \/ /\ is_rec_failed' = TRUE
                /\ failed' \in {failed, failed \cup {t}}
                /\ quit' = quit \cup QuitFlags(t)
                /\ faults' = faults \/ (faults < MaxFaults /\ faults' = faults + 1)
      PROVE  Step(t, "at finish")
  <2>1. GroupOf(t) \in Group /\ finishing \in [Group -> BOOLEAN]
    BY GroupsOfThreads DEF IInv, TypeOK
  <2> QED
    BY <1>1, <2>1 DEF Step, Finishes
<1>2. ASSUME NEW t \in Thread, NEW status \in {failed, failed \cup {t}},
             t # "streamBuffs", thread[t] # "none", Fails(t, status),
             faults' = faults \/ (faults < MaxFaults /\ faults' = faults + 1)
      PROVE  Step(t, "at finish")
  BY <1>1, <1>2 DEF Fails
<1>3. ASSUME NEW t \in Thread, Initialised(t)
      PROVE  Step(t, "ready")
  BY <1>3 DEF Initialised, Step
<1>4. ASSUME NEW t \in Thread, Runs(t)
      PROVE  Step(t, "sync") \/ Step(t, "run")
  BY <1>4 DEF Runs, AfterStart, Step
<1>5. ASSUME NEW t \in Thread, Quits(t)
      PROVE  Step(t, "at finish")
  BY <1>1, <1>5 DEF Quits
<1>6. ASSUME NEW t \in Thread, Starves(t)
      PROVE  Step(t, "at finish")
  <2>1. t # "streamBuffs" /\ thread[t] = "run" /\ Fails(t, failed \cup {t})
    BY <1>6, GroupsOfThreads DEF Starves
  <2>2. faults' = faults \/ (faults < MaxFaults /\ faults' = faults + 1)
    BY <1>6, Zenon DEF Starves
  <2> QED
    BY <1>2, <2>1, <2>2
<1>7. ASSUME NEW t \in Thread, Ends(t)
      PROVE  Step(t, "ended")
  <2>1. GroupOf(t) \in Group /\ t \in Threads(GroupOf(t)) /\ t # "streamBuffs"
    BY <1>7, GroupsOfThreads DEF Ends
  <2>2. Stopping(GroupOf(t))
    BY <1>7, <2>1, EndMetWithMain DEF Ends
  <2>3. GroupOf(t) # "stream"
    BY <2>1, GroupsOfThreads
  <2>4. finishing[GroupOf(t)]
    BY <1>7, <2>1, <2>3 DEF Ends, IInv, Control, FinishInv, AtEnd
  <2> QED
    BY <1>7, <2>2, <2>4 DEF Ends, Step
<1>8. ASSUME NEW t \in Thread, Breaks(t)
      PROVE  Step(t, "at finish")
  <2>1. t # "streamBuffs" /\ thread[t] # "none"
    BY <1>8, NamesOfThreads DEF Breaks, MayBreak
  <2> QED
    BY <1>2, <1>8, <2>1 DEF Breaks
<1>9. ASSUME NoSignal
      PROVE  Step("vcapture", "at finish")
  <2>1. /\ "vcapture" \in Thread /\ thread["vcapture"] = "init"
        /\ Fails("vcapture", failed)
        /\ faults' = faults \/ (faults < MaxFaults /\ faults' = faults + 1)
    BY <1>9, Zenon DEF NoSignal
  <2> QED
    BY <1>2, <2>1
<1>10. /\ "packer" \in Thread /\ "streamBuffs" \in Thread
       /\ GroupOf("streamBuffs") = "stream"
  BY GroupsOfThreads DEF Group
<1>11. ASSUME NoFile
       PROVE  Step("packer", "at finish")
  <2>1. /\ thread["packer"] = "run" /\ Fails("packer", failed \cup {"packer"})
        /\ faults' = faults
    BY <1>11 DEF NoFile
  <2>2. "packer" # "streamBuffs" /\ thread["packer"] # "none"
    BY <2>1
  <2> QED
    BY <1>2, <1>10, <2>1, <2>2, Zenon
<1>12. ASSUME StreamGoesOn
       PROVE  \E place : Step("streamBuffs", place)
  <2>1. CASE StreamPlugs
    BY <1>10, <2>1 DEF StreamPlugs, Step
  <2>2. CASE StreamReleases
    BY <1>10, <2>2 DEF StreamReleases, Step
  <2>3. CASE StreamEnds
    <3>1. thread["streamBuffs"] \in Releasing => Stopping("stream")
      BY <1>10, GroupsOfThreads DEF IInv, Control, LifeInv, Group
    <3> QED
      BY <1>10, <2>3, <3>1 DEF StreamEnds, Step
  <2> QED
    BY <1>12, <2>1, <2>2, <2>3 DEF StreamGoesOn
<1> QED
  BY <1>3, <1>4, <1>5, <1>6, <1>7, <1>8, <1>9, <1>11, <1>12 DEF ThreadGoesOn

-----------------------------------------------------------------------------
(* main.                                                                   *)

\* A set of places in the order of commands has a last one.
LEMMA LastOfOrder ==
  ASSUME NEW S \in SUBSET (1 .. 10), S # {}
  PROVE  \E i \in S : \A j \in S : j <= i
<1> DEFINE Last == \E i \in S : \A j \in S : j <= i
<1>1. \A n \in S : (\A j \in S : j <= n) => Last
  OBVIOUS
<1> HIDE DEF Last
<1>2. S \subseteq Int /\ \A j \in S : 0 < j /\ j <= 10
  OBVIOUS
<1>3. Last \/ \A j \in S : j <= 9
  BY <1>1, <1>2
<1>4. Last \/ \A j \in S : j <= 8
  BY <1>1, <1>2, <1>3
<1>5. Last \/ \A j \in S : j <= 7
  BY <1>1, <1>2, <1>4
<1>6. Last \/ \A j \in S : j <= 6
  BY <1>1, <1>2, <1>5
<1>7. Last \/ \A j \in S : j <= 5
  BY <1>1, <1>2, <1>6
<1>8. Last \/ \A j \in S : j <= 4
  BY <1>1, <1>2, <1>7
<1>9. Last \/ \A j \in S : j <= 3
  BY <1>1, <1>2, <1>8
<1>10. Last \/ \A j \in S : j <= 2
  BY <1>1, <1>2, <1>9
<1>11. Last \/ \A j \in S : j <= 1
  BY <1>1, <1>2, <1>10
<1>12. Last \/ \A j \in S : j <= 0
  BY <1>1, <1>2, <1>11
<1>13. Last
  <2>1. PICK j \in S : TRUE
    OBVIOUS
  <2> QED
    BY <1>2, <1>12, <2>1
<1> QED
  BY <1>13 DEF Last

\* The command is one whose condition holds, or the one before.
LEMMA CommandIsGiven ==
  ASSUME NEW s, NEW r, CommandFor(s, r) # cmd
  PROVE  /\ CommandFor(s, r) \in Command \ {"NO_COMMAND"}
         /\ Condition(CommandFor(s, r), s, r)
<1> DEFINE given == {i \in DOMAIN Order : Condition(Order[i], s, r)}
<1> DEFINE last == CHOOSE i \in given : \A j \in given : j <= i
<1>1. given # {} /\ CommandFor(s, r) = Order[last]
  BY DEF CommandFor
<1>2. DOMAIN Order = 1 .. 10
  BY DEF Order
<1>3. given \subseteq 1 .. 10
  BY <1>2
<1>4. last \in given
  <2> HIDE DEF given
  <2> QED
    BY <1>1, <1>3, LastOfOrder
<1>5. \A i \in DOMAIN Order : Order[i] # "NO_COMMAND"
  BY DEF Order
<1> QED
  BY <1>1, <1>4, <1>5 DEF Command

\* What a command to start or to stop finds when it is carried out: the groups
\* it needs, none that depends on the one it stops.
LEMMA CommandNeeds ==
  ASSUME IInv, main = "loop", NEW s, NEW r, NEW c, c = CommandFor(s, r)
  PROVE  /\ c \in Command
         /\ c = "START_ENC" /\ ~started["enc"]
              => started["cap"] /\ ~finishing["cap"]
         /\ c = "START_REC" /\ ~started["rec"]
              => started["enc"] /\ ~finishing["enc"]
         /\ c = "START_WIS" /\ ~started["stream"]
              => started["enc"] /\ ~finishing["enc"]
         /\ c = "STOP_CAP" /\ started["cap"] => ~started["enc"]
         /\ c = "STOP_ENC" /\ started["enc"]
              => ~started["rec"] /\ ~started["stream"]
         /\ c \in {"SLEEP", "FINISH"} => \A g \in Group : ~started[g]
<1>1. CASE c = cmd
  <2>1. cmd \in Command
    BY DEF IInv, TypeOK
  <2>2. /\ \A d \in StartCommand : cmd = d => started[GroupFor(d)]
        /\ \A d \in StopCommand : cmd = d => ~started[GroupFor(d)]
        /\ cmd \in {"SLEEP", "FINISH"} => \A g \in Group : ~started[g]
    BY DEF IInv, Control, CommandInv, Lives
  <2> QED
    BY <1>1, <2>1, <2>2 DEF StartCommand, StopCommand, GroupFor
<1>2. CASE c # cmd
  <2>1. c \in Command /\ Condition(c, s, r)
    BY <1>2, CommandIsGiven
  <2>2. started["stream"] => started["enc"]
    BY DEF IInv, Control, OrderInv, SourceGroup, Group, Lives
  <2> QED
    BY <2>1, <2>2 DEF Condition, StopEnc, Finish, Group
<1> QED
  BY <1>1, <1>2

\* main lets a command be, starts a group, stops one, or leaves its loop.
LEMMA CommandEffect ==
  ASSUME IInv, change_command
  PROVE  /\ main = "loop" /\ group = "none" /\ cmd' \in Command
         /\ UNCHANGED <<inputs, liveVars, finishing, bounds>>
         /\ \/ /\ DoneBefore(cmd')
               /\ UNCHANGED <<main, group, quit, started, thread, failed>>
            \/ \E c \in {"START_CAP", "START_ENC", "START_REC"},
                  flags \in SUBSET QuitFlag :
                 /\ cmd' = c /\ Starts(GroupFor(c), flags)
            \/ cmd' = "START_WIS" /\ START_WIS
            \/ \E c \in StopCommand, flags \in SUBSET QuitFlag :
                 /\ cmd' = c /\ Stops(GroupFor(c), flags)
            \/ \E place \in {"sleep", "off"} :
                 /\ cmd' \in {"SLEEP", "FINISH"} /\ Leaves(place)
         /\ cmd' = "START_ENC" /\ ~started["enc"]
              => started["cap"] /\ ~finishing["cap"]
         /\ cmd' = "START_REC" /\ ~started["rec"]
              => started["enc"] /\ ~finishing["enc"]
         /\ cmd' = "START_WIS" /\ ~started["stream"]
              => started["enc"] /\ ~finishing["enc"]
         /\ cmd' = "STOP_CAP" /\ started["cap"] => ~started["enc"]
         /\ cmd' = "STOP_ENC" /\ started["enc"]
              => ~started["rec"] /\ ~started["stream"]
         /\ cmd' \in {"SLEEP", "FINISH"} => \A g \in Group : ~started[g]
<1>1. /\ main = "loop"
      /\ cmd' = CommandFor(is_stream_request', is_rec_request')
      /\ Handles(cmd', is_stream_request')
      /\ UNCHANGED <<inputs, liveVars, finishing, bounds>>
  BY DEF change_command
<1>2. group = "none"
  BY <1>1 DEF IInv, Control, CommandInv
<1>3. /\ {"REC"} \in SUBSET QuitFlag /\ {"STRM"} \in SUBSET QuitFlag
      /\ {"REC", "STRM"} \in SUBSET QuitFlag /\ QuitFlag \in SUBSET QuitFlag
      /\ \A s : Target(s) \in SUBSET QuitFlag
  BY DEF QuitFlag, Target
<1>4. \/ /\ DoneBefore(cmd')
         /\ UNCHANGED <<main, group, quit, started, thread, failed>>
      \/ \E c \in {"START_CAP", "START_ENC", "START_REC"},
            flags \in SUBSET QuitFlag :
           /\ cmd' = c /\ Starts(GroupFor(c), flags)
      \/ cmd' = "START_WIS" /\ START_WIS
      \/ \E c \in StopCommand, flags \in SUBSET QuitFlag :
           /\ cmd' = c /\ Stops(GroupFor(c), flags)
      \/ \E place \in {"sleep", "off"} :
           /\ cmd' \in {"SLEEP", "FINISH"} /\ Leaves(place)
  <2>1. /\ GroupFor("START_CAP") = "cap" /\ GroupFor("STOP_CAP") = "cap"
        /\ GroupFor("START_ENC") = "enc" /\ GroupFor("STOP_ENC") = "enc"
        /\ GroupFor("START_REC") = "rec" /\ GroupFor("STOP_REC") = "rec"
        /\ GroupFor("STOP_WIS") = "stream"
    BY DEF GroupFor
  <2> QED
    BY <1>1, <1>3, <2>1
       DEF Handles, START_CAP, START_ENC, START_REC, STOP_CAP, STOP_ENC,
           STOP_REC, STOP_WIS, StopCommand
<1> QED
  BY <1>1, <1>2, <1>4, CommandNeeds

\* The types after an iteration of main's loop.
LEMMA CommandKeepsTypes ==
  ASSUME IInv, change_command
  PROVE  TypeOK'
<1>1. /\ cmd' \in Command
      /\ UNCHANGED <<inputs, liveVars, finishing, bounds>>
  BY CommandEffect
<1>2. is_stream_request' \in BOOLEAN /\ is_rec_request' \in BOOLEAN
  BY Zenon DEF change_command, StreamRequested, RecordRequested
<1>3. is_rec_failed' \in BOOLEAN
  BY Zenon DEF change_command
<1>4. /\ main' \in {"loop", "start", "stop", "sleep", "off"}
      /\ group' \in Group \cup {"none"}
      /\ started' \in [Group -> BOOLEAN]
      /\ quit' \subseteq QuitFlag /\ failed' \subseteq failed
      /\ \/ thread' = thread
         \/ \E g : thread' = [t \in Thread |-> IF t \in Threads(g) THEN "init"
                                               ELSE thread[t]]
  <2>1. CASE /\ DoneBefore(cmd')
             /\ UNCHANGED <<main, group, quit, started, thread, failed>>
    BY <2>1, CommandEffect DEF IInv, TypeOK
  <2>2. CASE \E c \in {"START_CAP", "START_ENC", "START_REC"},
                flags \in SUBSET QuitFlag : Starts(GroupFor(c), flags)
    BY <2>2 DEF Starts, Creates, GroupFor, Group, IInv, TypeOK
  <2>3. CASE START_WIS
    <3>1. started \in [Group -> BOOLEAN]
      BY DEF IInv, TypeOK
    <3>2. started' = [started EXCEPT !["stream"] = TRUE]
      BY <2>3 DEF START_WIS
    <3>3. started' \in [Group -> BOOLEAN]
      BY <3>1, <3>2
    <3>4. main' = main /\ group' = group /\ main = "loop"
      BY <2>3, CommandEffect DEF START_WIS
    <3> QED
      BY <2>3, <3>3, <3>4 DEF START_WIS, Creates, IInv, TypeOK
  <2>4. CASE \E c \in StopCommand, flags \in SUBSET QuitFlag :
               Stops(GroupFor(c), flags)
    BY <2>4 DEF Stops, GroupFor, StopCommand, Group, IInv, TypeOK
  <2>5. CASE \E place \in {"sleep", "off"} : Leaves(place)
    BY <2>5 DEF Leaves, IInv, TypeOK
  <2> QED
    BY <2>1, <2>2, <2>3, <2>4, <2>5, CommandEffect, Zenon
<1>5. /\ thread' \in [Thread -> Place]
      /\ \A t \in Thread :
           /\ thread'[t] = "sync" => t \in CapThread
           /\ thread'[t] \in Releasing => t = "streamBuffs"
  <2>1. /\ thread \in [Thread -> Place]
        /\ \A t \in Thread :
             /\ thread[t] = "sync" => t \in CapThread
             /\ thread[t] \in Releasing => t = "streamBuffs"
    BY DEF IInv, TypeOK
  <2>2. CASE thread' = thread
    BY <2>1, <2>2
  <2>3. ASSUME NEW g,
               thread' = [t \in Thread |-> IF t \in Threads(g) THEN "init"
                                          ELSE thread[t]]
        PROVE  /\ thread' \in [Thread -> Place]
               /\ \A t \in Thread : thread'[t] \in {thread[t], "init"}
    BY <2>1, <2>3 DEF Place
  <2>4. "init" \notin Releasing
    BY DEF Releasing
  <2> QED
    BY <1>4, <2>1, <2>2, <2>3, <2>4
<1> QED
  BY <1>1, <1>2, <1>3, <1>4, <1>5
     DEF IInv, TypeOK, inputs, liveVars, bounds

\* A group that is created was not there, and has the group it reads.
LEMMA CreationKeepsControl ==
  ASSUME IInv, NEW g \in Group, main = "loop", ~started[g], Creates(g),
         g # "cap" => started[SourceGroup(g)] /\ ~finishing[SourceGroup(g)],
         UNCHANGED finishing,
         Lives(g)', \A h \in Group \ {g} : Lives(h)' = Lives(h),
         \A h \in Group : started'[h] => started[h] \/ (g = "stream" /\ h = g),
         \A h \in Group : started[h] => started'[h],
         main' # "stop"
  PROVE  LifeInv' /\ FinishInv' /\ OrderInv'
<1>1. \A h \in Group :
        ~Stopping(h) /\ ~Stopping(h)' /\ (Lives(h) <=> started[h])
  BY DEF Stopping, Lives, Starting
<1>2. \A h \in Group : \A t \in Threads(h) :
        thread'[t] = IF h = g THEN "init" ELSE thread[t]
  BY GroupsOfThreads DEF Creates
<1>3. \A h \in Group \ {"cap"} : SourceGroup(h) \in Group \ {h}
  BY DEF SourceGroup, Group
<1>4. LifeInv'
  <2> SUFFICES ASSUME NEW h \in Group, NEW t \in Threads(h)
               PROVE  /\ thread'[t] = "none" <=> ~Lives(h)'
                      /\ thread'[t] \notin Releasing \cup {"ended"}
    BY <1>1 DEF LifeInv, Releasing
  <2>1. CASE h = g
    BY <1>2, <2>1 DEF Releasing
  <2>2. CASE h # g
    BY <1>1, <1>2, <2>2 DEF IInv, Control, LifeInv
  <2> QED
    BY <2>1, <2>2
<1>5. FinishInv'
  <2> SUFFICES ASSUME NEW h \in Group
               PROVE  /\ finishing[h] => Lives(h)'
                      /\ h # "stream" => \A t \in Threads(h) :
                           /\ AtEnd(t)' => finishing[h]
                           /\ started'[h] /\ thread'[t] = "init" => finishing[h]
    BY DEF FinishInv
  <2>1. finishing[h] => Lives(h)'
    BY <1>1 DEF IInv, Control, FinishInv
  <2>2. ASSUME h # "stream", NEW t \in Threads(h)
        PROVE  /\ AtEnd(t)' => finishing[h]
               /\ started'[h] /\ thread'[t] = "init" => finishing[h]
    BY <1>2, <2>2 DEF IInv, Control, FinishInv, AtEnd
  <2> QED
    BY <2>1, <2>2
<1>6. OrderInv'
  <2> SUFFICES ASSUME NEW h \in Group \ {"cap"}, Lives(h)'
               PROVE  /\ started'[SourceGroup(h)]
                      /\ \A t \in Threads(SourceGroup(h)) : thread'[t] # "init"
    BY <1>1, <1>3 DEF OrderInv, SourceGroup
  <2>1. SourceGroup(h) \in Group \ {"stream"}
    BY DEF SourceGroup, Group
  <2>2. started[SourceGroup(h)]
          /\ \A t \in Threads(SourceGroup(h)) : thread[t] # "init"
    <3>1. CASE h = g
      <4>1. started[SourceGroup(h)] /\ ~finishing[SourceGroup(h)]
        BY <3>1
      <4> QED
        BY <2>1, <4>1 DEF IInv, Control, FinishInv
    <3>2. CASE h # g
      BY <3>2 DEF IInv, Control, OrderInv
    <3> QED
      BY <3>1, <3>2
  <2>3. SourceGroup(h) # g
    BY <2>2
  <2> QED
    BY <1>2, <2>1, <2>2, <2>3
<1> QED
  BY <1>4, <1>5, <1>6

\* What control takes the groups to be after an iteration of main's loop.
LEMMA CommandKeepsControl ==
  ASSUME IInv, change_command
  PROVE  Control'
<1>1. /\ main = "loop" /\ group = "none" /\ UNCHANGED finishing
      /\ started \in [Group -> BOOLEAN]
  BY CommandEffect DEF IInv, TypeOK
<1>2. CASE /\ DoneBefore(cmd')
           /\ UNCHANGED <<main, group, started, thread>>
  <2>1. LifeInv' /\ FinishInv' /\ OrderInv'
    BY <1>1, <1>2 DEF IInv, Control, LifeInv, FinishInv, OrderInv, Lives,
                      Starting, Stopping, AtEnd
  <2>2. CommandInv'
    BY <1>1, <1>2 DEF DoneBefore, CommandInv, StartCommand, StopCommand,
                      GroupFor, Lives, Starting
  <2> QED
    BY <2>1, <2>2 DEF Control
<1>3. ASSUME NEW c \in {"START_CAP", "START_ENC", "START_REC"}, NEW flags,
             cmd' = c, Starts(GroupFor(c), flags)
      PROVE  Control'
  <2> DEFINE g == GroupFor(c)
  <2>1. /\ g = GroupFor(c)
        /\ g \in {"cap", "enc", "rec"} /\ g \in Group /\ g # "stream"
        /\ ~started[g] /\ main' = "start" /\ group' = g /\ Creates(g)
        /\ UNCHANGED started
    BY <1>3 DEF Starts, GroupFor, Group
  <2>2. g # "cap" => started[SourceGroup(g)] /\ ~finishing[SourceGroup(g)]
    BY <1>3, <2>1, CommandEffect DEF GroupFor, SourceGroup
  <2>3. Lives(g)' /\ \A h \in Group \ {g} : Lives(h)' = Lives(h)
    BY <1>1, <2>1 DEF Lives, Starting
  <2> HIDE DEF g
  <2>4. LifeInv' /\ FinishInv' /\ OrderInv'
    BY <1>1, <2>1, <2>2, <2>3, CreationKeepsControl
  <2>5. CommandInv'
    BY <1>3, <2>1 DEF CommandInv, StartCommand, Group
  <2> QED
    BY <2>4, <2>5 DEF Control
<1>4. CASE cmd' = "START_WIS" /\ START_WIS
  <2>1. /\ ~started["stream"] /\ started["enc"] /\ ~finishing["enc"]
        /\ main' = "loop" /\ group' = "none" /\ Creates("stream")
        /\ started' = [started EXCEPT !["stream"] = TRUE]
    BY <1>1, <1>4, CommandEffect DEF START_WIS
  <2>2. \A h \in Group : started'[h] <=> started[h] \/ h = "stream"
    BY <1>1, <2>1
  <2>3. \A h \in Group : Lives(h) <=> started[h]
    BY <1>1 DEF Lives, Starting
  <2>4. \A h \in Group : Lives(h)' <=> started'[h]
    BY <2>1 DEF Lives, Starting
  <2>5. LifeInv' /\ FinishInv' /\ OrderInv'
    <3>1. "stream" \in Group /\ SourceGroup("stream") = "enc"
      BY DEF SourceGroup, Group
    <3>2. /\ Lives("stream")'
          /\ \A h \in Group \ {"stream"} : Lives(h)' = Lives(h)
      BY <2>2, <2>3, <2>4, <3>1 DEF Lives
    <3>3. main' # "stop"
      BY <2>1
    <3> QED
      BY <1>1, <2>1, <2>2, <3>1, <3>2, <3>3, CreationKeepsControl
  <2>6. CommandInv'
    BY <1>4, <2>1, <2>2
       DEF CommandInv, StartCommand, StopCommand, GroupFor, Group
  <2> QED
    BY <2>5, <2>6 DEF Control
<1>5. ASSUME NEW c \in StopCommand, NEW flags, cmd' = c,
             Stops(GroupFor(c), flags)
      PROVE  Control'
  <2> DEFINE g == GroupFor(c)
  <2>1. /\ g = GroupFor(c)
        /\ g \in Group /\ started[g] /\ main' = "stop" /\ group' = g
        /\ UNCHANGED <<started, thread>>
        /\ g = "cap" => ~started["enc"]
        /\ g = "enc" => ~started["rec"] /\ ~started["stream"]
    BY <1>5, CommandEffect DEF Stops, GroupFor, StopCommand, Group
  <2>2. \A h \in Group : Lives(h)' = Lives(h) /\ (Lives(h) <=> started[h])
    BY <1>1, <2>1 DEF Lives, Starting
  <2>3. \A h : Stopping(h)' <=> h = g
    BY <2>1 DEF Stopping
  <2>4. \A h : ~Stopping(h)
    BY <1>1 DEF Stopping
  <2> HIDE DEF g
  <2>5. LifeInv' /\ FinishInv'
    BY <1>1, <2>1, <2>2, <2>4
       DEF IInv, Control, LifeInv, FinishInv, AtEnd
  <2>6. OrderInv'
    <3>1. \A h \in Group \ {"cap"} : started[h] => SourceGroup(h) # g
      BY <2>1 DEF SourceGroup, Group
    <3> QED
      BY <2>1, <2>2, <2>3, <3>1 DEF IInv, Control, OrderInv, SourceGroup
  <2>7. CommandInv'
    BY <1>5, <2>1 DEF CommandInv, StopCommand, Group
  <2> QED
    BY <2>5, <2>6, <2>7 DEF Control
<1>6. ASSUME NEW place \in {"sleep", "off"}, cmd' \in {"SLEEP", "FINISH"},
             Leaves(place)
      PROVE  Control'
  <2>1. /\ main' = place /\ UNCHANGED <<group, started, thread>>
        /\ \A h \in Group : ~started[h]
    BY <1>6, CommandEffect DEF Leaves
  <2>2. \A h : /\ Lives(h)' = Lives(h) /\ Starting(h)' = Starting(h)
               /\ Stopping(h)' = Stopping(h)
    BY <1>1, <2>1 DEF Lives, Starting, Stopping
  <2>3. LifeInv' /\ FinishInv' /\ OrderInv'
    BY <1>1, <2>1, <2>2
       DEF IInv, Control, LifeInv, FinishInv, OrderInv, AtEnd
  <2>4. CommandInv'
    BY <1>1, <1>6, <2>1 DEF CommandInv, Lives, Starting
  <2> QED
    BY <2>3, <2>4 DEF Control
<1> QED
  BY <1>2, <1>3, <1>4, <1>5, <1>6, CommandEffect

\* A group that was started has its threads past their initialisation, or the
\* flag of its end is up.
LEMMA StartedKeepsInv ==
  ASSUME IInv, NEW g \in Group, Started(g)
  PROVE  IInv'
<1>1. /\ main = "start" /\ group = g /\ g # "stream" /\ ~started[g]
      /\ StartMet(g)
      /\ started' = [started EXCEPT ![g] = TRUE]
      /\ main' = "loop" /\ group' = "none"
      /\ UNCHANGED <<inputs, live, buf_stop, requests, finishing,
                     is_rec_failed, quit, cmd, thread, failed, bounds>>
  BY DEF Started, Starting, IInv, Control, CommandInv
<1>2. \A h \in Group : started'[h] <=> started[h] \/ h = g
  BY <1>1 DEF IInv, TypeOK
<1>3. TypeOK'
  <2>1. started' \in [Group -> BOOLEAN]
    BY <1>1 DEF IInv, TypeOK
  <2>2. wis_hw_started' \in BOOLEAN
    BY Zenon DEF Started
  <2> QED
    BY <1>1, <2>1, <2>2 DEF IInv, TypeOK, inputs, requests, bounds
<1>4. /\ \A h \in Group : Lives(h)' <=> Lives(h)
      /\ \A h \in Group : Lives(h) <=> started'[h]
      /\ \A h : ~Stopping(h) /\ ~Stopping(h)'
  BY <1>1, <1>2 DEF Lives, Starting, Stopping
<1>5. LifeInv'
  BY <1>1, <1>4 DEF IInv, Control, LifeInv
<1>6. FinishInv'
  <2> SUFFICES ASSUME NEW h \in Group, h # "stream", NEW t \in Threads(h),
                      started'[h], thread[t] = "init"
               PROVE  finishing[h]
    BY <1>1, <1>4 DEF IInv, Control, FinishInv, AtEnd
  <2>1. CASE h = g
    <3>1. \E s \in Threads(g) : AtEnd(s)
      BY <1>1, <2>1, StartMetByAllOrForced
    <3> QED
      BY <1>1, <2>1, <3>1 DEF IInv, Control, FinishInv
  <2>2. CASE h # g
    BY <1>2, <2>2 DEF IInv, Control, FinishInv
  <2> QED
    BY <2>1, <2>2
<1>7. OrderInv'
  <2>1. \A h \in Group \ {"cap"} : SourceGroup(h) \in Group
    BY DEF SourceGroup, Group
  <2> QED
    BY <1>1, <1>2, <1>4, <2>1 DEF IInv, Control, OrderInv, SourceGroup
<1>8. CommandInv'
  <2>1. cmd \notin {"SLEEP", "FINISH"}
    BY <1>1 DEF IInv, Control, CommandInv, Lives, Starting
  <2>2. cmd \in StartCommand /\ GroupFor(cmd) = g
    BY <1>1 DEF IInv, Control, CommandInv
  <2> QED
    BY <1>1, <1>2, <2>1, <2>2 DEF CommandInv, StartCommand, StopCommand
<1> QED
  BY <1>3, <1>5, <1>6, <1>7, <1>8 DEF IInv, Control

\* A group that was stopped has no thread, no flag and no group that reads it.
LEMMA StoppedKeepsInv ==
  ASSUME IInv, NEW g \in Group, Stopped(g)
  PROVE  IInv'
<1>1. /\ main = "stop" /\ group = g /\ started[g]
      /\ cmd \in StopCommand /\ GroupFor(cmd) = g
      /\ thread' = [t \in Thread |-> IF t \in Threads(g) THEN "none"
                                     ELSE thread[t]]
      /\ started' = [started EXCEPT ![g] = FALSE]
      /\ finishing' = [finishing EXCEPT ![g] = FALSE]
      /\ failed' = failed \ Threads(g)
      /\ main' = "loop" /\ group' = "none"
      /\ UNCHANGED <<inputs, liveVars, requests, quit, cmd, bounds>>
  BY DEF Stopped, Stopping, FinishingReset, IInv, Control, CommandInv
<1>2. /\ \A h \in Group : started'[h] <=> started[h] /\ h # g
      /\ \A h \in Group : finishing'[h] <=> finishing[h] /\ h # g
      /\ started' \in [Group -> BOOLEAN] /\ finishing' \in [Group -> BOOLEAN]
  BY <1>1 DEF IInv, TypeOK
<1>3. \A h \in Group : \A t \in Threads(h) :
        thread'[t] = IF h = g THEN "none" ELSE thread[t]
  BY <1>1, GroupsOfThreads
<1>4. TypeOK'
  <2>1. is_rec_failed' \in BOOLEAN
    BY Zenon DEF Stopped
  <2>2. /\ thread' \in [Thread -> Place]
        /\ \A t \in Thread : thread'[t] = thread[t] \/ thread'[t] = "none"
    BY <1>1 DEF IInv, TypeOK, Place
  <2>3. "none" \notin Releasing
    BY DEF Releasing
  <2> QED
    BY <1>1, <1>2, <2>1, <2>2, <2>3
       DEF IInv, TypeOK, inputs, liveVars, requests, bounds
<1>5. /\ \A h \in Group : Lives(h)' <=> started'[h]
      /\ \A h \in Group : Lives(h) <=> started[h]
      /\ \A h : ~Stopping(h)' /\ (Stopping(h) <=> h = g)
  BY <1>1 DEF Lives, Starting, Stopping
<1>6. LifeInv'
  <2> SUFFICES ASSUME NEW h \in Group, NEW t \in Threads(h)
               PROVE  /\ thread'[t] = "none" <=> ~started'[h]
                      /\ thread'[t] \notin Releasing \cup {"ended"}
    BY <1>5 DEF LifeInv, Releasing
  <2>1. CASE h = g
    BY <1>2, <1>3, <2>1 DEF Releasing
  <2>2. CASE h # g
    BY <1>2, <1>3, <1>5, <2>2 DEF IInv, Control, LifeInv
  <2> QED
    BY <2>1, <2>2
<1>7. FinishInv'
  <2>1. \A h \in Group : finishing'[h] => Lives(h)'
    BY <1>2, <1>5 DEF IInv, Control, FinishInv
  <2>2. ASSUME NEW h \in Group, h # "stream", NEW t \in Threads(h)
        PROVE  /\ AtEnd(t)' => finishing'[h]
               /\ started'[h] /\ thread'[t] = "init" => finishing'[h]
    BY <1>2, <1>3, <2>2 DEF IInv, Control, FinishInv, AtEnd
  <2> QED
    BY <2>1, <2>2 DEF FinishInv
<1>8. OrderInv'
  <2> SUFFICES ASSUME NEW h \in Group \ {"cap"}, started'[h]
               PROVE  /\ started'[SourceGroup(h)]
                      /\ \A t \in Threads(SourceGroup(h)) : thread'[t] # "init"
    BY <1>5 DEF OrderInv, SourceGroup
  <2>1. SourceGroup(h) \in Group
    BY DEF SourceGroup, Group
  <2>2. /\ started[SourceGroup(h)] /\ SourceGroup(h) # g
        /\ \A t \in Threads(SourceGroup(h)) : thread[t] # "init"
    BY <1>2, <1>5 DEF IInv, Control, OrderInv
  <2> QED
    BY <1>2, <1>3, <2>1, <2>2
<1>9. CommandInv'
  <2>1. "SLEEP" # cmd /\ "FINISH" # cmd
    BY <1>1 DEF StopCommand
  <2> QED
    BY <1>1, <1>2, <2>1 DEF CommandInv, StartCommand, StopCommand
<1> QED
  BY <1>4, <1>6, <1>7, <1>8, <1>9 DEF IInv, Control

\* A sleep, called off or slept, and the end of it leave all groups as they are.
LEMMA SleepKeepsInv ==
  ASSUME IInv, SleepAborted \/ Sleep \/ WakeUp
  PROVE  IInv'
<1>1. /\ main \in {"sleep", "asleep"} /\ group = "none"
      /\ cmd \in {"SLEEP", "FINISH"}
      /\ main' \in {"loop", "asleep"}
      /\ main' = "asleep" => cmd' = cmd
      /\ cmd' \in {cmd, "NO_COMMAND"}
      /\ UNCHANGED <<card, charge_low, liveVars, requests, started, finishing,
                     is_rec_failed, quit, group, thread, failed, faults>>
  BY DEF SleepAborted, Sleep, WakeUp, inputs, bounds, IInv, Control, CommandInv
<1>2. TypeOK'
  <2>1. /\ start_rec' \in BOOLEAN /\ is_usb_on' \in BOOLEAN
        /\ sleep_condition' \in BOOLEAN
    BY Zenon DEF SleepAborted, Sleep, WakeUp, inputs, IInv, TypeOK
  <2>2. changes' = changes \/ (changes < MaxChanges /\ changes' = changes + 1)
    BY Zenon DEF SleepAborted, Sleep, WakeUp, bounds
  <2>3. changes' \in 0 .. MaxChanges
    BY <2>2, CameraAssumption DEF IInv, TypeOK
  <2>4. cmd' \in Command
    BY <1>1 DEF IInv, TypeOK, Command
  <2> QED
    BY <1>1, <2>1, <2>3, <2>4 DEF IInv, TypeOK, liveVars, requests
<1>3. \A h : /\ Lives(h)' = Lives(h) /\ Starting(h)' = Starting(h)
             /\ Stopping(h)' = Stopping(h)
  BY <1>1 DEF Lives, Starting, Stopping
<1>4. LifeInv' /\ FinishInv' /\ OrderInv'
  BY <1>1, <1>3 DEF IInv, Control, LifeInv, FinishInv, OrderInv, AtEnd
<1>5. CommandInv'
  BY <1>1, <1>3 DEF IInv, Control, CommandInv, StartCommand, StopCommand
<1> QED
  BY <1>2, <1>4, <1>5 DEF IInv, Control

-----------------------------------------------------------------------------
(* The theorems.                                                           *)

\* The inductive invariant: types, threads that live as long as main takes them
\* to, flags of ends, groups that have the groups they read, and commands that
\* were carried out.
THEOREM Inductive == Spec => []IInv
<1>1. Init => IInv
  BY InitInv
<1>2. IInv /\ [Next]_vars => IInv'
  <2> SUFFICES ASSUME IInv, [Next]_vars PROVE IInv'
    OBVIOUS
  <2>1. CASE UNCHANGED vars
    <3>1. TypeOK'
      BY <2>1 DEF vars, inputs, liveVars, requests, bounds, IInv, TypeOK
    <3> QED
      BY <2>1, <3>1, ControlUnchanged DEF vars, IInv
  <2>2. CASE Inputs \/ LiveThread \/ LiveConnects \/ LiveLeaves
               \/ (\E s \in Media : LiveAsks(s))
    BY <2>2, OutsideKeepsInv
  <2>3. CASE (\E t \in Thread : ThreadGoesOn(t) \/ Breaks(t)) \/ NoSignal
               \/ NoFile \/ StreamGoesOn
    BY <2>3, ThreadsStep, StepKeepsTypes, StepKeepsControl DEF IInv
  <2>4. CASE change_command
    BY <2>4, CommandKeepsTypes, CommandKeepsControl DEF IInv
  <2>5. CASE \E g \in Group : Started(g) \/ Stopped(g)
    BY <2>5, StartedKeepsInv, StoppedKeepsInv
  <2>6. CASE SleepAborted \/ Sleep \/ WakeUp
    BY <2>6, SleepKeepsInv
  <2> QED
    BY <2>1, <2>2, <2>3, <2>4, <2>5, <2>6 DEF Next, MainGoesOn
<1> QED
  BY <1>1, <1>2, PTL DEF Spec

\* For any number of changes and failures, only the capture threads meet each
\* other and only the streaming thread waits for the live library.
THEOREM TypeCorrect == Spec => []TypeOK
<1>1. IInv => TypeOK
  BY DEF IInv
<1> QED
  BY <1>1, Inductive, PTL

\* No thread frees its buffers while a thread that reads them is plugged, in
\* every order of requests, failures and commands.
THEOREM GroupsAlwaysOutlive == Spec => []GroupsOutliveReaders
<1>1. ASSUME IInv PROVE GroupsOutliveReaders
  <2>1. ASSUME NEW g \in Group \ {"cap"}, NEW r \in Threads(g), Reads(r),
               NEW w \in Threads(SourceGroup(g))
        PROVE  HasBuffers(w)
    <3>1. Lives(g) /\ SourceGroup(g) \in Group
      BY <1>1, <2>1 DEF Reads, SourceGroup, Group, IInv, Control, LifeInv
    <3>2. /\ Lives(SourceGroup(g)) /\ ~Stopping(SourceGroup(g))
          /\ thread[w] # "init"
      BY <1>1, <3>1 DEF IInv, Control, OrderInv, Lives
    <3> QED
      BY <1>1, <3>1, <3>2 DEF HasBuffers, IInv, Control, LifeInv
  <2>2. /\ {"enc", "rec", "stream"} \subseteq Group \ {"cap"}
        /\ SourceGroup("enc") = "cap" /\ SourceGroup("rec") = "enc"
        /\ SourceGroup("stream") = "enc"
    BY DEF Group, SourceGroup
  <2>3. "packer" \notin EncThread /\ "streamBuffs" \notin EncThread
    BY ThreadAssumption
  <2> QED
    BY <2>1, <2>2, <2>3, GroupsOfThreads DEF GroupsOutliveReaders
<1> QED
  BY <1>1, Inductive, PTL

\* No flag of an end outlives its group, so that none keeps a group from being
\* started.
THEOREM NeverStaleFinishing == Spec => []NoStaleFinishing
<1>1. IInv => NoStaleFinishing
  BY DEF IInv, Control, FinishInv, Lives, Starting, NoStaleFinishing
<1> QED
  BY <1>1, Inductive, PTL

\* The device sleeps and powers off only when every thread of every group is
\* gone.
THEOREM AlwaysSleepsAlone == Spec => []SleepsAlone
<1>1. IInv => SleepsAlone
  BY GroupsOfThreads DEF IInv, Control, LifeInv, CommandInv, SleepsAlone
<1> QED
  BY <1>1, Inductive, PTL

-----------------------------------------------------------------------------
(* No rendezvous for ever: whenever a handler waits for a group that ends by *)
(* itself, its own wait is over or a thread of the group can go on.        *)

\* The flags that end the threads of a group are set while it is stopped.
QuitInv ==
  \A g \in Group : \A t \in Threads(g) : Stopping(g) => QuitFlags(t) \subseteq quit

\* What t waits for in ThreadGoesOn, if anything, is there.
CanGoOn(t) ==
  \/ thread[t] = "init"
  \/ thread[t] = "ready" /\ (Starting(GroupOf(t)) => StartMet(GroupOf(t)))
  \/ thread[t] = "sync" /\ SyncMet
  \/ thread[t] = "run" /\ QuitFlags(t) \subseteq quit
  \/ thread[t] = "at finish" /\ EndMet(GroupOf(t))

\* main counts no thread that is not started.
CountsRight == DigitalCamera => CapThread = {"acapture"}

NoHandlerStuck ==
  CountsRight =>
    \A g \in Group \ {"stream"} :
      /\ Starting(g) => \/ StartMet(g)
                        \/ \E t \in Threads(g) : CanGoOn(t)
      /\ Stopping(g) => \/ \A t \in Threads(g) : thread[t] = "ended"
                        \/ \E t \in Threads(g) : CanGoOn(t)

\* Each step keeps the flags.
LEMMA QuitStep ==
  ASSUME IInv, QuitInv, [Next]_vars
  PROVE  QuitInv'
<1>1. ASSUME UNCHANGED <<main, group>>, quit \subseteq quit'
      PROVE  QuitInv'
  BY <1>1 DEF QuitInv, Stopping
<1>2. ASSUME main' # "stop"
      PROVE  QuitInv'
  BY <1>2 DEF QuitInv, Stopping
<1>3. CASE UNCHANGED vars
  BY <1>1, <1>3 DEF vars
<1>4. CASE Inputs \/ LiveThread \/ LiveConnects \/ LiveLeaves
             \/ (\E s \in Media : LiveAsks(s))
  <2>1. UNCHANGED <<main, group, quit>>
    BY <1>4 DEF Inputs, RecordSwitched, CardChanges, UsbChanges,
                BatteryChanges, ActivityChanges, Change, LiveThread,
                LiveStarts, LiveAnswered, LiveConnects, LiveLeaves, LiveAsks,
                LiveStep
  <2> QED
    BY <1>1, <2>1
<1>5. CASE (\E t \in Thread : ThreadGoesOn(t) \/ Breaks(t)) \/ NoSignal
             \/ NoFile \/ StreamGoesOn
  <2>1. PICK t, place : Step(t, place)
    BY <1>5, ThreadsStep
  <2>2. UNCHANGED <<main, group>> /\ quit \subseteq quit'
    BY <2>1 DEF Step, Goes, Unharmed
  <2> QED
    BY <1>1, <2>2
<1>6. CASE change_command
  <2>1. main = "loop" /\ Handles(cmd', is_stream_request')
    BY <1>6 DEF change_command
  <2>2. ASSUME main' = "stop"
        PROVE  \/ group' = "cap" /\ quit' = quit \cup QuitFlag
               \/ group' = "enc" /\ quit' = quit \cup {"REC", "STRM"}
               \/ group' = "rec" /\ quit' = quit \cup {"REC"}
               \/ group' = "stream" /\ quit' = quit \cup {"STRM"}
    BY <2>1, <2>2
       DEF Handles, Leaves, START_CAP, START_ENC, START_REC, START_WIS, Starts,
           STOP_CAP, STOP_ENC, STOP_REC, STOP_WIS, Stops
  <2>3. /\ \A t \in Threads("cap") : QuitFlags(t) = QuitFlag
        /\ \A t \in Threads("enc") : QuitFlags(t) = {"REC", "STRM"}
        /\ \A t \in Threads("rec") : QuitFlags(t) = {"REC"}
        /\ \A t \in Threads("stream") : QuitFlags(t) = {"STRM"}
    BY GroupsOfThreads, ThreadAssumption DEF QuitFlags
  <2> QED
    BY <1>2, <2>2, <2>3 DEF QuitInv, Stopping, Group
<1>7. CASE \E g \in Group : Started(g) \/ Stopped(g)
  BY <1>2, <1>7 DEF Started, Stopped
<1>8. CASE SleepAborted \/ Sleep \/ WakeUp
  BY <1>2, <1>8 DEF SleepAborted, Sleep, WakeUp
<1> QED
  BY <1>3, <1>4, <1>5, <1>6, <1>7, <1>8 DEF Next, MainGoesOn

\* All threads of a group and main meet.
LEMMA AllMeet ==
  ASSUME CountsRight, NEW g \in Group
  PROVE  Number(g) = Cardinality(Threads(g)) + 1
BY ThreadAssumption DEF CountsRight, Number

\* A start waits only for threads that can go on.
LEMMA StartGoesOn ==
  ASSUME IInv, CountsRight, NEW g \in Group, Starting(g)
  PROVE  StartMet(g) \/ \E t \in Threads(g) : CanGoOn(t)
<1>1. CASE \E t \in Threads(g) : thread[t] = "init"
  BY <1>1 DEF CanGoOn
<1>2. CASE \A t \in Threads(g) : thread[t] # "init"
  <2>1. {t \in Threads(g) : thread[t] # "init"} = Threads(g)
    BY <1>2
  <2>2. Cardinality(Threads(g)) + 1 >= Number(g)
    BY AllMeet, MainCounts
  <2> QED
    BY <2>1, <2>2 DEF StartMet
<1> QED
  BY <1>1, <1>2

\* A stop waits only for threads that can go on.
LEMMA StopGoesOn ==
  ASSUME IInv, QuitInv, CountsRight, NEW g \in Group, g # "stream",
         Stopping(g), \E t \in Threads(g) : thread[t] # "ended"
  PROVE  \E t \in Threads(g) : CanGoOn(t)
<1>1. /\ \A t \in Threads(g) : t \in Thread /\ GroupOf(t) = g
      /\ \A t \in Threads(g) : t # "streamBuffs"
      /\ ~Starting(g)
  BY GroupsOfThreads DEF Starting, Stopping, Group
<1>2. \A t \in Threads(g) : thread[t] # "none"
  <2>1. Lives(g)
    BY DEF IInv, Control, CommandInv, Stopping, Lives
  <2> QED
    BY <2>1 DEF IInv, Control, LifeInv
<1>3. \A t \in Threads(g) : thread[t] \in {"init", "ready", "sync", "run",
                                          "at finish", "ended"}
  <2> TAKE t \in Threads(g)
  <2>1. thread[t] \in Place /\ thread[t] \notin Releasing
    BY <1>1 DEF IInv, TypeOK
  <2> QED
    BY <1>2, <2>1 DEF Place
<1>4. CASE \E t \in Threads(g) : thread[t] \in {"init", "ready", "run"}
  BY <1>1, <1>4 DEF CanGoOn, QuitInv
<1>5. CASE \A t \in Threads(g) : AtEnd(t)
  <2>1. {t \in Threads(g) : AtEnd(t)} = Threads(g)
    BY <1>5
  <2>2. Cardinality(Threads(g)) + 1 >= Number(g)
    BY AllMeet, MainCounts
  <2>3. EndMet(g)
    BY <2>1, <2>2 DEF EndMet
  <2>4. PICK t \in Threads(g) : thread[t] = "at finish"
    BY <1>5 DEF AtEnd
  <2> QED
    BY <1>1, <2>3, <2>4 DEF CanGoOn
<1>6. CASE /\ \A t \in Threads(g) : thread[t] \notin {"init", "ready", "run"}
           /\ \E t \in Threads(g) : ~AtEnd(t)
  <2>1. PICK t \in Threads(g) : thread[t] = "sync"
    BY <1>3, <1>6 DEF AtEnd
  <2>2. g = "cap"
    BY <1>1, <2>1, GroupsOfThreads DEF IInv, TypeOK, Group
  <2>3. SyncMet
    BY <1>3, <1>6, <2>2, GroupsOfThreads DEF SyncMet, AtEnd
  <2> QED
    BY <2>1, <2>3 DEF CanGoOn
<1> QED
  BY <1>4, <1>5, <1>6

(* main.c, the START_* and STOP_* handlers, and the cleanups of the threads:
   main waits at no rendezvous, and for no end, that nobody comes to.  What is
   left to the scheduler is only that a thread that can go on does.        *)
THEOREM HandlersNeverStuck == Spec => []NoHandlerStuck
<1>1. Init => QuitInv
  BY DEF Init, QuitInv, Stopping
<1>2. IInv /\ QuitInv /\ [Next]_vars => QuitInv'
  BY QuitStep
<1>3. IInv /\ QuitInv => NoHandlerStuck
  BY StartGoesOn, StopGoesOn DEF NoHandlerStuck
<1> QED
  BY <1>1, <1>2, <1>3, Inductive, PTL DEF Spec

\* The places a thread goes to from another one; no way leads back but the
\* join.
Ahead(from) ==
  CASE from = "none" -> {"init"}
    [] from = "init" -> {"ready", "at finish"}
    [] from = "ready" -> {"sync", "run"}
    [] from = "sync" -> {"run", "at finish"}
    [] from = "run" -> {"at finish"}
    [] from = "at finish" -> {"releasing", "spinning", "ended"}
    [] from = "releasing" -> {"releasing audio", "spinning audio"}
    [] from = "releasing audio" -> {"ended"}
    [] from = "ended" -> {"none"}
    [] OTHER -> {}

GoesForward(t) ==
  thread'[t] # thread[t] =>
    /\ thread'[t] \in Ahead(thread[t])
    /\ thread'[t] = "none" => main = "stop" /\ main' = "loop"

ThreadsGoForward == [][\A t \in Thread : GoesForward(t)]_vars

\* A thread goes to a place that is ahead, and the others stay.
LEMMA OneGoesForward ==
  ASSUME TypeOK, NEW t \in Thread, NEW place, Goes(t, place),
         place \in Ahead(thread[t]), place # "none"
  PROVE  \A u \in Thread : GoesForward(u)
BY DEF Goes, GoesForward, TypeOK

\* The steps of the threads lead forward.
LEMMA ThreadsForward ==
  ASSUME TypeOK,
         (\E t \in Thread : ThreadGoesOn(t) \/ Breaks(t)) \/ NoSignal
           \/ NoFile \/ StreamGoesOn
  PROVE  \A u \in Thread : GoesForward(u)
<1>1. ASSUME NEW t \in Thread, thread[t] \in {"init", "sync", "run"},
             Goes(t, "at finish")
      PROVE  \A u \in Thread : GoesForward(u)
  <2>1. "at finish" \in Ahead(thread[t])
    BY <1>1 DEF Ahead
  <2> QED
    BY <1>1, <2>1, OneGoesForward
<1>2. ASSUME NEW t \in Thread, Initialised(t)
      PROVE  \A u \in Thread : GoesForward(u)
  <2>1. Goes(t, "ready") /\ "ready" \in Ahead(thread[t])
    BY <1>2 DEF Initialised, Ahead
  <2> QED
    BY <2>1, OneGoesForward
<1>3. ASSUME NEW t \in Thread, Runs(t)
      PROVE  \A u \in Thread : GoesForward(u)
  <2>1. PICK place \in {"sync", "run"} :
          Goes(t, place) /\ place \in Ahead(thread[t])
    BY <1>3 DEF Runs, AfterStart, Ahead
  <2> QED
    BY <2>1, OneGoesForward
<1>4. ASSUME NEW t \in Thread, Quits(t) \/ Starves(t)
      PROVE  \A u \in Thread : GoesForward(u)
  BY <1>1, <1>4 DEF Quits, Starves, Fails, Finishes
<1>5. ASSUME NEW t \in Thread, Ends(t)
      PROVE  \A u \in Thread : GoesForward(u)
  <2>1. Goes(t, "ended") /\ "ended" \in Ahead(thread[t])
    BY <1>5 DEF Ends, Ahead
  <2> QED
    BY <2>1, OneGoesForward
<1>6. ASSUME NEW t \in Thread, Breaks(t)
      PROVE  \A u \in Thread : GoesForward(u)
  <2>1. thread[t] \in {"init", "sync", "run"}
    BY <1>6, NamesOfThreads DEF Breaks, MayBreak
  <2> QED
    BY <1>1, <1>6, <2>1 DEF Breaks, Fails, Finishes
<1>7. CASE NoSignal
  BY <1>1, <1>7 DEF NoSignal, Fails, Finishes
<1>8. "packer" \in Thread /\ "streamBuffs" \in Thread
  BY GroupsOfThreads DEF Group
<1>9. CASE NoFile
  BY <1>1, <1>8, <1>9 DEF NoFile, Fails, Finishes
<1>10. CASE StreamGoesOn
  <2>1. PICK place \in {"at finish", "releasing", "spinning",
                        "releasing audio", "spinning audio", "ended"} :
          /\ Goes("streamBuffs", place)
          /\ place \in Ahead(thread["streamBuffs"])
    BY <1>10 DEF StreamGoesOn, StreamPlugs, StreamReleases, StreamEnds, Ahead
  <2> QED
    BY <1>8, <2>1, OneGoesForward
<1> QED
  BY <1>2, <1>3, <1>4, <1>5, <1>6, <1>7, <1>9, <1>10 DEF ThreadGoesOn

\* main creates threads that are not there and joins those that have ended.
LEMMA MainForward ==
  ASSUME IInv, change_command \/ (\E g \in Group : Started(g) \/ Stopped(g))
  PROVE  \A u \in Thread : GoesForward(u)
<1>1. ASSUME UNCHANGED thread
      PROVE  \A u \in Thread : GoesForward(u)
  BY <1>1 DEF GoesForward
<1>2. ASSUME NEW g \in Group, Creates(g), ~started[g], main = "loop"
      PROVE  \A u \in Thread : GoesForward(u)
  <2>1. \A t \in Threads(g) : thread[t] = "none"
    BY <1>2 DEF IInv, Control, LifeInv, Lives, Starting
  <2> QED
    BY <1>2, <2>1 DEF Creates, GoesForward, Ahead
<1>3. CASE change_command
  <2>1. main = "loop" /\ Handles(cmd', is_stream_request')
    BY <1>3 DEF change_command
  <2>2. \/ UNCHANGED thread
        \/ \E g \in Group : Creates(g) /\ ~started[g]
    BY <2>1 DEF Handles, Leaves, START_CAP, START_ENC, START_REC, START_WIS,
                Starts, STOP_CAP, STOP_ENC, STOP_REC, STOP_WIS, Stops, Group
  <2> QED
    BY <1>1, <1>2, <2>1, <2>2
<1>4. ASSUME NEW g \in Group, Started(g)
      PROVE  \A u \in Thread : GoesForward(u)
  BY <1>1, <1>4 DEF Started
<1>5. ASSUME NEW g \in Group, Stopped(g)
      PROVE  \A u \in Thread : GoesForward(u)
  BY <1>5 DEF Stopped, Stopping, GoesForward, Ahead
<1> QED
  BY <1>3, <1>4, <1>5

(* The cleanup of every thread, and pthread_join in main.c: a thread never
   comes back to a place it has left before it was joined, and it is joined
   only by the handler that stops its group.  With HandlersNeverStuck, a
   handler waits for no more steps of a group than its threads have places
   ahead of them.                                                          *)
THEOREM AlwaysForward == Spec => ThreadsGoForward
<1>1. ASSUME IInv, [Next]_vars
      PROVE  [\A t \in Thread : GoesForward(t)]_vars
  <2>1. ASSUME UNCHANGED thread
        PROVE  \A u \in Thread : GoesForward(u)
    BY <2>1 DEF GoesForward
  <2>2. CASE Inputs \/ LiveThread \/ LiveConnects \/ LiveLeaves
               \/ (\E s \in Media : LiveAsks(s))
    <3>1. UNCHANGED thread
      BY <2>2 DEF Inputs, RecordSwitched, CardChanges, UsbChanges,
                  BatteryChanges, ActivityChanges, Change, LiveThread,
                  LiveStarts, LiveAnswered, LiveConnects, LiveLeaves,
                  LiveAsks, LiveStep
    <3> QED
      BY <2>1, <3>1
  <2>3. CASE (\E t \in Thread : ThreadGoesOn(t) \/ Breaks(t)) \/ NoSignal
               \/ NoFile \/ StreamGoesOn
    BY <1>1, <2>3, ThreadsForward DEF IInv
  <2>4. CASE change_command \/ (\E g \in Group : Started(g) \/ Stopped(g))
    BY <1>1, <2>4, MainForward
  <2>5. CASE SleepAborted \/ Sleep \/ WakeUp
    BY <2>1, <2>5 DEF SleepAborted, Sleep, WakeUp
  <2> QED
    BY <1>1, <2>2, <2>3, <2>4, <2>5 DEF Next, MainGoesOn
<1> QED
  BY <1>1, Inductive, PTL DEF Spec, ThreadsGoForward

=============================================================================
