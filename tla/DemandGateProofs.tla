-------------------------- MODULE DemandGateProofs ---------------------------
(***************************************************************************)
(* Theorems about DemandGate, for every kind of handle, capacity, number   *)
(* of values and of failures.                                              *)
(***************************************************************************)
EXTENDS DemandGate, FiniteSetTheorems, TLAPS

-----------------------------------------------------------------------------
(* The inductive invariant, in named parts.                                *)

\* A continuation of kind k is among the microtasks s, and among them once.
Has(s, k)  == \E i \in DOMAIN s : s[i] = k
Once(s, k) == \A i, j \in DOMAIN s : s[i] = k /\ s[j] = k => i = j

\* A delivery goes before the loop's continuation.
DeliversFirst(s) ==
  \A j \in DOMAIN s : s[j] = "loop" => \E i \in 1..j : s[i] = "dispatch"

\* The loop is in one place, and runs or waits only with an empty stash or on
\* its way to emptying it.
LoopInv ==
  /\ pulled.kind = "data" => pulled.val # 0
  /\ Has(micro, "loop") <=> pulled.kind # "none"
  /\ driving => running /\ pulled.kind = "none" /\ owner # "gate" /\ turn # "onData"
  /\ pulled.kind # "none" => running /\ owner # "gate" /\ stash = 0
  /\ owner = "gate" => running /\ stash = 0
  /\ sub = "none" => ~running

\* Each kind of continuation is queued once at most, the delivery while it is
\* scheduled or cancelled.
MicroInv ==
  /\ Once(micro, "loop") /\ Once(micro, "dispatch")
  /\ dispatch # "off" <=> Has(micro, "dispatch")

\* A controller with something queued that is not paused delivers.
DeliveryInv ==
  /\ paused => inputPaused
  /\ dispatch = "scheduled" => sub = "active" /\ queued # <<>>
  /\ dispatch # "off" => queued # <<>> \/ sub = "ended"
  /\ sub = "none" => ctlClosed \/ queued = <<>>
  /\ turn = "onData" => sub # "none"
  /\ Demanded /\ queued # <<>> /\ turn # "onData" => dispatch = "scheduled"

\* The delivery of a queued value goes before the loop that could add another;
\* each error that was queued first puts it behind the loop once.
QueueRoom ==
  /\ ~ctlClosed => Len(queued) <= errors + 1
  /\ ~ctlClosed /\ turn = "onData" => Len(queued) <= errors
  /\ Demanded /\ driving /\ stash # 0 => Len(queued) <= errors
  /\ Demanded /\ Len(queued) > errors => DeliversFirst(micro)

RoomInv == QueueRoom /\ Cardinality(InController) <= errors + 1

\* The end of the stream is the last event, and nothing follows it.
DoneInv ==
  /\ sub = "ended" => queued = <<>>
  /\ \A i \in DOMAIN queued :
       queued[i] = DoneEvent => i = Len(queued) /\ ctlClosed

InChannel == {buf[i] : i \in DOMAIN buf}

\* Values move on in the order they arrived.
Sorted ==
  \A i, j \in DOMAIN queued :
    i < j /\ IsValue(queued[i]) /\ IsValue(queued[j]) => queued[i] < queued[j]

Ascending == \A i, j \in DOMAIN buf : i < j => buf[i] < buf[j]

OrderInv ==
  /\ Sorted /\ Ascending
  /\ \A v \in InController \cup InGate \cup InChannel : lastShown < v /\ v <= accepted
  /\ \A v \in InController : \A w \in InGate \cup InChannel : v < w
  /\ \A v \in InGate : \A w \in InChannel : v < w
  /\ lastShown <= accepted

\* A value whose fate is decided is nowhere else.
FateInv ==
  /\ handed \cup released \cup taken \subseteq 1..accepted
  /\ handed \cap released = {}
  /\ (handed \cup released) \cap (InController \cup InGate \cup InChannel) = {}

IInv ==
  /\ TypeOK /\ LoopInv /\ MicroInv /\ DeliveryInv /\ DoneInv /\ RoomInv
  /\ OrderInv /\ FateInv /\ OnlyCancelLoses

-----------------------------------------------------------------------------
(* Sequences.                                                              *)

LEMMA EmptyFacts ==
  ASSUME NEW S
  PROVE  <<>> \in Seq(S) /\ Len(<<>>) = 0 /\ DOMAIN <<>> = {}
  OBVIOUS

LEMMA TailFacts ==
  ASSUME NEW S, NEW s \in Seq(S), s # <<>>
  PROVE  /\ Len(s) \in Nat \ {0}
         /\ DOMAIN s = 1..Len(s)
         /\ Head(s) \in S /\ Head(s) = s[1] /\ 1 \in DOMAIN s
         /\ Tail(s) \in Seq(S)
         /\ Len(Tail(s)) = Len(s) - 1
         /\ DOMAIN Tail(s) = 1..(Len(s) - 1)
         /\ \A i \in DOMAIN Tail(s) : i + 1 \in DOMAIN s /\ Tail(s)[i] = s[i + 1]
  OBVIOUS

LEMMA AppendFacts ==
  ASSUME NEW S, NEW s \in Seq(S), NEW x \in S
  PROVE  /\ Append(s, x) \in Seq(S)
         /\ Len(s) \in Nat
         /\ DOMAIN s = 1..Len(s)
         /\ Len(Append(s, x)) = Len(s) + 1
         /\ DOMAIN Append(s, x) = 1..(Len(s) + 1)
         /\ Append(s, x)[Len(s) + 1] = x
         /\ \A i \in DOMAIN s : i \in DOMAIN Append(s, x) /\ Append(s, x)[i] = s[i]
         /\ \A i \in DOMAIN Append(s, x) : i \in DOMAIN s \/ i = Len(s) + 1
  OBVIOUS

LEMMA ConcatFacts ==
  ASSUME NEW S, NEW s \in Seq(S), NEW t \in Seq(S)
  PROVE  /\ s \o t \in Seq(S)
         /\ Len(s) \in Nat /\ Len(t) \in Nat
         /\ DOMAIN s = 1..Len(s)
         /\ Len(s \o t) = Len(s) + Len(t)
         /\ DOMAIN (s \o t) = 1..(Len(s) + Len(t))
         /\ \A i \in DOMAIN s : i \in DOMAIN (s \o t) /\ (s \o t)[i] = s[i]
         /\ \A i \in DOMAIN (s \o t) : i \notin DOMAIN s =>
              i - Len(s) \in DOMAIN t /\ (s \o t)[i] = t[i - Len(s)]
  OBVIOUS

-----------------------------------------------------------------------------
(* The handle and the controller.                                          *)

Tasks == {"loop", "dispatch", "app"}

LEMMA AnswersTyped ==
  /\ \A k \in {"none", "empty", "disconnected", "fault", "contended"} :
       /\ Handle!Answer(k) \in Results
       /\ Handle!Answer(k).kind = k /\ Handle!Answer(k).val = 0
  /\ \A v \in 1..MaxSent :
       /\ Handle!DataOf(v) \in Results
       /\ Handle!DataOf(v).kind = "data" /\ Handle!DataOf(v).val = v
  BY DemandGateAssumption DEF Handle!Answer, Handle!DataOf, Results

\* A look at the handle: the oldest value leaves it, or none does.
LEMMA Looks ==
  ASSUME TypeOK, Handle!Poll \/ Handle!Serve
  PROVE  /\ HandleTypes'
         /\ UNCHANGED <<accepted, alive, open>>
         /\ buf' = buf \/ (buf # <<>> /\ buf' = Tail(buf))
         /\ out' \in Results
         /\ out'.kind # "none"
         /\ out'.kind = "data" =>
              /\ buf # <<>> /\ buf' = Tail(buf)
              /\ out'.val = Head(buf) /\ out'.val \in 1..MaxSent
  <1> USE DEF TypeOK, HandleTypes
  <1>1. UNCHANGED <<accepted, alive, open>> /\ waiting' \in BOOLEAN
    BY DEF Handle!Poll, Handle!Serve
  <1>2. CASE Handle!Answered
    <2>1. CASE buf # <<>>
      <3>1. /\ Head(buf) \in 1..MaxSent
            /\ Tail(buf) \in Seq(1..MaxSent) /\ Len(Tail(buf)) = Len(buf) - 1
            /\ Len(buf) \in Nat
        BY <2>1, TailFacts
      <3>2. buf' = Tail(buf)
        BY <1>2, <2>1 DEF Handle!Answered
      <3>3. buf' \in Seq(1..MaxSent) /\ Len(buf') <= Capacity
        BY <3>1, <3>2, DemandGateAssumption
      <3>4. /\ out' \in Results
            /\ out'.kind # "none"
            /\ out'.kind = "data" => out'.val = Head(buf) /\ out'.val \in 1..MaxSent
        BY <1>2, <2>1, <3>1, AnswersTyped DEF Handle!Answered
      <3>5. QED
        BY <1>1, <2>1, <3>2, <3>3, <3>4
    <2>2. CASE buf = <<>>
      BY <1>1, <1>2, <2>2, AnswersTyped DEF Handle!Answered
    <2>3. QED
      BY <2>1, <2>2
  <1>3. CASE out' = Handle!Answer("empty") /\ UNCHANGED buf
    BY <1>1, <1>3, AnswersTyped
  <1>4. QED
    BY <1>2, <1>3 DEF Handle!Poll, Handle!Serve

LEMMA Emptied ==
  ASSUME buf' = <<>>
  PROVE  buf' \in Seq(1..MaxSent) /\ Len(buf') <= Capacity
  BY EmptyFacts, DemandGateAssumption

\* The producer's arrival is appended, in a full ring for the oldest value.
LEMMA Accepts ==
  ASSUME TypeOK, Handle!Accept, accepted < MaxSent
  PROVE  HandleTypes'
  <1> USE DemandGateAssumption DEF TypeOK, HandleTypes
  <1>1. accepted' \in 1..MaxSent /\ UNCHANGED <<alive, open, waiting, out>>
    BY DEF Handle!Accept
  <1>2. CASE buf' = <<>>
    BY <1>1, <1>2, Emptied
  <1>3. CASE Len(buf) < Capacity /\ buf' = Append(buf, accepted')
    BY <1>1, <1>3, AppendFacts
  <1>4. CASE Len(buf) = Capacity /\ buf' = Append(Tail(buf), accepted')
    <2>1. buf # <<>>
      BY <1>4
    <2>2. Tail(buf) \in Seq(1..MaxSent) /\ Len(Tail(buf)) = Len(buf) - 1
      BY <2>1, TailFacts
    <2>3. QED
      BY <1>1, <1>4, <2>2, AppendFacts
  <1>5. QED
    BY <1>2, <1>3, <1>4 DEF Handle!Accept

\* What the gate's calls and the producer do to the handle.
LEMMA HandleTyped ==
  ASSUME TypeOK, Next
  PROVE  HandleTypes'
  <1>1. CASE UNCHANGED handleVars
    BY <1>1 DEF TypeOK, HandleTypes, handleVars
  <1>2. CASE Handle!Accept /\ accepted < MaxSent
    BY <1>2, Accepts
  <1>3. CASE Handle!Poll \/ Handle!Serve
    BY <1>3, Looks
  <1>4. CASE Handle!Disconnect
    <2>1. UNCHANGED <<accepted, open, waiting, out>> /\ alive' = FALSE
      BY <1>4 DEF Handle!Disconnect
    <2>2. CASE buf' = <<>>
      BY <2>1, <2>2, Emptied DEF TypeOK, HandleTypes
    <2>3. CASE buf' = buf
      BY <2>1, <2>3 DEF TypeOK, HandleTypes
    <2>4. QED
      BY <1>4, <2>2, <2>3 DEF Handle!Disconnect
  <1>5. CASE Handle!Close
    <2>1. /\ UNCHANGED <<accepted, alive>> /\ open' = FALSE /\ waiting' = FALSE
          /\ buf' = <<>>
      BY <1>5 DEF Handle!Close
    <2>2. out' \in Results
      BY <1>5, AnswersTyped DEF Handle!Close, TypeOK, HandleTypes
    <2>3. QED
      BY <2>1, <2>2, Emptied DEF TypeOK, HandleTypes
  <1>6. CASE Handle!Wait
    BY <1>6 DEF Handle!Wait, TypeOK, HandleTypes
  <1>7. CASE Handle!Contend
    BY <1>7, AnswersTyped DEF Handle!Contend, TypeOK, HandleTypes
  <1>8. QED
    BY <1>1, <1>2, <1>3, <1>4, <1>5, <1>6, <1>7
       DEF Next, Produce, Drive, DriveStops, DriveStash, DrivePullReady,
           DrivePullFails, DrivePullWaits, DrivePullContended,
           Loop, LoopReleases, LoopStashes, LoopAdds, LoopForwardsError,
           LoopDisconnects, DispatchCancelled, DispatchEvent, AppMicrotask,
           AppEvent, Wake, Application, Listen, Pause, Resume, Cancel, TakeStash,
           TryRecv, RecvWaits, Close, Spawn, Returns, AppReturns, CallbackReturns

-----------------------------------------------------------------------------
(* The controller's queue and the microtasks.                              *)

LEMMA EventsTyped ==
  /\ \A v \in 0..MaxSent : <<v>> \in Seq(0..MaxSent + 1)
  /\ <<DoneEvent>> \in Seq(0..MaxSent + 1)
  /\ <<ErrorEvent>> \in Seq(0..MaxSent + 1)
  /\ <<ErrorEvent, DoneEvent>> \in Seq(0..MaxSent + 1)
  BY DemandGateAssumption DEF ErrorEvent, DoneEvent

QueuesTyped ==
  /\ queued' \in Seq(0..MaxSent + 1)
  /\ dispatch' \in {"off", "scheduled", "cancelled"}
  /\ micro' \in Seq(Tasks)

LEMMA EnqueueTypes ==
  ASSUME TypeOK, NEW events \in Seq(0..MaxSent + 1), NEW tasks \in Seq(Tasks),
         Enqueue(events, tasks)
  PROVE  QueuesTyped
  <1>1. queued \o events \in Seq(0..MaxSent + 1) /\ <<>> \in Seq(0..MaxSent + 1)
    BY ConcatFacts, EmptyFacts DEF TypeOK, ControllerTypes
  <1>2. Append(tasks, "dispatch") \in Seq(Tasks)
    BY AppendFacts DEF Tasks
  <1>3. queued' \in Seq(0..MaxSent + 1)
    BY <1>1 DEF Enqueue
  <1>4. micro' \in Seq(Tasks)
    BY <1>2 DEF Enqueue
  <1>5. dispatch' \in {"off", "scheduled", "cancelled"}
    BY DEF Enqueue, TypeOK, ControllerTypes
  <1>6. QED
    BY <1>3, <1>4, <1>5 DEF QueuesTyped

LEMMA RescheduleTypes ==
  ASSUME TypeOK, Reschedule, queued' = queued
  PROVE  QueuesTyped
  <1>1. Append(micro, "dispatch") \in Seq(Tasks) /\ micro \in Seq(Tasks)
    BY AppendFacts DEF Tasks, TypeOK, IsolateTypes
  <1>2. QED
    BY <1>1 DEF TypeOK, ControllerTypes, Reschedule, QueuesTyped

\* The oldest microtask begins.
LEMMA MicrotaskTypes ==
  ASSUME TypeOK, NEW k, Microtask(k)
  PROVE  /\ micro \in Seq(Tasks) /\ micro # <<>>
         /\ Tail(micro) \in Seq(Tasks)
         /\ Append(micro, "loop") \in Seq(Tasks)
  <1>1. micro \in Seq(Tasks)
    BY DEF TypeOK, IsolateTypes, Tasks
  <1>2. QED
    BY <1>1, TailFacts, AppendFacts DEF Microtask, Tasks

LEMMA DriveQueues ==
  ASSUME TypeOK, Drive
  PROVE  QueuesTyped
  <1>0. micro \in Seq(Tasks) /\ Append(micro, "loop") \in Seq(Tasks)
    BY AppendFacts DEF TypeOK, IsolateTypes, Tasks
  <1>1. CASE UNCHANGED <<queued, dispatch, micro>>
    BY <1>0, <1>1 DEF TypeOK, ControllerTypes, QueuesTyped
  <1>2. CASE DriveStash
    <2>1. Enqueue(<<stash>>, micro) /\ stash \in 0..MaxSent
      BY <1>2 DEF DriveStash, TypeOK, GateTypes
    <2>2. QED
      BY <1>0, <2>1, EventsTyped, EnqueueTypes
  <1>3. CASE DrivePullReady
    BY <1>0, <1>3 DEF DrivePullReady, ctlVars, TypeOK, ControllerTypes, QueuesTyped
  <1>4. CASE DrivePullFails
    BY <1>0, <1>4, EventsTyped, EnqueueTypes
       DEF DrivePullFails
  <1>5. CASE DrivePullContended
    BY <1>0, <1>5, EventsTyped, EnqueueTypes
       DEF DrivePullContended
  <1>6. CASE DriveStops
    BY <1>1, <1>6 DEF DriveStops, ctlVars
  <1>7. CASE DrivePullWaits
    BY <1>1, <1>7 DEF DrivePullWaits, ctlVars
  <1>8. QED
    BY <1>2, <1>3, <1>4, <1>5, <1>6, <1>7 DEF Drive

LEMMA LoopQueues ==
  ASSUME TypeOK, Loop
  PROVE  QueuesTyped
  <1>0. micro \in Seq(Tasks) /\ Tail(micro) \in Seq(Tasks)
    BY MicrotaskTypes DEF Loop, LoopReleases, LoopStashes, LoopAdds,
                          LoopForwardsError, LoopDisconnects, LoopResumes
  <1>1. CASE UNCHANGED <<queued, dispatch>> /\ micro' = Tail(micro)
    BY <1>0, <1>1 DEF TypeOK, ControllerTypes, QueuesTyped
  <1>2. CASE LoopAdds
    <2>1. Enqueue(<<pulled.val>>, Tail(micro)) /\ pulled.val \in 0..MaxSent
      BY <1>2 DEF LoopAdds, TypeOK, GateTypes, Results
    <2>2. QED
      BY <1>0, <2>1, EventsTyped, EnqueueTypes
  <1>3. CASE Enqueue(<<ErrorEvent>>, Tail(micro))
    BY <1>0, <1>3, EventsTyped, EnqueueTypes
  <1>4. CASE Enqueue(<<DoneEvent>>, Tail(micro))
    BY <1>0, <1>4, EventsTyped, EnqueueTypes
  <1>5. QED
    BY <1>1, <1>2, <1>3, <1>4
       DEF Loop, LoopReleases, LoopStashes, LoopForwardsError, LoopDisconnects,
           ctlVars

LEMMA ApplicationQueues ==
  ASSUME TypeOK, Application \/ Returns
  PROVE  QueuesTyped
  <1>0. micro \in Seq(Tasks) /\ Append(micro, "loop") \in Seq(Tasks)
        /\ Append(micro, "app") \in Seq(Tasks)
    BY AppendFacts DEF TypeOK, IsolateTypes, Tasks
  <1>1. CASE Reschedule /\ queued' = queued
    BY <1>1, RescheduleTypes
  <1>2. CASE UNCHANGED <<queued, dispatch>> /\ micro' \in {micro, Append(micro, "app")}
    BY <1>0, <1>2 DEF TypeOK, ControllerTypes, QueuesTyped
  <1>3. CASE /\ queued' = queued \/ queued' = <<>>
             /\ CancelSchedule /\ micro' = micro
    <2>1. queued' \in Seq(0..MaxSent + 1)
      BY <1>3, EmptyFacts DEF TypeOK, ControllerTypes
    <2>2. QED
      BY <1>0, <1>3, <2>1 DEF CancelSchedule, TypeOK, ControllerTypes, QueuesTyped
  <1>4. CASE Close
    <2>1. PICK tasks \in {micro, Append(micro, "loop")} :
            \/ micro' = tasks /\ UNCHANGED <<queued, dispatch>>
            \/ Enqueue(<<DoneEvent>>, tasks)
      BY <1>4 DEF Close
    <2>2. CASE Enqueue(<<DoneEvent>>, tasks)
      BY <1>0, <2>1, <2>2, EventsTyped, EnqueueTypes
    <2>3. CASE micro' = tasks /\ UNCHANGED <<queued, dispatch>>
      BY <1>0, <2>1, <2>3 DEF TypeOK, ControllerTypes, QueuesTyped
    <2>4. QED
      BY <2>1, <2>2, <2>3
  <1>5. QED
    BY <1>1, <1>2, <1>3, <1>4
       DEF Application, Listen, Pause, Resume, Cancel, TakeStash, TryRecv,
           RecvWaits, Spawn, Returns, AppReturns, CallbackReturns, ctlVars,
           execVars

LEMMA NextQueues ==
  ASSUME TypeOK, DeliveryInv, Next
  PROVE  QueuesTyped
  <1>0. micro \in Seq(Tasks)
    BY DEF TypeOK, IsolateTypes, Tasks
  <1>1. CASE UNCHANGED <<queued, dispatch, micro>>
    BY <1>0, <1>1 DEF TypeOK, ControllerTypes, QueuesTyped
  <1>2. CASE DispatchCancelled \/ DispatchEvent
    <2>1. Tail(micro) \in Seq(Tasks)
      BY <1>2, MicrotaskTypes DEF DispatchCancelled, DispatchEvent
    <2>2. CASE DispatchCancelled
      BY <2>1, <2>2 DEF DispatchCancelled, TypeOK, ControllerTypes, QueuesTyped
    <2>3. CASE DispatchEvent
      <3>1. Tail(queued) \in Seq(0..MaxSent + 1)
        BY <2>3, TailFacts DEF DispatchEvent, DeliveryInv, TypeOK, ControllerTypes
      <3>2. QED
        BY <2>1, <2>3, <3>1 DEF DispatchEvent, QueuesTyped
    <2>4. QED
      BY <1>2, <2>2, <2>3
  <1>3. CASE AppMicrotask
    BY <1>3, MicrotaskTypes
       DEF AppMicrotask, ctlVars, TypeOK, ControllerTypes, QueuesTyped
  <1>4. CASE Wake
    <2>1. <<"loop">> \in Seq(Tasks)
      BY DEF Tasks
    <2>2. QED
      BY <1>0, <1>4, <2>1
         DEF Wake, ctlVars, TypeOK, ControllerTypes, QueuesTyped
  <1>5. QED
    BY <1>1, <1>2, <1>3, <1>4, DriveQueues, LoopQueues, ApplicationQueues
       DEF Next, Produce, AppEvent, ctlVars, execVars

-----------------------------------------------------------------------------
(* Every step keeps the types.                                             *)

LEMMA GateTyped ==
  ASSUME TypeOK, Next
  PROVE  GateTypes'
  <1> USE DEF TypeOK, GateTypes
  <1>1. CASE UNCHANGED <<running, stash, gateClosed, pulled, owner>>
    BY <1>1
  <1>2. CASE Drive
    <2>1. CASE DrivePullReady
      <3>1. pulled' \in Results
        BY <2>1, Looks DEF DrivePullReady
      <3>2. QED
        BY <2>1, <3>1 DEF DrivePullReady
    <2>2. CASE DriveStash
      <3>1. 0 \in 0..MaxSent
        BY DemandGateAssumption
      <3>2. QED
        BY <2>2, <3>1 DEF DriveStash
    <2>3. CASE DriveStops
      BY <2>3 DEF DriveStops
    <2>4. CASE DrivePullFails
      BY <2>4 DEF DrivePullFails
    <2>5. CASE DrivePullWaits
      BY <2>5 DEF DrivePullWaits
    <2>6. CASE DrivePullContended
      BY <2>6 DEF DrivePullContended
    <2>7. QED
      BY <1>2, <2>1, <2>2, <2>3, <2>4, <2>5, <2>6 DEF Drive
  <1>3. CASE Loop
    <2>1. NoResult \in Results /\ pulled.val \in 0..MaxSent
      BY DemandGateAssumption DEF NoResult, Results
    <2>2. QED
      BY <1>3, <2>1
         DEF Loop, LoopResumes, LoopReleases, LoopStashes, LoopAdds,
             LoopForwardsError, LoopDisconnects
  <1>4. CASE Wake
    <2>1. pulled' \in Results
      BY <1>4, Looks DEF Wake
    <2>2. QED
      BY <1>4, <2>1 DEF Wake
  <1>5. CASE Application
    <2>1. Gone \in Results /\ 0 \in 0..MaxSent
      BY DemandGateAssumption DEF Gone, Results
    <2>2. QED
      BY <1>5, <2>1
         DEF Application, Listen, Pause, Resume, Cancel, TakeStash, TryRecv,
             RecvWaits, Close, Spawn, StartDrive
  <1>6. CASE Returns
    BY <1>6 DEF Returns, AppReturns, CallbackReturns, StartDrive
  <1>7. QED
    BY <1>1, <1>2, <1>3, <1>4, <1>5, <1>6
       DEF Next, Produce, DispatchCancelled, DispatchEvent, AppMicrotask, AppEvent

LEMMA ControllerTyped ==
  ASSUME TypeOK, DeliveryInv, Next
  PROVE  ControllerTypes'
  <1>1. /\ sub' \in {"none", "active", "ended"}
        /\ paused' \in BOOLEAN
        /\ inputPaused' \in BOOLEAN
        /\ ctlClosed' \in BOOLEAN
    <2> USE DEF TypeOK, ControllerTypes, ctlVars
    <2>1. CASE UNCHANGED <<sub, paused, inputPaused, ctlClosed>>
      BY <2>1
    <2>2. CASE Drive
      BY <2>2 DEF Drive, DriveStops, DriveStash, DrivePullReady, DrivePullFails,
                  DrivePullWaits, DrivePullContended
    <2>3. CASE Loop
      BY <2>3 DEF Loop, LoopReleases, LoopStashes, LoopAdds, LoopForwardsError,
                  LoopDisconnects
    <2>4. CASE Application
      BY <2>4 DEF Application, Listen, Pause, Resume, Cancel, TakeStash, TryRecv,
                  RecvWaits, Close, Spawn
    <2>5. CASE Returns
      BY <2>5 DEF Returns, AppReturns, CallbackReturns
    <2>6. QED
      BY <2>1, <2>2, <2>3, <2>4, <2>5
         DEF Next, Produce, DispatchCancelled, DispatchEvent, AppMicrotask,
             AppEvent, Wake
  <1>2. QED
    BY <1>1, NextQueues DEF QueuesTyped, ControllerTypes

LEMMA IsolateTyped ==
  ASSUME TypeOK, DeliveryInv, Next
  PROVE  IsolateTypes'
  <1>1. /\ turn' \in {"free", "app", "onData"}
        /\ driving' \in BOOLEAN
        /\ wasPaused' \in BOOLEAN
    <2> USE DEF TypeOK, IsolateTypes, GateTypes, ControllerTypes, execVars
    <2>1. CASE UNCHANGED <<turn, driving, wasPaused>>
      BY <2>1
    <2>2. CASE Drive
      BY <2>2 DEF Drive, DriveStops, DriveStash, DrivePullReady, DrivePullFails,
                  DrivePullWaits, DrivePullContended
    <2>3. CASE Loop
      BY <2>3 DEF Loop, LoopReleases, LoopStashes, LoopAdds, LoopForwardsError,
                  LoopDisconnects
    <2>4. CASE Application
      BY <2>4 DEF Application, Listen, Pause, Resume, Cancel, TakeStash, TryRecv,
                  RecvWaits, Close, Spawn, StartDrive
    <2>5. CASE Returns
      BY <2>5 DEF Returns, AppReturns, CallbackReturns, StartDrive
    <2>6. QED
      BY <2>1, <2>2, <2>3, <2>4, <2>5
         DEF Next, Produce, DispatchCancelled, DispatchEvent, AppMicrotask,
             AppEvent, Wake
  <1>2. QED
    BY <1>1, NextQueues DEF QueuesTyped, IsolateTypes, Tasks

LEMMA HistoryTyped ==
  ASSUME TypeOK, LoopInv, Next
  PROVE  HistoryTypes'
  <1> USE DEF TypeOK, HistoryTypes, histVars
  <1>1. CASE UNCHANGED histVars
    BY <1>1
  <1>2. CASE DrivePullReady
    BY <1>2, Looks DEF DrivePullReady
  <1>3. CASE Wake
    BY <1>3, Looks DEF Wake
  <1>4. CASE TryRecv
    BY <1>4, Looks DEF TryRecv
  <1>5. CASE UNCHANGED <<taken, handed, released, lastShown>> /\ errors' = errors + 1
    BY <1>5
  <1>6. CASE LoopReleases
    <2>1. pulled.val \in 1..MaxSent
      <3>1. pulled.kind = "data" /\ pulled.val \in 0..MaxSent
        BY <1>6 DEF LoopReleases, LoopResumes, GateTypes, Results
      <3>2. QED
        BY <3>1, DemandGateAssumption DEF LoopInv
    <2>2. UNCHANGED <<taken, handed, lastShown, errors>>
          /\ released' = released \cup {pulled.val}
      BY <1>6 DEF LoopReleases
    <2>3. QED
      BY <2>1, <2>2
  <1>7. CASE DispatchEvent
    <2>1. CASE IsValue(Head(queued))
      <3>1. Head(queued) \in 1..MaxSent
        BY <2>1 DEF IsValue
      <3>2. UNCHANGED <<taken, released, errors>> /\ lastShown' = Head(queued)
            /\ handed' = handed \cup {Head(queued)}
        BY <1>7, <2>1 DEF DispatchEvent
      <3>3. lastShown' \in 0..MaxSent
        BY <3>1, <3>2, DemandGateAssumption
      <3>4. handed' \subseteq 1..MaxSent
        BY <3>1, <3>2
      <3>5. QED
        BY <3>2, <3>3, <3>4
    <2>2. CASE ~IsValue(Head(queued))
      BY <1>7, <2>2, <1>1 DEF DispatchEvent
    <2>3. QED
      BY <2>1, <2>2
  <1>8. CASE TakeStash \/ Close
    <2>1. stash # 0 => stash \in 1..MaxSent
      BY DemandGateAssumption DEF GateTypes
    <2>2. CASE TakeStash
      BY <2>1, <2>2 DEF TakeStash
    <2>3. CASE Close
      <3>1. UNCHANGED <<taken, handed, lastShown, errors>>
            /\ released' = (IF stash = 0 THEN released ELSE released \cup {stash})
        BY <2>3 DEF Close
      <3>2. QED
        BY <2>1, <3>1
    <2>4. QED
      BY <1>8, <2>2, <2>3
  <1>9. QED
    BY <1>1, <1>2, <1>3, <1>4, <1>5, <1>6, <1>7, <1>8
       DEF Next, Produce, Drive, DriveStops, DriveStash, DrivePullFails,
           DrivePullWaits, DrivePullContended, Loop, LoopStashes, LoopAdds,
           LoopForwardsError, LoopDisconnects,
           DispatchCancelled, AppMicrotask, AppEvent, Application, Listen, Pause,
           Resume, Cancel, RecvWaits, Spawn, Returns, AppReturns, CallbackReturns

LEMMA TypeStep ==
  ASSUME TypeOK, LoopInv, DeliveryInv, Next
  PROVE  TypeOK'
  BY HandleTyped, GateTyped, ControllerTyped, IsolateTyped, HistoryTyped DEF TypeOK

-----------------------------------------------------------------------------
(* The microtasks.                                                         *)

LEMMA AppendedTask ==
  ASSUME NEW s \in Seq(Tasks), NEW x \in Tasks
  PROVE  /\ \A k : Has(Append(s, x), k) <=> Has(s, k) \/ x = k
         /\ \A k : Once(s, k) /\ (x = k => ~Has(s, k)) => Once(Append(s, x), k)
         /\ DeliversFirst(s) /\ (x = "loop" => Has(s, "dispatch")) =>
              DeliversFirst(Append(s, x))
  <1> DEFINE t == Append(s, x)
             n == Len(s)
  <1>1. /\ n \in Nat /\ DOMAIN s = 1..n /\ DOMAIN t = 1..(n + 1) /\ t[n + 1] = x
        /\ \A i \in 1..n : t[i] = s[i]
    BY AppendFacts
  <1> HIDE DEF t, n
  <1>2. \A k : Has(t, k) <=> Has(s, k) \/ x = k
    BY <1>1 DEF Has
  <1>3. \A k : Once(s, k) /\ (x = k => ~Has(s, k)) => Once(t, k)
    BY <1>1 DEF Has, Once
  <1>4. DeliversFirst(s) /\ (x = "loop" => Has(s, "dispatch")) => DeliversFirst(t)
    BY <1>1 DEF Has, DeliversFirst
  <1>5. QED
    BY <1>2, <1>3, <1>4 DEF t

LEMMA OldestTaskTaken ==
  ASSUME NEW s \in Seq(Tasks), s # <<>>
  PROVE  /\ \A k : Has(s, k) <=> Head(s) = k \/ Has(Tail(s), k)
         /\ \A k : Once(s, k) =>
              Once(Tail(s), k) /\ (Head(s) = k => ~Has(Tail(s), k))
         /\ DeliversFirst(s) /\ Head(s) # "dispatch" => DeliversFirst(Tail(s))
  <1> DEFINE t == Tail(s)
             n == Len(s)
  <1>1. /\ n \in Nat \ {0} /\ DOMAIN s = 1..n /\ DOMAIN t = 1..(n - 1)
        /\ Head(s) = s[1]
        /\ \A i \in 1..(n - 1) : i + 1 \in 1..n /\ t[i] = s[i + 1]
    BY TailFacts
  <1> HIDE DEF t, n
  <1>2. \A i \in 1..n : i = 1 \/ (i - 1 \in 1..(n - 1) /\ s[i] = t[i - 1])
    BY <1>1
  <1>3. \A k : Has(s, k) <=> Head(s) = k \/ Has(t, k)
    <2>1. ASSUME NEW k, Has(s, k)
          PROVE  Head(s) = k \/ Has(t, k)
      BY <1>1, <1>2, <2>1 DEF Has
    <2>2. ASSUME NEW k, Head(s) = k \/ Has(t, k)
          PROVE  Has(s, k)
      BY <1>1, <2>2 DEF Has
    <2>3. QED
      BY <2>1, <2>2
  <1>4. \A k : Once(s, k) => Once(t, k) /\ (Head(s) = k => ~Has(t, k))
    <2>1. ASSUME NEW k, Once(s, k)
          PROVE  Once(t, k)
      <3>1. SUFFICES ASSUME NEW i \in DOMAIN t, NEW j \in DOMAIN t,
                            t[i] = k, t[j] = k
                     PROVE  i = j
        BY DEF Once
      <3>2. i + 1 \in DOMAIN s /\ j + 1 \in DOMAIN s /\ s[i + 1] = k /\ s[j + 1] = k
        BY <1>1, <3>1
      <3>3. i + 1 = j + 1
        BY <2>1, <3>2 DEF Once
      <3>4. QED
        BY <1>1, <3>3
    <2>2. ASSUME NEW k, Once(s, k), Head(s) = k, Has(t, k)
          PROVE  FALSE
      <3>1. PICK i \in DOMAIN t : t[i] = k
        BY <2>2 DEF Has
      <3>2. i + 1 \in DOMAIN s /\ s[i + 1] = k /\ 1 \in DOMAIN s /\ s[1] = k
        BY <1>1, <2>2, <3>1
      <3>3. i + 1 = 1
        BY <2>2, <3>2 DEF Once
      <3>4. QED
        BY <1>1, <3>3
    <2>3. QED
      BY <2>1, <2>2
  <1>5. ASSUME DeliversFirst(s), Head(s) # "dispatch"
        PROVE  DeliversFirst(t)
    <2>1. SUFFICES ASSUME NEW j \in DOMAIN t, t[j] = "loop"
                   PROVE  \E i \in 1..j : t[i] = "dispatch"
      BY DEF DeliversFirst
    <2>2. j \in 1..(n - 1) /\ j + 1 \in DOMAIN s /\ s[j + 1] = "loop"
      BY <1>1, <2>1
    <2>3. PICK i \in 1..(j + 1) : s[i] = "dispatch"
      BY <1>5, <2>2 DEF DeliversFirst
    <2>4. i # 1 /\ i \in 1..n
      BY <1>1, <1>5, <2>2, <2>3
    <2>5. i - 1 \in 1..j /\ t[i - 1] = "dispatch"
      BY <1>1, <1>2, <2>2, <2>3, <2>4
    <2>6. QED
      BY <2>5
  <1>6. QED
    BY <1>3, <1>4, <1>5 DEF t

\* The controller's condition for scheduling the delivery of an added event.
Schedules ==
  sub = "active" /\ ~paused /\ turn # "onData" /\ dispatch = "off"

LEMMA EnqueueDef ==
  ASSUME NEW events, NEW tasks, Enqueue(events, tasks)
  PROVE  /\ queued' = IF sub = "ended" THEN <<>> ELSE queued \o events
         /\ Schedules => dispatch' = "scheduled" /\ micro' = Append(tasks, "dispatch")
         /\ ~Schedules => dispatch' = dispatch /\ micro' = tasks
  BY DEF Enqueue, Schedules

\* An event is added, with these microtasks on the queue.
LEMMA EnqueueMicro ==
  ASSUME NEW events, NEW tasks \in Seq(Tasks), Enqueue(events, tasks),
         Once(tasks, "loop"), Once(tasks, "dispatch"),
         dispatch # "off" <=> Has(tasks, "dispatch")
  PROVE  MicroInv' /\ (Has(micro', "loop") <=> Has(tasks, "loop"))
  <1>1. "dispatch" \in Tasks
    BY DEF Tasks
  <1>2. CASE Schedules
    <2>1. micro' = Append(tasks, "dispatch") /\ dispatch' = "scheduled"
          /\ ~Has(tasks, "dispatch")
      BY <1>2, EnqueueDef DEF Schedules
    <2>2. QED
      BY <1>1, <2>1, AppendedTask DEF MicroInv
  <1>3. CASE ~Schedules
    BY <1>3, EnqueueDef DEF MicroInv
  <1>4. QED
    BY <1>2, <1>3

LEMMA RescheduleMicro ==
  ASSUME micro \in Seq(Tasks), MicroInv, Reschedule
  PROVE  MicroInv' /\ (Has(micro', "loop") <=> Has(micro, "loop"))
  <1>1. "dispatch" \in Tasks
    BY DEF Tasks
  <1>2. CASE dispatch = "off"
    BY <1>1, <1>2, AppendedTask DEF Reschedule, MicroInv
  <1>3. CASE dispatch # "off"
    BY <1>3 DEF Reschedule, MicroInv
  <1>4. QED
    BY <1>2, <1>3

\* The oldest microtask is taken.
LEMMA MicrotaskMicro ==
  ASSUME TypeOK, MicroInv, NEW k, Microtask(k)
  PROVE  /\ micro \in Seq(Tasks) /\ Tail(micro) \in Seq(Tasks)
         /\ Has(micro, k)
         /\ Once(Tail(micro), "loop") /\ Once(Tail(micro), "dispatch")
         /\ k # "dispatch" => (dispatch # "off" <=> Has(Tail(micro), "dispatch"))
         /\ k = "dispatch" => ~Has(Tail(micro), "dispatch")
         /\ k = "loop" => ~Has(Tail(micro), "loop")
         /\ k # "loop" => (Has(Tail(micro), "loop") <=> Has(micro, "loop"))
  <1>1. micro # <<>> /\ Head(micro) = k
    BY DEF Microtask
  <1>2. QED
    BY <1>1, MicrotaskTypes, OldestTaskTaken DEF MicroInv

\* A microtask is appended that is not there yet.
LEMMA AppendMicro ==
  ASSUME TypeOK, MicroInv, NEW k \in {"loop", "app"}, k = "loop" => ~Has(micro, "loop"),
         micro' = Append(micro, k), dispatch' = dispatch
  PROVE  MicroInv' /\ (Has(micro', "loop") <=> Has(micro, "loop") \/ k = "loop")
  <1>1. micro \in Seq(Tasks) /\ k \in Tasks
    BY DEF TypeOK, IsolateTypes, Tasks
  <1>2. QED
    BY <1>1, AppendedTask DEF MicroInv

LEMMA DriveLoop ==
  ASSUME TypeOK, LoopInv, MicroInv, Drive
  PROVE  LoopInv' /\ MicroInv'
  <1>0. micro \in Seq(Tasks) /\ ~Has(micro, "loop") /\ driving
    BY DEF TypeOK, IsolateTypes, Tasks, LoopInv, Drive, DriveStops, DriveStash,
           DrivePullReady, DrivePullFails, DrivePullWaits, DrivePullContended
  <1>1. CASE DriveStops
    BY <1>1 DEF DriveStops, LoopInv, MicroInv, ctlVars
  <1>2. CASE DriveStash
    <2>1. MicroInv' /\ ~Has(micro', "loop")
      BY <1>0, <1>2, EnqueueMicro DEF DriveStash, MicroInv
    <2>2. QED
      BY <1>2, <2>1 DEF DriveStash, LoopInv
  <1>3. CASE DrivePullReady
    <2>1. MicroInv' /\ Has(micro', "loop")
      BY <1>0, <1>3, AppendMicro DEF DrivePullReady, ctlVars
    <2>2. pulled' = out' /\ out'.kind # "none"
          /\ (out'.kind = "data" => out'.val # 0)
      BY <1>3, Looks, DemandGateAssumption DEF DrivePullReady
    <2>3. QED
      BY <1>3, <2>1, <2>2 DEF DrivePullReady, LoopInv, ctlVars
  <1>4. CASE DrivePullFails
    <2>1. MicroInv' /\ ~Has(micro', "loop")
      BY <1>0, <1>4, EnqueueMicro DEF DrivePullFails, MicroInv
    <2>2. QED
      BY <1>4, <2>1 DEF DrivePullFails, LoopInv
  <1>5. CASE DrivePullWaits
    BY <1>5 DEF DrivePullWaits, LoopInv, MicroInv, ctlVars
  <1>6. CASE DrivePullContended
    <2>1. MicroInv' /\ ~Has(micro', "loop")
      BY <1>0, <1>6, EnqueueMicro DEF DrivePullContended, MicroInv
    <2>2. QED
      BY <1>6, <2>1 DEF DrivePullContended, LoopInv, Demanded
  <1>7. QED
    BY <1>1, <1>2, <1>3, <1>4, <1>5, <1>6 DEF Drive

LEMMA LoopLoop ==
  ASSUME TypeOK, LoopInv, MicroInv, Loop
  PROVE  LoopInv' /\ MicroInv'
  <1>1. PICK k : LoopResumes(k)
    BY DEF Loop, LoopReleases, LoopStashes, LoopAdds, LoopForwardsError,
           LoopDisconnects
  <1>2. /\ Tail(micro) \in Seq(Tasks)
        /\ Once(Tail(micro), "loop") /\ Once(Tail(micro), "dispatch")
        /\ dispatch # "off" <=> Has(Tail(micro), "dispatch")
        /\ ~Has(Tail(micro), "loop") /\ Has(micro, "loop")
    BY <1>1, MicrotaskMicro DEF LoopResumes
  <1>3. pulled' = NoResult /\ NoResult.kind = "none" /\ turn = "free"
    BY <1>1 DEF LoopResumes, NoResult, Microtask
  <1>4. MicroInv' /\ ~Has(micro', "loop")
    <2>1. CASE micro' = Tail(micro) /\ dispatch' = dispatch
      BY <1>2, <2>1 DEF MicroInv
    <2>2. CASE \E events : Enqueue(events, Tail(micro))
      BY <1>2, <2>2, EnqueueMicro
    <2>3. QED
      BY <2>1, <2>2 DEF Loop, LoopReleases, LoopStashes, LoopAdds,
                        LoopForwardsError, LoopDisconnects, ctlVars
  <1>5. running /\ owner # "gate" /\ stash = 0
    BY <1>2 DEF LoopInv
  <1>6. sub # "none" /\ sub' = sub /\ owner' = owner /\ turn' = turn
    BY <1>5 DEF Loop, LoopReleases, LoopStashes, LoopAdds, LoopForwardsError,
                LoopDisconnects, LoopInv, ctlVars
  <1>7. driving' => running'
    BY <1>1, <1>5 DEF Loop, LoopReleases, LoopStashes, LoopAdds, LoopForwardsError,
                LoopDisconnects, LoopResumes, Microtask
  <1>8. QED
    BY <1>3, <1>4, <1>5, <1>6, <1>7 DEF LoopInv

LEMMA ApplicationLoop ==
  ASSUME TypeOK, LoopInv, MicroInv, DeliveryInv, Application \/ Returns
  PROVE  LoopInv' /\ MicroInv'
  <1>0. micro \in Seq(Tasks)
    BY DEF TypeOK, IsolateTypes, Tasks
  <1>1. CASE Listen \/ Resume \/ CallbackReturns
    <2>1. MicroInv' /\ (Has(micro', "loop") <=> Has(micro, "loop"))
      <3>1. CASE Reschedule
        BY <1>0, <3>1, RescheduleMicro
      <3>2. CASE UNCHANGED <<dispatch, micro>>
        BY <3>2 DEF MicroInv
      <3>3. QED
        BY <1>1, <3>1, <3>2 DEF Listen, Resume, CallbackReturns
    <2>2. UNCHANGED <<pulled, stash, owner>> /\ ~driving
      BY <1>1 DEF Listen, Resume, CallbackReturns, App
    <2>3. sub' # "none"
      BY <1>1 DEF Listen, Resume, CallbackReturns, App, DeliveryInv
    <2>4. CASE StartDrive /\ turn' # "onData"
      <3>1. running' /\ (driving' => ~running)
        BY <2>4 DEF StartDrive
      <3>2. QED
        BY <2>1, <2>2, <2>3, <2>4, <3>1 DEF LoopInv
    <2>5. CASE UNCHANGED <<running, driving>>
      BY <2>1, <2>2, <2>3, <2>5 DEF LoopInv
    <2>6. QED
      BY <1>1, <2>4, <2>5
         DEF Listen, Resume, CallbackReturns, App, DeliveryInv
  <1>2. CASE Pause \/ Cancel
    <2>1. /\ micro' = micro /\ CancelSchedule /\ sub # "none" /\ sub' # "none"
          /\ UNCHANGED <<running, driving, pulled, owner, stash, turn>>
      BY <1>2 DEF Pause, Cancel, execVars
    <2>2. MicroInv'
      BY <2>1 DEF CancelSchedule, MicroInv
    <2>3. QED
      BY <2>1, <2>2 DEF LoopInv
  <1>3. CASE TakeStash \/ TryRecv \/ RecvWaits \/ AppReturns
    <2>1. /\ UNCHANGED <<micro, dispatch, sub, running, driving, pulled>>
          /\ ~driving
          /\ stash' = stash \/ stash' = 0
          /\ owner' = owner \/ owner' = "app"
      BY <1>3 DEF TakeStash, TryRecv, RecvWaits, AppReturns, App, ctlVars, execVars
    <2>2. QED
      BY <2>1 DEF LoopInv, MicroInv
  <1>4. CASE Spawn
    <2>1. ~Has(micro, "app") /\ micro' = Append(micro, "app") /\ dispatch' = dispatch
      BY <1>4 DEF Spawn, Has, ctlVars
    <2>2. MicroInv' /\ (Has(micro', "loop") <=> Has(micro, "loop"))
      BY <2>1, AppendMicro
    <2>3. QED
      BY <1>4, <2>2 DEF Spawn, App, LoopInv, ctlVars
  <1>5. CASE Close
    <2>1. /\ UNCHANGED <<running, sub, turn, driving>> /\ ~driving
          /\ stash' = 0 /\ owner' = "none"
          /\ pulled' = IF owner = "gate" THEN Gone ELSE pulled
      BY <1>5 DEF Close, App
    <2> DEFINE tasks == IF owner = "gate" THEN Append(micro, "loop") ELSE micro
    <2>2. /\ tasks \in Seq(Tasks)
          /\ Once(tasks, "loop") /\ Once(tasks, "dispatch")
          /\ dispatch # "off" <=> Has(tasks, "dispatch")
          /\ Has(tasks, "loop") <=> Has(micro, "loop") \/ owner = "gate"
      <3>1. CASE owner = "gate"
        <4>1. ~Has(micro, "loop") /\ "loop" \in Tasks
          BY <3>1 DEF LoopInv, Tasks
        <4>2. Append(micro, "loop") \in Seq(Tasks)
          BY <1>0, <4>1, AppendFacts
        <4>3. QED
          BY <1>0, <3>1, <4>1, <4>2, AppendedTask DEF MicroInv
      <3>2. CASE owner # "gate"
        BY <1>0, <3>2 DEF MicroInv
      <3>3. QED
        BY <3>1, <3>2
    <2>3. \/ micro' = tasks /\ dispatch' = dispatch
          \/ Enqueue(<<DoneEvent>>, tasks)
      BY <1>5 DEF Close
    <2> HIDE DEF tasks
    <2>4. MicroInv' /\ (Has(micro', "loop") <=> Has(micro, "loop") \/ owner = "gate")
      <3>1. CASE micro' = tasks /\ dispatch' = dispatch
        BY <2>2, <3>1 DEF MicroInv
      <3>2. CASE Enqueue(<<DoneEvent>>, tasks)
        BY <2>2, <3>2, EnqueueMicro
      <3>3. QED
        BY <2>3, <3>1, <3>2
    <2>5. QED
      BY <2>1, <2>4 DEF LoopInv, Gone
  <1>6. QED
    BY <1>1, <1>2, <1>3, <1>4, <1>5 DEF Application, Returns

LEMMA LoopStep ==
  ASSUME TypeOK, LoopInv, MicroInv, DeliveryInv, Next
  PROVE  LoopInv' /\ MicroInv'
  <1>1. CASE Produce \/ AppEvent
    BY <1>1 DEF Produce, AppEvent, LoopInv, MicroInv, execVars, ctlVars, Event
  <1>2. CASE DispatchCancelled \/ DispatchEvent
    <2>1. Microtask("dispatch") /\ dispatch' = "off" /\ micro' = Tail(micro)
      BY <1>2 DEF DispatchCancelled, DispatchEvent
    <2>2. MicroInv' /\ (Has(micro', "loop") <=> Has(micro, "loop"))
      BY <2>1, MicrotaskMicro DEF MicroInv
    <2>3. QED
      BY <1>2, <2>1, <2>2 DEF DispatchCancelled, DispatchEvent, LoopInv, Microtask
  <1>3. CASE AppMicrotask
    <2>1. Microtask("app") /\ micro' = Tail(micro) /\ dispatch' = dispatch
      BY <1>3 DEF AppMicrotask, ctlVars
    <2>2. MicroInv' /\ (Has(micro', "loop") <=> Has(micro, "loop"))
      BY <2>1, MicrotaskMicro DEF MicroInv
    <2>3. QED
      BY <1>3, <2>1, <2>2 DEF AppMicrotask, LoopInv, ctlVars, Microtask
  <1>4. CASE Wake
    <2>1. CASE owner = "gate"
      <3>1. micro' = Append(micro, "loop") /\ dispatch' = dispatch
        <4>1. micro = <<>> /\ micro' = <<"loop">> /\ dispatch' = dispatch
          BY <1>4, <2>1 DEF Wake, Event, ctlVars
        <4>2. QED
          BY <4>1
      <3>2. ~Has(micro, "loop")
        BY <2>1 DEF LoopInv
      <3>3. MicroInv' /\ Has(micro', "loop")
        BY <3>1, <3>2, AppendMicro
      <3>4. pulled' = out' /\ out'.kind # "none"
            /\ (out'.kind = "data" => out'.val # 0)
        BY <1>4, <2>1, Looks, DemandGateAssumption DEF Wake
      <3>5. QED
        BY <1>4, <2>1, <3>3, <3>4 DEF Wake, Event, LoopInv, ctlVars
    <2>2. CASE owner # "gate"
      BY <1>4, <2>2 DEF Wake, LoopInv, MicroInv, ctlVars
    <2>3. QED
      BY <2>1, <2>2
  <1>5. QED
    BY <1>1, <1>2, <1>3, <1>4, DriveLoop, LoopLoop, ApplicationLoop DEF Next

-----------------------------------------------------------------------------
(* The controller delivers.                                                *)

Batch(events) == events \in Seq(0..MaxSent + 1) /\ Len(events) > 0

LEMMA Batches ==
  /\ \A v \in 0..MaxSent : Batch(<<v>>)
  /\ Batch(<<ErrorEvent>>)
  /\ Batch(<<DoneEvent>>)
  /\ Batch(<<ErrorEvent, DoneEvent>>)
  BY EventsTyped DEF Batch

LEMMA EnqueueDelivery ==
  ASSUME TypeOK, DeliveryInv, NEW events, Batch(events),
         NEW tasks, Enqueue(events, tasks),
         UNCHANGED <<sub, paused, inputPaused, turn>>,
         ctlClosed => ctlClosed', gateClosed => gateClosed',
         sub # "none" \/ ctlClosed'
  PROVE  DeliveryInv'
  <1>1. sub # "ended" => queued' # <<>>
    <2>1. queued \o events # <<>>
      BY ConcatFacts, EmptyFacts DEF Batch, TypeOK, ControllerTypes
    <2>2. QED
      BY <2>1, EnqueueDef
  <1>2. sub = "ended" => queued' = <<>>
    BY EnqueueDef
  <1>3. Demanded' => Demanded
    BY DEF Demanded
  <1>4. (Schedules /\ dispatch' = "scheduled") \/ (~Schedules /\ dispatch' = dispatch)
    BY EnqueueDef
  <1>5. QED
    BY <1>1, <1>2, <1>3, <1>4
       DEF DeliveryInv, Schedules, Demanded, TypeOK, ControllerTypes

\* What DeliveryInv speaks of.
deliveryVars ==
  <<sub, paused, inputPaused, ctlClosed, gateClosed, queued, dispatch, turn>>

LEMMA DriveDelivery ==
  ASSUME TypeOK, LoopInv, DeliveryInv, Drive
  PROVE  DeliveryInv'
  <1> USE DEF ctlVars
  <1>1. CASE DriveStops \/ DrivePullReady \/ DrivePullWaits
    BY <1>1 DEF DriveStops, DrivePullReady, DrivePullWaits, DeliveryInv, Demanded
  <1>2. Drive => Demanded \/ DriveStops
    BY DEF Drive, DriveStash, DrivePullReady, DrivePullFails, DrivePullWaits,
           DrivePullContended
  <1>3. CASE DriveStash
    <2>1. Batch(<<stash>>)
      BY Batches DEF TypeOK, GateTypes
    <2>2. /\ UNCHANGED <<sub, paused, inputPaused, turn>> /\ (gateClosed => gateClosed')
          /\ (ctlClosed => ctlClosed')
      BY <1>3 DEF DriveStash
    <2>3. QED
      BY <1>3, <2>1, <2>2, EnqueueDelivery DEF DriveStash, Demanded
  <1>4. CASE DrivePullFails
    <2>1. Batch(<<ErrorEvent>>)
      BY Batches
    <2>2. /\ UNCHANGED <<sub, paused, inputPaused, turn>> /\ (gateClosed => gateClosed')
          /\ (ctlClosed => ctlClosed')
      BY <1>4 DEF DrivePullFails
    <2>3. QED
      BY <1>4, <2>1, <2>2, EnqueueDelivery DEF DrivePullFails, Demanded
  <1>5. CASE DrivePullContended
    <2>1. Batch(<<ErrorEvent, DoneEvent>>)
      BY Batches
    <2>2. /\ UNCHANGED <<sub, paused, inputPaused, turn>> /\ (gateClosed => gateClosed')
          /\ (ctlClosed => ctlClosed')
      BY <1>5 DEF DrivePullContended
    <2>3. QED
      BY <1>5, <2>1, <2>2, EnqueueDelivery DEF DrivePullContended, Demanded
  <1>6. QED
    BY <1>1, <1>3, <1>4, <1>5 DEF Drive

LEMMA LoopDelivery ==
  ASSUME TypeOK, LoopInv, DeliveryInv, Loop
  PROVE  DeliveryInv'
  <1> USE DEF ctlVars
  <1>0. sub # "none"
    BY DEF Loop, LoopReleases, LoopStashes, LoopAdds, LoopForwardsError,
           LoopDisconnects, LoopResumes, LoopInv
  <1>1. CASE UNCHANGED <<queued, dispatch>>
    BY <1>0, <1>1 DEF Loop, LoopReleases, LoopStashes, LoopAdds, LoopForwardsError,
                LoopDisconnects, DeliveryInv, Demanded
  <1>2. CASE LoopAdds
    <2>1. Batch(<<pulled.val>>)
      BY Batches DEF TypeOK, GateTypes, Results
    <2>2. /\ UNCHANGED <<sub, paused, inputPaused, turn>> /\ (gateClosed => gateClosed')
          /\ (ctlClosed => ctlClosed')
      BY <1>2 DEF LoopAdds
    <2>3. QED
      BY <1>0, <1>2, <2>1, <2>2, EnqueueDelivery DEF LoopAdds
  <1>3. CASE LoopForwardsError /\ Enqueue(<<ErrorEvent>>, Tail(micro))
    <2>1. Batch(<<ErrorEvent>>)
      BY Batches
    <2>2. /\ UNCHANGED <<sub, paused, inputPaused, turn>> /\ (gateClosed => gateClosed')
          /\ (ctlClosed => ctlClosed')
      BY <1>3 DEF LoopForwardsError
    <2>3. QED
      BY <1>0, <1>3, <2>1, <2>2, EnqueueDelivery DEF LoopForwardsError
  <1>4. CASE LoopDisconnects /\ Enqueue(<<DoneEvent>>, Tail(micro))
    <2>1. Batch(<<DoneEvent>>)
      BY Batches
    <2>2. /\ UNCHANGED <<sub, paused, inputPaused, turn>> /\ (gateClosed => gateClosed')
          /\ (ctlClosed => ctlClosed')
      BY <1>4 DEF LoopDisconnects
    <2>3. QED
      BY <1>0, <1>4, <2>1, <2>2, EnqueueDelivery DEF LoopDisconnects
  <1>5. QED
    BY <1>1, <1>2, <1>3, <1>4
       DEF Loop, LoopReleases, LoopStashes, LoopForwardsError, LoopDisconnects

LEMMA ApplicationDelivery ==
  ASSUME TypeOK, LoopInv, DeliveryInv, Application \/ Returns
  PROVE  DeliveryInv'
  <1> USE DEF ctlVars, execVars
  <1>1. CASE Listen
    BY <1>1 DEF Listen, Reschedule, DeliveryInv, Demanded, App, TypeOK, ControllerTypes
  <1>2. CASE Pause
    BY <1>2 DEF Pause, CancelSchedule, DeliveryInv, Demanded, TypeOK, ControllerTypes
  <1>3. CASE Resume
    BY <1>3 DEF Resume, Reschedule, DeliveryInv, Demanded, TypeOK, ControllerTypes
  <1>4. CASE Cancel
    BY <1>4 DEF Cancel, CancelSchedule, DeliveryInv, Demanded, TypeOK, ControllerTypes
  <1>5. CASE TakeStash \/ TryRecv \/ RecvWaits \/ Spawn \/ AppReturns
    BY <1>5 DEF TakeStash, TryRecv, RecvWaits, Spawn, AppReturns, DeliveryInv, Demanded
  <1>6. CASE Close
    <2>1. CASE ctlClosed
      BY <1>6, <2>1 DEF Close, DeliveryInv, Demanded
    <2>2. CASE ~ctlClosed
      <3>1. PICK tasks : Enqueue(<<DoneEvent>>, tasks)
        BY <1>6, <2>2 DEF Close
      <3>2. Batch(<<DoneEvent>>)
        BY Batches
      <3>3. /\ UNCHANGED <<sub, paused, inputPaused, turn>>
            /\ gateClosed' = TRUE /\ ctlClosed' = TRUE
        BY <1>6 DEF Close
      <3>4. QED
        BY <3>1, <3>2, <3>3, EnqueueDelivery
    <2>3. QED
      BY <2>1, <2>2
  <1>7. CASE CallbackReturns
    BY <1>7 DEF CallbackReturns, Reschedule, DeliveryInv, Demanded, TypeOK,
                ControllerTypes
  <1>8. QED
    BY <1>1, <1>2, <1>3, <1>4, <1>5, <1>6, <1>7 DEF Application, Returns

LEMMA DeliveryStep ==
  ASSUME TypeOK, LoopInv, DeliveryInv, Next
  PROVE  DeliveryInv'
  <1> USE DEF ctlVars, execVars
  <1>1. CASE Produce \/ AppEvent \/ AppMicrotask \/ Wake
    BY <1>1 DEF Produce, AppEvent, AppMicrotask, Wake, Event, Microtask,
                DeliveryInv, Demanded
  <1>2. CASE DispatchCancelled
    BY <1>2 DEF DispatchCancelled, Microtask, DeliveryInv, Demanded
  <1>3. CASE DispatchEvent
    BY <1>3 DEF DispatchEvent, Microtask, DeliveryInv, Demanded
  <1>4. QED
    BY <1>1, <1>2, <1>3, DriveDelivery, LoopDelivery, ApplicationDelivery DEF Next

-----------------------------------------------------------------------------
(* What is in the controller.                                              *)

ValuesOf(q) == {q[i] : i \in {j \in DOMAIN q : IsValue(q[j])}}

LEMMA ValuesCounted ==
  ASSUME NEW q \in Seq(0..MaxSent + 1)
  PROVE  /\ IsFiniteSet(ValuesOf(q))
         /\ Cardinality(ValuesOf(q)) \in Nat
         /\ Cardinality(ValuesOf(q)) <= Len(q)
  <1> DEFINE D == {j \in DOMAIN q : IsValue(q[j])}
             f == [i \in D |-> q[i]]
             n == Len(q)
  <1>1. n \in Nat /\ DOMAIN q = 1..n
    OBVIOUS
  <1> HIDE DEF n
  <1>2. IsFiniteSet(1..n) /\ Cardinality(1..n) = n
    BY <1>1, FS_Interval
  <1>3. D \in SUBSET (1..n)
    BY <1>1
  <1>4. IsFiniteSet(D) /\ Cardinality(D) <= n
    BY <1>2, <1>3, FS_Subset
  <1>5. f \in Surjection(D, ValuesOf(q))
    BY DEF Surjection, ValuesOf
  <1>6. IsFiniteSet(ValuesOf(q)) /\ Cardinality(ValuesOf(q)) <= Cardinality(D)
    BY <1>4, <1>5, FS_Surjection
  <1>7. Cardinality(D) \in Nat /\ Cardinality(ValuesOf(q)) \in Nat
    BY <1>4, <1>6, FS_CardinalityType
  <1>8. QED
    BY <1>1, <1>4, <1>6, <1>7 DEF n

NoValue(events) ==
  events \in Seq(0..MaxSent + 1) /\ \A i \in DOMAIN events : ~IsValue(events[i])

LEMMA NoValues ==
  /\ NoValue(<<ErrorEvent>>)
  /\ NoValue(<<DoneEvent>>)
  /\ NoValue(<<ErrorEvent, DoneEvent>>)
  <1>1. ~IsValue(ErrorEvent) /\ ~IsValue(DoneEvent)
    BY DemandGateAssumption DEF IsValue, ErrorEvent, DoneEvent
  <1>2. QED
    BY <1>1, EventsTyped DEF NoValue

\* An error or the end of the stream is added.
LEMMA EnqueueNoValue ==
  ASSUME TypeOK, DoneInv, NEW events, NEW tasks, NoValue(events),
         Enqueue(events, tasks)
  PROVE  InController' = InController /\ (Sorted => Sorted')
  <1>0. events \in Seq(0..MaxSent + 1) /\ \A i \in DOMAIN events : ~IsValue(events[i])
    BY DEF NoValue
  <1>1. CASE sub = "ended"
    <2>1. queued' = queued
      BY <1>1, EnqueueDef DEF DoneInv
    <2>2. QED
      BY <2>1 DEF InController, Sorted
  <1>2. CASE sub # "ended"
    <2>1. queued' = queued \o events
      BY <1>2, EnqueueDef
    <2>2. /\ DOMAIN queued \subseteq DOMAIN queued'
          /\ \A i \in DOMAIN queued : queued'[i] = queued[i]
          /\ \A i \in DOMAIN queued' : i \notin DOMAIN queued => ~IsValue(queued'[i])
      BY <1>0, <2>1, ConcatFacts DEF TypeOK, ControllerTypes
    <2>3. QED
      BY <2>2 DEF InController, Sorted
  <1>3. QED
    BY <1>1, <1>2

\* A value is added.
LEMMA EnqueueValue ==
  ASSUME TypeOK, NEW v \in 1..MaxSent, NEW tasks, Enqueue(<<v>>, tasks),
         sub # "ended"
  PROVE  /\ InController' = InController \cup {v}
         /\ Sorted /\ (\A w \in InController : w < v) => Sorted'
         /\ Len(queued') = Len(queued) + 1
  <1> DEFINE n == Len(queued)
  <1>1. /\ <<v>> \in Seq(0..MaxSent + 1) /\ Len(<<v>>) = 1 /\ <<v>>[1] = v
        /\ DOMAIN <<v>> = 1..1
    BY EventsTyped
  <1>2. queued' = queued \o <<v>>
    BY EnqueueDef
  <1>3. /\ n \in Nat /\ DOMAIN queued = 1..n
        /\ DOMAIN queued' = 1..(n + 1) /\ Len(queued') = n + 1
        /\ \A i \in 1..n : queued'[i] = queued[i]
        /\ queued'[n + 1] = v
    BY <1>1, <1>2, ConcatFacts DEF TypeOK, ControllerTypes
  <1> HIDE DEF n
  <1>4. IsValue(v)
    BY DEF IsValue
  <1>5. InController' = InController \cup {v}
    BY <1>3, <1>4 DEF InController
  <1>6. ASSUME Sorted, \A w \in InController : w < v
        PROVE  Sorted'
    BY <1>3, <1>6 DEF Sorted, InController
  <1>7. QED
    BY <1>3, <1>5, <1>6 DEF n

-----------------------------------------------------------------------------
(* The end of the stream comes last.                                       *)

EndsWell(events) ==
  /\ events \in Seq(0..MaxSent + 1)
  /\ \A i \in DOMAIN events : events[i] = DoneEvent => i = Len(events)

NoEnd(events) ==
  events \in Seq(0..MaxSent + 1) /\ \A i \in DOMAIN events : events[i] # DoneEvent

LEMMA Ends ==
  /\ EndsWell(<<DoneEvent>>) /\ EndsWell(<<ErrorEvent, DoneEvent>>)
  /\ NoEnd(<<ErrorEvent>>) /\ \A v \in 0..MaxSent : NoEnd(<<v>>)
  <1>1. ErrorEvent # DoneEvent /\ \A v \in 0..MaxSent : v # DoneEvent
    BY DemandGateAssumption DEF ErrorEvent, DoneEvent
  <1>2. QED
    BY <1>1, EventsTyped DEF EndsWell, NoEnd

LEMMA EnqueueDone ==
  ASSUME TypeOK, DoneInv, NEW events, NEW tasks, Enqueue(events, tasks),
         ~ctlClosed, sub' = sub,
         NoEnd(events) \/ (EndsWell(events) /\ ctlClosed')
  PROVE  DoneInv'
  <1> DEFINE n == Len(queued)
  <1>1. CASE sub = "ended"
    BY <1>1, EnqueueDef, EmptyFacts DEF DoneInv
  <1>2. CASE sub # "ended"
    <2>1. queued' = queued \o events
      BY <1>2, EnqueueDef
    <2>2. events \in Seq(0..MaxSent + 1) /\ queued \in Seq(0..MaxSent + 1)
      BY DEF NoEnd, EndsWell, TypeOK, ControllerTypes
    <2>3. \A i \in DOMAIN queued : queued[i] # DoneEvent
      BY DEF DoneInv
    <2>4. SUFFICES ASSUME NEW i \in DOMAIN queued', queued'[i] = DoneEvent
                   PROVE  i = Len(queued') /\ ctlClosed'
      BY <1>2 DEF DoneInv
    <2>5. i \notin DOMAIN queued
      BY <2>1, <2>2, <2>3, <2>4, ConcatFacts
    <2>6. i - n \in DOMAIN events /\ events[i - n] = DoneEvent
      BY <2>1, <2>2, <2>4, <2>5, ConcatFacts
    <2>7. i - n = Len(events) /\ ctlClosed'
      BY <2>6 DEF NoEnd, EndsWell
    <2>8. QED
      BY <2>1, <2>2, <2>4, <2>7, ConcatFacts
  <1>3. QED
    BY <1>1, <1>2

LEMMA DoneStep ==
  ASSUME TypeOK, DeliveryInv, DoneInv, Next
  PROVE  DoneInv'
  <1> USE DEF ctlVars, execVars
  <1>1. CASE /\ queued' = queued /\ (ctlClosed => ctlClosed')
             /\ sub' = sub \/ sub' # "ended"
    BY <1>1 DEF DoneInv
  <1>2. CASE DriveStash
    BY <1>2, Ends, EnqueueDone DEF DriveStash, Demanded, TypeOK, GateTypes
  <1>3. CASE DrivePullFails
    BY <1>3, Ends, EnqueueDone DEF DrivePullFails, Demanded
  <1>4. CASE DrivePullContended
    BY <1>4, Ends, EnqueueDone DEF DrivePullContended, Demanded
  <1>5. CASE LoopAdds
    <2>1. NoEnd(<<pulled.val>>)
      BY Ends DEF TypeOK, GateTypes, Results
    <2>2. QED
      BY <1>5, <2>1, EnqueueDone DEF LoopAdds, Demanded
  <1>6. CASE LoopForwardsError
    BY <1>1, <1>6, Ends, EnqueueDone DEF LoopForwardsError
  <1>7. CASE LoopDisconnects
    BY <1>1, <1>7, Ends, EnqueueDone DEF LoopDisconnects
  <1>8. CASE Close
    <2>1. sub' = sub /\ ctlClosed' = TRUE
      BY <1>8 DEF Close
    <2>2. CASE ctlClosed
      BY <1>1, <1>8, <2>1, <2>2 DEF Close
    <2>3. CASE ~ctlClosed
      <3>1. PICK tasks : Enqueue(<<DoneEvent>>, tasks)
        BY <1>8, <2>3 DEF Close
      <3>2. QED
        BY <2>1, <2>3, <3>1, Ends, EnqueueDone
    <2>4. QED
      BY <2>2, <2>3
  <1>9. CASE Cancel
    BY <1>9, EmptyFacts DEF Cancel, DoneInv
  <1>10. CASE DispatchEvent
    <2>1. /\ queued # <<>> /\ queued \in Seq(0..MaxSent + 1)
          /\ sub = "active" /\ queued' = Tail(queued) /\ ctlClosed' = ctlClosed
          /\ Head(queued) = DoneEvent \/ sub' = sub
      BY <1>10 DEF DispatchEvent, DeliveryInv, TypeOK, ControllerTypes
    <2>2. \A i \in DOMAIN queued' :
            queued'[i] = DoneEvent => i = Len(queued') /\ ctlClosed'
      <3>1. SUFFICES ASSUME NEW i \in DOMAIN Tail(queued),
                            Tail(queued)[i] = DoneEvent
                     PROVE  i = Len(Tail(queued)) /\ ctlClosed
        BY <2>1
      <3>2. /\ i + 1 \in DOMAIN queued /\ queued[i + 1] = DoneEvent
            /\ i \in Nat /\ Len(queued) \in Nat /\ Len(Tail(queued)) = Len(queued) - 1
        BY <2>1, <3>1, TailFacts
      <3>3. i + 1 = Len(queued) /\ ctlClosed
        BY <3>2 DEF DoneInv
      <3>4. QED
        BY <3>2, <3>3
    <2>3. Head(queued) = DoneEvent => queued' = <<>>
      <3>1. ASSUME Head(queued) = DoneEvent
            PROVE  Len(queued) = 1
        BY <2>1, <3>1, TailFacts DEF DoneInv
      <3>2. ASSUME Len(queued) = 1
            PROVE  Tail(queued) = <<>>
        BY <2>1, <3>2
      <3>3. QED
        BY <2>1, <3>1, <3>2
    <2>4. QED
      BY <2>1, <2>2, <2>3 DEF DoneInv
  <1>11. QED
    BY <1>1, <1>2, <1>3, <1>4, <1>5, <1>6, <1>7, <1>8, <1>9, <1>10
       DEF Next, Produce, Drive, DriveStops, DrivePullReady, DrivePullWaits, Loop,
           LoopReleases, LoopStashes, DispatchCancelled, AppMicrotask, AppEvent,
           Wake, Application, Listen, Pause, Resume, TakeStash, TryRecv,
           RecvWaits, Spawn, Returns, AppReturns, CallbackReturns

-----------------------------------------------------------------------------
(* There is room in the controller for what the loop adds.                 *)

\* The bound on what is queued follows for its values while the controller is
\* open; afterwards no value is added.
LEMMA RoomForValues ==
  ASSUME TypeOK, TypeOK', RoomInv, errors <= errors',
         (~ctlClosed' /\ Len(queued') <= errors' + 1)
           \/ InController' \subseteq InController
  PROVE  Cardinality(InController') <= errors' + 1
  <1>1. errors \in Nat /\ errors' \in Nat
    BY DEF TypeOK, HistoryTypes
  <1>2. /\ IsFiniteSet(InController')
        /\ Cardinality(InController') \in Nat
        /\ Cardinality(InController') <= Len(queued')
    BY ValuesCounted DEF InController, ValuesOf, TypeOK, ControllerTypes
  <1>3. CASE Len(queued') <= errors' + 1
    BY <1>1, <1>2, <1>3 DEF TypeOK, ControllerTypes
  <1>4. CASE InController' \subseteq InController
    <2>1. Cardinality(InController') <= Cardinality(InController)
          /\ Cardinality(InController) \in Nat
      <3>1. IsFiniteSet(InController) /\ Cardinality(InController) \in Nat
        BY ValuesCounted DEF InController, ValuesOf, TypeOK, ControllerTypes
      <3>2. QED
        BY <1>4, <3>1, FS_Subset
    <2>2. QED
      BY <1>1, <1>2, <2>1 DEF RoomInv
  <1>5. QED
    BY <1>3, <1>4

\* Once the controller is closed its values only leave it.
LEMMA ClosedGainsNothing ==
  ASSUME TypeOK, DeliveryInv, DoneInv, Next, ctlClosed'
  PROVE  InController' \subseteq InController
  <1> USE DEF ctlVars
  <1>1. CASE queued' = queued
    BY <1>1 DEF InController
  <1>2. CASE \E events, tasks : NoValue(events) /\ Enqueue(events, tasks)
    BY <1>2, EnqueueNoValue
  <1>3. CASE Cancel
    BY <1>3, EmptyFacts DEF Cancel, InController
  <1>4. CASE DispatchEvent
    <2>1. /\ queued # <<>> /\ queued \in Seq(0..MaxSent + 1)
          /\ queued' = Tail(queued)
      BY <1>4 DEF DispatchEvent, DeliveryInv, TypeOK, ControllerTypes
    <2>2. \A i \in DOMAIN queued' : i + 1 \in DOMAIN queued /\ queued'[i] = queued[i + 1]
      BY <2>1, TailFacts
    <2>3. QED
      BY <2>2 DEF InController
  <1>5. CASE Close
    <2>1. CASE ctlClosed
      BY <1>1, <1>5, <2>1 DEF Close
    <2>2. CASE ~ctlClosed
      BY <1>2, <1>5, <2>2, NoValues DEF Close
    <2>3. QED
      BY <2>1, <2>2
  <1>6. CASE DrivePullFails \/ DrivePullContended
    BY <1>2, <1>6, NoValues DEF DrivePullFails, DrivePullContended
  <1>7. CASE LoopForwardsError \/ LoopDisconnects
    BY <1>1, <1>2, <1>7, NoValues DEF LoopForwardsError, LoopDisconnects
  <1>8. ~DriveStash /\ ~LoopAdds
    BY DEF DriveStash, LoopAdds, Demanded
  <1>9. QED
    BY <1>1, <1>3, <1>4, <1>5, <1>6, <1>7, <1>8
       DEF Next, Produce, Drive, DriveStops, DrivePullReady, DrivePullWaits, Loop,
           LoopReleases, LoopStashes, DispatchCancelled, AppMicrotask, AppEvent,
           Wake, Application, Listen, Pause, Resume, TakeStash, TryRecv,
           RecvWaits, Spawn, Returns, AppReturns, CallbackReturns

\* How far an added batch lengthens the queue.
LEMMA EnqueueLength ==
  ASSUME TypeOK, NEW events \in Seq(0..MaxSent + 1), NEW tasks,
         Enqueue(events, tasks)
  PROVE  /\ Len(queued) \in Nat /\ Len(queued') \in Nat
         /\ Len(queued') <= Len(queued) + Len(events)
  <1>1. CASE sub = "ended"
    BY <1>1, EnqueueDef, EmptyFacts, ConcatFacts DEF TypeOK, ControllerTypes
  <1>2. CASE sub # "ended"
    BY <1>2, EnqueueDef, ConcatFacts DEF TypeOK, ControllerTypes
  <1>3. QED
    BY <1>1, <1>2

One(events) == events \in Seq(0..MaxSent + 1) /\ Len(events) = 1

LEMMA Ones ==
  One(<<ErrorEvent>>) /\ \A v \in 0..MaxSent : One(<<v>>)
  BY EventsTyped DEF One

LEMMA EnqueueOne ==
  ASSUME TypeOK, NEW events, One(events), NEW tasks, Enqueue(events, tasks)
  PROVE  /\ Len(queued) \in Nat /\ Len(queued') \in Nat
         /\ Len(queued') <= Len(queued) + 1
  BY EnqueueLength DEF One

LEMMA NoLoopDeliversFirst ==
  ASSUME NEW s, ~Has(s, "loop")
  PROVE  DeliversFirst(s)
  BY DEF Has, DeliversFirst

LEMMA DriveRoom ==
  ASSUME TypeOK, LoopInv, LoopInv', MicroInv, DeliveryInv, QueueRoom, Drive
  PROVE  QueueRoom'
  <1> USE DEF ctlVars, histVars
  <1>0. /\ errors \in Nat /\ Len(queued) \in Nat /\ micro \in Seq(Tasks)
        /\ driving /\ turn # "onData" /\ ~Has(micro, "loop") /\ turn' = turn
    BY DEF TypeOK, ControllerTypes, HistoryTypes, IsolateTypes, Tasks, LoopInv, Drive,
           DriveStops, DriveStash, DrivePullReady, DrivePullFails, DrivePullWaits,
           DrivePullContended
  <1>1. CASE DriveStops \/ DrivePullWaits
    BY <1>0, <1>1 DEF DriveStops, DrivePullWaits, QueueRoom, Demanded
  <1>2. CASE DriveStash
    <2>1. Len(queued) <= errors
      BY <1>0, <1>2 DEF DriveStash, QueueRoom
    <2>2. Len(queued') \in Nat /\ Len(queued') <= Len(queued) + 1
      BY <1>2, Ones, EnqueueOne DEF DriveStash, TypeOK, GateTypes
    <2>3. ~Has(micro', "loop")
      BY <1>0, <1>2 DEF DriveStash, LoopInv
    <2>4. stash' = 0 /\ errors' = errors
      BY <1>2 DEF DriveStash
    <2>5. QED
      BY <1>0, <2>1, <2>2, <2>3, <2>4, NoLoopDeliversFirst DEF QueueRoom
  <1>3. CASE DrivePullReady
    <2>1. Demanded /\ Len(queued) > errors => DeliversFirst(micro')
      <3>1. SUFFICES ASSUME Demanded, Len(queued) > errors
                     PROVE  DeliversFirst(micro')
        OBVIOUS
      <3>2. queued # <<>>
        BY <1>0, <3>1, EmptyFacts
      <3>3. Has(micro, "dispatch")
        BY <1>0, <3>1, <3>2 DEF DeliveryInv, MicroInv
      <3>4. DeliversFirst(micro) /\ "loop" \in Tasks /\ micro' = Append(micro, "loop")
        BY <1>3, <3>1 DEF QueueRoom, Tasks, DrivePullReady
      <3>5. QED
        BY <1>0, <3>3, <3>4, AppendedTask
    <2>2. QED
      BY <1>0, <1>3, <2>1 DEF DrivePullReady, QueueRoom, Demanded
  <1>4. CASE DrivePullFails
    <2>1. Len(queued') \in Nat /\ Len(queued') <= Len(queued) + 1
      BY <1>4, Ones, EnqueueOne DEF DrivePullFails
    <2>2. ~Has(micro', "loop")
      BY <1>0, <1>4 DEF DrivePullFails, LoopInv
    <2>3. stash' = 0 /\ errors' = errors + 1 /\ ctlClosed' = ctlClosed
      BY <1>4 DEF DrivePullFails
    <2>4. QED
      BY <1>0, <2>1, <2>2, <2>3, NoLoopDeliversFirst DEF QueueRoom
  <1>5. CASE DrivePullContended
    BY <1>5 DEF DrivePullContended, QueueRoom, Demanded
  <1>6. QED
    BY <1>1, <1>2, <1>3, <1>4, <1>5 DEF Drive

LEMMA LoopRoom ==
  ASSUME TypeOK, LoopInv, LoopInv', MicroInv, DeliveryInv, QueueRoom, Loop
  PROVE  QueueRoom'
  <1> USE DEF ctlVars, histVars
  <1>0. /\ errors \in Nat /\ Len(queued) \in Nat /\ micro \in Seq(Tasks)
        /\ micro # <<>> /\ Head(micro) = "loop" /\ stash = 0
        /\ turn = "free" /\ turn' = "free" /\ ~Has(micro', "loop")
    BY DEF TypeOK, ControllerTypes, HistoryTypes, IsolateTypes, Tasks, LoopInv, Loop,
           LoopReleases, LoopStashes, LoopAdds, LoopForwardsError, LoopDisconnects,
           LoopResumes, Microtask, NoResult
  <1>1. DeliversFirst(micro')
    BY <1>0, NoLoopDeliversFirst
  <1>2. CASE UNCHANGED <<queued, errors>> /\ ~driving'
    BY <1>0, <1>1, <1>2
       DEF Loop, LoopReleases, LoopStashes, LoopAdds, LoopForwardsError,
           LoopDisconnects, QueueRoom
  <1>3. CASE LoopAdds
    <2>1. ~DeliversFirst(micro)
      <3>1. 1 \in DOMAIN micro /\ micro[1] = "loop"
        BY <1>0, TailFacts
      <3>2. QED
        BY <3>1 DEF DeliversFirst
    <2>2. Len(queued) <= errors
      BY <1>0, <1>3, <2>1 DEF LoopAdds, QueueRoom
    <2>3. Len(queued') \in Nat /\ Len(queued') <= Len(queued) + 1
      BY <1>3, Ones, EnqueueOne DEF LoopAdds, TypeOK, GateTypes, Results
    <2>4. stash' = 0 /\ errors' = errors
      BY <1>0, <1>3 DEF LoopAdds
    <2>5. QED
      BY <1>0, <1>1, <2>2, <2>3, <2>4 DEF QueueRoom
  <1>4. CASE LoopForwardsError
    <2>1. stash' = 0 /\ errors' = errors + 1 /\ ctlClosed' = ctlClosed
      BY <1>0, <1>4 DEF LoopForwardsError
    <2>2. CASE ctlClosed
      BY <1>0, <1>1, <2>1, <2>2 DEF QueueRoom
    <2>3. CASE ~ctlClosed
      <3>1. Len(queued') \in Nat /\ Len(queued') <= Len(queued) + 1
        BY <1>4, <2>3, Ones, EnqueueOne DEF LoopForwardsError
      <3>2. QED
        BY <1>0, <1>1, <2>1, <2>3, <3>1 DEF QueueRoom
    <2>4. QED
      BY <2>2, <2>3
  <1>5. CASE LoopDisconnects
    BY <1>5 DEF LoopDisconnects, QueueRoom, Demanded
  <1>6. QED
    BY <1>2, <1>3, <1>4, <1>5
       DEF Loop, LoopReleases, LoopStashes, LoopResumes, Microtask

LEMMA ApplicationRoom ==
  ASSUME TypeOK, LoopInv, MicroInv, DeliveryInv, QueueRoom, Application \/ Returns
  PROVE  QueueRoom'
  <1> USE DEF ctlVars, execVars, histVars
  <1>0. /\ errors \in Nat /\ Len(queued) \in Nat /\ micro \in Seq(Tasks)
        /\ ~driving
    BY DEF TypeOK, ControllerTypes, HistoryTypes, IsolateTypes, Tasks, Application,
           Listen, Pause, Resume, Cancel, TakeStash, TryRecv, RecvWaits, Close, Spawn,
           Returns, AppReturns, CallbackReturns, App
  <1>1. CASE Listen
    <2>1. ctlClosed \/ Len(queued) = 0
      BY <1>1, EmptyFacts DEF Listen, DeliveryInv
    <2>2. UNCHANGED <<ctlClosed, queued, errors, turn, stash>>
      BY <1>1 DEF Listen
    <2>3. QED
      BY <1>0, <2>1, <2>2 DEF QueueRoom, Demanded
  <1>2. CASE Pause
    <2>1. ~Demanded' /\ UNCHANGED <<ctlClosed, queued, errors, turn>>
      BY <1>2 DEF Pause, Demanded
    <2>2. QED
      BY <2>1 DEF QueueRoom
  <1>3. CASE Resume
    <2>1. UNCHANGED <<ctlClosed, queued, errors, turn, stash>>
      BY <1>3 DEF Resume
    <2>2. CASE queued = <<>>
      <3>1. Len(queued) = 0
        BY <2>2, EmptyFacts
      <3>2. QED
        BY <1>0, <2>1, <3>1 DEF QueueRoom
    <2>3. CASE queued # <<>>
      <3>1. ~Demanded'
        <4>1. inputPaused /\ inputPaused' = inputPaused
          BY <1>3, <2>3 DEF Resume, DeliveryInv
        <4>2. QED
          BY <4>1 DEF Demanded
      <3>2. QED
        BY <2>1, <3>1 DEF QueueRoom
    <2>4. QED
      BY <2>2, <2>3
  <1>4. CASE Cancel
    <2>1. ~Demanded' /\ queued' = <<>> /\ UNCHANGED <<ctlClosed, errors>>
      BY <1>4 DEF Cancel, Demanded
    <2>2. Len(queued') = 0
      BY <2>1, EmptyFacts
    <2>3. QED
      BY <1>0, <2>1, <2>2 DEF QueueRoom
  <1>5. CASE TakeStash \/ TryRecv \/ RecvWaits \/ AppReturns
    <2>1. /\ UNCHANGED <<ctlClosed, queued, errors, micro, driving>>
          /\ Demanded' = Demanded
          /\ turn' = turn \/ turn' = "free"
      BY <1>5 DEF TakeStash, TryRecv, RecvWaits, AppReturns, Demanded
    <2>2. QED
      BY <1>0, <2>1 DEF QueueRoom
  <1>6. CASE Close
    BY <1>6 DEF Close, QueueRoom, Demanded
  <1>7. CASE Spawn
    <2>1. "app" \in Tasks /\ micro' = Append(micro, "app")
      BY <1>7 DEF Spawn, Tasks
    <2>2. DeliversFirst(micro) => DeliversFirst(micro')
      BY <1>0, <2>1, AppendedTask
    <2>3. UNCHANGED <<ctlClosed, queued, errors, turn, driving>> /\ Demanded' = Demanded
      BY <1>7 DEF Spawn, Demanded
    <2>4. QED
      BY <1>0, <2>2, <2>3 DEF QueueRoom
  <1>8. CASE CallbackReturns
    <2>1. UNCHANGED <<ctlClosed, queued, errors>> /\ turn = "onData" /\ turn' = "free"
      BY <1>8 DEF CallbackReturns
    <2>2. ~ctlClosed => Len(queued) <= errors
      BY <2>1 DEF QueueRoom
    <2>3. QED
      BY <1>0, <2>1, <2>2 DEF QueueRoom, Demanded
  <1>9. QED
    BY <1>1, <1>2, <1>3, <1>4, <1>5, <1>6, <1>7, <1>8 DEF Application, Returns

LEMMA QueueRoomStep ==
  ASSUME TypeOK, LoopInv, LoopInv', MicroInv, DeliveryInv, QueueRoom, Next
  PROVE  QueueRoom'
  <1> USE DEF ctlVars, execVars, histVars
  <1>0. errors \in Nat /\ Len(queued) \in Nat /\ micro \in Seq(Tasks)
    BY DEF TypeOK, ControllerTypes, HistoryTypes, IsolateTypes, Tasks
  <1>1. CASE Produce \/ AppEvent
    <2>1. /\ UNCHANGED <<ctlClosed, queued, errors, micro, driving, stash>>
          /\ Demanded' = Demanded
          /\ turn' = turn \/ turn' = "app"
      BY <1>1 DEF Produce, AppEvent, Demanded
    <2>2. QED
      BY <1>0, <2>1 DEF QueueRoom
  <1>2. CASE DispatchCancelled
    <2>1. /\ UNCHANGED <<ctlClosed, queued, errors, turn, driving>> /\ ~driving
          /\ turn = "free" /\ dispatch = "cancelled" /\ Demanded' = Demanded
      BY <1>2 DEF DispatchCancelled, Microtask, Demanded
    <2>2. Demanded => Len(queued) = 0
      BY <2>1, EmptyFacts DEF DeliveryInv
    <2>3. QED
      BY <1>0, <2>1, <2>2 DEF QueueRoom
  <1>3. CASE DispatchEvent
    <2>1. /\ UNCHANGED <<ctlClosed, errors, driving>> /\ ~driving
          /\ queued # <<>> /\ queued' = Tail(queued) /\ turn = "free"
      BY <1>3 DEF DispatchEvent, Microtask, DeliveryInv
    <2>2. Len(queued') = Len(queued) - 1
      BY <2>1, TailFacts DEF TypeOK, ControllerTypes
    <2>3. QED
      BY <1>0, <2>1, <2>2 DEF QueueRoom, Demanded
  <1>4. CASE AppMicrotask
    <2>1. /\ UNCHANGED <<ctlClosed, queued, errors, driving>> /\ ~driving
          /\ turn' = "app" /\ Demanded' = Demanded
          /\ micro # <<>> /\ Head(micro) = "app" /\ micro' = Tail(micro)
      BY <1>4 DEF AppMicrotask, Microtask, Demanded
    <2>2. DeliversFirst(micro) => DeliversFirst(micro')
      BY <1>0, <2>1, OldestTaskTaken
    <2>3. QED
      BY <1>0, <2>1, <2>2 DEF QueueRoom
  <1>5. CASE Wake
    <2>1. /\ UNCHANGED <<ctlClosed, queued, errors, turn, driving>> /\ ~driving
          /\ turn = "free" /\ micro = <<>> /\ Demanded' = Demanded
      BY <1>5 DEF Wake, Event, Demanded
    <2>2. dispatch = "off"
      BY <2>1, EmptyFacts DEF MicroInv, Has
    <2>3. Demanded => Len(queued) = 0
      BY <2>1, <2>2, EmptyFacts DEF DeliveryInv
    <2>4. QED
      BY <1>0, <2>1, <2>3 DEF QueueRoom
  <1>6. QED
    BY <1>1, <1>2, <1>3, <1>4, <1>5, DriveRoom, LoopRoom, ApplicationRoom DEF Next

LEMMA ErrorsGrow ==
  ASSUME TypeOK, Next
  PROVE  errors <= errors'
  <1>1. errors \in Nat
    BY DEF TypeOK, HistoryTypes
  <1>2. errors' = errors \/ errors' = errors + 1
    BY DEF Next, Produce, Drive, DriveStops, DriveStash, DrivePullReady,
           DrivePullFails, DrivePullWaits, DrivePullContended, Loop, LoopReleases,
           LoopStashes, LoopAdds, LoopForwardsError, LoopDisconnects,
           DispatchCancelled, DispatchEvent, AppMicrotask, AppEvent, Wake,
           Application, Listen, Pause, Resume, Cancel, TakeStash, TryRecv,
           RecvWaits, Close, Spawn, Returns, AppReturns, CallbackReturns, histVars
  <1>3. QED
    BY <1>1, <1>2

LEMMA RoomStep ==
  ASSUME TypeOK, TypeOK', LoopInv, LoopInv', MicroInv, DeliveryInv, DoneInv, RoomInv,
         Next
  PROVE  RoomInv'
  <1>1. QueueRoom'
    BY QueueRoomStep DEF RoomInv
  <1>2. errors <= errors'
    BY ErrorsGrow
  <1>3. ctlClosed' => InController' \subseteq InController
    BY ClosedGainsNothing
  <1>4. QED
    BY <1>1, <1>2, <1>3, RoomForValues DEF RoomInv, QueueRoom

-----------------------------------------------------------------------------
(* How values move: every step is one of these.                            *)

\* Nothing moves, or the channel drops what it holds.
Stays ==
  /\ InChannel' \subseteq InChannel
  /\ UNCHANGED <<InController, InGate, accepted, lastShown, handed, released, taken>>

Arrives ==
  /\ accepted' = accepted + 1
  /\ InChannel' \subseteq InChannel \cup {accepted + 1}
  /\ UNCHANGED <<InController, InGate, lastShown, handed, released, taken>>

\* The oldest value leaves the channel.
Leaves(v) ==
  /\ v \in InChannel
  /\ InChannel' \subseteq {w \in InChannel : v < w}

IsPulled(v) ==
  /\ Leaves(v)
  /\ InGate = {} /\ InGate' = {v}
  /\ taken' = taken \cup {v}
  /\ UNCHANGED <<InController, accepted, lastShown, handed, released>>

IsPolled(v) ==
  /\ Leaves(v)
  /\ handed' = handed \cup {v}
  /\ UNCHANGED <<InController, InGate, accepted, lastShown, released, taken>>

IsQueued(v) ==
  /\ InGate = {v} /\ InGate' = {}
  /\ InController' = InController \cup {v}
  /\ UNCHANGED <<InChannel, accepted, lastShown, handed, released, taken>>

IsShown(v) ==
  /\ v \in InController /\ \A w \in InController : w = v \/ v < w
  /\ InController' = {w \in InController : v < w}
  /\ lastShown' = v
  /\ handed' = handed \cup {v}
  /\ UNCHANGED <<InGate, InChannel, accepted, released, taken>>

IsRetrieved(v) ==
  /\ InGate = {v} /\ InGate' = {}
  /\ handed' = handed \cup {v}
  /\ UNCHANGED <<InController, InChannel, accepted, lastShown, released, taken>>

IsReleased(v) ==
  /\ InGate = {v} /\ InGate' = {}
  /\ released' = released \cup {v}
  /\ InChannel' \subseteq InChannel
  /\ UNCHANGED <<InController, accepted, lastShown, handed, taken>>

AreCancelled ==
  /\ InController' = {}
  /\ sub = "active" /\ sub' = "ended"
  /\ UNCHANGED <<InGate, InChannel, accepted, lastShown, handed, released, taken>>

Moves ==
  \/ Stays \/ Arrives \/ AreCancelled
  \/ \E v \in 1..MaxSent :
       \/ IsPulled(v) \/ IsPolled(v) \/ IsQueued(v)
       \/ IsShown(v) \/ IsRetrieved(v) \/ IsReleased(v)

LEMMA ValueTypes ==
  ASSUME TypeOK
  PROVE  /\ accepted \in Nat /\ lastShown \in Nat
         /\ InController \subseteq Nat \ {0} /\ InChannel \subseteq Nat \ {0}
         /\ InGate \subseteq Nat
  <1>1. accepted \in Nat /\ lastShown \in Nat
    BY DemandGateAssumption DEF TypeOK, HandleTypes, HistoryTypes
  <1>2. InController \subseteq Nat \ {0}
    BY DemandGateAssumption DEF InController, IsValue
  <1>3. InChannel \subseteq Nat \ {0}
    BY DemandGateAssumption DEF TypeOK, HandleTypes, InChannel
  <1>4. InGate \subseteq Nat
    BY DemandGateAssumption DEF TypeOK, GateTypes, Results, InGate
  <1>5. QED
    BY <1>1, <1>2, <1>3, <1>4

LEMMA OrderMoves ==
  ASSUME TypeOK, OrderInv, Moves, Sorted', Ascending'
  PROVE  OrderInv'
  <1>0. /\ accepted \in Int /\ lastShown \in Int
        /\ InController \subseteq Int /\ InGate \subseteq Int /\ InChannel \subseteq Int
    BY ValueTypes
  <1>1. CASE Stays
    BY <1>1 DEF Stays, OrderInv
  <1>2. CASE Arrives
    BY <1>0, <1>2 DEF Arrives, OrderInv
  <1>3. CASE AreCancelled
    BY <1>3 DEF AreCancelled, OrderInv
  <1>4. ASSUME NEW v \in 1..MaxSent, IsPulled(v)
        PROVE  OrderInv'
    BY <1>0, <1>4 DEF IsPulled, Leaves, OrderInv
  <1>5. ASSUME NEW v \in 1..MaxSent, IsPolled(v)
        PROVE  OrderInv'
    BY <1>5 DEF IsPolled, Leaves, OrderInv
  <1>6. ASSUME NEW v \in 1..MaxSent, IsQueued(v)
        PROVE  OrderInv'
    BY <1>6 DEF IsQueued, OrderInv
  <1>7. ASSUME NEW v \in 1..MaxSent, IsShown(v)
        PROVE  OrderInv'
    BY <1>0, <1>7 DEF IsShown, OrderInv
  <1>8. ASSUME NEW v \in 1..MaxSent, IsRetrieved(v)
        PROVE  OrderInv'
    BY <1>8 DEF IsRetrieved, OrderInv
  <1>9. ASSUME NEW v \in 1..MaxSent, IsReleased(v)
        PROVE  OrderInv'
    BY <1>9 DEF IsReleased, OrderInv
  <1>10. QED
    BY <1>1, <1>2, <1>3, <1>4, <1>5, <1>6, <1>7, <1>8, <1>9 DEF Moves

LEMMA FateMoves ==
  ASSUME TypeOK, OrderInv, FateInv, Moves
  PROVE  FateInv'
  <1>0. /\ accepted \in Nat
        /\ InController \subseteq Nat \ {0} /\ InChannel \subseteq Nat \ {0}
        /\ InGate \subseteq Nat
    BY ValueTypes
  <1>1. CASE Stays
    BY <1>1 DEF Stays, FateInv
  <1>2. CASE Arrives
    BY <1>0, <1>2 DEF Arrives, FateInv, OrderInv
  <1>3. CASE AreCancelled
    BY <1>3 DEF AreCancelled, FateInv
  <1>4. ASSUME NEW v \in 1..MaxSent, IsPulled(v)
        PROVE  FateInv'
    BY <1>0, <1>4 DEF IsPulled, Leaves, OrderInv, FateInv
  <1>5. ASSUME NEW v \in 1..MaxSent, IsPolled(v)
        PROVE  FateInv'
    BY <1>0, <1>5 DEF IsPolled, Leaves, OrderInv, FateInv
  <1>6. ASSUME NEW v \in 1..MaxSent, IsQueued(v)
        PROVE  FateInv'
    BY <1>6 DEF IsQueued, FateInv
  <1>7. ASSUME NEW v \in 1..MaxSent, IsShown(v)
        PROVE  FateInv'
    BY <1>0, <1>7 DEF IsShown, OrderInv, FateInv
  <1>8. ASSUME NEW v \in 1..MaxSent, IsRetrieved(v)
        PROVE  FateInv'
    BY <1>0, <1>8 DEF IsRetrieved, OrderInv, FateInv
  <1>9. ASSUME NEW v \in 1..MaxSent, IsReleased(v)
        PROVE  FateInv'
    BY <1>0, <1>9 DEF IsReleased, OrderInv, FateInv
  <1>10. QED
    BY <1>1, <1>2, <1>3, <1>4, <1>5, <1>6, <1>7, <1>8, <1>9 DEF Moves

LEMMA LostMoves ==
  ASSUME Moves
  PROVE  Lost' \subseteq Lost \/ (AreCancelled /\ Lost' \subseteq Lost \cup InController)
  <1>1. CASE Stays \/ Arrives
    BY <1>1 DEF Stays, Arrives, Lost, Held
  <1>2. CASE AreCancelled
    BY <1>2 DEF AreCancelled, Lost, Held
  <1>3. ASSUME NEW v \in 1..MaxSent, IsPulled(v) \/ IsPolled(v) \/ IsQueued(v)
        PROVE  Lost' \subseteq Lost
    BY <1>3 DEF IsPulled, IsPolled, IsQueued, Lost, Held
  <1>4. ASSUME NEW v \in 1..MaxSent, IsRetrieved(v) \/ IsReleased(v)
        PROVE  Lost' \subseteq Lost
    BY <1>4 DEF IsRetrieved, IsReleased, Lost, Held
  <1>5. ASSUME NEW v \in 1..MaxSent, IsShown(v)
        PROVE  Lost' \subseteq Lost
    BY <1>5 DEF IsShown, Lost, Held
  <1>6. QED
    BY <1>1, <1>2, <1>3, <1>4, <1>5 DEF Moves

LEMMA LostCounted ==
  ASSUME TypeOK
  PROVE  IsFiniteSet(Lost) /\ Cardinality(Lost) \in Nat
  <1>1. IsFiniteSet(1..MaxSent)
    BY FS_Interval, DemandGateAssumption
  <1>2. Lost \in SUBSET (1..MaxSent)
    BY DEF Lost, TypeOK, HistoryTypes
  <1>3. QED
    BY <1>1, <1>2, FS_Subset, FS_CardinalityType

LEMMA LoseStep ==
  ASSUME TypeOK, RoomInv, OnlyCancelLoses, Moves, errors' \in Nat, errors <= errors',
         sub' = sub \/ sub # "ended"
  PROVE  OnlyCancelLoses'
  <1>0. /\ IsFiniteSet(Lost) /\ Cardinality(Lost) \in Nat /\ errors \in Nat
        /\ IsFiniteSet(InController) /\ Cardinality(InController) \in Nat
    BY LostCounted, ValuesCounted
       DEF TypeOK, HistoryTypes, InController, ValuesOf, ControllerTypes
  <1>1. CASE Lost' \subseteq Lost
    <2>1. IsFiniteSet(Lost') /\ Cardinality(Lost') <= Cardinality(Lost)
      BY <1>0, <1>1, FS_Subset
    <2>2. Cardinality(Lost') \in Nat
      BY <2>1, FS_CardinalityType
    <2>3. QED
      BY <1>0, <2>1, <2>2 DEF OnlyCancelLoses
  <1>2. CASE AreCancelled /\ Lost' \subseteq Lost \cup InController
    <2>1. Cardinality(Lost) = 0
      BY <1>0, <1>2 DEF AreCancelled, OnlyCancelLoses
    <2>2. Lost = {}
      BY <1>0, <2>1, FS_EmptySet
    <2>3. Lost' \in SUBSET InController
      BY <1>2, <2>2
    <2>4. IsFiniteSet(Lost') /\ Cardinality(Lost') <= Cardinality(InController)
      BY <1>0, <2>3, FS_Subset
    <2>5. Cardinality(Lost') \in Nat
      BY <2>4, FS_CardinalityType
    <2>6. QED
      BY <1>0, <1>2, <2>4, <2>5 DEF AreCancelled, RoomInv, OnlyCancelLoses
  <1>3. QED
    BY <1>1, <1>2, LostMoves

-----------------------------------------------------------------------------
(* Every step is a move, and keeps the controller and the channel in order. *)

\* The oldest value is gone from the channel.
LEMMA TailLeaves ==
  ASSUME TypeOK, Ascending, buf # <<>>, buf' = Tail(buf)
  PROVE  Ascending' /\ Leaves(Head(buf)) /\ InChannel' \subseteq InChannel
  <1> DEFINE n == Len(buf)
  <1>1. /\ n \in Nat \ {0} /\ DOMAIN buf = 1..n
        /\ Head(buf) = buf[1]
        /\ DOMAIN buf' = 1..(n - 1)
        /\ \A i \in 1..(n - 1) : i + 1 \in 1..n /\ buf'[i] = buf[i + 1]
    BY TailFacts DEF TypeOK, HandleTypes
  <1> HIDE DEF n
  <1>2. Ascending'
    <2>1. SUFFICES ASSUME NEW i \in DOMAIN buf', NEW j \in DOMAIN buf', i < j
                   PROVE  buf'[i] < buf'[j]
      BY DEF Ascending
    <2>2. i + 1 \in DOMAIN buf /\ j + 1 \in DOMAIN buf /\ i + 1 < j + 1
      BY <1>1, <2>1
    <2>3. buf[i + 1] < buf[j + 1]
      BY <2>2 DEF Ascending
    <2>4. QED
      BY <1>1, <2>3
  <1>3. \A w \in InChannel' : w \in InChannel /\ Head(buf) < w
    <2>1. SUFFICES ASSUME NEW i \in DOMAIN buf'
                   PROVE  buf'[i] \in InChannel /\ Head(buf) < buf'[i]
      BY DEF InChannel
    <2>2. i + 1 \in DOMAIN buf /\ 1 \in DOMAIN buf /\ 1 < i + 1 /\ buf'[i] = buf[i + 1]
      BY <1>1
    <2>3. QED
      BY <1>1, <2>2 DEF Ascending, InChannel
  <1>4. Head(buf) \in InChannel
    BY <1>1 DEF InChannel
  <1>5. QED
    BY <1>2, <1>3, <1>4 DEF Leaves

LEMMA LooksMove ==
  ASSUME TypeOK, Ascending, Handle!Poll \/ Handle!Serve
  PROVE  /\ Ascending' /\ InChannel' \subseteq InChannel /\ accepted' = accepted
         /\ out'.kind = "data" => Leaves(out'.val) /\ out'.val \in 1..MaxSent
  <1>1. CASE buf' = buf
    BY <1>1, Looks, TailLeaves DEF Ascending, InChannel
  <1>2. CASE buf # <<>> /\ buf' = Tail(buf)
    BY <1>2, Looks, TailLeaves
  <1>3. QED
    BY <1>1, <1>2, Looks

LEMMA AppendArrives ==
  ASSUME NEW s \in Seq(1..MaxSent), \A i, j \in DOMAIN s : i < j => s[i] < s[j],
         \A i \in DOMAIN s : s[i] \in InChannel /\ s[i] <= accepted,
         accepted \in Nat, NEW v \in 1..MaxSent, v = accepted + 1,
         buf' = Append(s, v)
  PROVE  Ascending' /\ InChannel' \subseteq InChannel \cup {v}
  <1> DEFINE n == Len(s)
  <1>0. \A i \in DOMAIN s : s[i] < v
    <2>1. \A i \in DOMAIN s : s[i] \in Nat
      BY DemandGateAssumption
    <2>2. QED
      BY <2>1
  <1>1. /\ n \in Nat /\ DOMAIN s = 1..n
        /\ DOMAIN buf' = 1..(n + 1) /\ buf'[n + 1] = v
        /\ \A i \in 1..n : buf'[i] = s[i]
    BY AppendFacts
  <1> HIDE DEF n
  <1>2. Ascending'
    <2>1. \A i \in 1..n : s[i] < v
      BY <1>0, <1>1
    <2>2. \A i, j \in 1..n : i < j => s[i] < s[j]
      BY <1>1
    <2>3. QED
      BY <1>1, <2>1, <2>2 DEF Ascending
  <1>3. InChannel' \subseteq InChannel \cup {v}
    BY <1>1 DEF InChannel
  <1>4. QED
    BY <1>2, <1>3

LEMMA EmptyChannel ==
  ASSUME buf' = <<>>
  PROVE  Ascending' /\ InChannel' = {}
  BY EmptyFacts DEF Ascending, InChannel

LEMMA ProduceMoves ==
  ASSUME TypeOK, OrderInv, Produce
  PROVE  Moves /\ Sorted' /\ Ascending'
  <1>0. UNCHANGED <<InController, InGate, lastShown, handed, released, taken>> /\ Sorted'
    BY DEF Produce, ctlVars, histVars, InController, InGate, OrderInv, Sorted
  <1>1. CASE Handle!Accept /\ accepted < MaxSent
    <2>1. accepted \in Nat /\ accepted' = accepted + 1 /\ accepted + 1 \in 1..MaxSent
      BY <1>1, DemandGateAssumption DEF Handle!Accept, TypeOK, HandleTypes
    <2>2. buf \in Seq(1..MaxSent) /\ Ascending
      BY DEF TypeOK, HandleTypes, OrderInv
    <2>3. Ascending' /\ InChannel' \subseteq InChannel \cup {accepted + 1}
      <3>1. CASE buf' = <<>>
        BY <3>1, EmptyChannel
      <3>2. CASE buf' = Append(buf, accepted + 1)
        <4>1. \A i \in DOMAIN buf : buf[i] \in InChannel /\ buf[i] <= accepted
          BY DEF OrderInv, InChannel
        <4>2. QED
          BY <2>1, <2>2, <3>2, <4>1, AppendArrives DEF Ascending
      <3>3. CASE Len(buf) = Capacity /\ buf' = Append(Tail(buf), accepted + 1)
        <4>1. buf # <<>>
          BY <3>3, EmptyFacts, DemandGateAssumption
        <4>2. /\ Tail(buf) \in Seq(1..MaxSent)
              /\ DOMAIN buf = 1..Len(buf) /\ DOMAIN Tail(buf) = 1..(Len(buf) - 1)
              /\ Len(buf) \in Nat
              /\ \A i \in DOMAIN Tail(buf) :
                   i + 1 \in DOMAIN buf /\ Tail(buf)[i] = buf[i + 1]
          BY <2>2, <4>1, TailFacts
        <4>3. \A i, j \in DOMAIN Tail(buf) : i < j => Tail(buf)[i] < Tail(buf)[j]
          <5>1. SUFFICES ASSUME NEW i \in DOMAIN Tail(buf), NEW j \in DOMAIN Tail(buf),
                                i < j
                         PROVE  Tail(buf)[i] < Tail(buf)[j]
            OBVIOUS
          <5>2. i + 1 < j + 1
            BY <4>2, <5>1
          <5>3. QED
            BY <2>2, <4>2, <5>2 DEF Ascending
        <4>4. \A i \in DOMAIN Tail(buf) :
                Tail(buf)[i] \in InChannel /\ Tail(buf)[i] <= accepted
          BY <4>2 DEF OrderInv, InChannel
        <4>5. QED
          BY <2>1, <3>3, <4>2, <4>3, <4>4, AppendArrives
      <3>4. QED
        BY <1>1, <2>1, <3>1, <3>2, <3>3 DEF Handle!Accept
    <2>4. QED
      BY <1>0, <2>1, <2>3 DEF Moves, Arrives
  <1>2. CASE Handle!Disconnect
    <2>1. accepted' = accepted /\ (buf' = buf \/ buf' = <<>>)
      BY <1>2 DEF Handle!Disconnect
    <2>2. Ascending' /\ InChannel' \subseteq InChannel
      <3>1. CASE buf' = buf
        BY <3>1 DEF Ascending, InChannel, OrderInv
      <3>2. CASE buf' = <<>>
        BY <3>2, EmptyChannel
      <3>3. QED
        BY <2>1, <3>1, <3>2
    <2>3. QED
      BY <1>0, <2>1, <2>2 DEF Moves, Stays
  <1>3. QED
    BY <1>1, <1>2 DEF Produce

\* The handle is left alone.
LEMMA ChannelSame ==
  ASSUME OrderInv, UNCHANGED handleVars
  PROVE  Ascending' /\ UNCHANGED <<InChannel, accepted>>
  BY DEF OrderInv, Ascending, InChannel, handleVars

\* The queue is left alone.
LEMMA QueueSame ==
  ASSUME OrderInv, queued' = queued
  PROVE  Sorted' /\ InController' = InController
  BY DEF OrderInv, Sorted, InController

\* What is in the gate's hands.
LEMMA GateFacts ==
  /\ pulled.kind = "data" /\ stash = 0 => InGate = {pulled.val}
  /\ pulled.kind # "data" /\ stash # 0 => InGate = {stash}
  /\ pulled.kind # "data" /\ stash = 0 => InGate = {}
  BY DEF InGate

LEMMA DriveMoves ==
  ASSUME TypeOK, LoopInv, DoneInv, OrderInv, Drive
  PROVE  Moves /\ Sorted' /\ Ascending'
  <1> USE DEF ctlVars, histVars
  <1>0. pulled.kind = "none" /\ stash \in 0..MaxSent
    BY DEF TypeOK, GateTypes, LoopInv, Drive, DriveStops, DriveStash, DrivePullReady,
           DrivePullFails, DrivePullWaits, DrivePullContended
  <1>1. CASE DriveStops
    <2>1. /\ UNCHANGED <<handleVars, queued, pulled, stash>>
          /\ UNCHANGED <<lastShown, handed, released, taken>>
      BY <1>1 DEF DriveStops
    <2>2. QED
      BY <2>1, ChannelSame, QueueSame DEF Moves, Stays, InGate
  <1>2. CASE DriveStash
    <2>1. /\ UNCHANGED <<handleVars, pulled, lastShown, handed, released, taken>>
          /\ stash # 0 /\ stash' = 0 /\ Enqueue(<<stash>>, micro) /\ sub # "ended"
      BY <1>2 DEF DriveStash, Demanded
    <2>2. stash \in 1..MaxSent
      BY <1>0, <2>1, DemandGateAssumption
    <2>3. InGate = {stash} /\ InGate' = {}
      BY <1>0, <2>1 DEF InGate
    <2>4. /\ InController' = InController \cup {stash}
          /\ Sorted /\ (\A w \in InController : w < stash) => Sorted'
      BY <2>1, <2>2, EnqueueValue
    <2>5. Sorted'
      BY <2>3, <2>4 DEF OrderInv
    <2>6. IsQueued(stash)
      BY <2>1, <2>3, <2>4, ChannelSame DEF IsQueued
    <2>7. QED
      BY <2>1, <2>2, <2>5, <2>6, ChannelSame DEF Moves
  <1>3. CASE DrivePullReady
    <2>1. /\ UNCHANGED <<queued, stash, lastShown, handed, released>>
          /\ stash = 0 /\ pulled' = out' /\ Handle!Poll
          /\ taken' = IF out'.kind = "data" THEN taken \cup {out'.val} ELSE taken
      BY <1>3 DEF DrivePullReady
    <2>2. /\ Ascending' /\ InChannel' \subseteq InChannel /\ accepted' = accepted
          /\ out'.kind = "data" => Leaves(out'.val) /\ out'.val \in 1..MaxSent
      BY <2>1, LooksMove DEF OrderInv
    <2>3. Sorted' /\ InController' = InController
      BY <2>1, QueueSame
    <2>4. CASE out'.kind = "data"
      <3>1. InGate = {} /\ InGate' = {out'.val}
        BY <1>0, <2>1, <2>4 DEF InGate
      <3>2. IsPulled(out'.val)
        BY <2>1, <2>2, <2>3, <2>4, <3>1 DEF IsPulled
      <3>3. QED
        BY <2>2, <2>3, <2>4, <3>2 DEF Moves
    <2>5. CASE out'.kind # "data"
      <3>1. InGate = {} /\ InGate' = {}
        BY <1>0, <2>1, <2>5 DEF InGate
      <3>2. Stays
        BY <2>1, <2>2, <2>3, <2>5, <3>1 DEF Stays
      <3>3. QED
        BY <2>2, <2>3, <3>2 DEF Moves
    <2>6. QED
      BY <2>4, <2>5
  <1>4. CASE DrivePullFails
    <2>1. /\ UNCHANGED <<stash, pulled, lastShown, handed, released, taken>>
          /\ Handle!Poll /\ Enqueue(<<ErrorEvent>>, micro)
      BY <1>4 DEF DrivePullFails
    <2>2. Ascending' /\ InChannel' \subseteq InChannel /\ accepted' = accepted
      BY <2>1, LooksMove DEF OrderInv
    <2>3. InController' = InController /\ Sorted'
      BY <2>1, NoValues, EnqueueNoValue DEF OrderInv
    <2>4. QED
      BY <2>1, <2>2, <2>3 DEF Moves, Stays, InGate
  <1>5. CASE DrivePullWaits
    <2>1. /\ UNCHANGED <<queued, stash, pulled, lastShown, handed, released, taken>>
          /\ UNCHANGED <<buf, accepted>>
      BY <1>5 DEF DrivePullWaits, Handle!Wait
    <2>2. QED
      BY <2>1, QueueSame DEF Moves, Stays, InGate, OrderInv, Ascending, InChannel
  <1>6. CASE DrivePullContended
    <2>1. /\ UNCHANGED <<stash, pulled, lastShown, handed, released, taken>>
          /\ UNCHANGED <<buf, accepted>> /\ Enqueue(<<ErrorEvent, DoneEvent>>, micro)
      BY <1>6 DEF DrivePullContended, Handle!Contend
    <2>2. InController' = InController /\ Sorted'
      BY <2>1, NoValues, EnqueueNoValue DEF OrderInv
    <2>3. QED
      BY <2>1, <2>2 DEF Moves, Stays, InGate, OrderInv, Ascending, InChannel
  <1>7. QED
    BY <1>1, <1>2, <1>3, <1>4, <1>5, <1>6 DEF Drive

LEMMA LoopMoves ==
  ASSUME TypeOK, LoopInv, MicroInv, DoneInv, OrderInv, Loop
  PROVE  Moves /\ Sorted' /\ Ascending'
  <1> USE DEF ctlVars, histVars
  <1>0. /\ stash = 0 /\ UNCHANGED handleVars
        /\ pulled' = NoResult /\ NoResult.kind = "none" /\ taken' = taken
        /\ lastShown' = lastShown /\ handed' = handed
    <2>1. UNCHANGED handleVars /\ UNCHANGED <<taken, lastShown, handed>>
      BY DEF Loop, LoopReleases, LoopStashes, LoopAdds, LoopForwardsError,
             LoopDisconnects
    <2>2. pulled' = NoResult
      BY DEF Loop, LoopReleases, LoopStashes, LoopAdds, LoopForwardsError,
             LoopDisconnects, LoopResumes
    <2>3. PICK k : LoopResumes(k)
      BY DEF Loop, LoopReleases, LoopStashes, LoopAdds, LoopForwardsError,
             LoopDisconnects
    <2>4. pulled.kind # "none"
      BY <2>3, MicrotaskMicro DEF LoopResumes, LoopInv
    <2>5. QED
      BY <2>1, <2>2, <2>4 DEF LoopInv, NoResult
  <1>1. Ascending' /\ UNCHANGED <<InChannel, accepted>>
    BY <1>0, ChannelSame
  <1>2. pulled.kind = "data" => pulled.val \in 1..MaxSent /\ InGate = {pulled.val}
    BY <1>0, GateFacts, DemandGateAssumption DEF TypeOK, GateTypes, Results, LoopInv
  <1>3. CASE LoopReleases
    <2>1. /\ queued' = queued /\ released' = released \cup {pulled.val}
          /\ stash' = stash /\ pulled.kind = "data"
      BY <1>3 DEF LoopReleases, LoopResumes
    <2>2. InGate' = {}
      BY <1>0, <2>1 DEF InGate
    <2>3. IsReleased(pulled.val)
      BY <1>0, <1>1, <1>2, <2>1, <2>2, QueueSame DEF IsReleased
    <2>4. QED
      BY <1>1, <1>2, <2>1, <2>3, QueueSame DEF Moves
  <1>4. CASE LoopStashes
    <2>1. /\ queued' = queued /\ released' = released
          /\ stash' = pulled.val /\ pulled.kind = "data"
      BY <1>4 DEF LoopStashes, LoopResumes
    <2>2. InGate' = InGate
      <3>1. stash' # 0
        BY <1>2, <2>1, DemandGateAssumption
      <3>2. InGate' = {stash'}
        BY <1>0, <3>1 DEF InGate
      <3>3. QED
        BY <1>2, <2>1, <3>2
    <2>3. QED
      BY <1>0, <1>1, <2>1, <2>2, QueueSame DEF Moves, Stays
  <1>5. CASE LoopAdds
    <2>1. /\ Enqueue(<<pulled.val>>, Tail(micro)) /\ sub # "ended"
          /\ released' = released /\ stash' = stash /\ pulled.kind = "data"
      BY <1>5 DEF LoopAdds, LoopResumes, Demanded
    <2>2. InGate' = {}
      BY <1>0, <2>1 DEF InGate
    <2>3. /\ InController' = InController \cup {pulled.val}
          /\ Sorted /\ (\A w \in InController : w < pulled.val) => Sorted'
      BY <1>2, <2>1, EnqueueValue
    <2>4. Sorted'
      BY <1>2, <2>1, <2>3 DEF OrderInv
    <2>5. IsQueued(pulled.val)
      BY <1>0, <1>1, <1>2, <2>1, <2>2, <2>3 DEF IsQueued
    <2>6. QED
      BY <1>1, <1>2, <2>1, <2>4, <2>5 DEF Moves
  <1>6. CASE LoopForwardsError \/ LoopDisconnects
    <2>1. /\ released' = released /\ stash' = stash /\ pulled.kind # "data"
          /\ \/ queued' = queued
             \/ \E events, tasks : NoValue(events) /\ Enqueue(events, tasks)
      BY <1>6, NoValues DEF LoopForwardsError, LoopDisconnects, LoopResumes
    <2>2. InController' = InController /\ Sorted'
      BY <2>1, QueueSame, EnqueueNoValue DEF OrderInv
    <2>3. InGate = {} /\ InGate' = {}
      BY <1>0, <2>1 DEF InGate
    <2>4. QED
      BY <1>0, <1>1, <2>1, <2>2, <2>3 DEF Moves, Stays
  <1>7. QED
    BY <1>3, <1>4, <1>5, <1>6 DEF Loop

\* The oldest event leaves the controller.
LEMMA TailShown ==
  ASSUME TypeOK, Sorted, queued # <<>>, queued' = Tail(queued)
  PROVE  /\ Sorted'
         /\ ~IsValue(Head(queued)) => InController' = InController
         /\ IsValue(Head(queued)) =>
              /\ Head(queued) \in InController
              /\ \A w \in InController : w = Head(queued) \/ Head(queued) < w
              /\ InController' = {w \in InController : Head(queued) < w}
  <1> DEFINE n == Len(queued)
             h == Head(queued)
  <1>1. /\ n \in Nat \ {0} /\ DOMAIN queued = 1..n
        /\ h = queued[1]
        /\ DOMAIN queued' = 1..(n - 1)
        /\ \A i \in 1..(n - 1) : i + 1 \in 1..n /\ queued'[i] = queued[i + 1]
    BY TailFacts DEF TypeOK, ControllerTypes
  <1> HIDE DEF n, h
  <1>2. \A i \in 1..n : i = 1 \/ (i - 1 \in 1..(n - 1) /\ queued[i] = queued'[i - 1])
    BY <1>1
  <1>3. Sorted'
    <2>1. SUFFICES ASSUME NEW i \in DOMAIN queued', NEW j \in DOMAIN queued', i < j,
                          IsValue(queued'[i]), IsValue(queued'[j])
                   PROVE  queued'[i] < queued'[j]
      BY DEF Sorted, IsValue
    <2>2. i + 1 \in DOMAIN queued /\ j + 1 \in DOMAIN queued /\ i + 1 < j + 1
      BY <1>1, <2>1
    <2>3. queued'[i] = queued[i + 1] /\ queued'[j] = queued[j + 1]
      BY <1>1
    <2>4. QED
      BY <2>1, <2>2, <2>3 DEF Sorted
  <1>4. \A w \in InController : (IsValue(h) /\ w = h) \/ w \in InController'
    <2>1. SUFFICES ASSUME NEW i \in DOMAIN queued, IsValue(queued[i])
                   PROVE  (IsValue(h) /\ queued[i] = h) \/ queued[i] \in InController'
      BY DEF InController
    <2>2. CASE i = 1
      BY <1>1, <2>1, <2>2
    <2>3. CASE i # 1
      <3>1. i - 1 \in DOMAIN queued' /\ queued'[i - 1] = queued[i]
        BY <1>1, <1>2, <2>3
      <3>2. QED
        BY <2>1, <3>1 DEF InController, IsValue
    <2>4. QED
      BY <2>2, <2>3
  <1>5. \A w \in InController' : w \in InController /\ (IsValue(h) => h < w)
    <2>1. SUFFICES ASSUME NEW i \in DOMAIN queued', IsValue(queued'[i])
                   PROVE  /\ queued'[i] \in InController
                          /\ IsValue(h) => h < queued'[i]
      BY DEF InController, IsValue
    <2>2. /\ i + 1 \in DOMAIN queued /\ 1 \in DOMAIN queued /\ 1 < i + 1
          /\ queued'[i] = queued[i + 1]
      BY <1>1
    <2>3. QED
      BY <1>1, <2>1, <2>2 DEF Sorted, InController
  <1>6. IsValue(h) => h \in InController /\ h \in Int
    BY <1>1 DEF InController, IsValue
  <1>7. ~IsValue(h) => InController' = InController
    BY <1>4, <1>5
  <1>8. IsValue(h) => InController' = {w \in InController : h < w}
    BY <1>4, <1>5, <1>6
  <1>9. IsValue(h) => \A w \in InController : w = h \/ h < w
    BY <1>4, <1>5
  <1>10. QED
    BY <1>3, <1>6, <1>7, <1>8, <1>9 DEF h

LEMMA DispatchMoves ==
  ASSUME TypeOK, LoopInv, DeliveryInv, OrderInv, DispatchEvent
  PROVE  Moves /\ Sorted' /\ Ascending'
  <1>1. /\ UNCHANGED handleVars /\ UNCHANGED <<stash, pulled, taken, released>>
        /\ queued # <<>> /\ queued' = Tail(queued)
    BY DEF DispatchEvent, DeliveryInv
  <1>2. Ascending' /\ UNCHANGED <<InChannel, accepted, InGate>>
    BY <1>1, ChannelSame DEF InGate
  <1>3. /\ Sorted'
        /\ ~IsValue(Head(queued)) => InController' = InController
        /\ IsValue(Head(queued)) =>
             /\ Head(queued) \in InController
             /\ \A w \in InController : w = Head(queued) \/ Head(queued) < w
             /\ InController' = {w \in InController : Head(queued) < w}
    BY <1>1, TailShown DEF OrderInv
  <1>4. CASE IsValue(Head(queued))
    <2>1. lastShown' = Head(queued) /\ handed' = handed \cup {Head(queued)}
      BY <1>4 DEF DispatchEvent
    <2>2. IsShown(Head(queued)) /\ Head(queued) \in 1..MaxSent
      BY <1>1, <1>2, <1>3, <1>4, <2>1 DEF IsShown, IsValue
    <2>3. QED
      BY <1>2, <1>3, <2>2 DEF Moves
  <1>5. CASE ~IsValue(Head(queued))
    <2>1. UNCHANGED <<lastShown, handed>>
      BY <1>5 DEF DispatchEvent
    <2>2. QED
      BY <1>1, <1>2, <1>3, <1>5, <2>1 DEF Moves, Stays
  <1>6. QED
    BY <1>4, <1>5

LEMMA WakeMoves ==
  ASSUME TypeOK, LoopInv, OrderInv, Wake
  PROVE  Moves /\ Sorted' /\ Ascending'
  <1>1. /\ Handle!Serve /\ queued' = queued /\ stash' = stash
        /\ UNCHANGED <<released, lastShown>>
    BY DEF Wake, ctlVars
  <1>2. /\ Ascending' /\ InChannel' \subseteq InChannel /\ accepted' = accepted
        /\ out'.kind = "data" => Leaves(out'.val) /\ out'.val \in 1..MaxSent
    BY <1>1, LooksMove DEF OrderInv
  <1>3. Sorted' /\ InController' = InController
    BY <1>1, QueueSame
  <1>4. CASE owner = "gate"
    <2>1. /\ pulled' = out' /\ handed' = handed
          /\ taken' = IF out'.kind = "data" THEN taken \cup {out'.val} ELSE taken
          /\ stash = 0 /\ pulled.kind = "none"
      BY <1>4 DEF Wake, LoopInv
    <2>2. CASE out'.kind = "data"
      <3>1. InGate = {} /\ InGate' = {out'.val}
        BY <1>1, <2>1, <2>2 DEF InGate
      <3>2. IsPulled(out'.val)
        BY <1>1, <1>2, <1>3, <2>1, <2>2, <3>1 DEF IsPulled
      <3>3. QED
        BY <1>2, <1>3, <2>2, <3>2 DEF Moves
    <2>3. CASE out'.kind # "data"
      <3>1. InGate = {} /\ InGate' = {}
        BY <1>1, <2>1, <2>3 DEF InGate
      <3>2. QED
        BY <1>1, <1>2, <1>3, <2>1, <2>3, <3>1 DEF Moves, Stays
    <2>4. QED
      BY <2>2, <2>3
  <1>5. CASE owner # "gate"
    <2>1. /\ pulled' = pulled /\ taken' = taken
          /\ handed' = IF out'.kind = "data" THEN handed \cup {out'.val} ELSE handed
      BY <1>5 DEF Wake
    <2>2. InGate' = InGate
      BY <1>1, <2>1 DEF InGate
    <2>3. CASE out'.kind = "data"
      BY <1>1, <1>2, <1>3, <2>1, <2>2, <2>3 DEF Moves, IsPolled
    <2>4. CASE out'.kind # "data"
      BY <1>1, <1>2, <1>3, <2>1, <2>2, <2>4 DEF Moves, Stays
    <2>5. QED
      BY <2>3, <2>4
  <1>6. QED
    BY <1>4, <1>5

LEMMA ApplicationMoves ==
  ASSUME TypeOK, LoopInv, DoneInv, OrderInv, Application \/ Returns
  PROVE  Moves /\ Sorted' /\ Ascending'
  <1> USE DEF ctlVars, execVars, histVars
  <1>1. CASE Listen \/ Pause \/ Resume \/ Spawn \/ Returns
    <2>1. /\ UNCHANGED handleVars /\ UNCHANGED <<queued, stash, pulled>>
          /\ UNCHANGED <<lastShown, handed, released, taken>>
      BY <1>1 DEF Listen, Pause, Resume, Spawn, Returns, AppReturns, CallbackReturns
    <2>2. QED
      BY <2>1, ChannelSame, QueueSame DEF Moves, Stays, InGate
  <1>2. CASE Cancel
    <2>1. /\ UNCHANGED handleVars /\ UNCHANGED <<stash, pulled>>
          /\ UNCHANGED <<lastShown, handed, released, taken>>
          /\ queued' = <<>> /\ sub = "active" /\ sub' = "ended"
      BY <1>2 DEF Cancel
    <2>2. Sorted' /\ InController' = {}
      BY <2>1, EmptyFacts DEF Sorted, InController
    <2>3. QED
      BY <2>1, <2>2, ChannelSame DEF Moves, AreCancelled, InGate
  <1>3. CASE TakeStash
    <2>1. /\ UNCHANGED handleVars
          /\ UNCHANGED <<queued, pulled, lastShown, released, taken>>
          /\ stash # 0 /\ stash' = 0 /\ handed' = handed \cup {stash}
      BY <1>3 DEF TakeStash
    <2>2. stash \in 1..MaxSent /\ pulled.kind = "none"
      BY <2>1, DemandGateAssumption DEF LoopInv, TypeOK, GateTypes
    <2>3. InGate = {stash} /\ InGate' = {}
      BY <2>1, <2>2 DEF InGate
    <2>4. QED
      BY <2>1, <2>2, <2>3, ChannelSame, QueueSame DEF Moves, IsRetrieved
  <1>4. CASE TryRecv
    <2>1. /\ Handle!Poll
          /\ UNCHANGED <<queued, stash, pulled, lastShown, released, taken>>
          /\ handed' = IF out'.kind = "data" THEN handed \cup {out'.val} ELSE handed
      BY <1>4 DEF TryRecv
    <2>2. /\ Ascending' /\ InChannel' \subseteq InChannel /\ accepted' = accepted
          /\ out'.kind = "data" => Leaves(out'.val) /\ out'.val \in 1..MaxSent
      BY <2>1, LooksMove DEF OrderInv
    <2>3. Sorted' /\ InController' = InController /\ InGate' = InGate
      BY <2>1, QueueSame DEF InGate
    <2>4. CASE out'.kind = "data"
      BY <2>1, <2>2, <2>3, <2>4 DEF Moves, IsPolled
    <2>5. CASE out'.kind # "data"
      BY <2>1, <2>2, <2>3, <2>5 DEF Moves, Stays
    <2>6. QED
      BY <2>4, <2>5
  <1>5. CASE RecvWaits
    <2>1. /\ UNCHANGED <<queued, stash, pulled, lastShown, handed, released, taken>>
          /\ UNCHANGED <<buf, accepted>>
      BY <1>5 DEF RecvWaits, Handle!Wait
    <2>2. QED
      BY <2>1, QueueSame DEF Moves, Stays, InGate, OrderInv, Ascending, InChannel
  <1>6. CASE Close
    <2>1. /\ UNCHANGED <<taken, handed, lastShown, accepted>>
          /\ buf' = <<>> /\ stash' = 0
          /\ released' = (IF stash = 0 THEN released ELSE released \cup {stash})
          /\ pulled' = (IF owner = "gate" THEN Gone ELSE pulled)
      BY <1>6 DEF Close, Handle!Close
    <2>2. Ascending' /\ InChannel' = {}
      BY <2>1, EmptyChannel
    <2>3. InController' = InController /\ Sorted'
      <3>1. CASE ctlClosed
        BY <1>6, <3>1, QueueSame DEF Close
      <3>2. CASE ~ctlClosed
        <4>1. PICK tasks : Enqueue(<<DoneEvent>>, tasks)
          BY <1>6, <3>2 DEF Close
        <4>2. QED
          BY <4>1, NoValues, EnqueueNoValue DEF OrderInv
      <3>3. QED
        BY <3>1, <3>2
    <2>4. pulled'.kind = "data" <=> pulled.kind = "data"
      BY <2>1 DEF LoopInv, Gone
    <2>5. pulled.kind = "data" => pulled' = pulled /\ stash = 0
      BY <2>1 DEF LoopInv
    <2>6. CASE stash = 0
      <3>1. InGate' = InGate
        BY <2>1, <2>4, <2>5, <2>6 DEF InGate
      <3>2. QED
        BY <2>1, <2>2, <2>3, <2>6, <3>1 DEF Moves, Stays
    <2>7. CASE stash # 0
      <3>1. stash \in 1..MaxSent
        BY <2>7, DemandGateAssumption DEF TypeOK, GateTypes
      <3>2. InGate = {stash} /\ InGate' = {}
        BY <2>1, <2>4, <2>5, <2>7 DEF InGate
      <3>3. IsReleased(stash)
        BY <2>1, <2>2, <2>3, <2>7, <3>2 DEF IsReleased
      <3>4. QED
        BY <2>2, <2>3, <3>1, <3>3 DEF Moves
    <2>8. QED
      BY <2>6, <2>7
  <1>7. QED
    BY <1>1, <1>2, <1>3, <1>4, <1>5, <1>6 DEF Application

LEMMA NextMoves ==
  ASSUME TypeOK, LoopInv, MicroInv, DeliveryInv, DoneInv, OrderInv, Next
  PROVE  Moves /\ Sorted' /\ Ascending'
  <1>1. CASE DispatchCancelled \/ AppMicrotask \/ AppEvent
    <2>1. /\ UNCHANGED handleVars /\ UNCHANGED <<queued, stash, pulled>>
          /\ UNCHANGED <<lastShown, handed, released, taken>>
      BY <1>1 DEF DispatchCancelled, AppMicrotask, AppEvent, ctlVars, histVars
    <2>2. QED
      BY <2>1, ChannelSame, QueueSame DEF Moves, Stays, InGate
  <1>2. QED
    BY <1>1, ProduceMoves, DriveMoves, LoopMoves, DispatchMoves, WakeMoves,
       ApplicationMoves
       DEF Next

-----------------------------------------------------------------------------
(* The theorems.                                                           *)

LEMMA InitIInv == Init => IInv
  <1>1. SUFFICES ASSUME Init PROVE IInv
    OBVIOUS
  <1>2. /\ buf = <<>> /\ queued = <<>> /\ micro = <<>>
        /\ pulled = NoResult /\ stash = 0 /\ lastShown = 0 /\ errors = 0
        /\ taken = {} /\ handed = {} /\ released = {} /\ accepted = 0
        /\ out = Handle!Answer("none")
    BY <1>1 DEF Init, Handle!Init
  <1>3. /\ <<>> \in Seq(1..MaxSent) /\ <<>> \in Seq(0..MaxSent + 1)
        /\ <<>> \in Seq({"loop", "dispatch", "app"})
        /\ Len(<<>>) = 0 /\ DOMAIN <<>> = {}
    BY EmptyFacts
  <1>4. NoResult \in Results /\ NoResult.kind = "none" /\ out \in Results
    BY <1>2, AnswersTyped, DemandGateAssumption DEF NoResult, Results
  <1>5. TypeOK
    <2>1. HandleTypes
      <3>1. alive = TRUE /\ open = TRUE /\ waiting = FALSE
        BY <1>1 DEF Init, Handle!Init
      <3>2. accepted \in 0..MaxSent /\ Len(buf) <= Capacity
        BY <1>2, <1>3, DemandGateAssumption
      <3>3. QED
        BY <1>2, <1>3, <1>4, <3>1, <3>2 DEF HandleTypes
    <2>2. GateTypes
      <3>1. stash \in 0..MaxSent
        BY <1>2, DemandGateAssumption
      <3>2. QED
        BY <1>1, <1>2, <1>4, <3>1 DEF Init, GateTypes
    <2>3. ControllerTypes
      BY <1>1, <1>3 DEF Init, ControllerTypes
    <2>4. IsolateTypes
      BY <1>1, <1>3 DEF Init, IsolateTypes
    <2>5. HistoryTypes
      BY <1>2, DemandGateAssumption DEF HistoryTypes
    <2>6. QED
      BY <2>1, <2>2, <2>3, <2>4, <2>5 DEF TypeOK
  <1>6. ~Has(micro, "loop") /\ ~Has(micro, "dispatch")
        /\ Once(micro, "loop") /\ Once(micro, "dispatch")
    BY <1>2, <1>3 DEF Has, Once
  <1>7. LoopInv /\ MicroInv
    BY <1>1, <1>4, <1>6 DEF Init, LoopInv, MicroInv
  <1>8. DeliveryInv /\ DoneInv
    BY <1>1, <1>3 DEF Init, DeliveryInv, DoneInv
  <1>9. InController = {} /\ InGate = {} /\ InChannel = {}
    BY <1>2, <1>3, <1>4 DEF InController, InGate, InChannel
  <1>10. RoomInv
    <2>1. Cardinality(InController) = 0
      BY <1>9, FS_EmptySet
    <2>2. DeliversFirst(micro)
      BY <1>6, NoLoopDeliversFirst
    <2>3. QED
      BY <1>1, <1>2, <1>3, <2>1, <2>2 DEF Init, RoomInv, QueueRoom
  <1>11. OrderInv
    BY <1>2, <1>3, <1>9 DEF OrderInv, Sorted, Ascending
  <1>12. FateInv
    BY <1>2 DEF FateInv
  <1>13. OnlyCancelLoses
    <2>1. Lost = {}
      BY <1>2 DEF Lost
    <2>2. Cardinality(Lost) = 0
      BY <2>1, FS_EmptySet
    <2>3. QED
      BY <1>2, <2>2 DEF OnlyCancelLoses
  <1>14. QED
    BY <1>5, <1>7, <1>8, <1>10, <1>11, <1>12, <1>13 DEF IInv

LEMMA StutterIInv == IInv /\ UNCHANGED vars => IInv'
  <1> SUFFICES ASSUME IInv, UNCHANGED vars
               PROVE  IInv'
    OBVIOUS
  <1>1. /\ UNCHANGED <<buf, accepted, alive, open, waiting, out>>
        /\ UNCHANGED <<running, stash, gateClosed, pulled, owner>>
        /\ UNCHANGED <<sub, paused, inputPaused, ctlClosed, queued, dispatch>>
        /\ UNCHANGED <<micro, turn, driving, wasPaused>>
        /\ UNCHANGED <<taken, handed, released, lastShown, errors>>
    BY DEF vars, handleVars, ctlVars, execVars, histVars
  <1>2. TypeOK'
    <2>1. HandleTypes'
      BY <1>1 DEF IInv, TypeOK, HandleTypes
    <2>2. GateTypes'
      BY <1>1 DEF IInv, TypeOK, GateTypes
    <2>3. ControllerTypes'
      BY <1>1 DEF IInv, TypeOK, ControllerTypes
    <2>4. IsolateTypes'
      BY <1>1 DEF IInv, TypeOK, IsolateTypes
    <2>5. HistoryTypes'
      BY <1>1 DEF IInv, TypeOK, HistoryTypes
    <2>6. QED
      BY <2>1, <2>2, <2>3, <2>4, <2>5 DEF TypeOK
  <1>3. LoopInv' /\ MicroInv'
    BY <1>1 DEF IInv, LoopInv, MicroInv
  <1>4. DeliveryInv' /\ DoneInv' /\ Demanded' = Demanded
    BY <1>1 DEF IInv, DeliveryInv, DoneInv, Demanded
  <1>5. UNCHANGED <<InController, InGate, InChannel>>
    BY <1>1 DEF InController, InGate, InChannel
  <1>6. RoomInv'
    BY <1>1, <1>4, <1>5 DEF IInv, RoomInv, QueueRoom
  <1>7. OrderInv'
    BY <1>1, <1>5 DEF IInv, OrderInv, Sorted, Ascending
  <1>8. FateInv'
    BY <1>1, <1>5 DEF IInv, FateInv
  <1>9. OnlyCancelLoses'
    BY <1>1, <1>5 DEF IInv, OnlyCancelLoses, Lost, Held
  <1>10. QED
    BY <1>2, <1>3, <1>4, <1>6, <1>7, <1>8, <1>9 DEF IInv

LEMMA StepIInv == IInv /\ [Next]_vars => IInv'
  <1>1. SUFFICES ASSUME IInv, Next
                 PROVE  IInv'
    BY StutterIInv
  <1>2. TypeOK'
    BY <1>1, TypeStep DEF IInv
  <1>3. LoopInv' /\ MicroInv'
    BY <1>1, LoopStep DEF IInv
  <1>4. DeliveryInv' /\ DoneInv'
    BY <1>1, DeliveryStep, DoneStep DEF IInv
  <1>5. RoomInv'
    BY <1>1, <1>2, <1>3, RoomStep DEF IInv
  <1>6. Moves /\ OrderInv' /\ FateInv'
    BY <1>1, NextMoves, OrderMoves, FateMoves DEF IInv
  <1>7. errors' \in Nat /\ errors <= errors'
    BY <1>1, <1>2, ErrorsGrow DEF IInv, TypeOK, HistoryTypes
  <1>8. sub' = sub \/ sub # "ended"
    BY <1>1
       DEF Next, Produce, Drive, DriveStops, DriveStash, DrivePullReady,
           DrivePullFails, DrivePullWaits, DrivePullContended, Loop, LoopReleases,
           LoopStashes, LoopAdds, LoopForwardsError, LoopDisconnects,
           DispatchCancelled, DispatchEvent, AppMicrotask, AppEvent, Wake,
           Application, Listen, Pause, Resume, Cancel, TakeStash, TryRecv,
           RecvWaits, Close, Spawn, Returns, AppReturns, CallbackReturns, ctlVars,
           IInv, DeliveryInv
  <1>9. OnlyCancelLoses'
    BY <1>1, <1>6, <1>7, <1>8, LoseStep DEF IInv
  <1>10. QED
    BY <1>2, <1>3, <1>4, <1>5, <1>6, <1>9 DEF IInv

LEMMA IInvAlways == Spec => []IInv
  BY InitIInv, StepIInv, PTL DEF Spec

\* Every variable keeps its type, and the handle's channel its capacity.
THEOREM TypeCorrect == Spec => []TypeOK
  <1>1. IInv => TypeOK
    BY DEF IInv
  <1>2. QED
    BY <1>1, IInvAlways, PTL

\* What is retained never exceeds the channel, the stash, one value in the
\* controller and one for each error queued before them, for every schedule of
\* pauses, resumes and polls (demand_gated_stream.dart:41-44).
THEOREM RetentionIsBounded == Spec => []RetainedBounded
  <1>1. ASSUME IInv PROVE RetainedBounded
    <2>1. /\ IsFiniteSet(InController) /\ Cardinality(InController) \in Nat
          /\ Cardinality(InController) <= errors + 1
          /\ errors \in Nat /\ Len(buf) \in Nat /\ Len(buf) <= Capacity
      BY <1>1, ValuesCounted
         DEF IInv, RoomInv, InController, ValuesOf, TypeOK, ControllerTypes,
             HistoryTypes, HandleTypes
    <2>2. InGate = {} \/ \E v : InGate = {v}
      BY <1>1 DEF IInv, LoopInv, InGate
    <2>3. Cardinality(Held) \in Nat /\ Cardinality(Held) <= errors + 2
      <3>1. CASE InGate = {}
        <4>1. Held = InController
          BY <3>1 DEF Held
        <4>2. QED
          BY <2>1, <4>1
      <3>2. CASE \E v : InGate = {v}
        <4>1. PICK v : Held = InController \cup {v}
          BY <3>2 DEF Held
        <4>2. Cardinality(Held) \in {Cardinality(InController),
                                     Cardinality(InController) + 1}
          BY <2>1, <4>1, FS_AddElement
        <4>3. QED
          BY <2>1, <4>2
      <3>3. QED
        BY <2>2, <3>1, <3>2
    <2>4. QED
      BY <2>1, <2>3, DemandGateAssumption DEF RetainedBounded
  <1>2. QED
    BY <1>1, IInvAlways, PTL

\* A value the gate took is delivered, retrieved or released, and only one of
\* them, unless cancel() drops it with the controller's queue
\* (demand_gated_stream.dart:54-68, :157-163).
THEOREM EveryValueHasOneFate == Spec => []OneFate
  <1>1. IInv => OneFate
    BY DEF IInv, FateInv, OneFate, ReleasedIsNotHanded, Held
  <1>2. QED
    BY <1>1, IInvAlways, PTL

\* What the stream shows is in arrival order (demand_gated_stream.dart:51-52,
\* :187-193).
THEOREM StreamKeepsOrder == Spec => StreamInOrder
  <1>1. ASSUME IInv, [Next]_vars
        PROVE  [lastShown' # lastShown => lastShown' > lastShown]_vars
    <2>1. CASE UNCHANGED vars
      BY <2>1
    <2>2. CASE Next
      <3>1. Moves
        BY <1>1, <2>2, NextMoves DEF IInv
      <3>2. lastShown' = lastShown \/ \E v : IsShown(v)
        BY <3>1 DEF Moves, Stays, Arrives, AreCancelled, IsPulled, IsPolled, IsQueued,
                    IsRetrieved, IsReleased
      <3>3. ASSUME NEW v, IsShown(v)
            PROVE  lastShown' > lastShown
        <4>1. v \in InController /\ lastShown' = v /\ v \in Nat /\ lastShown \in Nat
          BY <1>1, <3>3, ValueTypes DEF IsShown, IInv
        <4>2. lastShown < v
          BY <1>1, <4>1 DEF IInv, OrderInv
        <4>3. QED
          BY <4>1, <4>2
      <3>4. QED
        BY <3>2, <3>3
    <2>3. QED
      BY <1>1, <2>1, <2>2
  <1>2. QED
    BY <1>1, IInvAlways, PTL DEF Spec, StreamInOrder

-----------------------------------------------------------------------------
(* The gate does not stall.                                                *)

\* The handle closes the gate, and the gate its controller.
ClosedInv == (~open => gateClosed) /\ (gateClosed => ctlClosed)

\* A subscription that demands has a running loop, or the callback on the stack
\* will start one when it returns.
RunsInv ==
  /\ Demanded => running \/ (turn = "onData" /\ wasPaused)
  /\ turn = "onData" /\ ~wasPaused /\ sub = "active" /\ ~ctlClosed => running

\* A running loop is on the stack, or its await will resume it.
ResumesInv ==
  /\ running => driving \/ pulled.kind # "none" \/ owner = "gate"
  /\ owner = "gate" => waiting /\ open

\* A closed controller has the end of the stream as its last event, and what
\* a subscription that is not paused has queued will be delivered.
EndQueued == queued # <<>> /\ queued[Len(queued)] = DoneEvent

TellsInv ==
  /\ ctlClosed /\ sub # "ended" => EndQueued
  /\ sub = "active" /\ ~paused /\ queued # <<>> =>
       dispatch = "scheduled" \/ turn = "onData"

FlowInv == ClosedInv /\ RunsInv /\ ResumesInv /\ TellsInv

\* What the loop does for a subscription that demands.
DemandServed ==
  Demanded =>
    \/ driving
    \/ Has(micro, "loop")
    \/ owner = "gate" /\ waiting
    \/ turn = "onData" /\ wasPaused

\* What a listener of a closed handle is told.
EndAnnounced ==
  ~open /\ sub = "active" /\ ~paused =>
    /\ EndQueued
    /\ \/ Has(micro, "dispatch") /\ dispatch = "scheduled"
       \/ turn = "onData"

LEMMA ClosedStep ==
  ASSUME ClosedInv, Next
  PROVE  ClosedInv'
  <1> USE DEF ctlVars, handleVars, ClosedInv
  <1>1. CASE Produce \/ Drive
    BY <1>1 DEF Produce, Handle!Accept, Handle!Disconnect, Drive, DriveStops,
                DriveStash, DrivePullReady, DrivePullFails, DrivePullWaits,
                DrivePullContended, Handle!Poll, Handle!Wait, Handle!Contend
  <1>2. CASE Loop
    BY <1>2 DEF Loop, LoopReleases, LoopStashes, LoopAdds, LoopForwardsError,
                LoopDisconnects
  <1>3. CASE DispatchCancelled \/ DispatchEvent \/ AppMicrotask \/ AppEvent \/ Wake
    BY <1>3 DEF DispatchCancelled, DispatchEvent, AppMicrotask, AppEvent, Wake,
                Handle!Serve
  <1>4. CASE Application \/ Returns
    BY <1>4 DEF Application, Listen, Pause, Resume, Cancel, TakeStash, TryRecv,
                RecvWaits, Close, Spawn, Returns, AppReturns, CallbackReturns,
                Handle!Poll, Handle!Wait, Handle!Close
  <1>5. QED
    BY <1>1, <1>2, <1>3, <1>4 DEF Next

LEMMA RunsStep ==
  ASSUME TypeOK, LoopInv, DeliveryInv, ClosedInv, RunsInv, Next
  PROVE  RunsInv'
  <1> USE DEF ctlVars, execVars, RunsInv, Demanded
  <1>1. CASE Produce \/ AppEvent \/ AppMicrotask \/ Wake \/ DispatchCancelled
    BY <1>1 DEF Produce, AppEvent, AppMicrotask, Wake, DispatchCancelled, Event,
                Microtask
  <1>2. CASE Drive
    BY <1>2 DEF Drive, DriveStops, DriveStash, DrivePullReady, DrivePullFails,
                DrivePullWaits, DrivePullContended, LoopInv
  <1>3. CASE Loop
    BY <1>3 DEF Loop, LoopReleases, LoopStashes, LoopAdds, LoopForwardsError,
                LoopDisconnects, LoopResumes, Microtask
  <1>4. CASE DispatchEvent
    BY <1>4 DEF DispatchEvent, Microtask, ClosedInv
  <1>5. CASE Listen \/ Resume
    BY <1>5 DEF Listen, Resume, App, StartDrive, DeliveryInv
  <1>6. CASE Pause \/ Cancel \/ Close
    BY <1>6 DEF Pause, Cancel, Close, App, DeliveryInv
  <1>7. CASE TakeStash \/ TryRecv \/ RecvWaits \/ Spawn
    BY <1>7 DEF TakeStash, TryRecv, RecvWaits, Spawn
  <1>8. CASE AppReturns
    BY <1>8 DEF AppReturns
  <1>9. CASE CallbackReturns
    BY <1>9 DEF CallbackReturns, StartDrive, TypeOK, ControllerTypes
  <1>10. QED
    BY <1>1, <1>2, <1>3, <1>4, <1>5, <1>6, <1>7, <1>8, <1>9
       DEF Next, Application, Returns

LEMMA ResumesStep ==
  ASSUME TypeOK, LoopInv, ResumesInv, Next
  PROVE  ResumesInv'
  <1> USE DEF ctlVars, execVars, handleVars, ResumesInv
  <1>1. CASE Produce
    BY <1>1 DEF Produce, Handle!Accept, Handle!Disconnect
  <1>2. CASE Drive
    <2>1. CASE DrivePullReady
      BY <2>1 DEF DrivePullReady, Handle!Poll
    <2>2. CASE DriveStops \/ DriveStash \/ DrivePullFails
      BY <2>2 DEF DriveStops, DriveStash, DrivePullFails, Handle!Poll, LoopInv
    <2>3. CASE DrivePullWaits \/ DrivePullContended
      BY <2>3 DEF DrivePullWaits, DrivePullContended, Handle!Wait, Handle!Contend
    <2>4. QED
      BY <1>2, <2>1, <2>2, <2>3 DEF Drive
  <1>3. CASE Loop
    BY <1>3 DEF Loop, LoopReleases, LoopStashes, LoopAdds, LoopForwardsError,
                LoopDisconnects, LoopResumes, LoopInv
  <1>4. CASE DispatchCancelled \/ DispatchEvent \/ AppMicrotask \/ AppEvent
    BY <1>4 DEF DispatchCancelled, DispatchEvent, AppMicrotask, AppEvent
  <1>5. CASE Wake
    <2>1. out'.kind # "none"
      BY <1>5, Looks DEF Wake
    <2>2. QED
      BY <1>5, <2>1 DEF Wake, Handle!Serve
  <1>6. CASE Listen \/ Resume \/ CallbackReturns
    BY <1>6 DEF Listen, Resume, CallbackReturns, StartDrive, App
  <1>7. CASE Pause \/ Cancel \/ TakeStash \/ Spawn \/ AppReturns
    BY <1>7 DEF Pause, Cancel, TakeStash, Spawn, AppReturns
  <1>8. CASE TryRecv \/ RecvWaits
    BY <1>8 DEF TryRecv, RecvWaits, Handle!Poll, Handle!Wait
  <1>9. CASE Close
    BY <1>9 DEF Close, Handle!Close, Gone
  <1>10. QED
    BY <1>1, <1>2, <1>3, <1>4, <1>5, <1>6, <1>7, <1>8, <1>9
       DEF Next, Application, Returns

\* Events are added: a controller that this closes is given its end, and one
\* that has a listener who is not paused delivers.
EndsIn(events) ==
  /\ events \in Seq(0..MaxSent + 1)
  /\ Len(events) > 0
  /\ events[Len(events)] = DoneEvent

LEMMA EndingBatches ==
  EndsIn(<<DoneEvent>>) /\ EndsIn(<<ErrorEvent, DoneEvent>>)
  BY EventsTyped DEF EndsIn

LEMMA EnqueueTells ==
  ASSUME TypeOK, DeliveryInv, TellsInv, NEW events, Batch(events), NEW tasks,
         Enqueue(events, tasks), UNCHANGED <<sub, paused, turn>>,
         (~ctlClosed /\ ~ctlClosed') \/ EndsIn(events)
  PROVE  TellsInv'
  <1>1. CASE sub = "ended"
    BY <1>1, EnqueueDef DEF TellsInv
  <1>2. CASE sub # "ended"
    <2>1. /\ queued' = queued \o events
          /\ queued \in Seq(0..MaxSent + 1) /\ events \in Seq(0..MaxSent + 1)
          /\ Len(events) > 0
      BY <1>2, EnqueueDef DEF Batch, TypeOK, ControllerTypes
    <2>2. EndsIn(events) => EndQueued'
      <3>1. SUFFICES ASSUME EndsIn(events) PROVE EndQueued'
        OBVIOUS
      <3> DEFINE n == Len(queued)
                 last == n + Len(events)
      <3>2. /\ n \in Nat /\ Len(events) \in Nat \ {0}
            /\ Len(queued') = last
            /\ last \in DOMAIN queued' /\ last \notin DOMAIN queued
        BY <2>1, ConcatFacts
      <3>3. queued'[last] = events[last - n] /\ last - n = Len(events)
        BY <2>1, <3>2, ConcatFacts
      <3>4. queued' # <<>>
        BY <3>2
      <3>5. QED
        BY <3>1, <3>2, <3>3, <3>4 DEF EndsIn, EndQueued
    <2>3. sub = "active" /\ ~paused => dispatch' = "scheduled" \/ turn = "onData"
      BY EnqueueDef DEF Schedules, DeliveryInv, TellsInv, TypeOK, ControllerTypes
    <2>4. QED
      BY <2>2, <2>3 DEF TellsInv
  <1>3. QED
    BY <1>1, <1>2

LEMMA TellsStep ==
  ASSUME TypeOK, DeliveryInv, DoneInv, LoopInv, ClosedInv, TellsInv, Next
  PROVE  TellsInv'
  <1> USE DEF ctlVars, execVars
  <1>1. CASE UNCHANGED <<ctlClosed, sub, paused, queued, dispatch>>
             /\ (turn = "onData" => turn' = "onData")
    BY <1>1 DEF TellsInv, EndQueued
  <1>2. CASE DriveStash \/ DrivePullFails \/ DrivePullContended
    <2>1. stash \in 0..MaxSent
      BY DEF TypeOK, GateTypes
    <2>2. QED
      BY <1>2, <2>1, Batches, EndingBatches, EnqueueTells
         DEF DriveStash, DrivePullFails, DrivePullContended, Demanded
  <1>3. CASE LoopAdds
    <2>1. Batch(<<pulled.val>>)
      BY Batches DEF TypeOK, GateTypes, Results
    <2>2. QED
      BY <1>3, <2>1, EnqueueTells DEF LoopAdds, Demanded
  <1>4. CASE LoopForwardsError
    <2>1. CASE ctlClosed
      BY <1>1, <1>4, <2>1 DEF LoopForwardsError
    <2>2. CASE ~ctlClosed
      BY <1>4, <2>2, Batches, EnqueueTells DEF LoopForwardsError
    <2>3. QED
      BY <2>1, <2>2
  <1>5. CASE LoopDisconnects
    <2>1. CASE ctlClosed
      BY <1>1, <1>5, <2>1 DEF LoopDisconnects, TypeOK, ControllerTypes
    <2>2. CASE ~ctlClosed
      BY <1>5, <2>2, Batches, EndingBatches, EnqueueTells DEF LoopDisconnects
    <2>3. QED
      BY <2>1, <2>2
  <1>6. CASE Close
    <2>1. UNCHANGED <<sub, paused, turn>>
      BY <1>6 DEF Close
    <2>2. CASE ctlClosed
      BY <1>1, <1>6, <2>1, <2>2 DEF Close
    <2>3. CASE ~ctlClosed
      <3>1. PICK tasks : Enqueue(<<DoneEvent>>, tasks)
        BY <1>6, <2>3 DEF Close
      <3>2. QED
        BY <2>1, <3>1, Batches, EndingBatches, EnqueueTells
    <2>4. QED
      BY <2>2, <2>3
  <1>7. CASE DispatchEvent
    <2>1. /\ queued # <<>> /\ queued \in Seq(0..MaxSent + 1)
          /\ sub = "active" /\ queued' = Tail(queued)
          /\ ctlClosed' = ctlClosed /\ paused' = paused
          /\ \/ Head(queued) = DoneEvent /\ sub' = "ended"
             \/ Head(queued) # DoneEvent /\ turn' = "onData"
      BY <1>7 DEF DispatchEvent, DeliveryInv, TypeOK, ControllerTypes
    <2>2. ASSUME ctlClosed, Head(queued) # DoneEvent
          PROVE  EndQueued'
      <3> DEFINE n == Len(queued)
      <3>1. queued[n] = DoneEvent /\ queued[1] # DoneEvent /\ n \in Nat \ {0}
        BY <2>1, <2>2, TailFacts DEF TellsInv, EndQueued
      <3>2. n # 1
        BY <3>1
      <3>3. /\ Len(queued') = n - 1 /\ n - 1 \in DOMAIN queued'
            /\ queued'[n - 1] = queued[n]
        <4>1. n - 1 \in DOMAIN Tail(queued) /\ Len(Tail(queued)) = n - 1
          BY <2>1, <3>1, <3>2, TailFacts
        <4>2. Tail(queued)[n - 1] = queued[(n - 1) + 1] /\ (n - 1) + 1 = n
          BY <2>1, <3>1, <4>1, TailFacts
        <4>3. QED
          BY <2>1, <4>1, <4>2
      <3>4. QED
        BY <3>1, <3>3 DEF EndQueued
    <2>3. QED
      BY <2>1, <2>2 DEF TellsInv
  <1>8. CASE DispatchCancelled
    BY <1>8 DEF DispatchCancelled, Microtask, TellsInv, EndQueued
  <1>9. CASE Listen
    BY <1>9 DEF Listen, Reschedule, TellsInv, EndQueued
  <1>10. CASE Pause \/ Cancel
    BY <1>10 DEF Pause, Cancel, TellsInv, EndQueued
  <1>11. CASE Resume
    BY <1>11 DEF Resume, Reschedule, TellsInv, EndQueued
  <1>12. CASE CallbackReturns
    BY <1>12 DEF CallbackReturns, Reschedule, TellsInv, EndQueued
  <1>13. QED
    BY <1>1, <1>2, <1>3, <1>4, <1>5, <1>6, <1>7, <1>8, <1>9, <1>10, <1>11, <1>12
       DEF Next, Produce, Drive, DriveStops, DrivePullReady, DrivePullWaits, Loop,
           LoopReleases, LoopStashes, AppMicrotask, Microtask, AppEvent, Event, Wake,
           Application, TakeStash, TryRecv, RecvWaits, Spawn, Returns, AppReturns

LEMMA FlowAlways == Spec => [](IInv /\ FlowInv)
  <1>1. Init => FlowInv
    BY DEF Init, Handle!Init, FlowInv, ClosedInv, RunsInv, ResumesInv, TellsInv, Demanded
  <1>2. ASSUME IInv, FlowInv, [Next]_vars
        PROVE  FlowInv'
    <2>1. CASE Next
      BY <1>2, <2>1, ClosedStep, RunsStep, ResumesStep, TellsStep DEF IInv, FlowInv
    <2>2. CASE UNCHANGED vars
      BY <1>2, <2>2 DEF vars, handleVars, ctlVars, execVars, FlowInv, ClosedInv,
           RunsInv, ResumesInv, TellsInv, EndQueued, Demanded
    <2>3. QED
      BY <1>2, <2>1, <2>2
  <1>3. QED
    BY <1>1, <1>2, IInvAlways, PTL DEF Spec

\* No pause, resume, stash or failed pull leaves a subscription that demands
\* without a loop: it is on the stack, or its continuation is queued, or it
\* waits for the handle's next wake, or onData starts it by returning
\* (demand_gated_stream.dart:132-134, :180-183, :251-253).  What StreamFlows
\* adds is that the isolate gets there.
THEOREM DemandIsServed == Spec => []DemandServed
  <1>1. IInv /\ FlowInv => DemandServed
    BY DEF IInv, LoopInv, FlowInv, RunsInv, ResumesInv, DemandServed
  <1>2. QED
    BY <1>1, FlowAlways, PTL

\* After close() the end of the stream is queued for a listener who is not
\* paused and its delivery is scheduled, or follows the callback on the stack,
\* also when the drive loop had returned before (pull_subscriber.dart:682-689).
\* What CloseReachesListener adds is that the microtask runs.
THEOREM EndIsAnnounced == Spec => []EndAnnounced
  <1>1. IInv /\ FlowInv => EndAnnounced
    BY DEF IInv, MicroInv, FlowInv, ClosedInv, TellsInv, EndQueued,
       EndAnnounced
  <1>2. QED
    BY <1>1, FlowAlways, PTL

==============================================================================
