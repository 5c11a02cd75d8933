----------------------------- MODULE DemandGate ------------------------------
(***************************************************************************)
(* The demand-gated stream over a pull handle (DemandGate<T>), composed    *)
(* with the handle it pulls from and the StreamController it feeds.        *)
(*                                                                         *)
(*   handle --recv()--> drive loop --add--> controller --onData--> app     *)
(*                          \--> one-slot stash --tryRecv()--> app         *)
(*                                             \--release on close()       *)
(*                                                                         *)
(* The handle is PullContract, the behaviour PullChannel implements: its   *)
(* steps are taken from there.  The controller is Dart's asynchronous      *)
(* single-subscription StreamController: an added event waits in a queue   *)
(* for a microtask, pausing cancels that microtask, resuming with events   *)
(* still queued keeps the input paused until they are delivered.           *)
(*                                                                         *)
(* The isolate runs one thing at a time: an event when no microtask is     *)
(* left, otherwise the oldest microtask.  Application code runs in an      *)
(* event, in a microtask of its own or inside onData, and makes as many    *)
(* calls as it likes before it returns; a call that makes the drive loop   *)
(* run, runs it to its next await before the call returns.  The handle's   *)
(* producer is another thread.                                             *)
(***************************************************************************)
EXTENDS Naturals, Sequences, FiniteSets

CONSTANTS
  Kind,      (* "ring" or "fifo"                                           *)
  Capacity,  (* of the handle's channel                                    *)
  Faults,    (* bound: allocation failures a recv() of the loop meets      *)
  OwnTasks,  (* TRUE: the application schedules microtasks of its own      *)
  MaxSent    (* bound: values the channel accepts                          *)

ASSUME DemandGateAssumption ==
  /\ Kind \in {"ring", "fifo"}
  /\ Capacity \in Nat \ {0}
  /\ Faults \in Nat
  /\ OwnTasks \in BOOLEAN
  /\ MaxSent \in Nat

VARIABLES
  \* the handle, see PullContract
  buf, accepted, alive, open, waiting, out,
  \* the gate
  running,     (* _running: the drive loop has not returned                *)
  stash,       (* _stash, 0 for null                                       *)
  gateClosed,  (* _closed                                                  *)
  \* the controller and its one subscription
  sub,         (* "none", "active" or "ended": cancelled or done           *)
  paused,      (* the application has paused the subscription              *)
  inputPaused, (* what StreamController.isPaused reads                     *)
  ctlClosed,   (* StreamController.isClosed                                *)
  queued,      (* events added and not yet delivered                       *)
  dispatch,    (* the delivering microtask: "off", "scheduled", "cancelled"*)
  \* the isolate
  micro,       (* its microtask queue                                      *)
  turn,        (* "free", "app" or "onData": which code is on the stack    *)
  driving,     (* the drive loop is on the stack, about to test demand     *)
  wasPaused,   (* inputPaused when the onData callback was entered         *)
  pulled,      (* the result the awaited pull will resume with             *)
  owner,       (* whose recv() is waiting: "none", "gate", "app"           *)
  \* history
  taken,       (* values the gate took out of the handle                   *)
  handed,      (* values the application was given                         *)
  released,    (* values handed to _release                                *)
  lastShown,   (* the last value delivered by onData                       *)
  errors       (* how many failed pulls the gate forwarded                 *)

handleVars == <<buf, accepted, alive, open, waiting, out>>
ctlVars    == <<sub, paused, inputPaused, ctlClosed, queued, dispatch>>
execVars   == <<micro, turn, driving, wasPaused>>
histVars   == <<taken, handed, released, lastShown, errors>>
vars == <<handleVars, running, stash, gateClosed, ctlVars, execVars, pulled,
          owner, histVars>>

-----------------------------------------------------------------------------
Handle == INSTANCE PullContract WITH kind <- Kind

NoResult == [kind |-> "none", val |-> 0]
Gone     == [kind |-> "disconnected", val |-> 0]

\* Controller events are a value's rank, or:
ErrorEvent == 0
DoneEvent  == MaxSent + 1
IsValue(e) == e \in 1..MaxSent

\* Mutant: demand no longer depends on the pause.
DemandedIgnoresPause ==
  /\ ~gateClosed
  /\ sub = "active"
  /\ ~ctlClosed

\* hasListener /\ ~isPaused /\ ~isClosed, and the gate open.
Demanded ==
  /\ ~gateClosed
  /\ sub = "active"
  /\ ~inputPaused
  /\ ~ctlClosed

\* The controller queues events; tasks is the microtask queue so far.  The
\* delivering microtask is scheduled unless the subscription is paused; inside
\* a callback that is left to the callback's end.
Enqueue(events, tasks) ==
  LET schedule == /\ sub = "active"
                  /\ ~paused
                  /\ turn # "onData"
                  /\ dispatch = "off"
  IN  /\ queued' = IF sub = "ended" THEN <<>> ELSE queued \o events
      /\ dispatch' = IF schedule THEN "scheduled" ELSE dispatch
      /\ micro' = IF schedule THEN Append(tasks, "dispatch") ELSE tasks

\* A cancelled delivery is still in the microtask queue and is revived there.
Reschedule ==
  /\ dispatch' = "scheduled"
  /\ micro' = IF dispatch = "off" THEN Append(micro, "dispatch") ELSE micro

CancelSchedule ==
  dispatch' = IF dispatch = "scheduled" THEN "cancelled" ELSE dispatch

\* _onDemand: a second loop is not started.
StartDrive ==
  /\ driving' = ~running
  /\ running' = TRUE

-----------------------------------------------------------------------------
(* The producer.                                                           *)

Produce ==
  /\ \/ accepted < MaxSent /\ Handle!Accept
     \/ Handle!Disconnect
  /\ UNCHANGED <<running, stash, gateClosed, ctlVars, execVars, pulled, owner,
                 histVars>>

-----------------------------------------------------------------------------
(* The drive loop, from its test of demand to its next await or return.    *)

DriveStops ==
  /\ driving
  /\ ~Demanded
  /\ driving' = FALSE
  /\ running' = FALSE
  /\ UNCHANGED <<handleVars, stash, gateClosed, ctlVars, micro, turn,
                 wasPaused, pulled, owner, histVars>>

\* The stash is emitted before the next pull.
DriveStash ==
  /\ driving
  /\ Demanded
  /\ stash # 0
  /\ stash' = 0
  /\ Enqueue(<<stash>>, micro)
  /\ UNCHANGED <<handleVars, running, gateClosed, sub, paused, inputPaused,
                 ctlClosed, turn, driving, wasPaused, pulled, owner, histVars>>

\* Mutant: the loop pulls although it still holds a stashed value.
DrivePullReadyFirst ==
  /\ driving
  /\ Demanded
  /\ ~waiting
  /\ Handle!Poll
  /\ out'.kind \in {"data", "disconnected"}
  /\ pulled' = out'
  /\ taken' = IF out'.kind = "data" THEN taken \cup {out'.val} ELSE taken
  /\ micro' = Append(micro, "loop")
  /\ driving' = FALSE
  /\ UNCHANGED <<running, stash, gateClosed, ctlVars, turn, wasPaused, owner,
                 handed, released, lastShown, errors>>

\* recv() answers at once: the continuation is a microtask.
DrivePullReady ==
  /\ driving
  /\ Demanded
  /\ stash = 0
  /\ ~waiting
  /\ Handle!Poll
  /\ out'.kind \in {"data", "disconnected"}
  /\ pulled' = out'
  /\ taken' = IF out'.kind = "data" THEN taken \cup {out'.val} ELSE taken
  /\ micro' = Append(micro, "loop")
  /\ driving' = FALSE
  /\ UNCHANGED <<running, stash, gateClosed, ctlVars, turn, wasPaused, owner,
                 handed, released, lastShown, errors>>

\* recv() throws synchronously: the error is forwarded and the loop continues.
DrivePullFails ==
  /\ driving
  /\ Demanded
  /\ stash = 0
  /\ ~waiting
  /\ errors < Faults
  /\ Handle!Poll
  /\ out'.kind = "fault"
  /\ Enqueue(<<ErrorEvent>>, micro)
  /\ errors' = errors + 1
  /\ UNCHANGED <<running, stash, gateClosed, sub, paused, inputPaused,
                 ctlClosed, turn, driving, wasPaused, pulled, owner, taken,
                 handed, released, lastShown>>

\* Nothing buffered: the loop suspends until the handle wakes it.
DrivePullWaits ==
  /\ driving
  /\ Demanded
  /\ stash = 0
  /\ Handle!Wait
  /\ owner' = "gate"
  /\ driving' = FALSE
  /\ UNCHANGED <<running, stash, gateClosed, ctlVars, micro, turn, wasPaused,
                 pulled, histVars>>

\* The application's own recv() is pending: the StateError ends the stream.
DrivePullContended ==
  /\ driving
  /\ Demanded
  /\ stash = 0
  /\ Handle!Contend
  /\ Enqueue(<<ErrorEvent, DoneEvent>>, micro)
  /\ ctlClosed' = TRUE
  /\ driving' = FALSE
  /\ running' = FALSE
  /\ UNCHANGED <<stash, gateClosed, sub, paused, inputPaused, turn, wasPaused,
                 pulled, owner, histVars>>

Drive ==
  \/ DriveStops \/ DriveStash
  \/ DrivePullReady \/ DrivePullFails \/ DrivePullWaits \/ DrivePullContended

-----------------------------------------------------------------------------
(* The microtasks.                                                         *)

Microtask(kind) ==
  /\ turn = "free"
  /\ ~driving
  /\ micro # <<>>
  /\ Head(micro) = kind

LoopResumes(kind) ==
  /\ Microtask("loop")
  /\ pulled.kind = kind
  /\ pulled' = NoResult

\* The controller is closed: nothing can retrieve the value.
LoopReleases ==
  /\ LoopResumes("data")
  /\ ctlClosed
  /\ released' = released \cup {pulled.val}
  /\ running' = FALSE
  /\ micro' = Tail(micro)
  /\ UNCHANGED <<handleVars, stash, gateClosed, ctlVars, turn, driving,
                 wasPaused, owner, taken, handed, lastShown, errors>>

\* Mutant: the loop returns with _running still set.
LoopStashesStillRunning ==
  /\ LoopResumes("data")
  /\ ~ctlClosed
  /\ ~Demanded
  /\ stash' = pulled.val
  /\ micro' = Tail(micro)
  /\ UNCHANGED <<handleVars, running, gateClosed, ctlVars, turn, driving,
                 wasPaused, owner, histVars>>

\* Mutant: a value that finds no demand is dropped.
LoopStashesNothing ==
  /\ LoopResumes("data")
  /\ ~ctlClosed
  /\ ~Demanded
  /\ running' = FALSE
  /\ micro' = Tail(micro)
  /\ UNCHANGED <<handleVars, stash, gateClosed, ctlVars, turn, driving,
                 wasPaused, owner, histVars>>

\* Paused or cancelled: the value is stashed and the loop returns.
LoopStashes ==
  /\ LoopResumes("data")
  /\ ~ctlClosed
  /\ ~Demanded
  /\ stash' = pulled.val
  /\ running' = FALSE
  /\ micro' = Tail(micro)
  /\ UNCHANGED <<handleVars, gateClosed, ctlVars, turn, driving, wasPaused,
                 owner, histVars>>

LoopAdds ==
  /\ LoopResumes("data")
  /\ Demanded
  /\ Enqueue(<<pulled.val>>, Tail(micro))
  /\ driving' = TRUE
  /\ UNCHANGED <<handleVars, running, stash, gateClosed, sub, paused,
                 inputPaused, ctlClosed, turn, wasPaused, owner, histVars>>

\* The awaited recv() failed.  The error is forwarded even to a paused
\* subscription; the loop continues.
LoopForwardsError ==
  /\ LoopResumes("fault")
  /\ IF ctlClosed
     THEN micro' = Tail(micro) /\ UNCHANGED <<queued, dispatch>>
     ELSE Enqueue(<<ErrorEvent>>, Tail(micro))
  /\ driving' = TRUE
  /\ errors' = errors + 1
  /\ UNCHANGED <<handleVars, running, stash, gateClosed, sub, paused,
                 inputPaused, ctlClosed, turn, wasPaused, owner, taken, handed,
                 released, lastShown>>

LoopDisconnects ==
  /\ LoopResumes("disconnected")
  /\ IF ctlClosed
     THEN micro' = Tail(micro) /\ UNCHANGED <<queued, dispatch>>
     ELSE Enqueue(<<DoneEvent>>, Tail(micro))
  /\ ctlClosed' = TRUE
  /\ running' = FALSE
  /\ UNCHANGED <<handleVars, stash, gateClosed, sub, paused, inputPaused, turn,
                 driving, wasPaused, owner, histVars>>

Loop ==
  \/ LoopReleases \/ LoopStashes \/ LoopAdds
  \/ LoopForwardsError \/ LoopDisconnects

\* A delivery whose schedule was cancelled does nothing.
DispatchCancelled ==
  /\ Microtask("dispatch")
  /\ dispatch = "cancelled"
  /\ dispatch' = "off"
  /\ micro' = Tail(micro)
  /\ UNCHANGED <<handleVars, running, stash, gateClosed, sub, paused,
                 inputPaused, ctlClosed, queued, turn, driving, wasPaused,
                 pulled, owner, histVars>>

\* The oldest queued event reaches the application.
DispatchEvent ==
  /\ Microtask("dispatch")
  /\ dispatch = "scheduled"
  /\ dispatch' = "off"
  /\ micro' = Tail(micro)
  /\ queued' = Tail(queued)
  /\ IF Head(queued) = DoneEvent
     THEN /\ sub' = "ended"
          /\ turn' = "app"
          /\ UNCHANGED wasPaused
     ELSE /\ turn' = "onData"
          /\ wasPaused' = inputPaused
          /\ UNCHANGED sub
  /\ IF IsValue(Head(queued))
     THEN /\ handed' = handed \cup {Head(queued)}
          /\ lastShown' = Head(queued)
     ELSE UNCHANGED <<handed, lastShown>>
  /\ UNCHANGED <<handleVars, running, stash, gateClosed, paused, inputPaused,
                 ctlClosed, driving, pulled, owner, taken, released, errors>>

\* A microtask the application scheduled.
AppMicrotask ==
  /\ Microtask("app")
  /\ turn' = "app"
  /\ micro' = Tail(micro)
  /\ UNCHANGED <<handleVars, running, stash, gateClosed, ctlVars, driving,
                 wasPaused, pulled, owner, histVars>>

-----------------------------------------------------------------------------
(* The events.                                                             *)

Event ==
  /\ turn = "free"
  /\ ~driving
  /\ micro = <<>>

AppEvent ==
  /\ Event
  /\ turn' = "app"
  /\ UNCHANGED <<handleVars, running, stash, gateClosed, ctlVars, micro,
                 driving, wasPaused, pulled, owner, histVars>>

\* The handle's port delivers a wake that completes the waiting recv().
Wake ==
  /\ Event
  /\ Handle!Serve
  /\ out'.kind = "fault" => errors < Faults
  /\ owner' = "none"
  /\ \/ /\ owner = "gate"
        /\ pulled' = out'
        /\ taken' = IF out'.kind = "data" THEN taken \cup {out'.val} ELSE taken
        /\ micro' = <<"loop">>
        /\ UNCHANGED handed
     \/ /\ owner = "app"
        /\ handed' = IF out'.kind = "data" THEN handed \cup {out'.val} ELSE handed
        /\ UNCHANGED <<pulled, taken, micro>>
  /\ UNCHANGED <<running, stash, gateClosed, ctlVars, turn, driving, wasPaused,
                 released, lastShown, errors>>

-----------------------------------------------------------------------------
(* The application's calls, while its code is on the stack.                *)

App ==
  /\ turn # "free"
  /\ ~driving

\* listen(): onListen starts the drive loop before it returns.  Events of a
\* controller closed earlier are scheduled.
Listen ==
  /\ App
  /\ sub = "none"
  /\ sub' = "active"
  /\ IF queued # <<>> THEN Reschedule ELSE UNCHANGED <<dispatch, micro>>
  /\ StartDrive
  /\ UNCHANGED <<handleVars, stash, gateClosed, paused, inputPaused, ctlClosed,
                 queued, turn, wasPaused, pulled, owner, histVars>>

Pause ==
  /\ App
  /\ sub = "active"
  /\ ~paused
  /\ paused' = TRUE
  /\ inputPaused' = TRUE
  /\ CancelSchedule
  /\ UNCHANGED <<handleVars, running, stash, gateClosed, sub, ctlClosed, queued,
                 execVars, pulled, owner, histVars>>

\* resume() with events still queued keeps the input paused until they are
\* delivered; otherwise onResume runs the drive loop at once, but not from
\* inside a callback.
Resume ==
  /\ App
  /\ sub = "active"
  /\ paused
  /\ paused' = FALSE
  /\ \/ /\ queued # <<>>
        /\ Reschedule
        /\ UNCHANGED <<inputPaused, driving, running>>
     \/ /\ queued = <<>>
        /\ inputPaused' = FALSE
        /\ IF turn = "onData" THEN UNCHANGED <<driving, running>> ELSE StartDrive
        /\ UNCHANGED <<dispatch, micro>>
  /\ UNCHANGED <<handleVars, stash, gateClosed, sub, ctlClosed, queued, turn,
                 wasPaused, pulled, owner, histVars>>

\* cancel(): whatever the controller has queued goes with the subscription.
Cancel ==
  /\ App
  /\ sub = "active"
  /\ sub' = "ended"
  /\ queued' = <<>>
  /\ paused' = FALSE
  /\ inputPaused' = FALSE
  /\ CancelSchedule
  /\ UNCHANGED <<handleVars, running, stash, gateClosed, ctlClosed, execVars,
                 pulled, owner, histVars>>

\* tryRecv() and recv() hand over the stashed value first.
TakeStash ==
  /\ App
  /\ open
  /\ stash # 0
  /\ stash' = 0
  /\ handed' = handed \cup {stash}
  /\ UNCHANGED <<handleVars, running, gateClosed, ctlVars, execVars, pulled,
                 owner, taken, released, lastShown, errors>>

\* tryRecv(), or a recv() that is answered at once.
TryRecv ==
  /\ App
  /\ stash = 0
  /\ Handle!Poll
  /\ out'.kind = "fault" => errors < Faults
  /\ handed' = IF out'.kind = "data" THEN handed \cup {out'.val} ELSE handed
  /\ UNCHANGED <<running, stash, gateClosed, ctlVars, execVars, pulled, owner,
                 taken, released, lastShown, errors>>

\* The application's own recv() on an empty channel.
RecvWaits ==
  /\ App
  /\ stash = 0
  /\ Handle!Wait
  /\ owner' = "app"
  /\ UNCHANGED <<running, stash, gateClosed, ctlVars, execVars, pulled, histVars>>

\* Mutant: the gate closes and leaves its controller to the drive loop.
CloseGateOnly ==
  /\ App
  /\ Handle!Close
  /\ owner' = "none"
  /\ gateClosed' = TRUE
  /\ stash' = 0
  /\ released' = IF stash = 0 THEN released ELSE released \cup {stash}
  /\ IF owner = "gate"
     THEN pulled' = Gone /\ micro' = Append(micro, "loop")
     ELSE UNCHANGED <<pulled, micro>>
  /\ UNCHANGED <<running, ctlVars, turn, driving, wasPaused, taken, handed,
                 lastShown, errors>>

\* close() of the handle: the waiting recv() is answered, then the gate closes,
\* releasing the stash and closing the controller.
Close ==
  /\ App
  /\ Handle!Close
  /\ owner' = "none"
  /\ gateClosed' = TRUE
  /\ stash' = 0
  /\ released' = IF stash = 0 THEN released ELSE released \cup {stash}
  /\ pulled' = IF owner = "gate" THEN Gone ELSE pulled
  /\ LET tasks == IF owner = "gate" THEN Append(micro, "loop") ELSE micro
     IN  IF ctlClosed
         THEN micro' = tasks /\ UNCHANGED <<queued, dispatch>>
         ELSE Enqueue(<<DoneEvent>>, tasks)
  /\ ctlClosed' = TRUE
  /\ UNCHANGED <<running, sub, paused, inputPaused, turn, driving, wasPaused,
                 taken, handed, lastShown, errors>>

\* The application schedules a microtask of its own (any await does).
Spawn ==
  /\ OwnTasks
  /\ App
  /\ ~ \E i \in DOMAIN micro : micro[i] = "app"
  /\ micro' = Append(micro, "app")
  /\ UNCHANGED <<handleVars, running, stash, gateClosed, ctlVars, turn, driving,
                 wasPaused, pulled, owner, histVars>>

AppReturns ==
  /\ turn = "app"
  /\ ~driving
  /\ turn' = "free"
  /\ UNCHANGED <<handleVars, running, stash, gateClosed, ctlVars, micro, driving,
                 wasPaused, pulled, owner, histVars>>

\* onData returns: the subscription compares its state with the state before
\* the callback, runs onResume if the pause has ended, and schedules the next
\* delivery.
CallbackReturns ==
  /\ turn = "onData"
  /\ ~driving
  /\ turn' = "free"
  /\ wasPaused' = FALSE
  /\ IF sub = "ended"
     THEN UNCHANGED <<inputPaused, running, driving, dispatch, micro>>
     ELSE /\ inputPaused' = (inputPaused /\ (paused \/ queued # <<>>))
          /\ IF wasPaused /\ ~inputPaused' THEN StartDrive
                                           ELSE UNCHANGED <<running, driving>>
          /\ IF queued # <<>> /\ ~paused THEN Reschedule
                                         ELSE UNCHANGED <<dispatch, micro>>
  /\ UNCHANGED <<handleVars, stash, gateClosed, sub, paused, ctlClosed, queued,
                 pulled, owner, histVars>>

Returns == AppReturns \/ CallbackReturns

Application ==
  \/ Listen \/ Pause \/ Resume \/ Cancel
  \/ TakeStash \/ TryRecv \/ RecvWaits
  \/ Close
  \/ Spawn

Next ==
  \/ Produce
  \/ Drive
  \/ Loop
  \/ DispatchCancelled \/ DispatchEvent \/ AppMicrotask
  \/ AppEvent \/ Wake
  \/ Application
  \/ Returns

Init ==
  /\ Handle!Init
  /\ running = FALSE
  /\ stash = 0
  /\ gateClosed = FALSE
  /\ sub = "none"
  /\ paused = FALSE
  /\ inputPaused = FALSE
  /\ ctlClosed = FALSE
  /\ queued = <<>>
  /\ dispatch = "off"
  /\ micro = <<>>
  /\ turn = "free"
  /\ driving = FALSE
  /\ wasPaused = FALSE
  /\ pulled = NoResult
  /\ owner = "none"
  /\ taken = {}
  /\ handed = {}
  /\ released = {}
  /\ lastShown = 0
  /\ errors = 0

Spec == Init /\ [][Next]_vars

\* The isolate gets back to its event loop: application code returns and does
\* not schedule microtasks without end.  The event loop does not starve the
\* handle's port.
FairSpec == Spec /\ []<>Event /\ SF_vars(Wake)

-----------------------------------------------------------------------------
(* Properties.                                                             *)

Results == [kind : {"none", "data", "empty", "disconnected", "fault",
                    "contended"},
            val : 0..MaxSent]

HandleTypes ==
  /\ buf \in Seq(1..MaxSent)
  /\ Len(buf) <= Capacity
  /\ accepted \in 0..MaxSent
  /\ alive \in BOOLEAN
  /\ open \in BOOLEAN
  /\ waiting \in BOOLEAN
  /\ out \in Results

GateTypes ==
  /\ running \in BOOLEAN
  /\ stash \in 0..MaxSent
  /\ gateClosed \in BOOLEAN
  /\ pulled \in Results
  /\ owner \in {"none", "gate", "app"}

ControllerTypes ==
  /\ sub \in {"none", "active", "ended"}
  /\ paused \in BOOLEAN
  /\ inputPaused \in BOOLEAN
  /\ ctlClosed \in BOOLEAN
  /\ queued \in Seq(0..MaxSent + 1)
  /\ dispatch \in {"off", "scheduled", "cancelled"}

IsolateTypes ==
  /\ micro \in Seq({"loop", "dispatch", "app"})
  /\ turn \in {"free", "app", "onData"}
  /\ driving \in BOOLEAN
  /\ wasPaused \in BOOLEAN

HistoryTypes ==
  /\ taken \subseteq 1..MaxSent
  /\ handed \subseteq 1..MaxSent
  /\ released \subseteq 1..MaxSent
  /\ lastShown \in 0..MaxSent
  /\ errors \in Nat

TypeOK ==
  HandleTypes /\ GateTypes /\ ControllerTypes /\ IsolateTypes /\ HistoryTypes

\* Values taken out of the handle and on their way to the application: events
\* of the controller, or in the gate's hands.
InController == {queued[i] : i \in {j \in DOMAIN queued : IsValue(queued[j])}}

InGate ==
  (IF pulled.kind = "data" THEN {pulled.val} ELSE {})
    \cup (IF stash # 0 THEN {stash} ELSE {})

Held == InController \cup InGate

Lost == taken \ (handed \cup released \cup Held)

\* What the stream shows is in arrival order, whatever the pauses, resumes and
\* polls in between (demand_gated_stream.dart:51-52, :187-193).
StreamInOrder == [][lastShown' # lastShown => lastShown' > lastShown]_vars

\* However the application pauses, what is retained does not grow with the
\* traffic: the channel, the stash, one value inside the controller, and one
\* more for each error that queued up before the values.  The dartdoc counts
\* "at most capacity + 1" (pull_subscriber.dart:134-138) and leaves out the
\* value that a resume() and a pause() in one turn keep in the controller.
RetainedBounded == Cardinality(Held) + Len(buf) <= Capacity + 2 + errors

\* A value the gate released is neither given to the application nor still on
\* its way to it: on the query column the release disposes the Query
\* (demand_gated_stream.dart:54-68, :157-163).
ReleasedIsNotHanded == released \cap (handed \cup Held) = {}

\* Only a cancelled subscription loses values, and it loses at most the one its
\* controller held, and one more for each error queued before it.
OnlyCancelLoses ==
  Cardinality(Lost) <= (IF sub = "ended" THEN 1 + errors ELSE 0)

\* A value the gate took comes to one end: not two, and not none.
OneFate == ReleasedIsNotHanded /\ OnlyCancelLoses

\* "The stash is never dropped on the floor" (demand_gated_stream.dart:54-66):
\* every value the gate took is delivered, retrieved, released or still held.
\* The code does not keep it: see OnlyCancelLoses.
NothingLost == Lost = {}

\* While the subscription demands, buffered values flow to it: no pause, resume
\* or stash leaves the gate without a running loop
\* (demand_gated_stream.dart:132-134, :180-183, :251-253).
StreamFlows == (Demanded /\ buf # <<>>) ~> (~Demanded \/ buf = <<>>)

\* After close() a listener that is not paused gets onDone, also when the drive
\* loop has already returned (pull_subscriber.dart:682-689).
CloseReachesListener ==
  (~open /\ sub = "active") ~> (sub = "ended" \/ paused)

==============================================================================
