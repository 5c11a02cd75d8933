---------------------------- MODULE PushCarrier ------------------------------
(***************************************************************************)
(* The push carriers: the port and StreamController behind a Subscriber, a *)
(* Queryable, their background forms, and the replies of Session.get and   *)
(* Querier.get.                                                            *)
(*                                                                         *)
(*  zenoh's thread --post--> event queue --listener--> controller --> app  *)
(*                                             \--> undelivered            *)
(*                                                                         *)
(* A message may transfer a native handle: every query does, a sample or   *)
(* an ok reply does when retainPayload was asked for.  From then on Dart   *)
(* owns it, and must hand it to the application or release it; the set of  *)
(* undelivered handles is what a carrier releases when it ends.            *)
(*                                                                         *)
(* A carrier ends by close(), which puts off closing the port by one turn  *)
(* so that messages still in the event queue are drained, or by the null   *)
(* sentinel zenoh's thread posts when it drops the closure.  The isolate   *)
(* delivers what the controller holds (microtasks) before it takes the     *)
(* next event.                                                             *)
(***************************************************************************)
EXTENDS Naturals, Sequences, FiniteSets

CONSTANT MaxValues  (* bound: values zenoh delivers                        *)

ASSUME PushCarrierAssumption == MaxValues \in Nat

VARIABLES
  column,       (* "sample", "query" or "reply"                            *)
  background,   (* no handle to close: it ends with the session or query   *)
  retain,       (* messages transfer a handle                              *)
  producer,     (* zenoh still holds the closure                           *)
  events,       (* the isolate's event queue: values, Sentinel, CloseTimer *)
  portOpen,     (* the ReceivePort                                         *)
  ctlClosed,    (* StreamController.isClosed                               *)
  queue,        (* events the controller holds: values, Done               *)
  sub,          (* its subscription: "none", "active", "cancelled", "ended"*)
  paused,       (* by the application                                      *)
  undelivered,  (* _undelivered                                            *)
  closed,       (* _closed of the Dart object                              *)
  sent,         (* values zenoh has delivered; they are numbered 1..sent   *)
  kind,         (* of a value: "handle", "bare", or "bad": undecodable     *)
  fate          (* history: "unsent", "port", "queued", "handed",          *)
                (*   "released", or "orphaned": a handle nobody owns       *)

config == <<column, background, retain>>
ctlVars == <<ctlClosed, queue, sub, paused>>
vars == <<config, producer, events, portOpen, ctlVars, undelivered, closed,
          sent, kind, fate>>

-----------------------------------------------------------------------------
Values     == 1..MaxValues
Sentinel   == 0
CloseTimer == MaxValues + 1
Done       == MaxValues + 2

\* What a callback may post.  An error reply transfers nothing.
SampleKinds == IF retain THEN {"handle", "bad"} ELSE {"bare", "bad"}
QueryKinds  == {"handle", "bad"}
ReplyKinds  == IF retain THEN {"handle", "bare", "bad"} ELSE {"bare", "bad"}

Kinds == CASE column = "sample" -> SampleKinds
           [] column = "query"  -> QueryKinds
           [] column = "reply"  -> ReplyKinds

\* What is left of a message nobody turns into an object.
Discarded(v) ==
  IF kind[v] = "handle" \/ (kind[v] = "bad" /\ retain) THEN "orphaned"
                                                      ELSE "released"

\* Release every undelivered handle and forget it.
Drained == [v \in Values |-> IF v \in undelivered THEN "released" ELSE fate[v]]

\* The controller has something to deliver: a microtask is scheduled.
Delivering == sub = "active" /\ ~paused /\ queue # <<>>

\* Close the port, with f the fates so far: the VM discards the messages that
\* were still on their way.
ClosePort(f) ==
  /\ portOpen' = FALSE
  /\ events' = <<>>
  /\ fate' = [v \in Values |-> IF f[v] = "port" THEN Discarded(v) ELSE f[v]]

\* StreamController.add: nothing is kept for a cancelled subscription.
Added(e) == IF sub = "cancelled" THEN queue ELSE Append(queue, e)

\* StreamController.close
CloseController ==
  /\ ctlClosed' = TRUE
  /\ queue' = IF ctlClosed THEN queue ELSE Added(Done)

-----------------------------------------------------------------------------
(* zenoh's threads.                                                        *)

\* The sample, query or reply callback.  Post refused: it takes back the
\* handle the message would have transferred.
Post(k) ==
  /\ producer
  /\ sent < MaxValues
  /\ sent' = sent + 1
  /\ kind' = [kind EXCEPT ![sent + 1] = k]
  /\ IF portOpen
       THEN /\ events' = Append(events, sent + 1)
            /\ fate' = [fate EXCEPT ![sent + 1] = "port"]
       ELSE /\ fate' = [fate EXCEPT ![sent + 1] = "released"]
            /\ UNCHANGED events
  /\ UNCHANGED <<config, producer, portOpen, ctlVars, undelivered, closed>>

\* The session closes or the query ends: the closure's drop posts the
\* sentinel.
DropClosure ==
  /\ background
  /\ producer
  /\ producer' = FALSE
  /\ events' = IF portOpen THEN Append(events, Sentinel) ELSE events
  /\ UNCHANGED <<config, portOpen, ctlVars, undelivered, closed, sent, kind,
                 fate>>

-----------------------------------------------------------------------------
(* The port's listener, one event of the isolate.                          *)
NextEvent(m) ==
  /\ ~Delivering
  /\ events # <<>>
  /\ Head(events) = m
  /\ UNCHANGED <<config, producer, sub, paused, closed, sent, kind>>

\* Mutant: the sentinel drains every column.
DrainsAlways == TRUE

\* Mutant: the sentinel drains no column.
DrainsNever == FALSE

\* Only a reply carrier drains at the sentinel.
DrainsAtSentinel == column = "reply"

\* Mutant: the stream is left open.
TakeSentinelSilently ==
  /\ NextEvent(Sentinel)
  /\ ClosePort(fate)
  /\ UNCHANGED <<ctlClosed, queue, undelivered>>

TakeSentinel ==
  /\ NextEvent(Sentinel)
  /\ undelivered' = IF DrainsAtSentinel THEN {} ELSE undelivered
  /\ ClosePort(IF DrainsAtSentinel THEN Drained ELSE fate)
  /\ CloseController

\* The deferred close of the port.
TakeCloseTimer ==
  /\ NextEvent(CloseTimer)
  /\ ClosePort(fate)
  /\ UNCHANGED <<ctlClosed, queue, undelivered>>

\* An undecodable value becomes an error event (after close() the controller
\* refuses it); its handle is not adopted.
TakeUndecodable(v) ==
  /\ NextEvent(v)
  /\ events' = Tail(events)
  /\ kind[v] = "bad"
  /\ fate' = [fate EXCEPT ![v] = Discarded(v)]
  /\ queue' = IF ctlClosed THEN queue ELSE Added(v)
  /\ UNCHANGED <<portOpen, ctlClosed, undelivered>>

\* The carrier is closed and the value was still in the event queue.
TakeLate(v) ==
  /\ NextEvent(v)
  /\ events' = Tail(events)
  /\ kind[v] # "bad"
  /\ ctlClosed
  /\ fate' = [fate EXCEPT ![v] = "released"]
  /\ UNCHANGED <<portOpen, ctlClosed, queue, undelivered>>

TakeValue(v) ==
  /\ NextEvent(v)
  /\ events' = Tail(events)
  /\ kind[v] # "bad"
  /\ ~ctlClosed
  /\ undelivered' = IF kind[v] = "handle" THEN undelivered \cup {v}
                                          ELSE undelivered
  /\ fate' = [fate EXCEPT ![v] =
                IF kind[v] = "bare" /\ sub = "cancelled" THEN "released"
                                                         ELSE "queued"]
  /\ queue' = Added(v)
  /\ UNCHANGED <<portOpen, ctlClosed>>

TakeEvent ==
  \/ TakeSentinel \/ TakeCloseTimer
  \/ \E v \in Values : TakeUndecodable(v) \/ TakeLate(v) \/ TakeValue(v)

-----------------------------------------------------------------------------
(* The controller delivers one event to the listener, through the filter.  *)

\* Mutant: nothing is filtered.
PassesAll(v) == TRUE

\* _markDelivered: a drained handle is suppressed.
Passes(v) == kind[v] = "handle" => v \in undelivered

Deliver ==
  /\ Delivering
  /\ queue' = Tail(queue)
  /\ LET e == Head(queue) IN
       IF e = Done
         THEN sub' = "ended" /\ UNCHANGED <<undelivered, fate>>
         ELSE /\ undelivered' = undelivered \ {e}
              /\ fate' = IF kind[e] # "bad" /\ Passes(e)
                           THEN [fate EXCEPT ![e] = "handed"] ELSE fate
              /\ UNCHANGED sub
  /\ UNCHANGED <<config, producer, events, portOpen, ctlClosed, paused, closed,
                 sent, kind>>

-----------------------------------------------------------------------------
(* The application.                                                        *)
Listen ==
  /\ sub = "none"
  /\ sub' = "active"
  /\ UNCHANGED <<config, producer, events, portOpen, ctlClosed, queue, paused,
                 undelivered, closed, sent, kind, fate>>

Pause ==
  /\ sub = "active" /\ ~paused
  /\ paused' = TRUE
  /\ UNCHANGED <<config, producer, events, portOpen, ctlClosed, queue, sub,
                 undelivered, closed, sent, kind, fate>>

Resume ==
  /\ sub = "active" /\ paused
  /\ paused' = FALSE
  /\ UNCHANGED <<config, producer, events, portOpen, ctlClosed, queue, sub,
                 undelivered, closed, sent, kind, fate>>

\* Cancelling discards what the controller holds; tracked handles stay
\* tracked.
Cancel ==
  /\ sub = "active"
  /\ sub' = "cancelled"
  /\ queue' = <<>>
  /\ fate' = [v \in Values |->
                IF fate[v] = "queued" /\ v \notin undelivered THEN "released"
                                                              ELSE fate[v]]
  /\ UNCHANGED <<config, producer, events, portOpen, ctlClosed, paused,
                 undelivered, closed, sent, kind>>

\* Mutant: the port is closed in the same turn.
DrainAndCloseAtOnce ==
  /\ undelivered' = {}
  /\ CloseController
  /\ ClosePort(Drained)

\* closeAndDrain
DrainAndClose ==
  /\ undelivered' = {} /\ fate' = Drained
  /\ CloseController
  /\ events' = Append(events, CloseTimer)
  /\ UNCHANGED portOpen

\* Subscriber.close, Queryable.close: the undeclaration waits for the
\* callbacks that are running, so no message comes after it.
Close ==
  /\ ~background
  /\ ~closed
  /\ closed' = TRUE
  /\ producer' = FALSE
  /\ DrainAndClose
  /\ UNCHANGED <<config, sub, paused, sent, kind>>

-----------------------------------------------------------------------------
Init ==
  /\ column \in {"sample", "query", "reply"}
  /\ background \in BOOLEAN /\ (column = "reply" => background)
  /\ retain \in BOOLEAN /\ (column = "query" => retain)
  /\ producer = TRUE
  /\ events = <<>> /\ portOpen = TRUE
  /\ ctlClosed = FALSE /\ queue = <<>>
  /\ sub = "none" /\ paused = FALSE
  /\ undelivered = {} /\ closed = FALSE
  /\ sent = 0
  /\ kind = [v \in Values |-> "bare"]
  /\ fate = [v \in Values |-> "unsent"]

App == Listen \/ Pause \/ Resume \/ Cancel \/ Close

Next ==
  \/ \E k \in Kinds : Post(k)
  \/ DropClosure
  \/ TakeEvent
  \/ Deliver
  \/ App

Spec == Init /\ [][Next]_vars

\* The isolate runs its microtasks, and the event loop comes round to every
\* event, however often the application pauses and resumes in between.
FairSpec == Spec /\ SF_vars(TakeEvent) /\ WF_vars(Deliver)

-----------------------------------------------------------------------------
TypeOK ==
  /\ column \in {"sample", "query", "reply"}
  /\ {background, retain, producer, portOpen, ctlClosed, paused, closed}
       \subseteq BOOLEAN
  /\ events \in Seq(Values \cup {Sentinel, CloseTimer})
  /\ queue \in Seq(Values \cup {Done})
  /\ sub \in {"none", "active", "cancelled", "ended"}
  /\ undelivered \subseteq Values
  /\ sent \in 0..MaxValues
  /\ kind \in [Values -> {"handle", "bare", "bad"}]
  /\ fate \in [Values -> {"unsent", "port", "queued", "handed", "released",
                          "orphaned"}]

\* The controller still holds the value.
InController(v) == \E i \in 1..Len(queue) : queue[i] = v

-----------------------------------------------------------------------------
(* Safety.                                                                 *)

(* A handle is orphaned only together with an undecodable value: neither   *)
(* close() nor the sentinel lets one go unowned that is in the event queue *)
(* or the controller.  (A handle the carrier still tracks has an owner,    *)
(* though it may never let it go: ReceivableAfterSentinel.)                *)
OnlyUndecodableOrphaned ==
  \A v \in Values : fate[v] = "orphaned" => kind[v] = "bad"

(* What is settled stays so: a handle given to the application is never    *)
(* released by the carrier, and one it released is never handed over, even *)
(* by a controller that still flushes its events.                          *)
SettledStays ==
  [][\A v \in Values :
       fate[v] \in {"handed", "released", "orphaned"} => fate'[v] = fate[v]]_vars

(* A background carrier, or a reply carrier that retains nothing, shows    *)
(* its listener every decodable value before it ends the stream.           *)
CompleteBeforeDone ==
  sub = "ended" /\ background /\ (column = "reply" => ~retain) =>
    \A v \in 1..sent : kind[v] # "bad" => fate[v] = "handed"

(* A reply stream ends only after its listener has received all replies.   *)
RepliesBeforeDone ==
  sub = "ended" /\ column = "reply" =>
    \A v \in 1..sent : kind[v] # "bad" => fate[v] = "handed"

(* The sentinel of a background queryable drains nothing, because "the     *)
(* consumer can still receive them from the closing controller"            *)
(* (queryable.dart:146-148): what is tracked then, the controller holds.   *)
(* The code breaks it once the consumer has cancelled: the controller      *)
(* keeps nothing, and the queries that came since are tracked for ever.    *)
ReceivableAfterSentinel ==
  [][TakeSentinel /\ column = "query" =>
       \A v \in undelivered' : InController(v)']_vars

-----------------------------------------------------------------------------
(* Liveness.                                                               *)

(* When zenoh has dropped the closure, a listener that does not stay       *)
(* paused sees its stream end.                                             *)
StreamEnds ==
  (~producer /\ sub = "active") ~> (paused \/ sub # "active")

(* A carrier that was closed, or whose query ended, gives up its port and  *)
(* every handle it still had.  A background subscriber or queryable gives  *)
(* up its port, and keeps only handles that are in its controller for the  *)
(* listener to take; if the listener cancelled, it may keep others, which  *)
(* is the leak ReceivableAfterSentinel shows.                              *)
ReleasedAtEnd ==
  ~producer ~>
    /\ ~portOpen
    /\ \A v \in 1..sent : fate[v] # "port"
    /\ \A v \in undelivered :
         background /\ column # "reply" /\ (sub = "cancelled" \/ InController(v))

==============================================================================
