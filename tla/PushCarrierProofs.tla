-------------------------- MODULE PushCarrierProofs --------------------------
(***************************************************************************)
(* Theorems about PushCarrier, for every number of values: a handle is     *)
(* given to the application or released, never both, it is orphaned only   *)
(* together with an undecodable value, and a background stream that ends   *)
(* has shown its listener everything.                                      *)
(***************************************************************************)
EXTENDS PushCarrier, SequenceTheorems, TLAPS

-----------------------------------------------------------------------------
(* The inductive invariant, in named parts.                                *)

\* Values are numbered as they are sent, and only a retaining carrier posts
\* handles.
ValueInv ==
  /\ \A v \in Values : fate[v] = "unsent" <=> v > sent
  /\ \A v \in Values : kind[v] = "handle" => retain
  /\ column = "query" => retain
  /\ column = "reply" => background
  /\ ~background /\ ~closed => producer
  /\ producer => portOpen /\ ~closed

\* The port holds each value on its way once; a message that ends the carrier
\* is the last.
EventInv ==
  /\ \A i \in 1..Len(events) :
       events[i] \notin Values => i = Len(events) /\ ~producer
  /\ \A i \in 1..Len(events) : events[i] \in Values => fate[events[i]] = "port"
  /\ \A i, j \in 1..Len(events) : events[i] = events[j] => i = j
  /\ \A v \in Values :
       fate[v] = "port" => \E i \in 1..Len(events) : events[i] = v

\* The controller holds each event once, with Done last; what it holds and the
\* application may get has not been released, unless it was drained.
QueueInv ==
  /\ \A v \in undelivered : fate[v] = "queued" /\ kind[v] = "handle"
  /\ \A i \in 1..Len(queue) :
       queue[i] \in Values =>
         /\ fate[queue[i]] \notin {"unsent", "port"}
         /\ kind[queue[i]] = "bare" => fate[queue[i]] = "queued"
  /\ \A i, j \in 1..Len(queue) : queue[i] = queue[j] => i = j
  /\ \A i \in 1..Len(queue) :
       queue[i] \notin Values => i = Len(queue) /\ ctlClosed

OrphanInv == \A v \in Values : fate[v] = "orphaned" => kind[v] = "bad"

\* A carrier whose end releases nothing.
Keeps == background /\ (column = "reply" => ~retain) /\ sub # "cancelled"

\* Until it ends, all of its decodable values are on their way or arrived; its
\* controller is closed when the last of them is in it.
CompleteInv ==
  /\ background /\ ctlClosed => events = <<>> /\ ~producer
  /\ sub = "ended" => queue = <<>> /\ ctlClosed
  /\ Keeps =>
       \A v \in Values :
         kind[v] # "bad" =>
           \/ fate[v] \in {"unsent", "port", "handed"}
           \/ /\ fate[v] = "queued"
              /\ \E i \in 1..Len(queue) : queue[i] = v
              /\ kind[v] = "handle" => v \in undelivered

IInv ==
  TypeOK /\ ValueInv /\ EventInv /\ QueueInv /\ OrphanInv /\ CompleteInv

-----------------------------------------------------------------------------
(* Sequences, and what is not a value.                                     *)

LEMMA Codes ==
  /\ Sentinel \notin Values /\ CloseTimer \notin Values /\ Done \notin Values
  /\ Values \subseteq Nat
  BY PushCarrierAssumption DEF Values, Sentinel, CloseTimer, Done

LEMMA Appended ==
  ASSUME NEW S, NEW s \in Seq(S), NEW e \in S
  PROVE  /\ Append(s, e) \in Seq(S)
         /\ Len(s) \in Nat
         /\ Len(Append(s, e)) = Len(s) + 1
         /\ \A i \in 1..Len(s) : Append(s, e)[i] = s[i]
         /\ Append(s, e)[Len(s) + 1] = e
  OBVIOUS

LEMMA Shortened ==
  ASSUME NEW S, NEW s \in Seq(S), s # <<>>
  PROVE  /\ Tail(s) \in Seq(S)
         /\ Len(s) \in Nat \ {0}
         /\ Len(Tail(s)) = Len(s) - 1
         /\ \A i \in 1..Len(Tail(s)) : Tail(s)[i] = s[i + 1]
         /\ Head(s) = s[1] /\ s[1] \in S
  <1>1. Len(s) \in Nat \ {0}
    BY EmptySeq
  <1>2. QED
    BY <1>1

LEMMA NotEmpty ==
  ASSUME NEW s, 1 \in 1..Len(s)
  PROVE  s # <<>>
  <1>1. Len(<<>>) = 0
    OBVIOUS
  <1>2. QED
    BY <1>1

LEMMA Emptied ==
  ASSUME NEW S
  PROVE  <<>> \in Seq(S) /\ Len(<<>>) = 0
  OBVIOUS

-----------------------------------------------------------------------------
(* The initial state satisfies the invariant.                              *)
LEMMA InitIInv == Init => IInv
  <1> SUFFICES ASSUME Init PROVE IInv
    OBVIOUS
  <1>1. Len(events) = 0 /\ Len(queue) = 0
    BY Emptied DEF Init
  <1>2. TypeOK
    <2>1. /\ events \in Seq(Values \cup {Sentinel, CloseTimer})
          /\ queue \in Seq(Values \cup {Done})
      BY Emptied DEF Init
    <2>2. {background, retain, producer, portOpen, ctlClosed, paused, closed}
            \subseteq BOOLEAN
      BY Zenon DEF Init
    <2>3. QED
      BY <2>1, <2>2, PushCarrierAssumption DEF Init, TypeOK, Values
  <1>3. ValueInv
    BY PushCarrierAssumption DEF Init, ValueInv, Values
  <1>4. EventInv /\ QueueInv
    BY <1>1 DEF Init, EventInv, QueueInv
  <1>5. OrphanInv /\ CompleteInv
    BY <1>1 DEF Init, OrphanInv, CompleteInv, Keeps
  <1>6. QED
    BY <1>2, <1>3, <1>4, <1>5 DEF IInv

-----------------------------------------------------------------------------
(* A value, or the end, is added to the port.                              *)
LEMMA PostKeeps ==
  ASSUME IInv, NEW k \in Kinds, Post(k)
  PROVE  IInv'
  <1> DEFINE v == sent + 1
  <1>1. /\ v \in Values /\ fate[v] = "unsent" /\ portOpen /\ ~closed
        /\ sent \in Nat /\ k \in {"handle", "bare", "bad"}
    BY PushCarrierAssumption
    DEF IInv, TypeOK, ValueInv, Post, Values, Kinds, SampleKinds, QueryKinds,
        ReplyKinds
  <1>2. events' = Append(events, v) /\ fate' = [fate EXCEPT ![v] = "port"]
    BY <1>1 DEF Post
  <1>3. /\ events' \in Seq(Values \cup {Sentinel, CloseTimer})
        /\ Len(events) \in Nat /\ Len(events') = Len(events) + 1
        /\ \A i \in 1..Len(events) : events'[i] = events[i]
        /\ events'[Len(events) + 1] = v
    BY <1>1, <1>2, Appended DEF IInv, TypeOK
  <1>4. TypeOK'
    BY <1>1, <1>2, <1>3, PushCarrierAssumption
    DEF IInv, TypeOK, Post, config, ctlVars, Values
  <1>5. ValueInv'
    BY <1>1, <1>2, PushCarrierAssumption
    DEF IInv, TypeOK, ValueInv, Post, config, ctlVars, Values, Kinds,
        SampleKinds, QueryKinds, ReplyKinds
  <1>6. EventInv'
    <2>1. \A i \in 1..Len(events) : events[i] \in Values /\ events[i] # v
      BY <1>1 DEF IInv, EventInv, Post
    <2>2. \A i \in 1..Len(events) : fate[events[i]] = "port"
      BY <2>1 DEF IInv, EventInv
    <2>3. \A i \in 1..Len(events') : events'[i] \in Values
      BY <1>1, <1>3, <2>1
    <2>4. \A i \in 1..Len(events') : fate'[events'[i]] = "port"
      BY <1>1, <1>2, <1>3, <2>1, <2>2 DEF IInv, TypeOK
    <2>5. \A i, j \in 1..Len(events') : events'[i] = events'[j] => i = j
      BY <1>3, <2>1 DEF IInv, EventInv
    <2>6. ASSUME NEW w \in Values, fate'[w] = "port"
          PROVE  \E i \in 1..Len(events') : events'[i] = w
      BY <1>1, <1>2, <1>3, <2>6 DEF IInv, TypeOK, EventInv
    <2>7. QED
      BY <2>3, <2>4, <2>5, <2>6 DEF EventInv
  <1>7. QueueInv' /\ OrphanInv' /\ CompleteInv'
    BY <1>1, <1>2
    DEF IInv, TypeOK, QueueInv, OrphanInv, CompleteInv, Keeps, Post, config,
        ctlVars
  <1>8. QED
    BY <1>4, <1>5, <1>6, <1>7 DEF IInv

LEMMA DropKeeps ==
  ASSUME IInv, DropClosure
  PROVE  IInv'
  <1>1. /\ background /\ producer /\ portOpen /\ producer' = FALSE
        /\ UNCHANGED <<config, portOpen, ctlVars, undelivered, closed, sent,
                       kind, fate>>
    BY DEF IInv, ValueInv, DropClosure
  <1>2. events' = Append(events, Sentinel)
    BY <1>1 DEF DropClosure
  <1>3. /\ events' \in Seq(Values \cup {Sentinel, CloseTimer})
        /\ Len(events) \in Nat /\ Len(events') = Len(events) + 1
        /\ \A i \in 1..Len(events) : events'[i] = events[i]
        /\ events'[Len(events) + 1] = Sentinel
    BY <1>2, Appended DEF IInv, TypeOK
  <1>4. \A i \in 1..Len(events) : events[i] \in Values
    BY <1>1 DEF IInv, EventInv
  <1>5. TypeOK'
    BY <1>1, <1>3 DEF IInv, TypeOK, config, ctlVars
  <1>6. ValueInv'
    BY <1>1 DEF IInv, TypeOK, ValueInv, config, ctlVars
  <1>7. EventInv'
    BY <1>1, <1>3, <1>4, Codes DEF IInv, EventInv
  <1>8. ~ctlClosed
    BY <1>1 DEF IInv, CompleteInv
  <1>9. QueueInv' /\ OrphanInv' /\ CompleteInv'
    BY <1>1, <1>8
    DEF IInv, QueueInv, OrphanInv, CompleteInv, Keeps, config, ctlVars
  <1>10. QED
    BY <1>5, <1>6, <1>7, <1>9 DEF IInv

-----------------------------------------------------------------------------
(* An event is taken.  The one that ends the carrier is the last.          *)

LEMMA EndIsLast ==
  ASSUME IInv, NEW m \in {Sentinel, CloseTimer}, NextEvent(m)
  PROVE  ~producer /\ \A v \in Values : fate[v] # "port"
  <1>1. Len(events) \in Nat \ {0} /\ events[1] = m
    BY Shortened DEF IInv, TypeOK, NextEvent
  <1>2. m \notin Values
    BY Codes
  <1>3. Len(events) = 1 /\ ~producer
    <2>1. 1 \in 1..Len(events)
      BY <1>1
    <2>2. 1 = Len(events) /\ ~producer
      BY <1>1, <1>2, <2>1 DEF IInv, EventInv
    <2>3. QED
      BY <2>2
  <1>4. QED
    BY <1>1, <1>2, <1>3 DEF IInv, EventInv

LEMMA TakenFacts ==
  ASSUME IInv, NEW v \in Values, NextEvent(v), events' = Tail(events)
  PROVE  /\ fate[v] = "port" /\ v \notin undelivered
         /\ \A i \in 1..Len(queue) : queue[i] # v
         /\ events' \in Seq(Values \cup {Sentinel, CloseTimer})
         /\ Len(events) \in Nat \ {0} /\ Len(events') = Len(events) - 1
         /\ \A i \in 1..Len(events') : events'[i] = events[i + 1]
         /\ events[1] = v
  <1>1. /\ events' \in Seq(Values \cup {Sentinel, CloseTimer})
        /\ Len(events) \in Nat \ {0} /\ Len(events') = Len(events) - 1
        /\ \A i \in 1..Len(events') : events'[i] = events[i + 1]
        /\ events[1] = v
    BY Shortened DEF IInv, TypeOK, NextEvent
  <1>2. fate[v] = "port"
    <2>1. 1 \in 1..Len(events)
      BY <1>1
    <2>2. QED
      BY <1>1, <2>1 DEF IInv, EventInv
  <1>3. v \notin undelivered /\ \A i \in 1..Len(queue) : queue[i] # v
    BY <1>2 DEF IInv, QueueInv
  <1>4. QED
    BY <1>1, <1>2, <1>3

LEMMA TakenKeepsEvents ==
  ASSUME IInv, NEW v \in Values, NextEvent(v), events' = Tail(events),
         NEW f, f \notin {"port", "unsent"}, fate' = [fate EXCEPT ![v] = f]
  PROVE  EventInv'
  <1>1. producer' = producer
    BY DEF NextEvent
  <1>2. \A i \in 1..Len(events') : i + 1 \in 1..Len(events) /\ i \in Nat
    BY TakenFacts
  <1>3. \A i \in 1..Len(events') : events'[i] # v
    BY <1>2, TakenFacts DEF IInv, EventInv
  <1>4. \A i \in 1..Len(events') :
          events'[i] \notin Values => i = Len(events') /\ ~producer'
    BY <1>1, <1>2, TakenFacts DEF IInv, EventInv
  <1>5. \A i \in 1..Len(events') :
          events'[i] \in Values => fate'[events'[i]] = "port"
    BY <1>2, <1>3, TakenFacts DEF IInv, TypeOK, EventInv
  <1>6. \A i, j \in 1..Len(events') : events'[i] = events'[j] => i = j
    BY <1>2, TakenFacts DEF IInv, EventInv
  <1>7. ASSUME NEW w \in Values, fate'[w] = "port"
        PROVE  \E i \in 1..Len(events') : events'[i] = w
    <2>1. w # v /\ fate[w] = "port"
      BY <1>7 DEF IInv, TypeOK
    <2>2. PICK i \in 1..Len(events) : events[i] = w
      BY <2>1 DEF IInv, EventInv
    <2>3. i # 1
      BY <2>1, <2>2, TakenFacts
    <2>4. i - 1 \in 1..Len(events') /\ events'[i - 1] = w
      BY <2>2, <2>3, TakenFacts
    <2>5. QED
      BY <2>4
  <1>8. QED
    BY <1>4, <1>5, <1>6, <1>7 DEF EventInv

-----------------------------------------------------------------------------
(* Draining, and the two ends of a carrier.                                *)

Fates == {"unsent", "port", "queued", "handed", "released", "orphaned"}

LEMMA DrainFacts ==
  ASSUME IInv
  PROVE  /\ Drained \in [Values -> Fates]
         /\ \A v \in Values :
              Drained[v] = IF v \in undelivered THEN "released" ELSE fate[v]
         /\ \A v \in Values :
              /\ Drained[v] = "port" <=> fate[v] = "port"
              /\ Drained[v] = "unsent" <=> fate[v] = "unsent"
              /\ Drained[v] = "orphaned" => fate[v] = "orphaned"
              /\ Drained[v] # fate[v] =>
                   fate[v] = "queued" /\ kind[v] = "handle"
  BY DEF IInv, TypeOK, QueueInv, Drained, Fates

\* The port closes, and there was nothing left in it to lose.
LEMMA PortCloses ==
  ASSUME IInv, NEW m \in {Sentinel, CloseTimer}, NextEvent(m),
         NEW f \in {fate, Drained}, ClosePort(f)
  PROVE  /\ fate' = f /\ events' = <<>> /\ portOpen' = FALSE
         /\ fate' \in [Values -> Fates]
         /\ events' \in Seq(Values \cup {Sentinel, CloseTimer})
         /\ EventInv'
  <1>1. f \in [Values -> Fates] /\ \A v \in Values : f[v] # "port"
    BY EndIsLast, DrainFacts DEF IInv, TypeOK, Fates
  <1>2. fate' = f
    BY <1>1 DEF ClosePort
  <1>3. events' = <<>> /\ portOpen' = FALSE /\ Len(events') = 0
    BY Emptied DEF ClosePort
  <1>4. EventInv'
    BY <1>1, <1>2, <1>3 DEF EventInv
  <1>5. QED
    BY <1>1, <1>2, <1>3, <1>4, Emptied

LEMMA ControllerCloses ==
  ASSUME IInv, CloseController, kind' = kind,
         \/ undelivered' = undelivered /\ fate' = fate
         \/ undelivered' = {} /\ fate' = Drained
  PROVE  /\ queue' \in Seq(Values \cup {Done})
         /\ QueueInv' /\ OrphanInv' /\ ctlClosed' = TRUE
         /\ sub = "ended" => queue' = queue
         /\ \A v \in Values : (\E i \in 1..Len(queue) : queue[i] = v) =>
                               \E i \in 1..Len(queue') : queue'[i] = v
  <1>1. ctlClosed' = TRUE
    BY DEF CloseController
  <1>2. /\ undelivered' \subseteq undelivered
        /\ \A v \in Values :
             /\ fate'[v] = "port" <=> fate[v] = "port"
             /\ fate'[v] = "unsent" <=> fate[v] = "unsent"
             /\ fate'[v] = "orphaned" => fate[v] = "orphaned"
             /\ fate'[v] # fate[v] => v \notin undelivered' /\ kind[v] = "handle"
    BY DrainFacts DEF IInv, TypeOK
  <1>3. OrphanInv'
    BY <1>2 DEF IInv, OrphanInv
  <1>4. CASE queue' = queue
    <2>1. QueueInv'
      BY <1>1, <1>2, <1>4 DEF IInv, TypeOK, QueueInv
    <2>2. QED
      BY <1>1, <1>3, <1>4, <2>1 DEF IInv, TypeOK
  <1>5. CASE ~ctlClosed /\ queue' = Append(queue, Done)
    <2>1. /\ queue' \in Seq(Values \cup {Done})
          /\ Len(queue) \in Nat /\ Len(queue') = Len(queue) + 1
          /\ \A i \in 1..Len(queue) : queue'[i] = queue[i]
          /\ queue'[Len(queue) + 1] = Done
      BY <1>5, Appended DEF IInv, TypeOK
    <2>2. \A i \in 1..Len(queue) : queue[i] \in Values
      BY <1>5 DEF IInv, QueueInv
    <2>3. \A i \in 1..Len(queue') :
            queue'[i] \in Values => i \in 1..Len(queue) /\ queue'[i] = queue[i]
      BY <2>1, Codes
    <2>4. \A i \in 1..Len(queue') :
            queue'[i] \in Values =>
              /\ fate'[queue'[i]] \notin {"unsent", "port"}
              /\ kind'[queue'[i]] = "bare" => fate'[queue'[i]] = "queued"
      BY <1>2, <2>3 DEF IInv, QueueInv
    <2>5. \A i, j \in 1..Len(queue') : queue'[i] = queue'[j] => i = j
      BY <2>1, <2>2, Codes DEF IInv, QueueInv
    <2>6. \A i \in 1..Len(queue') : queue'[i] \notin Values => i = Len(queue')
      BY <2>1, <2>2
    <2>7. \A v \in undelivered' : fate'[v] = "queued" /\ kind'[v] = "handle"
      BY <1>2 DEF IInv, TypeOK, QueueInv
    <2>8. QueueInv'
      BY <1>1, <2>4, <2>5, <2>6, <2>7 DEF QueueInv
    <2>9. sub # "ended"
      BY <1>5 DEF IInv, CompleteInv
    <2>10. QED
      BY <1>1, <1>3, <2>1, <2>8, <2>9
  <1>6. QED
    BY <1>4, <1>5 DEF CloseController, Added

LEMMA SentinelKeeps ==
  ASSUME IInv, TakeSentinel
  PROVE  IInv'
  <1>1. /\ NextEvent(Sentinel) /\ CloseController
        /\ UNCHANGED <<config, producer, sub, paused, closed, sent, kind>>
    BY DEF TakeSentinel, NextEvent
  <1>2. \/ undelivered' = undelivered /\ ClosePort(fate) /\ column # "reply"
        \/ undelivered' = {} /\ ClosePort(Drained)
    BY DEF TakeSentinel, DrainsAtSentinel
  <1>3. /\ events' = <<>> /\ portOpen' = FALSE
        /\ fate' \in [Values -> Fates]
        /\ events' \in Seq(Values \cup {Sentinel, CloseTimer})
        /\ EventInv'
        /\ \/ undelivered' = undelivered /\ fate' = fate
           \/ undelivered' = {} /\ fate' = Drained
    BY <1>1, <1>2, PortCloses
  <1>4. ~producer /\ \A v \in Values : fate[v] # "port"
    BY <1>1, EndIsLast
  <1>5. /\ queue' \in Seq(Values \cup {Done})
        /\ QueueInv' /\ OrphanInv' /\ ctlClosed' = TRUE
        /\ sub = "ended" => queue' = queue
        /\ \A v \in Values : (\E i \in 1..Len(queue) : queue[i] = v) =>
                              \E i \in 1..Len(queue') : queue'[i] = v
    BY <1>1, <1>3, ControllerCloses
  <1>6. undelivered' \subseteq Values
    BY <1>3 DEF IInv, TypeOK
  <1>7. TypeOK'
    BY <1>1, <1>3, <1>5, <1>6 DEF IInv, TypeOK, config, Fates
  <1>8. \A v \in Values : fate'[v] = "unsent" <=> fate[v] = "unsent"
    BY <1>3, DrainFacts
  <1>9. ValueInv'
    BY <1>1, <1>3, <1>4, <1>8 DEF IInv, ValueInv, config
  <1>10. CompleteInv'
    <2>1. ASSUME Keeps PROVE undelivered' = undelivered /\ fate' = fate
      <3>1. column = "reply" => undelivered = {}
        BY <2>1 DEF IInv, TypeOK, ValueInv, QueueInv, Keeps
      <3>2. CASE undelivered = {}
        BY <1>3, <3>2, DrainFacts DEF IInv, TypeOK, Fates, Drained
      <3>3. CASE column # "reply"
        BY <1>1, <3>3, PortCloses DEF TakeSentinel, DrainsAtSentinel
      <3>4. QED
        BY <3>1, <3>2, <3>3
    <2>2. Keeps' = Keeps
      BY <1>1 DEF Keeps, config
    <2>3. QED
      BY <1>1, <1>3, <1>4, <1>5, <2>1, <2>2 DEF IInv, CompleteInv
  <1>11. QED
    BY <1>3, <1>5, <1>7, <1>9, <1>10 DEF IInv

LEMMA CloseTimerKeeps ==
  ASSUME IInv, TakeCloseTimer
  PROVE  IInv'
  <1>1. /\ NextEvent(CloseTimer) /\ ClosePort(fate)
        /\ UNCHANGED <<config, producer, ctlClosed, queue, sub, paused,
                       undelivered, closed, sent, kind>>
    BY DEF TakeCloseTimer, NextEvent
  <1>2. /\ fate' = fate /\ events' = <<>> /\ portOpen' = FALSE
        /\ events' \in Seq(Values \cup {Sentinel, CloseTimer})
        /\ EventInv'
    BY <1>1, PortCloses
  <1>3. ~producer
    BY <1>1, EndIsLast
  <1>4. TypeOK'
    BY <1>1, <1>2 DEF IInv, TypeOK, config
  <1>5. ValueInv'
    BY <1>1, <1>2, <1>3 DEF IInv, ValueInv, config
  <1>6. QueueInv' /\ OrphanInv' /\ CompleteInv'
    BY <1>1, <1>2, <1>3
    DEF IInv, QueueInv, OrphanInv, CompleteInv, Keeps, config
  <1>7. QED
    BY <1>2, <1>4, <1>5, <1>6 DEF IInv

-----------------------------------------------------------------------------
(* A value is taken from the port.                                         *)

\* The controller is offered event e, which it does not hold.
LEMMA OfferedFacts ==
  ASSUME IInv, NEW v \in Values, \A i \in 1..Len(queue) : queue[i] # v,
         ~ctlClosed, queue' = Added(v), NEW f, f \notin {"unsent", "port"},
         kind[v] = "bare" => f = "queued" \/ sub = "cancelled",
         fate' = [fate EXCEPT ![v] = f], fate[v] = "port",
         UNCHANGED <<kind, ctlClosed>>
  PROVE  /\ queue' \in Seq(Values \cup {Done})
         /\ \A w \in Values : (\E i \in 1..Len(queue) : queue[i] = w) =>
                               \E i \in 1..Len(queue') : queue'[i] = w
         /\ sub # "cancelled" => \E i \in 1..Len(queue') : queue'[i] = v
         /\ \A i \in 1..Len(queue') :
              queue'[i] \in Values =>
                /\ fate'[queue'[i]] \notin {"unsent", "port"}
                /\ kind[queue'[i]] = "bare" => fate'[queue'[i]] = "queued"
         /\ \A i, j \in 1..Len(queue') : queue'[i] = queue'[j] => i = j
         /\ \A i \in 1..Len(queue') :
              queue'[i] \notin Values => i = Len(queue') /\ ctlClosed'
  <1>1. \A i \in 1..Len(queue) : queue[i] \in Values
    BY DEF IInv, QueueInv
  <1>2. \A w \in Values : fate'[w] = IF w = v THEN f ELSE fate[w]
    BY DEF IInv, TypeOK
  <1>3. CASE sub = "cancelled"
    <2>1. queue' = queue
      BY <1>3 DEF Added
    <2>2. QED
      BY <1>1, <1>2, <1>3, <2>1 DEF IInv, TypeOK, QueueInv
  <1>4. CASE sub # "cancelled"
    <2>1. /\ queue' \in Seq(Values \cup {Done})
          /\ Len(queue) \in Nat /\ Len(queue') = Len(queue) + 1
          /\ \A i \in 1..Len(queue) : queue'[i] = queue[i]
          /\ queue'[Len(queue) + 1] = v
      BY <1>4, Appended DEF IInv, TypeOK, Added
    <2>2. \A i \in 1..Len(queue') :
            /\ queue'[i] \in Values
            /\ fate'[queue'[i]] \notin {"unsent", "port"}
            /\ kind[queue'[i]] = "bare" => fate'[queue'[i]] = "queued"
      BY <1>1, <1>2, <1>4, <2>1 DEF IInv, QueueInv
    <2>3. \A i, j \in 1..Len(queue') : queue'[i] = queue'[j] => i = j
      BY <1>1, <2>1 DEF IInv, QueueInv
    <2>4. QED
      BY <2>1, <2>2, <2>3
  <1>5. QED
    BY <1>3, <1>4

LEMMA UndecodableKeeps ==
  ASSUME IInv, NEW v \in Values, TakeUndecodable(v)
  PROVE  IInv'
  <1> DEFINE f == Discarded(v)
  <1>1. /\ NextEvent(v) /\ events' = Tail(events) /\ kind[v] = "bad"
        /\ fate' = [fate EXCEPT ![v] = f]
        /\ f \in {"orphaned", "released"}
        /\ UNCHANGED <<config, producer, sub, paused, closed, sent, kind,
                       portOpen, ctlClosed, undelivered>>
    BY DEF TakeUndecodable, NextEvent, Discarded
  <1>2. /\ fate[v] = "port" /\ v \notin undelivered
        /\ \A i \in 1..Len(queue) : queue[i] # v
        /\ events' \in Seq(Values \cup {Sentinel, CloseTimer})
        /\ events # <<>>
    BY <1>1, TakenFacts DEF NextEvent
  <1>3. EventInv'
    BY <1>1, TakenKeepsEvents
  <1>4. \A w \in Values : fate'[w] = IF w = v THEN f ELSE fate[w]
    BY <1>1 DEF IInv, TypeOK
  <1>5. /\ queue' \in Seq(Values \cup {Done})
        /\ \A w \in Values : (\E i \in 1..Len(queue) : queue[i] = w) =>
                              \E i \in 1..Len(queue') : queue'[i] = w
        /\ QueueInv'
        /\ ctlClosed => queue' = queue
    <2>1. \A w \in undelivered' : fate'[w] = "queued" /\ kind'[w] = "handle"
      BY <1>1, <1>2, <1>4 DEF IInv, TypeOK, QueueInv
    <2>2. CASE ctlClosed
      <3>1. queue' = queue
        BY <2>2 DEF TakeUndecodable
      <3>2. \A i \in 1..Len(queue) :
              queue[i] \in Values => fate'[queue[i]] = fate[queue[i]]
        BY <1>2, <1>4
      <3>3. QED
        BY <1>1, <2>1, <3>1, <3>2 DEF IInv, TypeOK, QueueInv
    <2>3. CASE ~ctlClosed
      <3>1. queue' = Added(v)
        BY <2>3 DEF TakeUndecodable
      <3>2. /\ queue' \in Seq(Values \cup {Done})
            /\ \A w \in Values : (\E i \in 1..Len(queue) : queue[i] = w) =>
                                  \E i \in 1..Len(queue') : queue'[i] = w
            /\ \A i \in 1..Len(queue') :
                 queue'[i] \in Values =>
                   /\ fate'[queue'[i]] \notin {"unsent", "port"}
                   /\ kind[queue'[i]] = "bare" => fate'[queue'[i]] = "queued"
            /\ \A i, j \in 1..Len(queue') : queue'[i] = queue'[j] => i = j
            /\ \A i \in 1..Len(queue') :
                 queue'[i] \notin Values => i = Len(queue') /\ ctlClosed'
        BY <1>1, <1>2, <2>3, <3>1, OfferedFacts
      <3>3. kind' = kind
        BY <1>1
      <3>4. QED
        BY <2>1, <2>3, <3>2, <3>3 DEF QueueInv
    <2>4. QED
      BY <2>2, <2>3
  <1>6. TypeOK'
    BY <1>1, <1>2, <1>5 DEF IInv, TypeOK, config
  <1>7. ValueInv'
    BY <1>1, <1>2, <1>4 DEF IInv, ValueInv, config
  <1>8. OrphanInv'
    BY <1>1, <1>4 DEF IInv, OrphanInv
  <1>9. CompleteInv'
    <2>1. background /\ ctlClosed => FALSE
      BY <1>2 DEF IInv, CompleteInv
    <2>2. QED
      BY <1>1, <1>4, <1>5, <2>1 DEF IInv, TypeOK, CompleteInv, Keeps, config
  <1>10. QED
    BY <1>3, <1>5, <1>6, <1>7, <1>8, <1>9 DEF IInv

LEMMA LateKeeps ==
  ASSUME IInv, NEW v \in Values, TakeLate(v)
  PROVE  IInv'
  <1>1. /\ NextEvent(v) /\ events' = Tail(events) /\ ctlClosed
        /\ fate' = [fate EXCEPT ![v] = "released"]
        /\ UNCHANGED <<config, producer, sub, paused, closed, sent, kind,
                       portOpen, ctlClosed, queue, undelivered>>
    BY DEF TakeLate, NextEvent
  <1>2. /\ fate[v] = "port" /\ v \notin undelivered
        /\ \A i \in 1..Len(queue) : queue[i] # v
        /\ events' \in Seq(Values \cup {Sentinel, CloseTimer})
        /\ events # <<>>
    BY <1>1, TakenFacts DEF NextEvent
  <1>3. EventInv'
    BY <1>1, TakenKeepsEvents
  <1>4. \A w \in Values : fate'[w] = IF w = v THEN "released" ELSE fate[w]
    BY <1>1 DEF IInv, TypeOK
  <1>5. ~background
    BY <1>1, <1>2 DEF IInv, TypeOK, CompleteInv
  <1>6. TypeOK'
    BY <1>1, <1>2 DEF IInv, TypeOK, config
  <1>7. ValueInv' /\ OrphanInv'
    BY <1>1, <1>2, <1>4 DEF IInv, ValueInv, OrphanInv, config
  <1>8. QueueInv'
    BY <1>1, <1>2, <1>4 DEF IInv, TypeOK, QueueInv
  <1>9. CompleteInv'
    BY <1>1, <1>5 DEF IInv, CompleteInv, Keeps, config
  <1>10. QED
    BY <1>3, <1>6, <1>7, <1>8, <1>9 DEF IInv

LEMMA ValueKeeps ==
  ASSUME IInv, NEW v \in Values, TakeValue(v)
  PROVE  IInv'
  <1> DEFINE f == IF kind[v] = "bare" /\ sub = "cancelled" THEN "released"
                                                         ELSE "queued"
  <1>1. /\ NextEvent(v) /\ events' = Tail(events) /\ kind[v] # "bad"
        /\ ~ctlClosed /\ fate' = [fate EXCEPT ![v] = f] /\ queue' = Added(v)
        /\ undelivered' = IF kind[v] = "handle" THEN undelivered \cup {v}
                                                ELSE undelivered
        /\ UNCHANGED <<config, producer, sub, paused, closed, sent, kind,
                       portOpen, ctlClosed>>
    BY DEF TakeValue, NextEvent
  <1>a. /\ f \in {"released", "queued"} /\ f \notin {"port", "unsent"}
        /\ kind[v] = "bare" => f = "queued" \/ sub = "cancelled"
        /\ kind[v] = "handle" \/ sub # "cancelled" => f = "queued"
    OBVIOUS
  <1> HIDE DEF f
  <1>2. /\ fate[v] = "port" /\ v \notin undelivered
        /\ \A i \in 1..Len(queue) : queue[i] # v
        /\ events' \in Seq(Values \cup {Sentinel, CloseTimer})
        /\ events # <<>>
    BY <1>1, TakenFacts DEF NextEvent
  <1>3. EventInv'
    BY <1>1, <1>a, TakenKeepsEvents
  <1>4. \A w \in Values : fate'[w] = IF w = v THEN f ELSE fate[w]
    BY <1>1 DEF IInv, TypeOK
  <1>5. /\ queue' \in Seq(Values \cup {Done})
        /\ \A w \in Values : (\E i \in 1..Len(queue) : queue[i] = w) =>
                              \E i \in 1..Len(queue') : queue'[i] = w
        /\ sub # "cancelled" => \E i \in 1..Len(queue') : queue'[i] = v
        /\ \A i \in 1..Len(queue') :
             queue'[i] \in Values =>
               /\ fate'[queue'[i]] \notin {"unsent", "port"}
               /\ kind[queue'[i]] = "bare" => fate'[queue'[i]] = "queued"
        /\ \A i, j \in 1..Len(queue') : queue'[i] = queue'[j] => i = j
        /\ \A i \in 1..Len(queue') :
             queue'[i] \notin Values => i = Len(queue') /\ ctlClosed'
    BY <1>1, <1>a, <1>2, OfferedFacts
  <1>6. QueueInv'
    <2>1. \A w \in undelivered' : fate'[w] = "queued" /\ kind'[w] = "handle"
      BY <1>1, <1>a, <1>2, <1>4 DEF IInv, TypeOK, QueueInv
    <2>2. kind' = kind
      BY <1>1
    <2>3. QED
      BY <1>5, <2>1, <2>2 DEF QueueInv
  <1>7. TypeOK'
    BY <1>1, <1>a, <1>2, <1>5 DEF IInv, TypeOK, config
  <1>8. ValueInv' /\ OrphanInv'
    BY <1>1, <1>a, <1>2, <1>4 DEF IInv, ValueInv, OrphanInv, config
  <1>9. CompleteInv'
    <2>1. sub # "ended"
      BY <1>1 DEF IInv, CompleteInv
    <2>2. ASSUME Keeps', NEW w \in Values, kind'[w] # "bad"
          PROVE  \/ fate'[w] \in {"unsent", "port", "handed"}
                 \/ /\ fate'[w] = "queued"
                    /\ \E i \in 1..Len(queue') : queue'[i] = w
                    /\ kind'[w] = "handle" => w \in undelivered'
      <3>1. Keeps /\ sub # "cancelled" /\ kind'[w] = kind[w]
        BY <1>1, <2>2 DEF Keeps, config
      <3>2. CASE w = v
        BY <1>1, <1>a, <1>4, <1>5, <3>1, <3>2
      <3>3. CASE w # v
        BY <1>1, <1>4, <1>5, <2>2, <3>1, <3>3 DEF IInv, CompleteInv
      <3>4. QED
        BY <3>2, <3>3
    <2>3. QED
      BY <1>1, <2>1, <2>2 DEF CompleteInv, config
  <1>10. QED
    BY <1>3, <1>6, <1>7, <1>8, <1>9 DEF IInv

-----------------------------------------------------------------------------
(* The controller delivers, and the application acts.                      *)

LEMMA HeadFacts ==
  ASSUME IInv, Deliver
  PROVE  /\ queue' \in Seq(Values \cup {Done})
         /\ Len(queue) \in Nat \ {0} /\ Len(queue') = Len(queue) - 1
         /\ \A i \in 1..Len(queue') : /\ i + 1 \in 1..Len(queue)
                                      /\ queue'[i] = queue[i + 1]
                                      /\ queue'[i] # queue[1]
         /\ Head(queue) = queue[1] /\ 1 \in 1..Len(queue)
         /\ queue[1] \in Values \cup {Done}
  <1>1. queue # <<>> /\ queue' = Tail(queue)
    BY DEF Deliver, Delivering
  <1>2. /\ queue' \in Seq(Values \cup {Done})
        /\ Len(queue) \in Nat \ {0} /\ Len(queue') = Len(queue) - 1
        /\ \A i \in 1..Len(queue') : queue'[i] = queue[i + 1]
        /\ Head(queue) = queue[1] /\ queue[1] \in Values \cup {Done}
    BY <1>1, Shortened DEF IInv, TypeOK
  <1>3. 1 \in 1..Len(queue)
    BY <1>2
  <1>4. \A i \in 1..Len(queue') : i + 1 \in 1..Len(queue) /\ i + 1 # 1
    BY <1>2
  <1>5. \A i \in 1..Len(queue') : queue'[i] # queue[1]
    BY <1>2, <1>3, <1>4 DEF IInv, QueueInv
  <1>6. QED
    BY <1>2, <1>3, <1>4, <1>5

LEMMA DeliverKeeps ==
  ASSUME IInv, Deliver
  PROVE  IInv'
  <1> DEFINE e == queue[1]
  <1>1. /\ sub = "active"
        /\ UNCHANGED <<config, producer, events, portOpen, ctlClosed, paused,
                       closed, sent, kind>>
    BY DEF Deliver, Delivering
  <1>2. CASE e = Done
    <2>1. /\ sub' = "ended" /\ UNCHANGED <<undelivered, fate>>
      BY <1>2, HeadFacts DEF Deliver
    <2>2. Len(queue) = 1 /\ ctlClosed
      BY <1>2, HeadFacts, Codes DEF IInv, QueueInv
    <2>3. queue' = <<>> /\ Len(queue') = 0
      BY <2>2, HeadFacts, EmptySeq
    <2>4. TypeOK'
      BY <1>1, <2>1, HeadFacts DEF IInv, TypeOK, config
    <2>5. ValueInv' /\ EventInv' /\ OrphanInv'
      BY <1>1, <2>1 DEF IInv, ValueInv, EventInv, OrphanInv, config
    <2>6. QueueInv'
      BY <1>1, <2>1, <2>3 DEF IInv, QueueInv
    <2>7. \A v \in Values : \A i \in 1..Len(queue) : queue[i] # v
      BY <1>2, <2>2, Codes
    <2>8. CompleteInv'
      BY <1>1, <2>1, <2>2, <2>3, <2>7 DEF IInv, CompleteInv, Keeps, config
    <2>9. QED
      BY <2>4, <2>5, <2>6, <2>8 DEF IInv
  <1>3. CASE e # Done
    <2>1. e \in Values
      BY <1>3, HeadFacts
    <2>2. /\ undelivered' = undelivered \ {e} /\ sub' = sub
          /\ fate' = IF kind[e] # "bad" /\ Passes(e)
                       THEN [fate EXCEPT ![e] = "handed"] ELSE fate
      BY <1>3, HeadFacts DEF Deliver
    <2>3. /\ fate[e] \notin {"unsent", "port"}
          /\ kind[e] = "bare" => fate[e] = "queued"
      BY <2>1, HeadFacts DEF IInv, QueueInv
    <2>4. \A w \in Values :
            fate'[w] = IF w = e /\ kind[e] # "bad" /\ Passes(e) THEN "handed"
                                                              ELSE fate[w]
      BY <2>1, <2>2 DEF IInv, TypeOK
    <2>5. TypeOK'
      BY <1>1, <2>2, HeadFacts DEF IInv, TypeOK, config
    <2>6. ValueInv' /\ EventInv' /\ OrphanInv'
      <3>1. \A w \in Values : /\ fate'[w] = "port" <=> fate[w] = "port"
                              /\ fate'[w] = "unsent" <=> fate[w] = "unsent"
                              /\ fate'[w] = "orphaned" => fate[w] = "orphaned"
        BY <2>3, <2>4
      <3>2. QED
        BY <1>1, <3>1 DEF IInv, ValueInv, EventInv, OrphanInv, config
    <2>7. QueueInv'
      <3>1. \A w \in undelivered' : fate'[w] = "queued" /\ kind'[w] = "handle"
        BY <1>1, <2>2, <2>4 DEF IInv, TypeOK, QueueInv
      <3>2. \A i \in 1..Len(queue') :
              queue'[i] \in Values =>
                /\ fate'[queue'[i]] \notin {"unsent", "port"}
                /\ kind'[queue'[i]] = "bare" => fate'[queue'[i]] = "queued"
        BY <1>1, <2>4, HeadFacts DEF IInv, QueueInv
      <3>3. \A i, j \in 1..Len(queue') : queue'[i] = queue'[j] => i = j
        BY HeadFacts DEF IInv, QueueInv
      <3>4. \A i \in 1..Len(queue') :
              queue'[i] \notin Values => i = Len(queue') /\ ctlClosed'
        BY <1>1, HeadFacts DEF IInv, QueueInv
      <3>5. QED
        BY <3>1, <3>2, <3>3, <3>4 DEF QueueInv
    <2>8. CompleteInv'
      <3>1. Keeps' = Keeps
        BY <1>1, <2>2 DEF Keeps, config
      <3>2. ASSUME Keeps, NEW w \in Values, kind[w] # "bad", fate[w] = "queued",
                   w # e
            PROVE  \E i \in 1..Len(queue') : queue'[i] = w
        <4>1. PICK i \in 1..Len(queue) : queue[i] = w
          BY <3>2 DEF IInv, CompleteInv
        <4>2. i # 1
          BY <3>2, <4>1
        <4>3. i - 1 \in 1..Len(queue') /\ queue'[i - 1] = queue[(i - 1) + 1]
          BY <4>1, <4>2, HeadFacts
        <4>4. QED
          BY <4>1, <4>3
      <3>3. ASSUME Keeps, kind[e] # "bad"
            PROVE  fate'[e] = "handed"
        <4>1. fate[e] = "handed" \/ Passes(e)
          BY <2>1, <2>3, <3>3 DEF IInv, CompleteInv, Passes
        <4>2. QED
          BY <2>1, <2>4, <3>3, <4>1
      <3>4. ASSUME Keeps, NEW w \in Values, kind[w] # "bad"
            PROVE  \/ fate'[w] \in {"unsent", "port", "handed"}
                   \/ /\ fate'[w] = "queued"
                      /\ \E i \in 1..Len(queue') : queue'[i] = w
                      /\ kind[w] = "handle" => w \in undelivered'
        <4>1. CASE w = e
          BY <3>3, <3>4, <4>1
        <4>2. CASE w # e
          BY <2>2, <2>4, <3>2, <3>4, <4>2 DEF IInv, CompleteInv
        <4>3. QED
          BY <4>1, <4>2
      <3>5. QED
        BY <1>1, <2>2, <3>1, <3>4 DEF IInv, CompleteInv, config
    <2>9. QED
      BY <2>5, <2>6, <2>7, <2>8 DEF IInv
  <1>4. QED
    BY <1>2, <1>3

LEMMA SubscriptionKeeps ==
  ASSUME IInv, Listen \/ Pause \/ Resume
  PROVE  IInv'
  <1>1. UNCHANGED <<config, producer, events, portOpen, ctlClosed, queue,
                    undelivered, closed, sent, kind, fate>>
    BY DEF Listen, Pause, Resume
  <1>2. /\ sub' \in {"none", "active", "cancelled", "ended"}
        /\ paused' \in BOOLEAN
        /\ sub' = "ended" <=> sub = "ended"
        /\ sub' = "cancelled" <=> sub = "cancelled"
    BY DEF Listen, Pause, Resume, IInv, TypeOK
  <1>3. TypeOK'
    BY <1>1, <1>2 DEF IInv, TypeOK, config
  <1>4. ValueInv' /\ EventInv' /\ QueueInv' /\ OrphanInv'
    BY <1>1 DEF IInv, ValueInv, EventInv, QueueInv, OrphanInv, config
  <1>5. CompleteInv'
    BY <1>1, <1>2 DEF IInv, CompleteInv, Keeps, config
  <1>6. QED
    BY <1>3, <1>4, <1>5 DEF IInv

LEMMA CancelKeeps ==
  ASSUME IInv, Cancel
  PROVE  IInv'
  <1>1. /\ sub' = "cancelled" /\ queue' = <<>>
        /\ UNCHANGED <<config, producer, events, portOpen, ctlClosed, paused,
                       undelivered, closed, sent, kind>>
    BY DEF Cancel
  <1>2. /\ fate' \in [Values -> Fates]
        /\ \A v \in Values :
             fate'[v] = IF fate[v] = "queued" /\ v \notin undelivered
                          THEN "released" ELSE fate[v]
    BY DEF Cancel, IInv, TypeOK, Fates
  <1>3. queue' \in Seq(Values \cup {Done}) /\ Len(queue') = 0
    BY <1>1, Emptied
  <1>4. TypeOK'
    BY <1>1, <1>2, <1>3 DEF IInv, TypeOK, Fates, config
  <1>5. ValueInv' /\ OrphanInv' /\ EventInv'
    BY <1>1, <1>2 DEF IInv, ValueInv, OrphanInv, EventInv, config
  <1>6. QueueInv'
    BY <1>1, <1>2, <1>3 DEF IInv, TypeOK, QueueInv
  <1>7. CompleteInv'
    BY <1>1 DEF IInv, CompleteInv, Keeps, config
  <1>8. QED
    BY <1>4, <1>5, <1>6, <1>7 DEF IInv

LEMMA CloseKeeps ==
  ASSUME IInv, Close
  PROVE  IInv'
  <1>1. /\ ~background /\ producer /\ closed' = TRUE /\ producer' = FALSE
        /\ UNCHANGED <<config, sub, paused, sent, kind, portOpen>>
        /\ undelivered' = {} /\ fate' = Drained
        /\ CloseController
        /\ events' = Append(events, CloseTimer)
    BY DEF Close, DrainAndClose, IInv, TypeOK, ValueInv
  <1>2. /\ queue' \in Seq(Values \cup {Done})
        /\ QueueInv' /\ OrphanInv' /\ ctlClosed' = TRUE
        /\ sub = "ended" => queue' = queue
    BY <1>1, ControllerCloses
  <1>3. /\ events' \in Seq(Values \cup {Sentinel, CloseTimer})
        /\ Len(events) \in Nat /\ Len(events') = Len(events) + 1
        /\ \A i \in 1..Len(events) : events'[i] = events[i]
        /\ events'[Len(events) + 1] = CloseTimer
    BY <1>1, Appended DEF IInv, TypeOK
  <1>4. \A i \in 1..Len(events) : events[i] \in Values
    BY <1>1 DEF IInv, EventInv
  <1>5. fate' \in [Values -> Fates]
        /\ \A v \in Values : /\ fate'[v] = "port" <=> fate[v] = "port"
                             /\ fate'[v] = "unsent" <=> fate[v] = "unsent"
    BY <1>1, DrainFacts
  <1>6. TypeOK'
    BY <1>1, <1>2, <1>3, <1>5 DEF IInv, TypeOK, Fates, config
  <1>7. ValueInv'
    BY <1>1, <1>5 DEF IInv, ValueInv, config
  <1>8. EventInv'
    <2>1. \A i \in 1..Len(events') :
            events'[i] \in Values => fate'[events'[i]] = "port"
      <3>1. \A i \in 1..Len(events) : fate[events[i]] = "port"
        BY <1>4 DEF IInv, EventInv
      <3>2. \A i \in 1..Len(events) : fate'[events'[i]] = "port"
        BY <1>3, <1>4, <1>5, <3>1
      <3>3. QED
        BY <1>3, <3>2, Codes
    <2>2. \A i \in 1..Len(events') :
            events'[i] \notin Values => i = Len(events') /\ ~producer'
      BY <1>1, <1>3, <1>4
    <2>3. \A i, j \in 1..Len(events') : events'[i] = events'[j] => i = j
      BY <1>3, <1>4, Codes DEF IInv, EventInv
    <2>4. ASSUME NEW v \in Values, fate'[v] = "port"
          PROVE  \E i \in 1..Len(events') : events'[i] = v
      BY <1>3, <1>5, <2>4 DEF IInv, EventInv
    <2>5. QED
      BY <2>1, <2>2, <2>3, <2>4 DEF EventInv
  <1>9. CompleteInv'
    BY <1>1, <1>2 DEF IInv, CompleteInv, Keeps, config
  <1>10. QED
    BY <1>2, <1>6, <1>7, <1>8, <1>9 DEF IInv

-----------------------------------------------------------------------------
(* Every step keeps the invariant.                                         *)
LEMMA NextIInv == IInv /\ [Next]_vars => IInv'
  <1> SUFFICES ASSUME IInv, [Next]_vars PROVE IInv'
    OBVIOUS
  <1>1. CASE \E k \in Kinds : Post(k)
    BY <1>1, PostKeeps
  <1>2. CASE DropClosure
    BY <1>2, DropKeeps
  <1>3. CASE TakeEvent
    BY <1>3, SentinelKeeps, CloseTimerKeeps, UndecodableKeeps, LateKeeps,
       ValueKeeps
    DEF TakeEvent
  <1>4. CASE Deliver
    BY <1>4, DeliverKeeps
  <1>5. CASE App
    BY <1>5, SubscriptionKeeps, CancelKeeps, CloseKeeps DEF App
  <1>6. CASE UNCHANGED vars
    BY <1>6
    DEF IInv, TypeOK, ValueInv, EventInv, QueueInv, OrphanInv, CompleteInv,
        Keeps, vars, config, ctlVars
  <1>7. QED
    BY <1>1, <1>2, <1>3, <1>4, <1>5, <1>6 DEF Next

LEMMA Invariance == Spec => []IInv
  BY InitIInv, NextIInv, PTL DEF Spec

-----------------------------------------------------------------------------
(* What is settled stays so.                                               *)

Settled(v) == fate[v] \in {"handed", "released", "orphaned"}

LEMMA TakingSettles ==
  ASSUME IInv, TakeEvent, NEW v \in Values, Settled(v)
  PROVE  fate'[v] = fate[v]
  <1>1. CASE TakeSentinel
    <2>1. /\ NextEvent(Sentinel)
          /\ ClosePort(fate) \/ ClosePort(Drained)
      BY <1>1 DEF TakeSentinel, DrainsAtSentinel
    <2>2. fate' = fate \/ fate' = Drained
      BY <2>1, PortCloses
    <2>3. QED
      BY <2>2, DrainFacts DEF Settled
  <1>2. CASE TakeCloseTimer
    BY <1>2, PortCloses DEF TakeCloseTimer
  <1>3. ASSUME NEW w \in Values,
               TakeUndecodable(w) \/ TakeLate(w) \/ TakeValue(w)
        PROVE  fate'[v] = fate[v]
    <2>1. /\ NextEvent(w) /\ events' = Tail(events)
          /\ \E f : fate' = [fate EXCEPT ![w] = f]
      BY <1>3 DEF TakeUndecodable, TakeLate, TakeValue
    <2>2. w # v
      BY <2>1, TakenFacts DEF Settled
    <2>3. QED
      BY <2>1, <2>2 DEF IInv, TypeOK
  <1>4. QED
    BY <1>1, <1>2, <1>3 DEF TakeEvent

\* What the controller still delivers was not settled: its handle is tracked,
\* or it has none.
LEMMA DeliverySettles ==
  ASSUME IInv, Deliver, NEW v \in Values, Settled(v)
  PROVE  fate'[v] = fate[v]
  <1> DEFINE e == queue[1]
  <1>1. \/ fate' = fate
        \/ /\ e # Done /\ kind[e] # "bad" /\ Passes(e)
           /\ fate' = [fate EXCEPT ![e] = "handed"]
    BY HeadFacts DEF Deliver
  <1>2. ASSUME e # Done, kind[e] # "bad", Passes(e)
        PROVE  fate[e] = "queued"
    <2>1. e \in Values
      BY <1>2, HeadFacts
    <2>2. kind[e] = "bare" => fate[e] = "queued"
      BY <2>1, HeadFacts DEF IInv, QueueInv
    <2>3. kind[e] = "handle" => fate[e] = "queued"
      BY <1>2 DEF IInv, QueueInv, Passes
    <2>4. kind[e] \in {"handle", "bare", "bad"}
      BY <2>1 DEF IInv, TypeOK
    <2>5. QED
      BY <1>2, <2>2, <2>3, <2>4
  <1>3. QED
    BY <1>1, <1>2 DEF IInv, TypeOK, Settled

LEMMA StepSettles ==
  ASSUME IInv, [Next]_vars, NEW v \in Values, Settled(v)
  PROVE  fate'[v] = fate[v]
  <1>1. ASSUME NEW k \in Kinds, Post(k) PROVE fate'[v] = fate[v]
    <2>1. fate[v] # "unsent" /\ v # sent + 1
      BY PushCarrierAssumption DEF Settled, IInv, TypeOK, ValueInv, Values
    <2>2. QED
      BY <1>1, <2>1 DEF Post, IInv, TypeOK
  <1>2. CASE DropClosure
    BY <1>2 DEF DropClosure
  <1>3. CASE TakeEvent
    BY <1>3, TakingSettles
  <1>4. CASE Deliver
    BY <1>4, DeliverySettles
  <1>5. CASE Listen \/ Pause \/ Resume
    BY <1>5 DEF Listen, Pause, Resume
  <1>6. CASE Cancel
    BY <1>6 DEF Cancel, Settled
  <1>7. CASE Close
    BY <1>7, DrainFacts DEF Close, DrainAndClose, Settled
  <1>8. CASE UNCHANGED vars
    BY <1>8 DEF vars
  <1>9. QED
    BY <1>1, <1>2, <1>3, <1>4, <1>5, <1>6, <1>7, <1>8 DEF Next, App

-----------------------------------------------------------------------------
(* The theorems.                                                           *)

(* The state of a carrier is what PushCarrier declares it to be.           *)
THEOREM TypeCorrect == Spec => []TypeOK
  BY Invariance, PTL DEF IInv

(* close(), the sentinel and a cancelled subscription leave no handle in   *)
(* the event queue or in the controller: only an undecodable value loses   *)
(* its own.                                                                *)
THEOREM NoneLeftBehind == Spec => []OnlyUndecodableOrphaned
  <1>1. IInv => OnlyUndecodableOrphaned
    BY DEF IInv, OrphanInv, OnlyUndecodableOrphaned
  <1>2. QED
    BY <1>1, Invariance, PTL

(* A background carrier, or a reply carrier that retains nothing, ends its *)
(* stream only after its listener was given every decodable value, however *)
(* late it listened and however often it paused.                           *)
THEOREM BackgroundIsComplete == Spec => []CompleteBeforeDone
  <1>1. ASSUME IInv, sub = "ended", background, column = "reply" => ~retain,
               NEW v \in 1..sent, kind[v] # "bad"
        PROVE  fate[v] = "handed"
    <2>1. v \in Values /\ ~(v > sent)
      BY <1>1, PushCarrierAssumption DEF IInv, TypeOK, Values
    <2>2. fate[v] # "unsent"
      BY <1>1, <2>1 DEF IInv, ValueInv
    <2>3. events = <<>> /\ queue = <<>>
      BY <1>1 DEF IInv, CompleteInv
    <2>4. Len(events) = 0 /\ Len(queue) = 0
      BY <2>3, Emptied
    <2>5. fate[v] # "port"
      BY <1>1, <2>1, <2>4 DEF IInv, EventInv
    <2>6. Keeps
      BY <1>1 DEF Keeps
    <2>7. QED
      BY <1>1, <2>1, <2>2, <2>4, <2>5, <2>6 DEF IInv, CompleteInv
  <1>2. IInv => CompleteBeforeDone
    BY <1>1 DEF CompleteBeforeDone
  <1>3. QED
    BY <1>2, Invariance, PTL

(* A handle the application was given is never released by the carrier, and *)
(* one the carrier released is never given to it.                           *)
THEOREM SettledForGood == Spec => SettledStays
  <1>1. IInv /\ [Next]_vars =>
          [\A v \in Values :
             fate[v] \in {"handed", "released", "orphaned"} =>
               fate'[v] = fate[v]]_vars
    BY StepSettles DEF Settled
  <1>2. QED
    BY <1>1, Invariance, PTL DEF Spec, SettledStays

-----------------------------------------------------------------------------
(* That a carrier ends.                                                    *)

EndPosted == events # <<>> /\ events[Len(events)] \notin Values

EndQueued == queue # <<>> /\ queue[Len(queue)] = Done

\* From zenoh's letting go until it closes, the port holds the message that
\* closes it: the sentinel of a background carrier, else the timer.
PortEndInv ==
  /\ ~portOpen => ~producer /\ events = <<>> /\ ctlClosed
  /\ ~producer /\ portOpen => EndPosted
  /\ \A i \in 1..Len(events) : events[i] = Sentinel => background
  /\ \A i \in 1..Len(events) : events[i] = CloseTimer => ~background

\* A carrier that was closed tracks no handle any more; nor does a reply carrier
\* at its end.  What a listener has still to get ends with Done.
ControllerEndInv ==
  /\ ~background /\ ~producer => ctlClosed /\ undelivered = {}
  /\ column = "reply" /\ ctlClosed => undelivered = {}
  /\ ctlClosed /\ sub \in {"none", "active"} => EndQueued

EndInv == PortEndInv /\ ControllerEndInv

\* What is left of a carrier zenoh has let go of.
PortGoes ==
  ~producer =>
    IF portOpen THEN EndPosted
    ELSE /\ \A v \in 1..sent : fate[v] # "port"
         /\ \A v \in undelivered :
              /\ background /\ column # "reply"
              /\ sub = "cancelled" \/ InController(v)

\* What its listener is told.
EndIsComing ==
  ~producer /\ sub = "active" =>
    \/ EndQueued
    \/ events # <<>> /\ events[Len(events)] = Sentinel

\* A message is added to the port: everything before it stays where it was.
LEMMA EventAdded ==
  ASSUME IInv, NEW m \in Values \cup {Sentinel, CloseTimer},
         events' = Append(events, m)
  PROVE  /\ events' # <<>> /\ events'[Len(events')] = m
         /\ \A i \in 1..Len(events') :
              events'[i] = m \/ (i \in 1..Len(events) /\ events'[i] = events[i])
  <1>1. /\ Len(events) \in Nat /\ Len(events') = Len(events) + 1
        /\ \A i \in 1..Len(events) : events'[i] = events[i]
        /\ events'[Len(events) + 1] = m
    BY Appended DEF IInv, TypeOK
  <1>2. events' # <<>>
    BY <1>1, Emptied
  <1>3. QED
    BY <1>1, <1>2

\* A value is taken from the port: the message that ends it stays the last.
LEMMA ValueTaken ==
  ASSUME IInv, PortEndInv, NEW v \in Values, NextEvent(v), events' = Tail(events),
         UNCHANGED <<portOpen, ctlClosed>>
  PROVE  PortEndInv'
  <1>1. \A i \in 1..Len(events') :
          i + 1 \in 1..Len(events) /\ events'[i] = events[i + 1]
    BY TakenFacts
  <1>2. UNCHANGED <<background, producer>>
    BY DEF NextEvent, config
  <1>3. ASSUME EndPosted PROVE EndPosted'
    <2>1. /\ Len(events) # 1
          /\ Len(events) \in Nat \ {0} /\ Len(events') = Len(events) - 1
      BY <1>3, TakenFacts DEF EndPosted
    <2>2. /\ Len(events') \in 1..Len(events') /\ Len(events') + 1 = Len(events)
          /\ 1 \in 1..Len(events')
      BY <2>1
    <2>3. events'[Len(events')] = events[Len(events)]
      BY <1>1, <2>2
    <2>4. events' # <<>>
      BY <2>2, NotEmpty
    <2>5. QED
      BY <1>3, <2>3, <2>4 DEF EndPosted
  <1>4. portOpen
    BY DEF PortEndInv, NextEvent
  <1>5. QED
    BY <1>1, <1>2, <1>3, <1>4 DEF PortEndInv

LEMMA PortEndStep ==
  ASSUME IInv, EndInv, Next
  PROVE  PortEndInv'
  <1> USE DEF EndInv
  <1>1. ASSUME NEW k \in Kinds, Post(k)
        PROVE  PortEndInv'
    <2>1. sent + 1 \in Values /\ portOpen /\ producer
      BY <1>1, PushCarrierAssumption DEF Post, Values, IInv, TypeOK, ValueInv
    <2>2. /\ events' = Append(events, sent + 1)
          /\ UNCHANGED <<background, producer, portOpen, ctlClosed>>
      BY <1>1, <2>1 DEF Post, config, ctlVars
    <2>3. QED
      BY <2>1, <2>2, EventAdded, Codes DEF PortEndInv
  <1>2. CASE DropClosure
    <2>1. /\ portOpen /\ background /\ events' = Append(events, Sentinel)
          /\ UNCHANGED <<background, portOpen>>
      BY <1>2 DEF DropClosure, config, IInv, ValueInv
    <2>2. Sentinel # CloseTimer
      BY PushCarrierAssumption DEF Sentinel, CloseTimer
    <2>3. QED
      BY <2>1, <2>2, EventAdded, Codes DEF PortEndInv, EndPosted
  <1>3. CASE TakeSentinel \/ TakeCloseTimer
    <2>1. /\ events' = <<>> /\ portOpen' = FALSE /\ Len(events') = 0
          /\ UNCHANGED <<producer>>
      BY <1>3, Emptied DEF TakeSentinel, TakeCloseTimer, ClosePort, NextEvent
    <2>2. ~producer
      BY <1>3, EndIsLast DEF TakeSentinel, TakeCloseTimer
    <2>3. ctlClosed'
      <3>1. CASE TakeSentinel
        BY <3>1 DEF TakeSentinel, CloseController
      <3>2. CASE TakeCloseTimer
        <4>1. 1 \in 1..Len(events) /\ events[1] = CloseTimer
          BY <3>2, Shortened DEF TakeCloseTimer, NextEvent, IInv, TypeOK
        <4>2. ~background /\ ctlClosed' = ctlClosed
          BY <3>2, <4>1 DEF TakeCloseTimer, PortEndInv
        <4>3. portOpen => ctlClosed
          BY <2>2, <4>2 DEF ControllerEndInv
        <4>4. QED
          BY <4>2, <4>3 DEF PortEndInv, IInv, TypeOK
      <3>3. QED
        BY <1>3, <3>1, <3>2
    <2>4. QED
      BY <2>1, <2>2, <2>3 DEF PortEndInv
  <1>4. ASSUME NEW v \in Values, TakeUndecodable(v) \/ TakeLate(v) \/ TakeValue(v)
        PROVE  PortEndInv'
    BY <1>4, ValueTaken DEF TakeUndecodable, TakeLate, TakeValue
  <1>5. CASE Deliver \/ Listen \/ Pause \/ Resume \/ Cancel
    BY <1>5 DEF Deliver, Listen, Pause, Resume, Cancel, PortEndInv, EndPosted, config
  <1>6. CASE Close
    <2>1. /\ portOpen /\ ~background /\ events' = Append(events, CloseTimer)
          /\ UNCHANGED <<background, portOpen>>
      BY <1>6 DEF Close, DrainAndClose, config, IInv, TypeOK, ValueInv
    <2>2. Sentinel # CloseTimer
      BY PushCarrierAssumption DEF Sentinel, CloseTimer
    <2>3. QED
      BY <2>1, <2>2, EventAdded, Codes DEF PortEndInv, EndPosted
  <1>7. QED
    BY <1>1, <1>2, <1>3, <1>4, <1>5, <1>6 DEF Next, TakeEvent, App

\* The controller is closed: what it holds ends with Done.
LEMMA EndAdded ==
  ASSUME IInv, ControllerEndInv, CloseController, sub' = sub
  PROVE  ctlClosed' /\ (sub \in {"none", "active"} => EndQueued')
  <1>1. ctlClosed'
    BY DEF CloseController
  <1>2. CASE ctlClosed
    BY <1>1, <1>2 DEF CloseController, ControllerEndInv, EndQueued
  <1>3. CASE ~ctlClosed /\ sub \in {"none", "active"}
    <2>1. queue' = Append(queue, Done)
      BY <1>3 DEF CloseController, Added
    <2>2. /\ Len(queue') = Len(queue) + 1 /\ Len(queue) \in Nat
          /\ queue'[Len(queue) + 1] = Done
      BY <2>1, Appended DEF IInv, TypeOK
    <2>3. queue' # <<>>
      BY <2>2, Emptied
    <2>4. QED
      BY <1>1, <2>2, <2>3 DEF EndQueued
  <1>4. QED
    BY <1>1, <1>2, <1>3

LEMMA ControllerEndStep ==
  ASSUME IInv, EndInv, Next
  PROVE  ControllerEndInv'
  <1> USE DEF EndInv
  <1>1. CASE \E k \in Kinds : Post(k)
    BY <1>1 DEF Post, ControllerEndInv, EndQueued, config, ctlVars
  <1>2. CASE DropClosure
    BY <1>2 DEF DropClosure, ControllerEndInv, EndQueued, config, ctlVars
  <1>3. CASE TakeSentinel
    <2>1. UNCHANGED <<column, background, producer, sub>> /\ CloseController
      BY <1>3 DEF TakeSentinel, NextEvent, config
    <2>2. undelivered' = IF column = "reply" THEN {} ELSE undelivered
      BY <1>3 DEF TakeSentinel, DrainsAtSentinel
    <2>3. QED
      BY <2>1, <2>2, EndAdded DEF ControllerEndInv
  <1>4. CASE TakeCloseTimer
    BY <1>4 DEF TakeCloseTimer, NextEvent, ControllerEndInv, EndQueued, config
  <1>5. ASSUME NEW v \in Values, TakeUndecodable(v) \/ TakeLate(v) \/ TakeValue(v)
        PROVE  ControllerEndInv'
    <2>1. UNCHANGED <<column, background, producer, sub, ctlClosed>>
      BY <1>5 DEF TakeUndecodable, TakeLate, TakeValue, NextEvent, config
    <2>2. CASE ctlClosed
      <3>1. UNCHANGED <<undelivered, queue>>
        BY <1>5, <2>2 DEF TakeUndecodable, TakeLate, TakeValue
      <3>2. QED
        BY <2>1, <3>1 DEF ControllerEndInv, EndQueued
    <2>3. CASE ~ctlClosed
      BY <2>1, <2>3 DEF ControllerEndInv
    <2>4. QED
      BY <2>2, <2>3
  <1>6. CASE Deliver
    <2>1. /\ UNCHANGED <<column, background, producer, ctlClosed>>
          /\ sub = "active" /\ undelivered' \subseteq undelivered
      BY <1>6 DEF Deliver, Delivering, config
    <2>2. CASE queue[1] = Done
      <3>1. sub' = "ended"
        BY <1>6, <2>2, HeadFacts DEF Deliver
      <3>2. QED
        BY <2>1, <3>1 DEF ControllerEndInv
    <2>3. CASE queue[1] # Done
      <3>1. ASSUME ctlClosed PROVE EndQueued'
        <4>1. queue[Len(queue)] = Done /\ Len(queue) # 1
          BY <2>1, <2>3, <3>1 DEF ControllerEndInv, EndQueued
        <4>2. Len(queue') \in 1..Len(queue') /\ Len(queue') + 1 = Len(queue)
          BY <1>6, <4>1, HeadFacts
        <4>3. queue'[Len(queue')] = Done
          BY <1>6, <4>1, <4>2, HeadFacts
        <4>4. queue' # <<>>
          BY <4>2, Emptied
        <4>5. QED
          BY <4>3, <4>4 DEF EndQueued
      <3>2. QED
        BY <2>1, <3>1 DEF ControllerEndInv
    <2>4. QED
      BY <2>2, <2>3
  <1>7. CASE Listen \/ Pause \/ Resume \/ Cancel
    BY <1>7 DEF Listen, Pause, Resume, Cancel, ControllerEndInv, EndQueued, config
  <1>8. CASE Close
    <2>1. /\ CloseController /\ undelivered' = {}
          /\ UNCHANGED <<column, background, sub>>
      BY <1>8 DEF Close, DrainAndClose, config
    <2>2. QED
      BY <2>1, EndAdded DEF ControllerEndInv
  <1>9. QED
    BY <1>1, <1>2, <1>3, <1>4, <1>5, <1>6, <1>7, <1>8 DEF Next, TakeEvent, App

LEMMA EndAlways == Spec => [](IInv /\ EndInv)
  <1>1. Init => EndInv
    BY Emptied DEF Init, EndInv, PortEndInv, ControllerEndInv
  <1>2. ASSUME IInv, EndInv, [Next]_vars
        PROVE  EndInv'
    <2>1. CASE Next
      BY <1>2, <2>1, PortEndStep, ControllerEndStep DEF EndInv
    <2>2. CASE UNCHANGED vars
      BY <1>2, <2>2 DEF vars, config, ctlVars, EndInv, PortEndInv, ControllerEndInv,
                        EndPosted, EndQueued
    <2>3. QED
      BY <1>2, <2>1, <2>2
  <1>3. QED
    BY <1>1, <1>2, Invariance, PTL DEF Spec

(* Once zenoh has let go of a carrier, its port is closed and nothing was   *)
(* left in it, or the last message in it is the one that closes it.  With   *)
(* the port closed a carrier that was closed, or whose query ended, tracks  *)
(* no handle; a background subscriber or queryable tracks only handles that *)
(* its controller holds for the listener, unless the listener cancelled.    *)
THEOREM PortIsGivenUp == Spec => []PortGoes
  <1>1. ASSUME IInv, EndInv, ~producer, ~portOpen
        PROVE  /\ \A v \in 1..sent : fate[v] # "port"
               /\ \A v \in undelivered :
                    /\ background /\ column # "reply"
                    /\ sub = "cancelled" \/ InController(v)
    <2>1. Len(events) = 0 /\ ctlClosed
      BY <1>1, Emptied DEF EndInv, PortEndInv
    <2>2. \A v \in Values : fate[v] # "port"
      BY <1>1, <2>1 DEF IInv, EventInv
    <2>3. 1..sent \subseteq Values
      BY <1>1, PushCarrierAssumption DEF IInv, TypeOK, Values
    <2>4. ASSUME NEW v \in undelivered
          PROVE  /\ background /\ column # "reply"
                 /\ sub = "cancelled" \/ InController(v)
      <3>1. background /\ column # "reply"
        BY <1>1, <2>1 DEF EndInv, ControllerEndInv
      <3>2. v \in Values /\ fate[v] = "queued" /\ kind[v] = "handle"
        BY <1>1 DEF IInv, TypeOK, QueueInv
      <3>3. ASSUME sub # "cancelled" PROVE InController(v)
        <4>1. Keeps
          BY <3>1, <3>3 DEF Keeps
        <4>2. QED
          BY <1>1, <3>2, <4>1 DEF IInv, CompleteInv, InController
      <3>4. QED
        BY <3>1, <3>3
    <2>5. QED
      BY <2>2, <2>3, <2>4
  <1>2. IInv /\ EndInv => PortGoes
    BY <1>1 DEF EndInv, PortEndInv, PortGoes
  <1>3. QED
    BY <1>2, EndAlways, PTL

(* A listener of a carrier that zenoh has let go of has the end of its      *)
(* stream in the controller, or the sentinel that puts it there is on its   *)
(* way.                                                                     *)
THEOREM EndReachesListener == Spec => []EndIsComing
  <1>1. ASSUME IInv, EndInv, ~producer, sub = "active"
        PROVE  EndQueued \/ (events # <<>> /\ events[Len(events)] = Sentinel)
    <2>1. CASE ctlClosed
      BY <1>1, <2>1 DEF EndInv, ControllerEndInv
    <2>2. CASE ~ctlClosed
      <3>1. background /\ EndPosted
        BY <1>1, <2>2 DEF EndInv, ControllerEndInv, PortEndInv
      <3>2. /\ Len(events) \in 1..Len(events)
            /\ events[Len(events)] \in Values \cup {Sentinel, CloseTimer}
        <4>1. Len(events) \in Nat \ {0}
          BY <1>1, <3>1, Shortened DEF IInv, TypeOK, EndPosted
        <4>2. QED
          BY <1>1, <4>1 DEF IInv, TypeOK
      <3>3. events[Len(events)] # CloseTimer
        BY <1>1, <3>1, <3>2 DEF EndInv, PortEndInv
      <3>4. QED
        BY <3>1, <3>2, <3>3 DEF EndPosted
    <2>3. QED
      BY <2>1, <2>2
  <1>2. IInv /\ EndInv => EndIsComing
    BY <1>1 DEF EndIsComing
  <1>3. QED
    BY <1>2, EndAlways, PTL

=============================================================================
