----------------------------- MODULE PullChannel -----------------------------
(***************************************************************************)
(* A pull handle of zenoh_dart: the bounded native channel, the readiness  *)
(* tee interposed in front of it, the Dart receive port, and the handle's  *)
(* tryRecv / recv / close.                                                 *)
(*                                                                         *)
(*   deliverer threads --tee_on_call--> channel --tryRecv--> Dart isolate  *)
(*                     \--ping if armed--> port --_onWake--> Dart isolate  *)
(*                                                                         *)
(* The native steps (push, compare-exchange, post, the three steps of the  *)
(* closure's drop) interleave with each other and with the FFI calls of    *)
(* the one Dart thread.  A Dart method runs to its end before the isolate  *)
(* takes another port message: pc names the FFI call it is about to make,  *)
(* and pc = "idle" is the event loop.                                      *)
(*                                                                         *)
(* The zenoh-c channel, closure drop and undeclare are external: they are  *)
(* modelled from how zenoh_dart.c uses them and what its comments measured.*)
(* A value is named by its rank among the values the channel accepted.     *)
(***************************************************************************)
EXTENDS Naturals, Sequences, FiniteSets

CONSTANTS
  Capacity,    (* the bound the application declared the channel with      *)
  Deliverers,  (* zenoh threads that may execute the tee's call            *)
  FaultSites,  (* the looks at which the shim's allocation may fail        *)
  SessionFirst,(* the kinds whose session the application may close first  *)
  MaxSent      (* bound: values accepted by the channel                    *)

Sites == {"tryRecv", "recv", "recvAgain", "wake", "wakeAgain"}

\* A fifo of capacity 0 is a rendezvous that recv() documents as unusable.
ASSUME PullChannelAssumption ==
  /\ Capacity \in Nat \ {0}
  /\ FaultSites \subseteq Sites
  /\ SessionFirst \subseteq {"ring", "fifo"}
  /\ MaxSent \in Nat

VARIABLES
  kind,         (* "ring" or "fifo": ChannelKind of the handle             *)
  column,       (* "entity": subscriber or queryable, undeclared by close()*)
                (* "reply": canon drops the closure when the query is done *)
  chan,         (* values buffered in the native channel, oldest first     *)
  sent,         (* how many values the channel has accepted                *)
  handlerAlive, (* the receiving end has not been dropped                  *)
  closure,      (* life of the tee closure canon owns, see ClosureStage    *)
  deliverer,    (* what each delivering thread is doing inside the tee     *)
  armed,        (* head->armed                                             *)
  refs,         (* head->refcount                                          *)
  freed,        (* how many times free(head) has run                       *)
  port,         (* messages queued for the isolate                         *)
  portOpen,     (* the ReceivePort is open                                 *)
  pc,           (* what the isolate is doing                               *)
  pending,      (* _pending # null                                         *)
  waiting,      (* history: the application holds an uncompleted future    *)
  out           (* the last result handed to the application               *)

config   == <<kind, column>>  \* chosen when the handle is declared
teeVars  == <<armed, refs, freed>>
chanVars == <<chan, sent, handlerAlive>>
portVars == <<port, portOpen>>
dartVars == <<pc, pending, waiting, out>>
vars == <<config, chanVars, closure, deliverer, teeVars, portVars, dartVars>>

-----------------------------------------------------------------------------
ClosureStage ==
  {"building",  \* handed to the declare call, which has not returned
   "live",      \* canon may deliver through it
   "dropping",  \* canon will start no new delivery
   "innerGone", \* canon's own closure dropped: the channel is disconnected
   "signalled", \* the sentinel has been posted
   "gone"}      \* the closure's reference to the tee has been released

TeardownPC == {"handler", "undeclare", "tee", "port", "closed",
               "refused", "refusedHandler"}

Data(v)      == [kind |-> "data", val |-> v]
Empty        == [kind |-> "empty", val |-> 0]
Disconnected == [kind |-> "disconnected", val |-> 0]
Fault        == [kind |-> "fault", val |-> 0]
Contended    == [kind |-> "contended", val |-> 0]
Nothing      == [kind |-> "none", val |-> 0]

ProducerAlive == closure \in {"building", "live", "dropping"}

\* The Dart handle gives its tee reference back at zd_pull_tee_drop.
DartHoldsTee == pc \notin {"port", "closed", "refusedHandler"}

\* Mutant: the undeclare before the handler drop, as close() once had it.
CloseNextUndeclareFirst ==
  [close |-> "undeclare", undeclare |-> "handler", handler |-> "tee",
   tee |-> "port", port |-> "closed"]

\* The order of the native releases in close(): the receiving end before the
\* undeclare, so that a delivery parked on a full fifo fails fast.
CloseNext ==
  IF column = "entity"
  THEN [close |-> "handler", handler |-> "undeclare", undeclare |-> "tee",
        tee |-> "port", port |-> "closed"]
  ELSE [close |-> "handler", handler |-> "tee",
        tee |-> "port", port |-> "closed"]

-----------------------------------------------------------------------------
(* Helpers shared by several handlers.                                     *)

\* Mutant: the first owner to let go frees the block.
TeeReleaseFreesFirst ==
  /\ refs' = refs - 1
  /\ freed' = IF refs = 2 THEN freed + 1 ELSE freed

\* Mutant: every owner frees the block.
TeeReleaseFreesTwice ==
  /\ refs' = refs - 1
  /\ freed' = freed + 1

\* atomic_fetch_sub(&refcount, 1) == 1 => free(head).
TeeRelease ==
  /\ refs' = refs - 1
  /\ freed' = IF refs = 1 THEN freed + 1 ELSE freed

\* A post to a closed port fails and is not retried.
Post(m) == port' = IF portOpen THEN Append(port, m) ELSE port

\* zd_pull_subscriber_try_recv: what one look may return and what it leaves in
\* the channel.  An allocation failure comes after the value was taken out.
Looks(site) ==
  IF chan = <<>>
  THEN {[res |-> IF ProducerAlive THEN Empty ELSE Disconnected,
         rest |-> <<>>]}
  ELSE {[res |-> r, rest |-> Tail(chan)] :
          r \in {Data(Head(chan))}
                  \cup (IF site \in FaultSites THEN {Fault} ELSE {})}

\* The waiter's future completes; an orphaned waiter completes into the void.
Complete(res) ==
  /\ pending' = FALSE
  /\ waiting' = FALSE
  /\ out' = IF waiting THEN res ELSE out

-----------------------------------------------------------------------------
(* The native side: deliveries through the tee.                            *)

\* canon starts a delivery on one of its threads.
Arrive(d) ==
  /\ closure = "live"
  /\ deliverer[d] = "idle"
  /\ sent + Cardinality({e \in Deliverers : deliverer[e] = "push"}) < MaxSent
  /\ deliverer' = [deliverer EXCEPT ![d] = "push"]
  /\ UNCHANGED <<config, chanVars, closure, teeVars, portVars, dartVars>>

\* Step (1) of the tee call, the inner closure: a ring makes room by dropping
\* its oldest value, a full fifo blocks, a dropped receiver refuses at once.
Push(d) ==
  /\ deliverer[d] = "push"
  /\ \/ /\ ~handlerAlive
        /\ UNCHANGED <<chan, sent>>
     \/ /\ handlerAlive
        /\ Len(chan) < Capacity
        /\ chan' = Append(chan, sent + 1)
        /\ sent' = sent + 1
     \/ /\ handlerAlive
        /\ kind = "ring"
        /\ Len(chan) = Capacity
        /\ chan' = Append(Tail(chan), sent + 1)
        /\ sent' = sent + 1
  /\ deliverer' = [deliverer EXCEPT ![d] = "ping"]
  /\ UNCHANGED <<config, handlerAlive, closure, teeVars, portVars, dartVars>>

\* Step (2): the compare-exchange on armed, 1 -> 0.  Only its winner posts.
PingIfArmed(d) ==
  /\ deliverer[d] = "ping"
  /\ IF armed = 1
     THEN /\ armed' = 0
          /\ deliverer' = [deliverer EXCEPT ![d] = "post"]
     ELSE /\ deliverer' = [deliverer EXCEPT ![d] = "idle"]
          /\ UNCHANGED armed
  /\ UNCHANGED <<config, chanVars, closure, refs, freed, portVars, dartVars>>

PostPing(d) ==
  /\ deliverer[d] = "post"
  /\ Post("ping")
  /\ deliverer' = [deliverer EXCEPT ![d] = "idle"]
  /\ UNCHANGED <<config, chanVars, closure, teeVars, portOpen, dartVars>>

(* The tee closure's drop.  canon runs it once no delivery is executing.   *)

\* canon ends a query by itself: answered, timed out, or its session gone.
QueryDone ==
  /\ column = "reply"
  /\ closure = "live"
  /\ closure' = "dropping"
  /\ UNCHANGED <<config, chanVars, deliverer, teeVars, portVars, dartVars>>

\* The inner closure's drop disconnects the channel.  A fifo keeps what it
\* buffered, a ring discards it.
DropInner ==
  /\ closure = "dropping"
  /\ \A d \in Deliverers : deliverer[d] = "idle"
  /\ closure' = "innerGone"
  /\ chan' = IF kind = "ring" THEN <<>> ELSE chan
  /\ UNCHANGED <<config, sent, handlerAlive, deliverer, teeVars, portVars,
                 dartVars>>

\* Mutant: the drop callback posts no sentinel.
PostSentinelForgotten ==
  /\ closure = "innerGone"
  /\ closure' = "signalled"
  /\ UNCHANGED <<config, chanVars, deliverer, teeVars, portVars, dartVars>>

PostSentinel ==
  /\ closure = "innerGone"
  /\ closure' = "signalled"
  /\ Post("sentinel")
  /\ UNCHANGED <<config, chanVars, deliverer, teeVars, portOpen, dartVars>>

ReleaseClosure ==
  /\ closure = "signalled"
  /\ closure' = "gone"
  /\ TeeRelease
  /\ UNCHANGED <<config, chanVars, deliverer, armed, portVars, dartVars>>

Native ==
  \/ \E d \in Deliverers : Arrive(d) \/ Push(d) \/ PingIfArmed(d) \/ PostPing(d)
  \/ QueryDone
  \/ DropInner
  \/ PostSentinel
  \/ ReleaseClosure

-----------------------------------------------------------------------------
(* The Dart side: declaring, consuming.                                    *)

DeclareAccepted ==
  /\ pc = "declaring"
  /\ closure' = "live"
  /\ pc' = "idle"
  /\ UNCHANGED <<config, chanVars, deliverer, teeVars, portVars, pending,
                 waiting, out>>

\* canon refuses: the closure it was handed is dropped, the shim gives back
\* the tee and the handler, the Dart side closes the port.
DeclareRefused ==
  /\ pc = "declaring"
  /\ closure' = "dropping"
  /\ pc' = "refused"
  /\ UNCHANGED <<config, chanVars, deliverer, teeVars, portVars, pending,
                 waiting, out>>

TryRecv ==
  /\ pc = "idle"
  /\ \E l \in Looks("tryRecv") : chan' = l.rest /\ out' = l.res
  /\ UNCHANGED <<config, sent, handlerAlive, closure, deliverer, teeVars,
                 portVars, pc, pending, waiting>>

\* recv() with a recv() already pending: a StateError.
RecvContended ==
  /\ pc = "idle"
  /\ pending
  /\ out' = Contended
  /\ UNCHANGED <<config, chanVars, closure, deliverer, teeVars, portVars, pc,
                 pending, waiting>>

\* recv()'s first look.  Anything but empty is the result.
RecvLook ==
  /\ pc = "idle"
  /\ ~pending
  /\ \E l \in Looks("recv") :
       /\ chan' = l.rest
       /\ \/ l.res = Empty /\ pc' = "register" /\ UNCHANGED out
          \/ l.res # Empty /\ out' = l.res /\ UNCHANGED pc
  /\ UNCHANGED <<config, sent, handlerAlive, closure, deliverer, teeVars,
                 portVars, pending, waiting>>

\* Register the waiter, then arm the tee.
RecvArm ==
  /\ pc = "register"
  /\ pending' = TRUE
  /\ armed' = 1
  /\ pc' = "lookAgain"
  /\ UNCHANGED <<config, chanVars, closure, deliverer, refs, freed, portVars,
                 waiting, out>>

\* Mutant: recv() registers and arms, and does not look again.
RecvNoSecondLook ==
  /\ pc = "lookAgain"
  /\ pc' = "idle"
  /\ waiting' = TRUE
  /\ UNCHANGED <<config, chanVars, closure, deliverer, teeVars, portVars,
                 pending, out>>

\* The second look.  A value or a disconnection is returned and the arming is
\* left behind; empty returns the future; a throw leaves _pending set.
RecvLookAgain ==
  /\ pc = "lookAgain"
  /\ pc' = "idle"
  /\ \E l \in Looks("recvAgain") :
       /\ chan' = l.rest
       /\ \/ l.res = Empty /\ waiting' = TRUE /\ UNCHANGED <<pending, out>>
          \/ l.res = Fault /\ out' = Fault /\ UNCHANGED <<pending, waiting>>
          \/ /\ l.res \notin {Empty, Fault}
             /\ pending' = FALSE
             /\ out' = l.res
             /\ UNCHANGED waiting
  /\ UNCHANGED <<config, sent, handlerAlive, closure, deliverer, teeVars,
                 portVars>>

\* _onWake with no waiter: a leftover wake, discarded.
WakeIgnored ==
  /\ pc = "idle"
  /\ port # <<>>
  /\ ~pending
  /\ port' = Tail(port)
  /\ UNCHANGED <<config, chanVars, closure, deliverer, teeVars, portOpen,
                 dartVars>>

\* Mutant: a wake completes the waiter with whatever the look returned.
WakeLookCompletesEmpty ==
  /\ pc = "idle"
  /\ port # <<>>
  /\ pending
  /\ port' = Tail(port)
  /\ \E l \in Looks("wake") : chan' = l.rest /\ Complete(l.res)
  /\ UNCHANGED <<config, sent, handlerAlive, closure, deliverer, teeVars,
                 portOpen, pc>>

\* _onWake's first look.  Empty on a ping means an interleaved tryRecv won.
WakeLook ==
  /\ pc = "idle"
  /\ port # <<>>
  /\ pending
  /\ port' = Tail(port)
  /\ \E l \in Looks("wake") :
       /\ chan' = l.rest
       /\ \/ l.res # Empty /\ Complete(l.res) /\ UNCHANGED pc
          \/ /\ l.res = Empty
             /\ Head(port) = "sentinel"
             /\ Complete(Disconnected)
             /\ UNCHANGED pc
          \/ /\ l.res = Empty
             /\ Head(port) = "ping"
             /\ pc' = "rearm"
             /\ UNCHANGED <<pending, waiting, out>>
  /\ UNCHANGED <<config, sent, handlerAlive, closure, deliverer, teeVars,
                 portOpen>>

\* Mutant: the waiter goes on waiting without a new arming.
WakeRearmForgotten ==
  /\ pc = "rearm"
  /\ pc' = "wakeAgain"
  /\ UNCHANGED <<config, chanVars, closure, deliverer, teeVars, portVars,
                 pending, waiting, out>>

WakeRearm ==
  /\ pc = "rearm"
  /\ armed' = 1
  /\ pc' = "wakeAgain"
  /\ UNCHANGED <<config, chanVars, closure, deliverer, refs, freed, portVars,
                 pending, waiting, out>>

WakeLookAgain ==
  /\ pc = "wakeAgain"
  /\ pc' = "idle"
  /\ \E l \in Looks("wakeAgain") :
       /\ chan' = l.rest
       /\ \/ l.res = Empty /\ UNCHANGED <<pending, waiting, out>>
          \/ l.res # Empty /\ Complete(l.res)
  /\ UNCHANGED <<config, sent, handlerAlive, closure, deliverer, teeVars,
                 portVars>>

-----------------------------------------------------------------------------
(* The Dart side: teardown.                                                *)

\* close() / dispose(): the waiter completes before any native release.
Close ==
  /\ pc = "idle"
  /\ pc' = CloseNext.close
  /\ IF pending THEN Complete(Disconnected)
                ELSE UNCHANGED <<pending, waiting, out>>
  /\ UNCHANGED <<config, chanVars, closure, deliverer, teeVars, portVars>>

\* Whatever the channel still buffers goes with its receiving end.
HandlerDrop ==
  /\ pc \in {"handler", "refusedHandler"}
  /\ handlerAlive' = FALSE
  /\ chan' = <<>>
  /\ pc' = IF pc = "handler" THEN CloseNext.handler ELSE "port"
  /\ UNCHANGED <<config, sent, closure, deliverer, teeVars, portVars, pending,
                 waiting, out>>

\* zd_subscriber_drop / zd_queryable_drop: no new delivery, then block until
\* the closure is destroyed.
UndeclareBegin ==
  /\ pc = "undeclare"
  /\ closure = "live"
  /\ closure' = "dropping"
  /\ UNCHANGED <<config, chanVars, deliverer, teeVars, portVars, dartVars>>

UndeclareReturn ==
  /\ pc = "undeclare"
  /\ closure = "gone"
  /\ pc' = CloseNext.undeclare
  /\ UNCHANGED <<config, chanVars, closure, deliverer, teeVars, portVars,
                 pending, waiting, out>>

\* zd_pull_tee_drop, from close() or from the shim's abandon path, which runs
\* after canon has dropped the closure it refused.
TeeDrop ==
  /\ pc = "tee" \/ (pc = "refused" /\ closure = "gone")
  /\ TeeRelease
  /\ pc' = IF pc = "tee" THEN CloseNext.tee ELSE "refusedHandler"
  /\ UNCHANGED <<config, chanVars, closure, deliverer, armed, portVars,
                 pending, waiting, out>>

PortClose ==
  /\ pc = "port"
  /\ portOpen' = FALSE
  /\ port' = <<>>
  /\ pc' = CloseNext.port
  /\ UNCHANGED <<config, chanVars, closure, deliverer, teeVars, pending,
                 waiting, out>>

\* Session.close() while the handle is open: canon drops every closure of the
\* session and waits for the deliveries that are executing.
SessionClose ==
  /\ kind \in SessionFirst
  /\ pc = "idle"
  /\ closure = "live"
  /\ closure' = "dropping"
  /\ pc' = "sessionClose"
  /\ UNCHANGED <<config, chanVars, deliverer, teeVars, portVars, pending,
                 waiting, out>>

SessionCloseReturn ==
  /\ pc = "sessionClose"
  /\ closure = "gone"
  /\ pc' = "idle"
  /\ UNCHANGED <<config, chanVars, closure, deliverer, teeVars, portVars,
                 pending, waiting, out>>

\* The handle is closed and canon has let go: nothing is left to do.
Finished ==
  /\ pc = "closed"
  /\ closure = "gone"
  /\ UNCHANGED vars

-----------------------------------------------------------------------------
Wake == WakeIgnored \/ WakeLook

\* The synchronous remainder of a Dart method that has started.
DartContinues ==
  \/ RecvArm \/ RecvLookAgain \/ WakeRearm \/ WakeLookAgain
  \/ HandlerDrop \/ UndeclareBegin \/ UndeclareReturn \/ TeeDrop \/ PortClose
  \/ SessionCloseReturn

\* What the application may or may not ask for.
Application ==
  \/ TryRecv \/ RecvContended \/ RecvLook \/ Close \/ SessionClose

Dart ==
  \/ DeclareAccepted \/ DeclareRefused
  \/ Application
  \/ Wake
  \/ DartContinues
  \/ Finished

Next == Native \/ Dart

Init ==
  /\ kind \in {"ring", "fifo"}
  /\ column \in {"entity", "reply"}
  /\ chan = <<>>
  /\ sent = 0
  /\ handlerAlive = TRUE
  /\ closure = "building"
  /\ deliverer = [d \in Deliverers |-> "idle"]
  /\ armed = 0
  /\ refs = 2
  /\ freed = 0
  /\ port = <<>>
  /\ portOpen = TRUE
  /\ pc = "declaring"
  /\ pending = FALSE
  /\ waiting = FALSE
  /\ out = Nothing

Spec == Init /\ [][Next]_vars

\* Threads inside the tee and canon's drop run on; a Dart method runs to its
\* end; an idle isolate takes its port messages.  Nothing is assumed of what
\* the application asks for, nor that another value ever arrives.
Fairness ==
  /\ \A d \in Deliverers : WF_vars(Push(d) \/ PingIfArmed(d) \/ PostPing(d))
  /\ WF_vars(DropInner \/ PostSentinel \/ ReleaseClosure)
  /\ WF_vars(DartContinues)
  /\ WF_vars(Wake)

FairSpec == Spec /\ Fairness

\* canon ends every query: a get() carries a timeout.
ReplySpec == FairSpec /\ WF_vars(QueryDone)

-----------------------------------------------------------------------------
(* Properties.                                                             *)

TypeOK ==
  /\ kind \in {"ring", "fifo"}
  /\ column \in {"entity", "reply"}
  /\ chan \in Seq(Nat \ {0})
  /\ Len(chan) <= Capacity
  /\ sent \in Nat
  /\ handlerAlive \in BOOLEAN
  /\ closure \in ClosureStage
  /\ deliverer \in [Deliverers -> {"idle", "push", "ping", "post"}]
  /\ armed \in {0, 1}
  /\ refs \in 0..2
  /\ freed \in {0, 1}
  /\ port \in Seq({"ping", "sentinel"})
  /\ portOpen \in BOOLEAN
  /\ pc \in {"declaring", "idle", "register", "lookAgain", "rearm",
             "wakeAgain", "sessionClose"} \cup TeardownPC
  /\ pending \in BOOLEAN
  /\ waiting \in BOOLEAN
  /\ out \in [kind : {"none", "data", "empty", "disconnected", "fault",
                      "contended"}, val : Nat]

\* The tee block is never touched after it was freed.  Whoever can still touch
\* it -- a thread inside the call, canon's drop, a Dart method that will arm
\* or release it -- has a reference that has not been given back
\* (zenoh_dart.c:1252-1282).
TeeNotUsedAfterFree ==
  freed > 0 =>
    /\ \A d \in Deliverers : deliverer[d] = "idle"
    /\ closure = "gone"
    /\ ~DartHoldsTee

\* Both owners gone means the block was freed, exactly once, in either order of
\* the two releases (zenoh_dart.c:1339-1351).
TeeFreedExactlyOnce ==
  /\ freed <= 1
  /\ (closure = "gone" /\ ~DartHoldsTee) => freed = 1

\* No lost wakeup: with a waiter registered and something for it to see -- a
\* buffered value, or the disconnection -- a wake that will show it is under
\* way: queued, about to be posted, or owed by a delivery that has pushed its
\* value and will find the tee armed (zenoh_dart.c:1353-1367, recv, _onWake).
NoLostWakeup ==
  (pc = "idle" /\ pending /\ (chan # <<>> \/ ~ProducerAlive)) =>
    \/ port # <<>>
    \/ \E d \in Deliverers : deliverer[d] = "post"
    \/ armed = 1 /\ \E d \in Deliverers : deliverer[d] = "ping"
    \/ closure = "innerGone"

\* A recv() is refused as "already pending" only while the application waits on
\* an earlier one (pull_subscriber.dart:537-538).  The code breaks it: when the
\* second look throws, recv() throws and leaves its waiter registered.
RefusedOnlyWhileWaiting == out = Contended => waiting

\* A value that stays in the channel completes a pending recv(), unless the
\* isolate is stuck in Session.close() (pull_subscriber.dart:513-524).
RecvServed ==
  (waiting /\ chan # <<>>) ~> (~waiting \/ chan = <<>> \/ pc = "sessionClose")

\* A producer that is gone completes a pending recv(): it never hangs
\* (pull_subscriber.dart:519-524, pull_replies.dart:431-435).
RecvDisconnects ==
  (waiting /\ ~ProducerAlive) ~> ~waiting

\* close() returns, whatever the channel holds and however many deliveries are
\* blocked on it (pull_subscriber.dart:643-646, :692-728).
CloseReturns == (pc \in TeardownPC) ~> (pc = "closed")

-----------------------------------------------------------------------------
(* The handle implements the contract its dartdoc states.                  *)

Contract ==
  INSTANCE PullContract WITH
    buf      <- IF pc \in TeardownPC THEN <<>> ELSE chan,
    accepted <- sent,
    alive    <- ProducerAlive,
    open     <- pc \notin TeardownPC

\* Every step of the handle, its threads and canon is a step of the contract
\* or changes nothing the contract speaks of.
ImplementsContract == Contract!Spec

==============================================================================
