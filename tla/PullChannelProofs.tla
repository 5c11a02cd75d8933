-------------------------- MODULE PullChannelProofs --------------------------
(***************************************************************************)
(* Theorems about PullChannel, for every kind, capacity, column, set of    *)
(* delivering threads and set of fault sites.                              *)
(***************************************************************************)
EXTENDS PullChannel, TLAPS

-----------------------------------------------------------------------------
(* The inductive invariant, in named parts.                                *)

\* What the isolate is doing constrains the closure and the port.
PhaseInv ==
  /\ pc = "declaring" <=> closure = "building"
  /\ pc = "undeclare" => column = "entity"
  /\ portOpen <=> pc # "closed"

\* No thread is inside the tee before canon has the closure, nor once canon
\* has started to destroy it.
QuietInv ==
  closure \in {"building", "innerGone", "signalled", "gone"} =>
    \A d \in Deliverers : deliverer[d] = "idle"

\* The count is the number of owners that have not released, and the block is
\* freed exactly when there is none.
CountInv ==
  /\ refs = (IF closure = "gone" THEN 0 ELSE 1) + (IF DartHoldsTee THEN 1 ELSE 0)
  /\ freed = IF refs = 0 THEN 1 ELSE 0

TeeInv == TypeOK /\ PhaseInv /\ QuietInv /\ CountInv

-----------------------------------------------------------------------------
(* Sequences: what the buffered channel's two operations preserve.         *)

LEMMA AppendType ==
  ASSUME NEW S, NEW s \in Seq(S), NEW x \in S
  PROVE  /\ Append(s, x) \in Seq(S)
         /\ Len(Append(s, x)) = Len(s) + 1
         /\ Append(s, x) # <<>>
  OBVIOUS

LEMMA EmptyType ==
  ASSUME NEW S
  PROVE  <<>> \in Seq(S) /\ Len(<<>>) = 0
  OBVIOUS

LEMMA TailType ==
  ASSUME NEW S, NEW s \in Seq(S), s # <<>>
  PROVE  /\ Tail(s) \in Seq(S)
         /\ Len(Tail(s)) = Len(s) - 1
         /\ Head(s) \in S
  OBVIOUS

-----------------------------------------------------------------------------
(* What a look at the channel can return.                                  *)

LEMMA LooksType ==
  ASSUME TypeOK, NEW site, NEW l \in Looks(site)
  PROVE  /\ l.rest \in Seq(Nat \ {0})
         /\ Len(l.rest) <= Capacity
         /\ l.res \in [kind : {"data", "empty", "disconnected", "fault"},
                       val : Nat]
         /\ l.res = Empty => chan = <<>> /\ l.rest = <<>> /\ ProducerAlive
         /\ chan = <<>> => l.rest = <<>>
  <1>1. CASE chan = <<>>
    <2>1. /\ l.rest = <<>>
          /\ l.res = IF ProducerAlive THEN Empty ELSE Disconnected
      BY <1>1 DEF Looks
    <2>2. <<>> \in Seq(Nat \ {0}) /\ Len(<<>>) <= Capacity
      BY PullChannelAssumption
    <2>3. Empty # Disconnected
      BY DEF Empty, Disconnected
    <2>4. l.res \in [kind : {"data", "empty", "disconnected", "fault"},
                     val : Nat]
      BY <2>1 DEF Empty, Disconnected
    <2>5. QED
      BY <1>1, <2>1, <2>2, <2>3, <2>4
  <1>2. CASE chan # <<>>
    <2>1. /\ Tail(chan) \in Seq(Nat \ {0})
          /\ Len(Tail(chan)) <= Capacity
          /\ Head(chan) \in Nat
      BY <1>2, TailType, PullChannelAssumption DEF TypeOK
    <2>2. l.rest = Tail(chan) /\ l.res \in {Data(Head(chan)), Fault}
      BY <1>2 DEF Looks
    <2>3. Empty \notin {Data(Head(chan)), Fault}
      BY DEF Empty, Data, Fault
    <2>4. l.res \in [kind : {"data", "empty", "disconnected", "fault"},
                     val : Nat]
      BY <2>1, <2>2 DEF Data, Fault
    <2>5. QED
      BY <1>2, <2>1, <2>2, <2>3, <2>4
  <1>3. QED
    BY <1>1, <1>2

-----------------------------------------------------------------------------
(* The invariant is inductive: one lemma for each side of the system.      *)

\* The values CloseNext sends close() to.
LEMMA CloseNextType ==
  /\ CloseNext.close = "handler"
  /\ CloseNext.handler \in {"undeclare", "tee"}
  /\ CloseNext.handler = "undeclare" => column = "entity"
  /\ column = "entity" => CloseNext.undeclare = "tee"
  /\ CloseNext.tee = "port"
  /\ CloseNext.port = "closed"
  BY DEF CloseNext

LEMMA TeeInvInit == Init => TeeInv
  <1> SUFFICES ASSUME Init PROVE TeeInv
    OBVIOUS
  <1>1. TypeOK
    <2>1. chan \in Seq(Nat \ {0}) /\ Len(chan) <= Capacity
      BY PullChannelAssumption DEF Init
    <2>2. out \in [kind : {"none", "data", "empty", "disconnected", "fault",
                           "contended"}, val : Nat]
      BY DEF Init, Nothing
    <2>3. port \in Seq({"ping", "sentinel"})
      BY EmptyType DEF Init
    <2>4. deliverer \in [Deliverers -> {"idle", "push", "ping", "post"}]
      BY DEF Init
    <2>5. sent \in Nat /\ armed \in {0, 1} /\ refs \in 0..2 /\ freed \in {0, 1}
      BY DEF Init
    <2>6. /\ closure \in ClosureStage
          /\ pc = "declaring"
      BY DEF Init, ClosureStage
    <2>7. /\ handlerAlive \in BOOLEAN
          /\ portOpen \in BOOLEAN
          /\ pending \in BOOLEAN
          /\ waiting \in BOOLEAN
      BY DEF Init
    <2>8. kind \in {"ring", "fifo"} /\ column \in {"entity", "reply"}
      BY DEF Init
    <2>9. QED
      BY <2>1, <2>2, <2>3, <2>4, <2>5, <2>6, <2>7, <2>8 DEF TypeOK
  <1>2. PhaseInv /\ QuietInv /\ CountInv
    BY DEF Init, PhaseInv, QuietInv, CountInv, DartHoldsTee
  <1>3. QED
    BY <1>1, <1>2 DEF TeeInv

\* The steps of the threads inside the tee and of canon's drop.
LEMMA TeeInvNative ==
  ASSUME TeeInv, Native
  PROVE  TeeInv'
  <1> USE DEF config, TeeInv, ClosureStage
  <1>1. ASSUME NEW d \in Deliverers, Arrive(d)
        PROVE  TeeInv'
    BY <1>1 DEF Arrive, chanVars, teeVars, portVars, dartVars,
                TypeOK, PhaseInv, QuietInv, CountInv, DartHoldsTee
  <1>2. ASSUME NEW d \in Deliverers, Push(d)
        PROVE  TeeInv'
    <2> USE DEF Push, teeVars, portVars, dartVars
    <2>1. chan' \in Seq(Nat \ {0}) /\ Len(chan') <= Capacity /\ sent' \in Nat
      <3>1. sent + 1 \in Nat \ {0}
        BY DEF TypeOK
      <3>2. CASE ~handlerAlive
        BY <1>2, <3>2 DEF TypeOK
      <3>3. CASE Len(chan) < Capacity /\ chan' = Append(chan, sent + 1)
        BY <1>2, <3>1, <3>3, AppendType, PullChannelAssumption DEF TypeOK
      <3>4. CASE /\ Len(chan) = Capacity
                 /\ chan' = Append(Tail(chan), sent + 1)
        <4>1. chan # <<>>
          BY <3>4, PullChannelAssumption DEF TypeOK
        <4>2. /\ Tail(chan) \in Seq(Nat \ {0})
              /\ Len(Tail(chan)) = Capacity - 1
          BY <3>4, <4>1, TailType DEF TypeOK
        <4>3. QED
          BY <1>2, <3>1, <3>4, <4>2, AppendType, PullChannelAssumption
             DEF TypeOK
      <3>5. QED
        BY <1>2, <3>2, <3>3, <3>4
    <2>2. TypeOK'
      BY <1>2, <2>1 DEF TypeOK
    <2>3. (PhaseInv /\ QuietInv /\ CountInv)'
      BY <1>2 DEF TypeOK, PhaseInv, QuietInv, CountInv, DartHoldsTee
    <2>4. QED
      BY <2>2, <2>3
  <1>3. ASSUME NEW d \in Deliverers, PingIfArmed(d)
        PROVE  TeeInv'
    BY <1>3 DEF PingIfArmed, chanVars, portVars, dartVars,
                TypeOK, PhaseInv, QuietInv, CountInv, DartHoldsTee
  <1>4. ASSUME NEW d \in Deliverers, PostPing(d)
        PROVE  TeeInv'
    BY <1>4, AppendType DEF PostPing, Post, chanVars, teeVars, dartVars,
                TypeOK, PhaseInv, QuietInv, CountInv, DartHoldsTee
  <1>5. ASSUME QueryDone
        PROVE  TeeInv'
    BY <1>5 DEF QueryDone, chanVars, teeVars, portVars, dartVars,
                TypeOK, PhaseInv, QuietInv, CountInv, DartHoldsTee
  <1>6. ASSUME DropInner
        PROVE  TeeInv'
    BY <1>6, PullChannelAssumption
       DEF DropInner, teeVars, portVars, dartVars,
           TypeOK, PhaseInv, QuietInv, CountInv, DartHoldsTee
  <1>7. ASSUME PostSentinel
        PROVE  TeeInv'
    BY <1>7, AppendType DEF PostSentinel, Post, chanVars, teeVars, dartVars,
                TypeOK, PhaseInv, QuietInv, CountInv, DartHoldsTee
  <1>8. ASSUME ReleaseClosure
        PROVE  TeeInv'
    BY <1>8 DEF ReleaseClosure, TeeRelease, chanVars, portVars, dartVars,
                TypeOK, PhaseInv, QuietInv, CountInv, DartHoldsTee
  <1>9. QED
    BY <1>1, <1>2, <1>3, <1>4, <1>5, <1>6, <1>7, <1>8 DEF Native

\* The steps of the isolate: declaring and consuming.
LEMMA TeeInvConsume ==
  ASSUME TeeInv, DeclareAccepted \/ DeclareRefused \/ TryRecv
                 \/ RecvContended \/ RecvLook \/ RecvArm \/ RecvLookAgain
                 \/ Wake \/ WakeRearm \/ WakeLookAgain
  PROVE  TeeInv'
  <1> USE DEF config, TeeInv, ClosureStage, TeardownPC
  \* Answers are well typed.
  <1>a. /\ Disconnected \in [kind : {"disconnected"}, val : Nat]
        /\ Contended \in [kind : {"contended"}, val : Nat]
        /\ Fault \in [kind : {"fault"}, val : Nat]
    BY DEF Disconnected, Contended, Fault
  <1>1. ASSUME DeclareAccepted
        PROVE  TeeInv'
    BY <1>1 DEF DeclareAccepted, chanVars, teeVars, portVars,
                TypeOK, PhaseInv, QuietInv, CountInv, DartHoldsTee
  <1>2. ASSUME DeclareRefused
        PROVE  TeeInv'
    BY <1>2 DEF DeclareRefused, chanVars, teeVars, portVars,
                TypeOK, PhaseInv, QuietInv, CountInv, DartHoldsTee
  <1>3. ASSUME TryRecv
        PROVE  TeeInv'
    <2>1. PICK l \in Looks("tryRecv") : chan' = l.rest /\ out' = l.res
      BY <1>3 DEF TryRecv
    <2>2. QED
      BY <1>3, <2>1, LooksType
         DEF TryRecv, teeVars, portVars,
             TypeOK, PhaseInv, QuietInv, CountInv, DartHoldsTee
  <1>4. ASSUME RecvContended
        PROVE  TeeInv'
    BY <1>4, <1>a DEF RecvContended, chanVars, teeVars, portVars,
                TypeOK, PhaseInv, QuietInv, CountInv, DartHoldsTee
  <1>5. ASSUME RecvLook
        PROVE  TeeInv'
    <2>1. PICK l \in Looks("recv") :
            /\ chan' = l.rest
            /\ \/ l.res = Empty /\ pc' = "register" /\ UNCHANGED out
               \/ l.res # Empty /\ out' = l.res /\ UNCHANGED pc
      BY <1>5 DEF RecvLook
    <2>2. QED
      BY <1>5, <2>1, LooksType
         DEF RecvLook, teeVars, portVars,
             TypeOK, PhaseInv, QuietInv, CountInv, DartHoldsTee
  <1>6. ASSUME RecvArm
        PROVE  TeeInv'
    BY <1>6 DEF RecvArm, chanVars, portVars,
                TypeOK, PhaseInv, QuietInv, CountInv, DartHoldsTee
  <1>7. ASSUME RecvLookAgain
        PROVE  TeeInv'
    <2>1. PICK l \in Looks("recvAgain") :
            /\ chan' = l.rest
            /\ \/ l.res = Empty /\ waiting' = TRUE /\ UNCHANGED <<pending, out>>
               \/ l.res = Fault /\ out' = Fault /\ UNCHANGED <<pending, waiting>>
               \/ /\ l.res \notin {Empty, Fault}
                  /\ pending' = FALSE
                  /\ out' = l.res
                  /\ UNCHANGED waiting
      BY <1>7 DEF RecvLookAgain
    <2>2. /\ l.rest \in Seq(Nat \ {0})
          /\ Len(l.rest) <= Capacity
          /\ l.res \in [kind : {"data", "empty", "disconnected", "fault"},
                        val : Nat]
      BY LooksType
    <2>3. out' \in {out, l.res} /\ pending' \in BOOLEAN /\ waiting' \in BOOLEAN
      BY <2>1 DEF TypeOK
    <2>4. TypeOK'
      BY <1>7, <2>1, <2>2, <2>3 DEF RecvLookAgain, teeVars, portVars, TypeOK
    <2>5. (PhaseInv /\ QuietInv /\ CountInv)'
      BY <1>7 DEF RecvLookAgain, teeVars, portVars, TypeOK, PhaseInv, QuietInv,
                  CountInv, DartHoldsTee
    <2>6. QED
      BY <2>4, <2>5
  <1>8. ASSUME WakeIgnored
        PROVE  TeeInv'
    BY <1>8, TailType DEF WakeIgnored, chanVars, teeVars, dartVars,
                TypeOK, PhaseInv, QuietInv, CountInv, DartHoldsTee
  <1>9. ASSUME WakeLook
        PROVE  TeeInv'
    <2>1. port' \in Seq({"ping", "sentinel"})
      BY <1>9, TailType DEF WakeLook, TypeOK
    <2>2. PICK l \in Looks("wake") :
            /\ chan' = l.rest
            /\ \/ l.res # Empty /\ Complete(l.res) /\ UNCHANGED pc
               \/ l.res = Empty /\ Complete(Disconnected) /\ UNCHANGED pc
               \/ /\ l.res = Empty
                  /\ pc' = "rearm"
                  /\ UNCHANGED <<pending, waiting, out>>
      BY <1>9 DEF WakeLook
    <2>3. /\ l.rest \in Seq(Nat \ {0})
          /\ Len(l.rest) <= Capacity
          /\ l.res \in [kind : {"data", "empty", "disconnected", "fault"},
                        val : Nat]
      BY LooksType
    <2>4. /\ out' \in {out, l.res, Disconnected}
          /\ pending' \in BOOLEAN /\ waiting' \in BOOLEAN
          /\ pc' \in {"idle", "rearm"}
      BY <1>9, <2>2 DEF WakeLook, Complete, TypeOK
    <2>5. out' \in [kind : {"none", "data", "empty", "disconnected", "fault",
                            "contended"}, val : Nat]
      BY <2>3, <2>4, <1>a DEF TypeOK
    <2>6. TypeOK'
      BY <1>9, <2>1, <2>2, <2>3, <2>4, <2>5 DEF WakeLook, teeVars, TypeOK
    <2>7. (PhaseInv /\ QuietInv /\ CountInv)'
      BY <1>9, <2>4 DEF WakeLook, teeVars, TypeOK, PhaseInv, QuietInv,
                        CountInv, DartHoldsTee
    <2>8. QED
      BY <2>6, <2>7
  <1>10. ASSUME WakeRearm
         PROVE  TeeInv'
    BY <1>10 DEF WakeRearm, chanVars, portVars,
                 TypeOK, PhaseInv, QuietInv, CountInv, DartHoldsTee
  <1>11. ASSUME WakeLookAgain
         PROVE  TeeInv'
    <2>1. PICK l \in Looks("wakeAgain") :
            /\ chan' = l.rest
            /\ \/ l.res = Empty /\ UNCHANGED <<pending, waiting, out>>
               \/ l.res # Empty /\ Complete(l.res)
      BY <1>11 DEF WakeLookAgain
    <2>2. /\ l.rest \in Seq(Nat \ {0})
          /\ Len(l.rest) <= Capacity
          /\ l.res \in [kind : {"data", "empty", "disconnected", "fault"},
                        val : Nat]
      BY LooksType
    <2>3. out' \in {out, l.res} /\ pending' \in BOOLEAN /\ waiting' \in BOOLEAN
      BY <2>1 DEF Complete, TypeOK
    <2>4. TypeOK'
      BY <1>11, <2>1, <2>2, <2>3 DEF WakeLookAgain, teeVars, portVars, TypeOK
    <2>5. (PhaseInv /\ QuietInv /\ CountInv)'
      BY <1>11 DEF WakeLookAgain, teeVars, portVars, TypeOK, PhaseInv, QuietInv,
                   CountInv, DartHoldsTee
    <2>6. QED
      BY <2>4, <2>5
  <1>12. QED
    BY <1>1, <1>2, <1>3, <1>4, <1>5, <1>6, <1>7, <1>8, <1>9, <1>10, <1>11
       DEF Wake

\* The steps of the isolate: teardown.
LEMMA TeeInvTeardown ==
  ASSUME TeeInv, Close \/ SessionClose \/ SessionCloseReturn \/ HandlerDrop
                 \/ UndeclareBegin \/ UndeclareReturn \/ TeeDrop \/ PortClose
  PROVE  TeeInv'
  <1> USE CloseNextType DEF config, TeeInv, ClosureStage, TeardownPC
  <1>1. ASSUME Close
        PROVE  TeeInv'
    <2>1. Disconnected \in [kind : {"disconnected"}, val : Nat]
      BY DEF Disconnected
    <2>2. QED
      BY <1>1, <2>1 DEF Close, Complete, chanVars, teeVars, portVars,
                  TypeOK, PhaseInv, QuietInv, CountInv, DartHoldsTee
  <1>2. ASSUME SessionClose
        PROVE  TeeInv'
    BY <1>2 DEF SessionClose, chanVars, teeVars, portVars,
                TypeOK, PhaseInv, QuietInv, CountInv, DartHoldsTee
  <1>3. ASSUME SessionCloseReturn
        PROVE  TeeInv'
    BY <1>3 DEF SessionCloseReturn, chanVars, teeVars, portVars,
                TypeOK, PhaseInv, QuietInv, CountInv, DartHoldsTee
  <1>4. ASSUME HandlerDrop
        PROVE  TeeInv'
    <2>1. <<>> \in Seq(Nat \ {0}) /\ Len(<<>>) <= Capacity
      BY PullChannelAssumption
    <2>2. /\ pc \in {"handler", "refusedHandler"}
          /\ pc' \in {"undeclare", "tee", "port"}
          /\ pc' = "undeclare" => column = "entity"
          /\ pc' = "port" <=> pc = "refusedHandler"
      BY <1>4 DEF HandlerDrop
    <2>3. /\ chan' = <<>> /\ handlerAlive' = FALSE
          /\ UNCHANGED <<kind, column, sent, closure, deliverer, armed, refs,
                         freed, port, portOpen, pending, waiting, out>>
      BY <1>4 DEF HandlerDrop, teeVars, portVars
    <2>4. TypeOK'
      <3>1. chan' \in Seq(Nat \ {0}) /\ Len(chan') <= Capacity
        BY <2>1, <2>3
      <3>2. /\ pc' \in TeardownPC
            /\ handlerAlive' \in BOOLEAN
        BY <2>2, <2>3
      <3>3. QED
        BY <2>3, <3>1, <3>2 DEF TypeOK
    <2>5. (PhaseInv /\ QuietInv /\ CountInv)'
      BY <2>2, <2>3 DEF TypeOK, PhaseInv, QuietInv, CountInv, DartHoldsTee
    <2>6. QED
      BY <2>4, <2>5
  <1>5. ASSUME UndeclareBegin
        PROVE  TeeInv'
    BY <1>5 DEF UndeclareBegin, chanVars, teeVars, portVars, dartVars,
                TypeOK, PhaseInv, QuietInv, CountInv, DartHoldsTee
  <1>6. ASSUME UndeclareReturn
        PROVE  TeeInv'
    BY <1>6 DEF UndeclareReturn, chanVars, teeVars, portVars,
                TypeOK, PhaseInv, QuietInv, CountInv, DartHoldsTee
  <1>7. ASSUME TeeDrop
        PROVE  TeeInv'
    BY <1>7 DEF TeeDrop, TeeRelease, chanVars, portVars,
                TypeOK, PhaseInv, QuietInv, CountInv, DartHoldsTee
  <1>8. ASSUME PortClose
        PROVE  TeeInv'
    <2>1. port' \in Seq({"ping", "sentinel"})
      BY <1>8, EmptyType DEF PortClose
    <2>2. /\ pc = "port" /\ pc' = "closed" /\ portOpen' = FALSE
          /\ UNCHANGED <<kind, column, chan, sent, handlerAlive, closure,
                         deliverer, armed, refs, freed, pending, waiting, out>>
      BY <1>8 DEF PortClose, chanVars, teeVars
    <2>3. TypeOK'
      BY <2>1, <2>2 DEF TypeOK
    <2>4. (PhaseInv /\ QuietInv /\ CountInv)'
      BY <2>2 DEF TypeOK, PhaseInv, QuietInv, CountInv, DartHoldsTee
    <2>5. QED
      BY <2>3, <2>4
  <1>9. QED
    BY <1>1, <1>2, <1>3, <1>4, <1>5, <1>6, <1>7, <1>8

LEMMA TeeInvStep == TeeInv /\ [Next]_vars => TeeInv'
  <1> SUFFICES ASSUME TeeInv, [Next]_vars PROVE TeeInv'
    OBVIOUS
  <1>1. CASE Native
    BY <1>1, TeeInvNative
  <1>2. CASE Dart
    BY <1>2, TeeInvConsume, TeeInvTeardown
       DEF Dart, Application, DartContinues, Finished, vars, config, chanVars,
           teeVars, portVars, dartVars, TeeInv, TypeOK, PhaseInv, QuietInv,
           CountInv, DartHoldsTee
  <1>3. CASE UNCHANGED vars
    BY <1>3 DEF vars, config, chanVars, teeVars, portVars, dartVars, TeeInv, TypeOK,
                PhaseInv, QuietInv, CountInv, DartHoldsTee
  <1>4. QED
    BY <1>1, <1>2, <1>3 DEF Next

LEMMA TeeInvAlways == Spec => []TeeInv
  <1>1. QED
    BY TeeInvInit, TeeInvStep, PTL DEF Spec

\* Type correctness of every reachable state of the handle, its threads and the
\* tee (pull_subscriber.dart, zenoh_dart.c:1283-1432).
THEOREM TypeCorrect == Spec => []TypeOK
  <1>1. TeeInv => TypeOK
    BY DEF TeeInv
  <1>2. QED
    BY <1>1, TeeInvAlways, PTL

\* Nobody touches the tee block after its free, whichever of canon's drop and
\* the Dart handle's release comes first (zenoh_dart.c:1252-1282, :1339-1351).
THEOREM TeeMemorySafe == Spec => []TeeNotUsedAfterFree
  <1>1. TeeInv => TeeNotUsedAfterFree
    BY DEF TeeInv, TypeOK, QuietInv, CountInv, DartHoldsTee, TeeNotUsedAfterFree
  <1>2. QED
    BY <1>1, TeeInvAlways, PTL

\* The block is freed at most once, and is free once both owners have released
\* it (zenoh_dart.c:1339-1351).
THEOREM TeeNeitherLeakedNorDoubleFreed == Spec => []TeeFreedExactlyOnce
  <1>1. TeeInv => TeeFreedExactlyOnce
    BY DEF TeeInv, TypeOK, CountInv, DartHoldsTee, TeeFreedExactlyOnce
  <1>2. QED
    BY <1>1, TeeInvAlways, PTL

-----------------------------------------------------------------------------
(* That a close is not held up.                                            *)

\* A thread parked on a channel nobody is taking from.
WaitsForRoom(d) ==
  /\ deliverer[d] = "push"
  /\ handlerAlive
  /\ kind = "fifo"
  /\ Len(chan) = Capacity

\* Where close() and a refused declaration block, every thread can go on and
\* canon has a closure it can destroy.
NothingHoldsItUp ==
  pc \in {"undeclare", "tee", "port", "closed", "refused", "refusedHandler"} =>
    /\ closure # "building"
    /\ \A d \in Deliverers : ~WaitsForRoom(d)

\* The receiving end goes before anything is waited for; a closure that was
\* refused was never delivered to.
ReceiverInv ==
  /\ pc \in {"undeclare", "tee", "port", "closed"} => ~handlerAlive
  /\ pc \in {"refused", "refusedHandler"} =>
       /\ closure # "live"
       /\ \A d \in Deliverers : deliverer[d] = "idle"

LEMMA ReceiverStep ==
  ASSUME TeeInv, ReceiverInv, [Next]_vars
  PROVE  ReceiverInv'
  <1> USE DEF config, ReceiverInv
  <1>1. CASE Native
    <2>1. UNCHANGED <<pc, handlerAlive>>
      BY <1>1 DEF Native, Arrive, Push, PingIfArmed, PostPing, QueryDone, DropInner,
                  PostSentinel, ReleaseClosure, chanVars, dartVars
    <2>2. ASSUME pc \in {"refused", "refusedHandler"},
                 NEW d \in Deliverers,
                 Arrive(d) \/ Push(d) \/ PingIfArmed(d) \/ PostPing(d)
          PROVE  FALSE
      BY <2>2 DEF Arrive, Push, PingIfArmed, PostPing, TeeInv, PhaseInv
    <2>3. ASSUME QueryDone \/ DropInner \/ PostSentinel \/ ReleaseClosure
          PROVE  UNCHANGED deliverer /\ closure' # "live"
      BY <2>3 DEF QueryDone, DropInner, PostSentinel, ReleaseClosure
    <2>4. pc \in {"refused", "refusedHandler"} => UNCHANGED deliverer /\ closure' # "live"
      BY <1>1, <2>2, <2>3 DEF Native
    <2>5. QED
      BY <2>1, <2>4
  <1>2. CASE DeclareRefused
    BY <1>2 DEF DeclareRefused, TeeInv, PhaseInv, QuietInv
  <1>3. CASE HandlerDrop
    BY <1>3 DEF HandlerDrop, CloseNext
  <1>4. CASE Close
    BY <1>4 DEF Close, CloseNext
  <1>5. CASE TeeDrop
    BY <1>5 DEF TeeDrop, CloseNext, chanVars
  <1>6. CASE UndeclareReturn
    BY <1>6 DEF UndeclareReturn, CloseNext, chanVars, TeeInv, PhaseInv
  <1>7. CASE UndeclareBegin
    BY <1>7 DEF UndeclareBegin, chanVars, dartVars
  <1>8. CASE PortClose
    BY <1>8 DEF PortClose, CloseNext, chanVars
  <1>9. CASE \/ DeclareAccepted \/ TryRecv \/ RecvContended \/ RecvLook \/ SessionClose
             \/ WakeIgnored \/ WakeLook \/ RecvArm \/ RecvLookAgain \/ WakeRearm
             \/ WakeLookAgain \/ SessionCloseReturn
    <2>1. pc' \notin {"undeclare", "tee", "port", "closed", "refused", "refusedHandler"}
      BY <1>9 DEF DeclareAccepted, TryRecv, RecvContended, RecvLook, SessionClose,
                  WakeIgnored, WakeLook, RecvArm, RecvLookAgain, WakeRearm,
                  WakeLookAgain, SessionCloseReturn, dartVars
    <2>2. QED
      BY <2>1
  <1>10. CASE Finished \/ UNCHANGED vars
    BY <1>10 DEF Finished, vars, chanVars, dartVars
  <1>11. QED
    BY <1>1, <1>2, <1>3, <1>4, <1>5, <1>6, <1>7, <1>8, <1>9, <1>10
       DEF Next, Dart, Application, Wake, DartContinues

\* close() drops the receiving end before it undeclares, and so never waits for
\* a delivery that waits for room in the channel it has stopped taking from
\* (pull_subscriber.dart:692-728); nor does a refused declaration.  What
\* CloseReturns adds is that the threads go on.
THEOREM CloseIsNotHeldUp == Spec => []NothingHoldsItUp
  <1>1. Init => ReceiverInv
    BY DEF Init, ReceiverInv
  <1>2. TeeInv /\ ReceiverInv /\ [Next]_vars => ReceiverInv'
    BY ReceiverStep
  <1>3. TeeInv /\ ReceiverInv => NothingHoldsItUp
    BY DEF TeeInv, PhaseInv, ReceiverInv, NothingHoldsItUp, WaitsForRoom
  <1>4. QED
    BY <1>1, <1>2, <1>3, TeeInvAlways, PTL DEF Spec

-----------------------------------------------------------------------------
(* The waiter and its wake.  A failed allocation at recv()'s second look   *)
(* orphans the waiter, so these facts need that look to be infallible.     *)

\* Where a waiter can be registered, and that it is the application's.
WaiterInv ==
  /\ pc \in {"declaring", "register"} \cup TeardownPC => ~pending
  /\ pc \in {"lookAgain", "rearm", "wakeAgain"} => pending
  /\ waiting <=> (pending /\ pc # "lookAgain")

\* A registered waiter is armed, or the ping its arming paid for is on its way.
ArmedInv ==
  (pending /\ pc \in {"idle", "sessionClose", "lookAgain", "wakeAgain"}) =>
    \/ armed = 1
    \/ \E d \in Deliverers : deliverer[d] = "post"
    \/ port # <<>>

\* NoLostWakeup, also while the session is being closed.
WakeInv ==
  (/\ pending
   /\ pc \in {"idle", "sessionClose"}
   /\ chan # <<>> \/ ~ProducerAlive) =>
    \/ port # <<>>
    \/ \E d \in Deliverers : deliverer[d] = "post"
    \/ armed = 1 /\ \E d \in Deliverers : deliverer[d] = "ping"
    \/ closure = "innerGone"

RecvInv == TeeInv /\ WaiterInv /\ ArmedInv /\ WakeInv

\* The hypothesis of this section.
SecondLookInfallible == "recvAgain" \notin FaultSites

LEMMA RecvInvNative ==
  ASSUME RecvInv, Native
  PROVE  (WaiterInv /\ ArmedInv /\ WakeInv)'
  <1> USE DEF config, RecvInv, TeeInv, TypeOK, WaiterInv, ArmedInv, WakeInv,
              ProducerAlive
  <1>1. ASSUME NEW d \in Deliverers, Arrive(d)
        PROVE  (WaiterInv /\ ArmedInv /\ WakeInv)'
    BY <1>1 DEF Arrive, chanVars, teeVars, portVars, dartVars
  <1>2. ASSUME NEW d \in Deliverers, Push(d)
        PROVE  (WaiterInv /\ ArmedInv /\ WakeInv)'
    BY <1>2 DEF Push, teeVars, portVars, dartVars
  <1>3. ASSUME NEW d \in Deliverers, PingIfArmed(d)
        PROVE  (WaiterInv /\ ArmedInv /\ WakeInv)'
    BY <1>3 DEF PingIfArmed, chanVars, portVars, dartVars
  <1>4. ASSUME NEW d \in Deliverers, PostPing(d)
        PROVE  (WaiterInv /\ ArmedInv /\ WakeInv)'
    <2>1. pc # "closed" => port' # <<>>
      BY <1>4, AppendType DEF PostPing, Post, PhaseInv
    <2>2. QED
      BY <1>4, <2>1 DEF PostPing, chanVars, teeVars, dartVars
  <1>5. ASSUME QueryDone
        PROVE  (WaiterInv /\ ArmedInv /\ WakeInv)'
    BY <1>5 DEF QueryDone, chanVars, teeVars, portVars, dartVars
  <1>6. ASSUME DropInner
        PROVE  (WaiterInv /\ ArmedInv /\ WakeInv)'
    BY <1>6 DEF DropInner, teeVars, portVars, dartVars
  <1>7. ASSUME PostSentinel
        PROVE  (WaiterInv /\ ArmedInv /\ WakeInv)'
    <2>1. ASSUME pc # "closed" PROVE port' # <<>>
      <3>1. port' = Append(port, "sentinel")
        BY <1>7, <2>1 DEF PostSentinel, Post, PhaseInv
      <3>2. QED
        BY <3>1, AppendType
    <2>2. QED
      BY <1>7, <2>1 DEF PostSentinel, chanVars, teeVars, dartVars
  <1>8. ASSUME ReleaseClosure
        PROVE  (WaiterInv /\ ArmedInv /\ WakeInv)'
    BY <1>8 DEF ReleaseClosure, chanVars, portVars, dartVars
  <1>9. QED
    BY <1>1, <1>2, <1>3, <1>4, <1>5, <1>6, <1>7, <1>8 DEF Native

LEMMA RecvInvConsume ==
  ASSUME RecvInv, SecondLookInfallible,
         DeclareAccepted \/ DeclareRefused \/ TryRecv
           \/ RecvContended \/ RecvLook \/ RecvArm \/ RecvLookAgain
           \/ Wake \/ WakeRearm \/ WakeLookAgain
  PROVE  (WaiterInv /\ ArmedInv /\ WakeInv)'
  <1> USE DEF config, RecvInv, TeeInv, TypeOK, WaiterInv, ArmedInv, WakeInv,
              ProducerAlive, TeardownPC
  <1>1. CASE DeclareAccepted \/ DeclareRefused
    BY <1>1 DEF DeclareAccepted, DeclareRefused, chanVars, teeVars, portVars
  <1>2. CASE TryRecv
    <2>1. chan = <<>> => chan' = <<>>
      BY <1>2, LooksType DEF TryRecv
    <2>2. QED
      BY <1>2, <2>1 DEF TryRecv, teeVars, portVars
  <1>3. CASE RecvContended
    BY <1>3 DEF RecvContended, chanVars, teeVars, portVars
  <1>4. CASE RecvLook
    BY <1>4 DEF RecvLook, teeVars, portVars
  <1>5. CASE RecvArm
    BY <1>5 DEF RecvArm, chanVars, portVars
  <1>6. CASE RecvLookAgain
    <2>1. PICK l \in Looks("recvAgain") :
            /\ chan' = l.rest
            /\ \/ l.res = Empty /\ waiting' = TRUE /\ UNCHANGED <<pending, out>>
               \/ l.res = Fault /\ out' = Fault /\ UNCHANGED <<pending, waiting>>
               \/ /\ l.res \notin {Empty, Fault}
                  /\ pending' = FALSE
                  /\ out' = l.res
                  /\ UNCHANGED waiting
      BY <1>6 DEF RecvLookAgain
    <2>2. l.res # Fault
      BY DEF Looks, SecondLookInfallible, Fault, Data, Empty, Disconnected
    <2>3. CASE l.res = Empty
      <3>1. chan' = <<>> /\ ProducerAlive
        BY <2>1, <2>3, LooksType
      <3>2. QED
        BY <1>6, <2>1, <2>2, <2>3, <3>1 DEF RecvLookAgain, teeVars, portVars
    <2>4. CASE l.res # Empty
      <3>1. pc' = "idle" /\ pending' = FALSE /\ waiting' = waiting
        BY <1>6, <2>1, <2>2, <2>4 DEF RecvLookAgain
      <3>2. ~waiting
        BY <1>6 DEF RecvLookAgain
      <3>3. QED
        BY <3>1, <3>2
    <2>5. QED
      BY <2>3, <2>4
  <1>7. CASE WakeIgnored
    BY <1>7 DEF WakeIgnored, chanVars, teeVars, dartVars
  <1>8. CASE WakeLook
    <2>1. pc = "idle" /\ pending
      BY <1>8 DEF WakeLook
    <2>2. \/ pc' = "idle" /\ pending' = FALSE /\ waiting' = FALSE
          \/ pc' = "rearm" /\ pending' = pending /\ waiting' = waiting
      BY <1>8 DEF WakeLook, Complete
    <2>3. QED
      BY <2>1, <2>2
  <1>9. CASE WakeRearm
    BY <1>9 DEF WakeRearm, chanVars, portVars
  <1>10. CASE WakeLookAgain
    <2>1. PICK l \in Looks("wakeAgain") :
            /\ chan' = l.rest
            /\ \/ l.res = Empty /\ UNCHANGED <<pending, waiting, out>>
               \/ l.res # Empty /\ Complete(l.res)
      BY <1>10 DEF WakeLookAgain
    <2>2. CASE l.res = Empty
      <3>1. chan' = <<>> /\ ProducerAlive
        BY <2>1, <2>2, LooksType
      <3>2. QED
        BY <1>10, <2>1, <2>2, <3>1 DEF WakeLookAgain, teeVars, portVars
    <2>3. CASE l.res # Empty
      BY <1>10, <2>1, <2>3 DEF WakeLookAgain, Complete, teeVars, portVars
    <2>4. QED
      BY <2>2, <2>3
  <1>11. QED
    BY <1>1, <1>2, <1>3, <1>4, <1>5, <1>6, <1>7, <1>8, <1>9, <1>10 DEF Wake

LEMMA RecvInvTeardown ==
  ASSUME RecvInv,
         Close \/ SessionClose \/ SessionCloseReturn \/ HandlerDrop
           \/ UndeclareBegin \/ UndeclareReturn \/ TeeDrop \/ PortClose
  PROVE  (WaiterInv /\ ArmedInv /\ WakeInv)'
  <1> USE CloseNextType DEF config, RecvInv, TeeInv, TypeOK, WaiterInv, ArmedInv,
              WakeInv, ProducerAlive, TeardownPC
  <1>1. CASE Close
    BY <1>1 DEF Close, Complete, chanVars, teeVars, portVars
  <1>2. CASE SessionClose
    BY <1>2 DEF SessionClose, chanVars, teeVars, portVars
  <1>3. CASE SessionCloseReturn
    BY <1>3 DEF SessionCloseReturn, chanVars, teeVars, portVars
  <1>4. CASE HandlerDrop
    BY <1>4 DEF HandlerDrop, teeVars, portVars
  <1>5. CASE UndeclareBegin
    BY <1>5 DEF UndeclareBegin, chanVars, teeVars, portVars, dartVars
  <1>6. CASE UndeclareReturn
    BY <1>6 DEF UndeclareReturn, PhaseInv, chanVars, teeVars, portVars
  <1>7. CASE TeeDrop
    BY <1>7 DEF TeeDrop, chanVars, portVars
  <1>8. CASE PortClose
    BY <1>8 DEF PortClose, chanVars, teeVars
  <1>9. QED
    BY <1>1, <1>2, <1>3, <1>4, <1>5, <1>6, <1>7, <1>8

LEMMA RecvInvAlways ==
  ASSUME SecondLookInfallible
  PROVE  Spec => []RecvInv
  <1>1. Init => RecvInv
    BY TeeInvInit DEF Init, RecvInv, WaiterInv, ArmedInv, WakeInv
  <1>2. RecvInv /\ [Next]_vars => RecvInv'
    <2> SUFFICES ASSUME RecvInv, [Next]_vars PROVE RecvInv'
      OBVIOUS
    <2>1. TeeInv'
      BY TeeInvStep DEF RecvInv
    <2>2. (WaiterInv /\ ArmedInv /\ WakeInv)'
      <3>1. CASE Native
        BY <3>1, RecvInvNative
      <3>2. CASE UNCHANGED vars
        BY <3>2 DEF vars, chanVars, teeVars, portVars, dartVars, RecvInv,
                    WaiterInv, ArmedInv, WakeInv, ProducerAlive
      <3>3. CASE Dart
        BY <3>2, <3>3, SecondLookInfallible, RecvInvConsume, RecvInvTeardown
           DEF Dart, Application, DartContinues, Finished
      <3>4. QED
        BY <3>1, <3>2, <3>3 DEF Next
    <2>3. QED
      BY <2>1, <2>2 DEF RecvInv
  <1>3. QED
    BY <1>1, <1>2, PTL DEF Spec

\* No wakeup is lost between arming, delivering, posting and the closure's
\* drop (recv and _onWake in pull_subscriber.dart:561-637).
THEOREM NoWakeupLost ==
  ASSUME SecondLookInfallible
  PROVE  Spec => []NoLostWakeup
  <1>1. RecvInv => NoLostWakeup
    BY DEF RecvInv, WakeInv, NoLostWakeup
  <1>2. QED
    BY <1>1, RecvInvAlways, PTL

-----------------------------------------------------------------------------
(***************************************************************************)
(* The pull handle implements PullContract: for every kind, capacity,      *)
(* column and set of delivering threads, each step of PullChannel is a     *)
(* step of the contract or leaves everything it speaks of unchanged.       *)
(***************************************************************************)

\* The closure's drop posts the sentinel after the channel is disconnected, so
\* a wake that reads it never finds the channel empty and connected.
SentinelInv ==
  \A i \in 1..Len(port) :
    port[i] = "sentinel" => closure \in {"signalled", "gone"}

RefInv == RecvInv /\ SentinelInv

-----------------------------------------------------------------------------
(* The sentinel invariant.                                                 *)

\* What a queue holds after an append, and after its oldest entry is taken.
LEMMA Queued ==
  ASSUME NEW S, NEW s \in Seq(S), NEW x \in S
  PROVE  \A i \in 1..Len(Append(s, x)) :
           Append(s, x)[i] = x \/ (i \in 1..Len(s) /\ Append(s, x)[i] = s[i])
  OBVIOUS

LEMMA Dequeued ==
  ASSUME NEW S, NEW s \in Seq(S), s # <<>>
  PROVE  /\ 1 \in 1..Len(s) /\ Head(s) = s[1]
         /\ \A i \in 1..Len(Tail(s)) : i + 1 \in 1..Len(s) /\ Tail(s)[i] = s[i + 1]
  OBVIOUS

LEMMA SentinelInvStep ==
  ASSUME TeeInv, SentinelInv, [Next]_vars
  PROVE  SentinelInv'
  <1> USE DEF config, TeeInv, TypeOK, SentinelInv
  <1>1. ASSUME port' = port,
               closure \in {"signalled", "gone"} => closure' \in {"signalled", "gone"}
        PROVE  SentinelInv'
    BY <1>1
  <1>2. ASSUME port # <<>>, port' = Tail(port), closure' = closure
        PROVE  SentinelInv'
    BY <1>2, Dequeued
  <1>3. CASE Native
    <2>1. ASSUME NEW d \in Deliverers, Arrive(d) \/ Push(d) \/ PingIfArmed(d)
          PROVE  SentinelInv'
      BY <1>1, <2>1 DEF Arrive, Push, PingIfArmed, portVars
    <2>2. ASSUME NEW d \in Deliverers, PostPing(d)
          PROVE  SentinelInv'
      <3>1. closure' = closure
            /\ (port' = port \/ port' = Append(port, "ping"))
        BY <2>2 DEF PostPing, Post
      <3>2. CASE port' = Append(port, "ping")
        BY <3>1, <3>2, Queued
      <3>3. QED
        BY <1>1, <3>1, <3>2
    <2>3. CASE QueryDone \/ DropInner \/ ReleaseClosure
      BY <1>1, <2>3 DEF QueryDone, DropInner, ReleaseClosure, portVars
    <2>4. CASE PostSentinel
      BY <2>4 DEF PostSentinel
    <2>5. QED
      BY <1>3, <2>1, <2>2, <2>3, <2>4 DEF Native
  <1>4. CASE Wake
    BY <1>2, <1>4 DEF Wake, WakeIgnored, WakeLook
  <1>5. CASE PortClose
    BY <1>5 DEF PortClose
  <1>6. CASE DeclareAccepted \/ DeclareRefused
    BY <1>1, <1>6 DEF DeclareAccepted, DeclareRefused, portVars, PhaseInv
  <1>7. CASE Application
    BY <1>1, <1>7 DEF Application, TryRecv, RecvContended, RecvLook, Close,
                      SessionClose, portVars
  <1>8. CASE \/ RecvArm \/ RecvLookAgain \/ WakeRearm \/ WakeLookAgain
             \/ HandlerDrop \/ UndeclareBegin \/ UndeclareReturn \/ TeeDrop
             \/ SessionCloseReturn
    BY <1>1, <1>8 DEF RecvArm, RecvLookAgain, WakeRearm, WakeLookAgain,
          HandlerDrop, UndeclareBegin, UndeclareReturn, TeeDrop,
          SessionCloseReturn, portVars
  <1>9. CASE UNCHANGED vars
    BY <1>1, <1>9 DEF vars, portVars
  <1>10. QED
    BY <1>3, <1>4, <1>5, <1>6, <1>7, <1>8, <1>9
       DEF Next, Dart, DartContinues, Finished

LEMMA RefInvAlways ==
  ASSUME SecondLookInfallible
  PROVE  Spec => []RefInv
  <1>1. Init => SentinelInv
    BY DEF Init, SentinelInv
  <1>2. RecvInv /\ SentinelInv /\ [Next]_vars => SentinelInv'
    BY SentinelInvStep DEF RecvInv
  <1>3. Spec => []RecvInv
    BY RecvInvAlways
  <1>4. RecvInv /\ SentinelInv <=> RefInv
    BY DEF RefInv
  <1>5. QED
    BY <1>1, <1>2, <1>3, <1>4, PTL DEF Spec

-----------------------------------------------------------------------------
(* The simulation: one lemma for each kind of step.                        *)

\* A look at the channel finds it empty and connected, drained and
\* disconnected, or takes its oldest value.
LEMMA LookCases ==
  ASSUME NEW site, NEW l \in Looks(site)
  PROVE  \/ chan = <<>> /\ l.rest = <<>> /\ ProducerAlive /\ l.res = Empty
         \/ chan = <<>> /\ l.rest = <<>> /\ ~ProducerAlive /\ l.res = Disconnected
         \/ /\ chan # <<>>
            /\ l.rest = Tail(chan)
            /\ l.res \in {Data(Head(chan)), Fault}
  BY DEF Looks

LEMMA Kinds ==
  /\ Empty # Disconnected
  /\ Fault # Empty /\ Fault # Disconnected
  /\ \A v : Data(v) # Empty /\ Data(v) # Disconnected
  BY DEF Empty, Disconnected, Fault, Data

\* The contract's answers are the handle's.
LEMMA Answers ==
  /\ Contract!Answer("empty") = Empty
  /\ Contract!Answer("disconnected") = Disconnected
  /\ Contract!Answer("fault") = Fault
  /\ Contract!Answer("contended") = Contended
  /\ Contract!Answer("none") = Nothing
  /\ \A v : Contract!DataOf(v) = Data(v)
  BY DEF Contract!Answer, Contract!DataOf, Empty, Disconnected, Fault,
         Contended, Nothing, Data

\* Nothing the contract speaks of changes.
Hidden ==
  /\ kind' = kind
  /\ sent' = sent
  /\ ProducerAlive' = ProducerAlive
  /\ (pc \in TeardownPC)' = (pc \in TeardownPC)
  /\ (pc \in TeardownPC) \/ chan' = chan
  /\ waiting' = waiting
  /\ out' = out

LEMMA HiddenIsStutter == Hidden => UNCHANGED Contract!vars
  BY DEF Hidden, Contract!vars

\* An open handle's look with an answer.
LEMMA LookIsAnswered ==
  ASSUME pc \notin TeardownPC, pc' \notin TeardownPC, closure' = closure,
         NEW site, NEW l \in Looks(site), chan' = l.rest,
         l.res # Empty, out' = l.res
  PROVE  Contract!Answered
  BY LookCases, Answers DEF Contract!Answered, ProducerAlive

LEMMA NativeSimulates ==
  ASSUME RefInv, Native
  PROVE  Contract!Step \/ UNCHANGED Contract!vars
  <1> USE DEF config, RefInv, RecvInv, TeeInv, TypeOK
  <1>1. ASSUME NEW d \in Deliverers, Arrive(d) \/ PingIfArmed(d) \/ PostPing(d)
        PROVE  Hidden
    BY <1>1 DEF Arrive, PingIfArmed, PostPing, Hidden, ProducerAlive,
                chanVars, dartVars
  <1>2. ASSUME NEW d \in Deliverers, Push(d)
        PROVE  Contract!Accept \/ Hidden
    <2> USE <1>2 DEF Push, dartVars
    <2>1. ProducerAlive /\ ProducerAlive'
      BY DEF QuietInv, ProducerAlive, ClosureStage
    <2>2. CASE ~handlerAlive
      BY <2>1, <2>2 DEF Hidden
    <2>3. CASE handlerAlive
      <3>1. /\ pc' = pc /\ waiting' = waiting /\ out' = out
            /\ sent' = sent + 1
            /\ \/ Len(chan) < Capacity /\ chan' = Append(chan, sent + 1)
               \/ /\ kind = "ring"
                  /\ Len(chan) = Capacity
                  /\ chan' = Append(Tail(chan), sent + 1)
        BY <2>3
      <3>2. CASE pc \in TeardownPC
        BY <2>1, <3>1, <3>2 DEF Contract!Accept
      <3>3. CASE pc \notin TeardownPC
        BY <2>1, <3>1, <3>3 DEF Contract!Accept
      <3>4. QED
        BY <3>2, <3>3
    <2>4. QED
      BY <2>2, <2>3
  <1>3. CASE QueryDone \/ PostSentinel \/ ReleaseClosure
    <2>1. Hidden
      BY <1>3 DEF QueryDone, PostSentinel, ReleaseClosure, Hidden,
                  ProducerAlive, chanVars, dartVars
    <2>2. QED
      BY <2>1, HiddenIsStutter
  <1>4. CASE DropInner
    <2>1. Contract!Disconnect
      BY <1>4 DEF DropInner, Contract!Disconnect, ProducerAlive, dartVars
    <2>2. QED
      BY <2>1 DEF Contract!Step
  <1>5. QED
    BY <1>1, <1>2, <1>3, <1>4, HiddenIsStutter DEF Native, Contract!Step

LEMMA ConsumeSimulates ==
  ASSUME RefInv, SecondLookInfallible,
         DeclareAccepted \/ DeclareRefused \/ TryRecv
           \/ RecvContended \/ RecvLook \/ RecvArm \/ RecvLookAgain
           \/ Wake \/ WakeRearm \/ WakeLookAgain
  PROVE  Contract!Step \/ UNCHANGED Contract!vars
  <1> USE DEF config, RefInv, RecvInv, TeeInv, TypeOK, TeardownPC
  <1>1. CASE DeclareAccepted \/ RecvArm \/ WakeIgnored \/ WakeRearm
    <2>1. Hidden
      BY <1>1 DEF DeclareAccepted, RecvArm, WakeIgnored, WakeRearm, Hidden,
                  ProducerAlive, PhaseInv, chanVars, dartVars
    <2>2. QED
      BY <2>1, HiddenIsStutter
  <1>2. CASE DeclareRefused
    <2>1. ~waiting
      BY <1>2 DEF DeclareRefused, WaiterInv
    <2>2. Contract!Close
      BY <1>2, <2>1 DEF DeclareRefused, Contract!Close, ProducerAlive, PhaseInv,
                  chanVars
    <2>3. QED
      BY <2>2 DEF Contract!Step
  <1>3. CASE TryRecv
    <2>1. PICK l \in Looks("tryRecv") : chan' = l.rest /\ out' = l.res
      BY <1>3 DEF TryRecv
    <2>2. /\ pc = "idle" /\ pc' = "idle"
          /\ kind' = kind /\ closure' = closure /\ sent' = sent /\ waiting' = waiting
      BY <1>3 DEF TryRecv
    <2>3. CASE l.res = Empty
      <3>1. chan = <<>> /\ chan' = <<>> /\ ProducerAlive
        BY <2>1, <2>3, LookCases, Kinds
      <3>2. Contract!Poll
        BY <2>1, <2>2, <2>3, <3>1, Answers DEF Contract!Poll, ProducerAlive
      <3>3. QED
        BY <3>2 DEF Contract!Step
    <2>4. CASE l.res # Empty
      <3>1. Contract!Answered
        BY <2>1, <2>2, <2>4, LookIsAnswered
      <3>2. Contract!Poll
        BY <2>2, <3>1 DEF Contract!Poll, ProducerAlive
      <3>3. QED
        BY <3>2 DEF Contract!Step
    <2>5. QED
      BY <2>3, <2>4
  <1>4. CASE RecvContended
    <2>1. waiting
      BY <1>4 DEF RecvContended, WaiterInv
    <2>2. Contract!Contend
      BY <1>4, <2>1, Answers DEF RecvContended, Contract!Contend, ProducerAlive,
                  chanVars
    <2>3. QED
      BY <2>2 DEF Contract!Step
  <1>5. CASE RecvLook
    <2>1. PICK l \in Looks("recv") :
            /\ chan' = l.rest
            /\ \/ l.res = Empty /\ pc' = "register" /\ UNCHANGED out
               \/ l.res # Empty /\ out' = l.res /\ UNCHANGED pc
      BY <1>5 DEF RecvLook
    <2>2. /\ pc = "idle" /\ kind' = kind
          /\ closure' = closure /\ sent' = sent /\ waiting' = waiting
      BY <1>5 DEF RecvLook
    <2>3. CASE l.res = Empty
      <3>1. chan = <<>> /\ chan' = <<>>
        BY <2>1, <2>3, LookCases, Kinds
      <3>2. Hidden
        BY <2>1, <2>2, <2>3, <3>1 DEF Hidden, ProducerAlive
      <3>3. QED
        BY <3>2, HiddenIsStutter
    <2>4. CASE l.res # Empty
      <3>1. Contract!Answered
        BY <2>1, <2>2, <2>4, LookIsAnswered
      <3>2. Contract!Poll
        BY <2>1, <2>2, <2>4, <3>1 DEF Contract!Poll, ProducerAlive
      <3>3. QED
        BY <3>2 DEF Contract!Step
    <2>5. QED
      BY <2>3, <2>4
  <1>6. CASE RecvLookAgain
    <2>1. PICK l \in Looks("recvAgain") :
            /\ chan' = l.rest
            /\ \/ l.res = Empty /\ waiting' = TRUE /\ UNCHANGED <<pending, out>>
               \/ l.res = Fault /\ out' = Fault /\ UNCHANGED <<pending, waiting>>
               \/ /\ l.res \notin {Empty, Fault}
                  /\ pending' = FALSE
                  /\ out' = l.res
                  /\ UNCHANGED waiting
      BY <1>6 DEF RecvLookAgain
    <2>2. /\ pc = "lookAgain" /\ pc' = "idle"
          /\ kind' = kind /\ closure' = closure /\ sent' = sent
          /\ ~waiting
      BY <1>6 DEF RecvLookAgain, WaiterInv
    <2>3. CASE l.res = Empty
      <3>1. chan = <<>> /\ chan' = <<>> /\ ProducerAlive
        BY <2>1, <2>3, LookCases, Kinds
      <3>2. waiting' = TRUE /\ out' = out
        BY <2>1, <2>3, Kinds
      <3>3. Contract!Wait
        BY <2>2, <3>1, <3>2 DEF Contract!Wait, ProducerAlive
      <3>4. QED
        BY <3>3 DEF Contract!Step
    <2>4. CASE l.res # Empty
      <3>1. out' = l.res /\ waiting' = waiting
        BY <2>1, <2>4
      <3>2. Contract!Answered
        BY <2>1, <2>2, <2>4, <3>1, LookIsAnswered
      <3>3. Contract!Poll
        BY <2>2, <3>1, <3>2 DEF Contract!Poll, ProducerAlive
      <3>4. QED
        BY <3>3 DEF Contract!Step
    <2>5. QED
      BY <2>3, <2>4
  <1>7. CASE WakeLook
    <2>1. PICK l \in Looks("wake") :
            /\ chan' = l.rest
            /\ \/ l.res # Empty /\ Complete(l.res) /\ UNCHANGED pc
               \/ /\ l.res = Empty
                  /\ Head(port) = "sentinel"
                  /\ Complete(Disconnected)
                  /\ UNCHANGED pc
               \/ /\ l.res = Empty
                  /\ Head(port) = "ping"
                  /\ pc' = "rearm"
                  /\ UNCHANGED <<pending, waiting, out>>
      BY <1>7 DEF WakeLook
    <2>2. /\ pc = "idle" /\ port # <<>>
          /\ kind' = kind /\ closure' = closure /\ sent' = sent
          /\ waiting
      BY <1>7 DEF WakeLook, WaiterInv
    <2>3. CASE l.res = Empty
      <3>1. chan = <<>> /\ chan' = <<>> /\ ProducerAlive
        BY <2>1, <2>3, LookCases, Kinds
      <3>2. Head(port) # "sentinel"
        BY <2>2, <3>1, Dequeued DEF SentinelInv, ProducerAlive
      <3>3. pc' = "rearm" /\ waiting' = waiting /\ out' = out
        BY <2>1, <2>3, <3>2
      <3>4. Hidden
        BY <2>2, <3>1, <3>3 DEF Hidden, ProducerAlive
      <3>5. QED
        BY <3>4, HiddenIsStutter
    <2>4. CASE l.res # Empty
      <3>1. out' = l.res /\ waiting' = FALSE /\ pc' = pc
        BY <2>1, <2>2, <2>4 DEF Complete
      <3>2. Contract!Answered
        BY <2>1, <2>2, <2>4, <3>1, LookIsAnswered
      <3>3. Contract!Serve
        BY <2>2, <3>1, <3>2 DEF Contract!Serve, ProducerAlive
      <3>4. QED
        BY <3>3 DEF Contract!Step
    <2>5. QED
      BY <2>3, <2>4
  <1>8. CASE WakeLookAgain
    <2>1. PICK l \in Looks("wakeAgain") :
            /\ chan' = l.rest
            /\ \/ l.res = Empty /\ UNCHANGED <<pending, waiting, out>>
               \/ l.res # Empty /\ Complete(l.res)
      BY <1>8 DEF WakeLookAgain
    <2>2. /\ pc = "wakeAgain" /\ pc' = "idle"
          /\ kind' = kind /\ closure' = closure /\ sent' = sent
          /\ waiting
      BY <1>8 DEF WakeLookAgain, WaiterInv
    <2>3. CASE l.res = Empty
      <3>1. chan = <<>> /\ chan' = <<>>
        BY <2>1, <2>3, LookCases, Kinds
      <3>2. Hidden
        BY <2>1, <2>2, <2>3, <3>1 DEF Hidden, ProducerAlive
      <3>3. QED
        BY <3>2, HiddenIsStutter
    <2>4. CASE l.res # Empty
      <3>1. out' = l.res /\ waiting' = FALSE
        BY <2>1, <2>2, <2>4 DEF Complete
      <3>2. Contract!Answered
        BY <2>1, <2>2, <2>4, <3>1, LookIsAnswered
      <3>3. Contract!Serve
        BY <2>2, <3>1, <3>2 DEF Contract!Serve, ProducerAlive
      <3>4. QED
        BY <3>3 DEF Contract!Step
    <2>5. QED
      BY <2>3, <2>4
  <1>9. QED
    BY <1>1, <1>2, <1>3, <1>4, <1>5, <1>6, <1>7, <1>8 DEF Wake

LEMMA TeardownSimulates ==
  ASSUME RefInv,
         Close \/ SessionClose \/ SessionCloseReturn \/ HandlerDrop
           \/ UndeclareBegin \/ UndeclareReturn \/ TeeDrop \/ PortClose
  PROVE  Contract!Step \/ UNCHANGED Contract!vars
  <1> USE CloseNextType DEF config, RefInv, RecvInv, TeeInv, TypeOK, TeardownPC
  <1>1. CASE Close
    <2>1. /\ waiting' = FALSE
          /\ waiting => out' = Disconnected
          /\ ~waiting => out' = out
      BY <1>1 DEF Close, Complete, WaiterInv
    <2>2. Contract!Close
      BY <1>1, <2>1, Answers DEF Close, Contract!Close, ProducerAlive, chanVars
    <2>3. QED
      BY <2>2 DEF Contract!Step
  <1>2. CASE \/ SessionClose \/ SessionCloseReturn \/ HandlerDrop
             \/ UndeclareBegin \/ UndeclareReturn \/ TeeDrop \/ PortClose
    <2>1. CASE SessionClose \/ SessionCloseReturn
      BY <2>1, HiddenIsStutter DEF SessionClose, SessionCloseReturn, Hidden,
                  ProducerAlive, chanVars
    <2>2. CASE HandlerDrop
      BY <2>2, HiddenIsStutter DEF HandlerDrop, Hidden, ProducerAlive
    <2>3. CASE UndeclareBegin
      BY <2>3, HiddenIsStutter DEF UndeclareBegin, Hidden, ProducerAlive,
                  chanVars, dartVars
    <2>4. CASE UndeclareReturn
      <3>1. pc' = "tee"
        BY <2>4 DEF UndeclareReturn, PhaseInv
      <3>2. QED
        BY <2>4, <3>1, HiddenIsStutter DEF UndeclareReturn, Hidden,
                  ProducerAlive, chanVars
    <2>5. CASE TeeDrop \/ PortClose
      BY <2>5, HiddenIsStutter DEF TeeDrop, PortClose, Hidden, ProducerAlive,
                  chanVars
    <2>6. QED
      BY <1>2, <2>1, <2>2, <2>3, <2>4, <2>5
  <1>3. QED
    BY <1>1, <1>2

\* The kind of channel is fixed by the declaration.
LEMMA KindStays == [Next]_vars => UNCHANGED kind
  <1> USE DEF config
  <1>1. Native => UNCHANGED kind
    BY DEF Native, Arrive, Push, PingIfArmed, PostPing, QueryDone, DropInner,
           PostSentinel, ReleaseClosure
  <1>2. DeclareAccepted \/ DeclareRefused \/ Application => UNCHANGED kind
    BY DEF DeclareAccepted, DeclareRefused, Application, TryRecv,
           RecvContended, RecvLook, Close, SessionClose
  <1>3. Wake \/ DartContinues => UNCHANGED kind
    BY DEF Wake, WakeIgnored, WakeLook, DartContinues, RecvArm, RecvLookAgain,
           WakeRearm, WakeLookAgain, HandlerDrop, UndeclareBegin,
           UndeclareReturn, TeeDrop, PortClose, SessionCloseReturn
  <1>4. Finished \/ UNCHANGED vars => UNCHANGED kind
    BY DEF Finished, vars
  <1>5. QED
    BY <1>1, <1>2, <1>3, <1>4 DEF Next, Dart

-----------------------------------------------------------------------------
\* The pull handle keeps the promises of PullContract: with its threads, tee,
\* port and closure drop it does nothing the contract does not allow
\* (pull_subscriber.dart:482-728, pull_queryable.dart, pull_replies.dart).
THEOREM HandleImplementsContract ==
  ASSUME SecondLookInfallible
  PROVE  Spec => ImplementsContract
  <1>1. Init => Contract!Init
    BY Answers DEF Init, Contract!Init, ProducerAlive, TeardownPC
  <1>2. RefInv /\ [Next]_vars => [Contract!Next]_Contract!vars
    <2> SUFFICES ASSUME RefInv, [Next]_vars
                 PROVE  Contract!Step \/ UNCHANGED Contract!vars
      BY KindStays DEF Contract!Next
    <2>1. CASE Native
      BY <2>1, NativeSimulates
    <2>2. CASE UNCHANGED vars
      <3>1. Hidden
        BY <2>2 DEF vars, config, chanVars, dartVars, Hidden, ProducerAlive
      <3>2. QED
        BY <3>1, HiddenIsStutter
    <2>3. CASE Dart
      BY <2>2, <2>3, SecondLookInfallible, ConsumeSimulates, TeardownSimulates
         DEF Dart, Application, DartContinues, Finished
    <2>4. QED
      BY <2>1, <2>2, <2>3 DEF Next
  <1>3. Spec => []RefInv
    BY RefInvAlways
  <1>4. QED
    BY <1>1, <1>2, <1>3, PTL DEF Spec, ImplementsContract, Contract!Spec

==============================================================================
