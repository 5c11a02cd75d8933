------------------------- MODULE NativeMemoryProofs --------------------------
(***************************************************************************)
(* Theorems about memory that native code allocates and Dart, native code  *)
(* or zenoh has to release, whoever comes last.                            *)
(*                                                                         *)
(*  ShmAsync    for every number of requests and of failed starts: the     *)
(*              provider is dropped at most once, not before it is closed  *)
(*              or collected, and never under a request zenoh has not      *)
(*              answered.                                                  *)
(*  Extraction  for every set of values: a tryRecv and a callback release  *)
(*              what they allocate, once, on every path, but what the      *)
(*              application is given, and both tell it what the value is.  *)
(***************************************************************************)
EXTENDS ShmAsync, Extraction, TLAPS

-----------------------------------------------------------------------------
(* ShmAsync.  The inductive invariant, in named parts.                     *)

\* zenoh's reference of the box of r, given back in delete_fn.
InZenoh(r) == IF request[r] \in {"pending", "answered"} THEN 1 ELSE 0

\* Dart has not given back its own.
DartHas(r) == refs[r] = InZenoh(r) + 1

\* The box of r drops the provider when zenoh lets go of it.
Armed(r) == owner[r] /\ refs[r] = InZenoh(r)

\* A box has no references but zenoh's and Dart's; what has not been started
\* has no box, and only what was answered is posted.
CountInv ==
  \A r \in Requests :
    /\ DartHas(r) \/ refs[r] = InZenoh(r)
    /\ r > started <=> request[r] = "unborn"
    /\ r > started => refs[r] = 0 /\ owner[r] = FALSE
    /\ post[r] # "none" => request[r] \in {"answered", "deleted"}

\* In the middle of allocGcDefragAsync the wrapper is open, the slot holds the
\* newest box, and the previous one still has Dart's reference; it has lost
\* the provider before it loses that.
MethodInv ==
  /\ step # "out" => /\ wrapper = "open"
                     /\ slotBox = started /\ slotBox # None
                     /\ previous < slotBox
                     /\ previous # None => DartHas(previous)
  /\ step \in {"deferred", "undeferred"} => previous # None /\ owner[slotBox]
  /\ step = "undeferred" => owner[previous] = FALSE

\* While the wrapper is open, a box that holds the provider, is in the slot or
\* hangs on the finalizer has Dart's reference, so none of them drops it; what
\* is unanswered, or answered but not handled, is the request in the slot.
OpenInv ==
  wrapper = "open" =>
    /\ drops = 0
    /\ finalizer # None
    /\ \A r \in Requests :
         /\ owner[r] => DartHas(r)
         /\ slotBox = r \/ finalizer = r => DartHas(r)
         /\ request[r] = "pending" \/ post[r] # "none"
              => slotBusy = r /\ slotBox = r
         /\ slotBox = r /\ step = "out" => owner[r] /\ finalizer = r

\* Once it is closed or collected, at most one box will still drop the
\* provider, none if it is dropped, and it is the box of the unanswered
\* request if there is one.
EndInv ==
  wrapper # "open" =>
    /\ finalizer = None
    /\ \A r \in Requests : drops = 1 => ~Armed(r)
    /\ \A r, s \in Requests : Armed(r) /\ Armed(s) => r = s
    /\ \A r \in Requests : request[r] = "pending" => Armed(r)

IInv == TypeOK /\ CountInv /\ MethodInv /\ OpenInv /\ EndInv

-----------------------------------------------------------------------------
(* The initial state satisfies the invariant.                              *)
LEMMA InitIInv == Init => IInv
  BY ShmAsyncAssumption
  DEF Init, IInv, TypeOK, CountInv, MethodInv, OpenInv, EndInv, InZenoh,
      Requests, None, Direct

(* Letting go of a referenced box keeps the types of what it changes, if   *)
(* the provider has not been dropped or this box does not hold it.         *)
LEMMA ReleaseType ==
  ASSUME TypeOK, NEW b \in Requests, refs[b] > 0, ReleaseBox(b),
         drops = 0 \/ refs[b] # 1 \/ owner[b] = FALSE
  PROVE  /\ refs' \in [Requests -> 0..2]
         /\ owner' \in [Requests -> BOOLEAN]
         /\ drops' \in 0..1
  <1>1. refs[b] - 1 \in 0..2
    BY DEF TypeOK
  <1>2. refs' \in [Requests -> 0..2]
    BY DEF TypeOK, ReleaseBox
  <1>3. owner' \in [Requests -> BOOLEAN]
    BY DEF TypeOK, ReleaseBox
  <1>4. drops' \in 0..1
    <2>1. CASE refs[b] = 1 /\ owner[b]
      BY <2>1 DEF ReleaseBox
    <2>2. CASE ~(refs[b] = 1 /\ owner[b])
      BY DEF TypeOK, ReleaseBox
    <2>3. QED
      BY <2>1, <2>2
  <1>5. QED
    BY <1>2, <1>3, <1>4

(* Start preserves the invariant. *)
LEMMA StartStep ==
  ASSUME IInv, Start
  PROVE  IInv'
  <1>1. TypeOK'
    BY ShmAsyncAssumption DEF IInv, TypeOK, Requests, Start, BoxRefs
  <1>2. CountInv'
    BY DEF IInv, TypeOK, CountInv, InZenoh, DartHas, None, Start, MayStart,
        BoxRefs
  <1>3. MethodInv'
    BY DEF IInv, TypeOK, CountInv, MethodInv, OpenInv, InZenoh, DartHas, None,
        Start, MayStart
  <1>4. OpenInv'
    BY DEF IInv, TypeOK, OpenInv, InZenoh, DartHas, Start, MayStart, BoxRefs
  <1>5. EndInv'
    BY DEF EndInv, Start, MayStart
  <1>6. QED
    BY <1>1, <1>2, <1>3, <1>4, <1>5 DEF IInv

(* StartFails preserves the invariant. *)
LEMMA StartFailsStep ==
  ASSUME IInv, StartFails
  PROVE  IInv'
  <1>1. TypeOK'
    BY ShmAsyncAssumption DEF IInv, TypeOK, StartFails, replyVars, boxVars
  <1>2. CountInv'
    BY DEF IInv, CountInv, InZenoh, DartHas, StartFails, replyVars, boxVars
  <1>3. MethodInv'
    BY DEF MethodInv, StartFails, MayStart
  <1>4. OpenInv'
    BY DEF IInv, OpenInv, InZenoh, DartHas, Requests, None, StartFails, MayStart,
        replyVars, boxVars
  <1>5. EndInv'
    BY DEF EndInv, StartFails, MayStart
  <1>6. QED
    BY <1>1, <1>2, <1>3, <1>4, <1>5 DEF IInv

(* Defer preserves the invariant. *)
LEMMA DeferStep ==
  ASSUME IInv, Defer
  PROVE  IInv'
  <1>1. TypeOK'
    <2>1. slotBox \in Requests
      BY DEF IInv, TypeOK, MethodInv, Defer
    <2>2. owner' \in [Requests -> BOOLEAN]
      BY <2>1 DEF IInv, TypeOK, Defer, HandOver
    <2>3. finalizer' \in Requests \cup {Direct, None}
      BY <2>1 DEF IInv, TypeOK, Defer, SwapFinalizer
    <2>4. step' \in {"out", "deferred"}
      BY DEF Defer
    <2>5. QED
      BY <2>2, <2>3, <2>4 DEF IInv, TypeOK, Defer, slotVars, replyVars
  <1>2. CountInv'
    BY DEF IInv, CountInv, MethodInv, InZenoh, DartHas, Requests, Defer, HandOver,
        replyVars
  <1>3. MethodInv'
    BY DEF IInv, TypeOK, MethodInv, InZenoh, DartHas, Defer, HandOver, slotVars,
        replyVars
  <1>4. OpenInv'
    BY DEF IInv, TypeOK, MethodInv, OpenInv, InZenoh, DartHas, Defer, HandOver,
        SwapFinalizer, slotVars, replyVars
  <1>5. EndInv'
    BY DEF IInv, MethodInv, EndInv, Defer
  <1>6. QED
    BY <1>1, <1>2, <1>3, <1>4, <1>5 DEF IInv

(* Undefer preserves the invariant. *)
LEMMA UndeferStep ==
  ASSUME IInv, Undefer
  PROVE  IInv'
  <1>1. TypeOK'
    BY DEF IInv, TypeOK, Undefer, slotVars, replyVars
  <1>2. CountInv'
    BY DEF IInv, CountInv, InZenoh, DartHas, Undefer, replyVars
  <1>3. MethodInv'
    BY DEF IInv, TypeOK, MethodInv, InZenoh, DartHas, Undefer, slotVars, replyVars
  <1>4. OpenInv'
    BY DEF IInv, OpenInv, InZenoh, DartHas, Undefer, slotVars, replyVars
  <1>5. EndInv'
    BY DEF IInv, MethodInv, EndInv, Undefer
  <1>6. QED
    BY <1>1, <1>2, <1>3, <1>4, <1>5 DEF IInv

(* ReleasePrevious preserves the invariant. *)
LEMMA ReleasePreviousStep ==
  ASSUME IInv, ReleasePrevious
  PROVE  IInv'
  <1>1. TypeOK'
    BY DEF IInv, TypeOK, MethodInv, InZenoh, DartHas, ReleasePrevious, ReleaseBox,
        SwapFinalizer, slotVars, replyVars
  <1>2. CountInv'
    BY DEF IInv, CountInv, MethodInv, InZenoh, DartHas, ReleasePrevious,
        ReleaseBox, replyVars
  <1>3. MethodInv'
    BY DEF MethodInv, ReleasePrevious
  <1>4. OpenInv'
    BY DEF IInv, MethodInv, OpenInv, InZenoh, DartHas, ReleasePrevious,
        ReleaseBox, SwapFinalizer, slotVars, replyVars
  <1>5. EndInv'
    BY DEF IInv, MethodInv, EndInv, ReleasePrevious
  <1>6. QED
    BY <1>1, <1>2, <1>3, <1>4, <1>5 DEF IInv

(* Close preserves the invariant. *)
LEMMA CloseStep ==
  ASSUME IInv, Close
  PROVE  IInv'
  <1>1. TypeOK'
    <2>1. /\ refs' \in [Requests -> 0..2]
          /\ owner' \in [Requests -> BOOLEAN]
          /\ drops' \in 0..1
          /\ slotBox' = None
      <3>1. CASE slotBox = None
        BY <3>1 DEF IInv, TypeOK, OpenInv, Close, CloseReleases
      <3>2. CASE slotBox # None
        <4>1. /\ slotBox \in Requests /\ ReleaseBox(slotBox)
              /\ drops = 0 /\ slotBox' = None
          BY <3>2 DEF IInv, TypeOK, OpenInv, Close, CloseReleases
        <4>2. refs[slotBox] > 0
          BY <4>1 DEF IInv, OpenInv, Close, DartHas, InZenoh
        <4>3. QED
          BY <4>1, <4>2, ReleaseType DEF IInv
      <3>3. QED
        BY <3>1, <3>2
    <2>2. /\ slotBusy' = None
          /\ slotPort' \in Requests \cup {None}
          /\ port' \in [Requests -> {"none", "pinning", "armed", "closed"}]
          /\ future' \in [Requests -> {"none", "pending", "ok", "error"}]
      <3>1. CASE slotBusy = None
        BY DEF IInv, TypeOK, Close, CloseAnswers, ClearSlot
      <3>2. CASE slotBusy # None
        BY <3>2 DEF IInv, TypeOK, Close, CloseAnswers
      <3>3. QED
        BY <3>1, <3>2
    <2>3. QED
      BY <2>1, <2>2 DEF IInv, TypeOK, Close, methodVars
  <1>2. CountInv'
    BY DEF IInv, TypeOK, CountInv, OpenInv, InZenoh, DartHas, Close,
        CloseReleases, ReleaseBox, methodVars
  <1>3. MethodInv'
    BY DEF MethodInv, Close, methodVars
  <1>4. OpenInv'
    BY DEF OpenInv, Close
  <1>5. EndInv'
    BY DEF IInv, TypeOK, OpenInv, EndInv, InZenoh, DartHas, Armed, Close,
        CloseReleases, ReleaseBox
  <1>6. QED
    BY <1>1, <1>2, <1>3, <1>4, <1>5 DEF IInv

(* Collect preserves the invariant. *)
LEMMA CollectStep ==
  ASSUME IInv, Collect
  PROVE  IInv'
  <1>1. TypeOK'
    <2>1. /\ refs' \in [Requests -> 0..2]
          /\ owner' \in [Requests -> BOOLEAN]
          /\ drops' \in 0..1
      <3>1. CASE finalizer = Direct
        BY <3>1 DEF IInv, TypeOK, OpenInv, Collect
      <3>2. CASE finalizer # Direct
        <4>1. /\ finalizer \in Requests /\ ReleaseBox(finalizer)
              /\ drops = 0
          BY <3>2 DEF IInv, TypeOK, OpenInv, Collect
        <4>2. refs[finalizer] > 0
          BY <4>1 DEF IInv, OpenInv, Collect, DartHas, InZenoh
        <4>3. QED
          BY <4>1, <4>2, ReleaseType DEF IInv
      <3>3. QED
        BY <3>1, <3>2
    <2>2. QED
      BY <2>1 DEF IInv, TypeOK, Collect, slotVars, methodVars, replyVars
  <1>2. CountInv'
    BY DEF IInv, TypeOK, CountInv, OpenInv, InZenoh, DartHas, Collect, ReleaseBox,
        methodVars, replyVars
  <1>3. MethodInv'
    BY DEF MethodInv, Collect, methodVars
  <1>4. OpenInv'
    BY DEF OpenInv, Collect
  <1>5. EndInv'
    BY ShmAsyncAssumption
    DEF IInv, TypeOK, OpenInv, EndInv, InZenoh, DartHas, Armed, Requests,
        Direct, Collect, ReleaseBox, replyVars
  <1>6. QED
    BY <1>1, <1>2, <1>3, <1>4, <1>5 DEF IInv

(* Answer preserves the invariant. *)
LEMMA AnswerStep ==
  ASSUME IInv, \E r \in Requests, result \in {"buffer", "refusal"} : Answer(r, result)
  PROVE  IInv'
  <1>0. PICK r \in Requests, result \in {"buffer", "refusal"} : Answer(r, result)
    OBVIOUS
  <1>1. TypeOK'
    BY DEF IInv, TypeOK, CountInv, MethodInv, Answer, slotVars, methodVars,
        boxVars
  <1>2. CountInv'
    BY DEF IInv, TypeOK, CountInv, InZenoh, DartHas, Answer, methodVars, boxVars
  <1>3. MethodInv'
    BY DEF IInv, MethodInv, InZenoh, DartHas, Answer, slotVars, methodVars,
        boxVars
  <1>4. OpenInv'
    BY DEF IInv, TypeOK, OpenInv, InZenoh, DartHas, Answer, slotVars, methodVars,
        boxVars
  <1>5. EndInv'
    BY DEF IInv, EndInv, InZenoh, Armed, Answer, boxVars
  <1>6. QED
    BY <1>1, <1>2, <1>3, <1>4, <1>5 DEF IInv

(* Delete preserves the invariant. *)
LEMMA DeleteStep ==
  ASSUME IInv, \E r \in Requests : Delete(r)
  PROVE  IInv'
  <1>0. PICK r \in Requests : Delete(r)
    OBVIOUS
  <1>1. TypeOK'
    <2>1. ReleaseBox(r) /\ request[r] = "answered"
      BY <1>0 DEF Delete
    <2>2. refs[r] > 0
      BY <2>1 DEF IInv, CountInv, DartHas, InZenoh
    <2>3. drops = 0 \/ refs[r] # 1 \/ owner[r] = FALSE
      BY <2>1 DEF IInv, TypeOK, OpenInv, EndInv, Armed, InZenoh
    <2>4. /\ refs' \in [Requests -> 0..2]
          /\ owner' \in [Requests -> BOOLEAN]
          /\ drops' \in 0..1
      BY <2>1, <2>2, <2>3, ReleaseType DEF IInv
    <2>5. QED
      BY <1>0, <2>4 DEF IInv, TypeOK, Delete, slotVars, methodVars
  <1>2. CountInv'
    BY DEF IInv, TypeOK, CountInv, InZenoh, DartHas, Delete, ReleaseBox,
        methodVars
  <1>3. MethodInv'
    BY DEF IInv, TypeOK, MethodInv, OpenInv, InZenoh, DartHas, Delete, ReleaseBox,
        slotVars, methodVars
  <1>4. OpenInv'
    BY DEF IInv, TypeOK, OpenInv, InZenoh, DartHas, Delete, ReleaseBox, slotVars,
        methodVars
  <1>5. EndInv'
    BY DEF IInv, TypeOK, EndInv, InZenoh, Armed, Delete, ReleaseBox
  <1>6. QED
    BY <1>1, <1>2, <1>3, <1>4, <1>5 DEF IInv

(* Handle preserves the invariant. *)
LEMMA HandleStep ==
  ASSUME IInv, \E r \in Requests : Handle(r)
  PROVE  IInv'
  <1>0. PICK r \in Requests : Handle(r)
    OBVIOUS
  <1>1. TypeOK'
    <2>1. /\ buffer' \in [Requests -> {"none", "carried", "owned", "released"}]
          /\ future' \in [Requests -> {"none", "pending", "ok", "error"}]
      <3>1. CASE future[r] = "pending"
        BY DEF IInv, TypeOK, Handle, Settle
      <3>2. CASE future[r] # "pending"
        BY DEF IInv, TypeOK, Handle, Settle
      <3>3. QED
        BY <3>1, <3>2
    <2>2. /\ port' \in [Requests -> {"none", "pinning", "armed", "closed"}]
          /\ slotBusy' = None /\ slotPort' = None
          /\ post' \in [Requests -> {"none", "buffer", "refusal"}]
      BY DEF IInv, TypeOK, Handle, Settle, ClearSlot
    <2>3. QED
      BY <2>2 DEF IInv, TypeOK, Handle, Settle, methodVars, boxVars
  <1>2. CountInv'
    BY DEF IInv, CountInv, InZenoh, DartHas, Handle, Settle, methodVars, boxVars
  <1>3. MethodInv'
    BY DEF MethodInv, Handle, Settle, methodVars
  <1>4. OpenInv'
    BY DEF IInv, TypeOK, CountInv, OpenInv, InZenoh, DartHas, Handle, Settle,
        boxVars
  <1>5. EndInv'
    BY DEF IInv, EndInv, InZenoh, Armed, Handle, Settle, boxVars
  <1>6. QED
    BY <1>1, <1>2, <1>3, <1>4, <1>5 DEF IInv

-----------------------------------------------------------------------------
(* Every step, and every stutter, preserves the invariant.                 *)
LEMMA NextIInv ==
  ASSUME IInv, [Next]_vars
  PROVE  IInv'
  <1>1. CASE Start
    BY <1>1, StartStep
  <1>2. CASE StartFails
    BY <1>2, StartFailsStep
  <1>3. CASE Method
    BY <1>3, DeferStep, UndeferStep, ReleasePreviousStep DEF Method
  <1>4. CASE Close
    BY <1>4, CloseStep
  <1>5. CASE Collect
    BY <1>5, CollectStep
  <1>6. CASE \E r \in Requests, result \in {"buffer", "refusal"} :
               Answer(r, result)
    BY <1>6, AnswerStep
  <1>7. CASE \E r \in Requests : Delete(r)
    BY <1>7, DeleteStep
  <1>8. CASE \E r \in Requests : Handle(r)
    BY <1>8, HandleStep
  <1>9. CASE UNCHANGED vars
    BY <1>9
    DEF IInv, TypeOK, CountInv, MethodInv, OpenInv, EndInv, InZenoh, DartHas,
        Armed, vars, slotVars, methodVars, boxVars, replyVars
  <1>10. QED
    BY <1>1, <1>2, <1>3, <1>4, <1>5, <1>6, <1>7, <1>8, <1>9 DEF Next

(* The invariant holds in every reachable state.                           *)
THEOREM Invariance == Spec => []IInv
  BY InitIInv, NextIInv, PTL DEF Spec

(* Every variable keeps its type; in particular a box is counted at most   *)
(* twice, and the shim drops the provider at most once.                    *)
THEOREM TypeCorrect == Spec => []TypeOK
  <1>1. IInv => TypeOK
    BY DEF IInv
  <1>2. QED
    BY <1>1, Invariance, PTL

(* close(), the finalizers, a replaced box and delete_fn never drop the    *)
(* provider under a request zenoh has not answered.                        *)
THEOREM RequestsHaveProvider == Spec => []NoDropUnderRequest
  <1>1. IInv => NoDropUnderRequest
    BY DEF IInv, TypeOK, OpenInv, EndInv, NoDropUnderRequest
  <1>2. QED
    BY <1>1, Invariance, PTL

(* An open wrapper has its provider, whatever boxes of finished requests   *)
(* are let go of in the meantime.                                          *)
THEOREM OpenWrapperHasProvider == Spec => []ProviderOutlivesUse
  <1>1. IInv => ProviderOutlivesUse
    BY DEF IInv, OpenInv, ProviderOutlivesUse
  <1>2. QED
    BY <1>1, Invariance, PTL

(* zenoh, the slot, the finalizer and the call that replaces a box only    *)
(* ever reach boxes that are not freed.                                    *)
THEOREM NoUseOfFreedBox == Spec => []HeldBoxIsLive
  <1>1. ASSUME IInv, NEW r \in Requests,
               \/ request[r] \in {"pending", "answered"}
               \/ slotBox = r /\ wrapper = "open"
               \/ finalizer = r
               \/ previous = r /\ step # "out"
        PROVE  refs[r] > 0
    <2>1. DartHas(r) \/ InZenoh(r) = 1
      BY <1>1 DEF IInv, MethodInv, OpenInv, EndInv, InZenoh, Requests, None
    <2>2. QED
      BY <1>1, <2>1 DEF IInv, CountInv, DartHas, InZenoh
  <1>2. IInv => HeldBoxIsLive
    BY <1>1 DEF HeldBoxIsLive
  <1>3. QED
    BY <1>2, Invariance, PTL

(* Nobody loses the provider or a box that may still be used.              *)
THEOREM ProviderIsHeld == Spec => []ProviderHeld
  <1>1. NoDropUnderRequest /\ ProviderOutlivesUse /\ HeldBoxIsLive
          => ProviderHeld
    BY DEF ProviderHeld
  <1>2. QED
    BY <1>1, RequestsHaveProvider, OpenWrapperHasProvider, NoUseOfFreedBox, PTL

-----------------------------------------------------------------------------
(* The port and the Future of a request.  The second invariant builds on   *)
(* the first: the slot holds the port of whatever is unanswered or not     *)
(* handled yet, also after close(), when it no longer holds the caller.    *)
PortInv ==
  \A r \in Requests :
    /\ slotBusy = r => slotPort = r
    /\ port[r] = "pinning" <=> slotBusy = r
    /\ future[r] = "pending" <=> slotBusy = r
    /\ slotPort = r => port[r] \in {"pinning", "armed"}
    /\ slotPort = r /\ wrapper # "closed" => slotBusy = r
    /\ request[r] = "pending" \/ post[r] # "none"
         => slotPort = r /\ future[r] # "ok"

BufferInv ==
  \A r \in Requests :
    /\ buffer[r] = "carried" <=> post[r] = "buffer"
    /\ buffer[r] = "owned" <=> future[r] = "ok"
    /\ r > started => buffer[r] = "none" /\ future[r] = "none"

DeliveryInv == PortInv /\ BufferInv

LEMMA InitDelivery == Init => DeliveryInv
  BY DEF Init, DeliveryInv, PortInv, BufferInv, Requests, None

(* Start: the port and the buffer of each request. *)
LEMMA StartDelivers ==
  ASSUME IInv, DeliveryInv, Start
  PROVE  DeliveryInv'
  <1>1. PortInv'
    BY DEF DeliveryInv, PortInv, IInv, TypeOK, Requests, None, Start, MayStart
  <1>2. BufferInv'
    BY DEF DeliveryInv, BufferInv, IInv, TypeOK, None, Start, MayStart
  <1>3. QED
    BY <1>1, <1>2 DEF DeliveryInv

(* StartFails: the port and the buffer of each request. *)
LEMMA StartFailsDelivers ==
  ASSUME IInv, DeliveryInv, StartFails
  PROVE  DeliveryInv'
  <1>1. PortInv'
    BY DEF DeliveryInv, PortInv, StartFails, MayStart, replyVars
  <1>2. BufferInv'
    BY DEF DeliveryInv, BufferInv, StartFails, replyVars
  <1>3. QED
    BY <1>1, <1>2 DEF DeliveryInv

(* Method: the port and the buffer of each request. *)
LEMMA MethodDelivers ==
  ASSUME IInv, DeliveryInv, Method
  PROVE  DeliveryInv'
  <1>1. PortInv'
    BY DEF DeliveryInv, PortInv, Method, Defer, Undefer, ReleasePrevious,
        slotVars, replyVars
  <1>2. BufferInv'
    BY DEF DeliveryInv, BufferInv, Method, Defer, Undefer, ReleasePrevious,
        replyVars
  <1>3. QED
    BY <1>1, <1>2 DEF DeliveryInv

(* Close: the port and the buffer of each request. *)
LEMMA CloseDelivers ==
  ASSUME IInv, DeliveryInv, Close
  PROVE  DeliveryInv'
  <1>1. PortInv'
    BY ShmAsyncAssumption
    DEF DeliveryInv, PortInv, IInv, TypeOK, Requests, None, Close,
        CloseAnswers, ClearSlot
  <1>2. BufferInv'
    BY DEF DeliveryInv, PortInv, BufferInv, IInv, TypeOK, Close, CloseAnswers,
        methodVars
  <1>3. QED
    BY <1>1, <1>2 DEF DeliveryInv

(* Collect: the port and the buffer of each request. *)
LEMMA CollectDelivers ==
  ASSUME IInv, DeliveryInv, Collect
  PROVE  DeliveryInv'
  <1>1. PortInv'
    BY DEF DeliveryInv, PortInv, Collect, slotVars, replyVars
  <1>2. BufferInv'
    BY DEF DeliveryInv, BufferInv, Collect, methodVars, replyVars
  <1>3. QED
    BY <1>1, <1>2 DEF DeliveryInv

(* Answer: the port and the buffer of each request. *)
LEMMA AnswerDelivers ==
  ASSUME IInv, DeliveryInv, \E r \in Requests, result \in {"buffer", "refusal"} : Answer(r, result)
  PROVE  DeliveryInv'
  <1>0. PICK s \in Requests, result \in {"buffer", "refusal"} : Answer(s, result)
    OBVIOUS
  <1>1. PortInv'
    BY DEF DeliveryInv, PortInv, IInv, TypeOK, Answer, slotVars
  <1>2. BufferInv'
    BY DEF DeliveryInv, PortInv, BufferInv, IInv, TypeOK, CountInv, Answer,
        methodVars
  <1>3. QED
    BY <1>1, <1>2 DEF DeliveryInv

(* Delete: the port and the buffer of each request. *)
LEMMA DeleteDelivers ==
  ASSUME IInv, DeliveryInv, \E r \in Requests : Delete(r)
  PROVE  DeliveryInv'
  <1>0. PICK s \in Requests : Delete(s)
    OBVIOUS
  <1>1. PortInv'
    BY DEF DeliveryInv, PortInv, Delete, slotVars
  <1>2. BufferInv'
    BY DEF DeliveryInv, BufferInv, Delete, methodVars
  <1>3. QED
    BY <1>1, <1>2 DEF DeliveryInv

(* Handle: the port and the buffer of each request. *)
LEMMA HandleDelivers ==
  ASSUME IInv, DeliveryInv, \E r \in Requests : Handle(r)
  PROVE  DeliveryInv'
  <1>0. PICK s \in Requests : Handle(s)
    OBVIOUS
  <1>1. PortInv'
    BY <1>0, ShmAsyncAssumption
    DEF DeliveryInv, PortInv, IInv, TypeOK, CountInv, Requests, None, Handle,
        Settle, ClearSlot, boxVars
  <1>2. BufferInv'
    BY DEF DeliveryInv, BufferInv, IInv, TypeOK, Handle, Settle, methodVars
  <1>3. QED
    BY <1>1, <1>2 DEF DeliveryInv

LEMMA NextDelivers ==
  ASSUME IInv, DeliveryInv, [Next]_vars
  PROVE  DeliveryInv'
  <1>1. CASE Start
    BY <1>1, StartDelivers
  <1>2. CASE StartFails
    BY <1>2, StartFailsDelivers
  <1>3. CASE Method
    BY <1>3, MethodDelivers
  <1>4. CASE Close
    BY <1>4, CloseDelivers
  <1>5. CASE Collect
    BY <1>5, CollectDelivers
  <1>6. CASE \E r \in Requests, result \in {"buffer", "refusal"} :
               Answer(r, result)
    BY <1>6, AnswerDelivers
  <1>7. CASE \E r \in Requests : Delete(r)
    BY <1>7, DeleteDelivers
  <1>8. CASE \E r \in Requests : Handle(r)
    BY <1>8, HandleDelivers
  <1>9. CASE UNCHANGED vars
    BY <1>9
    DEF DeliveryInv, PortInv, BufferInv, vars, slotVars, methodVars, replyVars
  <1>10. QED
    BY <1>1, <1>2, <1>3, <1>4, <1>5, <1>6, <1>7, <1>8, <1>9 DEF Next

THEOREM Delivery == Spec => []DeliveryInv
  <1>1. Spec => [](IInv /\ DeliveryInv)
    BY InitIInv, NextIInv, InitDelivery, NextDelivers, PTL DEF Spec
  <1>2. QED
    BY <1>1, PTL

(* A request pins the isolate exactly while a caller waits for it.         *)
THEOREM PinsWhileAwaited == Spec => []PinnedWhileAwaited
  <1>1. DeliveryInv => PinnedWhileAwaited
    BY DEF DeliveryInv, PortInv, PinnedWhileAwaited
  <1>2. QED
    BY <1>1, Delivery, PTL

(* A chunk is in a port that will deliver it or with the caller who was    *)
(* told so; close(), a late answer and a second request lose none.         *)
THEOREM NoChunkLost == Spec => []BuffersAccounted
  <1>1. DeliveryInv => BuffersAccounted
    BY DEF DeliveryInv, PortInv, BufferInv, BuffersAccounted
  <1>2. QED
    BY <1>1, Delivery, PTL
(* Through close(), late answers and failed starts, chunks and callers who *)
(* wait stay in step.                                                      *)
THEOREM NoRequestForgotten == Spec => []RequestsAccounted
  <1>1. BuffersAccounted /\ PinnedWhileAwaited => RequestsAccounted
    BY DEF RequestsAccounted
  <1>2. QED
    BY <1>1, NoChunkLost, PinsWhileAwaited, PTL

-----------------------------------------------------------------------------
(* That the provider goes at all.                                          *)

\* Between two methods the net of an open wrapper is the provider's own, or
\* a box that holds the provider.
NetInv ==
  wrapper = "open" /\ step = "out" => finalizer = Direct \/ owner[finalizer]

\* Once the wrapper is gone the provider is dropped, or will be with the box
\* of a request that zenoh is not done with.
LetGoInv ==
  wrapper # "open" =>
    drops = 1 \/ \E r \in Requests : Armed(r) /\ InZenoh(r) = 1

LastLetsGo ==
  wrapper # "open" /\ (\A r \in Requests : request[r] \in {"unborn", "deleted"})
    => drops = 1

\* Dart lets go of a box that holds the provider.
LEMMA BoxLetGo ==
  ASSUME IInv, NEW b \in Requests, owner[b], DartHas(b), drops = 0,
         ReleaseBox(b), request' = request
  PROVE  drops' = 1 \/ \E r \in Requests : Armed(r)' /\ InZenoh(r)' = 1
  <1>1. refs[b] = InZenoh(b) + 1 /\ InZenoh(b) \in {0, 1} /\ InZenoh(b)' = InZenoh(b)
    BY DEF DartHas, InZenoh
  <1>2. refs \in [Requests -> 0..2]
    BY DEF IInv, TypeOK
  <1>3. CASE InZenoh(b) = 0
    BY <1>1, <1>3 DEF ReleaseBox
  <1>4. CASE InZenoh(b) = 1
    <2>1. refs'[b] = 1 /\ owner'[b]
      BY <1>1, <1>2, <1>4 DEF ReleaseBox
    <2>2. Armed(b)' /\ InZenoh(b)' = 1
      BY <1>1, <1>4, <2>1 DEF Armed
    <2>3. QED
      BY <2>2
  <1>5. QED
    BY <1>1, <1>3, <1>4

LEMMA CloseLetsGo ==
  ASSUME IInv, Close
  PROVE  LetGoInv'
  <1>1. /\ wrapper = "open" /\ step = "out" /\ request' = request /\ drops = 0
        /\ slotBox \in Requests \cup {None}
    BY DEF Close, IInv, TypeOK, OpenInv
  <1>2. CASE slotBox = None
    BY <1>1, <1>2 DEF Close, CloseReleases, LetGoInv
  <1>3. CASE slotBox # None
    <2>1. /\ slotBox \in Requests /\ owner[slotBox] /\ DartHas(slotBox)
          /\ ReleaseBox(slotBox)
      BY <1>1, <1>3 DEF Close, CloseReleases, IInv, OpenInv
    <2>2. QED
      BY <1>1, <2>1, BoxLetGo DEF LetGoInv
  <1>4. QED
    BY <1>2, <1>3

LEMMA CollectLetsGo ==
  ASSUME IInv, NetInv, Collect
  PROVE  LetGoInv'
  <1>1. /\ wrapper = "open" /\ step = "out" /\ request' = request /\ drops = 0
        /\ finalizer \in Requests \cup {Direct}
    BY DEF Collect, IInv, TypeOK, OpenInv, replyVars
  <1>2. CASE finalizer = Direct
    BY <1>1, <1>2 DEF Collect, LetGoInv
  <1>3. CASE finalizer # Direct
    <2>1. /\ finalizer \in Requests /\ owner[finalizer] /\ DartHas(finalizer)
          /\ ReleaseBox(finalizer)
      BY <1>1, <1>3 DEF Collect, IInv, OpenInv, NetInv
    <2>2. QED
      BY <1>1, <2>1, BoxLetGo DEF LetGoInv
  <1>4. QED
    BY <1>2, <1>3

\* delete_fn: it takes zenoh's reference, and drops the provider if the box
\* was to.
LEMMA DeleteLetsGo ==
  ASSUME IInv, NetInv, LetGoInv, NEW s \in Requests, Delete(s)
  PROVE  NetInv' /\ LetGoInv'
  <1>1. /\ request[s] = "answered" /\ request' = [request EXCEPT ![s] = "deleted"]
        /\ ReleaseBox(s) /\ UNCHANGED <<wrapper, finalizer, step>>
    BY DEF Delete, methodVars
  <1>2. /\ refs \in [Requests -> 0..2] /\ owner \in [Requests -> BOOLEAN]
        /\ request \in [Requests -> {"unborn", "pending", "answered", "deleted"}]
        /\ drops \in {0, 1} /\ finalizer \in Requests \cup {Direct, None}
    BY DEF IInv, TypeOK
  <1>3. NetInv'
    <2>1. CASE wrapper = "open"
      <3>1. owner[s] => refs[s] = 2
        BY <1>1, <2>1 DEF IInv, OpenInv, DartHas, InZenoh
      <3>2. UNCHANGED owner
        BY <1>1, <3>1 DEF ReleaseBox
      <3>3. QED
        BY <1>1, <3>2 DEF NetInv
    <2>2. CASE wrapper # "open"
      BY <1>1, <2>2 DEF NetInv
    <2>3. QED
      BY <2>1, <2>2
  <1>4. ASSUME wrapper # "open", drops = 0
        PROVE  drops' = 1 \/ \E r \in Requests : Armed(r)' /\ InZenoh(r)' = 1
    <2>1. PICK r \in Requests : Armed(r) /\ InZenoh(r) = 1
      BY <1>4 DEF LetGoInv
    <2>2. CASE r = s
      BY <1>1, <1>4, <2>1, <2>2 DEF ReleaseBox, Armed
    <2>3. CASE r # s
      <3>1. request'[r] = request[r] /\ refs'[r] = refs[r] /\ owner'[r] = owner[r]
        BY <1>1, <1>2, <2>3 DEF ReleaseBox
      <3>2. Armed(r)' /\ InZenoh(r)' = 1
        BY <2>1, <3>1 DEF Armed, InZenoh
      <3>3. QED
        BY <3>2
    <2>4. QED
      BY <2>2, <2>3
  <1>5. drops = 1 => drops' = 1
    <2>1. SUFFICES ASSUME drops = 1
                   PROVE  drops' = 1
      OBVIOUS
    <2>2. ~(refs[s] = 1 /\ owner[s])
      <3>1. wrapper # "open" /\ ~Armed(s)
        BY <2>1 DEF IInv, OpenInv, EndInv
      <3>2. QED
        BY <1>1, <3>1 DEF Armed, InZenoh
    <2>3. QED
      BY <1>1, <2>1, <2>2 DEF ReleaseBox
  <1>6. LetGoInv'
    BY <1>1, <1>2, <1>4, <1>5 DEF LetGoInv
  <1>7. QED
    BY <1>3, <1>6

LEMMA LetGoStep ==
  ASSUME IInv, NetInv, LetGoInv, [Next]_vars
  PROVE  NetInv' /\ LetGoInv'
  <1>1. CASE Start \/ StartFails
    BY <1>1 DEF Start, StartFails, MayStart, NetInv, LetGoInv, boxVars
  <1>2. CASE Method
    <2>1. wrapper = "open" /\ wrapper' = "open" /\ slotBox \in Requests
      BY <1>2 DEF Method, Defer, Undefer, ReleasePrevious, IInv, TypeOK, MethodInv
    <2>2. LetGoInv'
      BY <2>1 DEF LetGoInv
    <2>3. CASE Defer
      <3>1. owner' = [owner EXCEPT ![slotBox] = TRUE] /\ owner'[slotBox]
        BY <2>1, <2>3 DEF Defer, HandOver, IInv, TypeOK
      <3>2. step' # "out" \/ finalizer' = slotBox
        BY <2>3 DEF Defer, SwapFinalizer
      <3>3. CASE step' # "out"
        BY <2>2, <3>3 DEF NetInv
      <3>4. CASE finalizer' = slotBox
        <4>1. owner'[finalizer']
          BY <3>1, <3>4
        <4>2. QED
          BY <2>2, <4>1 DEF NetInv
      <3>5. QED
        BY <3>2, <3>3, <3>4
    <2>4. CASE Undefer
      <3>1. step' # "out"
        BY <2>4 DEF Undefer
      <3>2. QED
        BY <2>2, <3>1 DEF NetInv
    <2>5. CASE ReleasePrevious
      <3>1. owner[previous] = FALSE /\ owner[slotBox]
        BY <2>5 DEF ReleasePrevious, IInv, MethodInv
      <3>2. UNCHANGED owner /\ finalizer' = slotBox
        BY <2>5, <3>1 DEF ReleasePrevious, ReleaseBox, SwapFinalizer
      <3>3. owner'[finalizer']
        BY <3>1, <3>2
      <3>4. QED
        BY <2>2, <3>3 DEF NetInv
    <2>6. QED
      BY <1>2, <2>2, <2>3, <2>4, <2>5 DEF Method
  <1>3. CASE Close
    BY <1>3, CloseLetsGo DEF Close, NetInv
  <1>4. CASE Collect
    BY <1>4, CollectLetsGo DEF Collect, NetInv
  <1>5. ASSUME NEW r \in Requests, NEW result \in {"buffer", "refusal"},
               Answer(r, result)
        PROVE  NetInv' /\ LetGoInv'
    <2>1. /\ UNCHANGED <<wrapper, finalizer, step, refs, owner, drops>>
          /\ request[r] = "pending" /\ request' = [request EXCEPT ![r] = "answered"]
      BY <1>5 DEF Answer, methodVars, boxVars
    <2>2. \A s \in Requests : InZenoh(s)' = InZenoh(s)
      BY <2>1 DEF InZenoh, IInv, TypeOK
    <2>3. QED
      BY <2>1, <2>2 DEF NetInv, LetGoInv, Armed
  <1>6. CASE \E r \in Requests : Delete(r)
    BY <1>6, DeleteLetsGo
  <1>7. CASE \E r \in Requests : Handle(r)
    BY <1>7 DEF Handle, Settle, NetInv, LetGoInv, Armed, InZenoh, methodVars, boxVars
  <1>8. CASE UNCHANGED vars
    BY <1>8 DEF vars, methodVars, boxVars, replyVars, NetInv, LetGoInv, Armed, InZenoh
  <1>9. QED
    BY <1>1, <1>2, <1>3, <1>4, <1>5, <1>6, <1>7, <1>8 DEF Next

\* A provider that was closed or collected has been dropped when zenoh's
\* delete_fn of the last request has run, also when a start failed and
\* slot.box was overwritten with 0 (shm_provider.dart:797), and when the
\* result of a request came after close() (shm_provider.dart:952-1024): what
\* is left of it is never a box that nobody will release.
THEOREM ProviderGoesWithTheLast == Spec => []LastLetsGo
  <1>1. Init => NetInv /\ LetGoInv
    BY DEF Init, NetInv, LetGoInv
  <1>2. IInv /\ NetInv /\ LetGoInv /\ [Next]_vars => (NetInv /\ LetGoInv)'
    BY LetGoStep
  <1>3. LetGoInv => LastLetsGo
    BY DEF LetGoInv, LastLetsGo, InZenoh
  <1>4. QED
    BY <1>1, <1>2, <1>3, Invariance, PTL DEF Spec


-----------------------------------------------------------------------------
(* Extraction.  The sites of a tryRecv: what each claims, and gives back.  *)

\* What the sites before the n-th have claimed, and released again.
Claimed(n) == {b \in Blocks : \E i \in DOMAIN Sites : i < n /\ b \in Sites[i].claims}
Temps(n) == {b \in Blocks : \E i \in DOMAIN Sites : i < n /\ b \in Sites[i].temp}

\* The blocks that Dart becomes the owner of.
Given == (IF wire.column = "query" THEN {"wrapper"} ELSE {})
           \cup (Handles \ {"query"})

SitesOK ==
  /\ DOMAIN Sites = 1..Len(Sites) /\ Len(Sites) \in Nat
  /\ \A i \in DOMAIN Sites :
       /\ Sites[i].claims \subseteq Fields \cup {"wrapper", "retained"}
       /\ Sites[i].temp \subseteq {"encString"}
       /\ Sites[i].claims \cap {"wrapper", "retained"} \subseteq Given
  /\ \A i, j \in DOMAIN Sites : i < j =>
       /\ Sites[i].claims \cap Sites[j].claims = {}
       /\ Sites[i].temp \cap Sites[j].temp = {}

\* A site that fails gives back the value and what the sites before it have
\* claimed, and nothing twice.
FailureOK ==
  \A j \in DOMAIN Sites :
    Sites[j].guarded /\ Sites[j].claims \ {"retained"} # {} =>
      /\ {"value"} \cup Sites[j].temp \subseteq Sites[j].releases
      /\ \A i \in DOMAIN Sites : i < j =>
           /\ Sites[i].claims \subseteq Sites[j].releases
           /\ Sites[i].temp \cap Sites[j].releases = {}

\* Every handle has a site, and a field without one is what Dart takes it for.
CoverageOK ==
  /\ \A b \in Given : \E i \in DOMAIN Sites : b \in Sites[i].claims
  /\ \A f \in Fields :
       \/ \E i \in DOMAIN Sites : f \in Sites[i].claims
       \/ wire[f] = IF f = "payload" /\ wire.column # "query" THEN "empty"
                                                             ELSE "absent"

LEMMA SampleSites ==
  ASSUME wire \in Wires, retain \in BOOLEAN, wire.column = "sample"
  PROVE  SitesOK /\ FailureOK /\ CoverageOK
  <1>1. Sites = <<SampleKeyexpr, SamplePayload, SampleEncoding,
                  SampleAttachment, SampleTimestamp, CloneSite>>
    BY DEF Sites, zd_pull_subscriber_try_recv
  <1>2. /\ Len(Sites) = 6 /\ DOMAIN Sites = 1..6
        /\ Sites[1] = SampleKeyexpr /\ Sites[2] = SamplePayload
        /\ Sites[3] = SampleEncoding /\ Sites[4] = SampleAttachment
        /\ Sites[5] = SampleTimestamp /\ Sites[6] = CloneSite
    BY <1>1
  <1>3. /\ Sites[1].claims = {"keyexpr"}
        /\ Sites[2].claims = IF wire.payload = "data" THEN {"payload"} ELSE {}
        /\ Sites[3].claims = {"encoding"}
        /\ Sites[4].claims = IF wire.attachment # "absent" THEN {"attachment"} ELSE {}
        /\ Sites[5].claims = IF wire.timestamp # "absent" THEN {"timestamp"} ELSE {}
        /\ Sites[6].claims = IF retain THEN {"retained"} ELSE {}
    BY <1>2 DEF SampleKeyexpr, SamplePayload,
           SampleEncoding, SampleAttachment, SampleTimestamp, CloneSite,
           EncodingSite, Site, Present
  <1>4. /\ Sites[3].temp = {"encString"}
        /\ \A i \in {1, 2, 4, 5, 6} : Sites[i].temp = {}
    BY <1>2 DEF SampleKeyexpr, SamplePayload,
           SampleEncoding, SampleAttachment, SampleTimestamp, CloneSite,
           EncodingSite, Site
  <1>5. /\ Sites[1].releases = {"value"}
        /\ Sites[2].releases = {"keyexpr", "value"}
        /\ Sites[3].releases = {"encString", "keyexpr", "payload", "value"}
        /\ Sites[4].releases = {"keyexpr", "payload", "encoding", "value"}
        /\ Sites[5].guarded = FALSE
    BY <1>2 DEF SampleKeyexpr, SamplePayload,
           SampleEncoding, SampleAttachment, SampleTimestamp, CloneSite,
           EncodingSite, Site
  <1>6. \A i \in 1..6 : i \in {1, 2, 3, 4, 5, 6}
    OBVIOUS
  <1> HIDE DEF Sites
  <1>7. SitesOK
    BY <1>2, <1>3, <1>4, <1>6 DEF SitesOK, Fields, Given, Handles
  <1>8. FailureOK
    BY <1>2, <1>3, <1>4, <1>5, <1>6 DEF FailureOK
  <1>9. CoverageOK
    BY <1>2, <1>3, ExtractionAssumption DEF CoverageOK, Given, Handles, Fields, Columns
  <1>10. QED
    BY <1>7, <1>8, <1>9

LEMMA OkSites ==
  ASSUME wire \in Wires, retain \in BOOLEAN, wire.column = "ok"
  PROVE  SitesOK /\ FailureOK /\ CoverageOK
  <1> DEFINE given == reply_out_release \cup {"value"}
             s == Sites
  <1>1. Sites = <<ReplierZid, ReplySite("keyexpr", TRUE),
                  ReplySite("payload", wire.payload = "data"), ReplyEncoding,
                  ReplySite("attachment", Present("attachment")),
                  ReplySite("timestamp", Present("timestamp")), CloneSite>>
    BY DEF Sites, OkReply
  <1>2. /\ Len(s) = 7 /\ DOMAIN s = 1..7
        /\ s[1] = ReplierZid /\ s[2] = ReplySite("keyexpr", TRUE)
        /\ s[3] = ReplySite("payload", wire.payload = "data")
        /\ s[4] = ReplyEncoding
        /\ s[5] = ReplySite("attachment", Present("attachment"))
        /\ s[6] = ReplySite("timestamp", Present("timestamp"))
        /\ s[7] = CloneSite
    BY <1>1
  <1> HIDE DEF s
  <1>3. /\ s[1].claims = (IF wire.zid # "absent" THEN {"zid"} ELSE {})
        /\ s[1].temp = {} /\ s[1].releases = {"value"}
    BY <1>2 DEF ReplierZid, Site, Present
  <1>4. s[2].claims = {"keyexpr"} /\ s[2].temp = {} /\ s[2].releases = given
    BY <1>2 DEF ReplySite, Site
  <1>5. /\ s[3].claims = (IF wire.payload = "data" THEN {"payload"} ELSE {})
        /\ s[3].temp = {} /\ s[3].releases = given
    BY <1>2 DEF ReplySite, Site
  <1>6. /\ s[4].claims = {"encoding"} /\ s[4].temp = {"encString"}
        /\ s[4].releases = given \cup {"encString"}
    BY <1>2 DEF ReplyEncoding, EncodingSite, Site
  <1>7. /\ s[5].claims = (IF wire.attachment # "absent" THEN {"attachment"} ELSE {})
        /\ s[5].temp = {} /\ s[5].releases = given
    BY <1>2 DEF ReplySite, Site, Present
  <1>8. /\ s[6].claims = (IF wire.timestamp # "absent" THEN {"timestamp"} ELSE {})
        /\ s[6].temp = {} /\ s[6].releases = given
    BY <1>2 DEF ReplySite, Site, Present
  <1>9. s[7].claims = (IF retain THEN {"retained"} ELSE {}) /\ s[7].temp = {}
    BY <1>2 DEF CloneSite, Site
  <1>10. \A i \in 1..7 : i \in {1, 2, 3, 4, 5, 6, 7}
    OBVIOUS
  <1>11. SitesOK
    <2>1. \A i \in 1..7 : /\ s[i].claims \subseteq Fields \cup {"wrapper", "retained"}
                          /\ s[i].temp \subseteq {"encString"}
      BY <1>3, <1>4, <1>5, <1>6, <1>7, <1>8, <1>9, <1>10 DEF Fields
    <2>2. \A i \in 1..7 : s[i].claims \cap {"wrapper", "retained"} \subseteq Given
      BY <1>3, <1>4, <1>5, <1>6, <1>7, <1>8, <1>9, <1>10 DEF Given, Handles
    <2> DEFINE place(b) == CASE b = "zid" -> 1        [] b = "keyexpr" -> 2
                             [] b = "payload" -> 3    [] b = "encoding" -> 4
                             [] b = "attachment" -> 5 [] b = "timestamp" -> 6
                             [] OTHER -> 7
    <2>3. \A i \in 1..7 : /\ \A b \in s[i].claims : place(b) = i
                          /\ s[i].temp # {} => i = 4
      BY <1>3, <1>4, <1>5, <1>6, <1>7, <1>8, <1>9, <1>10
    <2> HIDE DEF place
    <2>4. \A i, j \in 1..7 : i < j => /\ s[i].claims \cap s[j].claims = {}
                                      /\ s[i].temp \cap s[j].temp = {}
      BY <2>3
    <2>5. QED
      BY <1>2, <2>1, <2>2, <2>4 DEF SitesOK, s
  <1>12. FailureOK
    <2>1. \A j \in 1..7 : s[j].claims \ {"retained"} # {} =>
            /\ j # 7 /\ {"value"} \cup s[j].temp \subseteq s[j].releases
            /\ j = 1 \/ s[j].releases = given \cup s[j].temp
      BY <1>3, <1>4, <1>5, <1>6, <1>7, <1>8, <1>9, <1>10
    <2>2. \A i \in 1..7 : i # 7 => /\ s[i].claims \subseteq given
                                   /\ s[i].temp # {} => i = 4 /\ s[i].temp = {"encString"}
      BY <1>3, <1>4, <1>5, <1>6, <1>7, <1>8, <1>10 DEF reply_out_release
    <2>3. "encString" \notin given
      BY DEF reply_out_release
    <2> HIDE DEF given
    <2>4. QED
      BY <1>2, <2>1, <2>2, <2>3 DEF FailureOK, s
  <1>13. CoverageOK
    <2>1. \A i \in 1..7 : i \in DOMAIN s
      BY <1>2
    <2>2. \A b \in Given : b \in s[7].claims
      BY <1>9 DEF Given, Handles
    <2>3. \A f \in Fields : \/ \E i \in 1..7 : f \in s[i].claims
                            \/ wire[f] = IF f = "payload" THEN "empty" ELSE "absent"
      <3>1. wire["parameters"] = "absent" /\ wire["payload"] \in {"empty", "data"}
        BY ExtractionAssumption DEF Columns, Fields
      <3>2. QED
        BY <1>3, <1>4, <1>5, <1>6, <1>7, <1>8, <3>1 DEF Fields
    <2>4. QED
      BY <2>1, <2>2, <2>3, <1>2 DEF CoverageOK, s
  <1>14. QED
    BY <1>11, <1>12, <1>13

LEMMA ErrorSites ==
  ASSUME wire \in Wires, retain \in BOOLEAN, wire.column = "error"
  PROVE  SitesOK /\ FailureOK /\ CoverageOK
  <1> DEFINE given == reply_out_release \cup {"value"}
  <1>1. Sites = <<ReplierZid, ReplySite("payload", wire.payload = "data"),
                  ReplyEncoding>>
    BY DEF Sites, ErrorReply
  <1>2. /\ Len(Sites) = 3 /\ DOMAIN Sites = 1..3
        /\ Sites[1] = ReplierZid
        /\ Sites[2] = ReplySite("payload", wire.payload = "data")
        /\ Sites[3] = ReplyEncoding
    BY <1>1
  <1> HIDE DEF Sites
  <1>3. /\ Sites[1].claims = (IF wire.zid # "absent" THEN {"zid"} ELSE {})
        /\ Sites[1].temp = {} /\ Sites[1].releases = {"value"}
    BY <1>2 DEF ReplierZid, Site, Present
  <1>4. /\ Sites[2].claims = (IF wire.payload = "data" THEN {"payload"} ELSE {})
        /\ Sites[2].temp = {} /\ Sites[2].releases = given
    BY <1>2 DEF ReplySite, Site
  <1>5. /\ Sites[3].claims = {"encoding"} /\ Sites[3].temp = {"encString"}
        /\ Sites[3].releases = given \cup {"encString"}
    BY <1>2 DEF ReplyEncoding, EncodingSite, Site
  <1>6. \A i \in 1..3 : i \in {1, 2, 3}
    OBVIOUS
  <1>7. SitesOK
    BY <1>2, <1>3, <1>4, <1>5, <1>6 DEF SitesOK, Fields, Given, Handles
  <1>8. FailureOK
    BY <1>2, <1>3, <1>4, <1>5, <1>6 DEF FailureOK, reply_out_release
  <1>9. CoverageOK
    BY <1>2, <1>3, <1>4, <1>5, ExtractionAssumption
       DEF CoverageOK, Given, Handles, Fields, Columns
  <1>10. QED
    BY <1>7, <1>8, <1>9

LEMMA QuerySites ==
  ASSUME wire \in Wires, retain \in BOOLEAN, wire.column = "query"
  PROVE  SitesOK /\ FailureOK /\ CoverageOK
  <1> DEFINE given == ZD_QUERY_RECV_FAIL
             s == Sites
             q == QuerySite("encoding", Present("encoding"))
             enc == IF wire.encoding # "absent" THEN {"encString"} ELSE {}
             last == [q EXCEPT !.releases = @ \cup {"encString"},
                               !.temp = IF Present("encoding") THEN {"encString"}
                                                               ELSE {}]
  <1>1. Sites = <<Site("wrapper", TRUE, {"value"}),
                  QuerySite("keyexpr", TRUE), QuerySite("parameters", TRUE),
                  QuerySite("payload", Present("payload")),
                  QuerySite("attachment", Present("attachment")), last>>
    BY DEF Sites, zd_query_channel_try_recv
  <1> HIDE DEF last
  <1>2. /\ Len(s) = 6 /\ DOMAIN s = 1..6
        /\ s[1] = Site("wrapper", TRUE, {"value"})
        /\ s[2] = QuerySite("keyexpr", TRUE)
        /\ s[3] = QuerySite("parameters", TRUE)
        /\ s[4] = QuerySite("payload", Present("payload"))
        /\ s[5] = QuerySite("attachment", Present("attachment"))
        /\ s[6] = last
    BY <1>1
  <1> HIDE DEF s
  <1>3. /\ s[1].claims = {"wrapper"} /\ s[1].temp = {}
        /\ s[1].releases = {"value"}
    BY <1>2 DEF Site
  <1>4. s[2].claims = {"keyexpr"} /\ s[2].temp = {} /\ s[2].releases = given
    BY <1>2 DEF QuerySite, Site
  <1>5. s[3].claims = {"parameters"} /\ s[3].temp = {} /\ s[3].releases = given
    BY <1>2 DEF QuerySite, Site
  <1>6. /\ s[4].claims = (IF wire.payload # "absent" THEN {"payload"} ELSE {})
        /\ s[4].temp = {} /\ s[4].releases = given
    BY <1>2 DEF QuerySite, Site, Present
  <1>7. /\ s[5].claims = (IF wire.attachment # "absent" THEN {"attachment"} ELSE {})
        /\ s[5].temp = {} /\ s[5].releases = given
    BY <1>2 DEF QuerySite, Site, Present
  <1>8. /\ s[6].claims = (IF wire.encoding # "absent" THEN {"encoding"} ELSE {})
        /\ s[6].temp = enc /\ s[6].releases = given \cup {"encString"}
    <2>1. q = [claims |-> IF wire.encoding # "absent" THEN {"encoding"} ELSE {},
               releases |-> given, temp |-> {}, guarded |-> TRUE]
      BY DEF QuerySite, Site, Present
    <2>2. last = [q EXCEPT !.releases = q.releases \cup {"encString"}, !.temp = enc]
      BY DEF last, Present
    <2> HIDE DEF q, enc
    <2>3. /\ last.claims = q.claims /\ last.temp = enc
          /\ last.releases = q.releases \cup {"encString"}
      BY <2>1, <2>2
    <2>4. QED
      BY <1>2, <2>1, <2>3
  <1>9. \A i \in 1..6 : i \in {1, 2, 3, 4, 5, 6}
    OBVIOUS
  <1>10. SitesOK
    <2>1. \A i \in 1..6 : /\ s[i].claims \subseteq Fields \cup {"wrapper", "retained"}
                          /\ s[i].temp \subseteq {"encString"}
      BY <1>3, <1>4, <1>5, <1>6, <1>7, <1>8, <1>9 DEF Fields
    <2>2. \A i \in 1..6 : s[i].claims \cap {"wrapper", "retained"} \subseteq Given
      BY <1>3, <1>4, <1>5, <1>6, <1>7, <1>8, <1>9 DEF Given, Handles
    <2> DEFINE place(b) == CASE b = "wrapper" -> 1    [] b = "keyexpr" -> 2
                             [] b = "parameters" -> 3 [] b = "payload" -> 4
                             [] b = "attachment" -> 5 [] OTHER -> 6
    <2>3. \A i \in 1..6 : /\ \A b \in s[i].claims : place(b) = i
                          /\ s[i].temp # {} => i = 6
      BY <1>3, <1>4, <1>5, <1>6, <1>7, <1>8, <1>9
    <2> HIDE DEF place
    <2>4. \A i, j \in 1..6 : i < j => /\ s[i].claims \cap s[j].claims = {}
                                      /\ s[i].temp \cap s[j].temp = {}
      BY <2>3
    <2>5. QED
      BY <1>2, <2>1, <2>2, <2>4 DEF SitesOK, s
  <1>11. FailureOK
    <2>1. \A j \in 1..6 : s[j].claims # {} =>
            /\ {"value"} \cup s[j].temp \subseteq s[j].releases
            /\ j = 1 \/ given \subseteq s[j].releases
      BY <1>3, <1>4, <1>5, <1>6, <1>7, <1>8, <1>9 DEF ZD_QUERY_RECV_FAIL
    <2>2. \A i \in 1..6 : i # 6 => s[i].claims \subseteq given /\ s[i].temp = {}
      BY <1>3, <1>4, <1>5, <1>6, <1>7, <1>9 DEF ZD_QUERY_RECV_FAIL
    <2>3. QED
      BY <1>2, <2>1, <2>2 DEF FailureOK, s
  <1>12. CoverageOK
    <2>1. \A b \in Given : b \in s[1].claims
      BY <1>3 DEF Given, Handles
    <2>2. \A f \in Fields : \/ \E i \in 1..6 : f \in s[i].claims
                            \/ wire[f] = "absent"
      <3>1. wire["timestamp"] = "absent" /\ wire["zid"] = "absent"
        BY ExtractionAssumption DEF Columns, Fields
      <3>2. QED
        BY <1>4, <1>5, <1>6, <1>7, <1>8, <3>1 DEF Fields
    <2>3. \A i \in 1..6 : i \in DOMAIN s
      BY <1>2
    <2>4. \A b \in Given : \E i \in DOMAIN s : b \in s[i].claims
      BY <2>1, <2>3
    <2>5. QED
      BY <2>2, <2>3, <2>4 DEF CoverageOK, s
  <1>13. QED
    BY <1>10, <1>11, <1>12

LEMMA AllSites ==
  ASSUME wire \in Wires, retain \in BOOLEAN
  PROVE  SitesOK /\ FailureOK /\ CoverageOK
  <1>1. wire.column \in {"sample", "ok", "error", "query"}
    BY ExtractionAssumption
  <1>2. QED
    BY <1>1, SampleSites, OkSites, ErrorSites, QuerySites

-----------------------------------------------------------------------------
(* Extraction.  The invariant: what is allocated at every step.            *)

Outcomes == {"none", "data", "failed", "undecodable", "refused", Crashed}

\* What an element of a message is, and what Dart reads.
Readings == {"null", "EMPTY", "SLICE", "FAILED", "absent", "empty", "data",
             "undecodable", "garbage", Unseen}

Heaps == [Blocks -> {"none", "live", "freed", "wild"}]

ReadTypeInv ==
  /\ wire \in Wires
  /\ retain \in BOOLEAN
  /\ at \in [Surfaces -> Nat]
  /\ outcome \in [Surfaces -> Outcomes]
  /\ heap \in [Surfaces -> Heaps]
  /\ seen \in [Surfaces -> [Fields -> Readings]]
  /\ app \in [Surfaces -> SUBSET {"query", "retained", "extra"}]

\* The handles are live, and nothing else is.
OnlyHandles(s, B) ==
  \A b \in B : heap[s][b] = "live" <=> b \in Held(s)

\* Between two sites: the value, what the sites before have claimed, and the
\* strings they are through with.
Copying ==
  /\ app["pull"] = {}
  /\ \A b \in Blocks :
       heap["pull"][b] = IF b = "value" \/ b \in Claimed(at["pull"]) THEN "live"
                         ELSE IF b \in Temps(at["pull"]) THEN "freed" ELSE "none"

PullInv ==
  /\ at["pull"] \in 0..Len(Sites) + 2
  /\ outcome["pull"] \in {"none", "data", "failed", Crashed}
  /\ outcome["pull"] = "none" <=> at["pull"] # Len(Sites) + 2
  /\ outcome["pull"] = "none" => Copying
  /\ \A b \in Blocks : heap["pull"][b] # "wild"
  /\ outcome["pull"] # "data" => app["pull"] = {}
  /\ outcome["pull"] = "failed" => \A b \in Blocks : heap["pull"][b] # "live"
  /\ outcome["pull"] = "data" => /\ OnlyHandles("pull", Blocks)
                                 /\ seen["pull"] = [f \in Fields |-> wire[f]]

\* The callback is past a step.
Done(s) == \E i \in DOMAIN Steps : i < at["push"] /\ Steps[i] = s

\* What the steps that are done have allocated.
Made(b) ==
  \/ b = "value"
  \/ b \in {"wrapper", "clone"} /\ Done("clone")
  \/ b = "encString" /\ Done("encode") /\ Present("encoding")
  \/ b = "retained" /\ Done("retain") /\ retain
  \/ b \in {"payload", "attachment"} /\ seen["push"][b] = "SLICE"

Building ==
  /\ app["push"] = {}
  /\ \A b \in Blocks : heap["push"][b] = IF Made(b) THEN "live" ELSE "none"
  /\ \A f \in {"payload", "attachment"} :
       seen["push"][f] \in IF Done(f) THEN bytes_to_cobject(f) ELSE {"null"}

\* What is released when the callback returns, and what the message carries.
Scratch == {"value", "payload", "attachment", "encString"}
Carried == {"wrapper", "clone", "retained"}

Posted ==
  /\ at["push"] \in {Len(Steps), Len(Steps) + 1}
  /\ \A b \in Blocks : heap["push"][b] # "wild"
  /\ \A b \in Scratch : IF at["push"] = Len(Steps)
                          THEN heap["push"][b] \in {"none", "live"}
                          ELSE heap["push"][b] # "live"
  /\ \A b \in Blocks \ (Scratch \cup Carried \cup {"extra"}) :
       heap["push"][b] = "none"
  /\ outcome["push"] # "data" => app["push"] = {} /\ heap["push"]["extra"] = "none"
  /\ outcome["push"] \in {"failed", "refused"} =>
       \A b \in Carried : heap["push"][b] # "live"
  /\ outcome["push"] = "data" => /\ OnlyHandles("push", Carried \cup {"extra"})
                                 /\ seen["push"] = [f \in Fields |-> wire[f]]

PushInv ==
  /\ outcome["push"] \in Outcomes \ {Crashed}
  /\ outcome["push"] = "none" => at["push"] \in 0..Len(Steps) - 1 /\ Building
  /\ outcome["push"] # "none" => Posted

ReadInv == ReadTypeInv /\ PullInv /\ PushInv

\* One surface, and the value both read.
Surface(s) == <<wire, retain, at[s], outcome[s], heap[s], seen[s], app[s]>>

LEMMA SitesKept ==
  ASSUME UNCHANGED <<wire, retain>>
  PROVE  Sites' = Sites
  BY DEF Sites, zd_pull_subscriber_try_recv, OkReply, ErrorReply,
         zd_query_channel_try_recv, SampleKeyexpr, SamplePayload, SampleEncoding,
         SampleAttachment, SampleTimestamp, CloneSite, ReplierZid, ReplySite,
         ReplyEncoding, QuerySite, EncodingSite, Site, Present, reply_out_release,
         ZD_QUERY_RECV_FAIL

LEMMA PullKept ==
  ASSUME PullInv, UNCHANGED Surface("pull")
  PROVE  PullInv'
  <1>1. UNCHANGED <<wire, retain>>
    BY DEF Surface
  <1>2. Sites' = Sites
    BY <1>1, SitesKept
  <1>3. /\ at'["pull"] = at["pull"] /\ outcome'["pull"] = outcome["pull"]
        /\ heap'["pull"] = heap["pull"] /\ seen'["pull"] = seen["pull"]
        /\ app'["pull"] = app["pull"]
    BY DEF Surface
  <1>4. \A n : Claimed(n)' = Claimed(n) /\ Temps(n)' = Temps(n)
    BY <1>2 DEF Claimed, Temps
  <1> HIDE DEF Sites
  <1>5. QED
    BY <1>1, <1>2, <1>3, <1>4 DEF PullInv, Copying, OnlyHandles, Held

LEMMA PushKept ==
  ASSUME PushInv, UNCHANGED Surface("push")
  PROVE  PushInv'
  <1>1. UNCHANGED <<wire, retain>>
    BY DEF Surface
  <1>2. Steps' = Steps
    BY <1>1 DEF Steps
  <1>3. /\ at'["push"] = at["push"] /\ outcome'["push"] = outcome["push"]
        /\ heap'["push"] = heap["push"] /\ seen'["push"] = seen["push"]
        /\ app'["push"] = app["push"]
    BY DEF Surface
  <1>4. \A s : Done(s)' <=> Done(s)
    BY <1>2, <1>3 DEF Done
  <1>5. \A b : Made(b)' <=> Made(b)
    BY <1>1, <1>3, <1>4 DEF Made, Present
  <1>6. Building => Building'
    BY <1>1, <1>3, <1>4, <1>5 DEF Building, bytes_to_cobject, Present
  <1>7. Posted => Posted'
    BY <1>1, <1>2, <1>3 DEF Posted, OnlyHandles, Held, Scratch, Carried
  <1>8. QED
    BY <1>2, <1>3, <1>6, <1>7 DEF PushInv, Outcomes

\* The steps of a callback.
StepsOK ==
  /\ DOMAIN Steps = 1..Len(Steps) /\ Len(Steps) \in Nat /\ Len(Steps) >= 4
  /\ \A i, j \in DOMAIN Steps : Steps[i] = Steps[j] => i = j
  /\ \A i \in DOMAIN Steps :
       /\ Steps[i] = "post" <=> i = Len(Steps) - 1
       /\ Steps[i] = "clean" <=> i = Len(Steps)
       /\ Steps[i] = "clone" => i = 1
  /\ \A s \in {"encode", "payload", "attachment", "clone", "retain"} :
       (\E i \in DOMAIN Steps : Steps[i] = s) <=>
         CASE s = "attachment" -> wire.column # "error"
           [] s = "clone"      -> wire.column = "query"
           [] s = "retain"     -> wire.column \in {"sample", "ok"}
           [] OTHER            -> TRUE

LEMMA AllSteps ==
  ASSUME wire \in Wires
  PROVE  StepsOK
  <1>1. wire.column \in {"sample", "ok", "error", "query"}
    BY ExtractionAssumption
  <1>2. CASE wire.column = "error"
    <2>1. Steps = <<"encode", "payload", "post", "clean">>
      BY <1>2 DEF Steps, error_reply_callback
    <2> HIDE DEF Steps
    <2>2. /\ Len(Steps) = 4 /\ DOMAIN Steps = 1..4
          /\ Steps[1] = "encode" /\ Steps[2] = "payload" /\ Steps[3] = "post"
          /\ Steps[4] = "clean"
      BY <2>1
    <2>3. \A i \in 1..4 : i \in {1, 2, 3, 4}
      OBVIOUS
    <2>4. QED
      BY <1>2, <2>2, <2>3 DEF StepsOK
  <1>3. CASE wire.column \in {"sample", "ok"}
    <2>1. Steps = <<"encode", "payload", "attachment", "retain", "post", "clean">>
      BY <1>3 DEF Steps, sample_callback, ok_reply_callback
    <2> HIDE DEF Steps
    <2>2. /\ Len(Steps) = 6 /\ DOMAIN Steps = 1..6
          /\ Steps[1] = "encode" /\ Steps[2] = "payload"
          /\ Steps[3] = "attachment" /\ Steps[4] = "retain"
          /\ Steps[5] = "post" /\ Steps[6] = "clean"
      BY <2>1
    <2>3. \A i \in 1..6 : i \in {1, 2, 3, 4, 5, 6}
      OBVIOUS
    <2>4. QED
      BY <1>3, <2>2, <2>3 DEF StepsOK
  <1>4. CASE wire.column = "query"
    <2>1. Steps = <<"clone", "payload", "attachment", "encode", "post", "clean">>
      BY <1>4 DEF Steps, query_callback
    <2> HIDE DEF Steps
    <2>2. /\ Len(Steps) = 6 /\ DOMAIN Steps = 1..6
          /\ Steps[1] = "clone" /\ Steps[2] = "payload"
          /\ Steps[3] = "attachment" /\ Steps[4] = "encode"
          /\ Steps[5] = "post" /\ Steps[6] = "clean"
      BY <2>1
    <2>3. \A i \in 1..6 : i \in {1, 2, 3, 4, 5, 6}
      OBVIOUS
    <2>4. QED
      BY <1>4, <2>2, <2>3 DEF StepsOK
  <1>5. QED
    BY <1>1, <1>2, <1>3, <1>4

LEMMA HeapTyped ==
  \A h \in Heaps : \A B : Claim(h, B) \in Heaps /\ Release(h, B) \in Heaps
  BY DEF Claim, Release, Heaps

LEMMA WireTyped ==
  ASSUME wire \in Wires, NEW f \in Fields
  PROVE  wire[f] \in {"absent", "empty", "data"}
  BY ExtractionAssumption

LEMMA PullTyped ==
  ASSUME ReadTypeInv, NEW h
  PROVE  PullView(h) \in [Fields -> Readings]
  BY WireTyped DEF ReadTypeInv, PullView, Readings

\* What the post makes of the element of a field.
Element(f) ==
  CASE f \in {"payload", "attachment"} ->
         (CASE seen["push"][f] = "null"  -> "absent"
            [] seen["push"][f] = "EMPTY" -> "empty"
            [] seen["push"][f] = "SLICE" ->
                 IF heap["push"][f] = "live" THEN wire[f] ELSE "garbage"
            [] seen["push"][f] = "FAILED" -> "undecodable")
    [] f = "encoding" /\ Present(f) /\ heap["push"]["encString"] # "live" ->
         "garbage"
    [] OTHER -> wire[f]

LEMMA PushViewIs == PushView = [f \in Fields |-> Element(f)]
  BY DEF PushView, Element

LEMMA PushTyped ==
  ASSUME ReadTypeInv, PushInv, at["push"] \in DOMAIN Steps, outcome["push"] = "none"
  PROVE  PushView \in [Fields -> Readings]
  <1>1. \A f \in {"payload", "attachment"} :
          seen["push"][f] \in {"null", "EMPTY", "SLICE", "FAILED"}
    BY DEF PushInv, Building, bytes_to_cobject
  <1>2. ASSUME NEW f \in Fields
        PROVE  Element(f) \in Readings
    BY <1>1, WireTyped DEF Element, Readings, ReadTypeInv
  <1>3. QED
    BY <1>2, PushViewIs

\* A callback is in the middle of its code.
LEMMA StepPlace ==
  ASSUME ReadInv, NEW s, Step(s)
  PROVE  /\ at["push"] \in 1..Len(Steps) /\ Steps[at["push"]] = s /\ StepsOK
         /\ outcome["push"] = "none" <=> s # "clean"
  <1>1. StepsOK
    BY AllSteps DEF ReadInv, ReadTypeInv
  <1> HIDE DEF Steps
  <1>2. at["push"] \in 1..Len(Steps) /\ Steps[at["push"]] = s
    BY <1>1 DEF Step, StepsOK
  <1>3. s = "clean" <=> at["push"] = Len(Steps)
    BY <1>1, <1>2 DEF StepsOK
  <1>4. outcome["push"] = "none" => at["push"] # Len(Steps)
    BY <1>1 DEF ReadInv, PushInv, StepsOK
  <1>5. outcome["push"] # "none" => at["push"] = Len(Steps)
    BY <1>1, <1>2 DEF ReadInv, PushInv, Posted, StepsOK
  <1>6. QED
    BY <1>1, <1>2, <1>3, <1>4, <1>5

LEMMA TypeKept ==
  ASSUME ReadInv, ReadNext
  PROVE  ReadTypeInv'
  <1>0. /\ ReadTypeInv /\ PushInv /\ StepsOK /\ Len(Sites) \in Nat /\ Len(Steps) \in Nat
        /\ \A s \in Surfaces : at[s] \in Nat /\ heap[s] \in Heaps /\ outcome[s] \in Outcomes
    BY AllSites, AllSteps DEF ReadInv, ReadTypeInv, SitesOK, StepsOK
  <1> HIDE DEF Sites, Steps
  <1>s. "push" \in Surfaces /\ "pull" \in Surfaces
    BY DEF Surfaces
  <1>1. CASE ReceiveSample \/ ReceiveReply \/ ReceiveQuery \/ CallbackBegins
    BY <1>0, <1>1, <1>s DEF ReceiveSample, ReceiveReply, ReceiveQuery, Receive,
       CallbackBegins, ReadTypeInv
  <1>2. CASE CopyField
    BY <1>0, <1>2, <1>s, HeapTyped DEF CopyField, ReadTypeInv
  <1>3. CASE CopyFails
    <2>1. outcome' \in [Surfaces -> Outcomes]
      BY <1>0, <1>3 DEF CopyFails, ReadTypeInv, Outcomes
    <2>2. heap' \in [Surfaces -> Heaps]
      <3>1. PICK X \in Heaps : heap' = [heap EXCEPT !["pull"] = X] \/ heap' = heap
        BY <1>0, <1>3, <1>s, HeapTyped DEF CopyFails
      <3>2. CASE heap' = heap
        BY <3>2, <1>0 DEF ReadTypeInv
      <3>3. CASE heap' = [heap EXCEPT !["pull"] = X]
        BY <3>3, <1>0 DEF ReadTypeInv
      <3>4. QED
        BY <3>1, <3>2, <3>3
    <2>3. at' \in [Surfaces -> Nat]
      <3>1. at' = [at EXCEPT !["pull"] = Len(Sites) + 2]
        BY <1>3 DEF CopyFails
      <3>2. PICK n \in Nat : n = Len(Sites) + 2
        BY <1>0
      <3>3. at' = [at EXCEPT !["pull"] = n]
        BY <3>1, <3>2
      <3>4. QED
        BY <3>3, <1>0 DEF ReadTypeInv
    <2>4. UNCHANGED <<wire, retain, seen, app>>
      BY <1>3 DEF CopyFails
    <2>5. QED
      BY <2>1, <2>2, <2>3, <2>4, <1>0 DEF ReadTypeInv
  <1>4. CASE PullReturns
    <2>1. seen' \in [Surfaces -> [Fields -> Readings]]
      BY <1>0, <1>4, PullTyped DEF PullReturns, ReadTypeInv
    <2>2. heap' \in [Surfaces -> Heaps]
      BY <1>0, <1>4, <1>s, HeapTyped DEF PullReturns, ReadTypeInv
    <2>3. at' \in [Surfaces -> Nat] /\ outcome' \in [Surfaces -> Outcomes]
      BY <1>0, <1>4, <1>s DEF PullReturns, ReadTypeInv, Outcomes
    <2>4. app' \in [Surfaces -> SUBSET {"query", "retained", "extra"}]
      BY <1>0, <1>4 DEF PullReturns, ReadTypeInv, Handles
    <2>5. UNCHANGED <<wire, retain>>
      BY <1>4 DEF PullReturns
    <2>6. QED
      BY <2>1, <2>2, <2>3, <2>4, <2>5, <1>0 DEF ReadTypeInv
  <1>5. CASE CloneQuery
    <2>1. outcome' \in [Surfaces -> Outcomes]
      BY <1>0, <1>5 DEF CloneQuery, ReadTypeInv, Outcomes
    <2>2. heap' \in [Surfaces -> Heaps]
      BY <1>0, <1>5, <1>s, HeapTyped DEF CloneQuery, CallbackEnds, ReadTypeInv
    <2>3. at' \in [Surfaces -> Nat]
      BY <1>0, <1>5, <1>s DEF CloneQuery, StepDone, CallbackEnds, ReadTypeInv
    <2>4. UNCHANGED <<wire, retain, seen, app>>
      BY <1>5 DEF CloneQuery, Step
    <2>5. QED
      BY <2>1, <2>2, <2>3, <2>4, <1>0 DEF ReadTypeInv
  <1>6. CASE Encode \/ Retain
    <2>1. at' \in [Surfaces -> Nat]
      <3>1. at' = [at EXCEPT !["push"] = at["push"] + 1]
        BY <1>6 DEF Encode, Retain, StepDone
      <3>2. QED
        BY <3>1, <1>0, <1>s DEF ReadTypeInv
    <2>2. heap' \in [Surfaces -> Heaps]
      BY <1>0, <1>6, <1>s, HeapTyped DEF Encode, Retain, ReadTypeInv
    <2>3. UNCHANGED <<wire, retain, outcome, seen, app>>
      BY <1>6 DEF Encode, Retain, Step
    <2>4. QED
      BY <2>1, <2>2, <2>3, <1>0 DEF ReadTypeInv
  <1>7. ASSUME NEW f \in {"payload", "attachment"}, Convert(f)
        PROVE  ReadTypeInv'
    <2>1. PICK conv \in bytes_to_cobject(f) :
            /\ seen' = [seen EXCEPT !["push"] = [@ EXCEPT ![f] = conv]]
            /\ heap' = [heap EXCEPT !["push"] =
                          Claim(@, IF conv = "SLICE" THEN {f} ELSE {})]
      BY <1>7 DEF Convert
    <2>2. conv \in Readings
      BY DEF bytes_to_cobject, Readings
    <2>3. seen' \in [Surfaces -> [Fields -> Readings]]
      BY <1>0, <2>1, <2>2 DEF ReadTypeInv
    <2>4. heap' \in [Surfaces -> Heaps]
      BY <1>0, <2>1, <1>s, HeapTyped DEF ReadTypeInv
    <2>5. at' \in [Surfaces -> Nat]
      BY <1>0, <1>7, <1>s DEF Convert, StepDone, ReadTypeInv
    <2>6. UNCHANGED <<wire, retain, outcome, app>>
      BY <1>7 DEF Convert, Step
    <2>7. QED
      BY <2>3, <2>4, <2>5, <2>6, <1>0 DEF ReadTypeInv
  <1>8. CASE Post
    <2>1. PushView \in [Fields -> Readings]
      BY <1>0, <1>8, PushTyped, StepPlace DEF Post, Step
    <2>2. seen' \in [Surfaces -> [Fields -> Readings]]
      BY <1>0, <1>8, <2>1 DEF Post, ReadTypeInv, Readings
    <2>3. heap' \in [Surfaces -> Heaps]
      <3>1. \/ heap' = [heap EXCEPT !["push"] = Release(heap["push"], TakenBack)]
            \/ heap' = heap
        BY <1>8 DEF Post
      <3>2. CASE heap' = heap
        BY <3>2, <1>0 DEF ReadTypeInv
      <3>3. CASE heap' = [heap EXCEPT !["push"] = Release(heap["push"], TakenBack)]
        BY <3>3, <1>0, <1>s, HeapTyped DEF ReadTypeInv
      <3>4. QED
        BY <3>1, <3>2, <3>3
    <2>4. at' \in [Surfaces -> Nat]
      BY <1>0, <1>8, <1>s DEF Post, StepDone, ReadTypeInv
    <2>5. outcome' \in [Surfaces -> Outcomes]
      BY <1>0, <1>8 DEF Post, ReadTypeInv, Outcomes
    <2>6. app' \in [Surfaces -> SUBSET {"query", "retained", "extra"}]
      BY <1>0, <1>8 DEF Post, ReadTypeInv, Handles
    <2>7. UNCHANGED <<wire, retain>>
      BY <1>8 DEF Post, Step
    <2>8. QED
      BY <2>2, <2>3, <2>4, <2>5, <2>6, <2>7, <1>0 DEF ReadTypeInv
  <1>9. CASE Clean
    <2>1. heap' \in [Surfaces -> Heaps]
      BY <1>0, <1>9, <1>s, HeapTyped DEF Clean, CallbackEnds, ReadTypeInv
    <2>2. at' \in [Surfaces -> Nat]
      BY <1>0, <1>9, <1>s DEF Clean, CallbackEnds, ReadTypeInv
    <2>3. UNCHANGED <<wire, retain, outcome, seen, app>>
      BY <1>9 DEF Clean, Step
    <2>4. QED
      BY <2>1, <2>2, <2>3, <1>0 DEF ReadTypeInv
  <1>10. ASSUME NEW s \in Surfaces, NEW b \in {"retained", "extra"},
                PayloadZBytes(s) \/ DisposeQuery(s) \/ DisposeBytes(s, b)
         PROVE  ReadTypeInv'
    <2>1. heap' \in [Surfaces -> Heaps]
      <3>1. PICK X \in Heaps : heap' = [heap EXCEPT ![s] = X]
        BY <1>0, <1>10, HeapTyped DEF PayloadZBytes, DisposeQuery, DisposeBytes
      <3>2. QED
        BY <3>1, <1>0 DEF ReadTypeInv
    <2>2. app' \in [Surfaces -> SUBSET {"query", "retained", "extra"}]
      BY <1>0, <1>10 DEF PayloadZBytes, DisposeQuery, DisposeBytes, ReadTypeInv
    <2>3. UNCHANGED <<wire, retain, at, outcome, seen>>
      BY <1>10 DEF PayloadZBytes, DisposeQuery, DisposeBytes
    <2>4. QED
      BY <2>1, <2>2, <2>3, <1>0 DEF ReadTypeInv
  <1>11. QED
    BY <1>1, <1>2, <1>3, <1>4, <1>5, <1>6, <1>7, <1>8, <1>9, <1>10 DEF ReadNext

\* What a tryRecv has claimed, site by site.
LEMMA NextSite ==
  ASSUME SitesOK, NEW n \in DOMAIN Sites
  PROVE  /\ \A b \in Blocks : b \in Claimed(n + 1) <=> b \in Claimed(n) \/ b \in Sites[n].claims
         /\ \A b \in Blocks : b \in Temps(n + 1) <=> b \in Temps(n) \/ b \in Sites[n].temp
         /\ \A b \in Claimed(n) : b \notin Sites[n].claims
         /\ \A b \in Temps(n) : b \notin Sites[n].temp
  <1> HIDE DEF Sites
  <1>1. n \in Nat
    BY DEF SitesOK
  <1>2. \A i \in DOMAIN Sites : i < n + 1 <=> i < n \/ i = n
    BY <1>1 DEF SitesOK
  <1>3. QED
    BY <1>2 DEF SitesOK, Claimed, Temps

LEMMA NoSite ==
  ASSUME SitesOK, NEW n \in {0, 1}
  PROVE  Claimed(n) = {} /\ Temps(n) = {}
  <1> HIDE DEF Sites
  <1>1. \A i \in DOMAIN Sites : ~(i < n)
    BY DEF SitesOK
  <1>2. QED
    BY <1>1 DEF Claimed, Temps

LEMMA ClaimedBlocks ==
  ASSUME SitesOK, NEW n
  PROVE  /\ Claimed(n) \subseteq Blocks \cap (Fields \cup {"wrapper", "retained"})
         /\ Claimed(n) \cap {"wrapper", "retained"} \subseteq Given
         /\ Temps(n) \subseteq {"encString"}
  <1> HIDE DEF Sites
  <1> QED
    BY DEF SitesOK, Claimed, Temps

LEMMA ReceiveKept ==
  ASSUME ReadInv, NEW columns, Receive(columns)
  PROVE  PullInv' /\ UNCHANGED Surface("push")
  <1>1. SitesOK
    BY AllSites DEF ReadInv, ReadTypeInv
  <1>2. Sites' = Sites
    BY SitesKept DEF Receive
  <1> HIDE DEF Sites
  <1>3. /\ at["pull"] = 0 /\ at' = [at EXCEPT !["pull"] = 1]
        /\ UNCHANGED <<wire, retain, outcome, heap, seen, app>>
    BY DEF Receive
  <1>4. at'["pull"] = 1 /\ at'["push"] = at["push"]
    BY <1>3 DEF ReadInv, ReadTypeInv, Surfaces
  <1>5. Len(Sites) \in Nat
    BY <1>1 DEF SitesOK
  <1>6. outcome["pull"] = "none" /\ Copying
    BY <1>3, <1>5 DEF ReadInv, PullInv
  <1>7. Claimed(1)' = Claimed(1) /\ Temps(1)' = Temps(1)
    BY <1>2 DEF Claimed, Temps
  <1>8. Copying'
    BY <1>1, <1>3, <1>4, <1>6, <1>7, NoSite DEF Copying
  <1>9. PullInv'
    BY <1>2, <1>3, <1>4, <1>5, <1>6, <1>8 DEF ReadInv, PullInv
  <1>10. QED
    BY <1>3, <1>4, <1>9 DEF Surface

LEMMA CopyFieldKept ==
  ASSUME ReadInv, CopyField
  PROVE  PullInv' /\ UNCHANGED Surface("push")
  <1> DEFINE n == at["pull"]
             h == heap["pull"]
             claims == Sites[n].claims
             temp == Sites[n].temp
             k == Release(Claim(h, claims \cup temp), temp)
  <1>1. SitesOK
    BY AllSites DEF ReadInv, ReadTypeInv
  <1>2. Sites' = Sites
    BY SitesKept DEF CopyField
  <1>3. /\ n \in DOMAIN Sites /\ at' = [at EXCEPT !["pull"] = n + 1]
        /\ heap' = [heap EXCEPT !["pull"] = k]
        /\ UNCHANGED <<wire, retain, outcome, seen, app>>
    BY DEF CopyField
  <1> HIDE DEF Sites
  <1>4. /\ at'["pull"] = n + 1 /\ at'["push"] = at["push"]
        /\ heap'["pull"] = k /\ heap'["push"] = heap["push"]
    BY <1>3 DEF ReadInv, ReadTypeInv, Surfaces
  <1>5. n \in 1..Len(Sites) /\ Len(Sites) \in Nat
    BY <1>1, <1>3 DEF SitesOK
  <1>6. outcome["pull"] = "none" /\ Copying
    BY <1>5 DEF ReadInv, PullInv
  <1>7. \A m : Claimed(m)' = Claimed(m) /\ Temps(m)' = Temps(m)
    BY <1>2 DEF Claimed, Temps
  <1>8. ASSUME NEW b \in Blocks
        PROVE  k[b] = IF b = "value" \/ b \in Claimed(n + 1) THEN "live"
                      ELSE IF b \in Temps(n + 1) THEN "freed" ELSE "none"
    <2>1. h[b] = IF b = "value" \/ b \in Claimed(n) THEN "live"
                 ELSE IF b \in Temps(n) THEN "freed" ELSE "none"
      BY <1>6 DEF Copying
    <2>2. k[b] = IF b \in temp THEN "freed" ELSE IF b \in claims THEN "live" ELSE h[b]
      BY DEF Release, Claim
    <2>3. /\ temp \subseteq {"encString"} /\ "encString" \notin Claimed(n + 1)
          /\ "encString" # "value"
      BY <1>1, <1>3, ClaimedBlocks DEF SitesOK, Fields
    <2> HIDE DEF k, h
    <2>4. QED
      BY <1>1, <1>3, <2>1, <2>2, <2>3, NextSite
  <1> HIDE DEF k, h, claims, temp
  <1>9. Copying'
    BY <1>3, <1>4, <1>6, <1>7, <1>8 DEF Copying
  <1>10. \A b \in Blocks : k[b] # "wild"
    BY <1>8
  <1>11. PullInv'
    BY <1>2, <1>3, <1>4, <1>5, <1>6, <1>9, <1>10 DEF ReadInv, PullInv
  <1>12. QED
    BY <1>3, <1>4, <1>11 DEF Surface

LEMMA CopyFailsKept ==
  ASSUME ReadInv, CopyFails
  PROVE  PullInv' /\ UNCHANGED Surface("push")
  <1> DEFINE n == at["pull"]
             h == heap["pull"]
             claims == Sites[n].claims
             temp == Sites[n].temp
             releases == Sites[n].releases
             k == Release(Claim(h, temp), releases)
  <1>1. SitesOK /\ FailureOK
    BY AllSites DEF ReadInv, ReadTypeInv
  <1>2. Sites' = Sites
    BY SitesKept DEF CopyFails
  <1>3. /\ n \in DOMAIN Sites /\ at' = [at EXCEPT !["pull"] = Len(Sites) + 2]
        /\ UNCHANGED <<wire, retain, seen, app>>
        /\ claims \ {"retained"} # {}
        /\ \/ /\ Sites[n].guarded
              /\ outcome' = [outcome EXCEPT !["pull"] = "failed"]
              /\ heap' = [heap EXCEPT !["pull"] = k]
           \/ outcome' = [outcome EXCEPT !["pull"] = Crashed] /\ UNCHANGED heap
    BY DEF CopyFails
  <1> HIDE DEF Sites
  <1>4. at'["pull"] = Len(Sites) + 2 /\ at'["push"] = at["push"]
    BY <1>3 DEF ReadInv, ReadTypeInv, Surfaces
  <1>5. n \in 1..Len(Sites) /\ Len(Sites) \in Nat
    BY <1>1, <1>3 DEF SitesOK
  <1>6. outcome["pull"] = "none" /\ Copying
    BY <1>5 DEF ReadInv, PullInv
  <1>7. CASE outcome' = [outcome EXCEPT !["pull"] = Crashed] /\ UNCHANGED heap
    <2>1. /\ outcome'["pull"] = Crashed /\ outcome'["push"] = outcome["push"]
          /\ heap'["pull"] = h /\ heap'["push"] = heap["push"]
      BY <1>7 DEF ReadInv, ReadTypeInv, Surfaces
    <2>2. Crashed \notin {"none", "data", "failed"}
      BY DEF Crashed
    <2>3. PullInv'
      BY <1>2, <1>3, <1>4, <1>5, <1>6, <2>1, <2>2 DEF ReadInv, PullInv, Copying
    <2>4. QED
      BY <1>3, <1>4, <2>1, <2>3 DEF Surface
  <1>8. CASE /\ Sites[n].guarded
             /\ outcome' = [outcome EXCEPT !["pull"] = "failed"]
             /\ heap' = [heap EXCEPT !["pull"] = k]
    <2>1. /\ outcome'["pull"] = "failed" /\ outcome'["push"] = outcome["push"]
          /\ heap'["pull"] = k /\ heap'["push"] = heap["push"]
      BY <1>8 DEF ReadInv, ReadTypeInv, Surfaces
    <2>2. ASSUME NEW b \in Blocks
          PROVE  k[b] \in {"none", "freed"}
      <3>1. h[b] = IF b = "value" \/ b \in Claimed(n) THEN "live"
                   ELSE IF b \in Temps(n) THEN "freed" ELSE "none"
        BY <1>6 DEF Copying
      <3>2. k[b] = LET c == IF b \in temp THEN "live" ELSE h[b] IN
                   IF b \notin releases \/ c = "none" THEN c
                   ELSE IF c = "live" THEN "freed" ELSE "wild"
        BY DEF Release, Claim
      <3> HIDE DEF k, h
      <3>3. /\ "value" \in releases /\ temp \subseteq releases
            /\ \A i \in DOMAIN Sites : i < n =>
                 /\ Sites[i].claims \subseteq releases
                 /\ Sites[i].temp \cap releases = {}
        BY <1>1, <1>3, <1>8 DEF FailureOK
      <3>4. b \in Claimed(n) => b \in releases
        BY <3>3 DEF Claimed
      <3>5. b \in Temps(n) => b \notin releases
        BY <3>3 DEF Temps
      <3>6. QED
        BY <3>1, <3>2, <3>3, <3>4, <3>5
    <2> HIDE DEF k, h
    <2>3. PullInv'
      BY <1>2, <1>3, <1>4, <1>5, <1>6, <2>1, <2>2 DEF ReadInv, PullInv, Copying
    <2>4. QED
      BY <1>3, <1>4, <2>1, <2>3 DEF Surface
  <1>9. QED
    BY <1>3, <1>7, <1>8

LEMMA PullReturnsKept ==
  ASSUME ReadInv, PullReturns
  PROVE  PullInv' /\ UNCHANGED Surface("push")
  <1> DEFINE n == at["pull"]
             h == heap["pull"]
             given == Fields \cup IF wire.column = "query" THEN {} ELSE {"value"}
             k == Release(h, given)
  <1>1. SitesOK /\ CoverageOK
    BY AllSites DEF ReadInv, ReadTypeInv
  <1>2. Sites' = Sites
    BY SitesKept DEF PullReturns
  <1>3. /\ n = Len(Sites) + 1 /\ at' = [at EXCEPT !["pull"] = n + 1]
        /\ outcome' = [outcome EXCEPT !["pull"] = "data"]
        /\ seen' = [seen EXCEPT !["pull"] = PullView(h)]
        /\ app' = [app EXCEPT !["pull"] = Handles]
        /\ heap' = [heap EXCEPT !["pull"] = k]
        /\ UNCHANGED <<wire, retain>>
    BY DEF PullReturns
  <1> HIDE DEF Sites
  <1>4. /\ at'["pull"] = n + 1 /\ at'["push"] = at["push"]
        /\ outcome'["pull"] = "data" /\ outcome'["push"] = outcome["push"]
        /\ seen'["pull"] = PullView(h) /\ seen'["push"] = seen["push"]
        /\ app'["pull"] = Handles /\ app'["push"] = app["push"]
        /\ heap'["pull"] = k /\ heap'["push"] = heap["push"]
    BY <1>3 DEF ReadInv, ReadTypeInv, Surfaces
  <1>5. Len(Sites) \in Nat
    BY <1>1 DEF SitesOK
  <1>6. Copying
    BY <1>3, <1>5 DEF ReadInv, PullInv
  <1>7. \A b \in Blocks : /\ b \in Claimed(n) <=> \E i \in DOMAIN Sites : b \in Sites[i].claims
                          /\ b \in Temps(n) => b = "encString"
    <2>1. \A i \in DOMAIN Sites : i < n
      BY <1>1, <1>3 DEF SitesOK
    <2>2. QED
      BY <1>1, <2>1, ClaimedBlocks DEF Claimed
  <1>8. \A b \in Blocks : h[b] = "live" <=> b = "value" \/ b \in Claimed(n)
    BY <1>6 DEF Copying
  <1>9. \A b \in Blocks : h[b] # "wild"
    BY DEF ReadInv, PullInv
  <1>10. ASSUME NEW b \in Blocks
         PROVE  /\ k[b] # "wild"
                /\ k[b] = "live" <=> h[b] = "live" /\ b \notin given
    BY <1>6, <1>7, <1>9 DEF Release, Copying, Fields
  <1>11. ASSUME NEW f \in Fields
         PROVE  PullView(h)[f] = wire[f]
    <2>1. f \in Blocks /\ f # "value"
      BY DEF Fields, Blocks
    <2>2. h[f] = "live" \/ wire[f] = IF f = "payload" /\ wire.column # "query"
                                       THEN "empty" ELSE "absent"
      BY <1>1, <1>7, <1>8, <2>1 DEF CoverageOK
    <2> HIDE DEF h
    <2>3. QED
      BY <2>2 DEF PullView
  <1>12. PullView(h) = [f \in Fields |-> wire[f]]
    BY <1>11 DEF PullView
  <1>13. ASSUME NEW b \in Blocks
         PROVE  k[b] = "live" <=> b \in Held("pull")'
    <2>1. b \in Held("pull")' <=> \/ wire.column = "query" /\ b \in {"wrapper", "value"}
                                  \/ b \in Handles \ {"query"}
      BY <1>4 DEF Held, Handles
    <2>2. Given \subseteq Blocks \cap {"wrapper", "retained"}
      BY DEF Given, Handles, Blocks
    <2>3. b \in Claimed(n) => b \in Fields \/ b \in Given
      BY <1>1, ClaimedBlocks
    <2>4. b \in Given => b \in Claimed(n) /\ b \notin given
      BY <1>1, <1>7, <2>2 DEF CoverageOK, Fields
    <2>5. b \in Given <=> \/ wire.column = "query" /\ b = "wrapper"
                          \/ b \in Handles \ {"query"}
      BY DEF Given
    <2>6. "value" \in Blocks \ Fields /\ "value" \notin Claimed(n)
      BY <1>1, ClaimedBlocks DEF Fields, Blocks
    <2> HIDE DEF k, h
    <2>7. QED
      BY <1>8, <1>10, <2>1, <2>3, <2>4, <2>5, <2>6
  <1> HIDE DEF k, h
  <1>14. seen'["pull"] = [f \in Fields |-> wire'[f]]
    BY <1>3, <1>4, <1>12
  <1>15. OnlyHandles("pull", Blocks)'
    BY <1>4, <1>13 DEF OnlyHandles
  <1>16. \A b \in Blocks : heap'["pull"][b] # "wild"
    BY <1>4, <1>10
  <1>17. at'["pull"] = Len(Sites)' + 2 /\ at'["pull"] \in 0..Len(Sites)' + 2
    BY <1>2, <1>3, <1>4, <1>5
  <1>18. PullInv'
    BY <1>4, <1>14, <1>15, <1>16, <1>17 DEF PullInv
  <1>19. QED
    BY <1>3, <1>4, <1>18 DEF Surface

\* What the application does with its handles on the pull side.
LEMMA PullHandles ==
  ASSUME ReadInv, NEW b \in {"retained", "extra"},
         PayloadZBytes("pull") \/ DisposeQuery("pull") \/ DisposeBytes("pull", b)
  PROVE  PullInv' /\ UNCHANGED Surface("push")
  <1> DEFINE h == heap["pull"]
             a == app["pull"]
  <1>1. UNCHANGED <<wire, retain, at, outcome, seen>> /\ a # {}
    BY DEF PayloadZBytes, DisposeQuery, DisposeBytes
  <1>2. outcome["pull"] = "data" /\ OnlyHandles("pull", Blocks)
    BY <1>1 DEF ReadInv, PullInv
  <1>3. a \in SUBSET {"query", "retained", "extra"}
    BY DEF ReadInv, ReadTypeInv, Surfaces
  <1>4. \A c \in Blocks : h[c] # "wild" /\ (h[c] = "live" <=> c \in Held("pull"))
    BY <1>2 DEF ReadInv, PullInv, OnlyHandles
  <1>5. Sites' = Sites
    BY <1>1, SitesKept
  <1> HIDE DEF Sites
  <1>6. SUFFICES /\ \A c \in Blocks : /\ heap'["pull"][c] # "wild"
                                      /\ heap'["pull"][c] = "live" <=> c \in Held("pull")'
                 /\ heap'["push"] = heap["push"] /\ app'["push"] = app["push"]
    BY <1>1, <1>2, <1>5 DEF ReadInv, PullInv, OnlyHandles, Surface
  <1>7. CASE PayloadZBytes("pull")
    <2>1. /\ heap'["pull"] = Claim(h, {"extra"}) /\ heap'["push"] = heap["push"]
          /\ app'["pull"] = a \cup {"extra"} /\ app'["push"] = app["push"]
      BY <1>7 DEF PayloadZBytes, ReadInv, ReadTypeInv, Surfaces
    <2>2. QED
      BY <2>1, <1>3, <1>4 DEF Claim, Held
  <1>8. CASE DisposeQuery("pull")
    <2>1. /\ "query" \in a
          /\ heap'["pull"] = Release(h, {"wrapper", "value"}) /\ heap'["push"] = heap["push"]
          /\ app'["pull"] = a \ {"query"} /\ app'["push"] = app["push"]
      BY <1>8 DEF DisposeQuery, ReadInv, ReadTypeInv, Surfaces
    <2>2. QED
      BY <2>1, <1>3, <1>4 DEF Release, Held
  <1>9. CASE DisposeBytes("pull", b)
    <2>1. /\ b \in a
          /\ heap'["pull"] = Release(h, {b}) /\ heap'["push"] = heap["push"]
          /\ app'["pull"] = a \ {b} /\ app'["push"] = app["push"]
      BY <1>9 DEF DisposeBytes, ReadInv, ReadTypeInv, Surfaces
    <2>2. QED
      BY <2>1, <1>3, <1>4 DEF Release, Held
  <1>10. QED
    BY <1>7, <1>8, <1>9

LEMMA NextStep ==
  ASSUME ReadInv, NEW s, Step(s), StepDone
  PROVE  /\ at'["push"] = at["push"] + 1 /\ at'["pull"] = at["pull"]
         /\ Steps' = Steps /\ UNCHANGED <<wire, retain>>
         /\ \A t : Done(t)' <=> Done(t) \/ t = s
         /\ ~Done(s)
  <1>1. at["push"] \in 1..Len(Steps) /\ Steps[at["push"]] = s /\ StepsOK
    BY StepPlace
  <1>2. Steps' = Steps /\ UNCHANGED <<wire, retain>>
    BY DEF Steps, Step
  <1> HIDE DEF Steps
  <1>3. at' = [at EXCEPT !["push"] = at["push"] + 1]
    BY DEF StepDone
  <1>4. at'["push"] = at["push"] + 1 /\ at'["pull"] = at["pull"]
    BY <1>3 DEF ReadInv, ReadTypeInv, Surfaces
  <1>5. \A i \in DOMAIN Steps : i < at["push"] + 1 <=> i < at["push"] \/ i = at["push"]
    BY <1>1 DEF StepsOK
  <1>6. \A t : Done(t)' <=> Done(t) \/ t = s
    BY <1>1, <1>2, <1>4, <1>5 DEF Done, StepsOK
  <1>7. ~Done(s)
    BY <1>1 DEF Done, StepsOK
  <1>8. QED
    BY <1>2, <1>4, <1>6, <1>7

\* A step before the post: it claims what it makes.
Builds(s, B) ==
  /\ Step(s) /\ s \notin {"post", "clean"} /\ StepDone
  /\ heap' = [heap EXCEPT !["push"] = Claim(@, B)]
  /\ UNCHANGED <<outcome, app>>
  /\ \A b \in Blocks : Made(b)' <=> Made(b) \/ b \in B
  /\ seen'["pull"] = seen["pull"]
  /\ \A f \in {"payload", "attachment"} :
       IF f = s THEN seen'["push"][f] \in bytes_to_cobject(f)
                ELSE seen'["push"][f] = seen["push"][f]

LEMMA BuildingKept ==
  ASSUME ReadInv, NEW s, NEW B, Builds(s, B)
  PROVE  PushInv' /\ UNCHANGED Surface("pull")
  <1>0. /\ Step(s) /\ s \notin {"post", "clean"} /\ StepDone
        /\ heap' = [heap EXCEPT !["push"] = Claim(@, B)]
        /\ UNCHANGED <<outcome, app>>
        /\ \A b \in Blocks : Made(b)' <=> Made(b) \/ b \in B
        /\ seen'["pull"] = seen["pull"]
        /\ \A f \in {"payload", "attachment"} :
             IF f = s THEN seen'["push"][f] \in bytes_to_cobject(f)
                      ELSE seen'["push"][f] = seen["push"][f]
    BY DEF Builds
  <1>1. /\ at["push"] \in 1..Len(Steps) /\ Steps[at["push"]] = s /\ StepsOK
        /\ outcome["push"] = "none"
    BY <1>0, StepPlace
  <1>2. /\ at'["push"] = at["push"] + 1 /\ at'["pull"] = at["pull"]
        /\ Steps' = Steps /\ UNCHANGED <<wire, retain>>
        /\ \A t : Done(t)' <=> Done(t) \/ t = s
    BY <1>0, NextStep
  <1> HIDE DEF Steps
  <1>3. Building
    BY <1>0, <1>1 DEF ReadInv, PushInv
  <1>4. heap'["push"] = Claim(heap["push"], B) /\ heap'["pull"] = heap["pull"]
    BY <1>0 DEF ReadInv, ReadTypeInv, Surfaces
  <1>5. \A b \in Blocks : heap'["push"][b] = IF Made(b)' THEN "live" ELSE "none"
    BY <1>0, <1>3, <1>4 DEF Building, Claim
  <1>6. \A f \in {"payload", "attachment"} :
          seen'["push"][f] \in IF Done(f)' THEN bytes_to_cobject(f)' ELSE {"null"}
    BY <1>0, <1>2, <1>3 DEF Building, bytes_to_cobject, Present
  <1>7. Building'
    BY <1>0, <1>3, <1>5, <1>6 DEF Building
  <1>8. at'["push"] \in 0..Len(Steps) - 1
    BY <1>0, <1>1, <1>2 DEF StepsOK
  <1>9. PushInv'
    BY <1>0, <1>1, <1>2, <1>7, <1>8 DEF PushInv, Outcomes, Crashed
  <1>10. QED
    BY <1>0, <1>2, <1>4, <1>9 DEF Surface

LEMMA BeginKept ==
  ASSUME ReadInv, CallbackBegins
  PROVE  PushInv' /\ UNCHANGED Surface("pull")
  <1>1. StepsOK
    BY AllSteps DEF ReadInv, ReadTypeInv
  <1>2. Steps' = Steps
    BY DEF CallbackBegins, Steps
  <1> HIDE DEF Steps
  <1>3. /\ at["push"] = 0 /\ UNCHANGED <<wire, retain, outcome, heap, seen, app>>
        /\ at'["push"] = 1 /\ at'["pull"] = at["pull"]
    BY DEF CallbackBegins, ReadInv, ReadTypeInv, Surfaces
  <1>4. outcome["push"] = "none" /\ Building
    BY <1>1, <1>3 DEF ReadInv, PushInv, Posted, StepsOK
  <1>5. \A t : Done(t)' <=> Done(t)
    BY <1>1, <1>2, <1>3 DEF Done, StepsOK
  <1>6. \A b : Made(b)' <=> Made(b)
    BY <1>3, <1>5 DEF Made, Present
  <1>7. Building'
    BY <1>3, <1>4, <1>5, <1>6 DEF Building, bytes_to_cobject, Present
  <1>8. PushInv'
    BY <1>1, <1>2, <1>3, <1>4, <1>7 DEF PushInv, StepsOK, Outcomes, Crashed
  <1>9. QED
    BY <1>3, <1>8 DEF Surface

LEMMA CloneKept ==
  ASSUME ReadInv, CloneQuery
  PROVE  PushInv' /\ UNCHANGED Surface("pull")
  <1>1. Step("clone") /\ UNCHANGED <<seen, app>>
    BY DEF CloneQuery
  <1>2. CASE /\ heap' = [heap EXCEPT !["push"] = Claim(@, {"wrapper", "clone"})]
             /\ StepDone
             /\ UNCHANGED outcome
    <2>1. /\ UNCHANGED <<wire, retain>> /\ ~Done("clone")
          /\ \A t : Done(t)' <=> Done(t) \/ t = "clone"
      BY <1>1, <1>2, NextStep
    <2>2. \A b \in Blocks : Made(b)' <=> Made(b) \/ b \in {"wrapper", "clone"}
      BY <1>1, <2>1 DEF Made, Present
    <2>3. QED
      <3>1. Builds("clone", {"wrapper", "clone"})
        BY <1>1, <1>2, <2>2 DEF Builds
      <3>2. QED
        BY <3>1, BuildingKept
  <1>3. CASE /\ CallbackEnds(heap["push"])
             /\ outcome' = [outcome EXCEPT !["push"] = "failed"]
    <2>1. /\ at["push"] \in 1..Len(Steps) /\ Steps[at["push"]] = "clone" /\ StepsOK
          /\ outcome["push"] = "none"
      BY <1>1, StepPlace
    <2>2. Steps' = Steps /\ UNCHANGED <<wire, retain>>
      BY <1>1 DEF Step, Steps
    <2> HIDE DEF Steps
    <2>3. /\ at'["push"] = Len(Steps) + 1 /\ at'["pull"] = at["pull"]
          /\ outcome'["push"] = "failed" /\ outcome'["pull"] = outcome["pull"]
          /\ heap'["push"] = Release(heap["push"], {"value"})
          /\ heap'["pull"] = heap["pull"]
      BY <1>3 DEF CallbackEnds, ReadInv, ReadTypeInv, Surfaces
    <2>4. Building
      BY <2>1 DEF ReadInv, PushInv
    <2>5. \A t : ~Done(t)
      BY <2>1 DEF Done, StepsOK
    <2>6. \A b \in Blocks : heap["push"][b] = IF b = "value" THEN "live" ELSE "none"
      BY <2>4, <2>5 DEF Building, Made
    <2>7. \A b \in Blocks : heap'["push"][b] = IF b = "value" THEN "freed" ELSE "none"
      BY <2>3, <2>6 DEF Release
    <2>8. app'["push"] = {}
      BY <1>1, <2>4 DEF Building
    <2>9. "value" \in Blocks /\ Scratch \cup Carried \cup {"extra"} \subseteq Blocks
      BY DEF Scratch, Carried, Blocks, Fields
    <2>10. Posted'
      <3>0. PICK n \in Nat : n = Len(Steps) /\ n = Len(Steps)'
        BY <2>1, <2>2 DEF StepsOK
      <3>1. at'["push"] = Len(Steps)' + 1 /\ at'["push"] # Len(Steps)'
        BY <2>3, <3>0
      <3>2. \A b \in Blocks :
              /\ heap'["push"][b] \notin {"wild", "live"}
              /\ b # "value" => heap'["push"][b] = "none"
        BY <2>7
      <3>3. "value" \in Scratch /\ "extra" # "value"
        BY DEF Scratch
      <3>4. \A b \in Scratch : IF at'["push"] = Len(Steps)'
                                THEN heap'["push"][b] \in {"none", "live"}
                                ELSE heap'["push"][b] # "live"
        BY <2>9, <3>1, <3>2
      <3>5. \A b \in Blocks \ (Scratch \cup Carried \cup {"extra"}) :
              heap'["push"][b] = "none"
        BY <3>2, <3>3
      <3>6. heap'["push"]["extra"] = "none" /\ \A b \in Carried : heap'["push"][b] # "live"
        BY <2>9, <3>2, <3>3
      <3>7. outcome'["push"] # "data"
        BY <2>3
      <3> HIDE DEF Scratch, Carried, Blocks
      <3>8. QED
        BY <2>8, <3>1, <3>2, <3>4, <3>5, <3>6, <3>7 DEF Posted
    <2>11. PushInv'
      BY <2>3, <2>10 DEF PushInv, Outcomes, Crashed
    <2>12. QED
      BY <1>1, <2>2, <2>3, <2>11 DEF Surface
  <1>4. QED
    BY <1>2, <1>3 DEF CloneQuery

LEMMA EncodeKept ==
  ASSUME ReadInv, Encode
  PROVE  PushInv' /\ UNCHANGED Surface("pull")
  <1>0. PICK B : B = IF Present("encoding") THEN {"encString"} ELSE {}
    OBVIOUS
  <1>1. /\ Step("encode") /\ StepDone /\ UNCHANGED <<outcome, seen, app>>
        /\ heap' = [heap EXCEPT !["push"] = Claim(@, B)]
    BY <1>0 DEF Encode
  <1>2. /\ UNCHANGED <<wire, retain>>
        /\ \A t : Done(t)' <=> Done(t) \/ t = "encode"
    BY <1>1, NextStep
  <1>3. \A b \in Blocks : Made(b)' <=> Made(b) \/ b \in B
    BY <1>0, <1>1, <1>2 DEF Made, Present
  <1>4. Builds("encode", B)
    BY <1>1, <1>3 DEF Builds
  <1>5. QED
    BY <1>4, BuildingKept

LEMMA RetainKept ==
  ASSUME ReadInv, Retain
  PROVE  PushInv' /\ UNCHANGED Surface("pull")
  <1>0. PICK B : B = IF retain THEN {"retained"} ELSE {}
    OBVIOUS
  <1>1. /\ Step("retain") /\ StepDone /\ UNCHANGED <<outcome, seen, app>>
        /\ heap' = [heap EXCEPT !["push"] = Claim(@, B)]
    BY <1>0 DEF Retain
  <1>2. /\ UNCHANGED <<wire, retain>>
        /\ \A t : Done(t)' <=> Done(t) \/ t = "retain"
    BY <1>1, NextStep
  <1>3. \A b \in Blocks : Made(b)' <=> Made(b) \/ b \in B
    BY <1>0, <1>1, <1>2 DEF Made, Present
  <1>4. Builds("retain", B)
    BY <1>1, <1>3 DEF Builds
  <1>5. QED
    BY <1>4, BuildingKept

LEMMA ConvertKept ==
  ASSUME ReadInv, NEW f \in {"payload", "attachment"}, Convert(f)
  PROVE  PushInv' /\ UNCHANGED Surface("pull")
  <1>1. Step(f) /\ StepDone /\ UNCHANGED <<outcome, app>>
    BY DEF Convert
  <1>2. PICK conv \in bytes_to_cobject(f) :
          /\ seen' = [seen EXCEPT !["push"] = [@ EXCEPT ![f] = conv]]
          /\ heap' = [heap EXCEPT !["push"] =
                        Claim(@, IF conv = "SLICE" THEN {f} ELSE {})]
    BY DEF Convert
  <1>b. PICK B : B = IF conv = "SLICE" THEN {f} ELSE {}
    OBVIOUS
  <1>3. /\ UNCHANGED <<wire, retain>> /\ ~Done(f)
        /\ \A t : Done(t)' <=> Done(t) \/ t = f
    BY <1>1, NextStep
  <1>4. /\ seen'["pull"] = seen["pull"] /\ seen'["push"][f] = conv
        /\ \A g \in {"payload", "attachment"} :
             g # f => seen'["push"][g] = seen["push"][g]
    BY <1>2 DEF ReadInv, ReadTypeInv, Surfaces, Fields
  <1>5. outcome["push"] = "none" /\ Building
    BY <1>1, StepPlace DEF ReadInv, PushInv
  <1>6. seen["push"][f] = "null"
    BY <1>3, <1>5 DEF Building
  <1>7. \A b \in Blocks : Made(b)' <=> Made(b) \/ b \in B
    BY <1>b, <1>3, <1>4, <1>6 DEF Made, Present
  <1>8. heap' = [heap EXCEPT !["push"] = Claim(@, B)]
    BY <1>b, <1>2
  <1>9. Builds(f, B)
    BY <1>1, <1>2, <1>4, <1>7, <1>8 DEF Builds
  <1>10. QED
    BY <1>9, BuildingKept

\* What the post makes of an element.
LEMMA PushElements ==
  ASSUME NEW f \in Fields
  PROVE  /\ f \notin {"payload", "attachment"} =>
              PushView[f] = IF f = "encoding" /\ Present(f) /\ heap["push"]["encString"] # "live"
                              THEN "garbage" ELSE wire[f]
         /\ f \in {"payload", "attachment"} =>
              /\ seen["push"][f] = "null"  => PushView[f] = "absent"
              /\ seen["push"][f] = "EMPTY" => PushView[f] = "empty"
              /\ seen["push"][f] = "SLICE" =>
                   PushView[f] = IF heap["push"][f] = "live" THEN wire[f] ELSE "garbage"
              /\ seen["push"][f] = "FAILED" => PushView[f] = "undecodable"
  <1>1. CASE f \in {"payload", "attachment"}
    BY <1>1 DEF PushView
  <1>2. CASE f \notin {"payload", "attachment"}
    BY <1>2 DEF PushView
  <1>3. QED
    BY <1>1, <1>2

\* At the post every other step is done.
LEMMA AtPost ==
  ASSUME ReadInv, Step("post")
  PROVE  /\ at["push"] = Len(Steps) - 1 /\ Len(Steps) \in Nat
         /\ outcome["push"] = "none" /\ Building
         /\ Done("encode") /\ Done("payload")
         /\ Done("attachment") <=> wire.column # "error"
         /\ Done("clone") <=> wire.column = "query"
         /\ Done("retain") <=> wire.column \in {"sample", "ok"}
  <1>1. /\ at["push"] \in 1..Len(Steps) /\ Steps[at["push"]] = "post" /\ StepsOK
        /\ outcome["push"] = "none"
    BY StepPlace
  <1> HIDE DEF Steps
  <1>2. at["push"] = Len(Steps) - 1 /\ Len(Steps) \in Nat
    BY <1>1 DEF StepsOK
  <1>3. \A s \in {"encode", "payload", "attachment", "clone", "retain"} :
          Done(s) <=> \E i \in DOMAIN Steps : Steps[i] = s
    <2>1. \A i \in DOMAIN Steps : i \in 1..Len(Steps)
      BY <1>1 DEF StepsOK
    <2>2. \A i \in DOMAIN Steps : Steps[i] \notin {"post", "clean"} => i < at["push"]
      BY <1>1, <1>2, <2>1 DEF StepsOK
    <2>3. QED
      BY <2>2 DEF Done
  <1>4. QED
    BY <1>1, <1>2, <1>3 DEF StepsOK, ReadInv, PushInv

\* A message that Dart can decode says what the value is.
LEMMA PushIsWire ==
  ASSUME ReadInv, Step("post"), NEW f \in Fields, PushView[f] # "undecodable"
  PROVE  PushView[f] = wire[f]
  <1>1. /\ Building /\ Done("encode") /\ Done("payload")
        /\ Done("attachment") <=> wire.column # "error"
    BY AtPost
  <1>2. wire \in Wires
    BY DEF ReadInv, ReadTypeInv
  <1>3. CASE f \notin {"payload", "attachment"}
    <2>1. Present("encoding") => heap["push"]["encString"] = "live"
      BY <1>1 DEF Building, Made, Blocks
    <2>2. QED
      BY <1>3, <2>1, PushElements
  <1>4. CASE f \in {"payload", "attachment"}
    <2>1. CASE ~Done(f)
      <3>1. f = "attachment" /\ wire.column = "error"
        BY <1>1, <1>4, <2>1
      <3>2. wire[f] = "absent"
        BY <1>2, <3>1, ExtractionAssumption DEF Columns, Fields
      <3>3. seen["push"][f] = "null"
        BY <1>1, <1>4, <2>1 DEF Building
      <3>4. QED
        BY <1>4, <3>2, <3>3, PushElements
    <2>2. CASE Done(f)
      <3>1. seen["push"][f] \in bytes_to_cobject(f)
        BY <1>1, <1>4, <2>2 DEF Building
      <3>2. seen["push"][f] # "FAILED"
        BY <1>4, PushElements
      <3>3. seen["push"][f] = "SLICE" => heap["push"][f] = "live"
        BY <1>1, <1>4 DEF Building, Made, Blocks, Fields
      <3>4. wire[f] \in {"absent", "empty", "data"}
        BY <1>2, WireTyped
      <3>5. QED
        BY <1>4, <3>1, <3>2, <3>3, <3>4, PushElements DEF bytes_to_cobject, Present
    <2>3. QED
      BY <2>1, <2>2
  <1>5. QED
    BY <1>3, <1>4

LEMMA PostKept ==
  ASSUME ReadInv, Post
  PROVE  PushInv' /\ UNCHANGED Surface("pull")
  <1> DEFINE h == heap["push"]
  <1>1. Step("post") /\ StepDone
    BY DEF Post
  <1>2. PICK n \in Nat : n = Len(Steps) /\ at["push"] = n - 1
    BY <1>1, AtPost
  <1>3. /\ at'["push"] = n /\ at'["pull"] = at["pull"] /\ UNCHANGED <<wire, retain>>
        /\ Len(Steps)' = n
    BY <1>1, <1>2, NextStep
  <1>4. /\ outcome["push"] = "none" /\ Building
        /\ Done("clone") <=> wire.column = "query"
        /\ Done("retain") <=> wire.column \in {"sample", "ok"}
    BY <1>1, AtPost
  <1>5. app["push"] = {} /\ \A b \in Blocks : h[b] = IF Made(b) THEN "live" ELSE "none"
    BY <1>4 DEF Building
  <1>6. \A b \in Blocks \ Scratch :
          h[b] = "live" <=> \/ b \in {"wrapper", "clone"} /\ wire.column = "query"
                            \/ b = "retained" /\ "retained" \in Handles
    BY <1>4, <1>5 DEF Made, Scratch, Handles
  <1>7. /\ "extra" \in Blocks /\ Scratch \subseteq Blocks /\ Carried \subseteq Blocks
        /\ Scratch \cap (Carried \cup {"extra"}) = {} /\ "extra" \notin Carried
    BY DEF Scratch, Carried, Blocks, Fields
  <1>8. \A b \in Blocks \ Scratch : b \notin Carried => h[b] = "none"
    BY <1>5, <1>6 DEF Carried
  <1>9. CASE /\ UNCHANGED heap
             /\ outcome' = [outcome EXCEPT !["push"] = "undecodable"]
             /\ seen' = [seen EXCEPT !["push"] = [f \in Fields |-> Unseen]]
             /\ UNCHANGED app
    <2>1. /\ outcome'["push"] = "undecodable" /\ outcome'["pull"] = outcome["pull"]
          /\ seen'["pull"] = seen["pull"]
      BY <1>9 DEF ReadInv, ReadTypeInv, Surfaces
    <2> HIDE DEF h
    <2>2. Posted'
      BY <1>3, <1>5, <1>7, <1>8, <1>9, <2>1 DEF Posted, h
    <2>3. PushInv'
      BY <2>1, <2>2 DEF PushInv, Outcomes, Crashed
    <2>4. QED
      BY <1>3, <1>9, <2>1, <2>3 DEF Surface
  <1>10. CASE /\ UNCHANGED heap
              /\ ~ \E f \in Fields : PushView[f] = "undecodable"
              /\ outcome' = [outcome EXCEPT !["push"] = "data"]
              /\ seen' = [seen EXCEPT !["push"] = PushView]
              /\ app' = [app EXCEPT !["push"] = Handles]
    <2>1. /\ outcome'["push"] = "data" /\ outcome'["pull"] = outcome["pull"]
          /\ seen'["push"] = PushView /\ seen'["pull"] = seen["pull"]
          /\ app'["push"] = Handles /\ app'["pull"] = app["pull"]
      BY <1>10 DEF ReadInv, ReadTypeInv, Surfaces
    <2>2. \A f \in Fields : PushView[f] = wire[f]
      BY <1>1, <1>10, PushIsWire
    <2>3. PushView = [f \in Fields |-> wire[f]]
      <3>1. \A f \in Fields : Element(f) = wire[f]
        BY <2>2, PushViewIs
      <3>2. QED
        BY <3>1, PushViewIs
    <2>4. OnlyHandles("push", Carried \cup {"extra"})'
      <3>1. \A b : b \in Held("push")' <=>
                     \/ wire.column = "query" /\ b \in {"wrapper", "clone"}
                     \/ b \in Handles \ {"query"}
        BY <2>1 DEF Held, Handles
      <3>2. Handles \subseteq {"query", "retained"}
        BY DEF Handles
      <3> HIDE DEF h
      <3>3. \A b \in Carried \cup {"extra"} : h[b] = "live" <=> b \in Held("push")'
        BY <1>6, <1>7, <3>1, <3>2 DEF Carried
      <3>4. QED
        BY <1>10, <3>3 DEF OnlyHandles, h
    <2>5. seen'["push"] = [f \in Fields |-> wire'[f]]
      BY <1>3, <2>1, <2>3
    <2> HIDE DEF h
    <2>6. Posted'
      BY <1>3, <1>5, <1>7, <1>8, <1>10, <2>1, <2>4, <2>5 DEF Posted, h
    <2>7. PushInv'
      BY <2>1, <2>6 DEF PushInv, Outcomes, Crashed
    <2>8. QED
      BY <1>3, <1>10, <2>1, <2>7 DEF Surface
  <1>11. CASE /\ outcome' = [outcome EXCEPT !["push"] = "refused"]
              /\ seen' = [seen EXCEPT !["push"] = [f \in Fields |-> Unseen]]
              /\ heap' = [heap EXCEPT !["push"] = Release(@, TakenBack)]
              /\ UNCHANGED app
    <2>1. /\ outcome'["push"] = "refused" /\ outcome'["pull"] = outcome["pull"]
          /\ seen'["pull"] = seen["pull"]
          /\ heap'["push"] = Release(h, TakenBack) /\ heap'["pull"] = heap["pull"]
      BY <1>11 DEF ReadInv, ReadTypeInv, Surfaces
    <2>2. \A b \in Blocks : /\ b \notin Carried => heap'["push"][b] = h[b]
                            /\ b \in Carried => heap'["push"][b] \in {"none", "freed"}
      BY <1>5, <2>1 DEF Release, TakenBack, Carried
    <2> HIDE DEF h
    <2>3. \A b \in Blocks : heap'["push"][b] # "wild"
      BY <1>5, <2>2
    <2>4. Posted'
      BY <1>3, <1>5, <1>7, <1>8, <1>11, <2>1, <2>2, <2>3 DEF Posted
    <2>5. PushInv'
      BY <2>1, <2>4 DEF PushInv, Outcomes, Crashed
    <2>6. QED
      BY <1>3, <1>11, <2>1, <2>5 DEF Surface
  <1>12. QED
    BY <1>9, <1>10, <1>11 DEF Post

LEMMA CleanKept ==
  ASSUME ReadInv, Clean
  PROVE  PushInv' /\ UNCHANGED Surface("pull")
  <1> DEFINE h == heap["push"]
             k == Release(Release(h, {"payload", "attachment", "encString"}), {"value"})
  <1>1. Step("clean") /\ UNCHANGED <<wire, retain, outcome, seen, app>>
    BY DEF Clean, Step
  <1>2. /\ at["push"] \in 1..Len(Steps) /\ Steps[at["push"]] = "clean" /\ StepsOK
        /\ outcome["push"] # "none"
    BY <1>1, StepPlace
  <1>3. Steps' = Steps
    BY <1>1 DEF Steps
  <1> HIDE DEF Steps
  <1>4. PICK n \in Nat : n = Len(Steps) /\ n = Len(Steps)' /\ at["push"] = n
    BY <1>2, <1>3 DEF StepsOK
  <1>5. /\ at'["push"] = n + 1 /\ at'["pull"] = at["pull"]
        /\ heap'["push"] = k /\ heap'["pull"] = heap["pull"]
    BY <1>4 DEF Clean, CallbackEnds, ReadInv, ReadTypeInv, Surfaces
  <1>6. Posted
    BY <1>2 DEF ReadInv, PushInv
  <1>7. Scratch \subseteq Blocks /\ Scratch \cap (Carried \cup {"extra"}) = {}
        /\ Carried \cup {"extra"} \subseteq Blocks
    BY DEF Scratch, Carried, Blocks, Fields
  <1>8. \A b \in Scratch : h[b] \in {"none", "live"}
    BY <1>4, <1>6 DEF Posted
  <1>9. \A b \in Blocks : /\ b \notin Scratch => k[b] = h[b]
                          /\ b \in Scratch => k[b] \in {"none", "freed"}
    BY <1>8 DEF Release, Scratch
  <1> HIDE DEF k
  <1>10. OnlyHandles("push", Carried \cup {"extra"}) =>
           OnlyHandles("push", Carried \cup {"extra"})'
    BY <1>1, <1>5, <1>7, <1>9 DEF OnlyHandles, Held
  <1>11. \A b \in Blocks : k[b] # "wild"
    BY <1>6, <1>9 DEF Posted
  <1>12. Posted'
    BY <1>1, <1>4, <1>5, <1>6, <1>7, <1>9, <1>10, <1>11 DEF Posted
  <1>13. PushInv'
    BY <1>1, <1>2, <1>12 DEF ReadInv, PushInv, Outcomes
  <1>14. QED
    BY <1>1, <1>5, <1>13 DEF Surface

\* What the application does with its handles on the push side.
LEMMA PushHandles ==
  ASSUME ReadInv, NEW b \in {"retained", "extra"},
         PayloadZBytes("push") \/ DisposeQuery("push") \/ DisposeBytes("push", b)
  PROVE  PushInv' /\ UNCHANGED Surface("pull")
  <1> DEFINE h == heap["push"]
             a == app["push"]
             k == heap'["push"]
  <1>1. UNCHANGED <<wire, retain, at, outcome, seen>> /\ a # {}
    BY DEF PayloadZBytes, DisposeQuery, DisposeBytes
  <1>2. /\ outcome["push"] = "data" /\ Posted
        /\ OnlyHandles("push", Carried \cup {"extra"})
    BY <1>1 DEF ReadInv, PushInv, Building, Posted
  <1>3. a \in SUBSET {"query", "retained", "extra"}
    BY DEF ReadInv, ReadTypeInv, Surfaces
  <1>4. /\ \A c \in Carried \cup {"extra"} : h[c] = "live" <=> c \in Held("push")
        /\ \A c \in Blocks : h[c] # "wild"
        /\ Carried \cup {"extra"} \subseteq Blocks
    BY <1>2 DEF Posted, OnlyHandles, Carried, Blocks
  <1>5. Steps' = Steps
    BY <1>1 DEF Steps
  <1> HIDE DEF Steps
  <1>6. SUFFICES /\ \A c \in Carried \cup {"extra"} : k[c] = "live" <=> c \in Held("push")'
                 /\ \A c \in Blocks : k[c] # "wild"
                 /\ \A c \in Blocks \ (Carried \cup {"extra"}) : k[c] = h[c]
                 /\ heap'["pull"] = heap["pull"] /\ app'["pull"] = app["pull"]
    <2>1. Scratch \subseteq Blocks \ (Carried \cup {"extra"})
      BY DEF Scratch, Carried, Blocks, Fields
    <2>2. Posted'
      BY <1>1, <1>2, <1>5, <1>6, <2>1 DEF Posted, OnlyHandles
    <2>3. QED
      BY <1>1, <1>2, <1>6, <2>2 DEF PushInv, Outcomes, Crashed, Surface
  <1>7. CASE PayloadZBytes("push")
    <2>1. /\ k = Claim(h, {"extra"}) /\ heap'["pull"] = heap["pull"]
          /\ app'["push"] = a \cup {"extra"} /\ app'["pull"] = app["pull"]
      BY <1>7 DEF PayloadZBytes, ReadInv, ReadTypeInv, Surfaces
    <2>2. QED
      BY <2>1, <1>3, <1>4 DEF Claim, Held
  <1>8. CASE DisposeQuery("push")
    <2>1. /\ "query" \in a
          /\ k = Release(h, {"wrapper", "clone"}) /\ heap'["pull"] = heap["pull"]
          /\ app'["push"] = a \ {"query"} /\ app'["pull"] = app["pull"]
      BY <1>8 DEF DisposeQuery, ReadInv, ReadTypeInv, Surfaces
    <2>2. QED
      BY <2>1, <1>3, <1>4 DEF Release, Held, Carried
  <1>9. CASE DisposeBytes("push", b)
    <2>1. /\ b \in a
          /\ k = Release(h, {b}) /\ heap'["pull"] = heap["pull"]
          /\ app'["push"] = a \ {b} /\ app'["pull"] = app["pull"]
      BY <1>9 DEF DisposeBytes, ReadInv, ReadTypeInv, Surfaces
    <2>2. QED
      BY <2>1, <1>3, <1>4 DEF Release, Held, Carried
  <1>10. QED
    BY <1>7, <1>8, <1>9

-----------------------------------------------------------------------------
(* Extraction.  The invariant, and what it says.                           *)

LEMMA ReadStart ==
  ASSUME ReadInit
  PROVE  ReadInv
  <1> DEFINE h == Claim([b \in Blocks |-> "none"], {"value"})
  <1>1. /\ wire \in Wires /\ retain \in BOOLEAN
        /\ at = [s \in Surfaces |-> 0] /\ outcome = [s \in Surfaces |-> "none"]
        /\ heap = [s \in Surfaces |-> h]
        /\ seen = [s \in Surfaces |-> [f \in Fields |-> "null"]]
        /\ app = [s \in Surfaces |-> {}]
    BY DEF ReadInit
  <1>2. SitesOK /\ StepsOK
    BY <1>1, AllSites, AllSteps
  <1>3. \A b \in Blocks : h[b] = IF b = "value" THEN "live" ELSE "none"
    BY DEF Claim
  <1>4. h \in Heaps
    BY DEF Claim, Heaps
  <1> HIDE DEF h, Sites, Steps
  <1>5. ReadTypeInv
    BY <1>1, <1>4 DEF ReadTypeInv, Outcomes, Readings
  <1>6. /\ at["pull"] = 0 /\ at["push"] = 0
        /\ outcome["pull"] = "none" /\ outcome["push"] = "none"
        /\ heap["pull"] = h /\ heap["push"] = h
        /\ seen["push"] = [f \in Fields |-> "null"]
        /\ app["pull"] = {} /\ app["push"] = {}
    BY <1>1 DEF Surfaces
  <1>7. Copying
    BY <1>2, <1>3, <1>6, NoSite DEF Copying
  <1>8. PullInv
    BY <1>2, <1>3, <1>6, <1>7 DEF PullInv, SitesOK
  <1>9. \A t : ~Done(t)
    BY <1>2, <1>6 DEF Done, StepsOK
  <1>10. Building
    BY <1>3, <1>6, <1>9 DEF Building, Made, Fields
  <1>11. PushInv
    BY <1>2, <1>6, <1>10 DEF PushInv, StepsOK, Outcomes, Crashed
  <1>12. QED
    BY <1>5, <1>8, <1>11 DEF ReadInv

LEMMA ReadStep ==
  ASSUME ReadInv, ReadNext
  PROVE  ReadInv'
  <1>1. ReadTypeInv'
    BY TypeKept
  <1>2. ASSUME PullInv', UNCHANGED Surface("push")
        PROVE  ReadInv'
    BY <1>1, <1>2, PushKept DEF ReadInv
  <1>3. ASSUME PushInv', UNCHANGED Surface("pull")
        PROVE  ReadInv'
    BY <1>1, <1>3, PullKept DEF ReadInv
  <1>4. CASE ReceiveSample \/ ReceiveReply \/ ReceiveQuery
    BY <1>2, <1>4, ReceiveKept DEF ReceiveSample, ReceiveReply, ReceiveQuery
  <1>5. CASE CopyField \/ CopyFails \/ PullReturns
    BY <1>2, <1>5, CopyFieldKept, CopyFailsKept, PullReturnsKept
  <1>6. CASE CallbackBegins \/ CloneQuery \/ Encode \/ Retain \/ Post \/ Clean
    BY <1>3, <1>6, BeginKept, CloneKept, EncodeKept, RetainKept, PostKept, CleanKept
  <1>7. CASE \E f \in {"payload", "attachment"} : Convert(f)
    BY <1>3, <1>7, ConvertKept
  <1>8. ASSUME NEW s \in Surfaces, NEW b \in {"retained", "extra"},
               PayloadZBytes(s) \/ DisposeQuery(s) \/ DisposeBytes(s, b)
        PROVE  ReadInv'
    <2>1. CASE s = "pull"
      BY <1>2, <1>8, <2>1, PullHandles
    <2>2. CASE s = "push"
      BY <1>3, <1>8, <2>2, PushHandles
    <2>3. QED
      BY <2>1, <2>2 DEF Surfaces
  <1>9. QED
    BY <1>4, <1>5, <1>6, <1>7, <1>8 DEF ReadNext

LEMMA ReadAlways == ReadSpec => []ReadInv
  <1>1. ReadInit => ReadInv
    BY ReadStart
  <1>2. ReadInv /\ [ReadNext]_readVars => ReadInv'
    <2>1. ASSUME ReadInv, UNCHANGED readVars
          PROVE  ReadInv'
      <3>1. UNCHANGED Surface("pull") /\ UNCHANGED Surface("push")
        BY <2>1 DEF readVars, Surface
      <3>2. ReadTypeInv'
        BY <2>1 DEF ReadInv, ReadTypeInv, readVars
      <3>3. QED
        BY <2>1, <3>1, <3>2, PullKept, PushKept DEF ReadInv
    <2>2. QED
      BY <2>1, ReadStep
  <1>3. QED
    BY <1>1, <1>2, PTL DEF ReadSpec

\* A value that tryRecv returns, or that a message carries to a listener, is
\* the peer's in every field: an absent payload is not an empty one, an
\* encoding string is not read after it was dropped, and a field that could
\* not be converted is not passed off as absent.  For any set of values.
THEOREM SurfacesTellTheTruth == ReadSpec => []SurfacesAgree
  <1>1. ReadInv => SurfacesAgree
    BY DEF ReadInv, PullInv, PushInv, Posted, SurfacesAgree, Surfaces
  <1>2. QED
    BY <1>1, ReadAlways, PTL

\* Neither the error paths of the three tryRecv functions nor the cleanup of a callback
\* releases a block twice, and none releases what a Query or a ZBytes of the
\* application still refers to.
THEOREM OwnersRelease == ReadSpec => []ReleasedByItsOwner
  <1>1. ASSUME ReadInv
        PROVE  \A b \in Blocks : heap["pull"][b] # "wild" /\ heap["push"][b] # "wild"
    <2>1. CASE outcome["push"] = "none"
      BY <1>1, <2>1 DEF ReadInv, PullInv, PushInv, Building
    <2>2. CASE outcome["push"] # "none"
      BY <1>1, <2>2 DEF ReadInv, PullInv, PushInv, Posted
    <2>3. QED
      BY <2>1, <2>2
  <1>2. ASSUME ReadInv
        PROVE  \A b \in Held("pull") : heap["pull"][b] = "live"
    <2>1. CASE outcome["pull"] = "data"
      <3>1. Held("pull") \subseteq Blocks
        BY <1>2 DEF Held, Blocks, ReadInv, ReadTypeInv, Surfaces
      <3>2. QED
        BY <1>2, <2>1, <3>1 DEF ReadInv, PullInv, OnlyHandles
    <2>2. CASE outcome["pull"] # "data"
      BY <1>2, <2>2 DEF ReadInv, PullInv, Held
    <2>3. QED
      BY <2>1, <2>2
  <1>3. ASSUME ReadInv
        PROVE  \A b \in Held("push") : heap["push"][b] = "live"
    <2>1. CASE outcome["push"] = "data"
      <3>1. Held("push") \subseteq Carried \cup {"extra"}
        BY <1>3 DEF Held, Carried, ReadInv, ReadTypeInv, Surfaces
      <3>2. QED
        BY <1>3, <2>1, <3>1 DEF ReadInv, PushInv, Posted, OnlyHandles
    <2>2. CASE outcome["push"] # "data"
      BY <1>3, <2>2 DEF ReadInv, PushInv, Posted, Building, Held
    <2>3. QED
      BY <2>1, <2>2
  <1>4. ReadInv => ReleasedByItsOwner
    BY <1>1, <1>2, <1>3 DEF ReleasedByItsOwner, Surfaces
  <1>5. QED
    BY <1>4, ReadAlways, PTL

\* Whichever malloc or conversion fails, and if the port is closed, a call
\* that returns has released all it allocated but what it handed over.
THEOREM CallsCleanUp == ReadSpec => []NothingLeaked
  <1>1. ASSUME ReadInv, Ended("pull"), NEW b \in Blocks, heap["pull"][b] = "live"
        PROVE  b \in Held("pull")
    <2>1. outcome["pull"] \in {"data", "failed"}
      BY <1>1 DEF ReadInv, PullInv, Ended
    <2>2. QED
      BY <1>1, <2>1 DEF ReadInv, PullInv, OnlyHandles
  <1>2. ASSUME ReadInv, Ended("push"), NEW b \in Blocks, heap["push"][b] = "live"
        PROVE  \/ b \in Held("push")
               \/ outcome["push"] = "undecodable" /\ b \in {"wrapper", "clone", "retained"}
    <2>1. StepsOK
      BY <1>2, AllSteps DEF ReadInv, ReadTypeInv
    <2>2. PICK n \in Nat : n = Len(Steps) /\ at["push"] = n + 1
      BY <1>2, <2>1 DEF Ended, StepsOK
    <2>3. outcome["push"] # "none"
      BY <1>2, <2>2 DEF ReadInv, PushInv
    <2>4. Posted
      BY <1>2, <2>3 DEF ReadInv, PushInv
    <2>5. b \notin Scratch
      BY <1>2, <2>2, <2>4 DEF Posted
    <2>6. b \in Carried \cup {"extra"}
      BY <1>2, <2>4, <2>5 DEF Posted
    <2>7. outcome["push"] \in {"data", "undecodable", "failed", "refused"}
      BY <1>2, <2>3 DEF ReadInv, PushInv, Outcomes
    <2>8. CASE outcome["push"] = "data"
      BY <1>2, <2>4, <2>6, <2>8 DEF Posted, OnlyHandles
    <2>9. CASE outcome["push"] # "data"
      BY <1>2, <2>4, <2>6, <2>7, <2>9 DEF Posted, Carried
    <2>10. QED
      BY <2>8, <2>9
  <1>3. ReadInv => NothingLeaked
    BY <1>1, <1>2 DEF NothingLeaked, Surfaces
  <1>4. QED
    BY <1>3, ReadAlways, PTL

=============================================================================
