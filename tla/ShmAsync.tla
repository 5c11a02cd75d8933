------------------------------ MODULE ShmAsync -------------------------------
(***************************************************************************)
(* Asynchronous shared-memory allocation: ShmProvider.allocGcDefragAsync,  *)
(* close() and the provider's finalizers on the Dart side; the box, the    *)
(* result callback and delete_fn of the shim, run by zenoh's threads.      *)
(*                                                                         *)
(* A request has a box, counted twice: once for Dart, once for zenoh.  The *)
(* provider is handed to the box, and whoever lets go of the box last      *)
(* drops the provider.  One request is in flight at a time, but zenoh lets *)
(* go of a request (delete_fn) some time after it has answered it, so      *)
(* several boxes can be alive.                                             *)
(*                                                                         *)
(* A Dart method runs to its end before the isolate does anything else;    *)
(* zenoh's threads step between any two of its native calls.               *)
(***************************************************************************)
EXTENDS Naturals

CONSTANTS
  MaxRequests,  (* bound: requests started                                 *)
  Faults        (* bound: requests the shim fails to start                 *)

ASSUME ShmAsyncAssumption == MaxRequests \in Nat /\ Faults \in Nat

VARIABLES
  wrapper,    (* the ShmProvider object: "open", "closed", "collected"     *)
  finalizer,  (* its net: Direct drops the provider, a request releases    *)
              (*   its box, None when detached                             *)
  slotBusy,   (* _AsyncSlot.completer, the request it belongs to or None   *)
  slotPort,   (* _AsyncSlot.port, likewise                                 *)
  slotBox,    (* _AsyncSlot.box, likewise                                  *)
  step,       (* where allocGcDefragAsync is: "out", "started", "deferred",*)
              (*   "undeferred"                                            *)
  previous,   (* its local previousBox                                     *)
  started,    (* requests started so far; they are numbered 1..started     *)
  failures,   (* requests the shim failed to start                         *)
  refs,       (* references of each request's box                          *)
  owner,      (* the box holds the provider (deferred_owner)               *)
  request,    (* zenoh's side: "unborn", "pending", "answered", "deleted"  *)
  port,       (* "none", "pinning" (keepIsolateAlive), "armed", "closed"   *)
  post,       (* the result in the port: "none", "buffer", "refusal"       *)
  buffer,     (* the allocated chunk: "none", "carried" to Dart, "owned"   *)
              (*   by the caller, "released"                               *)
  future,     (* "none", "pending", "ok", "error"                          *)
  drops       (* times the native provider was dropped                     *)

slotVars   == <<slotBusy, slotPort, slotBox>>
methodVars == <<step, previous, started, failures>>
boxVars    == <<refs, owner, drops>>
replyVars  == <<request, port, post, buffer, future>>
vars == <<wrapper, finalizer, slotVars, methodVars, boxVars, replyVars>>

-----------------------------------------------------------------------------
None == 0
Direct == MaxRequests + 1
Requests == 1..MaxRequests

\* _zd_shm_box_release: the last reference drops the provider the box holds.
ReleaseBox(b) ==
  /\ refs' = [refs EXCEPT ![b] = @ - 1]
  /\ IF refs[b] = 1 /\ owner[b]
       THEN drops' = drops + 1 /\ owner' = [owner EXCEPT ![b] = FALSE]
       ELSE UNCHANGED <<drops, owner>>

\* _AsyncSlot.clear: it closes whatever port the slot holds.
ClearSlot ==
  /\ port' = IF slotPort = None THEN port
                                ELSE [port EXCEPT ![slotPort] = "closed"]
  /\ slotBusy' = None
  /\ slotPort' = None

\* The net is swapped to the one that releases box b.
SwapFinalizer(b) == finalizer' = b

-----------------------------------------------------------------------------
(* allocGcDefragAsync.  The port and the completer are made, then the      *)
(* shim makes the box and hands the request to zenoh.                      *)
MayStart == wrapper = "open" /\ step = "out" /\ slotBusy = None

\* One reference is Dart's, one is zenoh's.
BoxRefs == 2

Start ==
  /\ MayStart
  /\ started < MaxRequests
  /\ LET r == started + 1 IN
       /\ started' = r
       /\ slotBusy' = r /\ slotPort' = r /\ slotBox' = r
       /\ refs' = [refs EXCEPT ![r] = BoxRefs]
       /\ request' = [request EXCEPT ![r] = "pending"]
       /\ port' = [port EXCEPT ![r] = "pinning"]
       /\ future' = [future EXCEPT ![r] = "pending"]
  /\ previous' = slotBox
  /\ step' = "started"
  /\ UNCHANGED <<wrapper, finalizer, failures, owner, drops, post, buffer>>

\* The shim refuses: no box, no post.  The out-cell it zeroed still goes to
\* slot.box; the caller gets a throw.  The port closes with the slot.
StartFails ==
  /\ MayStart
  /\ failures < Faults
  /\ failures' = failures + 1
  /\ slotBusy' = None /\ slotPort' = None /\ slotBox' = None
  /\ UNCHANGED <<wrapper, finalizer, step, previous, started, boxVars,
                 replyVars>>

\* Mutant: the box takes the provider only if the request is unanswered.
HandOverIfPending(b) ==
  owner' = [owner EXCEPT ![b] = request[b] = "pending"]

HandOver(b) == owner' = [owner EXCEPT ![b] = TRUE]

\* zd_shm_provider_defer_drop: the new box takes the provider.
Defer ==
  /\ step = "started"
  /\ HandOver(slotBox)
  /\ IF previous = None
       THEN step' = "out" /\ SwapFinalizer(slotBox)
       ELSE step' = "deferred" /\ UNCHANGED finalizer
  /\ UNCHANGED <<wrapper, slotVars, previous, started, failures, refs, drops,
                 replyVars>>

\* Mutant: the previous box keeps the provider.
UndeferForgotten ==
  /\ step = "deferred"
  /\ step' = "undeferred"
  /\ UNCHANGED <<wrapper, finalizer, slotVars, previous, started, failures,
                 boxVars, replyVars>>

\* zd_shm_provider_undefer_drop: the previous box gives it back,
Undefer ==
  /\ step = "deferred"
  /\ owner' = [owner EXCEPT ![previous] = FALSE]
  /\ step' = "undeferred"
  /\ UNCHANGED <<wrapper, finalizer, slotVars, previous, started, failures,
                 refs, drops, replyVars>>

\* and loses Dart's reference.  The method returns the Future.
ReleasePrevious ==
  /\ step = "undeferred"
  /\ ReleaseBox(previous)
  /\ SwapFinalizer(slotBox)
  /\ step' = "out"
  /\ UNCHANGED <<wrapper, slotVars, previous, started, failures, replyVars>>

-----------------------------------------------------------------------------
(* zenoh's threads.                                                        *)

\* _zd_shm_async_result: the chunk moves to a block of its own and the
\* outcome is posted; a closed port takes no post, so the chunk is dropped.
Answer(r, outcome) ==
  /\ request[r] = "pending"
  /\ request' = [request EXCEPT ![r] = "answered"]
  /\ IF port[r] = "closed"
       THEN /\ buffer' = IF outcome = "buffer"
                           THEN [buffer EXCEPT ![r] = "released"] ELSE buffer
            /\ UNCHANGED post
       ELSE /\ post' = [post EXCEPT ![r] = outcome]
            /\ buffer' = IF outcome = "buffer"
                           THEN [buffer EXCEPT ![r] = "carried"] ELSE buffer
  /\ UNCHANGED <<wrapper, finalizer, slotVars, methodVars, boxVars, port,
                 future>>

\* _zd_shm_async_delete: zenoh is done with the request.
Delete(r) ==
  /\ request[r] = "answered"
  /\ request' = [request EXCEPT ![r] = "deleted"]
  /\ ReleaseBox(r)
  /\ UNCHANGED <<wrapper, finalizer, slotVars, methodVars, port, post, buffer,
                 future>>

-----------------------------------------------------------------------------
(* The port's handler: it frees the slot, then completes the Future, or    *)
(* takes and disposes the buffer of a request that close() has answered.   *)
Settle(r) ==
  /\ step = "out"
  /\ post[r] # "none" /\ port[r] # "closed"
  /\ ClearSlot
  /\ post' = [post EXCEPT ![r] = "none"]
  /\ IF future[r] # "pending"
       THEN /\ buffer' = [buffer EXCEPT ![r] =
                            IF post[r] = "buffer" THEN "released" ELSE @]
            /\ UNCHANGED future
       ELSE /\ future' = [future EXCEPT ![r] =
                            IF post[r] = "buffer" THEN "ok" ELSE "error"]
            /\ buffer' = [buffer EXCEPT ![r] =
                            IF post[r] = "buffer" THEN "owned" ELSE @]
  /\ UNCHANGED <<wrapper, finalizer, slotBox, methodVars, request>>

Handle(r) == Settle(r) /\ UNCHANGED boxVars

\* Mutant: the port is closed with the slot.
CloseAnswersAndCloses ==
  /\ ClearSlot
  /\ future' = IF slotBusy = None THEN future
                                  ELSE [future EXCEPT ![slotBusy] = "error"]

\* close() answers the caller who waits; the port stays armed for the late
\* result but lets the isolate go.
CloseAnswers ==
  IF slotBusy # None
    THEN /\ port' = [port EXCEPT ![slotPort] = "armed"]
         /\ future' = [future EXCEPT ![slotBusy] = "error"]
         /\ slotBusy' = None
         /\ UNCHANGED slotPort
    ELSE ClearSlot /\ UNCHANGED future

\* It lets go of Dart's reference or, with no box, of the provider.
CloseReleases ==
  IF slotBox # None
    THEN ReleaseBox(slotBox) /\ slotBox' = None
    ELSE drops' = drops + 1 /\ UNCHANGED <<refs, owner, slotBox>>

Close ==
  /\ wrapper = "open" /\ step = "out"
  /\ wrapper' = "closed"
  /\ finalizer' = None
  /\ CloseAnswers
  /\ CloseReleases
  /\ UNCHANGED <<methodVars, request, post, buffer>>

\* The application let go of the open wrapper and the collector runs its net:
\* zd_fin_shm_provider drops, zd_fin_shm_provider_deferred releases the box.
Collect ==
  /\ wrapper = "open" /\ step = "out"
  /\ wrapper' = "collected"
  /\ finalizer' = None
  /\ IF finalizer = Direct THEN drops' = drops + 1 /\ UNCHANGED <<refs, owner>>
                             ELSE ReleaseBox(finalizer)
  /\ UNCHANGED <<slotVars, methodVars, replyVars>>

-----------------------------------------------------------------------------
Init ==
  /\ wrapper = "open" /\ finalizer = Direct
  /\ slotBusy = None /\ slotPort = None /\ slotBox = None
  /\ step = "out" /\ previous = None /\ started = 0 /\ failures = 0
  /\ refs = [r \in Requests |-> 0]
  /\ owner = [r \in Requests |-> FALSE]
  /\ request = [r \in Requests |-> "unborn"]
  /\ port = [r \in Requests |-> "none"]
  /\ post = [r \in Requests |-> "none"]
  /\ buffer = [r \in Requests |-> "none"]
  /\ future = [r \in Requests |-> "none"]
  /\ drops = 0

Method == Defer \/ Undefer \/ ReleasePrevious

Next ==
  \/ Start \/ StartFails \/ Method \/ Close \/ Collect
  \/ \E r \in Requests :
       \/ \E outcome \in {"buffer", "refusal"} : Answer(r, outcome)
       \/ Delete(r)
       \/ Handle(r)

Spec == Init /\ [][Next]_vars

(* A Dart method runs to its end, the isolate takes the posts in its port, *)
(* and zenoh runs delete_fn some time after the callback has returned.     *)
(* Nothing is assumed of Answer: a request the pool can never satisfy      *)
(* stays pending forever.                                                  *)
Fairness ==
  /\ WF_vars(Method)
  /\ \A r \in Requests : WF_vars(Handle(r)) /\ WF_vars(Delete(r))

FairSpec == Spec /\ Fairness

-----------------------------------------------------------------------------
TypeOK ==
  /\ wrapper \in {"open", "closed", "collected"}
  /\ finalizer \in Requests \cup {Direct, None}
  /\ slotBusy \in Requests \cup {None}
  /\ slotPort \in Requests \cup {None}
  /\ slotBox \in Requests \cup {None}
  /\ step \in {"out", "started", "deferred", "undeferred"}
  /\ previous \in Requests \cup {None}
  /\ started \in 0..MaxRequests
  /\ failures \in 0..Faults
  /\ refs \in [Requests -> 0..2]
  /\ owner \in [Requests -> BOOLEAN]
  /\ request \in [Requests -> {"unborn", "pending", "answered", "deleted"}]
  /\ port \in [Requests -> {"none", "pinning", "armed", "closed"}]
  /\ post \in [Requests -> {"none", "buffer", "refusal"}]
  /\ buffer \in [Requests -> {"none", "carried", "owned", "released"}]
  /\ future \in [Requests -> {"none", "pending", "ok", "error"}]
  /\ drops \in 0..1

-----------------------------------------------------------------------------
(* Safety.                                                                 *)

(* The provider is not dropped while a request on it is unanswered, by     *)
(* close(), by a finalizer or by a replaced box: zenoh would fault on it.  *)
NoDropUnderRequest == drops > 0 => \A r \in Requests : request[r] # "pending"

(* A provider that is not closed and not collected is never dropped, in    *)
(* particular not by the box of a finished request that a new one          *)
(* replaces: every later call of the open wrapper uses it.                 *)
ProviderOutlivesUse == wrapper = "open" => drops = 0

(* Whoever can still reach a box (zenoh until delete_fn, the slot, the     *)
(* finalizer, a call that replaces it) reaches one that is not freed.      *)
HeldBoxIsLive ==
  \A r \in Requests :
    \/ request[r] \in {"pending", "answered"}
    \/ slotBox = r /\ wrapper = "open"
    \/ finalizer = r
    \/ previous = r /\ step # "out"
    => refs[r] > 0

(* No interleaving of requests, late answers, close() and collection takes *)
(* the provider or a box from whoever may still use it.                    *)
ProviderHeld == NoDropUnderRequest /\ ProviderOutlivesUse /\ HeldBoxIsLive

(* A chunk on its way to Dart is in a port that will still deliver it;     *)
(* once it arrived, exactly the callers answered with success own one.     *)
BuffersAccounted ==
  \A r \in Requests :
    /\ buffer[r] = "carried" <=> post[r] = "buffer"
    /\ buffer[r] = "carried" => port[r] # "closed"
    /\ buffer[r] = "owned" <=> future[r] = "ok"

(* A request keeps the isolate alive exactly as long as a caller waits for *)
(* its Future: not after close(), and not less, or the program ends first. *)
PinnedWhileAwaited ==
  \A r \in Requests : port[r] = "pinning" <=> future[r] = "pending"

(* Chunks and waiting callers are in step, through close() and late posts. *)
RequestsAccounted == BuffersAccounted /\ PinnedWhileAwaited

-----------------------------------------------------------------------------
(* Liveness.                                                               *)

(* A provider closed or collected is dropped in the end, unless a request  *)
(* on it is never answered.                                                *)
ProviderReclaimed ==
  wrapper # "open" /\ (\A r \in Requests : request[r] # "pending")
    ~> drops = 1

==============================================================================
