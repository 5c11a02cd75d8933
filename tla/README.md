# A TLA+ verification of zenoh_dart

`zenoh_dart` binds the zenoh publish/subscribe protocol to Dart. A C shim
(`src/src/zenoh_dart.c`) sits between zenoh-c ("canon" in the source's comments),
whose callbacks run on native threads, and a Dart package (`src/package/lib/src/`)
whose isolate runs one thing at a time. Almost everything that is hard in this
code happens at that seam:

* native threads tell the isolate things only by **posting to a port**; the post is
  refused when the port is closed, and what was in the queue of a port that closes
  is gone;
* a **native handle may travel inside a message**; it belongs to whoever holds the
  message;
* a block of the shim is **shared by a native thread and by a Dart object**, or its
  finalizer, and either may let go first;
* a Dart method cannot be interrupted by another Dart method, but a **native thread
  may run between any two of its native calls**, and inside a call that blocks;
* **isolates share a process** and move between its threads;
* nothing native may block the isolate for long, and the isolate must not wait for a
  native thread that is waiting for the isolate.

The modules model that seam. What zenoh does behind it (routing, recovery, the
shared-memory pool) is taken as any behaviour the shim's use of the API allows.

## Inventory

| part | state | operations | what is hard, and what makes it correct | modules |
|---|---|---|---|---|
| **Pull channels** (`PullSubscriber`, `PullQueryable`, `PullReplies`; `zd_*_try_recv`, tee) | the bounded channel; the *tee* block (armed flag, owner count); `_pending`, `_closed`, the port | declare, `tryRecv`, `recv`, the wake handler, `close`; the tee's call and drop | lost wakeups; a tee block freed twice or too early; `close()` against a delivery blocked on a full fifo; a waiter nobody answers | `PullContract`, `PullChannel` |
| **Demand-gated stream** (`DemandGate`) | `_running`, `_stash`, `_closed`; the controller's pause state and queue | the drive loop, `onListen`/`onPause`/`onResume`/`onCancel`, `takeStashed`, `close` | demand is tested before an await and used after it; several callers in one turn; order, bounded retention, every query disposed or handed over | `DemandGate` |
| **Declarations** (subscribers, queryables, publishers, queriers, tokens, their background, pull, liveliness and advanced forms) | slot, callback contexts, handlers, ports, finalizers; the session that owns some of them | `declare...` with up to three listeners, `close()`, `Session.close()`, collection; the callbacks and drops of each kind | a later part of a declaration refused while zenoh delivers to an earlier one; who frees a context, and after what; streams that outlive their entity or their session | `Entities` |
| **Push carriers** (`Subscriber`, `Queryable`, background forms, replies of a get) | port, controller, the set of undelivered handles | callback, listener, delivery, `close`, the sentinel | handles in flight at `close()`; a sentinel overtaking undelivered values; undecodable messages | `PushCarrier` |
| **Marshalling of a value** (the callbacks; `tryRecv`) | the blocks and elements made on the way | a callback's steps; the copy of each field | a failure half way; a clone without an owner; an absent field read as an empty one | `Extraction` |
| **Shared-memory async allocation** (`ShmProvider.allocGcDefragAsync`) | the slot, the box with two owners, the provider, its finalizer | start, answer, delete, `close`, collection | the provider dropped under an outstanding request, or never; late results; boxes replaced by later requests | `ShmAsync` |
| **Session open, scouting** | detached worker, moved config, session block, hello closure, port | `Session.open`, `Zenoh.scout`, `Session.close`, `Config.dispose` | the worker may be done before the native call has returned; failed starts; one owner per config and session | `Offload` |
| **Owned handles and finalizers** (`ZBytes`, `KeyExpr`, writers, `ZDeserializer`, `ShmMutBuffer`, `Query`), and the **sends** that move them | `_disposed`, `_consumed`, the slot, the native value, the finalizer | constructors, `dispose`, `markConsumed`, `finish`, `toBytes`, `undeclare`, `zd_fin_*`; `put`, `get`, `pullGet`, `reply...` | double free, use after a move, a finalizer left on what is gone or missing on what is left; moved arguments on every return code | `OwnedHandles` |
| **Process-wide state** | the logging slot; zenoh's error text per thread; the id buffer of an enumeration | `initLog`, `initLogWithSink`; failing calls with a detail; `peersZid`, `routersZid` | two isolates claim the slot in two steps each; the text of another isolate's failure; a buffer that cannot grow | `Process` |
| Value types, loader, bindings, vendored API | none | | immutable data, generated and third-party code: unit tests | none |

How they interact: `DemandGate` pulls from a pull handle and feeds a Dart
`StreamController`; a pull handle and every carrier is declared as in `Entities` and
belongs to a `Session`, whose `close()` makes zenoh drop their closures; values enter a
carrier's message or a pull handle's result as in `Extraction`; `open` and `scout` consume
a `Config`; queries and retained payloads leave a carrier or a channel as owned handles.
`PROJECT.json` lists every component with its status and every hazard with its
source line.

## The plan

Done, in this order (what relates two threads first): `PullContract`, `PullChannel` and the
refinement between them; `DemandGate`; `ShmAsync`; `PushCarrier`; `Offload`;
`OwnedHandles`; `Entities`; `Extraction`; `Process`; the proofs of `PullChannel` (safety and
the refinement), `DemandGate`, `ShmAsync`, `OwnedHandles`, `PushCarrier`, `Offload`, `Process`;
of `Entities`, first memory safety, then what is left of a declaration; `Extraction`. With that
every safety property of a run is a theorem; then the safety core of each liveness property.

Left: an isolate that ends with work outstanding, when the VM closes ports and runs finalizers in
an order of its own.

## Modules

### PullContract and PullChannel

`PullContract` is what the dartdoc of the three pull handles promises, with no
thread, tee or port: a buffer, a producer, at most one waiting `recv()`.
`PullChannel` is what the code does:

| model | code |
|---|---|
| `chan`, `kind`, `Capacity` | zenoh-c's fifo or ring channel |
| `armed`, `refs`, `freed` | `zd_tee_head_t`: the flag the ping is conditional on, the two owners |
| `deliverer[d]` | a native thread in `_zd_pull_tee_on_call`: pushing, testing the flag, posting |
| `closure` | the closure zenoh owns: live, inner half dropped, sentinel posted, released |
| `pc` | where the Dart method in progress is, between two native calls |
| `pending`, `waiting` | `_pending`; the future the application really holds |
| `port` | pings and the sentinel in the port |

A native call of the isolate is one action; another thread may run between any two of
them. `Looks` is `zd_pull_subscriber_try_recv` with its failures; `RecvLook`,
`RecvArm`, `RecvLookAgain` are `recv()`; `WakeLook`, `WakeRearm`, `WakeLookAgain` are
`_onWake`; `Close` to `PortClose` is `close()` in the order of the code, which drops
the consumer before it undeclares so that a delivery blocked on a full fifo is let
go. `column` is `"entity"` for subscribers and queryables, which are undeclared, and
`"reply"` for replies, whose producer ends by itself; it and `kind` are chosen when the handle is
declared. `FaultSites` says at which looks
an allocation may fail. A fifo of capacity 0 is excluded by assumption: the code
documents it as unusable.

### DemandGate

The gate over `PullContract`'s steps (`Handle == INSTANCE PullContract`), with the
parts of `dart:async` it relies on as external definitions: the controller's queue,
its pausing, the microtask that delivers, what `onResume` runs and when. `Drive...`
is the loop up to its next await, run inside the call that started it; `Loop...` is
what the loop does when the awaited pull resumes it. `turn` is the code on the stack:
none, the application, or the application inside `onData`.

### Entities

What a session declares, from the declaration to the last callback. The first part is a
table: for each entry point of the shim the callback and the drop it builds, and whose life
the closure shares (`"entity"`, `"session"` or `"query"`). A *form* is a Dart
method with its choice of entry points (`Main`, `Further`); an entity of a form has up to three
listeners:

| model | code |
|---|---|
| `ent[e].slot`, `FreeSlot` | the block of the native entity, its `calloc.free` or finalizer |
| `lis[e]["main"]`, `["side"]`, `["detect"]` | samples, queries or replies; matching status or missed samples; publisher detection |
| `ctx`, `owners` | the callback context; two owners if it is a tee |
| `closure`, `running` | what zenoh has, and a callback in progress on it |
| `handler` | the channel's consumer of a pull form |
| `port`, `queue`, `done` | `ReceivePort`, its messages and the deferred close, the closed controller |

A declaration is `Declare`, then `DeclareFurther` for each listener asked for: zenoh delivers
between them. Each call of an entry point ends `Accepted`, `Refused` (zenoh drops
the closure, the shim what it built around it), `NoMemory` or, for channels, `BadCapacity`; a
refusal of a later part closes what was opened and undeclares (`TearDownReturn`).
`Undeclared` is what zenoh's undeclaration does, which waits for a running callback of the main
listener and drops a side listener's closure when its callback has ended. `Close` and
`CloseReturn` are the `close()` methods, `Collect` the finalizer of publishers, `SessionClose` the
end of everything the session owns.

### PushCarrier

One carrier of any column, foreground or background, retaining or not, from the
callback to the application. `fate[v]` records where the handle of value `v` is;
`undelivered` is the code's set. Closing the port discards what was in it
(`ClosePort`); `close()` therefore puts the closing off by one turn of the event loop,
as the code does with a timer (`CloseTimer`).

### Extraction

One value of zenoh's (`wire`: which fields are absent, empty or have data), read by both
receive surfaces. The push side is a callback as a list of steps (`sample_callback`,
`query_callback`, ...), the pull side a `try_recv` as a list of sites (`Site`), one per field, each
with the block it claims and what it gives back when `malloc` returns NULL; `CopyFails` may strike at
any of them, a conversion may be refused, the port may be closed. `heap` tells
what has become of each block, `seen` what Dart makes of the cells or the message, `app` the
handles the application holds, which it disposes of in any order. `Columns` says which fields a
value of each column can have at all; the sites rely on it: the error column has no site
for a key expression, so an error reply that had one would be read without. The specification is
`ReadSpec` (its names differ from those of `ShmAsync`, beside which it is proved).

### ShmAsync

One provider and requests on it, one after another. `refs[r]` are the two references
to the box of request `r`, `owner[r]` says the box will drop the provider with its
last reference (`HandOver`, `Undefer`), `finalizer` is the token the wrapper's
finalizer would release, `slotBusy`, `slotPort`, `slotBox` are `_AsyncSlot`. `Answer` and
`Delete` run on zenoh's thread. `allocGcDefragAsync` is `Start`, `Defer`, `Undefer`,
`ReleasePrevious`: a native thread may run between any two.

### Offload

`Session.open` and `Zenoh.scout`, which share a shape: take the config, start a detached
worker, mark the config consumed, wait on a port. The worker's steps may fall anywhere
from the moment it is started, in particular before the native call has returned
(`phase = "native"`). A start that fails is `CallFails`, `CallThrows`. Calls share
configs, so a second call on a consumed one is refused.

### OwnedHandles

Everything here runs on the isolate, so a call is an action, and so is a finalizer, which
runs between two calls. `h[i]` is one wrapper and what hangs on it:

| field | code |
|---|---|
| `kind` | the class; `writer` is `ZBytesWriter` and `ZSerializer`, `cursor` is `ZDeserializer`, `keyexpr` and `view` are the two backings of `KeyExpr` |
| `state` | `_disposed`, `_consumed`, `_finished`, `_undeclared` |
| `slot`, `content` | the block the isolate allocated, and the native value in it |
| `net` | which `NativeFinalizer` is attached: drop and free, free alone, none |
| `source` | the `ZBytes` a deserializer reads |

`markConsumed`, `dispose` and `Finalize` are what the code does to one wrapper; a release of
what is gone leaves the mark `"wild"`. A constructor (`Create`, `CloneKeyExpr`, `Concat`, `Join`)
allocates the slot, calls an entry point and attaches the net only if that has filled the slot;
the sets `zd_bytes_copy_from_buf` to `zd_shm_provider_alloc` are the outcomes of each. The sets
`zd_put` to `zd_bytes_writer_append` say what each sending entry point may return and what it has
then done with payload and attachment; `Send` gives one of these outcomes to what `Sendable`, the
accessors' guard, has let through. Calls that take a string make a `ZBytes` of their own
(`SendText`); `Query.reply` makes it before its last guard (`ReplyRefused`). The two blocks of a
view count as one slot, freed together in every path. `Config` is in `Offload`.

### Process

What isolates share. A call begins on a thread that no other call is on and stays there; between
two calls its isolate may move. `InitLog...` and `Sink...` are `zd_init_log` and
`zd_init_log_with_callback`: the atomic claim of the flag, the port, and zenoh's own first-wins slot
(`FirstWins`) are three steps. `Reported` writes zenoh's text of a thread,
`CaptureLastError` copies it within the failing call, with both clamps (`Copied`). `CollectZid`,
`ZidsEnd`, `ReadZids` are an enumeration: the growing buffer, its failures, what Dart reads.
`LastErrorCap` stands for the 512 of the code; the clamp is the only thing that depends on it.

## What the runs check

| run | instance | what it shows |
|---|---|---|
| `PullChannel` | fifo and ring of 2, subscriber or queryable and replies, two delivering threads, 5 values, a session closed first over a ring, faults at every look but `recv()`'s second | no wakeup is lost, a waiter is served or told of the end, `close()` returns although deliveries are blocked, the tee block is freed once and not used after; refinement of `PullContract` |
| `PullRefused` | capacity 1, one delivering thread, faults at `recv()`'s second look | **violation**, below |
| `DemandGate` | fifo of 1, 4 values, one failed pull, microtasks of the application | order, retention bound, ownership, no stuck stream |
| `GateLoses` | fifo of 1, 3 values | **violation**, below |
| `Entities` | one declaration of any form and a background stream beside it, one callback per listener | contexts, handlers and slots are freed once, after their last use; a declaration and its end are all or nothing; no stream speaks after its end; no handle in a message is lost but publisher detection's; streams of a session end with it |
| `PushCarrier` | all columns and modes, 3 values | a handle is never both handed over and released; the stream ends, and then nothing is held but what a background listener may still take, or has cancelled on |
| `PushRepliesLost` | one reply | **violation**, below |
| `PushCancelledLeaks` | one query | **violation**, below |
| `ShmAsync` | three requests, one failed start | the provider is dropped, once, never under a request; chunks and callers are accounted for |
| `Offload` | two calls of either kind, one shared config or none, 2 hellos | one owner per config, session and closure; every started call is answered |
| `OwnedHandles` | four wrappers of any kind, every call and return code | nothing is released twice, no guard lets through what is gone, the finalizers cover what is left |
| `NativeCalls` | `Extraction`: every wire, each field absent, empty or with data where its column allows it. Or `Process`: two isolates, two threads, two calls each | both surfaces tell the same story; a block is released once and by its owner; a failure leaves nothing behind. One sink; an error's text is that of its own call; an enumeration is complete or fails |

Every property of a passing run has a mutant in `PROJECT.json`: a definition changed the way a
plausible bug would change it, with which the property fails. Mutated definitions stand
before the ones they would replace.

**Bounds.** Values, requests and calls are numbered, and nothing depends on their
number, only on how many can be in each stage at once. Two delivering threads are what
a race between deliveries needs; five values fill a channel of 2, keep a delivery blocked, or make a
ring drop its oldest, leave one to arrive while a wake is handled and one after it. The session closes
first over rings alone (`SessionFirst`): over a full fifo `Session.close()` may really block for ever. Three requests give a box
its predecessor and its successor. Three values in a carrier put one in the port, one in
the controller and one with the application. Two calls share a config in either
order. Entities touch each other only through the session and the isolate they wait for, so one of
any form beside one that is the session's shows both; one callback per listener is in
progress or over at any point of the other steps. A wire is one value, and both surfaces read it
independently. No call touches more than four wrappers (a query, a payload, an attachment and
the bytes it makes, or a cursor on one of them). Two isolates race for the log slot or fail on
the same thread; three peers make the buffer grow twice after its first allocation. `Extraction` and
`Process` share no state: a behaviour of `NativeCalls` is one of either, with the other at rest.
Wrappers of `OwnedHandles` are interchangeable, and so are isolates and threads of `Process`, hence the
symmetry; both runs check invariants only. `CHECK_DEADLOCK FALSE` is said where everything
really ends: all values sent, all carriers closed, all calls answered, all wrappers collected.

**Fairness.** Weak fairness is on steps that are one call or one return of code that
does not block: a native thread that has entered the tee goes on; a Dart method runs
to its end; the idle isolate takes the next message or microtask; zenoh runs the
drop of a closure it was told to undeclare. Nothing is assumed of the
application (it may never listen, never poll, never close), of arrivals, or of
`Answer` in `ShmAsync`: a request the pool cannot satisfy stays pending for ever. Further:

* `ReplySpec` adds that zenoh ends every query; the get has a timeout.
* `DemandGate` needs strong fairness of the handle's wake, and that the event loop keeps
  coming round (`[]<>`), because an application that never returns from its microtasks
  starves it. `PushCarrier` has strong fairness of `TakeEvent` for the same reason:
  an application that pauses and resumes at every step would otherwise keep the
  event loop waiting.
* `Entities` has strong fairness of `TakeMessage`, one port at a time: the isolate's event queue is
  first in, first out over all ports, and calls of the application between messages only
  delay it. Callbacks end by themselves: all they do is marshal and post. Calls that have begun
  go on once what they wait for has ended.
* `Offload` has it that the worker goes on: `z_open` and `z_scout` are
  bounded by timeouts of their own.

## What disagrees with the source

Four disagreements have a run that TLC must find violated.

* **`resume()` and `cancel()` in one turn drop the stashed value** (`GateLoses`), against
  "exactly two exits" (`demand_gated_stream.dart:54-66`). On the query column the query is never
  disposed.
* **Retained replies still in the controller are released at the end of the query**
  (`PushRepliesLost`), against "completes when all replies have been received"
  (`session.dart:1733`).
* **A throwing second look leaves `recv()` pending** (`PullRefused`), against "Throws [StateError] if
  a `recv()` is already pending" (`pull_subscriber.dart:537-538`). `recv()` sets `_pending` before its
  second look (`:579`, `:582`); when that look throws, because the shim could not allocate,
  `_pending` stays set. Every later `recv()` is refused although none is pending, and the next wake
  hands its value to a future nobody has. The same call in `_onWake` is guarded. `NoLostWakeup` and
  the refinement hold without that fault (`FaultSites`), and only without it.
* **A background queryable whose listener cancelled keeps its queries for ever**
  (`PushCancelledLeaks`), against "the consumer can still receive them from the closing controller"
  (`queryable.dart:146-148`). What comes after the cancellation is tracked and then dropped by the
  controller (`:229-230`); the sentinel drains nothing, a background form has no `close()` and a `Query`
  no finalizer, so each getter waits for its timeout. A background subscriber that retains payloads
  keeps those the same way (`subscriber.dart:214`). `ReleasedAtEnd` makes this one exception
  (`sub = "cancelled"`), and `OnlyUndecodableOrphaned` does not count such a handle, which the carrier's
  set still refers to, as orphaned.

Others are in the models, where a property names the exception it has to make:

* `pullGet` marks payload and attachment consumed on return code 11 (`session.dart:2105`), with
  which the shim has not touched them: nobody releases them. `Querier.pullGet` exempts that
  code. `NetCoversAll` makes the exception (`eleven`).
* A failed start overwrites the slot's box with 0 (`shm_provider.dart:797`); the previous request's
  box is then never let go of by hand. `ProviderReclaimed` shows that the provider still is.
* `SampleChannel.abandon` has "No sample can have arrived, so there is nothing to drain"
  (`subscriber.dart:326-329`). An advanced subscriber calls it for a channel that is already being
  delivered to, when its miss listener or publisher detection is refused
  (`advanced_subscriber.dart:201`, `232`): retained payloads in the port are lost.
  `OnlyDetectionLoses` makes the exception. It also names the tokens of publisher detection
  that arrive after `close()` has closed their port, since that listener is the session's.
* `initLogWithSink` "throws rather than returning a stream", "because a stream that can never emit
  is a lie" (`zenoh.dart:206-208`). An `initLog` that claims the flag after a sink has, and reaches
  zenoh before it, leaves exactly such a stream (`Overtaken` in `OneSink`).
* `zd_pull_subscriber_try_recv` does not test what `malloc` returns for the timestamp
  (`zenoh_dart.c:4544`) as it does for every other field. `Extraction` ends there (`Crashed`).
* A paused subscription can retain capacity + 2 values, where the dartdoc counts capacity + 1:
  `resume()` and `pause()` in one turn keep one in the controller (`RetainedBounded` states the
  bound that holds).
* The comment at `zenoh_dart.c:3889` has the provider dropped after `delete_fn`; a second request
  carries it away from the first box, whose `delete_fn` is then not waited for. What
  `ProviderHeld` states is what holds.
* The comment at `pull_subscriber.dart:585` calls the left-over arming "bounded at one"; pings add up
  when `recv()` is called again before the isolate takes a message, harmlessly.
* `Session.close()` with a delivery parked on a full fifo blocks the isolate: the code and
  `fifo_close_deadlock_test.dart` document it as a residual, `RecvServed` excludes that
  state by name.

## What is proved

Proofs hold for every value of the constants, without the bounds of the runs other than
those that cap a counter in a guard, which may have any value. Each proof module has a type
invariant theorem (`TypeCorrect`) and the theorems below; each rests on one inductive invariant
whose parts are named, and has one lemma per action or per thing an action does.

### PullChannelProofs

`TypeCorrect`, `TeeMemorySafe` and `TeeNeitherLeakedNorDoubleFreed` rest on
`TeeInv == TypeOK /\ PhaseInv /\ QuietInv /\ CountInv`. `CountInv` counts the owners: `refs`
is the number of zenoh's and Dart's references that are still held, and the block is freed
exactly when there is none. That alone is not inductive: no thread may be inside the
tee before zenoh has the closure or once it destroys it (`QuietInv`), and what the isolate
is doing constrains the closure and the port (`PhaseInv`).

`CloseIsNotHeldUp` rests on `ReceiverInv` on top of it: `close()` drops the receiving end of the channel before
it waits for anything, and a declaration that is refused was never delivered to. It is the answer to the
deadlock `pull_subscriber.dart:692-728` describes; `Session.close()`, which drops no receiving end,
has none.

`NoWakeupLost` rests on
`RecvInv == TeeInv /\ WaiterInv /\ ArmedInv /\ WakeInv`. `WaiterInv` says where in a method a
waiter can be registered and that the application then holds its future; `ArmedInv` that a
registered waiter is armed or the ping its arming paid for is on its way; `WakeInv` is the
wakeup property, also while the session is being closed. It assumes
`SecondLookInfallible`, that the second look does not fail: the code does not ensure that, and
`PullRefused` shows what happens otherwise.

`HandleImplementsContract`: under the same assumption `PullChannel` implements `PullContract`, for
both kinds of channel and both columns. A native thread's `Push` is the contract's `Accept`; a look
with an answer is `Poll` or, for a registered waiter, `Serve`; `RecvLookAgain` that finds
the channel empty is `Wait`; a second `recv()` is `Contend`; `DropInner` is `Disconnect`; `Close` and a
refused declaration are `Close`. Everything else, pings, arming, the sentinel and the tee's owners, is
a stutter (`HiddenIsStutter`). It rests on `RefInv == RecvInv /\ SentinelInv`: `RecvInv` gives that a
wake finds the waiter the contract has, and `SentinelInv` that a sentinel is in the port only once the
closure has posted it, so that a wake which reads it never finds the channel empty and connected.

### DemandGateProofs

`RetentionIsBounded`, `EveryValueHasOneFate` and the action property `StreamKeepsOrder` rest on
`IInv`, for every kind and capacity of channel and any number of values and failed pulls
(`DemandGateAssumption` is all that is assumed). Its parts:

* `LoopInv`: the loop is in one place (running inside the call that started it, awaiting a pull,
  woken with a result, or over), and it awaits only with an empty stash; `MicroInv`: each
  continuation is among the microtasks once.
* `DeliveryInv`: a controller that has something queued and is not paused has its delivery
  scheduled; `DoneInv`: the end of the stream is the last event.
* `RoomInv`: that delivery goes before the loop, which could add another value, unless
  an error was queued in front of it. This is what bounds the controller's queue, and the reason is
  the order of the microtasks, not a guard of the code.
* `OrderInv`: what was shown, what is queued, what the gate holds and what is in the channel are in
  ascending order; `FateInv`: a value that has been handed over or released is in none of these.

A step moves values in one of nine ways (`Stays`, `Arrives`, `IsPulled`, `IsPolled`, `IsQueued`, `IsShown`,
`IsRetrieved`, `IsReleased`, `AreCancelled`); that each keeps `OrderInv` and `FateInv` is proved once, and each action
is shown to be one of them.

`DemandIsServed` and `EndIsAnnounced` rest on `FlowInv == ClosedInv /\ RunsInv /\ ResumesInv /\ TellsInv` on top of
it: what the end of the handle leaves, where the loop is while there is demand, which pauses an
`onData` on the stack will find gone when it returns, and that what is queued for an unpaused subscription
is going to be delivered.

### NativeMemoryProofs

Of `ShmAsync`: `TypeCorrect`, `RequestsHaveProvider`, `OpenWrapperHasProvider`, `NoUseOfFreedBox` and
`ProviderIsHeld`, the three together, rest on
`IInv == TypeOK /\ CountInv /\ MethodInv /\ OpenInv /\ EndInv`. `CountInv` says that a box
Dart has no reference to is counted by zenoh's alone; `MethodInv` what `allocGcDefragAsync` has done
at each of its steps; `OpenInv` that while the wrapper is open Dart has a reference to every box
that could drop the provider, and that what is unanswered is the request in the slot;
`EndInv` that afterwards at most one box will still drop the provider, none if it is dropped, and
it is the box of the unanswered request if there is one. The provider's safety is this whole
argument: no single part of it is preserved by `close()` or by a replacing request alone.
`PinsWhileAwaited`, `NoChunkLost` and `NoRequestForgotten`, the two together, rest on a second
invariant on top, `DeliveryInv == PortInv /\ BufferInv`: which ports are open for whom, and where
chunks are. `ProviderGoesWithTheLast` says that a provider whose wrapper is gone has been
dropped by the time zenoh is done with the last request. It rests on `NetInv`, the net of an open wrapper
is the provider's own finalizer or a box that holds the provider, and on `LetGoInv`, once the
wrapper is gone the provider is dropped or will be with the box of a request zenoh still has.

Of `Extraction`, for every set of values `ExtractionAssumption` admits: `SurfacesTellTheTruth`,
`OwnersRelease` and `CallsCleanUp` rest on `ReadInv == ReadTypeInv /\ PullInv /\ PushInv`. What
the sites of a column claim and give back is settled first and apart from any step: `SitesOK` (no block is
claimed by two sites), `FailureOK` (a site that fails gives back the value and what all sites before it
have claimed, and no string they are through with) and `CoverageOK` (each handle has a site,
and a field without one is read as what it is) are proved of each of the four lists of
sites (`SampleSites`, `OkSites`, `ErrorSites`, `QuerySites`). `PullInv` then says that between two
sites the live blocks are the value and what the sites before have claimed (`Copying`), and that
afterwards they are those behind the application's handles. `PushInv` does the same for a callback:
before the post, what is live is what its steps so far have made, and an element of the message is a
slice only of storage that is live (`Building`); after it, what the callback releases and what the
message carries are apart (`Posted`). The three properties are not inductive: that no block is released
twice needs to know which ones are live at each step, not only that none is wild. A step of one surface
leaves the other alone (`PullKept`, `PushKept`).

### OwnedHandlesProofs

`TypeCorrect`, `NothingReleasedTwice`, `GuardsAreEnough` and `NetIsExact` rest on `IInv`: every
wrapper is `Sound`, which says for each of its states what its slot, its value and its
finalizer are, and a cursor's source is a `ZBytes`. Only the last relates two wrappers; the rest is
looked at one wrapper at a time: a lemma for each thing a call does to one
(`ConstructedSound`, `SendSound`, `DisposeSound`, `FinalizeSound`, `DowngradedSound`, ...), and
`AllBecome`, that a step which makes something sound of every wrapper keeps `IInv`. The
properties themselves are not inductive: that no slot is freed twice needs to know that a
wrapper whose slot is freed has no finalizer and passes no guard. For queries, which have no
finalizer, `NetIsExact` says nothing.

### PushCarrierProofs

`NoneLeftBehind`, `BackgroundIsComplete` and the action property `SettledForGood` rest on
`IInv == TypeOK /\ ValueInv /\ EventInv /\ QueueInv /\ OrphanInv /\ CompleteInv`. A value is in one
place: what the port holds (`EventInv`), what the controller holds (`QueueInv`) and what its
fate says agree, and each place holds a value once. That is what makes a close safe: the
drained handles are those that fates call queued. `CompleteInv` says for a carrier that ends
by its sentinel what is still before the listener when the sentinel is taken.

`PortIsGivenUp` and `EndReachesListener` rest on `EndInv == PortEndInv /\ ControllerEndInv` on top of it: from
zenoh's letting go until the port is closed, the message that closes it is the last one there, and a
closed controller ends with the done event while anyone can still listen to it. What is still tracked
behind a closed port `PortIsGivenUp` settles case by case: nothing for a carrier that was closed or whose
query ended; for a background subscriber or queryable only what its controller holds (`CompleteInv`),
unless the listener cancelled, of which it says nothing, and `PushCancelledLeaks` shows why.

### OffloadProofs

`ConfigIsOwned`, `SessionIsDelivered` and `ScoutTellsAll` rest on `ConfigInv` and on a `CallInv` per call.
`ConfigInv` says that a worker in progress has its config to itself, and who holds a config
that is taken, so that two calls on one config never meet. `OpenInv` and `ScoutInv` tie a worker's step
to the message in its port and to the Future: which is where "the worker may be done before the call
has returned" is settled. Calls are otherwise independent (`OthersSame`, `SameKeeps`). `NoCallAbandoned` follows from the same invariant: a worker
that has ended has left the message that completes its call, and behind it is nothing else.

### EntitiesProofs

`FreedOnce` rests on `Sound`, for each listener, and `Shape`, for each entity. `Sound` counts a
context's owners: one if zenoh has the closure, one if the handle of a pull form exists or is
being closed; the context lives exactly as long as there is one, and a running callback's closure is
zenoh's. `Shape` says that a slot is freed only by the entity's end, and that only pull
forms, whose declaration has one part, have a tee: no declaration is torn down with two owners. A lemma
for each thing that can happen to one listener (`AcceptedSound`, `FailedSound`, `DropSound`,
`UndeclaredSound`, `EndOfSound`, ...) is then carried to the steps by `OneEntity` and `OneListener`.

`StreamsEndForGood`, `DetectionAloneLoses` and `NothingIsLeft` rest on a second invariant on top of it,
`LifeInv /\ SessionInv`: about what waits in a port, which the first says nothing of.
`Lives` is for one listener and has four parts:

* `Declared`: listeners are declared one after the other, detection last, by an entry point that fits
  the form and the role. So a declaration that is refused at one part has nothing of a later one.
* `Ending`: when the entity is over, zenoh has no closure of its own left, save a side listener's
  whose callback is running.
* `Draining`: where a port is still open then, the message that closes it is in it; behind that, and
  behind the null of a stream, there is no handle. This is what makes the deferred close lose
  nothing, and is why `DetectionAloneLoses` is no property of any one step: that no handle comes
  later was decided when zenoh dropped the closure.
* `History`: what `done` and `lost` stand for.

`Stage` says which forms can be in which state and that the slot goes with the entity; `SessionInv` that the
session does not close within a declaration and that, once closed, it has none of its own closures
left. How a message joins or leaves a port is proved once for sequences (`AppendWaits`, `TailWaits`), what
each operation does to a listener's stream once for each operation, and again carried to the steps
entity by entity.

`EndIsNotForgotten` adds `EndInv`: of a stream that nobody has to close, the null is in the port from
the drop of the closure until the port is closed, and a port that is closed, or about to be by the timer,
has a stream that is done. With `Ending` and `SessionInv` nothing else is left when the session is closed.

### ProcessProofs

`OneSinkAtMost`, `DetailIsOfItsCall` and `EnumerationIsComplete` rest on
`IInv == TypeOK /\ SlotInv /\ ThreadInv /\ ZidInv /\ ToldInv`. `SlotInv` says that one isolate at most has
passed the claim, and what zenoh's slot and the port are at each of its steps; `ThreadInv` that two
calls are never on one thread and that, where a call has failed, its thread's text is its own; `ZidInv`
what the buffer holds after each id; `ToldInv` carries the three to what the caller was told.

## What is only model-checked

Liveness everywhere: fairness and `ENABLED` are out of reach of the prover used here
(`RecvServed`, `CloseReturns`, `RecvDisconnects`, `StreamFlows`, `CloseReachesListener`, `Answered`,
`ProviderReclaimed`, `StreamEnds`, `ReleasedAtEnd`, `BackgroundStreamsEnd`, `ClosedIsReclaimed`).

What the code decides of it is proved, though: that nothing which is waited for is forgotten. Each of
these theorems says that what a liveness property awaits is at every moment done, under way, or
promised by something that is still to happen; TLC adds that the threads get there.

| liveness property, by TLC | its safety core, by TLAPS |
|---|---|
| `RecvServed`, `RecvDisconnects` | `NoWakeupLost` |
| `CloseReturns` | `CloseIsNotHeldUp` |
| `StreamFlows` | `DemandIsServed` |
| `CloseReachesListener` | `EndIsAnnounced` |
| `StreamEnds` | `EndReachesListener` |
| `ReleasedAtEnd` | `PortIsGivenUp` |
| `Answered` | `NoCallAbandoned` |
| `ProviderReclaimed` | `ProviderGoesWithTheLast` |
| `BackgroundStreamsEnd` | `EndIsNotForgotten` |
| `ClosedIsReclaimed` | `NothingIsLeft` |

Every invariant and every action property of the passing runs is also a theorem, two of `PullChannel`
under `SecondLookInfallible`. The second invariant of `Entities` and that of `Extraction` were checked by
TLC on the runs' instances before they were proved.

## What is not modelled

* The isolate ending with work outstanding (every module).
* `PullChannel`: the fields a look extracts are one value; `Extraction` has them.
* `ShmAsync`: a refusal by zenoh after the request's context exists. The synchronous
  allocations are in `OwnedHandles` with every outcome they report; which outcome the
  pool gives, and when defragmentation or eviction makes room, is zenoh's.
* `PushCarrier`: a declaration that fails and the end of the session are in `Entities`, which
  has no values, only messages.
* `Entities`: gets of a querier and of a session, whose reply carrier is in `PushCarrier` and
  `PullChannel` and whose arguments are in `OwnedHandles`; deleting, and reading the matching
  status, which are one call of zenoh each.
* `OwnedHandles`: wrappers made by hand over a `nativePtr`, which the dartdoc forbids. That zenoh
  takes a moved argument on every return code is an assumption, the one the code's
  comments state. When a finalizer runs is up to the collector: nothing says that it does.
* `Offload`: a hello that cannot be marshalled for lack of memory, which is dropped.
* `Process`: filtering of records by severity, and initialisations of zenoh's logging by other
  code in the process, which the source says it cannot see.
* What a codec computes (serializer widths, encodings, timestamps), key-expression algebra, options
  and value types: immutable data with no interleaving; the repository's tests compare them with
  zenoh byte for byte.
* Components listed `not_modelled` in `PROJECT.json`, each with its reason.
