------------------------------ MODULE Offload --------------------------------
(***************************************************************************)
(* Session.open and Zenoh.scout: a call that blocks for seconds runs on a  *)
(* detached worker thread, and a port brings its outcome to a Future.      *)
(*                                                                         *)
(*   isolate: take the config, start the worker | mark the config consumed *)
(*   worker:      z_open / z_scout ............. post -> port -> Future    *)
(*                                                                         *)
(* The worker may be anywhere, done included, before the isolate has       *)
(* returned from the native call.  A scout posts hellos while it runs; its *)
(* closure's drop posts the sentinel that ends it, called by zenoh or, if  *)
(* zenoh refused the closure, by the worker.                               *)
(***************************************************************************)
EXTENDS Naturals, Sequences

CONSTANTS
  Calls,      (* calls of Session.open and Zenoh.scout                     *)
  Configs,    (* Config objects of the application                         *)
  NoConfig,   (* the argument left out                                     *)
  MaxHellos   (* bound: hellos of one scout                                *)

ASSUME OffloadAssumption ==
  /\ NoConfig \notin Configs
  /\ MaxHellos \in Nat

VARIABLES
  kind,       (* of a call: "open" or "scout"                              *)
  arg,        (* its config                                                *)
  phase,      (* its Dart side: "idle", "native" (the call has come back), *)
              (*   "refused" (come back with a code), "returned", "threw"  *)
  config,     (* of a Config: "live", "consumed", "disposed", "collected"  *)
  content,    (* its native content: "here", "taken" by a worker, "gone"   *)
  worker,     (* "none", "running", "returned", "posting", "done"          *)
  session,    (* its session block: "none", "blank", "open", "owned" by a  *)
              (*   Session, "freed"                                        *)
  closure,    (* its hello closure: "none", "armed", "dropped"             *)
  hellos,     (* hellos it has received from the network                   *)
  port,       (* "none", "open", "closed"                                  *)
  posts,      (* messages in the port                                      *)
  heard,      (* hellos in the list a scout will complete with             *)
  future      (* "none", "pending", "ok", "error"                          *)

dartVars   == <<phase, heard, future>>
nativeVars == <<worker, session, closure, hellos>>
vars == <<kind, arg, dartVars, config, content, nativeVars, port, posts>>

-----------------------------------------------------------------------------
(* Messages: hellos, the sentinel of a scout, and an open's return code,   *)
(* which comes with the session's address or with 0.                       *)
Hello == "hello"
Sentinel == "sentinel"
Opened == "opened"
Failed == "failed"

\* A post to a closed port is lost.
Post(q, c, m) == IF port[c] = "open" THEN [q EXCEPT ![c] = Append(@, m)] ELSE q

\* The isolate is inside a call: it takes no message until that returns.
Busy == \E c \in Calls : phase[c] \in {"native", "refused"}

\* What becomes of the content of the config that call c has taken.
Spent(c) == IF arg[c] = NoConfig THEN content
                                 ELSE [content EXCEPT ![arg[c]] = "gone"]

-----------------------------------------------------------------------------
(* The isolate: open() and scout().                                        *)

\* A config that was consumed or disposed is refused before anything is made.
CallRefused(c, f) ==
  /\ ~Busy
  /\ phase[c] = "idle"
  /\ f \in Configs
  /\ config[f] \in {"consumed", "disposed"}
  /\ phase' = [phase EXCEPT ![c] = "threw"]
  /\ arg' = [arg EXCEPT ![c] = f]
  /\ UNCHANGED <<kind, config, content, nativeVars, port, posts, heard, future>>

MayCall(c, f) ==
  /\ ~Busy
  /\ phase[c] = "idle"
  /\ f # NoConfig => config[f] = "live"

\* Mutant: the config stays where it was until the worker uses it.
TakeLater(c, f) == content

\* z_config_take, ahead of everything that can fail.
Take(c, f) == IF f = NoConfig THEN content ELSE [content EXCEPT ![f] = "taken"]

\* The worker starts: blocks, closure and thread were all to be had.
CallStarts(c, f) ==
  /\ MayCall(c, f)
  /\ arg' = [arg EXCEPT ![c] = f]
  /\ content' = Take(c, f)
  /\ phase' = [phase EXCEPT ![c] = "native"]
  /\ worker' = [worker EXCEPT ![c] = "running"]
  /\ session' = [session EXCEPT ![c] = IF kind[c] = "open" THEN "blank" ELSE @]
  /\ closure' = [closure EXCEPT ![c] = IF kind[c] = "scout" THEN "armed" ELSE @]
  /\ port' = [port EXCEPT ![c] = "open"]
  /\ future' = [future EXCEPT ![c] = "pending"]
  /\ UNCHANGED <<kind, config, hellos, posts, heard>>

\* It does not: what was taken is dropped, and nothing will be posted.
CallFails(c, f) ==
  /\ MayCall(c, f)
  /\ arg' = [arg EXCEPT ![c] = f]
  /\ content' = IF f = NoConfig THEN content ELSE [content EXCEPT ![f] = "gone"]
  /\ phase' = [phase EXCEPT ![c] = "refused"]
  /\ port' = [port EXCEPT ![c] = "open"]
  /\ UNCHANGED <<kind, config, nativeVars, posts, heard, future>>

\* Config.markConsumed: the finalizer is detached and the Dart block freed,
\* on either path; the content, if it were still there, would go with it.
MarkConsumed(c) ==
  config' = IF arg[c] = NoConfig THEN config
                                 ELSE [config EXCEPT ![arg[c]] = "consumed"]

\* Mutant: the port is closed on either path.
CallReturnsClosing(c) ==
  /\ phase[c] = "native"
  /\ MarkConsumed(c)
  /\ phase' = [phase EXCEPT ![c] = "returned"]
  /\ port' = [port EXCEPT ![c] = "closed"]
  /\ posts' = [posts EXCEPT ![c] = <<>>]
  /\ UNCHANGED <<kind, arg, content, nativeVars, heard, future>>

CallReturns(c) ==
  /\ phase[c] = "native"
  /\ MarkConsumed(c)
  /\ phase' = [phase EXCEPT ![c] = "returned"]
  /\ UNCHANGED <<kind, arg, content, nativeVars, port, posts, heard, future>>

CallThrows(c) ==
  /\ phase[c] = "refused"
  /\ MarkConsumed(c)
  /\ phase' = [phase EXCEPT ![c] = "threw"]
  /\ port' = [port EXCEPT ![c] = "closed"]
  /\ posts' = [posts EXCEPT ![c] = <<>>]
  /\ UNCHANGED <<kind, arg, content, nativeVars, heard, future>>

-----------------------------------------------------------------------------
(* The worker of an open.                                                  *)

\* z_open consumes the config and fills the session block, or fails; then
\* the worker frees the block.
OpenEnds(c, outcome) ==
  /\ worker[c] = "running" /\ kind[c] = "open"
  /\ worker' = [worker EXCEPT ![c] = "posting"]
  /\ session' = [session EXCEPT ![c] = outcome]
  /\ content' = Spent(c)
  /\ UNCHANGED <<kind, arg, dartVars, config, closure, hellos, port, posts>>

\* The one post, and the one way out.
OpenPosts(c) ==
  /\ worker[c] = "posting"
  /\ posts' = Post(posts, c, IF session[c] = "open" THEN Opened ELSE Failed)
  /\ worker' = [worker EXCEPT ![c] = "done"]
  /\ UNCHANGED <<kind, arg, dartVars, config, content, session, closure,
                 hellos, port>>

-----------------------------------------------------------------------------
(* The worker of a scout.                                                  *)
HelloArrives(c) ==
  /\ worker[c] = "running" /\ closure[c] = "armed"
  /\ hellos[c] < MaxHellos
  /\ hellos' = [hellos EXCEPT ![c] = @ + 1]
  /\ posts' = Post(posts, c, Hello)
  /\ UNCHANGED <<kind, arg, dartVars, config, content, worker, session,
                 closure, port>>

\* _zd_scout_drop: the sentinel, and the context is freed.
DropClosure(c) ==
  /\ closure' = [closure EXCEPT ![c] = "dropped"]
  /\ posts' = Post(posts, c, Sentinel)

\* zenoh is done with the closure.
ScoutEnds(c) ==
  /\ worker[c] = "running" /\ closure[c] = "armed"
  /\ DropClosure(c)
  /\ UNCHANGED <<kind, arg, dartVars, config, content, worker, session,
                 hellos, port>>

\* z_scout returns, having dropped the closure or, on an early failure, not.
ScoutReturns(c) ==
  /\ worker[c] = "running" /\ kind[c] = "scout"
  /\ hellos[c] > 0 => closure[c] = "dropped"
  /\ worker' = [worker EXCEPT ![c] = "returned"]
  /\ content' = Spent(c)
  /\ UNCHANGED <<kind, arg, dartVars, config, session, closure, hellos, port,
                 posts>>

\* Mutant: the worker trusts zenoh to have dropped the closure.
WorkerExitsTrusting(c) ==
  /\ worker[c] = "returned"
  /\ worker' = [worker EXCEPT ![c] = "done"]
  /\ UNCHANGED <<kind, arg, dartVars, config, content, session, closure,
                 hellos, port, posts>>

\* The worker drops a closure zenoh left over.
WorkerExits(c) ==
  /\ worker[c] = "returned"
  /\ worker' = [worker EXCEPT ![c] = "done"]
  /\ IF closure[c] = "armed" THEN DropClosure(c) ELSE UNCHANGED <<closure, posts>>
  /\ UNCHANGED <<kind, arg, dartVars, config, content, session, hellos, port>>

-----------------------------------------------------------------------------
(* The isolate takes a message.                                            *)
NextPost(c, m) ==
  /\ ~Busy
  /\ port[c] = "open" /\ posts[c] # <<>>
  /\ Head(posts[c]) = m

\* The port is closed with the message that ends the call.
EndCall(c) ==
  /\ port' = [port EXCEPT ![c] = "closed"]
  /\ posts' = [posts EXCEPT ![c] = <<>>]

HearOpened(c) ==
  /\ NextPost(c, Opened)
  /\ EndCall(c)
  /\ session' = [session EXCEPT ![c] = "owned"]
  /\ future' = [future EXCEPT ![c] = "ok"]
  /\ UNCHANGED <<kind, arg, phase, config, content, worker, closure, hellos,
                 heard>>

HearFailed(c) ==
  /\ NextPost(c, Failed)
  /\ EndCall(c)
  /\ future' = [future EXCEPT ![c] = "error"]
  /\ UNCHANGED <<kind, arg, phase, config, content, nativeVars, heard>>

\* Mutant: a scout is content with the first hello.
HearHelloAndEnd(c) ==
  /\ NextPost(c, Hello)
  /\ EndCall(c)
  /\ heard' = [heard EXCEPT ![c] = @ + 1]
  /\ future' = [future EXCEPT ![c] = "ok"]
  /\ UNCHANGED <<kind, arg, phase, config, content, nativeVars>>

HearHello(c) ==
  /\ NextPost(c, Hello)
  /\ posts' = [posts EXCEPT ![c] = Tail(@)]
  /\ heard' = [heard EXCEPT ![c] = @ + 1]
  /\ UNCHANGED <<kind, arg, phase, config, content, nativeVars, port, future>>

HearSentinel(c) ==
  /\ NextPost(c, Sentinel)
  /\ EndCall(c)
  /\ future' = [future EXCEPT ![c] = "ok"]
  /\ UNCHANGED <<kind, arg, phase, config, content, nativeVars, heard>>

Hear(c) == HearOpened(c) \/ HearFailed(c) \/ HearHello(c) \/ HearSentinel(c)

-----------------------------------------------------------------------------
(* The application, and the collector.                                     *)

\* Session.close: zd_session_close_drop closes, drops and frees.
CloseSession(c) ==
  /\ ~Busy
  /\ session[c] = "owned"
  /\ session' = [session EXCEPT ![c] = "freed"]
  /\ UNCHANGED <<kind, arg, dartVars, config, content, worker, closure, hellos,
                 port, posts>>

\* Config.dispose drops the content and frees the block.
Dispose(f) ==
  /\ ~Busy
  /\ config[f] = "live"
  /\ config' = [config EXCEPT ![f] = "disposed"]
  /\ content' = [content EXCEPT ![f] = "gone"]
  /\ UNCHANGED <<kind, arg, dartVars, nativeVars, port, posts>>

\* The finalizer of a Config nobody can reach does the same, at any moment;
\* a call that has still to mark its config consumed can reach it.
Collect(f) ==
  /\ config[f] = "live"
  /\ \A c \in Calls : phase[c] \in {"native", "refused"} => arg[c] # f
  /\ config' = [config EXCEPT ![f] = "collected"]
  /\ content' = [content EXCEPT ![f] = "gone"]
  /\ UNCHANGED <<kind, arg, dartVars, nativeVars, port, posts>>

-----------------------------------------------------------------------------
Init ==
  /\ kind \in [Calls -> {"open", "scout"}]
  /\ arg = [c \in Calls |-> NoConfig]
  /\ phase = [c \in Calls |-> "idle"]
  /\ config = [f \in Configs |-> "live"]
  /\ content = [f \in Configs |-> "here"]
  /\ worker = [c \in Calls |-> "none"]
  /\ session = [c \in Calls |-> "none"]
  /\ closure = [c \in Calls |-> "none"]
  /\ hellos = [c \in Calls |-> 0]
  /\ port = [c \in Calls |-> "none"]
  /\ posts = [c \in Calls |-> <<>>]
  /\ heard = [c \in Calls |-> 0]
  /\ future = [c \in Calls |-> "none"]

Worker(c) ==
  \/ \E outcome \in {"open", "freed"} : OpenEnds(c, outcome)
  \/ OpenPosts(c)
  \/ ScoutEnds(c) \/ ScoutReturns(c) \/ WorkerExits(c)

Next ==
  \/ \E c \in Calls :
       \/ \E f \in Configs \cup {NoConfig} :
            CallRefused(c, f) \/ CallStarts(c, f) \/ CallFails(c, f)
       \/ CallReturns(c) \/ CallThrows(c)
       \/ Worker(c) \/ HelloArrives(c)
       \/ Hear(c)
       \/ CloseSession(c)
  \/ \E f \in Configs : Dispose(f) \/ Collect(f)

Spec == Init /\ [][Next]_vars

(* A Dart method runs to its end, the isolate takes its messages, and      *)
(* z_open and z_scout come back: both are bounded by timeouts of their own.*)
FairSpec ==
  /\ Spec
  /\ \A c \in Calls :
       /\ WF_vars(CallReturns(c) \/ CallThrows(c))
       /\ WF_vars(Hear(c))
       /\ WF_vars(Worker(c))

-----------------------------------------------------------------------------
TypeOK ==
  /\ kind \in [Calls -> {"open", "scout"}]
  /\ arg \in [Calls -> Configs \cup {NoConfig}]
  /\ phase \in [Calls -> {"idle", "native", "refused", "returned", "threw"}]
  /\ config \in [Configs -> {"live", "consumed", "disposed", "collected"}]
  /\ content \in [Configs -> {"here", "taken", "gone"}]
  /\ worker \in [Calls -> {"none", "running", "returned", "posting", "done"}]
  /\ session \in [Calls -> {"none", "blank", "open", "owned", "freed"}]
  /\ closure \in [Calls -> {"none", "armed", "dropped"}]
  /\ hellos \in [Calls -> 0..MaxHellos]
  /\ port \in [Calls -> {"none", "open", "closed"}]
  /\ posts \in [Calls -> Seq({Hello, Sentinel, Opened, Failed})]
  /\ heard \in [Calls -> 0..MaxHellos]
  /\ future \in [Calls -> {"none", "pending", "ok", "error"}]

-----------------------------------------------------------------------------
(* Safety.                                                                 *)

(* Every config has one owner at a time: the block Dart frees has no       *)
(* content left in it, and the content a worker uses was taken out of its  *)
(* block, whichever of them comes first.                                   *)
ConfigHasOneOwner ==
  /\ \A f \in Configs : config[f] # "live" => content[f] # "here"
  /\ \A c \in Calls :
       worker[c] = "running" /\ arg[c] # NoConfig => content[arg[c]] = "taken"

(* An open session is on its way to a Future that waits for it: its worker *)
(* has yet to post, or the post is in an open port.  None is left without  *)
(* an owner.                                                               *)
SessionReachesOwner ==
  \A c \in Calls :
    session[c] = "open" =>
      /\ future[c] = "pending" /\ port[c] = "open"
      /\ worker[c] = "posting" \/ posts[c] = <<Opened>>

(* A scout completes with all the hellos it received, and leaves its       *)
(* closure to nobody: a finished worker has seen it dropped.               *)
ScoutIsComplete ==
  \A c \in Calls : kind[c] = "scout" =>
    /\ future[c] = "ok" => heard[c] = hellos[c]
    /\ worker[c] = "done" => closure[c] = "dropped"

-----------------------------------------------------------------------------
(* Liveness.                                                               *)

(* Every call that started is answered.                                    *)
Answered == \A c \in Calls : future[c] = "pending" ~> future[c] \in {"ok", "error"}

==============================================================================
