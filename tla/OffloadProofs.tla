---------------------------- MODULE OffloadProofs ----------------------------
(***************************************************************************)
(* Theorems about Offload, for every set of calls and of configs and every *)
(* number of hellos: a config and an open session have one owner each, and *)
(* a scout completes with all it received.                                 *)
(***************************************************************************)
EXTENDS Offload, SequenceTheorems, TLAPS

-----------------------------------------------------------------------------
(* The inductive invariant, in named parts.                                *)

\* A call without a worker has touched nothing but its config and its port.
Unstarted(c) ==
  /\ session[c] = "none" /\ closure[c] = "none" /\ future[c] = "none"
  /\ posts[c] = <<>> /\ hellos[c] = 0 /\ heard[c] = 0

\* An open: the session is blank until z_open returns; then the worker, the
\* one message, and the Session have it in turn.
OpenInv(c) ==
  /\ closure[c] = "none" /\ hellos[c] = 0 /\ heard[c] = 0
  /\ worker[c] # "returned"
  /\ worker[c] = "running" =>
       /\ session[c] = "blank" /\ posts[c] = <<>>
       /\ port[c] = "open" /\ future[c] = "pending"
  /\ worker[c] = "posting" =>
       /\ session[c] \in {"open", "freed"} /\ posts[c] = <<>>
       /\ port[c] = "open" /\ future[c] = "pending"
  /\ worker[c] = "done" =>
       \/ /\ port[c] = "open" /\ future[c] = "pending"
          /\ \/ session[c] = "open" /\ posts[c] = <<Opened>>
             \/ session[c] = "freed" /\ posts[c] = <<Failed>>
       \/ /\ port[c] = "closed" /\ future[c] \in {"ok", "error"}
          /\ session[c] \in {"owned", "freed"} /\ posts[c] = <<>>

\* A scout: the hellos that are not in the list are in the port, and what the
\* closure's drop posts is the last message.
ScoutInv(c) ==
  /\ session[c] = "none" /\ worker[c] # "posting"
  /\ heard[c] <= hellos[c]
  /\ closure[c] \in {"armed", "dropped"}
  /\ worker[c] = "done" => closure[c] = "dropped"
  /\ port[c] \in {"open", "closed"}
  /\ port[c] = "open" =>
       /\ future[c] = "pending"
       /\ closure[c] = "armed" =>
            /\ heard[c] + Len(posts[c]) = hellos[c]
            /\ \A i \in 1..Len(posts[c]) : posts[c][i] = Hello
       /\ closure[c] = "dropped" =>
            /\ heard[c] + Len(posts[c]) = hellos[c] + 1
            /\ \A i \in 1..Len(posts[c]) :
                 posts[c][i] = IF i = Len(posts[c]) THEN Sentinel ELSE Hello
  /\ port[c] = "closed" =>
       /\ closure[c] = "dropped" /\ posts[c] = <<>>
       /\ future[c] = "ok" /\ heard[c] = hellos[c]

CallInv(c) ==
  /\ worker[c] = "none" <=> phase[c] \in {"idle", "refused", "threw"}
  /\ worker[c] = "none" => Unstarted(c)
  /\ worker[c] # "none" /\ kind[c] = "open" => OpenInv(c)
  /\ worker[c] # "none" /\ kind[c] = "scout" => ScoutInv(c)

\* A worker that runs has its config to itself: the content is out of the
\* block, and the Config is consumed or about to be.
ConfigInv ==
  /\ \A f \in Configs : config[f] # "live" => content[f] # "here"
  /\ \A c \in Calls :
       phase[c] \in {"native", "refused"} /\ arg[c] # NoConfig =>
         content[arg[c]] # "here"
  /\ \A c \in Calls :
       worker[c] = "running" /\ arg[c] # NoConfig =>
         /\ content[arg[c]] = "taken"
         /\ phase[c] = "native" \/ config[arg[c]] # "live"
         /\ \A d \in Calls :
              worker[d] = "running" /\ arg[d] = arg[c] => d = c

IInv == TypeOK /\ ConfigInv /\ \A c \in Calls : CallInv(c)

-----------------------------------------------------------------------------
(* Sequences.                                                              *)

Messages == {Hello, Sentinel, Opened, Failed}

LEMMA MessagesDiffer ==
  /\ Hello # Sentinel /\ Hello # Opened /\ Hello # Failed
  /\ Sentinel # Opened /\ Sentinel # Failed /\ Opened # Failed
  BY DEF Hello, Sentinel, Opened, Failed

LEMMA Appended ==
  ASSUME NEW S, NEW s \in Seq(S), NEW e \in S
  PROVE  /\ Append(s, e) \in Seq(S)
         /\ Len(s) \in Nat
         /\ Len(Append(s, e)) = Len(s) + 1
         /\ \A i \in 1..Len(s) : Append(s, e)[i] = s[i]
         /\ Append(s, e)[Len(s) + 1] = e
  OBVIOUS

LEMMA Shortened ==
  ASSUME NEW S, NEW s \in Seq(S), s # <<>>
  PROVE  /\ Tail(s) \in Seq(S)
         /\ Len(s) \in Nat \ {0}
         /\ Len(Tail(s)) = Len(s) - 1
         /\ \A i \in 1..Len(Tail(s)) : Tail(s)[i] = s[i + 1]
         /\ Head(s) = s[1] /\ s[1] \in S
  <1>1. Len(s) \in Nat \ {0}
    BY EmptySeq
  <1>2. QED
    BY <1>1

LEMMA Emptied ==
  ASSUME NEW S
  PROVE  <<>> \in Seq(S) /\ Len(<<>>) = 0
  OBVIOUS

-----------------------------------------------------------------------------
(* A step of one call leaves the others alone.                             *)

Same(d) ==
  /\ kind'[d] = kind[d] /\ phase'[d] = phase[d] /\ worker'[d] = worker[d]
  /\ session'[d] = session[d] /\ closure'[d] = closure[d]
  /\ hellos'[d] = hellos[d] /\ port'[d] = port[d] /\ posts'[d] = posts[d]
  /\ heard'[d] = heard[d] /\ future'[d] = future[d]

CallStep(c) ==
  \/ \E f \in Configs \cup {NoConfig} :
       CallRefused(c, f) \/ CallStarts(c, f) \/ CallFails(c, f)
  \/ CallReturns(c) \/ CallThrows(c)
  \/ Worker(c) \/ HelloArrives(c)
  \/ Hear(c)
  \/ CloseSession(c)

LEMMA SameKeeps ==
  ASSUME NEW d \in Calls, CallInv(d), Same(d)
  PROVE  CallInv(d)'
  BY DEF CallInv, Unstarted, OpenInv, ScoutInv, Same

LEMMA OthersSame ==
  ASSUME TypeOK, NEW c \in Calls, CallStep(c), NEW d \in Calls, d # c
  PROVE  Same(d)
  <1>1. ASSUME NEW f \in Configs \cup {NoConfig},
               CallRefused(c, f) \/ CallStarts(c, f) \/ CallFails(c, f)
        PROVE  Same(d)
    BY <1>1 DEF CallRefused, CallStarts, CallFails, MayCall, Same, TypeOK,
                nativeVars
  <1>2. CASE CallReturns(c) \/ CallThrows(c)
    BY <1>2 DEF CallReturns, CallThrows, Same, TypeOK, nativeVars
  <1>3. CASE Worker(c) \/ HelloArrives(c)
    BY <1>3
    DEF Worker, OpenEnds, OpenPosts, ScoutEnds, ScoutReturns, WorkerExits,
        HelloArrives, DropClosure, Post, Same, TypeOK, dartVars
  <1>4. CASE Hear(c)
    BY <1>4
    DEF Hear, HearOpened, HearFailed, HearHello, HearSentinel, EndCall, Same,
        TypeOK, nativeVars
  <1>5. CASE CloseSession(c)
    BY <1>5 DEF CloseSession, Same, TypeOK, dartVars
  <1>6. QED
    BY <1>1, <1>2, <1>3, <1>4, <1>5 DEF CallStep

-----------------------------------------------------------------------------
(* Which message is whose.                                                 *)
LEMMA FirstPost ==
  ASSUME IInv, NEW c \in Calls, NEW m \in Messages, NextPost(c, m)
  PROVE  /\ worker[c] # "none" /\ port[c] = "open" /\ future[c] = "pending"
         /\ posts[c] \in Seq(Messages) /\ posts[c] # <<>>
         /\ Len(posts[c]) \in Nat \ {0} /\ posts[c][1] = m
         /\ m \in {Hello, Sentinel} => kind[c] = "scout"
         /\ m \in {Opened, Failed} =>
              /\ kind[c] = "open" /\ worker[c] = "done"
              /\ session[c] = IF m = Opened THEN "open" ELSE "freed"
         /\ m = Sentinel => closure[c] = "dropped" /\ Len(posts[c]) = 1
         /\ m = Hello => closure[c] = "armed" \/ Len(posts[c]) > 1
  <1>1. /\ port[c] = "open" /\ posts[c] \in Seq(Messages) /\ posts[c] # <<>>
        /\ Len(posts[c]) \in Nat \ {0} /\ posts[c][1] = m
    BY Shortened DEF IInv, TypeOK, NextPost, Messages
  <1>2. worker[c] # "none" /\ CallInv(c) /\ kind[c] \in {"open", "scout"}
    BY <1>1 DEF IInv, TypeOK, CallInv, Unstarted
  <1>3. 1 \in 1..Len(posts[c])
    BY <1>1
  <1>4. CASE kind[c] = "open"
    <2>1. /\ worker[c] = "done" /\ future[c] = "pending"
          /\ \/ session[c] = "open" /\ posts[c] = <<Opened>>
             \/ session[c] = "freed" /\ posts[c] = <<Failed>>
      BY <1>1, <1>2, <1>4 DEF CallInv, OpenInv, IInv, TypeOK
    <2>2. \/ session[c] = "open" /\ m = Opened
          \/ session[c] = "freed" /\ m = Failed
      BY <1>1, <2>1
    <2>3. QED
      BY <1>1, <1>2, <1>4, <2>1, <2>2, MessagesDiffer
  <1>5. CASE kind[c] = "scout"
    <2>1. ScoutInv(c)
      BY <1>2, <1>5 DEF CallInv
    <2>2. CASE closure[c] = "armed"
      BY <1>1, <1>2, <1>3, <1>5, <2>1, <2>2, MessagesDiffer DEF ScoutInv
    <2>3. CASE closure[c] = "dropped"
      <3>1. /\ Len(posts[c]) = 1 => m = Sentinel
            /\ Len(posts[c]) # 1 => m = Hello
        BY <1>1, <1>3, <2>1, <2>3 DEF ScoutInv
      <3>2. future[c] = "pending"
        BY <1>1, <2>1 DEF ScoutInv
      <3>3. CASE Len(posts[c]) = 1
        BY <1>1, <1>2, <1>5, <2>3, <3>1, <3>2, <3>3, MessagesDiffer
      <3>4. CASE Len(posts[c]) # 1
        <4>1. m = Hello
          BY <3>1, <3>4
        <4>2. \A n \in Nat \ {0} : n # 1 => n > 1
          OBVIOUS
        <4>3. Len(posts[c]) > 1
          BY <1>1, <3>4, <4>2
        <4>4. QED
          BY <1>1, <1>2, <1>5, <2>3, <3>2, <4>1, <4>3, MessagesDiffer
      <3>5. QED
        BY <3>3, <3>4
    <2>4. QED
      BY <2>1, <2>2, <2>3 DEF ScoutInv
  <1>6. QED
    BY <1>2, <1>4, <1>5

\* A hello in the port is one the list does not have yet.
LEMMA HelloIsNew ==
  ASSUME IInv, NEW c \in Calls, NextPost(c, Hello)
  PROVE  heard[c] + 1 <= hellos[c]
  <1>1. /\ worker[c] # "none" /\ kind[c] = "scout" /\ port[c] = "open"
        /\ Len(posts[c]) \in Nat \ {0}
        /\ closure[c] = "armed" \/ Len(posts[c]) > 1
    BY FirstPost DEF Messages
  <1>2. ScoutInv(c) /\ heard[c] \in Nat /\ hellos[c] \in Nat
    BY <1>1, OffloadAssumption DEF IInv, TypeOK, CallInv
  <1>3. CASE closure[c] = "armed"
    BY <1>1, <1>2, <1>3 DEF ScoutInv
  <1>4. CASE closure[c] = "dropped" /\ Len(posts[c]) > 1
    BY <1>1, <1>2, <1>4 DEF ScoutInv
  <1>5. QED
    BY <1>1, <1>2, <1>3, <1>4 DEF ScoutInv

-----------------------------------------------------------------------------
(* Types.                                                                  *)
LEMMA PostType ==
  ASSUME TypeOK, NEW c \in Calls, NEW m \in Messages
  PROVE  Post(posts, c, m) \in [Calls -> Seq(Messages)]
  BY DEF TypeOK, Post, Messages

LEMMA TypeNext ==
  ASSUME IInv, Next
  PROVE  TypeOK'
  <1> USE OffloadAssumption DEF IInv
  <1>1. ASSUME NEW c \in Calls, NEW f \in Configs, CallRefused(c, f)
        PROVE  TypeOK'
    BY <1>1 DEF CallRefused, TypeOK, nativeVars
  <1>2. ASSUME NEW c \in Calls, NEW f \in Configs \cup {NoConfig},
               CallStarts(c, f)
        PROVE  TypeOK'
    <2>1. content' \in [Configs -> {"here", "taken", "gone"}]
      BY <1>2 DEF CallStarts, Take, TypeOK
    <2>2. /\ worker' \in [Calls -> {"none", "running", "returned", "posting", "done"}]
          /\ session' \in [Calls -> {"none", "blank", "open", "owned", "freed"}]
          /\ closure' \in [Calls -> {"none", "armed", "dropped"}]
      BY <1>2 DEF CallStarts, TypeOK
    <2>3. QED
      BY <1>2, <2>1, <2>2 DEF CallStarts, TypeOK
  <1>3. ASSUME NEW c \in Calls, NEW f \in Configs \cup {NoConfig},
               CallFails(c, f)
        PROVE  TypeOK'
    <2>1. content' \in [Configs -> {"here", "taken", "gone"}]
      BY <1>3 DEF CallFails, TypeOK
    <2>2. QED
      BY <1>3, <2>1 DEF CallFails, TypeOK, nativeVars
  <1>4. ASSUME NEW c \in Calls, CallReturns(c) \/ CallThrows(c)
        PROVE  TypeOK'
    <2>1. config' \in [Configs -> {"live", "consumed", "disposed", "collected"}]
      <3>1. MarkConsumed(c)
        BY <1>4 DEF CallReturns, CallThrows
      <3>2. QED
        BY <3>1 DEF MarkConsumed, TypeOK
    <2>2. CASE CallReturns(c)
      BY <2>1, <2>2 DEF CallReturns, TypeOK, nativeVars
    <2>3. CASE CallThrows(c)
      <3>1. posts' \in [Calls -> Seq(Messages)]
        BY <2>3, Emptied DEF CallThrows, TypeOK, Messages
      <3>2. QED
        BY <2>1, <2>3, <3>1 DEF CallThrows, TypeOK, nativeVars, Messages
    <2>4. QED
      BY <1>4, <2>2, <2>3
  <1>5. ASSUME NEW c \in Calls, NEW o \in {"open", "freed"}, OpenEnds(c, o)
        PROVE  TypeOK'
    <2>1. content' \in [Configs -> {"here", "taken", "gone"}]
      BY <1>5 DEF OpenEnds, Spent, TypeOK
    <2>2. QED
      BY <1>5, <2>1 DEF OpenEnds, TypeOK, dartVars
  <1>6. ASSUME NEW c \in Calls, OpenPosts(c)
        PROVE  TypeOK'
    <2>1. posts' \in [Calls -> Seq(Messages)]
      BY <1>6, PostType DEF OpenPosts, Messages
    <2>2. QED
      BY <1>6, <2>1 DEF OpenPosts, TypeOK, dartVars, Messages
  <1>7. ASSUME NEW c \in Calls, HelloArrives(c)
        PROVE  TypeOK'
    <2>1. posts' \in [Calls -> Seq(Messages)]
      BY <1>7, PostType DEF HelloArrives, Messages
    <2>2. hellos' \in [Calls -> 0..MaxHellos]
      BY <1>7 DEF HelloArrives, TypeOK
    <2>3. QED
      BY <1>7, <2>1, <2>2 DEF HelloArrives, TypeOK, dartVars, Messages
  <1>8. ASSUME NEW c \in Calls, DropClosure(c)
        PROVE  /\ posts' \in [Calls -> Seq(Messages)]
               /\ closure' \in [Calls -> {"none", "armed", "dropped"}]
    BY <1>8, PostType DEF DropClosure, TypeOK, Messages
  <1>9. ASSUME NEW c \in Calls, ScoutEnds(c)
        PROVE  TypeOK'
    BY <1>8, <1>9 DEF ScoutEnds, TypeOK, dartVars, Messages
  <1>10. ASSUME NEW c \in Calls, ScoutReturns(c)
         PROVE  TypeOK'
    <2>1. content' \in [Configs -> {"here", "taken", "gone"}]
      BY <1>10 DEF ScoutReturns, Spent, TypeOK
    <2>2. QED
      BY <1>10, <2>1 DEF ScoutReturns, TypeOK, dartVars
  <1>11. ASSUME NEW c \in Calls, WorkerExits(c)
         PROVE  TypeOK'
    <2>1. /\ posts' \in [Calls -> Seq(Messages)]
          /\ closure' \in [Calls -> {"none", "armed", "dropped"}]
      BY <1>8, <1>11 DEF WorkerExits, TypeOK, Messages
    <2>2. QED
      BY <1>11, <2>1 DEF WorkerExits, TypeOK, dartVars, Messages
  <1>12. ASSUME NEW c \in Calls,
                HearOpened(c) \/ HearFailed(c) \/ HearSentinel(c)
         PROVE  TypeOK'
    <2>1. EndCall(c)
      BY <1>12 DEF HearOpened, HearFailed, HearSentinel
    <2>2. /\ posts' \in [Calls -> Seq(Messages)]
          /\ port' \in [Calls -> {"none", "open", "closed"}]
      BY <2>1, Emptied DEF EndCall, TypeOK, Messages
    <2>3. /\ session' \in [Calls -> {"none", "blank", "open", "owned", "freed"}]
          /\ future' \in [Calls -> {"none", "pending", "ok", "error"}]
      BY <1>12 DEF HearOpened, HearFailed, HearSentinel, TypeOK, nativeVars
    <2>4. UNCHANGED <<kind, arg, phase, config, content, worker, closure,
                      hellos, heard>>
      BY <1>12 DEF HearOpened, HearFailed, HearSentinel, nativeVars
    <2>5. QED
      BY <2>2, <2>3, <2>4 DEF TypeOK, Messages
  <1>13. ASSUME NEW c \in Calls, HearHello(c)
         PROVE  TypeOK'
    <2>1. heard[c] + 1 \in 0..MaxHellos
      BY <1>13, HelloIsNew DEF HearHello, TypeOK
    <2>2. Tail(posts[c]) \in Seq(Messages)
      BY <1>13, FirstPost, Shortened DEF HearHello, Messages
    <2>3. QED
      BY <1>13, <2>1, <2>2 DEF HearHello, TypeOK, nativeVars, Messages
  <1>14. ASSUME NEW c \in Calls, CloseSession(c)
         PROVE  TypeOK'
    BY <1>14 DEF CloseSession, TypeOK, dartVars
  <1>15. ASSUME NEW f \in Configs, Dispose(f) \/ Collect(f)
         PROVE  TypeOK'
    <2>1. /\ config' \in [Configs -> {"live", "consumed", "disposed", "collected"}]
          /\ content' \in [Configs -> {"here", "taken", "gone"}]
      BY <1>15 DEF Dispose, Collect, TypeOK
    <2>2. QED
      BY <1>15, <2>1 DEF Dispose, Collect, TypeOK, dartVars, nativeVars
  <1>16. QED
    BY <1>1, <1>2, <1>3, <1>4, <1>5, <1>6, <1>7, <1>9, <1>10, <1>11, <1>12,
       <1>13, <1>14, <1>15
    DEF Next, Worker, Hear, CallRefused

-----------------------------------------------------------------------------
(* The configs.                                                            *)
LEMMA ConfigNext ==
  ASSUME IInv, Next
  PROVE  ConfigInv'
  <1> USE OffloadAssumption DEF IInv, TypeOK
  <1>1. ASSUME NEW c \in Calls, NEW f \in Configs, CallRefused(c, f)
        PROVE  ConfigInv'
    <2>1. worker[c] = "none"
      BY <1>1 DEF CallRefused, CallInv
    <2>2. QED
      BY <1>1, <2>1 DEF CallRefused, ConfigInv, nativeVars
  <1>2. ASSUME NEW c \in Calls, NEW f \in Configs \cup {NoConfig},
               CallStarts(c, f)
        PROVE  ConfigInv'
    <2>1. \A d \in Calls :
            worker[d] = "running" /\ arg[d] # NoConfig => arg[d] # f
      BY <1>2 DEF CallStarts, MayCall, Busy, ConfigInv
    <2>2. QED
      BY <1>2, <2>1 DEF CallStarts, MayCall, Busy, Take, ConfigInv
  <1>3. ASSUME NEW c \in Calls, NEW f \in Configs \cup {NoConfig},
               CallFails(c, f)
        PROVE  ConfigInv'
    <2>1. \A d \in Calls :
            worker[d] = "running" /\ arg[d] # NoConfig => arg[d] # f
      BY <1>3 DEF CallFails, MayCall, Busy, ConfigInv
    <2>2. worker[c] = "none"
      BY <1>3 DEF CallFails, MayCall, CallInv
    <2>3. QED
      BY <1>3, <2>1, <2>2 DEF CallFails, MayCall, Busy, ConfigInv, nativeVars
  <1>4. ASSUME NEW c \in Calls, CallReturns(c) \/ CallThrows(c)
        PROVE  ConfigInv'
    <2>1. /\ MarkConsumed(c) /\ UNCHANGED <<arg, content, worker>>
          /\ phase[c] \in {"native", "refused"}
          /\ \E p \in {"returned", "threw"} : phase' = [phase EXCEPT ![c] = p]
      BY <1>4 DEF CallReturns, CallThrows, nativeVars
    <2>2. \A f \in Configs : config'[f] = IF f = arg[c] THEN "consumed"
                                                        ELSE config[f]
      BY <2>1 DEF MarkConsumed
    <2>3. \A d \in Calls : phase'[d] = "native" => phase[d] = "native" /\ d # c
      BY <2>1
    <2>4. \A d \in Calls : phase'[d] \in {"native", "refused"} =>
                             phase[d] \in {"native", "refused"}
      BY <2>1
    <2>5. ASSUME NEW d \in Calls, worker[d] = "running", arg[d] # NoConfig
          PROVE  phase'[d] = "native" \/ config'[arg[d]] # "live"
      BY <2>1, <2>2, <2>5 DEF ConfigInv
    <2>6. QED
      BY <2>1, <2>2, <2>4, <2>5 DEF ConfigInv
  <1>5. ASSUME NEW c \in Calls, NEW o, OpenEnds(c, o) \/ ScoutReturns(c)
        PROVE  ConfigInv'
    <2>1. /\ worker[c] = "running" /\ content' = Spent(c)
          /\ UNCHANGED <<arg, phase, config>>
          /\ \E w \in {"posting", "returned"} : worker' = [worker EXCEPT ![c] = w]
      BY <1>5 DEF OpenEnds, ScoutReturns, dartVars
    <2>2. \A f \in Configs : content'[f] = IF f = arg[c] THEN "gone"
                                                         ELSE content[f]
      BY <2>1 DEF Spent
    <2>3. \A d \in Calls :
            worker'[d] = "running" => worker[d] = "running" /\ d # c
      BY <2>1
    <2>4. ASSUME NEW d \in Calls, worker'[d] = "running", arg[d] # NoConfig
          PROVE  content'[arg[d]] = "taken"
      BY <2>1, <2>2, <2>3, <2>4 DEF ConfigInv
    <2>5. QED
      BY <2>1, <2>2, <2>3, <2>4 DEF ConfigInv
  <1>6. ASSUME NEW c \in Calls,
               OpenPosts(c) \/ ScoutEnds(c) \/ WorkerExits(c)
                 \/ HelloArrives(c) \/ Hear(c) \/ CloseSession(c)
        PROVE  ConfigInv'
    BY <1>6
    DEF OpenPosts, ScoutEnds, WorkerExits, HelloArrives, Hear, HearOpened,
        HearFailed, HearHello, HearSentinel, CloseSession, ConfigInv, dartVars,
        nativeVars
  <1>7. ASSUME NEW f \in Configs, Dispose(f) \/ Collect(f)
        PROVE  ConfigInv'
    <2>1. \A d \in Calls :
            worker[d] = "running" /\ arg[d] # NoConfig => arg[d] # f
      BY <1>7 DEF Dispose, Collect, Busy, ConfigInv
    <2>2. /\ \A d \in Calls : phase[d] \in {"native", "refused"} => arg[d] # f
          /\ UNCHANGED <<arg, phase, worker>>
          /\ content' = [content EXCEPT ![f] = "gone"]
          /\ \E s \in {"disposed", "collected"} :
               config' = [config EXCEPT ![f] = s]
      BY <1>7 DEF Dispose, Collect, Busy, dartVars, nativeVars
    <2>3. \A g \in Configs \ {f} :
            config'[g] = config[g] /\ content'[g] = content[g]
      BY <2>2
    <2>4. config'[f] # "live" /\ content'[f] = "gone"
      BY <2>2
    <2>5. QED
      BY <2>1, <2>2, <2>3, <2>4 DEF ConfigInv
  <1>8. QED
    BY <1>1, <1>2, <1>3, <1>4, <1>5, <1>6, <1>7 DEF Next, Worker, CallRefused

-----------------------------------------------------------------------------
(* The calls.                                                              *)
LEMMA BeginKeeps ==
  ASSUME IInv, NEW c \in Calls, NEW f \in Configs \cup {NoConfig},
         CallRefused(c, f) \/ CallStarts(c, f) \/ CallFails(c, f)
  PROVE  CallInv(c)'
  <1>1. worker[c] = "none" /\ Unstarted(c) /\ phase[c] = "idle"
    BY DEF IInv, CallInv, CallRefused, CallStarts, CallFails, MayCall
  <1>2. CASE CallRefused(c, f) \/ CallFails(c, f)
    <2>1. /\ phase'[c] \in {"refused", "threw"}
          /\ UNCHANGED <<worker, session, closure, hellos, posts, heard, future>>
      BY <1>2 DEF CallRefused, CallFails, IInv, TypeOK, nativeVars
    <2>2. QED
      BY <1>1, <2>1 DEF CallInv, Unstarted
  <1>3. CASE CallStarts(c, f)
    <2>1. /\ phase'[c] = "native" /\ worker'[c] = "running"
          /\ session'[c] = IF kind[c] = "open" THEN "blank" ELSE "none"
          /\ closure'[c] = IF kind[c] = "scout" THEN "armed" ELSE "none"
          /\ port'[c] = "open" /\ future'[c] = "pending"
          /\ hellos'[c] = 0 /\ heard'[c] = 0 /\ posts'[c] = <<>>
          /\ kind' = kind
      BY <1>1, <1>3 DEF CallStarts, IInv, TypeOK, Unstarted
    <2>2. Len(posts'[c]) = 0
      BY <2>1, Emptied
    <2>3. OpenInv(c)' \/ kind[c] # "open"
      BY <2>1 DEF OpenInv
    <2>4. ScoutInv(c)' \/ kind[c] # "scout"
      BY <2>1, <2>2 DEF ScoutInv
    <2>5. QED
      BY <2>1, <2>3, <2>4 DEF CallInv
  <1>4. QED
    BY <1>2, <1>3

LEMMA ReturnKeeps ==
  ASSUME IInv, NEW c \in Calls, CallReturns(c) \/ CallThrows(c)
  PROVE  CallInv(c)'
  <1>1. CASE CallReturns(c)
    <2>1. /\ worker[c] # "none" /\ phase'[c] = "returned"
          /\ UNCHANGED <<kind, worker, session, closure, hellos, port, posts,
                         heard, future>>
      BY <1>1 DEF CallReturns, IInv, TypeOK, CallInv, nativeVars
    <2>2. QED
      BY <2>1 DEF IInv, CallInv, Unstarted, OpenInv, ScoutInv
  <1>2. CASE CallThrows(c)
    <2>1. /\ worker[c] = "none" /\ phase'[c] = "threw" /\ posts'[c] = <<>>
          /\ UNCHANGED <<kind, worker, session, closure, hellos, heard, future>>
      BY <1>2 DEF CallThrows, IInv, TypeOK, CallInv, nativeVars
    <2>2. QED
      BY <2>1 DEF IInv, CallInv, Unstarted
  <1>3. QED
    BY <1>1, <1>2

LEMMA OpenKeeps ==
  ASSUME IInv, NEW c \in Calls,
         (\E outcome \in {"open", "freed"} : OpenEnds(c, outcome)) \/ OpenPosts(c)
  PROVE  CallInv(c)'
  <1>1. CASE \E outcome \in {"open", "freed"} : OpenEnds(c, outcome)
    <2>1. /\ worker[c] = "running" /\ kind[c] = "open" /\ worker'[c] = "posting"
          /\ session'[c] \in {"open", "freed"}
          /\ UNCHANGED <<kind, phase, closure, hellos, port, posts, heard,
                         future>>
      BY <1>1 DEF OpenEnds, IInv, TypeOK, dartVars
    <2>2. OpenInv(c)
      BY <2>1 DEF IInv, CallInv
    <2>3. OpenInv(c)'
      BY <2>1, <2>2 DEF OpenInv
    <2>4. QED
      BY <2>1, <2>3 DEF IInv, CallInv
  <1>2. CASE OpenPosts(c)
    <2>1. worker[c] = "posting" /\ kind[c] = "open" /\ OpenInv(c)
      BY <1>2 DEF OpenPosts, IInv, TypeOK, CallInv, ScoutInv
    <2>2. /\ worker'[c] = "done"
          /\ posts'[c] = Append(<<>>, IF session[c] = "open" THEN Opened
                                                             ELSE Failed)
          /\ UNCHANGED <<kind, phase, session, closure, hellos, port, heard,
                         future>>
      BY <1>2, <2>1 DEF OpenPosts, Post, OpenInv, IInv, TypeOK, dartVars
    <2>3. posts'[c] = IF session[c] = "open" THEN <<Opened>> ELSE <<Failed>>
      BY <2>2
    <2>4. OpenInv(c)'
      BY <2>1, <2>2, <2>3 DEF OpenInv
    <2>5. QED
      BY <2>1, <2>2, <2>4 DEF IInv, CallInv
  <1>3. QED
    BY <1>1, <1>2

LEMMA HelloKeeps ==
  ASSUME IInv, NEW c \in Calls, HelloArrives(c)
  PROVE  CallInv(c)'
  <1>1. worker[c] = "running" /\ closure[c] = "armed" /\ kind[c] = "scout"
    BY DEF HelloArrives, IInv, TypeOK, CallInv, OpenInv
  <1>2. ScoutInv(c) /\ port[c] = "open"
    BY <1>1 DEF IInv, CallInv, ScoutInv
  <1>3. /\ posts'[c] = Append(posts[c], Hello) /\ hellos'[c] = hellos[c] + 1
        /\ UNCHANGED <<kind, phase, worker, session, closure, port, heard,
                       future>>
    BY <1>2 DEF HelloArrives, Post, IInv, TypeOK, dartVars
  <1>4. /\ Len(posts[c]) \in Nat /\ Len(posts'[c]) = Len(posts[c]) + 1
        /\ \A i \in 1..Len(posts[c]) : posts'[c][i] = posts[c][i]
        /\ posts'[c][Len(posts[c]) + 1] = Hello
    BY <1>3, Appended DEF IInv, TypeOK
  <1>5. heard[c] \in Nat /\ hellos[c] \in Nat
    BY OffloadAssumption DEF IInv, TypeOK
  <1>6. /\ heard'[c] + Len(posts'[c]) = hellos'[c]
        /\ \A i \in 1..Len(posts'[c]) : posts'[c][i] = Hello
        /\ heard'[c] <= hellos'[c]
    BY <1>1, <1>2, <1>3, <1>4, <1>5 DEF ScoutInv
  <1>7. ScoutInv(c)'
    BY <1>1, <1>2, <1>3, <1>6 DEF ScoutInv
  <1>8. QED
    BY <1>1, <1>3, <1>7 DEF IInv, CallInv

LEMMA DropKeeps ==
  ASSUME IInv, NEW c \in Calls, DropClosure(c), closure[c] = "armed",
         worker[c] # "none", worker'[c] \in {"running", "returned", "done"},
         UNCHANGED <<kind, phase, session, hellos, port, heard, future>>
  PROVE  CallInv(c)'
  <1>1. kind[c] = "scout" /\ ScoutInv(c) /\ port[c] = "open"
    BY DEF IInv, TypeOK, CallInv, OpenInv, ScoutInv
  <1>2. closure'[c] = "dropped" /\ posts'[c] = Append(posts[c], Sentinel)
    BY <1>1 DEF DropClosure, Post, IInv, TypeOK
  <1>3. /\ Len(posts[c]) \in Nat /\ Len(posts'[c]) = Len(posts[c]) + 1
        /\ \A i \in 1..Len(posts[c]) : posts'[c][i] = posts[c][i]
        /\ posts'[c][Len(posts[c]) + 1] = Sentinel
    BY <1>2, Appended DEF IInv, TypeOK
  <1>4. heard[c] \in Nat /\ hellos[c] \in Nat
    BY OffloadAssumption DEF IInv, TypeOK
  <1>5. /\ heard'[c] + Len(posts'[c]) = hellos'[c] + 1
        /\ \A i \in 1..Len(posts'[c]) :
             posts'[c][i] = IF i = Len(posts'[c]) THEN Sentinel ELSE Hello
    <2>1. heard[c] + Len(posts[c]) = hellos[c]
      BY <1>1 DEF ScoutInv
    <2>2. \A i \in 1..Len(posts[c]) : posts[c][i] = Hello
      BY <1>1 DEF ScoutInv
    <2>3. heard'[c] + Len(posts'[c]) = hellos'[c] + 1
      BY <1>3, <1>4, <2>1
    <2>4. \A i \in 1..Len(posts'[c]) :
            i \in 1..Len(posts[c]) \/ i = Len(posts[c]) + 1
      BY <1>3
    <2>5. QED
      BY <1>3, <2>2, <2>3, <2>4
  <1>6. ScoutInv(c)'
    BY <1>1, <1>2, <1>5 DEF ScoutInv
  <1>7. QED
    BY <1>1, <1>6 DEF IInv, CallInv

LEMMA ScoutKeeps ==
  ASSUME IInv, NEW c \in Calls,
         ScoutEnds(c) \/ ScoutReturns(c) \/ WorkerExits(c)
  PROVE  CallInv(c)'
  <1>1. CASE ScoutEnds(c)
    BY <1>1, DropKeeps DEF ScoutEnds, dartVars
  <1>2. CASE ScoutReturns(c)
    <2>1. /\ kind[c] = "scout" /\ ScoutInv(c) /\ worker'[c] = "returned"
          /\ worker[c] # "none"
          /\ UNCHANGED <<kind, phase, session, closure, hellos, port, posts,
                         heard, future>>
      BY <1>2 DEF ScoutReturns, IInv, TypeOK, CallInv, dartVars
    <2>2. ScoutInv(c)'
      BY <2>1 DEF ScoutInv
    <2>3. QED
      BY <2>1, <2>2 DEF IInv, CallInv
  <1>3. CASE WorkerExits(c)
    <2>1. /\ worker[c] = "returned" /\ worker'[c] = "done"
          /\ UNCHANGED <<kind, phase, session, hellos, port, heard, future>>
      BY <1>3 DEF WorkerExits, IInv, TypeOK, dartVars
    <2>2. CASE closure[c] = "armed"
      BY <1>3, <2>1, <2>2, DropKeeps DEF WorkerExits
    <2>3. CASE closure[c] # "armed"
      <3>1. UNCHANGED <<closure, posts>>
        BY <1>3, <2>3 DEF WorkerExits
      <3>2. kind[c] = "scout" /\ ScoutInv(c) /\ closure[c] = "dropped"
        BY <2>1, <2>3 DEF IInv, TypeOK, CallInv, OpenInv, ScoutInv
      <3>3. ScoutInv(c)'
        BY <2>1, <3>1, <3>2 DEF ScoutInv
      <3>4. QED
        BY <2>1, <3>2, <3>3 DEF IInv, CallInv
    <2>4. QED
      BY <2>2, <2>3
  <1>4. QED
    BY <1>1, <1>2, <1>3

LEMMA HearKeeps ==
  ASSUME IInv, NEW c \in Calls, Hear(c)
  PROVE  CallInv(c)'
  <1>1. CASE HearOpened(c) \/ HearFailed(c)
    <2>1. PICK m \in {Opened, Failed} :
            /\ NextPost(c, m)
            /\ session'[c] = IF m = Opened THEN "owned" ELSE session[c]
            /\ port'[c] = "closed" /\ posts'[c] = <<>>
            /\ future'[c] \in {"ok", "error"}
            /\ UNCHANGED <<kind, phase, worker, closure, hellos, heard>>
      BY <1>1, MessagesDiffer
      DEF HearOpened, HearFailed, EndCall, IInv, TypeOK, nativeVars
    <2>2. /\ kind[c] = "open" /\ worker[c] = "done"
          /\ session[c] = IF m = Opened THEN "open" ELSE "freed"
      BY <2>1, FirstPost DEF Messages
    <2>3. OpenInv(c)
      BY <2>2 DEF IInv, CallInv
    <2>4. OpenInv(c)'
      BY <2>1, <2>2, <2>3 DEF OpenInv
    <2>5. QED
      BY <2>1, <2>2, <2>4 DEF IInv, CallInv
  <1>2. CASE HearHello(c)
    <2>1. /\ NextPost(c, Hello) /\ posts'[c] = Tail(posts[c])
          /\ heard'[c] = heard[c] + 1
          /\ UNCHANGED <<kind, phase, worker, session, closure, hellos, port,
                         future>>
      BY <1>2 DEF HearHello, IInv, TypeOK, nativeVars
    <2>2. /\ kind[c] = "scout" /\ worker[c] # "none" /\ port[c] = "open"
          /\ closure[c] = "armed" \/ Len(posts[c]) > 1
      BY <2>1, FirstPost DEF Messages
    <2>3. /\ Len(posts[c]) \in Nat \ {0} /\ Len(posts'[c]) = Len(posts[c]) - 1
          /\ \A i \in 1..Len(posts'[c]) : posts'[c][i] = posts[c][i + 1]
      BY <2>1, FirstPost, Shortened DEF Messages
    <2>4. ScoutInv(c) /\ heard[c] \in Nat /\ hellos[c] \in Nat
      BY <2>2, OffloadAssumption DEF IInv, TypeOK, CallInv
    <2>5. closure[c] = "armed" =>
            /\ heard'[c] + Len(posts'[c]) = hellos[c]
            /\ \A i \in 1..Len(posts'[c]) : posts'[c][i] = Hello
      BY <2>1, <2>2, <2>3, <2>4 DEF ScoutInv
    <2>6. closure[c] = "dropped" =>
            /\ heard'[c] + Len(posts'[c]) = hellos[c] + 1
            /\ \A i \in 1..Len(posts'[c]) :
                 posts'[c][i] = IF i = Len(posts'[c]) THEN Sentinel ELSE Hello
      BY <2>1, <2>2, <2>3, <2>4 DEF ScoutInv
    <2>7. ScoutInv(c)'
      BY <2>1, <2>2, <2>4, <2>5, <2>6 DEF ScoutInv
    <2>8. QED
      BY <2>1, <2>2, <2>7 DEF IInv, CallInv
  <1>3. CASE HearSentinel(c)
    <2>1. /\ NextPost(c, Sentinel) /\ port'[c] = "closed" /\ posts'[c] = <<>>
          /\ future'[c] = "ok"
          /\ UNCHANGED <<kind, phase, worker, session, closure, hellos, heard>>
      BY <1>3 DEF HearSentinel, EndCall, IInv, TypeOK, nativeVars
    <2>2. /\ kind[c] = "scout" /\ worker[c] # "none" /\ port[c] = "open"
          /\ closure[c] = "dropped" /\ Len(posts[c]) = 1
      BY <2>1, FirstPost DEF Messages
    <2>3. ScoutInv(c) /\ heard[c] \in Nat /\ hellos[c] \in Nat
      BY <2>2, OffloadAssumption DEF IInv, TypeOK, CallInv
    <2>4. heard[c] = hellos[c]
      BY <2>2, <2>3 DEF ScoutInv
    <2>5. ScoutInv(c)'
      BY <2>1, <2>2, <2>3, <2>4 DEF ScoutInv
    <2>6. QED
      BY <2>1, <2>2, <2>5 DEF IInv, CallInv
  <1>4. QED
    BY <1>1, <1>2, <1>3 DEF Hear

LEMMA CloseKeeps ==
  ASSUME IInv, NEW c \in Calls, CloseSession(c)
  PROVE  CallInv(c)'
  <1>1. /\ session[c] = "owned" /\ session'[c] = "freed"
        /\ UNCHANGED <<kind, phase, worker, closure, hellos, port, posts, heard,
                       future>>
    BY DEF CloseSession, IInv, TypeOK, dartVars
  <1>2. kind[c] = "open" /\ worker[c] = "done" /\ OpenInv(c)
    BY <1>1 DEF IInv, TypeOK, CallInv, Unstarted, OpenInv, ScoutInv
  <1>3. OpenInv(c)'
    BY <1>1, <1>2 DEF OpenInv
  <1>4. QED
    BY <1>1, <1>2, <1>3 DEF IInv, CallInv

-----------------------------------------------------------------------------
(* The invariant.                                                          *)
LEMMA InitIInv == Init => IInv
  <1> SUFFICES ASSUME Init PROVE IInv
    OBVIOUS
  <1>1. TypeOK
    BY Emptied, OffloadAssumption DEF Init, TypeOK
  <1>2. ConfigInv
    BY DEF Init, ConfigInv
  <1>3. \A c \in Calls : CallInv(c)
    BY DEF Init, CallInv, Unstarted
  <1>4. QED
    BY <1>1, <1>2, <1>3 DEF IInv

LEMMA NextIInv == IInv /\ [Next]_vars => IInv'
  <1> SUFFICES ASSUME IInv, [Next]_vars PROVE IInv'
    OBVIOUS
  <1>1. CASE UNCHANGED vars
    BY <1>1
    DEF vars, dartVars, nativeVars, IInv, TypeOK, ConfigInv, CallInv, Unstarted,
        OpenInv, ScoutInv
  <1>2. CASE Next
    <2>1. ASSUME NEW c \in Calls, CallStep(c)
          PROVE  \A d \in Calls : CallInv(d)'
      <3>1. CallInv(c)'
        BY <2>1, BeginKeeps, ReturnKeeps, OpenKeeps, HelloKeeps, ScoutKeeps,
           HearKeeps, CloseKeeps
        DEF CallStep, Worker
      <3>2. ASSUME NEW d \in Calls, d # c
            PROVE  CallInv(d)'
        BY <2>1, <3>2, OthersSame, SameKeeps DEF IInv
      <3>3. QED
        BY <3>1, <3>2
    <2>2. ASSUME NEW f \in Configs, Dispose(f) \/ Collect(f)
          PROVE  \A d \in Calls : CallInv(d)'
      BY <2>2, SameKeeps DEF Dispose, Collect, dartVars, nativeVars, Same, IInv
    <2>3. \A d \in Calls : CallInv(d)'
      BY <1>2, <2>1, <2>2 DEF Next, CallStep
    <2>4. QED
      BY <1>2, <2>3, TypeNext, ConfigNext DEF IInv
  <1>3. QED
    BY <1>1, <1>2

LEMMA Invariance == Spec => []IInv
  BY InitIInv, NextIInv, PTL DEF Spec

-----------------------------------------------------------------------------
(* The theorems.                                                           *)

(* The state of the calls and configs is what Offload declares it to be.   *)
THEOREM TypeCorrect == Spec => []TypeOK
  BY Invariance, PTL DEF IInv

(* A config is released by the block or by the worker that took it, never  *)
(* by both, though the worker may be done before the isolate has marked    *)
(* the config, and a second call may be offered the same one.              *)
THEOREM ConfigIsOwned == Spec => []ConfigHasOneOwner
  <1>1. IInv => ConfigHasOneOwner
    BY DEF IInv, ConfigInv, ConfigHasOneOwner
  <1>2. QED
    BY <1>1, Invariance, PTL

(* The session z_open has filled is in the hands of a worker that has yet  *)
(* to post it, or in the one message of an open port.                      *)
THEOREM SessionIsDelivered == Spec => []SessionReachesOwner
  <1>1. ASSUME IInv, NEW c \in Calls, session[c] = "open"
        PROVE  /\ future[c] = "pending" /\ port[c] = "open"
               /\ worker[c] = "posting" \/ posts[c] = <<Opened>>
    <2>1. worker[c] # "none" /\ kind[c] = "open"
      BY <1>1 DEF IInv, TypeOK, CallInv, Unstarted, ScoutInv
    <2>2. QED
      BY <1>1, <2>1 DEF IInv, TypeOK, CallInv, OpenInv
  <1>2. IInv => SessionReachesOwner
    BY <1>1 DEF SessionReachesOwner
  <1>3. QED
    BY <1>2, Invariance, PTL

(* A scout completes with every hello it received, and its closure is      *)
(* dropped by the time its worker ends, by zenoh or by the worker.         *)
THEOREM ScoutTellsAll == Spec => []ScoutIsComplete
  <1>1. ASSUME IInv, NEW c \in Calls, kind[c] = "scout"
        PROVE  /\ future[c] = "ok" => heard[c] = hellos[c]
               /\ worker[c] = "done" => closure[c] = "dropped"
    BY <1>1 DEF IInv, CallInv, Unstarted, ScoutInv
  <1>2. IInv => ScoutIsComplete
    BY <1>1 DEF ScoutIsComplete
  <1>3. QED
    BY <1>2, Invariance, PTL

\* What is on its way to a Future that waits.
AnswerComes ==
  \A c \in Calls : future[c] = "pending" =>
    /\ port[c] = "open"
    /\ worker[c] \in {"running", "returned", "posting"} \/ posts[c] # <<>>
    /\ worker[c] = "done" => posts[c][Len(posts[c])] # Hello

(* A Future that waits is never abandoned: its port is open, and its worker *)
(* has not ended, or the message that completes the Future is the last in   *)
(* the port, also when z_scout failed before it dropped the closure         *)
(* (zenoh_dart.c:2246-2252).  What Answered adds is that the worker and the *)
(* isolate go on.                                                           *)
THEOREM NoCallAbandoned == Spec => []AnswerComes
  <1>1. ASSUME IInv, NEW c \in Calls, future[c] = "pending"
        PROVE  /\ port[c] = "open"
               /\ worker[c] \in {"running", "returned", "posting"}
                    \/ posts[c] # <<>>
               /\ worker[c] = "done" => posts[c][Len(posts[c])] # Hello
    <2>1. worker[c] # "none" /\ worker[c] \in {"running", "returned", "posting", "done"}
      BY <1>1 DEF IInv, TypeOK, CallInv, Unstarted
    <2>2. CASE kind[c] = "open"
      <3>1. port[c] = "open" /\ OpenInv(c)
        BY <1>1, <2>1, <2>2 DEF IInv, CallInv, OpenInv
      <3>2. CASE worker[c] = "done"
        <4>1. posts[c] \in {<<Opened>>, <<Failed>>}
          BY <1>1, <3>1, <3>2 DEF OpenInv
        <4>2. posts[c] # <<>> /\ posts[c][Len(posts[c])] # Hello
          BY <4>1, MessagesDiffer
        <4>3. QED
          BY <3>1, <4>2
      <3>3. QED
        BY <2>1, <3>1, <3>2
    <2>3. CASE kind[c] = "scout"
      <3>1. port[c] = "open" /\ ScoutInv(c)
        BY <1>1, <2>1, <2>3 DEF IInv, CallInv, ScoutInv
      <3>2. CASE worker[c] = "done"
        <4>1. /\ heard[c] + Len(posts[c]) = hellos[c] + 1
              /\ \A i \in 1..Len(posts[c]) :
                   posts[c][i] = IF i = Len(posts[c]) THEN Sentinel ELSE Hello
              /\ heard[c] <= hellos[c]
          BY <3>1, <3>2 DEF ScoutInv
        <4>2. /\ heard[c] \in Nat /\ hellos[c] \in Nat
              /\ posts[c] \in Seq(Messages) /\ Len(posts[c]) \in Nat
          BY <1>1, OffloadAssumption DEF IInv, TypeOK, Messages
        <4>3. Len(posts[c]) \in 1..Len(posts[c])
          BY <4>1, <4>2
        <4>4. posts[c][Len(posts[c])] = Sentinel /\ posts[c] # <<>>
          BY <4>1, <4>3, Emptied
        <4>5. QED
          BY <3>1, <4>4, MessagesDiffer
      <3>3. QED
        BY <2>1, <3>1, <3>2
    <2>4. QED
      BY <1>1, <2>2, <2>3 DEF IInv, TypeOK
  <1>2. IInv => AnswerComes
    BY <1>1 DEF AnswerComes
  <1>3. QED
    BY <1>2, Invariance, PTL

==============================================================================
