---------------------------- MODULE EntitiesProofs ----------------------------
(***************************************************************************)
(* Theorems about Entities, for every set of declarations, whatever forms  *)
(* they take, and every number of callbacks.                               *)
(***************************************************************************)
EXTENDS Entities, TLAPS

-----------------------------------------------------------------------------
(* Records.                                                                *)

Callbacks == {"sample", "query", "reply", "matching_status", "miss",
              "pull_tee", "reply_tee", "query_tee"}

Drops == {"sample", "sample_with_sentinel", "queryable",
          "queryable_with_sentinel", "matching", "get",
          "pull_tee", "reply_tee", "query_tee"}

\* The closures that the entry points build.
Built == [callback : Callbacks, drop : Drops,
          owner : {"entity", "session", "query"}]

ClosureType == Built \cup {NoClosure}

ListenerType ==
  [of : ClosureType,
   closure : {"none", "given", "undeclared", "dropped"},
   ctx : {"none", "live", "freed", "wild"},
   owners : Nat,
   handler : {"none", "live", "freed", "wild"},
   running : BOOLEAN,
   posts : Nat,
   port : {"none", "open", "closed"},
   queue : Seq({"handle", "copy", "null", "timer"}),
   done : BOOLEAN,
   lost : BOOLEAN]

EntityType ==
  [form : Forms \cup {"none"},
   state : {"unused", "declaring", "open", "tearing", "refused", "closing",
            "closed"},
   slot : {"none", "allocated", "freed", "wild"},
   wanted : SUBSET Roles]

TypeInv ==
  /\ session \in {"open", "closing", "closed"}
  /\ ent \in [Entities -> EntityType]
  /\ lis \in [Entities -> [Roles -> ListenerType]]

-----------------------------------------------------------------------------
(* The inductive invariant, in named parts.                                *)

\* zenoh has the closure.
Given(l) == l.closure \in {"given", "undeclared"}

\* The Dart handle, or the call that will return it, has its share of a tee.
HandleHolds(l, state) == IsTee(l.of) /\ state \in {"open", "closing"}

One(p) == IF p THEN 1 ELSE 0

\* A context lives as long as it has an owner, and a running callback's closure
\* is zenoh's; a channel's handler lives until close() begins.
Sound(l, state) ==
  /\ l.owners = One(Given(l)) + One(HandleHolds(l, state))
  /\ l.owners > 0 => l.ctx = "live"
  /\ l.owners = 0 => l.ctx \in {"none", "freed"}
  /\ l.running => Given(l)
  /\ Given(l) => l.of \in Built
  /\ IsTee(l.of) /\ state = "open" => l.handler = "live"
  /\ ~(IsTee(l.of) /\ state = "open") => l.handler \in {"none", "freed"}

\* A tee is of a pull form, whose declaration has one part.
Shape(en, ls) ==
  /\ en.wanted \subseteq Options(en.form)
  /\ en.state = "declaring" => en.wanted # {}
  /\ en.state = "unused" => en.slot = "none" /\ en.wanted = {}
  /\ en.slot # "wild"
  /\ en.slot = "freed" => en.state \in {"refused", "closed"}
  /\ \A r \in Roles : IsTee(ls[r].of) =>
       /\ r = "main"
       /\ en.form \in {"PullSubscriber", "PullQueryable", "PullReplies"}
       /\ en.state \in {"open", "closing", "closed", "refused"}

EntityInv ==
  \A e \in Entities :
    /\ Shape(ent[e], lis[e])
    /\ \A r \in Roles : Sound(lis[e][r], ent[e].state)

IInv == TypeInv /\ EntityInv

-----------------------------------------------------------------------------
(* What each operation makes of a listener.                                *)

Messages == {"handle", "copy", "null", "timer"}

\* The part of a listener that Sound speaks of.
Core(l) == <<l.of, l.closure, l.ctx, l.owners, l.handler, l.running>>

LEMMA CoreIsSound ==
  ASSUME NEW l, NEW k, Core(k) = Core(l), NEW state, Sound(l, state)
  PROVE  Sound(k, state)
  <1>1. /\ k.of = l.of /\ k.closure = l.closure /\ k.ctx = l.ctx
        /\ k.owners = l.owners /\ k.handler = l.handler /\ k.running = l.running
    BY DEF Core
  <1>2. QED
    BY <1>1 DEF Sound, Given, HandleHolds

LEMMA PostFacts ==
  ASSUME NEW l \in ListenerType, NEW m \in Messages
  PROVE  Post(l, m) \in ListenerType /\ Core(Post(l, m)) = Core(l)
  <1>1. Append(l.queue, m) \in Seq(Messages)
    BY DEF ListenerType, Messages
  <1> DEFINE q == Append(l.queue, m)
  <1>2. Post(l, m) = IF l.port = "open" THEN [l EXCEPT !.queue = q] ELSE l
    BY DEF Post, ListenerType
  <1>3. q \in Seq({"handle", "copy", "null", "timer"})
    BY <1>1 DEF Messages
  <1> HIDE DEF q
  <1>4. QED
    BY <1>2, <1>3 DEF ListenerType, Core

LEMMA ReleaseFacts ==
  ASSUME NEW l \in ListenerType
  PROVE  LET k == ReleaseContext(l) IN
         /\ k \in ListenerType
         /\ k.of = l.of /\ k.closure = l.closure
         /\ k.handler = l.handler /\ k.running = l.running
         /\ l.owners > 0 => k.owners = l.owners - 1
         /\ l.owners = 1 => k.ctx = "freed"
         /\ l.owners > 1 => k.ctx = l.ctx
  <1> DEFINE n == IF l.owners = 0 THEN 0 ELSE l.owners - 1
             x == IF l.owners = 1 THEN "freed"
                  ELSE IF l.owners = 0 THEN "wild" ELSE l.ctx
  <1>1. ReleaseContext(l) = [[l EXCEPT !.owners = n] EXCEPT !.ctx = x]
    BY DEF ReleaseContext, ListenerType
  <1>2. /\ n \in Nat /\ x \in {"none", "live", "freed", "wild"}
        /\ l.owners > 0 => n = l.owners - 1
        /\ l.owners = 1 => x = "freed"
        /\ l.owners > 1 => x = l.ctx
    BY DEF ListenerType
  <1> HIDE DEF n, x
  <1>3. QED
    BY <1>1, <1>2 DEF ListenerType

LEMMA FreeContextFacts ==
  ASSUME NEW l \in ListenerType
  PROVE  LET k == FreeContext(l) IN
         /\ k \in ListenerType
         /\ k.of = l.of /\ k.closure = "dropped"
         /\ k.handler = l.handler /\ k.running = l.running
         /\ l.owners > 0 => k.owners = l.owners - 1
         /\ l.owners = 1 => k.ctx = "freed"
         /\ l.owners > 1 => k.ctx = l.ctx
  <1> DEFINE k == ReleaseContext(l)
  <1>1. /\ k \in ListenerType
        /\ k.of = l.of /\ k.closure = l.closure
        /\ k.handler = l.handler /\ k.running = l.running
        /\ l.owners > 0 => k.owners = l.owners - 1
        /\ l.owners = 1 => k.ctx = "freed"
        /\ l.owners > 1 => k.ctx = l.ctx
    BY ReleaseFacts
  <1>2. FreeContext(l) = [k EXCEPT !.closure = "dropped"]
    BY DEF FreeContext
  <1> HIDE DEF k
  <1>3. QED
    BY <1>1, <1>2 DEF ListenerType

LEMMA DropFacts ==
  ASSUME NEW l \in ListenerType, l.of \in Built
  PROVE  LET k == Drop(l) IN
         /\ k \in ListenerType
         /\ k.of = l.of /\ k.closure = "dropped"
         /\ k.handler = l.handler /\ k.running = l.running
         /\ l.owners > 0 => k.owners = l.owners - 1
         /\ l.owners = 1 => k.ctx = "freed"
         /\ l.owners > 1 => k.ctx = l.ctx
  <1>1. /\ "null" \in Messages /\ "copy" \in Messages
        /\ l.of.drop \in Drops
    BY DEF Messages, Built
  <1>2. \E p \in {l, Post(l, "null"), Post(l, "copy")} : Drop(l) = FreeContext(p)
    BY <1>1 DEF Drop, Drops, sample_drop, sample_drop_with_sentinel,
         queryable_drop, queryable_drop_with_sentinel, matching_drop, get_drop,
         pull_tee_on_drop, reply_tee_on_drop, query_tee_on_drop
  <1>3. PICK p \in {l, Post(l, "null"), Post(l, "copy")} : Drop(l) = FreeContext(p)
    BY <1>2
  <1>4. p \in ListenerType /\ Core(p) = Core(l)
    BY <1>1, PostFacts
  <1>5. /\ p.of = l.of /\ p.ctx = l.ctx /\ p.owners = l.owners
        /\ p.handler = l.handler /\ p.running = l.running
    BY <1>4 DEF Core
  <1>6. QED
    BY <1>3, <1>4, <1>5, FreeContextFacts

LEMMA CallbackFacts ==
  ASSUME NEW l \in ListenerType, l.of \in Built
  PROVE  Callback(l) \in ListenerType /\ Core(Callback(l)) = Core(l)
  <1>1. /\ "handle" \in Messages /\ "copy" \in Messages
        /\ l.of.callback \in Callbacks
    BY DEF Messages, Built
  <1>2. Callback(l) \in {Post(l, "handle"), Post(l, "copy")}
    BY <1>1 DEF Callback, Callbacks, sample_callback, query_callback,
         reply_callback, matching_status_callback, miss_callback,
         pull_tee_on_call, reply_tee_on_call, query_tee_on_call
  <1>3. QED
    BY <1>1, <1>2, PostFacts

LEMMA HandlerFacts ==
  ASSUME NEW l \in ListenerType
  PROVE  LET k == handler_drop(l) IN
         /\ k \in ListenerType
         /\ k.of = l.of /\ k.closure = l.closure /\ k.ctx = l.ctx
         /\ k.owners = l.owners /\ k.running = l.running
         /\ ~IsTee(l.of) => k = l
         /\ IsTee(l.of) /\ l.handler = "live" => k.handler = "freed"
  BY DEF handler_drop, ListenerType

LEMMA TeeDropFacts ==
  ASSUME NEW l \in ListenerType
  PROVE  LET k == tee_drop(l) IN
         /\ k \in ListenerType
         /\ k.of = l.of /\ k.closure = l.closure
         /\ k.handler = l.handler /\ k.running = l.running
         /\ ~IsTee(l.of) => k = l
         /\ IsTee(l.of) /\ l.owners > 0 => k.owners = l.owners - 1
         /\ IsTee(l.of) /\ l.owners = 1 => k.ctx = "freed"
         /\ IsTee(l.of) /\ l.owners > 1 => k.ctx = l.ctx
  BY ReleaseFacts DEF tee_drop

LEMMA ClosePortFacts ==
  ASSUME NEW l \in ListenerType
  PROVE  ClosePort(l) \in ListenerType /\ Core(ClosePort(l)) = Core(l)
  <1> DEFINE gone == l.lost \/ \E i \in 1..Len(l.queue) : l.queue[i] = "handle"
  <1>1. ClosePort(l) = IF l.port = "open"
                       THEN [l EXCEPT !.port = "closed", !.queue = <<>>,
                                      !.lost = gone]
                       ELSE l
    BY DEF ClosePort, ListenerType
  <1>2. gone \in BOOLEAN
    BY DEF ListenerType
  <1>3. <<>> \in Seq({"handle", "copy", "null", "timer"})
    OBVIOUS
  <1> HIDE DEF gone
  <1>4. QED
    BY <1>1, <1>2, <1>3 DEF ListenerType, Core

LEMMA DoneFacts ==
  ASSUME NEW l \in ListenerType
  PROVE  LET k == [l EXCEPT !.done = TRUE] IN
         k \in ListenerType /\ Core(k) = Core(l)
  BY DEF ListenerType, Core

LEMMA AbandonFacts ==
  ASSUME NEW l \in ListenerType
  PROVE  abandon(l) \in ListenerType /\ Core(abandon(l)) = Core(l)
  <1> DEFINE k == ClosePort(l)
  <1>1. k \in ListenerType /\ Core(k) = Core(l)
    BY ClosePortFacts
  <1>2. abandon(l) = IF l.port = "none" THEN l ELSE [k EXCEPT !.done = TRUE]
    BY DEF abandon
  <1> HIDE DEF k
  <1>3. QED
    BY <1>1, <1>2, DoneFacts

LEMMA CloseAndDrainFacts ==
  ASSUME NEW l \in ListenerType
  PROVE  closeAndDrain(l) \in ListenerType /\ Core(closeAndDrain(l)) = Core(l)
  <1> DEFINE k == Post(l, "timer")
  <1>1. k \in ListenerType /\ Core(k) = Core(l)
    BY PostFacts DEF Messages
  <1>2. closeAndDrain(l) = IF l.port = "open" THEN [k EXCEPT !.done = TRUE] ELSE l
    BY DEF closeAndDrain
  <1> HIDE DEF k
  <1>3. QED
    BY <1>1, <1>2, DoneFacts

LEMMA TakenFacts ==
  ASSUME NEW l \in ListenerType, l.queue # <<>>
  PROVE  Taken(l) \in ListenerType /\ Core(Taken(l)) = Core(l)
  <1> DEFINE q == Tail(l.queue)
             rest == [l EXCEPT !.queue = q]
  <1>1. q \in Seq({"handle", "copy", "null", "timer"})
    BY DEF ListenerType
  <1>2. Taken(l) = CASE Head(l.queue) = "null"  -> [ClosePort(rest) EXCEPT !.done = TRUE]
                     [] Head(l.queue) = "timer" -> ClosePort(rest)
                     [] OTHER                   -> rest
    BY DEF Taken, ListenerType
  <1> HIDE DEF q
  <1>3. rest \in ListenerType /\ Core(rest) = Core(l)
    BY <1>1 DEF ListenerType, Core
  <1> HIDE DEF rest
  <1>4. ClosePort(rest) \in ListenerType /\ Core(ClosePort(rest)) = Core(l)
    BY <1>3, ClosePortFacts
  <1> DEFINE k == ClosePort(rest)
  <1>5. [k EXCEPT !.done = TRUE] \in ListenerType
        /\ Core([k EXCEPT !.done = TRUE]) = Core(k)
    BY <1>4, DoneFacts
  <1>6. QED
    BY <1>2, <1>3, <1>4, <1>5

-----------------------------------------------------------------------------
(* Declarations.                                                           *)

LEMMA NoListenerFacts ==
  /\ NoListener \in ListenerType
  /\ NoListener.of = NoClosure /\ NoListener.closure = "none"
  /\ NoListener.ctx = "none" /\ NoListener.owners = 0
  /\ NoListener.handler = "none" /\ NoListener.running = FALSE
  /\ ~IsTee(NoClosure)
  <1>1. <<>> \in Seq({"handle", "copy", "null", "timer"})
    OBVIOUS
  <1>2. QED
    BY <1>1 DEF NoListener, ListenerType, ClosureType, NoClosure, Closure, IsTee

LEMMA NoListenerSound == \A state : Sound(NoListener, state)
  BY NoListenerFacts DEF Sound, Given, HandleHolds, One

\* An entry point's closure, and that only those of the pull forms are tees.
LEMMA MainFacts ==
  ASSUME NEW form \in Forms, NEW c \in Main(form)
  PROVE  /\ c \in ClosureType
         /\ IsTee(c) => form \in {"PullSubscriber", "PullQueryable", "PullReplies"}
  BY DEF Forms, Main, ClosureType, Built, Closure, NoClosure, IsTee, Callbacks,
         Drops,
         zd_declare_subscriber, zd_liveliness_declare_subscriber,
         zd_declare_advanced_subscriber, zd_declare_queryable,
         zd_declare_background_subscriber,
         zd_liveliness_declare_background_subscriber,
         zd_declare_background_queryable, zd_liveliness_get,
         zd_declare_pull_subscriber, zd_declare_pull_liveliness_subscriber,
         zd_declare_queryable_channel, zd_get_channel,
         zd_liveliness_get_channel, zd_declare_publisher,
         zd_declare_advanced_publisher, zd_declare_querier,
         zd_liveliness_declare_token

LEMMA FurtherFacts ==
  ASSUME NEW form, NEW role \in Options(form)
  PROVE  Further(form, role) \in Built /\ ~IsTee(Further(form, role))
  BY DEF Options, Further, Built, Closure, IsTee, Callbacks, Drops,
         zd_publisher_declare_background_matching_listener,
         zd_querier_declare_background_matching_listener,
         zd_advanced_publisher_declare_background_matching_listener,
         zd_advanced_subscriber_declare_background_sample_miss_listener,
         zd_advanced_subscriber_detect_publishers_background

LEMMA OpenedFacts ==
  ASSUME NEW c \in ClosureType
  PROVE  LET k == Opened(c) IN
         /\ k \in ListenerType
         /\ k.of = c /\ k.closure = "none" /\ k.ctx = "none"
         /\ k.owners = 0 /\ k.handler = "none" /\ k.running = FALSE
  BY NoListenerFacts DEF Opened, ListenerType

LEMMA AcceptedFacts ==
  ASSUME NEW c \in ClosureType
  PROVE  /\ Accepted(c) \in ListenerType
         /\ Accepted(c).of = c
         /\ c # NoClosure =>
              /\ Accepted(c).closure = "given" /\ Accepted(c).ctx = "live"
              /\ Accepted(c).owners = (IF IsTee(c) THEN 2 ELSE 1)
              /\ Accepted(c).handler = (IF IsTee(c) THEN "live" ELSE "none")
              /\ Accepted(c).running = FALSE
         /\ c = NoClosure => Accepted(c) = NoListener
  <1>1. CASE c = NoClosure
    BY <1>1, NoListenerFacts DEF Accepted
  <1>2. CASE c # NoClosure
    <2> DEFINE k == Opened(c)
               n == tee_head_init(c)
               h == IF IsTee(c) THEN "live" ELSE "none"
    <2>1. k \in ListenerType /\ k.of = c /\ k.running = FALSE
      BY OpenedFacts
    <2>2. /\ n \in Nat /\ n = (IF IsTee(c) THEN 2 ELSE 1)
          /\ h \in {"none", "live"} /\ h = (IF IsTee(c) THEN "live" ELSE "none")
      BY DEF tee_head_init
    <2>3. Accepted(c) = [k EXCEPT !.closure = "given", !.ctx = "live",
                                  !.owners = n, !.handler = h]
      BY <1>2 DEF Accepted
    <2> HIDE DEF k, n, h
    <2>4. /\ Accepted(c) \in ListenerType
          /\ Accepted(c).of = c
          /\ Accepted(c).closure = "given" /\ Accepted(c).ctx = "live"
          /\ Accepted(c).owners = n /\ Accepted(c).handler = h
          /\ Accepted(c).running = FALSE
      BY <2>1, <2>2, <2>3 DEF ListenerType
    <2>5. QED
      BY <1>2, <2>2, <2>4
  <1>3. QED
    BY <1>1, <1>2

\* A declaration that is accepted: the handle exists from here on if this was
\* the last part.
LEMMA AcceptedSound ==
  ASSUME NEW c \in ClosureType, NEW state, IsTee(c) => state = "open"
  PROVE  Sound(Accepted(c), state)
  <1>1. CASE c = NoClosure
    BY <1>1, AcceptedFacts, NoListenerSound
  <1>2. CASE c # NoClosure
    <2> DEFINE a == Accepted(c)
    <2>1. /\ a.of = c /\ a.of \in Built
          /\ a.closure = "given" /\ a.ctx = "live" /\ a.running = FALSE
          /\ IsTee(c) => a.owners = 2 /\ a.handler = "live"
          /\ ~IsTee(c) => a.owners = 1 /\ a.handler = "none"
      BY <1>2, AcceptedFacts DEF ClosureType
    <2> HIDE DEF a
    <2>2. /\ Given(a)
          /\ One(Given(a)) = 1
          /\ IsTee(c) => One(HandleHolds(a, state)) = 1
          /\ ~IsTee(c) => One(HandleHolds(a, state)) = 0
      BY <2>1 DEF Given, One, HandleHolds
    <2>3. Sound(a, state)
      <3>1. a.owners = One(Given(a)) + One(HandleHolds(a, state))
        <4> DEFINE g == One(Given(a))
                   h == One(HandleHolds(a, state))
        <4>1. g = 1
          BY <2>2
        <4>2. IsTee(c) => a.owners = 2 /\ h = 1
          BY <2>1, <2>2
        <4>3. ~IsTee(c) => a.owners = 1 /\ h = 0
          BY <2>1, <2>2
        <4> HIDE DEF g, h
        <4>4. a.owners = g + h
          BY <4>1, <4>2, <4>3
        <4>5. QED
          BY <4>4 DEF g, h
      <3>2. a.owners > 0
        BY <2>1
      <3>3. /\ IsTee(a.of) /\ state = "open" => a.handler = "live"
            /\ ~(IsTee(a.of) /\ state = "open") => a.handler \in {"none", "freed"}
        BY <2>1
      <3>4. a.owners # 0
        BY <2>1
      <3>5. QED
        BY <2>1, <2>2, <3>1, <3>2, <3>3, <3>4 DEF Sound
    <2>4. QED
      BY <2>3 DEF a
  <1>3. QED
    BY <1>1, <1>2

\* One that fails leaves no owner, whichever way it fails.
LEMMA FailedSound ==
  ASSUME NEW c \in ClosureType, NEW l \in Failed(c),
         NEW state, IsTee(c) => state = "refused"
  PROVE  /\ abandon(l) \in ListenerType
         /\ abandon(l).of = c
         /\ Sound(abandon(l), state)
  <1>1. ASSUME l \in ListenerType, l.of = c, l.owners = 0,
               l.ctx \in {"none", "freed"}, l.handler \in {"none", "freed"},
               ~l.running, ~Given(l)
        PROVE  /\ abandon(l) \in ListenerType
               /\ abandon(l).of = c
               /\ Sound(abandon(l), state)
    <2>1. Sound(l, state)
      BY <1>1 DEF Sound, HandleHolds, One
    <2>2. QED
      BY <1>1, <2>1, AbandonFacts, CoreIsSound DEF Core
  <1>2. CASE l = BadCapacity(c)
    BY <1>1, <1>2, OpenedFacts DEF BadCapacity, Given
  <1>3. CASE l = NoMemory(c)
    <2> DEFINE h == IF IsTee(c) THEN "live" ELSE "none"
               o == Opened(c)
               k == [o EXCEPT !.handler = h]
    <2>0. h \in {"none", "live"} /\ (IsTee(c) <=> h = "live")
      OBVIOUS
    <2>2. l = handler_drop(k)
      BY <1>3 DEF NoMemory
    <2>a. /\ o \in ListenerType
          /\ o.of = c /\ o.closure = "none" /\ o.ctx = "none"
          /\ o.owners = 0 /\ o.running = FALSE
      BY OpenedFacts
    <2> HIDE DEF h, o
    <2>1. /\ k \in ListenerType
          /\ k.of = c /\ k.closure = "none" /\ k.ctx = "none"
          /\ k.owners = 0 /\ k.handler = h /\ k.running = FALSE
      BY <2>0, <2>a DEF ListenerType
    <2> HIDE DEF k
    <2>3. /\ l \in ListenerType /\ l.of = c /\ l.closure = "none"
          /\ l.ctx = "none" /\ l.owners = 0 /\ l.running = FALSE
          /\ l.handler \in {"none", "freed"}
      BY <2>0, <2>1, <2>2, HandlerFacts
    <2>4. QED
      BY <1>1, <2>3 DEF Given
  <1>4. CASE l = Refused(c)
    <2>1. CASE c = NoClosure
      BY <1>1, <1>4, <2>1, NoListenerFacts DEF Refused, Given
    <2>2. CASE c # NoClosure
      <3> DEFINE a == Accepted(c)
                 d == Drop(a)
                 t == tee_drop(d)
      <3>1. /\ a \in ListenerType /\ a.of = c /\ c \in Built
            /\ a.closure = "given" /\ a.ctx = "live"
            /\ a.owners = (IF IsTee(c) THEN 2 ELSE 1)
            /\ a.handler = (IF IsTee(c) THEN "live" ELSE "none")
            /\ a.running = FALSE
        BY <2>2, AcceptedFacts DEF ClosureType
      <3>2. l = handler_drop(t)
        BY <1>4, <2>2 DEF Refused, abandon_built
      <3> HIDE DEF a
      <3>3. /\ d \in ListenerType /\ d.of = c /\ d.closure = "dropped"
            /\ d.owners = a.owners - 1
            /\ a.owners = 1 => d.ctx = "freed"
            /\ a.owners > 1 => d.ctx = a.ctx
            /\ d.handler = a.handler /\ d.running = a.running
        BY <3>1, DropFacts
      <3> HIDE DEF d
      <3>4. /\ t \in ListenerType /\ t.of = c /\ t.closure = "dropped"
            /\ t.owners = 0 /\ t.ctx = "freed"
            /\ t.handler = a.handler /\ t.running = FALSE
        BY <3>1, <3>3, TeeDropFacts
      <3> HIDE DEF t
      <3>5. /\ l \in ListenerType /\ l.of = c /\ l.closure = "dropped"
            /\ l.owners = 0 /\ l.ctx = "freed" /\ l.running = FALSE
            /\ l.handler \in {"none", "freed"}
        BY <3>1, <3>2, <3>4, HandlerFacts
      <3>6. QED
        BY <1>1, <3>5 DEF Given
    <2>3. QED
      BY <2>1, <2>2
  <1>5. QED
    BY <1>2, <1>3, <1>4 DEF Failed

-----------------------------------------------------------------------------
(* What keeps a listener sound.                                            *)

LEMMA SoundAnywhere ==
  ASSUME NEW l, ~IsTee(l.of), NEW s, NEW t, Sound(l, s)
  PROVE  Sound(l, t)
  BY DEF Sound, HandleHolds, One

LEMMA OneFacts ==
  \A p : (p => One(p) = 1) /\ (~p => One(p) = 0)
  BY DEF One

\* How many owners there are, case by case.
LEMMA Owners ==
  ASSUME NEW l \in ListenerType, NEW state, Sound(l, state)
  PROVE  /\ Given(l) /\ HandleHolds(l, state) => l.owners = 2
         /\ Given(l) /\ ~HandleHolds(l, state) => l.owners = 1
         /\ ~Given(l) /\ HandleHolds(l, state) => l.owners = 1
         /\ ~Given(l) /\ ~HandleHolds(l, state) => l.owners = 0
  <1> DEFINE g == One(Given(l))
             h == One(HandleHolds(l, state))
  <1>1. l.owners = g + h
    BY DEF Sound
  <1>2. /\ Given(l) => g = 1
        /\ ~Given(l) => g = 0
        /\ HandleHolds(l, state) => h = 1
        /\ ~HandleHolds(l, state) => h = 0
    BY DEF One
  <1> HIDE DEF g, h
  <1>3. QED
    BY <1>1, <1>2

LEMMA SoundIfOwned ==
  ASSUME NEW l \in ListenerType, NEW state,
         /\ Given(l) /\ HandleHolds(l, state) => l.owners = 2
         /\ Given(l) /\ ~HandleHolds(l, state) => l.owners = 1
         /\ ~Given(l) /\ HandleHolds(l, state) => l.owners = 1
         /\ ~Given(l) /\ ~HandleHolds(l, state) => l.owners = 0,
         l.owners > 0 => l.ctx = "live",
         l.owners = 0 => l.ctx \in {"none", "freed"},
         l.running => Given(l),
         Given(l) => l.of \in Built,
         IsTee(l.of) /\ state = "open" => l.handler = "live",
         ~(IsTee(l.of) /\ state = "open") => l.handler \in {"none", "freed"}
  PROVE  Sound(l, state)
  <1> DEFINE g == One(Given(l))
             h == One(HandleHolds(l, state))
  <1>1. /\ Given(l) => g = 1
        /\ ~Given(l) => g = 0
        /\ HandleHolds(l, state) => h = 1
        /\ ~HandleHolds(l, state) => h = 0
    BY DEF One
  <1> HIDE DEF g, h
  <1>2. l.owners = g + h
    BY <1>1
  <1>3. QED
    BY <1>2 DEF Sound, g, h

LEMMA DropSound ==
  ASSUME NEW l \in ListenerType, NEW state, Sound(l, state), Given(l), ~l.running
  PROVE  /\ Drop(l) \in ListenerType
         /\ Drop(l).of = l.of /\ ~Drop(l).running
         /\ Sound(Drop(l), state)
  <1> DEFINE k == Drop(l)
  <1>1. l.of \in Built /\ l.owners \in {1, 2}
    BY Owners DEF Sound
  <1>2. /\ k \in ListenerType
        /\ k.of = l.of /\ k.closure = "dropped"
        /\ k.handler = l.handler /\ k.running = l.running
        /\ k.owners = l.owners - 1
        /\ l.owners = 1 => k.ctx = "freed"
        /\ l.owners > 1 => k.ctx = l.ctx
    BY <1>1, DropFacts
  <1> HIDE DEF k
  <1>3. ~Given(k) /\ (HandleHolds(k, state) <=> HandleHolds(l, state))
    BY <1>2 DEF Given, HandleHolds
  <1>4. /\ HandleHolds(k, state) => k.owners = 1 /\ k.ctx = "live"
        /\ ~HandleHolds(k, state) => k.owners = 0 /\ k.ctx = "freed"
    <2>1. l.owners > 0
      BY <1>1
    <2>2. l.ctx = "live"
      BY <2>1 DEF Sound
    <2>3. QED
      BY <1>1, <1>2, <1>3, <2>2, Owners
  <1>5. Sound(k, state)
    <2>1. /\ IsTee(k.of) /\ state = "open" => k.handler = "live"
          /\ ~(IsTee(k.of) /\ state = "open") => k.handler \in {"none", "freed"}
      BY <1>2 DEF Sound
    <2>2. QED
      BY <1>2, <1>3, <1>4, <2>1, SoundIfOwned
  <1>6. QED
    BY <1>2, <1>5 DEF k

LEMMA UndeclaredSound ==
  ASSUME NEW l \in ListenerType, NEW state, Sound(l, state)
  PROVE  /\ Undeclared(l) \in ListenerType
         /\ Undeclared(l).of = l.of
         /\ Sound(Undeclared(l), state)
  <1>1. CASE ~Owned(l)
    BY <1>1 DEF Undeclared
  <1>2. CASE Owned(l) /\ l.running
    <2> DEFINE k == [l EXCEPT !.closure = "undeclared"]
    <2>1. /\ k \in ListenerType /\ k.of = l.of /\ k.ctx = l.ctx
          /\ k.owners = l.owners /\ k.handler = l.handler
          /\ k.running = l.running /\ k.closure = "undeclared"
      BY DEF ListenerType
    <2>2. Undeclared(l) = k /\ Given(l)
      BY <1>2 DEF Undeclared, Owned, Given
    <2> HIDE DEF k
    <2>3. Given(k) /\ (HandleHolds(k, state) <=> HandleHolds(l, state))
      BY <2>1 DEF Given, HandleHolds
    <2>4. Sound(k, state)
      <3>1. /\ HandleHolds(k, state) => k.owners = 2
            /\ ~HandleHolds(k, state) => k.owners = 1
        BY <2>1, <2>2, <2>3, Owners
      <3>2. /\ k.owners > 0 => k.ctx = "live"
            /\ k.owners = 0 => k.ctx \in {"none", "freed"}
            /\ k.of \in Built
            /\ IsTee(k.of) /\ state = "open" => k.handler = "live"
            /\ ~(IsTee(k.of) /\ state = "open") => k.handler \in {"none", "freed"}
        BY <2>1, <2>2 DEF Sound
      <3>3. QED
        BY <2>1, <2>3, <3>1, <3>2, SoundIfOwned
    <2>5. QED
      BY <2>1, <2>2, <2>4
  <1>3. CASE Owned(l) /\ ~l.running
    <2>1. Given(l) /\ Undeclared(l) = Drop(l)
      BY <1>3 DEF Undeclared, Owned, Given
    <2>2. QED
      BY <1>3, <2>1, DropSound
  <1>4. QED
    BY <1>1, <1>2, <1>3

LEMMA HandlerDropSound ==
  ASSUME NEW l \in ListenerType, Sound(l, "open")
  PROVE  /\ handler_drop(l) \in ListenerType
         /\ handler_drop(l).of = l.of
         /\ Sound(handler_drop(l), "closing")
  <1>1. CASE ~IsTee(l.of)
    BY <1>1, HandlerFacts, SoundAnywhere
  <1>2. CASE IsTee(l.of)
    <2> DEFINE k == handler_drop(l)
    <2>1. l.handler = "live"
      BY <1>2 DEF Sound
    <2>2. /\ k \in ListenerType
          /\ k.of = l.of /\ k.closure = l.closure /\ k.ctx = l.ctx
          /\ k.owners = l.owners /\ k.running = l.running
          /\ k.handler = "freed"
      BY <1>2, <2>1, HandlerFacts
    <2> HIDE DEF k
    <2>3. /\ Given(k) <=> Given(l)
          /\ HandleHolds(k, "closing")
          /\ HandleHolds(l, "open")
      <3>1. Given(k) <=> Given(l)
        BY <2>2 DEF Given
      <3>2. HandleHolds(k, "closing")
        BY <1>2, <2>2 DEF HandleHolds
      <3>3. HandleHolds(l, "open")
        BY <1>2 DEF HandleHolds
      <3>4. QED
        BY <3>1, <3>2, <3>3
    <2>4. /\ Given(k) => k.owners = 2
          /\ ~Given(k) => k.owners = 1
      BY <2>2, <2>3, Owners
    <2>5. /\ k.owners > 0 => k.ctx = "live"
          /\ k.running => Given(k)
          /\ Given(k) => k.of \in Built
      BY <2>2, <2>3 DEF Sound
    <2>6. k.owners # 0
      BY <2>4
    <2>7. Sound(k, "closing")
      BY <2>2, <2>3, <2>4, <2>5, <2>6, SoundIfOwned
    <2>8. QED
      BY <2>2, <2>7 DEF k
  <1>3. QED
    BY <1>1, <1>2

LEMMA TeeDropSound ==
  ASSUME NEW l \in ListenerType, Sound(l, "closing")
  PROVE  /\ tee_drop(l) \in ListenerType
         /\ tee_drop(l).of = l.of
         /\ Sound(tee_drop(l), "closed")
  <1>1. CASE ~IsTee(l.of)
    BY <1>1, TeeDropFacts, SoundAnywhere
  <1>2. CASE IsTee(l.of)
    <2> DEFINE k == tee_drop(l)
    <2>1. HandleHolds(l, "closing")
      BY <1>2 DEF HandleHolds
    <2>2. /\ Given(l) => l.owners = 2
          /\ ~Given(l) => l.owners = 1
      BY <2>1, Owners
    <2>3. l.ctx = "live" /\ l.handler \in {"none", "freed"}
      BY <2>2 DEF Sound
    <2>4. /\ k \in ListenerType
          /\ k.of = l.of /\ k.closure = l.closure
          /\ k.handler = l.handler /\ k.running = l.running
          /\ l.owners > 0 => k.owners = l.owners - 1
          /\ l.owners = 1 => k.ctx = "freed"
          /\ l.owners > 1 => k.ctx = l.ctx
      BY <1>2, TeeDropFacts
    <2> HIDE DEF k
    <2>5. ~HandleHolds(k, "closed") /\ (Given(k) <=> Given(l))
      BY <2>4 DEF Given, HandleHolds
    <2>6. /\ Given(k) => k.owners = 1 /\ k.ctx = "live"
          /\ ~Given(k) => k.owners = 0 /\ k.ctx = "freed"
      BY <2>2, <2>3, <2>4, <2>5
    <2>7. /\ k.running => Given(k)
          /\ Given(k) => k.of \in Built
          /\ k.handler \in {"none", "freed"}
      BY <2>3, <2>4, <2>5 DEF Sound
    <2>8. Sound(k, "closed")
      BY <2>4, <2>5, <2>6, <2>7, SoundIfOwned
    <2>9. QED
      BY <2>4, <2>8 DEF k
  <1>3. QED
    BY <1>1, <1>2

LEMMA EndOfSound ==
  ASSUME NEW l \in ListenerType, Sound(l, "closing"), NEW r \in Roles
  PROVE  /\ EndOf(r, l) \in ListenerType
         /\ EndOf(r, l).of = l.of
         /\ Sound(EndOf(r, l), "closed")
  <1> DEFINE u == Undeclared(l)
             t == tee_drop(u)
  <1>1. u \in ListenerType /\ u.of = l.of /\ Sound(u, "closing")
    BY UndeclaredSound
  <1>2. t \in ListenerType /\ t.of = l.of /\ Sound(t, "closed")
    BY <1>1, TeeDropSound
  <1> HIDE DEF u
  <1>3. CASE r = "side" \/ IsTee(l.of)
    <2>1. EndOf(r, l) = abandon(t)
      BY <1>3 DEF EndOf, u
    <2> HIDE DEF t
    <2>2. QED
      BY <1>2, <2>1, AbandonFacts, CoreIsSound DEF Core
  <1>4. CASE ~(r = "side" \/ IsTee(l.of))
    <2>1. EndOf(r, l) = closeAndDrain(u)
      BY <1>4 DEF EndOf, u
    <2>2. Sound(u, "closed")
      BY <1>1, <1>4, SoundAnywhere
    <2>3. QED
      BY <1>1, <2>1, <2>2, CloseAndDrainFacts, CoreIsSound DEF Core
  <1>5. QED
    BY <1>3, <1>4

-----------------------------------------------------------------------------
(* The steps.                                                              *)

\* A step that touches one entity.
LEMMA OneEntity ==
  ASSUME TypeInv, EntityInv, NEW e \in Entities,
         NEW en \in EntityType, NEW ls \in [Roles -> ListenerType],
         session' = session,
         ent' = [ent EXCEPT ![e] = en], lis' = [lis EXCEPT ![e] = ls],
         Shape(en, ls), \A r \in Roles : Sound(ls[r], en.state)
  PROVE  (TypeInv /\ EntityInv)'
  <1>1. TypeInv'
    BY DEF TypeInv
  <1>2. ASSUME NEW f \in Entities
        PROVE  /\ Shape(ent'[f], lis'[f])
               /\ \A r \in Roles : Sound(lis'[f][r], ent'[f].state)
    <2>1. CASE f = e
      <3>1. ent'[f] = en /\ lis'[f] = ls
        BY <2>1 DEF TypeInv
      <3>2. QED
        BY <3>1
    <2>2. CASE f # e
      <3>1. ent'[f] = ent[f] /\ lis'[f] = lis[f]
        BY <2>2 DEF TypeInv
      <3>2. QED
        BY <3>1 DEF EntityInv
    <2>3. QED
      BY <2>1, <2>2
  <1>3. QED
    BY <1>1, <1>2 DEF EntityInv

\* A step that touches one listener and keeps what it is for.
LEMMA OneListener ==
  ASSUME TypeInv, EntityInv, NEW e \in Entities, NEW r \in Roles,
         NEW k \in ListenerType, k.of = lis[e][r].of,
         session' = session, ent' = ent, lis' = [lis EXCEPT ![e][r] = k],
         Sound(k, ent[e].state)
  PROVE  (TypeInv /\ EntityInv)'
  <1> DEFINE ls == [lis[e] EXCEPT ![r] = k]
  <1>1. ls \in [Roles -> ListenerType] /\ ent[e] \in EntityType
    BY DEF TypeInv
  <1>2. ent' = [ent EXCEPT ![e] = ent[e]] /\ lis' = [lis EXCEPT ![e] = ls]
    BY DEF TypeInv
  <1>3. \A q \in Roles : /\ ls[q].of = lis[e][q].of
                         /\ Sound(ls[q], ent[e].state)
    BY DEF TypeInv, EntityInv
  <1> HIDE DEF ls
  <1>4. Shape(ent[e], ls)
    BY <1>3 DEF EntityInv, Shape
  <1>5. QED
    BY <1>1, <1>2, <1>3, <1>4, OneEntity

LEMMA DeclareStep ==
  ASSUME TypeInv, EntityInv, NEW e \in Entities, Declare(e)
  PROVE  (TypeInv /\ EntityInv)'
  <1>1. PICK form \in FormsOf[e] : \E c \in Main(form), wanted \in SUBSET Options(form) :
          LET slot == IF HasSlot(form) THEN "allocated" ELSE "none" IN
          \/ /\ ent' = [ent EXCEPT ![e] =
                          [form |-> form, slot |-> slot, wanted |-> wanted,
                           state |-> IF wanted = {} THEN "open" ELSE "declaring"]]
             /\ lis' = [lis EXCEPT ![e]["main"] = Accepted(c)]
          \/ \E l \in Failed(c) :
               /\ ent' = [ent EXCEPT ![e] =
                            [form |-> form, slot |-> FreeSlot(slot), wanted |-> {},
                             state |-> "refused"]]
               /\ lis' = [lis EXCEPT ![e]["main"] = abandon(l)]
    BY DEF Declare
  <1> DEFINE slot == IF HasSlot(form) THEN "allocated" ELSE "none"
  <1>2. PICK c \in Main(form), wanted \in SUBSET Options(form) :
          \/ /\ ent' = [ent EXCEPT ![e] =
                          [form |-> form, slot |-> slot, wanted |-> wanted,
                           state |-> IF wanted = {} THEN "open" ELSE "declaring"]]
             /\ lis' = [lis EXCEPT ![e]["main"] = Accepted(c)]
          \/ \E l \in Failed(c) :
               /\ ent' = [ent EXCEPT ![e] =
                            [form |-> form, slot |-> FreeSlot(slot), wanted |-> {},
                             state |-> "refused"]]
               /\ lis' = [lis EXCEPT ![e]["main"] = abandon(l)]
    BY <1>1
  <1>3. form \in Forms /\ c \in ClosureType
        /\ (IsTee(c) => form \in {"PullSubscriber", "PullQueryable", "PullReplies"})
    BY EntitiesAssumption, MainFacts
  <1>4. /\ slot \in {"allocated", "none"}
        /\ FreeSlot(slot) \in {"freed", "none"}
        /\ wanted \subseteq Roles
    BY DEF FreeSlot, Options, Roles
  <1>5. IsTee(c) => wanted = {}
    BY <1>3 DEF Options
  <1>6. /\ ent[e].state = "unused" /\ session' = session
        /\ "main" \in Roles
        /\ \A r \in Roles : ~IsTee(lis[e][r].of)
        /\ \A r \in Roles : Sound(lis[e][r], "unused")
    BY DEF Declare, EntityInv, Shape, Roles
  <1> HIDE DEF slot
  \* Whatever is declared, and however it turns out.
  <1>7. ASSUME NEW k \in ListenerType, NEW en \in EntityType, k.of = c,
               en.form = form, en.wanted \subseteq Options(form),
               en.state = "declaring" => en.wanted # {},
               en.state \in {"open", "declaring", "refused"},
               en.slot # "wild", en.slot = "freed" => en.state = "refused",
               IsTee(c) => en.state \in {"open", "refused"},
               Sound(k, en.state),
               ent' = [ent EXCEPT ![e] = en],
               lis' = [lis EXCEPT ![e]["main"] = k]
        PROVE  (TypeInv /\ EntityInv)'
    <2> DEFINE ls == [lis[e] EXCEPT !["main"] = k]
    <2>1. ls \in [Roles -> ListenerType] /\ lis' = [lis EXCEPT ![e] = ls]
      BY <1>6, <1>7 DEF TypeInv
    <2>2. /\ ls["main"] = k
          /\ \A r \in Roles \ {"main"} : ls[r] = lis[e][r]
      BY <1>6 DEF TypeInv
    <2> HIDE DEF ls
    <2>3. Shape(en, ls)
      <3>1. \A r \in Roles : IsTee(ls[r].of) =>
              /\ r = "main"
              /\ en.form \in {"PullSubscriber", "PullQueryable", "PullReplies"}
              /\ en.state \in {"open", "closing", "closed", "refused"}
        BY <1>3, <1>6, <1>7, <2>2
      <3>2. QED
        BY <1>7, <3>1 DEF Shape
    <2>4. \A r \in Roles : Sound(ls[r], en.state)
      BY <1>6, <1>7, <2>2, SoundAnywhere
    <2>5. QED
      BY <1>6, <1>7, <2>1, <2>3, <2>4, OneEntity
  <1>8. CASE /\ ent' = [ent EXCEPT ![e] =
                          [form |-> form, slot |-> slot, wanted |-> wanted,
                           state |-> IF wanted = {} THEN "open" ELSE "declaring"]]
             /\ lis' = [lis EXCEPT ![e]["main"] = Accepted(c)]
    <2> DEFINE state == IF wanted = {} THEN "open" ELSE "declaring"
               en == [form |-> form, slot |-> slot, wanted |-> wanted,
                      state |-> state]
    <2>1. /\ state \in {"open", "declaring"}
          /\ state = "declaring" => wanted # {}
          /\ IsTee(c) => state = "open"
      BY <1>5
    <2> HIDE DEF state
    <2>2. /\ en \in EntityType /\ en.form = form /\ en.wanted = wanted
          /\ en.state = state /\ en.slot = slot
      BY <1>3, <1>4, <2>1 DEF EntityType
    <2>3. ent' = [ent EXCEPT ![e] = en]
      BY <1>8 DEF state
    <2> HIDE DEF en
    <2>4. /\ Accepted(c) \in ListenerType /\ Accepted(c).of = c
          /\ Sound(Accepted(c), state)
      BY <1>3, <2>1, AcceptedFacts, AcceptedSound
    <2>5. QED
      BY <1>4, <1>7, <1>8, <2>1, <2>2, <2>3, <2>4
  <1>9. ASSUME NEW l \in Failed(c),
               ent' = [ent EXCEPT ![e] =
                         [form |-> form, slot |-> FreeSlot(slot), wanted |-> {},
                          state |-> "refused"]],
               lis' = [lis EXCEPT ![e]["main"] = abandon(l)]
        PROVE  (TypeInv /\ EntityInv)'
    <2> DEFINE en == [form |-> form, slot |-> FreeSlot(slot), wanted |-> {},
                      state |-> "refused"]
    <2>1. /\ en \in EntityType /\ en.form = form /\ en.wanted = {}
          /\ en.state = "refused" /\ en.slot = FreeSlot(slot)
      BY <1>3, <1>4 DEF EntityType
    <2>2. ent' = [ent EXCEPT ![e] = en]
      BY <1>9
    <2> HIDE DEF en
    <2>3. /\ abandon(l) \in ListenerType /\ abandon(l).of = c
          /\ Sound(abandon(l), "refused")
      BY <1>3, <1>9, FailedSound
    <2>4. QED
      BY <1>4, <1>7, <1>9, <2>1, <2>2, <2>3
  <1>10. QED
    BY <1>2, <1>8, <1>9

LEMMA DeclareFurtherStep ==
  ASSUME TypeInv, EntityInv, NEW e \in Entities, DeclareFurther(e)
  PROVE  (TypeInv /\ EntityInv)'
  <1> DEFINE role == NextWanted(e)
             c == Further(ent[e].form, role)
  <1>a. ent[e].state = "declaring" /\ session' = session
    BY DEF DeclareFurther
  <1>b. ent[e] \in EntityType /\ lis[e] \in [Roles -> ListenerType]
    BY DEF TypeInv
  <1>c. Shape(ent[e], lis[e]) /\ \A r \in Roles : Sound(lis[e][r], "declaring")
    BY <1>a DEF EntityInv
  <1>d. /\ ent[e].wanted \subseteq Options(ent[e].form) /\ ent[e].wanted # {}
        /\ ent[e].slot # "wild" /\ ent[e].slot # "freed"
    BY <1>a, <1>c DEF Shape
  <1>e. \A r \in Roles : ~IsTee(lis[e][r].of)
    BY <1>a, <1>c DEF Shape
  <1>1. /\ ent[e].state = "declaring" /\ session' = session
        /\ ent[e] \in EntityType /\ lis[e] \in [Roles -> ListenerType]
        /\ ent[e].wanted \subseteq Options(ent[e].form) /\ ent[e].wanted # {}
        /\ ent[e].slot # "wild" /\ ent[e].slot # "freed"
        /\ \A r \in Roles : ~IsTee(lis[e][r].of)
        /\ \A r \in Roles : Sound(lis[e][r], "declaring")
    BY <1>a, <1>b, <1>c, <1>d, <1>e
  <1>2. role \in ent[e].wanted /\ role \in Roles
    BY <1>1 DEF NextWanted, Options, Roles
  <1>3. c \in ClosureType /\ ~IsTee(c)
    BY <1>1, <1>2, FurtherFacts DEF ClosureType
  <1>4. \/ /\ lis' = [lis EXCEPT ![e][role] = Accepted(c)]
           /\ ent' = [ent EXCEPT ![e].wanted = @ \ {role},
                                 ![e].state = IF ent[e].wanted = {role} THEN "open"
                                                                 ELSE "declaring"]
        \/ \E l \in Failed(c) :
             /\ lis' = [lis EXCEPT ![e] =
                          [r \in Roles |-> abandon(IF r = role THEN l ELSE @[r])]]
             /\ ent' = [ent EXCEPT ![e].wanted = {}, ![e].state = "tearing"]
    BY DEF DeclareFurther
  <1> HIDE DEF role, c
  \* Both outcomes.
  <1>5. ASSUME NEW ls \in [Roles -> ListenerType],
               NEW wanted \in SUBSET Roles, NEW state,
               wanted \subseteq ent[e].wanted,
               state \in {"open", "declaring", "tearing"},
               state = "declaring" => wanted # {},
               \A r \in Roles : ~IsTee(ls[r].of) /\ Sound(ls[r], "declaring"),
               ent' = [ent EXCEPT ![e] =
                         [ent[e] EXCEPT !.wanted = wanted, !.state = state]],
               lis' = [lis EXCEPT ![e] = ls]
        PROVE  (TypeInv /\ EntityInv)'
    <2> DEFINE en == [ent[e] EXCEPT !.wanted = wanted, !.state = state]
    <2>1. /\ en \in EntityType /\ en.form = ent[e].form /\ en.wanted = wanted
          /\ en.state = state /\ en.slot = ent[e].slot
      BY <1>1, <1>5 DEF EntityType
    <2> HIDE DEF en
    <2>2. Shape(en, ls)
      BY <1>1, <1>5, <2>1 DEF Shape
    <2>3. \A r \in Roles : Sound(ls[r], en.state)
      BY <1>5, SoundAnywhere
    <2>4. QED
      BY <1>1, <1>5, <2>1, <2>2, <2>3, OneEntity DEF en
  <1>6. CASE /\ lis' = [lis EXCEPT ![e][role] = Accepted(c)]
             /\ ent' = [ent EXCEPT ![e].wanted = @ \ {role},
                                   ![e].state = IF ent[e].wanted = {role} THEN "open"
                                                                   ELSE "declaring"]
    <2> DEFINE ls == [lis[e] EXCEPT ![role] = Accepted(c)]
               wanted == ent[e].wanted \ {role}
               state == IF ent[e].wanted = {role} THEN "open" ELSE "declaring"
    <2>1. /\ Accepted(c) \in ListenerType /\ Accepted(c).of = c
          /\ Sound(Accepted(c), "declaring")
      BY <1>3, AcceptedFacts, AcceptedSound
    <2>2. /\ ls \in [Roles -> ListenerType]
          /\ \A r \in Roles : ~IsTee(ls[r].of) /\ Sound(ls[r], "declaring")
      BY <1>1, <1>2, <1>3, <2>1
    <2>3. lis' = [lis EXCEPT ![e] = ls]
      BY <1>6 DEF TypeInv
    <2>4. /\ wanted \in SUBSET Roles /\ wanted \subseteq ent[e].wanted
          /\ state \in {"open", "declaring", "tearing"}
          /\ state = "declaring" => wanted # {}
      BY <1>1, <1>2 DEF EntityType
    <2>5. ent' = [ent EXCEPT ![e] =
                    [ent[e] EXCEPT !.wanted = wanted, !.state = state]]
      BY <1>1, <1>6 DEF TypeInv
    <2> HIDE DEF ls, wanted, state
    <2>6. QED
      BY <1>5, <2>2, <2>3, <2>4, <2>5
  <1>7. ASSUME NEW l \in Failed(c),
               lis' = [lis EXCEPT ![e] =
                         [r \in Roles |-> abandon(IF r = role THEN l ELSE @[r])]],
               ent' = [ent EXCEPT ![e].wanted = {}, ![e].state = "tearing"]
        PROVE  (TypeInv /\ EntityInv)'
    <2> DEFINE ls == [r \in Roles |-> abandon(IF r = role THEN l ELSE lis[e][r])]
    <2>1. /\ abandon(l) \in ListenerType /\ abandon(l).of = c
          /\ Sound(abandon(l), "declaring")
      BY <1>3, <1>7, FailedSound
    <2>2. ASSUME NEW r \in Roles
          PROVE  /\ ls[r] \in ListenerType /\ ~IsTee(ls[r].of)
                 /\ Sound(ls[r], "declaring")
      <3>1. CASE r = role
        BY <1>3, <2>1, <3>1
      <3>2. CASE r # role
        <4>1. ls[r] = abandon(lis[e][r]) /\ lis[e][r] \in ListenerType
          BY <1>1, <3>2
        <4>2. ls[r] \in ListenerType /\ Core(ls[r]) = Core(lis[e][r])
          BY <4>1, AbandonFacts
        <4>3. ls[r].of = lis[e][r].of
          BY <4>2 DEF Core
        <4>4. QED
          BY <1>1, <4>2, <4>3, CoreIsSound
      <3>3. QED
        BY <3>1, <3>2
    <2>3. ls \in [Roles -> ListenerType]
      BY <2>2
    <2>4. lis' = [lis EXCEPT ![e] = ls]
      BY <1>7 DEF TypeInv
    <2>5. ent' = [ent EXCEPT ![e] =
                    [ent[e] EXCEPT !.wanted = {}, !.state = "tearing"]]
      BY <1>1, <1>7 DEF TypeInv
    <2>6. {} \in SUBSET Roles /\ {} \subseteq ent[e].wanted
      OBVIOUS
    <2> HIDE DEF ls
    <2>7. /\ \A r \in Roles : ~IsTee(ls[r].of) /\ Sound(ls[r], "declaring")
          /\ "tearing" \in {"open", "declaring", "tearing"}
          /\ "tearing" # "declaring"
      BY <2>2
    <2>8. QED
      BY <1>5, <2>3, <2>4, <2>5, <2>6, <2>7
  <1>8. QED
    BY <1>4, <1>6, <1>7

\* An entity that goes on to its end: what its listeners are for stays.
LEMMA MovesOn ==
  ASSUME TypeInv, EntityInv, NEW e \in Entities, ent[e].state # "unused",
         NEW state \in {"refused", "closing", "closed"},
         NEW slot \in {"none", "allocated", "freed"},
         slot = "freed" => state # "closing",
         NEW ls \in [Roles -> ListenerType],
         \A r \in Roles : ls[r].of = lis[e][r].of /\ Sound(ls[r], state),
         session' = session,
         ent' = [ent EXCEPT ![e] = [ent[e] EXCEPT !.state = state, !.slot = slot]],
         lis' = [lis EXCEPT ![e] = ls]
  PROVE  (TypeInv /\ EntityInv)'
  <1> DEFINE en == [ent[e] EXCEPT !.state = state, !.slot = slot]
  <1>1. ent[e] \in EntityType
    BY DEF TypeInv
  <1>2. /\ en \in EntityType /\ en.form = ent[e].form
        /\ en.wanted = ent[e].wanted /\ en.state = state /\ en.slot = slot
    BY <1>1 DEF EntityType
  <1>3. ent' = [ent EXCEPT ![e] = en]
    OBVIOUS
  <1> HIDE DEF en
  <1>4. Shape(ent[e], lis[e])
    BY DEF EntityInv
  <1>5. Shape(en, ls)
    BY <1>2, <1>4 DEF Shape
  <1>6. \A r \in Roles : Sound(ls[r], en.state)
    BY <1>2
  <1>7. QED
    BY <1>2, <1>3, <1>5, <1>6, OneEntity

\* A slot is freed by the step that ends the entity, and by no other.
LEMMA FreeSlotFacts ==
  ASSUME TypeInv, EntityInv, NEW e \in Entities,
         ent[e].state \notin {"refused", "closed"}
  PROVE  /\ ent[e].slot \in {"none", "allocated", "freed"}
         /\ ent[e].slot # "freed"
         /\ FreeSlot(ent[e].slot) \in {"none", "allocated", "freed"}
  <1>1. ent[e].slot \in {"none", "allocated", "freed", "wild"}
    BY DEF TypeInv, EntityType
  <1>2. ent[e].slot \notin {"freed", "wild"}
    BY DEF EntityInv, Shape
  <1>3. QED
    BY <1>1, <1>2 DEF FreeSlot

LEMMA TearDownReturnStep ==
  ASSUME TypeInv, EntityInv, NEW e \in Entities, TearDownReturn(e)
  PROVE  (TypeInv /\ EntityInv)'
  <1> DEFINE ls == [r \in Roles |-> Undeclared(lis[e][r])]
             slot == FreeSlot(ent[e].slot)
  <1>1. ent[e].state = "tearing" /\ session' = session
    BY DEF TearDownReturn
  <1>2. ASSUME NEW r \in Roles
        PROVE  /\ ls[r] \in ListenerType /\ ls[r].of = lis[e][r].of
               /\ Sound(ls[r], "refused")
    <2>1. /\ lis[e][r] \in ListenerType /\ Sound(lis[e][r], "tearing")
          /\ ~IsTee(lis[e][r].of)
      BY <1>1 DEF TypeInv, EntityInv, Shape
    <2>2. ls[r] = Undeclared(lis[e][r])
      OBVIOUS
    <2>3. QED
      BY <2>1, <2>2, UndeclaredSound, SoundAnywhere
  <1>3. slot \in {"none", "allocated", "freed"}
    BY <1>1, FreeSlotFacts
  <1>4. lis' = [lis EXCEPT ![e] = ls]
    BY DEF TearDownReturn, TypeInv
  <1>5. ent[e] \in EntityType /\ ent \in [Entities -> EntityType]
    BY DEF TypeInv
  <1>6. ent' = [ent EXCEPT ![e] =
                  [ent[e] EXCEPT !.state = "refused", !.slot = slot]]
    BY <1>5 DEF TearDownReturn, EntityType
  <1>7. ls \in [Roles -> ListenerType]
    BY <1>2
  <1> HIDE DEF ls, slot
  <1>8. QED
    BY <1>1, <1>2, <1>3, <1>4, <1>6, <1>7, MovesOn

LEMMA CloseStep ==
  ASSUME TypeInv, EntityInv, NEW e \in Entities, Close(e)
  PROVE  (TypeInv /\ EntityInv)'
  <1> DEFINE k == handler_drop(lis[e]["main"])
             ls == [lis[e] EXCEPT !["main"] = k]
  <1>1. /\ ent[e].state = "open" /\ session' = session
        /\ "main" \in Roles
    BY DEF Close, Roles
  <1>2. \A r \in Roles : /\ lis[e][r] \in ListenerType
                         /\ Sound(lis[e][r], "open")
                         /\ IsTee(lis[e][r].of) => r = "main"
    BY <1>1 DEF TypeInv, EntityInv, Shape
  <1>3. /\ k \in ListenerType /\ k.of = lis[e]["main"].of
        /\ Sound(k, "closing")
    BY <1>1, <1>2, HandlerDropSound
  <1>4. ent[e].slot \in {"none", "allocated", "freed"} /\ ent[e].slot # "freed"
    BY <1>1, FreeSlotFacts
  <1>5. lis' = [lis EXCEPT ![e] = ls]
    BY DEF Close, TypeInv
  <1>6. ent[e] \in EntityType /\ ent \in [Entities -> EntityType]
        /\ lis[e] \in [Roles -> ListenerType]
    BY DEF TypeInv
  <1>7. ent' = [ent EXCEPT ![e] =
                  [ent[e] EXCEPT !.state = "closing", !.slot = ent[e].slot]]
    BY <1>6 DEF Close, EntityType
  <1> HIDE DEF k
  <1>8. ls \in [Roles -> ListenerType] /\ ls["main"] = k
        /\ \A r \in Roles \ {"main"} : ls[r] = lis[e][r]
    BY <1>1, <1>3, <1>6
  <1> HIDE DEF ls
  <1>9. \A r \in Roles : ls[r].of = lis[e][r].of /\ Sound(ls[r], "closing")
    BY <1>2, <1>3, <1>8, SoundAnywhere
  <1>10. QED
    BY <1>1, <1>4, <1>5, <1>7, <1>8, <1>9, MovesOn

LEMMA CloseReturnStep ==
  ASSUME TypeInv, EntityInv, NEW e \in Entities, CloseReturn(e)
  PROVE  (TypeInv /\ EntityInv)'
  <1> DEFINE ls == [r \in Roles |-> EndOf(r, lis[e][r])]
             slot == FreeSlot(ent[e].slot)
  <1>1. ent[e].state = "closing" /\ session' = session
    BY DEF CloseReturn
  <1>2. ASSUME NEW r \in Roles
        PROVE  /\ ls[r] \in ListenerType /\ ls[r].of = lis[e][r].of
               /\ Sound(ls[r], "closed")
    <2>1. lis[e][r] \in ListenerType /\ Sound(lis[e][r], "closing")
      BY <1>1 DEF TypeInv, EntityInv
    <2>2. ls[r] = EndOf(r, lis[e][r])
      OBVIOUS
    <2>3. QED
      BY <2>1, <2>2, EndOfSound
  <1>3. slot \in {"none", "allocated", "freed"}
    BY <1>1, FreeSlotFacts
  <1>4. lis' = [lis EXCEPT ![e] = ls]
    BY DEF CloseReturn, TypeInv
  <1>5. ent[e] \in EntityType /\ ent \in [Entities -> EntityType]
    BY DEF TypeInv
  <1>6. ent' = [ent EXCEPT ![e] =
                  [ent[e] EXCEPT !.state = "closed", !.slot = slot]]
    BY <1>5 DEF CloseReturn, EntityType
  <1>7. ls \in [Roles -> ListenerType]
    BY <1>2
  <1> HIDE DEF ls, slot
  <1>8. QED
    BY <1>1, <1>2, <1>3, <1>4, <1>6, <1>7, MovesOn

\* A publisher has no tee, so nothing is held by the handle it loses.
LEMMA CollectStep ==
  ASSUME TypeInv, EntityInv, NEW e \in Entities, Collect(e)
  PROVE  (TypeInv /\ EntityInv)'
  <1> DEFINE slot == FreeSlot(ent[e].slot)
  <1>1. /\ ent[e].state = "open" /\ session' = session /\ lis' = lis
        /\ ent[e].form \in {"Publisher", "AdvancedPublisher"}
    BY DEF Collect
  <1>2. \A r \in Roles : ~IsTee(lis[e][r].of) /\ Sound(lis[e][r], "open")
    BY <1>1 DEF EntityInv, Shape
  <1>3. \A r \in Roles : Sound(lis[e][r], "closed")
    BY <1>2, SoundAnywhere
  <1>4. slot \in {"none", "allocated", "freed"}
    BY <1>1, FreeSlotFacts
  <1>5. /\ ent[e] \in EntityType /\ ent \in [Entities -> EntityType]
        /\ lis[e] \in [Roles -> ListenerType]
        /\ lis' = [lis EXCEPT ![e] = lis[e]]
    BY <1>1 DEF TypeInv
  <1>6. ent' = [ent EXCEPT ![e] =
                  [ent[e] EXCEPT !.state = "closed", !.slot = slot]]
    BY <1>5 DEF Collect, EntityType
  <1> HIDE DEF slot
  <1>7. QED
    BY <1>1, <1>3, <1>4, <1>5, <1>6, MovesOn

\* A callback begins only on a closure zenoh still has.
LEMMA CallbackBeginsStep ==
  ASSUME TypeInv, EntityInv, NEW e \in Entities, NEW r \in Roles,
         CallbackBegins(e, r)
  PROVE  (TypeInv /\ EntityInv)'
  <1> DEFINE l == lis[e][r]
             n == l.posts + 1
             k == [l EXCEPT !.running = TRUE, !.posts = n]
  <1>1. /\ l.closure = "given" /\ session' = session /\ ent' = ent
    BY DEF CallbackBegins
  <1>2. l \in ListenerType /\ Sound(l, ent[e].state)
        /\ lis \in [Entities -> [Roles -> ListenerType]]
    BY DEF TypeInv, EntityInv
  <1>3. n \in Nat
    BY <1>2 DEF ListenerType
  <1>4. lis' = [lis EXCEPT ![e][r] = k]
    BY <1>2 DEF CallbackBegins, ListenerType
  <1> HIDE DEF l, n
  <1>5. /\ k \in ListenerType /\ k.of = l.of /\ k.closure = l.closure
        /\ k.ctx = l.ctx /\ k.owners = l.owners /\ k.handler = l.handler
    BY <1>2, <1>3 DEF ListenerType
  <1> HIDE DEF k
  <1>6. Given(k) /\ Given(l)
    BY <1>1, <1>5 DEF Given
  <1>7. HandleHolds(k, ent[e].state) <=> HandleHolds(l, ent[e].state)
    BY <1>5 DEF HandleHolds
  <1>8. /\ Given(k) /\ HandleHolds(k, ent[e].state) => k.owners = 2
        /\ Given(k) /\ ~HandleHolds(k, ent[e].state) => k.owners = 1
    BY <1>2, <1>5, <1>6, <1>7, Owners
  <1>9. /\ k.owners > 0 => k.ctx = "live"
        /\ k.owners = 0 => k.ctx \in {"none", "freed"}
        /\ k.of \in Built
        /\ IsTee(k.of) /\ ent[e].state = "open" => k.handler = "live"
        /\ ~(IsTee(k.of) /\ ent[e].state = "open") => k.handler \in {"none", "freed"}
    BY <1>2, <1>5, <1>6 DEF Sound
  <1>10. Sound(k, ent[e].state)
    BY <1>5, <1>6, <1>8, <1>9, SoundIfOwned
  <1>11. QED
    BY <1>1, <1>4, <1>5, <1>10, OneListener DEF l

\* A callback that is running has its context: one owner is zenoh's closure.
LEMMA CallbackEndsStep ==
  ASSUME TypeInv, EntityInv, NEW e \in Entities, NEW r \in Roles,
         CallbackEnds(e, r)
  PROVE  (TypeInv /\ EntityInv)'
  <1> DEFINE l == lis[e][r]
             c == Callback(l)
             x == IF c.ctx = "live" THEN c.ctx ELSE "wild"
             k == [c EXCEPT !.running = FALSE, !.ctx = x]
  <1>1. l.running /\ session' = session /\ ent' = ent
    BY DEF CallbackEnds
  <1>2. l \in ListenerType /\ Sound(l, ent[e].state)
        /\ lis \in [Entities -> [Roles -> ListenerType]]
    BY DEF TypeInv, EntityInv
  <1>3. Given(l) /\ l.of \in Built
    BY <1>1, <1>2 DEF Sound
  <1>4. l.owners \in {1, 2}
    BY <1>2, <1>3, Owners
  <1>5. l.ctx = "live"
    <2>1. l.owners > 0
      BY <1>4
    <2>2. QED
      BY <1>2, <2>1 DEF Sound
  <1>6. c \in ListenerType /\ Core(c) = Core(l)
    BY <1>2, <1>3, CallbackFacts
  <1>7. lis' = [lis EXCEPT ![e][r] = k]
    <2>1. lis' = [lis EXCEPT ![e][r] =
                    [c EXCEPT !.running = FALSE,
                              !.ctx = IF @ = "live" THEN @ ELSE "wild"]]
      BY <1>2 DEF CallbackEnds
    <2> HIDE DEF l, c
    <2>3. [c EXCEPT !.running = FALSE,
                    !.ctx = IF @ = "live" THEN @ ELSE "wild"] = k
      BY <1>6 DEF ListenerType
    <2>4. QED
      BY <2>1, <2>3
  <1>8. /\ c.of = l.of /\ c.closure = l.closure /\ c.ctx = "live"
        /\ c.owners = l.owners /\ c.handler = l.handler
    BY <1>5, <1>6 DEF Core
  <1> HIDE DEF l, c
  <1>9. x = "live"
    BY <1>8
  <1> HIDE DEF x
  <1>10. /\ k \in ListenerType /\ k.of = l.of /\ k.closure = l.closure
         /\ k.ctx = "live" /\ k.owners = l.owners /\ k.handler = l.handler
         /\ k.running = FALSE
    BY <1>6, <1>8, <1>9 DEF ListenerType
  <1> HIDE DEF k
  <1>11. Given(k) /\ (HandleHolds(k, ent[e].state) <=> HandleHolds(l, ent[e].state))
    BY <1>3, <1>10 DEF Given, HandleHolds
  <1>12. /\ HandleHolds(k, ent[e].state) => k.owners = 2
         /\ ~HandleHolds(k, ent[e].state) => k.owners = 1
    BY <1>2, <1>3, <1>10, <1>11, Owners
  <1>13. /\ k.owners # 0
         /\ IsTee(k.of) /\ ent[e].state = "open" => k.handler = "live"
         /\ ~(IsTee(k.of) /\ ent[e].state = "open") => k.handler \in {"none", "freed"}
    BY <1>2, <1>4, <1>10 DEF Sound
  <1>14. Sound(k, ent[e].state)
    BY <1>3, <1>10, <1>11, <1>12, <1>13, SoundIfOwned
  <1>15. QED
    BY <1>1, <1>7, <1>10, <1>14, OneListener DEF l

LEMMA DropClosureStep ==
  ASSUME TypeInv, EntityInv, NEW e \in Entities, NEW r \in Roles,
         DropClosure(e, r)
  PROVE  (TypeInv /\ EntityInv)'
  <1> DEFINE l == lis[e][r]
  <1>1. /\ ~l.running /\ Given(l) /\ session' = session /\ ent' = ent
        /\ lis' = [lis EXCEPT ![e][r] = Drop(l)]
    BY DEF DropClosure, Given, TypeInv
  <1>2. l \in ListenerType /\ Sound(l, ent[e].state)
    BY DEF TypeInv, EntityInv
  <1> HIDE DEF l
  <1>3. /\ Drop(l) \in ListenerType /\ Drop(l).of = l.of
        /\ Sound(Drop(l), ent[e].state)
    BY <1>1, <1>2, DropSound
  <1>4. QED
    BY <1>1, <1>3, OneListener DEF l

LEMMA TakeMessageStep ==
  ASSUME TypeInv, EntityInv, NEW e \in Entities, NEW r \in Roles,
         TakeMessage(e, r)
  PROVE  (TypeInv /\ EntityInv)'
  <1> DEFINE l == lis[e][r]
  <1>1. /\ l.queue # <<>> /\ session' = session /\ ent' = ent
        /\ lis' = [lis EXCEPT ![e][r] = Taken(l)]
    BY DEF TakeMessage, TypeInv
  <1>2. l \in ListenerType /\ Sound(l, ent[e].state)
    BY DEF TypeInv, EntityInv
  <1> HIDE DEF l
  <1>3. Taken(l) \in ListenerType /\ Core(Taken(l)) = Core(l)
    BY <1>1, <1>2, TakenFacts
  <1>4. Taken(l).of = l.of /\ Sound(Taken(l), ent[e].state)
    BY <1>2, <1>3, CoreIsSound DEF Core
  <1>5. QED
    BY <1>1, <1>3, <1>4, OneListener DEF l

-----------------------------------------------------------------------------
(* The theorems.                                                           *)

LEMMA InitIInv == Init => IInv
  <1> SUFFICES ASSUME Init PROVE IInv
    OBVIOUS
  <1>1. TypeInv
    BY NoListenerFacts DEF Init, TypeInv, EntityType, Roles
  <1>2. ASSUME NEW e \in Entities
        PROVE  /\ Shape(ent[e], lis[e])
               /\ \A r \in Roles : Sound(lis[e][r], ent[e].state)
    <2>1. \A r \in Roles : lis[e][r] = NoListener
      BY DEF Init
    <2>2. /\ ent[e].form = "none" /\ ent[e].state = "unused"
          /\ ent[e].slot = "none" /\ ent[e].wanted = {}
      BY DEF Init
    <2>3. Shape(ent[e], lis[e])
      BY <2>1, <2>2, NoListenerFacts DEF Shape
    <2>4. QED
      BY <2>1, <2>3, NoListenerSound
  <1>3. QED
    BY <1>1, <1>2 DEF IInv, EntityInv

LEMMA StepIInv == IInv /\ [Next]_vars => IInv'
  <1> SUFFICES ASSUME TypeInv, EntityInv, [Next]_vars
               PROVE  (TypeInv /\ EntityInv)'
    BY DEF IInv
  <1>1. CASE ent' = ent /\ lis' = lis /\ session' \in {"open", "closing", "closed"}
    BY <1>1 DEF TypeInv, EntityInv
  <1>2. ASSUME NEW e \in Entities,
               \/ Declare(e) \/ DeclareFurther(e) \/ TearDownReturn(e)
               \/ Close(e) \/ CloseReturn(e) \/ Collect(e)
        PROVE  (TypeInv /\ EntityInv)'
    BY <1>2, DeclareStep, DeclareFurtherStep, TearDownReturnStep, CloseStep,
       CloseReturnStep, CollectStep
  <1>3. CASE SessionClose
    BY <1>1, <1>3 DEF SessionClose
  <1>4. CASE SessionCloseReturn
    BY <1>1, <1>4 DEF SessionCloseReturn
  <1>5. ASSUME NEW e \in Entities, NEW r \in Roles,
               Zenoh(e, r) \/ TakeMessage(e, r)
        PROVE  (TypeInv /\ EntityInv)'
    BY <1>5, CallbackBeginsStep, CallbackEndsStep, DropClosureStep,
       TakeMessageStep DEF Zenoh
  <1>6. CASE UNCHANGED vars
    <2>1. ent' = ent /\ lis' = lis /\ session' = session
      BY <1>6 DEF vars
    <2>2. session \in {"open", "closing", "closed"}
      BY DEF TypeInv
    <2>3. QED
      BY <1>1, <2>1, <2>2
  <1>7. QED
    BY <1>2, <1>3, <1>4, <1>5, <1>6 DEF Next

LEMMA IInvAlways == Spec => []IInv
  BY InitIInv, StepIInv, PTL DEF Spec

\* A callback context (freed by its closure's drop, zenoh_dart.c:1620-1623, or
\* by the last of two at 1339-1351), a channel's handler (2630) and an entity's
\* slot (subscriber.dart:260-268, or its finalizer) are freed once and after
\* their last use: for any number of entities of any form, whichever part of a
\* declaration is refused and whoever ends first.
THEOREM FreedOnce == Spec => []FreedOnceAfterUse
  <1>1. IInv => FreedOnceAfterUse
    <2> SUFFICES ASSUME IInv, NEW e \in Entities
                 PROVE  /\ ent[e].slot # "wild"
                        /\ \A r \in Roles :
                             /\ "wild" \notin {lis[e][r].ctx, lis[e][r].handler}
                             /\ lis[e][r].running => lis[e][r].ctx = "live"
      BY DEF FreedOnceAfterUse
    <2>1. ent[e].slot # "wild"
      BY DEF IInv, EntityInv, Shape
    <2>2. ASSUME NEW r \in Roles
          PROVE  /\ "wild" \notin {lis[e][r].ctx, lis[e][r].handler}
                 /\ lis[e][r].running => lis[e][r].ctx = "live"
      <3> DEFINE l == lis[e][r]
      <3>1. l \in ListenerType /\ Sound(l, ent[e].state)
        BY DEF IInv, TypeInv, EntityInv
      <3> HIDE DEF l
      <3>2. l.owners \in Nat
        BY <3>1 DEF ListenerType
      <3>3. l.owners > 0 => l.ctx = "live"
        BY <3>1 DEF Sound
      <3>4. l.owners = 0 => l.ctx \in {"none", "freed"}
        BY <3>1 DEF Sound
      <3>5. l.ctx # "wild"
        BY <3>2, <3>3, <3>4
      <3>6. l.handler # "wild"
        BY <3>1 DEF Sound
      <3>7. l.running => l.owners \in {1, 2}
        <4>1. l.running => Given(l)
          BY <3>1 DEF Sound
        <4>2. QED
          BY <3>1, <4>1, Owners
      <3>8. l.running => l.ctx = "live"
        BY <3>3, <3>7
      <3>9. QED
        BY <3>5, <3>6, <3>8 DEF l
    <2>3. QED
      BY <2>1, <2>2
  <1>2. QED
    BY <1>1, IInvAlways, PTL

\* What a session declares stays of its kind, whatever is declared on it; a
\* context has at most two owners (zd_tee_head_t, zenoh_dart.c:1310).
THEOREM TypeCorrect == Spec => []TypeOK
  <1>1. IInv => TypeOK
    <2> SUFFICES ASSUME IInv PROVE TypeOK
      OBVIOUS
    <2>1. ASSUME NEW e \in Entities, NEW r \in Roles
          PROVE  ListenerOK(lis[e][r])
      <3> DEFINE l == lis[e][r]
      <3>1. l \in ListenerType /\ Sound(l, ent[e].state)
        BY DEF IInv, TypeInv, EntityInv
      <3> HIDE DEF l
      <3>2. l.owners \in {0, 1, 2}
        BY <3>1, Owners
      <3>3. l.owners \in 0..2
        BY <3>2
      <3>4. ListenerOK(l)
        BY <3>1, <3>3 DEF ListenerOK, ListenerType
      <3>5. QED
        BY <3>4 DEF l
    <2>2. ASSUME NEW e \in Entities
          PROVE  /\ ent[e].form \in Forms \cup {"none"}
                 /\ ent[e].state \in {"unused", "declaring", "open", "tearing",
                                      "refused", "closing", "closed"}
                 /\ ent[e].slot \in {"none", "allocated", "freed", "wild"}
                 /\ ent[e].wanted \subseteq Roles
      BY DEF IInv, TypeInv, EntityType
    <2>3. session \in {"open", "closing", "closed"}
      BY DEF IInv, TypeInv
    <2>4. QED
      BY <2>1, <2>2, <2>3 DEF TypeOK
  <1>2. QED
    BY <1>1, IInvAlways, PTL

-----------------------------------------------------------------------------
(* What is left of a declaration: the second inductive invariant.          *)

Waits(l, m) == \E i \in 1..Len(l.queue) : l.queue[i] = m

\* No handle waits behind the message that closes the port.
Settled(l) ==
  \A i, j \in 1..Len(l.queue) :
    i < j /\ l.queue[i] \in {"null", "timer"} => l.queue[j] # "handle"

Ended(en) == en.state \in {"refused", "closed"}

\* A listener is declared by an entry point of its form and role.
Fits(form, r, c) ==
  \/ c = NoClosure
  \/ r = "main" /\ c \in Main(form)
  \/ r \in Options(form) /\ c = Further(form, r)

\* Listeners come one after the other, and publisher detection last.
Declared(en, r, l) ==
  /\ Fits(en.form, r, l.of)
  /\ l.of = NoClosure \/ l.port = "none" => l = NoListener
  /\ en.state = "unused" \/ r \in en.wanted => l = NoListener
  /\ en.state = "declaring" /\ r = "detect" => l = NoListener

\* zenoh has a closure of an entity that is over only if it is not the
\* entity's, or is a side listener's whose callback has not ended.
Ending(en, r, l) ==
  /\ l.closure = "none" => l.port # "open"
  /\ l.closure = "undeclared" => r = "side"
  /\ en.state = "tearing" /\ r = "detect" => l.closure # "given"
  /\ en.state = "refused" => l.closure # "given"
  /\ en.state = "closed" /\ l.closure = "given" => l.of.owner # "entity"

\* What ends a stream comes after the last handle, and what closes a port is
\* in it from the moment the entity is over.
Draining(en, r, l) ==
  /\ en.state = "tearing" => l.port # "open"
  /\ Ended(en) /\ l.port = "open" => Waits(l, "timer")
  /\ Waits(l, "null") => l.closure = "dropped" /\ l.of.owner # "entity"
  /\ r = "side" \/ IsTee(l.of) => ~Waits(l, "handle")
  /\ r = "main" => /\ Settled(l)
                   /\ Waits(l, "null") \/ Waits(l, "timer") => l.closure = "dropped"

History(en, r, l) ==
  /\ l.done => Ended(en) \/ en.state \in {"tearing", "closing"}
                 \/ (l.closure = "dropped" /\ l.of.owner # "entity")
  /\ l.lost => /\ en.form = "AdvancedSubscriber"
               /\ r = "detect" \/ en.state \in {"tearing", "refused"}

Lives(en, r, l) ==
  Declared(en, r, l) /\ Ending(en, r, l) /\ Draining(en, r, l) /\ History(en, r, l)

\* Only what has further listeners is torn down, only what has a slot is
\* closed, and the slot goes with the entity.
Stage(en) ==
  /\ en.state # "unused" => en.form \in Forms
  /\ en.state \in {"declaring", "tearing"} => Options(en.form) # {}
  /\ en.state = "closing" => HasSlot(en.form)
  /\ Ended(en) => en.slot # "allocated"

LifeInv ==
  \A e \in Entities : /\ Stage(ent[e])
                      /\ \A r \in Roles : Lives(ent[e], r, lis[e][r])

\* The session closes only when no declaration is in progress, and is closed
\* when zenoh has dropped what was the session's or a query's.
SessionInv ==
  /\ session # "open" =>
       \A e \in Entities : ent[e].state \notin {"declaring", "tearing"}
  /\ session = "closed" =>
       \A e \in Entities, r \in Roles :
         lis[e][r].closure = "given" => lis[e][r].of.owner = "entity"

-----------------------------------------------------------------------------
(* What each operation does to a stream: its port, its messages, its end.  *)

LEMMA NothingWaits ==
  ASSUME NEW l, l.queue = <<>>
  PROVE  Settled(l) /\ \A x : ~Waits(l, x)
  BY DEF Settled, Waits

LEMMA AppendWaits ==
  ASSUME NEW l \in ListenerType, NEW m \in Messages, NEW k,
         k.queue = Append(l.queue, m)
  PROVE  /\ \A x : Waits(k, x) <=> Waits(l, x) \/ x = m
         /\ Settled(l) /\ (m = "handle" => ~Waits(l, "null") /\ ~Waits(l, "timer"))
              => Settled(k)
  <1> DEFINE q == l.queue
             n == Len(q)
  <1>1. q \in Seq(Messages) /\ n \in Nat
    BY DEF ListenerType, Messages
  <1>2. /\ Len(k.queue) = n + 1
        /\ k.queue[n + 1] = m
        /\ \A i \in 1..n : k.queue[i] = q[i]
        /\ \A i \in 1..(n + 1) : i \in 1..n \/ i = n + 1
        /\ n + 1 \in 1..(n + 1)
        /\ \A i \in 1..n : i \in 1..(n + 1)
    BY <1>1
  <1> HIDE DEF q, n
  <1>3. \A x : Waits(k, x) <=> Waits(l, x) \/ x = m
    BY <1>2 DEF Waits, q, n
  <1>4. ASSUME Settled(l), m = "handle" => ~Waits(l, "null") /\ ~Waits(l, "timer"),
               NEW i \in 1..(n + 1), NEW j \in 1..(n + 1), i < j,
               k.queue[i] \in {"null", "timer"}, k.queue[j] = "handle"
        PROVE  FALSE
    <2>1. i \in 1..n
      BY <1>1, <1>4 DEF n
    <2>2. Waits(l, "null") \/ Waits(l, "timer")
      BY <1>2, <1>4, <2>1 DEF Waits, q, n
    <2>3. CASE j = n + 1
      BY <1>2, <1>4, <2>2, <2>3
    <2>4. CASE j \in 1..n
      BY <1>2, <1>4, <2>1, <2>4 DEF Settled, q, n
    <2>5. QED
      BY <1>2, <1>4, <2>3, <2>4
  <1>5. QED
    BY <1>2, <1>3, <1>4 DEF Settled

LEMMA TailWaits ==
  ASSUME NEW l \in ListenerType, l.queue # <<>>, NEW k, k.queue = Tail(l.queue)
  PROVE  /\ \A x : Waits(k, x) => Waits(l, x)
         /\ \A x : Waits(l, x) => Waits(k, x) \/ x = Head(l.queue)
         /\ Waits(l, Head(l.queue))
         /\ Settled(l) => Settled(k)
         /\ Settled(l) /\ Head(l.queue) \in {"null", "timer"} => ~Waits(k, "handle")
  <1> DEFINE q == l.queue
             n == Len(q)
  <1>1. q \in Seq(Messages) /\ n \in Nat /\ n # 0
    BY DEF ListenerType, Messages
  <1>2. /\ Len(k.queue) = n - 1
        /\ Head(q) = q[1] /\ 1 \in 1..n
        /\ \A i \in 1..(n - 1) : k.queue[i] = q[i + 1] /\ i + 1 \in 1..n /\ 1 < i + 1
        /\ \A i \in 1..n : i = 1 \/ (i - 1 \in 1..(n - 1) /\ k.queue[i - 1] = q[i])
        /\ \A i, j \in 1..(n - 1) : i < j => i + 1 < j + 1
    BY <1>1
  <1> HIDE DEF q, n
  <1>3. /\ \A x : Waits(k, x) => Waits(l, x)
        /\ \A x : Waits(l, x) => Waits(k, x) \/ x = Head(l.queue)
        /\ Waits(l, Head(l.queue))
    BY <1>2 DEF Waits, q, n
  <1>4. Settled(l) => Settled(k)
    BY <1>2 DEF Settled, q, n
  <1>5. Settled(l) /\ Head(l.queue) \in {"null", "timer"} => ~Waits(k, "handle")
    BY <1>2 DEF Settled, Waits, q, n
  <1>6. QED
    BY <1>3, <1>4, <1>5

\* Everything but what is said of the queue stays.
Kept(k, l) ==
  /\ k.of = l.of /\ k.closure = l.closure /\ k.port = l.port
  /\ k.done = l.done /\ k.lost = l.lost

LEMMA SameQueue ==
  ASSUME NEW l, NEW k, k.queue = l.queue
  PROVE  /\ \A x : Waits(k, x) <=> Waits(l, x)
         /\ Settled(k) <=> Settled(l)
  BY DEF Waits, Settled

LEMMA PostLife ==
  ASSUME NEW l \in ListenerType, NEW m \in Messages
  PROVE  LET k == Post(l, m) IN
         /\ Kept(k, l)
         /\ \A x : Waits(l, x) => Waits(k, x)
         /\ \A x : Waits(k, x) => Waits(l, x) \/ x = m
         /\ l.port = "open" => Waits(k, m)
         /\ Settled(l) /\ (m = "handle" => ~Waits(l, "null") /\ ~Waits(l, "timer"))
              => Settled(k)
  <1> DEFINE k == Post(l, m)
             q == Append(l.queue, m)
  <1>1. CASE l.port = "open"
    <2>1. k = [l EXCEPT !.queue = q]
      BY <1>1 DEF Post, ListenerType
    <2> HIDE DEF q
    <2>2. Kept(k, l) /\ k.queue = q
      BY <2>1 DEF ListenerType, Kept
    <2> HIDE DEF k
    <2>3. QED
      BY <2>2, AppendWaits DEF k, q
  <1>2. CASE l.port # "open"
    BY <1>2 DEF Post, Kept
  <1>3. QED
    BY <1>1, <1>2

LEMMA FreeContextLife ==
  ASSUME NEW l \in ListenerType
  PROVE  LET k == FreeContext(l) IN
         /\ k.of = l.of /\ k.closure = "dropped" /\ k.port = l.port
         /\ k.done = l.done /\ k.lost = l.lost /\ k.queue = l.queue
  BY DEF FreeContext, ReleaseContext, ListenerType

LEMMA ReleaseLife ==
  ASSUME NEW l \in ListenerType
  PROVE  LET k == tee_drop(l) IN Kept(k, l) /\ k.queue = l.queue
  BY DEF tee_drop, ReleaseContext, ListenerType, Kept

LEMMA HandlerLife ==
  ASSUME NEW l \in ListenerType
  PROVE  LET k == handler_drop(l) IN Kept(k, l) /\ k.queue = l.queue
  BY DEF handler_drop, ListenerType, Kept

\* The drops that post the end of a stream.
SentinelDrops == {"sample_with_sentinel", "queryable_with_sentinel", "get"}

LEMMA DropLife ==
  ASSUME NEW l \in ListenerType, l.of \in Built
  PROVE  LET k == Drop(l) IN
         /\ k.of = l.of /\ k.closure = "dropped" /\ k.port = l.port
         /\ k.done = l.done /\ k.lost = l.lost
         /\ \A x : Waits(l, x) => Waits(k, x)
         /\ Waits(k, "handle") => Waits(l, "handle")
         /\ Waits(k, "timer") => Waits(l, "timer")
         /\ Waits(k, "null") => Waits(l, "null") \/ l.of.drop \in SentinelDrops
         /\ Settled(l) => Settled(k)
  <1>1. /\ "null" \in Messages /\ "copy" \in Messages
        /\ l.of.drop \in Drops
    BY DEF Messages, Built
  <1>2. \E p \in {l, Post(l, "null"), Post(l, "copy")} :
          /\ Drop(l) = FreeContext(p)
          /\ p = Post(l, "null") => l.of.drop \in SentinelDrops \/ p = l \/ p = Post(l, "copy")
    BY <1>1 DEF Drop, Drops, SentinelDrops, sample_drop,
         sample_drop_with_sentinel, queryable_drop,
         queryable_drop_with_sentinel, matching_drop, get_drop,
         pull_tee_on_drop, reply_tee_on_drop, query_tee_on_drop
  <1>3. PICK p \in {l, Post(l, "null"), Post(l, "copy")} :
          /\ Drop(l) = FreeContext(p)
          /\ p = Post(l, "null") => l.of.drop \in SentinelDrops \/ p = l \/ p = Post(l, "copy")
    BY <1>2
  <1>4. p \in ListenerType
    BY <1>1, <1>3, PostFacts
  <1>5. /\ Kept(p, l)
        /\ \A x : Waits(l, x) => Waits(p, x)
        /\ \A x \in {"handle", "timer"} : Waits(p, x) => Waits(l, x)
        /\ Waits(p, "null") => Waits(l, "null") \/ l.of.drop \in SentinelDrops
        /\ Settled(l) => Settled(p)
    <2>1. CASE p = l
      BY <2>1 DEF Kept
    <2>2. CASE p = Post(l, "copy")
      BY <1>1, <2>2, PostLife
    <2>3. CASE p = Post(l, "null") /\ l.of.drop \in SentinelDrops
      BY <1>1, <2>3, PostLife
    <2>4. QED
      BY <1>3, <2>1, <2>2, <2>3
  <1>6. /\ Drop(l).of = p.of /\ Drop(l).closure = "dropped" /\ Drop(l).port = p.port
        /\ Drop(l).done = p.done /\ Drop(l).lost = p.lost /\ Drop(l).queue = p.queue
    BY <1>3, <1>4, FreeContextLife
  <1>7. /\ \A x : Waits(Drop(l), x) <=> Waits(p, x)
        /\ Settled(Drop(l)) <=> Settled(p)
    BY <1>6, SameQueue
  <1>8. QED
    BY <1>5, <1>6, <1>7 DEF Kept

\* The callbacks that transfer a handle.
HandleCallbacks == {"sample", "query", "reply"}

LEMMA CallbackLife ==
  ASSUME NEW l \in ListenerType, l.of \in Built
  PROVE  LET k == Callback(l) IN
         /\ Kept(k, l)
         /\ \A x : Waits(l, x) => Waits(k, x)
         /\ Waits(k, "null") => Waits(l, "null")
         /\ Waits(k, "timer") => Waits(l, "timer")
         /\ Waits(k, "handle") => Waits(l, "handle") \/ l.of.callback \in HandleCallbacks
         /\ Settled(l) /\ ~Waits(l, "null") /\ ~Waits(l, "timer") => Settled(k)
  <1>1. /\ "handle" \in Messages /\ "copy" \in Messages
        /\ l.of.callback \in Callbacks
    BY DEF Messages, Built
  <1>2. \/ Callback(l) = Post(l, "handle") /\ l.of.callback \in HandleCallbacks
        \/ Callback(l) = Post(l, "copy")
    BY <1>1 DEF Callback, Callbacks, HandleCallbacks, sample_callback,
         query_callback, reply_callback, matching_status_callback,
         miss_callback, pull_tee_on_call, reply_tee_on_call, query_tee_on_call
  <1>3. QED
    BY <1>1, <1>2, PostLife

\* A port that closes drops what it holds.
LEMMA ClosePortLife ==
  ASSUME NEW l \in ListenerType
  PROVE  LET k == ClosePort(l) IN
         /\ k.of = l.of /\ k.closure = l.closure /\ k.done = l.done
         /\ k.port # "open" /\ (k.port = "none" => k = l)
         /\ l.port = "none" => k = l
         /\ \A x : Waits(k, x) => Waits(l, x)
         /\ Settled(l) => Settled(k)
         /\ k.lost => l.lost \/ Waits(l, "handle")
  <1> DEFINE k == ClosePort(l)
             gone == l.lost \/ \E i \in 1..Len(l.queue) : l.queue[i] = "handle"
  <1>1. CASE l.port = "open"
    <2>1. k = [l EXCEPT !.port = "closed", !.queue = <<>>, !.lost = gone]
      BY <1>1 DEF ClosePort, ListenerType
    <2>2. gone => l.lost \/ Waits(l, "handle")
      BY DEF Waits
    <2> HIDE DEF gone
    <2>3. /\ k.of = l.of /\ k.closure = l.closure /\ k.done = l.done
          /\ k.port = "closed" /\ k.queue = <<>> /\ k.lost = gone
      BY <2>1 DEF ListenerType
    <2> HIDE DEF k
    <2>4. QED
      BY <1>1, <2>2, <2>3, NothingWaits DEF k
  <1>2. CASE l.port # "open"
    BY <1>2 DEF ClosePort
  <1>3. QED
    BY <1>1, <1>2

LEMMA AbandonLife ==
  ASSUME NEW l \in ListenerType
  PROVE  LET k == abandon(l) IN
         /\ k.of = l.of /\ k.closure = l.closure
         /\ k.port # "open" /\ (k.port = "none" => k = l)
         /\ \A x : Waits(k, x) => Waits(l, x)
         /\ Settled(l) => Settled(k)
         /\ k.lost => l.lost \/ Waits(l, "handle")
         /\ l.port = "none" => k = l
  <1> DEFINE p == ClosePort(l)
             k == [p EXCEPT !.done = TRUE]
  <1>1. p \in ListenerType
    BY ClosePortFacts
  <1>2. abandon(l) = IF l.port = "none" THEN l ELSE k
    BY DEF abandon
  <1>3. /\ p.of = l.of /\ p.closure = l.closure
        /\ p.port # "open" /\ (p.port = "none" => p = l)
        /\ \A x : Waits(p, x) => Waits(l, x)
        /\ Settled(l) => Settled(p)
        /\ p.lost => l.lost \/ Waits(l, "handle")
    BY ClosePortLife
  <1> HIDE DEF p
  <1>4. /\ k.of = p.of /\ k.closure = p.closure /\ k.port = p.port
        /\ k.queue = p.queue /\ k.lost = p.lost
    BY <1>1 DEF ListenerType
  <1> HIDE DEF k
  <1>5. /\ \A x : Waits(k, x) <=> Waits(p, x)
        /\ Settled(k) <=> Settled(p)
    BY <1>4, SameQueue
  <1>6. QED
    BY <1>2, <1>3, <1>4, <1>5

LEMMA DrainLife ==
  ASSUME NEW l \in ListenerType
  PROVE  LET k == closeAndDrain(l) IN
         /\ k.of = l.of /\ k.closure = l.closure /\ k.port = l.port
         /\ k.lost = l.lost
         /\ \A x : Waits(k, x) => Waits(l, x) \/ x = "timer"
         /\ l.port = "open" => Waits(k, "timer")
         /\ l.port # "open" => k = l
         /\ Settled(l) => Settled(k)
  <1> DEFINE p == Post(l, "timer")
             k == [p EXCEPT !.done = TRUE]
  <1>1. p \in ListenerType
    BY PostFacts DEF Messages
  <1>2. closeAndDrain(l) = IF l.port = "open" THEN k ELSE l
    BY DEF closeAndDrain
  <1>3. /\ Kept(p, l)
        /\ \A x : Waits(p, x) => Waits(l, x) \/ x = "timer"
        /\ l.port = "open" => Waits(p, "timer")
        /\ Settled(l) => Settled(p)
    BY PostLife DEF Messages
  <1> HIDE DEF p
  <1>4. /\ k.of = p.of /\ k.closure = p.closure /\ k.port = p.port
        /\ k.queue = p.queue /\ k.lost = p.lost
    BY <1>1 DEF ListenerType
  <1> HIDE DEF k
  <1>5. /\ \A x : Waits(k, x) <=> Waits(p, x)
        /\ Settled(k) <=> Settled(p)
    BY <1>4, SameQueue
  <1>6. QED
    BY <1>2, <1>3, <1>4, <1>5 DEF Kept

LEMMA TakenLife ==
  ASSUME NEW l \in ListenerType, l.queue # <<>>
  PROVE  LET k == Taken(l) IN
         /\ k.of = l.of /\ k.closure = l.closure
         /\ \A x : Waits(k, x) => Waits(l, x)
         /\ Settled(l) => Settled(k)
         /\ k.port = "none" => l.port = "none"
         /\ k.port = "open" =>
              l.port = "open" /\ (Waits(l, "timer") => Waits(k, "timer"))
         /\ k.done => l.done \/ Waits(l, "null")
         /\ k.lost => \/ l.lost
                      \/ /\ Waits(l, "handle") /\ ~Settled(l)
                         /\ Waits(l, "null") \/ Waits(l, "timer")
  <1> DEFINE q == Tail(l.queue)
             rest == [l EXCEPT !.queue = q]
             p == ClosePort(rest)
             k == [p EXCEPT !.done = TRUE]
  <1>1. q \in Seq({"handle", "copy", "null", "timer"})
    BY DEF ListenerType
  <1>2. Taken(l) = CASE Head(l.queue) = "null"  -> k
                     [] Head(l.queue) = "timer" -> p
                     [] OTHER                   -> rest
    BY DEF Taken, ListenerType
  <1> HIDE DEF q
  <1>3. rest \in ListenerType /\ Kept(rest, l) /\ rest.queue = q
    BY <1>1 DEF ListenerType, Kept
  <1> HIDE DEF rest
  <1>4. /\ \A x : Waits(rest, x) => Waits(l, x)
        /\ \A x : Waits(l, x) => Waits(rest, x) \/ x = Head(l.queue)
        /\ Waits(l, Head(l.queue))
        /\ Settled(l) => Settled(rest)
        /\ Settled(l) /\ Head(l.queue) \in {"null", "timer"} => ~Waits(rest, "handle")
    BY <1>3, TailWaits DEF q
  <1>5. /\ p \in ListenerType
        /\ p.of = rest.of /\ p.closure = rest.closure /\ p.done = rest.done
        /\ p.port # "open" /\ (p.port = "none" => p = rest)
        /\ \A x : Waits(p, x) => Waits(rest, x)
        /\ Settled(rest) => Settled(p)
        /\ p.lost => rest.lost \/ Waits(rest, "handle")
    BY <1>3, ClosePortFacts, ClosePortLife
  <1> HIDE DEF p
  <1>6. /\ k.of = p.of /\ k.closure = p.closure /\ k.port = p.port
        /\ k.queue = p.queue /\ k.lost = p.lost
    BY <1>5 DEF ListenerType
  <1> HIDE DEF k
  <1>7. /\ \A x : Waits(k, x) <=> Waits(p, x)
        /\ Settled(k) <=> Settled(p)
    BY <1>6, SameQueue
  <1>8. CASE Head(l.queue) = "null"
    BY <1>2, <1>3, <1>4, <1>5, <1>6, <1>7, <1>8 DEF Kept
  <1>9. CASE Head(l.queue) = "timer"
    BY <1>2, <1>3, <1>4, <1>5, <1>9 DEF Kept
  <1>10. CASE Head(l.queue) \notin {"null", "timer"}
    <2>1. Taken(l) = rest
      BY <1>2, <1>10
    <2>2. QED
      BY <1>3, <1>4, <1>10, <2>1 DEF Kept
  <1>11. QED
    BY <1>8, <1>9, <1>10

LEMMA UndeclaredLife ==
  ASSUME NEW l \in ListenerType, Owned(l) => l.of \in Built
  PROVE  LET k == Undeclared(l) IN
         /\ k.of = l.of /\ k.port = l.port /\ k.done = l.done /\ k.lost = l.lost
         /\ Owned(l) => k.closure = (IF l.running THEN "undeclared" ELSE "dropped")
         /\ ~Owned(l) => k = l
         /\ \A x : Waits(l, x) => Waits(k, x)
         /\ Waits(k, "handle") => Waits(l, "handle")
         /\ Waits(k, "timer") => Waits(l, "timer")
         /\ Waits(k, "null") => Waits(l, "null") \/ l.of.drop \in SentinelDrops
         /\ Settled(l) => Settled(k)
  <1>1. CASE ~Owned(l)
    BY <1>1 DEF Undeclared
  <1>2. CASE Owned(l) /\ l.running
    <2> DEFINE k == [l EXCEPT !.closure = "undeclared"]
    <2>1. /\ k.of = l.of /\ k.port = l.port /\ k.done = l.done
          /\ k.lost = l.lost /\ k.closure = "undeclared" /\ k.queue = l.queue
      BY DEF ListenerType
    <2>2. Undeclared(l) = k
      BY <1>2 DEF Undeclared
    <2> HIDE DEF k
    <2>3. QED
      BY <1>2, <2>1, <2>2, SameQueue
  <1>3. CASE Owned(l) /\ ~l.running
    <2>1. Undeclared(l) = Drop(l)
      BY <1>3 DEF Undeclared
    <2>2. QED
      BY <1>3, <2>1, DropLife
  <1>4. QED
    BY <1>1, <1>2, <1>3

-----------------------------------------------------------------------------
(* Where listeners come from.                                              *)

\* What the table of the entry points says of a listener's closure.
LEMMA FitsFacts ==
  ASSUME NEW form \in Forms, NEW r \in Roles, NEW c, Fits(form, r, c),
         c # NoClosure
  PROVE  /\ c \in Built
         /\ c.drop \in SentinelDrops => c.owner # "entity"
         /\ r = "side" => c.owner = "entity"
         /\ r = "side" \/ IsTee(c) => c.callback \notin HandleCallbacks
         /\ IsTee(c) => r = "main"
         /\ r = "detect" => form = "AdvancedSubscriber" /\ c.owner # "entity"
         /\ r = "main" /\ Options(form) # {} =>
              form = "AdvancedSubscriber" /\ c.owner = "entity"
         /\ r = "main" /\ HasSlot(form) /\ ~IsTee(c) => c.owner = "entity"
  <1>1. CASE r = "main" /\ c \in Main(form)
    BY <1>1 DEF Forms, Main, Options, HasSlot, Built, Closure, NoClosure, IsTee,
         Callbacks, Drops, SentinelDrops, HandleCallbacks,
         zd_declare_subscriber, zd_liveliness_declare_subscriber,
         zd_declare_advanced_subscriber, zd_declare_queryable,
         zd_declare_background_subscriber,
         zd_liveliness_declare_background_subscriber,
         zd_declare_background_queryable, zd_liveliness_get,
         zd_declare_pull_subscriber, zd_declare_pull_liveliness_subscriber,
         zd_declare_queryable_channel, zd_get_channel,
         zd_liveliness_get_channel, zd_declare_publisher,
         zd_declare_advanced_publisher, zd_declare_querier,
         zd_liveliness_declare_token
  <1>2. CASE r \in Options(form) /\ c = Further(form, r)
    BY <1>2 DEF Forms, Options, Further, Built, Closure, IsTee, Callbacks, Drops,
         SentinelDrops, HandleCallbacks,
         zd_publisher_declare_background_matching_listener,
         zd_querier_declare_background_matching_listener,
         zd_advanced_publisher_declare_background_matching_listener,
         zd_advanced_subscriber_declare_background_sample_miss_listener,
         zd_advanced_subscriber_detect_publishers_background
  <1>3. QED
    BY <1>1, <1>2 DEF Fits

LEMMA NoListenerLife ==
  /\ NoListener.closure = "none" /\ NoListener.port = "none"
  /\ NoListener.queue = <<>> /\ ~NoListener.done /\ ~NoListener.lost
  /\ NoListener.of = NoClosure /\ ~NoListener.running
  /\ NoListener \in ListenerType
  BY NoListenerFacts DEF NoListener

\* What was never declared is not touched.
LEMMA NoListenerStays ==
  /\ ~Owned(NoListener)
  /\ handler_drop(NoListener) = NoListener
  /\ tee_drop(NoListener) = NoListener
  /\ Undeclared(NoListener) = NoListener
  /\ abandon(NoListener) = NoListener
  /\ closeAndDrain(NoListener) = NoListener
  /\ \A r : EndOf(r, NoListener) = NoListener
  <1>1. ~IsTee(NoListener.of) /\ ~Owned(NoListener)
    BY NoListenerFacts DEF Owned
  <1>2. QED
    BY <1>1, NoListenerLife DEF handler_drop, tee_drop, Undeclared, abandon,
       closeAndDrain, EndOf

LEMMA NoListenerLives ==
  ASSUME NEW en, NEW r
  PROVE  Lives(en, r, NoListener)
  <1>1. ~Waits(NoListener, "null") /\ ~Waits(NoListener, "handle")
        /\ ~Waits(NoListener, "timer") /\ Settled(NoListener)
    BY NoListenerLife, NothingWaits
  <1>2. QED
    BY <1>1, NoListenerLife
       DEF Lives, Declared, Fits, Ending, Draining, History

LEMMA OpenedLife ==
  ASSUME NEW c \in Built
  PROVE  LET k == Opened(c) IN
         /\ k \in ListenerType
         /\ k.of = c /\ k.closure = "none" /\ k.port = "open"
         /\ k.queue = <<>> /\ k.done = FALSE /\ k.lost = FALSE
  <1>1. c # NoClosure /\ c \in ClosureType
    BY DEF Built, NoClosure, Closure, ClosureType
  <1>2. QED
    BY <1>1, OpenedFacts, NoListenerLife DEF Opened, ListenerType

LEMMA AcceptedLife ==
  ASSUME NEW c \in Built
  PROVE  LET k == Accepted(c) IN
         /\ k \in ListenerType
         /\ k.of = c /\ k.closure = "given" /\ k.port = "open"
         /\ k.queue = <<>> /\ k.done = FALSE /\ k.lost = FALSE
  <1>1. c # NoClosure /\ c \in ClosureType
    BY DEF Built, NoClosure, Closure, ClosureType
  <1> DEFINE o == Opened(c)
             n == tee_head_init(c)
             h == IF IsTee(c) THEN "live" ELSE "none"
  <1>2. Accepted(c) = [o EXCEPT !.closure = "given", !.ctx = "live",
                                !.owners = n, !.handler = h]
    BY <1>1 DEF Accepted
  <1>3. /\ o \in ListenerType /\ o.of = c /\ o.port = "open"
        /\ o.queue = <<>> /\ o.done = FALSE /\ o.lost = FALSE
    BY OpenedLife
  <1> HIDE DEF o, n, h
  <1>4. QED
    BY <1>1, <1>2, <1>3, AcceptedFacts DEF ListenerType

\* A declaration that fails leaves no closure with zenoh, and a closed port.
LEMMA FailedLife ==
  ASSUME NEW c \in Built, NEW l \in Failed(c)
  PROVE  LET k == abandon(l) IN
         /\ k.of = c /\ k.closure \in {"none", "dropped"} /\ k.port = "closed"
         /\ \A x \in {"handle", "timer"} : ~Waits(k, x)
         /\ Waits(k, "null") => k.closure = "dropped" /\ c.drop \in SentinelDrops
         /\ Settled(k)
         /\ k.lost = FALSE
  <1>0. c # NoClosure /\ c \in ClosureType
    BY DEF Built, NoClosure, Closure, ClosureType
  <1>1. ASSUME l \in ListenerType, l.of = c, l.closure \in {"none", "dropped"},
               l.port = "open", l.lost = FALSE, Settled(l),
               ~Waits(l, "handle"), ~Waits(l, "timer"),
               Waits(l, "null") => l.closure = "dropped" /\ c.drop \in SentinelDrops
        PROVE  LET k == abandon(l) IN
               /\ k.of = c /\ k.closure \in {"none", "dropped"} /\ k.port = "closed"
               /\ \A x \in {"handle", "timer"} : ~Waits(k, x)
               /\ Waits(k, "null") => k.closure = "dropped" /\ c.drop \in SentinelDrops
               /\ Settled(k)
               /\ k.lost = FALSE
    <2>1. abandon(l) \in ListenerType
      BY <1>1, AbandonFacts
    <2>2. abandon(l).lost \in BOOLEAN /\ abandon(l).port \in {"none", "open", "closed"}
      BY <2>1 DEF ListenerType
    <2>3. QED
      BY <1>1, <2>2, AbandonLife
  <1>2. CASE l = BadCapacity(c)
    <2>1. l \in ListenerType /\ l.of = c /\ l.closure = "none" /\ l.queue = <<>>
          /\ l.port = "open" /\ l.lost = FALSE
      BY <1>2, OpenedLife DEF BadCapacity
    <2>2. QED
      BY <1>1, <2>1, NothingWaits
  <1>3. CASE l = NoMemory(c)
    <2> DEFINE h == IF IsTee(c) THEN "live" ELSE "none"
               o == Opened(c)
               k == [o EXCEPT !.handler = h]
    <2>1. h \in {"none", "live"}
      OBVIOUS
    <2>2. l = handler_drop(k)
      BY <1>3 DEF NoMemory
    <2>3. /\ o \in ListenerType
          /\ o.of = c /\ o.closure = "none" /\ o.queue = <<>>
          /\ o.port = "open" /\ o.lost = FALSE
      BY OpenedLife
    <2> HIDE DEF h, o
    <2>4. /\ k \in ListenerType
          /\ k.of = c /\ k.closure = "none" /\ k.queue = <<>>
          /\ k.port = "open" /\ k.lost = FALSE
      BY <2>1, <2>3 DEF ListenerType
    <2> HIDE DEF k
    <2>5. /\ l \in ListenerType
          /\ l.of = c /\ l.closure = "none" /\ l.queue = <<>>
          /\ l.port = "open" /\ l.lost = FALSE
      BY <2>2, <2>4, HandlerFacts, HandlerLife DEF Kept
    <2>6. QED
      BY <1>1, <2>5, NothingWaits
  <1>4. CASE l = Refused(c)
    <2> DEFINE a == Accepted(c)
               d == Drop(a)
               t == tee_drop(d)
    <2>1. /\ a \in ListenerType /\ a.of = c /\ a.queue = <<>>
          /\ a.port = "open" /\ a.lost = FALSE
      BY AcceptedLife
    <2>2. l = handler_drop(t)
      BY <1>0, <1>4 DEF Refused, abandon_built
    <2> HIDE DEF a
    <2>3. Settled(a) /\ \A x : ~Waits(a, x)
      BY <2>1, NothingWaits
    <2>4. /\ d \in ListenerType /\ d.of = c /\ d.closure = "dropped"
          /\ d.port = "open" /\ d.lost = FALSE
          /\ Settled(d) /\ ~Waits(d, "handle") /\ ~Waits(d, "timer")
          /\ Waits(d, "null") => c.drop \in SentinelDrops
      BY <2>1, <2>3, DropFacts, DropLife
    <2> HIDE DEF d
    <2>5. t \in ListenerType /\ Kept(t, d) /\ t.queue = d.queue
      BY <2>4, TeeDropFacts, ReleaseLife
    <2> HIDE DEF t
    <2>6. l \in ListenerType /\ Kept(l, t) /\ l.queue = t.queue
      BY <2>2, <2>5, HandlerFacts, HandlerLife
    <2>7. /\ \A x : Waits(l, x) <=> Waits(d, x)
          /\ Settled(l) <=> Settled(d)
      BY <2>5, <2>6, SameQueue
    <2>8. QED
      BY <1>1, <2>4, <2>5, <2>6, <2>7 DEF Kept
  <1>5. QED
    BY <1>2, <1>3, <1>4 DEF Failed

\* Nothing comes of a form without a listener of its own.
LEMMA NoneDeclared ==
  /\ Accepted(NoClosure) = NoListener
  /\ \A l \in Failed(NoClosure) : abandon(l) = NoListener
  <1>1. Accepted(NoClosure) = NoListener /\ ~IsTee(NoClosure)
    BY NoListenerFacts DEF Accepted
  <1>2. Refused(NoClosure) = NoListener
    BY DEF Refused
  <1>3. Opened(NoClosure) = NoListener
    <2> DEFINE n == NoListener
    <2>1. n \in ListenerType /\ n.of = NoClosure /\ n.port = "none"
      BY NoListenerLife
    <2>2. Opened(NoClosure) = [n EXCEPT !.of = NoClosure, !.port = "none"]
      BY DEF Opened
    <2> HIDE DEF n
    <2>3. [n EXCEPT !.of = NoClosure, !.port = "none"] = n
      BY <2>1 DEF ListenerType
    <2>4. QED
      BY <2>2, <2>3 DEF n
  <1>4. NoMemory(NoClosure) = NoListener
    <2> DEFINE n == NoListener
    <2>0. n \in ListenerType /\ n.handler = "none"
      BY NoListenerFacts
    <2> HIDE DEF n
    <2>1. [n EXCEPT !.handler = "none"] = n
      BY <2>0 DEF ListenerType
    <2>2. QED
      BY <1>1, <1>3, <2>1, NoListenerStays DEF NoMemory, n
  <1>5. QED
    BY <1>1, <1>2, <1>4, NoListenerStays DEF Failed

-----------------------------------------------------------------------------
(* What each step makes of a listener.                                     *)

\* A listener that has been declared is not awaited.
LEMMA NotAwaited ==
  ASSUME NEW en, NEW r, NEW l, Lives(en, r, l), l.of # NoClosure
  PROVE  /\ en.state # "unused" /\ r \notin en.wanted
         /\ ~(en.state = "declaring" /\ r = "detect")
         /\ l.port # "none"
  BY NoListenerLife DEF Lives, Declared

LEMMA BuiltIsListener == \A c \in Built : c # NoClosure
  BY DEF Built, NoClosure, Closure, Callbacks

\* A step of zenoh, or a message taken.
LEMMA DropLives ==
  ASSUME NEW en, en.form \in Forms, NEW r \in Roles, NEW l \in ListenerType,
         Lives(en, r, l), Given(l), l.of \in Built
  PROVE  Lives(en, r, Drop(l))
  <1> DEFINE k == Drop(l)
  <1>1. l.of # NoClosure
    BY BuiltIsListener
  <1>2. /\ k.of = l.of /\ k.closure = "dropped" /\ k.port = l.port
        /\ k.done = l.done /\ k.lost = l.lost
        /\ Waits(l, "timer") => Waits(k, "timer")
        /\ Waits(k, "handle") => Waits(l, "handle")
        /\ Waits(k, "null") => Waits(l, "null") \/ l.of.drop \in SentinelDrops
        /\ Settled(l) => Settled(k)
    BY DropLife
  <1> HIDE DEF k
  <1>3. Fits(en.form, r, l.of)
    BY DEF Lives, Declared
  <1>4. l.of.drop \in SentinelDrops => l.of.owner # "entity"
    BY <1>1, <1>3, FitsFacts
  <1>5. Declared(en, r, k)
    BY <1>1, <1>2, <1>3, NotAwaited DEF Declared
  <1>6. Ending(en, r, k)
    BY <1>2 DEF Ending
  <1>7. Draining(en, r, k)
    BY <1>2, <1>4 DEF Lives, Draining
  <1>8. History(en, r, k)
    BY <1>2 DEF Lives, History, Given
  <1>9. QED
    BY <1>5, <1>6, <1>7, <1>8 DEF Lives, k

LEMMA CallbackLives ==
  ASSUME NEW en, en.form \in Forms, NEW r \in Roles, NEW l \in ListenerType,
         Lives(en, r, l), Given(l), l.of \in Built,
         NEW k, Kept(k, Callback(l)), k.queue = Callback(l).queue
  PROVE  Lives(en, r, k)
  <1>1. l.of # NoClosure
    BY BuiltIsListener
  <1>2. /\ Kept(k, l)
        /\ Waits(l, "timer") => Waits(k, "timer")
        /\ Waits(k, "null") => Waits(l, "null")
        /\ Waits(k, "timer") => Waits(l, "timer")
        /\ Waits(k, "handle") => Waits(l, "handle") \/ l.of.callback \in HandleCallbacks
        /\ Settled(l) /\ ~Waits(l, "null") /\ ~Waits(l, "timer") => Settled(k)
    BY CallbackLife, SameQueue DEF Kept
  <1>3. Fits(en.form, r, l.of)
    BY DEF Lives, Declared
  <1>4. r = "side" \/ IsTee(l.of) => l.of.callback \notin HandleCallbacks
    BY <1>1, <1>3, FitsFacts
  <1>5. r = "main" => ~Waits(l, "null") /\ ~Waits(l, "timer")
    BY DEF Lives, Draining, Given
  <1>6. Declared(en, r, k)
    BY <1>1, <1>2, <1>3, NotAwaited DEF Declared, Kept
  <1>7. Ending(en, r, k)
    BY <1>2 DEF Lives, Ending, Kept
  <1>8. Draining(en, r, k)
    BY <1>2, <1>4, <1>5 DEF Lives, Draining, Kept
  <1>9. History(en, r, k)
    BY <1>2 DEF Lives, History, Kept
  <1>10. QED
    BY <1>6, <1>7, <1>8, <1>9 DEF Lives

LEMMA TakenLives ==
  ASSUME NEW en, en.form \in Forms, NEW r \in Roles, NEW l \in ListenerType,
         Lives(en, r, l), l.queue # <<>>
  PROVE  Lives(en, r, Taken(l))
  <1> DEFINE k == Taken(l)
  <1>1. l.of # NoClosure
    BY NoListenerLife DEF Lives, Declared
  <1>2. /\ k.of = l.of /\ k.closure = l.closure
        /\ \A x \in Messages : Waits(k, x) => Waits(l, x)
        /\ Settled(l) => Settled(k)
        /\ k.port = "none" => l.port = "none"
        /\ k.port = "open" =>
             l.port = "open" /\ (Waits(l, "timer") => Waits(k, "timer"))
        /\ k.done => l.done \/ Waits(l, "null")
        /\ k.lost => \/ l.lost
                     \/ /\ Waits(l, "handle") /\ ~Settled(l)
                        /\ Waits(l, "null") \/ Waits(l, "timer")
    BY TakenLife
  <1> HIDE DEF k
  <1>3. Fits(en.form, r, l.of)
    BY DEF Lives, Declared
  <1>4. r = "detect" => en.form = "AdvancedSubscriber"
    BY <1>1, <1>3, FitsFacts
  <1>5. Declared(en, r, k)
    BY <1>1, <1>2, <1>3, NotAwaited DEF Declared
  <1>6. Ending(en, r, k)
    BY <1>2 DEF Lives, Ending
  <1>7. Draining(en, r, k)
    BY <1>2 DEF Lives, Draining, Messages
  <1>8. History(en, r, k)
    <2>1. Waits(l, "null") => l.closure = "dropped" /\ l.of.owner # "entity"
      BY DEF Lives, Draining
    <2>2. k.lost /\ ~l.lost => r = "detect"
      BY <1>2 DEF Lives, Draining, Roles
    <2>3. QED
      BY <1>2, <1>4, <2>1, <2>2 DEF Lives, History
  <1>9. QED
    BY <1>5, <1>6, <1>7, <1>8 DEF Lives, k

\* The undeclaration gives up the closures that are the entity's.
LEMMA UndeclaredEnds ==
  ASSUME NEW en, en.form \in Forms, NEW r \in Roles, NEW l \in ListenerType,
         Lives(en, r, l), l.of \in Built,
         r = "main" => ~(Owned(l) /\ l.running)
  PROVE  LET k == Undeclared(l) IN
         /\ k.of = l.of /\ k.port = l.port /\ k.done = l.done /\ k.lost = l.lost
         /\ k.closure = "none" => k.port # "open"
         /\ k.closure = "undeclared" => r = "side"
         /\ k.closure = "given" => l.closure = "given" /\ l.of.owner # "entity"
         /\ Waits(k, "handle") => Waits(l, "handle")
         /\ Waits(k, "timer") => Waits(l, "timer")
         /\ Waits(k, "null") => k.closure = "dropped" /\ k.of.owner # "entity"
         /\ Settled(l) => Settled(k)
         /\ r = "main" /\ (l.closure = "dropped" \/ Owned(l)) => k.closure = "dropped"
  <1> DEFINE k == Undeclared(l)
  <1>1. l.of # NoClosure /\ Fits(en.form, r, l.of)
    BY BuiltIsListener DEF Lives, Declared
  <1>2. /\ k.of = l.of /\ k.port = l.port /\ k.done = l.done /\ k.lost = l.lost
        /\ Owned(l) => k.closure = (IF l.running THEN "undeclared" ELSE "dropped")
        /\ ~Owned(l) => k = l
        /\ Waits(k, "handle") => Waits(l, "handle")
        /\ Waits(k, "timer") => Waits(l, "timer")
        /\ Waits(k, "null") => Waits(l, "null") \/ l.of.drop \in SentinelDrops
        /\ Settled(l) => Settled(k)
    BY UndeclaredLife
  <1> HIDE DEF k
  <1>3. /\ l.of.drop \in SentinelDrops => l.of.owner # "entity"
        /\ r = "detect" => l.of.owner # "entity"
    BY <1>1, FitsFacts
  <1>4. /\ l.closure = "none" => l.port # "open"
        /\ l.closure = "undeclared" => r = "side"
        /\ Waits(l, "null") => l.closure = "dropped" /\ l.of.owner # "entity"
    BY DEF Lives, Ending, Draining
  <1>5. CASE Owned(l)
    <2>1. l.closure = "given" /\ l.of.owner = "entity"
      BY <1>5 DEF Owned
    <2>2. ~Waits(k, "null") /\ r # "detect"
      BY <1>2, <1>3, <1>4, <2>1
    <2>3. k.closure \in {"undeclared", "dropped"}
          /\ (k.closure = "undeclared" => r = "side")
      BY <1>2, <1>5, <2>2 DEF Roles
    <2>4. QED
      BY <1>2, <2>2, <2>3, <1>5 DEF k
  <1>6. CASE ~Owned(l)
    BY <1>2, <1>4, <1>6 DEF Owned, k
  <1>7. QED
    BY <1>5, <1>6

\* A declaration torn down: its ports were closed when the part was refused.
LEMMA TornLives ==
  ASSUME NEW en, en.form \in Forms, en.state = "tearing", Options(en.form) # {},
         NEW r \in Roles, NEW l \in ListenerType, Lives(en, r, l),
         Owned(l) => l.of \in Built, l.of # NoClosure => l.of \in Built,
         r = "main" => ~(Owned(l) /\ l.running),
         NEW en2, en2.form = en.form, en2.wanted = en.wanted, en2.state = "refused"
  PROVE  Lives(en2, r, Undeclared(l))
  <1>1. CASE l.of = NoClosure
    BY <1>1, NoListenerStays, NoListenerLives DEF Lives, Declared
  <1>2. CASE l.of # NoClosure
    <2> DEFINE k == Undeclared(l)
    <2>1. l.of \in Built /\ Fits(en.form, r, l.of)
      BY <1>2 DEF Lives, Declared
    <2>2. /\ k.of = l.of /\ k.port = l.port /\ k.done = l.done /\ k.lost = l.lost
          /\ k.closure = "none" => k.port # "open"
          /\ k.closure = "undeclared" => r = "side"
          /\ k.closure = "given" => l.closure = "given" /\ l.of.owner # "entity"
          /\ Waits(k, "handle") => Waits(l, "handle")
          /\ Waits(k, "timer") => Waits(l, "timer")
          /\ Waits(k, "null") => k.closure = "dropped" /\ k.of.owner # "entity"
          /\ Settled(l) => Settled(k)
          /\ r = "main" /\ (l.closure = "dropped" \/ Owned(l)) => k.closure = "dropped"
      BY <2>1, UndeclaredEnds
    <2> HIDE DEF k
    <2>3. /\ r = "main" => l.of.owner = "entity"
          /\ r = "side" => l.of.owner = "entity"
      BY <1>2, <2>1, FitsFacts
    <2>4. k.closure # "given"
      BY <2>2, <2>3 DEF Lives, Ending, Roles
    <2>5. Declared(en2, r, k)
      BY <1>2, <2>1, <2>2, NotAwaited DEF Declared
    <2>6. Ending(en2, r, k)
      BY <2>2, <2>4 DEF Ending
    <2>7. Draining(en2, r, k)
      BY <2>2 DEF Lives, Draining
    <2>8. History(en2, r, k)
      BY <2>2 DEF Lives, History, Ended
    <2>9. QED
      BY <2>5, <2>6, <2>7, <2>8 DEF Lives, k
  <1>3. QED
    BY <1>1, <1>2

\* The end of a listener by close().
LEMMA ClosedLives ==
  ASSUME NEW en, en.form \in Forms, en.state = "closing", HasSlot(en.form),
         NEW r \in Roles, NEW l \in ListenerType, Lives(en, r, l),
         l.of # NoClosure => l.of \in Built,
         r = "main" => ~(Owned(l) /\ l.running),
         Undeclared(l) \in ListenerType,
         tee_drop(Undeclared(l)) \in ListenerType,
         NEW en2, en2.form = en.form, en2.wanted = en.wanted, en2.state = "closed"
  PROVE  Lives(en2, r, EndOf(r, l))
  <1>1. CASE l.of = NoClosure
    BY <1>1, NoListenerStays, NoListenerLives DEF Lives, Declared
  <1>2. CASE l.of # NoClosure
    <2> DEFINE u == Undeclared(l)
               t == tee_drop(u)
               k == EndOf(r, l)
    <2>1. l.of \in Built /\ Fits(en.form, r, l.of) /\ l.port # "none"
      BY <1>2, NotAwaited DEF Lives, Declared
    <2>2. /\ u.of = l.of /\ u.port = l.port /\ u.done = l.done /\ u.lost = l.lost
          /\ u.closure = "none" => u.port # "open"
          /\ u.closure = "undeclared" => r = "side"
          /\ u.closure = "given" => l.closure = "given" /\ l.of.owner # "entity"
          /\ Waits(u, "handle") => Waits(l, "handle")
          /\ Waits(u, "timer") => Waits(l, "timer")
          /\ Waits(u, "null") => u.closure = "dropped" /\ u.of.owner # "entity"
          /\ Settled(l) => Settled(u)
          /\ r = "main" /\ (l.closure = "dropped" \/ Owned(l)) => u.closure = "dropped"
      BY <2>1, UndeclaredEnds
    <2>3. k = IF r = "side" \/ IsTee(l.of) THEN abandon(t) ELSE closeAndDrain(u)
      BY DEF EndOf
    <2>4. Kept(t, u) /\ t.queue = u.queue
      BY ReleaseLife
    <2> HIDE DEF u
    <2>5. /\ \A x : Waits(t, x) <=> Waits(u, x)
          /\ Settled(t) <=> Settled(u)
      BY <2>4, SameQueue
    <2> HIDE DEF t, k
    <2>6. /\ r = "main" /\ ~IsTee(l.of) => l.of.owner = "entity"
          /\ IsTee(l.of) => r = "main"
      BY <1>2, <2>1, FitsFacts
    <2>7. /\ r = "side" \/ IsTee(l.of) => ~Waits(l, "handle")
          /\ r = "main" => Settled(l) /\ (Waits(l, "timer") => l.closure = "dropped")
          /\ l.closure = "none" => l.port # "open"
          /\ l.closure = "undeclared" => r = "side"
          /\ l.lost => en.form = "AdvancedSubscriber" /\ r = "detect"
      BY DEF Lives, Ending, Draining, History
    <2>8. CASE r = "side" \/ IsTee(l.of)
      <3>1. /\ k.of = t.of /\ k.closure = t.closure
            /\ k.port # "open" /\ (k.port = "none" => k = t)
            /\ \A x \in Messages : Waits(k, x) => Waits(t, x)
            /\ Settled(t) => Settled(k)
            /\ k.lost => t.lost \/ Waits(t, "handle")
        BY <2>3, <2>8, AbandonLife DEF t, u
      <3>2. /\ k.of = l.of /\ k.closure = u.closure
            /\ k.port # "open" /\ k.port # "none"
            /\ ~Waits(k, "handle")
            /\ Waits(k, "null") => Waits(u, "null")
            /\ Waits(k, "timer") => Waits(l, "timer")
            /\ Settled(l) => Settled(k)
            /\ k.lost => l.lost
        BY <2>1, <2>2, <2>4, <2>5, <2>7, <2>8, <3>1 DEF Kept, Messages
      <3>3. Declared(en2, r, k)
        BY <1>2, <2>1, <3>2, NotAwaited DEF Declared
      <3>4. Ending(en2, r, k)
        BY <2>2, <3>2 DEF Ending
      <3>5. Draining(en2, r, k)
        BY <2>2, <2>7, <3>2 DEF Draining
      <3>6. History(en2, r, k)
        BY <2>7, <3>2 DEF History, Ended
      <3>7. QED
        BY <3>3, <3>4, <3>5, <3>6 DEF Lives, k
    <2>9. CASE ~(r = "side" \/ IsTee(l.of))
      <3>1. /\ k.of = u.of /\ k.closure = u.closure /\ k.port = u.port
            /\ k.lost = u.lost
            /\ \A x \in Messages : Waits(k, x) => Waits(u, x) \/ x = "timer"
            /\ u.port = "open" => Waits(k, "timer")
            /\ u.port # "open" => k = u
            /\ Settled(u) => Settled(k)
        BY <2>3, <2>9, DrainLife DEF u
      <3>2. r = "main" /\ Waits(k, "timer") => u.closure = "dropped"
        <4>1. CASE l.port = "open"
          <5>1. r = "main" => l.closure \in {"given", "dropped"}
            BY <2>7, <4>1 DEF ListenerType
          <5>2. r = "main" /\ l.closure = "given" => Owned(l)
            BY <2>6, <2>9 DEF Owned
          <5>3. QED
            BY <2>2, <5>1, <5>2
        <4>2. CASE l.port # "open"
          BY <2>2, <2>7, <3>1, <4>2
        <4>3. QED
          BY <4>1, <4>2
      <3>3. Declared(en2, r, k)
        BY <1>2, <2>1, <2>2, <3>1, NotAwaited DEF Declared
      <3>4. Ending(en2, r, k)
        BY <2>2, <3>1 DEF Ending
      <3>5. Draining(en2, r, k)
        BY <2>2, <2>7, <2>9, <3>1, <3>2 DEF Draining, Messages
      <3>6. History(en2, r, k)
        BY <2>2, <2>7, <3>1 DEF History, Ended
      <3>7. QED
        BY <3>3, <3>4, <3>5, <3>6 DEF Lives, k
    <2>10. QED
      BY <2>8, <2>9
  <1>3. QED
    BY <1>1, <1>2

\* A later part is refused: the ports opened before it are closed.
LEMMA AbandonedLives ==
  ASSUME NEW en, en.form \in Forms, en.state = "declaring", Options(en.form) # {},
         NEW r \in Roles, NEW l \in ListenerType, Lives(en, r, l),
         NEW en2, en2.form = en.form, en2.wanted = {}, en2.state = "tearing"
  PROVE  Lives(en2, r, abandon(l))
  <1>1. CASE l.of = NoClosure
    BY <1>1, NoListenerStays, NoListenerLives DEF Lives, Declared
  <1>2. CASE l.of # NoClosure
    <2> DEFINE k == abandon(l)
    <2>1. Fits(en.form, r, l.of) /\ l.port # "none" /\ r # "detect"
      BY <1>2, NotAwaited DEF Lives, Declared
    <2>2. /\ k.of = l.of /\ k.closure = l.closure
          /\ k.port # "open" /\ (k.port = "none" => k = l)
          /\ \A x \in Messages : Waits(k, x) => Waits(l, x)
          /\ Settled(l) => Settled(k)
          /\ k.lost => l.lost \/ Waits(l, "handle")
      BY AbandonLife
    <2> HIDE DEF k
    <2>3. r = "main" => en.form = "AdvancedSubscriber"
      BY <1>2, <2>1, FitsFacts
    <2>4. k.lost => en.form = "AdvancedSubscriber"
      BY <2>1, <2>2, <2>3 DEF Lives, Draining, History, Roles
    <2>5. Declared(en2, r, k)
      BY <1>2, <2>1, <2>2 DEF Declared
    <2>6. Ending(en2, r, k)
      BY <2>1, <2>2 DEF Lives, Ending
    <2>7. Draining(en2, r, k)
      BY <2>2 DEF Lives, Draining, Messages, Ended
    <2>8. History(en2, r, k)
      BY <2>4 DEF History
    <2>9. QED
      BY <2>5, <2>6, <2>7, <2>8 DEF Lives, k
  <1>3. QED
    BY <1>1, <1>2

\* The part of a declaration that fails.
LEMMA FailedLives ==
  ASSUME NEW en, en.form \in Forms, en.state \in {"tearing", "refused"},
         en.wanted = {},
         NEW r \in Roles, NEW c, Fits(en.form, r, c), NEW l \in Failed(c)
  PROVE  Lives(en, r, abandon(l)) /\ abandon(l).closure # "given"
  <1>1. CASE c = NoClosure
    BY <1>1, NoneDeclared, NoListenerLives, NoListenerLife
  <1>2. CASE c # NoClosure
    <2> DEFINE k == abandon(l)
    <2>1. c \in Built /\ (c.drop \in SentinelDrops => c.owner # "entity")
      BY <1>2, FitsFacts
    <2>2. /\ k.of = c /\ k.closure \in {"none", "dropped"} /\ k.port = "closed"
          /\ \A x \in {"handle", "timer"} : ~Waits(k, x)
          /\ Waits(k, "null") => k.closure = "dropped" /\ c.drop \in SentinelDrops
          /\ Settled(k)
          /\ k.lost = FALSE
      BY <2>1, FailedLife
    <2> HIDE DEF k
    <2>3. Declared(en, r, k)
      BY <1>2, <2>2 DEF Declared
    <2>4. Ending(en, r, k)
      BY <2>2 DEF Ending
    <2>5. Draining(en, r, k)
      BY <2>1, <2>2 DEF Draining
    <2>6. History(en, r, k)
      BY <2>2 DEF History, Ended
    <2>7. QED
      BY <2>2, <2>3, <2>4, <2>5, <2>6 DEF Lives, k
  <1>3. QED
    BY <1>1, <1>2

LEMMA AcceptedLives ==
  ASSUME NEW en, en.form \in Forms, en.state \in {"declaring", "open"},
         NEW r \in Roles, r \notin en.wanted,
         ~(en.state = "declaring" /\ r = "detect"),
         NEW c, Fits(en.form, r, c)
  PROVE  Lives(en, r, Accepted(c))
  <1>1. CASE c = NoClosure
    BY <1>1, NoneDeclared, NoListenerLives
  <1>2. CASE c # NoClosure
    <2> DEFINE k == Accepted(c)
    <2>1. c \in Built
      BY <1>2, FitsFacts
    <2>2. /\ k.of = c /\ k.closure = "given" /\ k.port = "open"
          /\ k.queue = <<>> /\ k.done = FALSE /\ k.lost = FALSE
      BY <2>1, AcceptedLife
    <2> HIDE DEF k
    <2>3. Settled(k) /\ \A x \in Messages : ~Waits(k, x)
      BY <2>2, NothingWaits
    <2>4. Declared(en, r, k)
      BY <1>2, <2>2 DEF Declared
    <2>5. Ending(en, r, k)
      BY <2>2 DEF Ending
    <2>6. Draining(en, r, k)
      BY <2>3 DEF Draining, Messages, Ended
    <2>7. History(en, r, k)
      BY <2>2 DEF History
    <2>8. QED
      BY <2>4, <2>5, <2>6, <2>7 DEF Lives, k
  <1>3. QED
    BY <1>1, <1>2

\* The entity goes on, and the listener is what it was.
LEMMA GoesOn ==
  ASSUME NEW en, NEW r, NEW l, Lives(en, r, l),
         NEW en2, en2.form = en.form, en2.wanted \subseteq en.wanted,
         \/ en.state = "declaring" /\ en2.state \in {"declaring", "open"}
         \/ en.state = "open" /\ en2.state = "closing",
         NEW k, Kept(k, l), k.queue = l.queue, l = NoListener => k = l
  PROVE  Lives(en2, r, k)
  <1>1. CASE l = NoListener
    BY <1>1, NoListenerLives
  <1>2. CASE l # NoListener
    <2>1. /\ \A x \in Messages : Waits(k, x) <=> Waits(l, x)
          /\ Settled(k) <=> Settled(l)
      BY SameQueue
    <2>2. l.of # NoClosure
      BY <1>2 DEF Lives, Declared
    <2>3. Declared(en2, r, k)
      BY <2>2, NotAwaited DEF Lives, Declared, Kept
    <2>4. Ending(en2, r, k)
      BY DEF Lives, Ending, Kept
    <2>5. Draining(en2, r, k)
      BY <2>1 DEF Lives, Draining, Kept, Messages, Ended
    <2>6. History(en2, r, k)
      BY DEF Lives, History, Kept, Ended
    <2>7. QED
      BY <2>3, <2>4, <2>5, <2>6 DEF Lives
  <1>3. QED
    BY <1>1, <1>2

-----------------------------------------------------------------------------
(* Every step keeps what is said of an entity's end.                       *)

LEMMA OneEntityLives ==
  ASSUME TypeInv, LifeInv, SessionInv, NEW e \in Entities, NEW en,
         NEW ls \in [Roles -> ListenerType], session' = session,
         ent' = [ent EXCEPT ![e] = en], lis' = [lis EXCEPT ![e] = ls],
         Stage(en), \A r \in Roles : Lives(en, r, ls[r]),
         session # "open" => en.state \notin {"declaring", "tearing"},
         session = "closed" =>
           \A r \in Roles : ls[r].closure = "given" => ls[r].of.owner = "entity"
  PROVE  (LifeInv /\ SessionInv)'
  <1>1. /\ ent'[e] = en /\ lis'[e] = ls
        /\ \A f \in Entities \ {e} : ent'[f] = ent[f] /\ lis'[f] = lis[f]
    BY DEF TypeInv
  <1>2. LifeInv'
    <2>1. ASSUME NEW f \in Entities
          PROVE  /\ Stage(ent'[f])
                 /\ \A r \in Roles : Lives(ent'[f], r, lis'[f][r])
      BY <1>1, <2>1 DEF LifeInv
    <2>2. QED
      BY <2>1 DEF LifeInv
  <1>3. SessionInv'
    <2>1. ASSUME session # "open", NEW f \in Entities
          PROVE  ent'[f].state \notin {"declaring", "tearing"}
      BY <1>1, <2>1 DEF SessionInv
    <2>2. ASSUME session = "closed", NEW f \in Entities, NEW r \in Roles,
                 lis'[f][r].closure = "given"
          PROVE  lis'[f][r].of.owner = "entity"
      BY <1>1, <2>2 DEF SessionInv
    <2>3. QED
      BY <2>1, <2>2 DEF SessionInv
  <1>4. QED
    BY <1>2, <1>3

LEMMA OneListenerLives ==
  ASSUME TypeInv, LifeInv, SessionInv, NEW e \in Entities, NEW r \in Roles,
         NEW k \in ListenerType,
         session' = session, ent' = ent, lis' = [lis EXCEPT ![e][r] = k],
         Lives(ent[e], r, k),
         session = "closed" /\ k.closure = "given" => k.of.owner = "entity"
  PROVE  (LifeInv /\ SessionInv)'
  <1> DEFINE ls == [lis[e] EXCEPT ![r] = k]
  <1>1. /\ ls \in [Roles -> ListenerType]
        /\ ent' = [ent EXCEPT ![e] = ent[e]] /\ lis' = [lis EXCEPT ![e] = ls]
    BY DEF TypeInv
  <1>2. ls[r] = k /\ \A q \in Roles \ {r} : ls[q] = lis[e][q]
    BY DEF TypeInv
  <1> HIDE DEF ls
  <1>3. Stage(ent[e]) /\ \A q \in Roles : Lives(ent[e], q, ls[q])
    BY <1>2 DEF LifeInv
  <1>4. session # "open" => ent[e].state \notin {"declaring", "tearing"}
    BY DEF SessionInv
  <1>5. session = "closed" =>
          \A q \in Roles : ls[q].closure = "given" => ls[q].of.owner = "entity"
    BY <1>2 DEF SessionInv
  <1>6. QED
    BY <1>1, <1>3, <1>4, <1>5, OneEntityLives

\* What is known of an entity's listener.
LEMMA ListenerLives ==
  ASSUME IInv, LifeInv, NEW e \in Entities, NEW r \in Roles
  PROVE  /\ lis[e][r] \in ListenerType
         /\ Lives(ent[e], r, lis[e][r])
         /\ lis[e][r].of # NoClosure => lis[e][r].of \in Built
         /\ Given(lis[e][r]) => lis[e][r].of \in Built
         /\ Owned(lis[e][r]) => Given(lis[e][r])
         /\ lis[e][r] # NoListener => ent[e].form \in Forms
  <1>1. lis[e][r] \in ListenerType /\ Sound(lis[e][r], ent[e].state)
        /\ Lives(ent[e], r, lis[e][r]) /\ Stage(ent[e])
    BY DEF IInv, TypeInv, EntityInv, LifeInv
  <1>2. lis[e][r].of \in Built \cup {NoClosure}
    BY <1>1 DEF ListenerType, ClosureType
  <1>3. QED
    BY <1>1, <1>2 DEF Sound, Given, Owned, Lives, Declared, Stage

LEMMA DeclareLives ==
  ASSUME IInv, LifeInv, SessionInv, NEW e \in Entities, Declare(e)
  PROVE  (LifeInv /\ SessionInv)'
  <1>1. PICK form \in FormsOf[e] : \E c \in Main(form), wanted \in SUBSET Options(form) :
          LET slot == IF HasSlot(form) THEN "allocated" ELSE "none" IN
          \/ /\ ent' = [ent EXCEPT ![e] =
                          [form |-> form, slot |-> slot, wanted |-> wanted,
                           state |-> IF wanted = {} THEN "open" ELSE "declaring"]]
             /\ lis' = [lis EXCEPT ![e]["main"] = Accepted(c)]
          \/ \E l \in Failed(c) :
               /\ ent' = [ent EXCEPT ![e] =
                            [form |-> form, slot |-> FreeSlot(slot), wanted |-> {},
                             state |-> "refused"]]
               /\ lis' = [lis EXCEPT ![e]["main"] = abandon(l)]
    BY DEF Declare
  <1> DEFINE slot == IF HasSlot(form) THEN "allocated" ELSE "none"
  <1>2. PICK c \in Main(form), wanted \in SUBSET Options(form) :
          \/ /\ ent' = [ent EXCEPT ![e] =
                          [form |-> form, slot |-> slot, wanted |-> wanted,
                           state |-> IF wanted = {} THEN "open" ELSE "declaring"]]
             /\ lis' = [lis EXCEPT ![e]["main"] = Accepted(c)]
          \/ \E l \in Failed(c) :
               /\ ent' = [ent EXCEPT ![e] =
                            [form |-> form, slot |-> FreeSlot(slot), wanted |-> {},
                             state |-> "refused"]]
               /\ lis' = [lis EXCEPT ![e]["main"] = abandon(l)]
    BY <1>1
  <1>3. /\ form \in Forms /\ c \in ClosureType /\ Fits(form, "main", c)
        /\ "main" \notin Options(form) /\ "main" \in Roles
        /\ FreeSlot(slot) # "allocated"
    BY EntitiesAssumption, MainFacts DEF Fits, Options, FreeSlot, Roles
  <1>4. /\ session = "open" /\ session' = session
        /\ \A r \in Roles : lis[e][r] = NoListener
    BY DEF Declare, LifeInv, Lives, Declared
  <1> HIDE DEF slot
  \* Whatever is declared, and however it turns out.
  <1>5. ASSUME NEW k \in ListenerType, NEW en, Stage(en), Lives(en, "main", k),
               ent' = [ent EXCEPT ![e] = en],
               lis' = [lis EXCEPT ![e]["main"] = k]
        PROVE  (LifeInv /\ SessionInv)'
    <2> DEFINE ls == [lis[e] EXCEPT !["main"] = k]
    <2>1. /\ ls \in [Roles -> ListenerType] /\ lis' = [lis EXCEPT ![e] = ls]
          /\ ls["main"] = k /\ \A r \in Roles \ {"main"} : ls[r] = lis[e][r]
      BY <1>3, <1>5 DEF IInv, TypeInv
    <2> HIDE DEF ls
    <2>2. \A r \in Roles : Lives(en, r, ls[r])
      BY <1>4, <1>5, <2>1, NoListenerLives
    <2>3. QED
      BY <1>4, <1>5, <2>1, <2>2, OneEntityLives DEF IInv
  <1>6. CASE /\ ent' = [ent EXCEPT ![e] =
                          [form |-> form, slot |-> slot, wanted |-> wanted,
                           state |-> IF wanted = {} THEN "open" ELSE "declaring"]]
             /\ lis' = [lis EXCEPT ![e]["main"] = Accepted(c)]
    <2> DEFINE state == IF wanted = {} THEN "open" ELSE "declaring"
               en == [form |-> form, slot |-> slot, wanted |-> wanted,
                      state |-> state]
    <2>1. state \in {"open", "declaring"} /\ (state = "declaring" => wanted # {})
      OBVIOUS
    <2> HIDE DEF state
    <2>2. en.form = form /\ en.wanted = wanted /\ en.state = state
      OBVIOUS
    <2>3. ent' = [ent EXCEPT ![e] = en]
      BY <1>6 DEF state
    <2> HIDE DEF en
    <2>4. Stage(en)
      BY <1>3, <2>1, <2>2 DEF Stage, Ended
    <2>5. Accepted(c) \in ListenerType /\ Lives(en, "main", Accepted(c))
      BY <1>3, <2>1, <2>2, AcceptedFacts, AcceptedLives
    <2>6. QED
      BY <1>5, <1>6, <2>3, <2>4, <2>5
  <1>7. ASSUME NEW l \in Failed(c),
               ent' = [ent EXCEPT ![e] =
                         [form |-> form, slot |-> FreeSlot(slot), wanted |-> {},
                          state |-> "refused"]],
               lis' = [lis EXCEPT ![e]["main"] = abandon(l)]
        PROVE  (LifeInv /\ SessionInv)'
    <2> DEFINE en == [form |-> form, slot |-> FreeSlot(slot), wanted |-> {},
                      state |-> "refused"]
    <2>1. /\ en.form = form /\ en.wanted = {} /\ en.state = "refused"
          /\ en.slot = FreeSlot(slot) /\ ent' = [ent EXCEPT ![e] = en]
      BY <1>7
    <2> HIDE DEF en
    <2>2. Stage(en)
      BY <1>3, <2>1 DEF Stage, Ended
    <2>3. abandon(l) \in ListenerType
      BY <1>3, <1>7, FailedSound
    <2>4. Lives(en, "main", abandon(l))
      BY <1>3, <1>7, <2>1, FailedLives
    <2>5. QED
      BY <1>5, <1>7, <2>1, <2>2, <2>3, <2>4
  <1>8. QED
    BY <1>2, <1>6, <1>7

LEMMA DeclareFurtherLives ==
  ASSUME IInv, LifeInv, SessionInv, NEW e \in Entities, DeclareFurther(e)
  PROVE  (LifeInv /\ SessionInv)'
  <1> DEFINE role == NextWanted(e)
             c == Further(ent[e].form, role)
  <1>1. /\ ent[e].state = "declaring" /\ session' = session /\ session = "open"
        /\ ent[e] \in EntityType /\ ent \in [Entities -> EntityType]
        /\ lis[e] \in [Roles -> ListenerType]
        /\ lis \in [Entities -> [Roles -> ListenerType]]
    BY DEF DeclareFurther, SessionInv, IInv, TypeInv
  <1>2. /\ ent[e].wanted \subseteq Options(ent[e].form) /\ ent[e].wanted # {}
    BY <1>1 DEF IInv, EntityInv, Shape
  <1>3. /\ ent[e].form \in Forms /\ Options(ent[e].form) # {}
        /\ \A r \in Roles : Lives(ent[e], r, lis[e][r])
    BY <1>1 DEF LifeInv, Stage
  <1>4. /\ role \in ent[e].wanted /\ role \in Roles /\ role # "main"
        /\ role = "detect" => ent[e].wanted = {role}
    BY <1>2 DEF NextWanted, Options, Roles
  <1>5. /\ c \in ClosureType /\ ~IsTee(c) /\ Fits(ent[e].form, role, c)
    BY <1>2, <1>4, FurtherFacts DEF ClosureType, Fits
  <1>6. \/ /\ lis' = [lis EXCEPT ![e][role] = Accepted(c)]
           /\ ent' = [ent EXCEPT ![e].wanted = @ \ {role},
                                 ![e].state = IF ent[e].wanted = {role} THEN "open"
                                                                 ELSE "declaring"]
        \/ \E l \in Failed(c) :
             /\ lis' = [lis EXCEPT ![e] =
                          [r \in Roles |-> abandon(IF r = role THEN l ELSE @[r])]]
             /\ ent' = [ent EXCEPT ![e].wanted = {}, ![e].state = "tearing"]
    BY DEF DeclareFurther
  <1> HIDE DEF role, c
  <1>7. CASE /\ lis' = [lis EXCEPT ![e][role] = Accepted(c)]
             /\ ent' = [ent EXCEPT ![e].wanted = @ \ {role},
                                   ![e].state = IF ent[e].wanted = {role} THEN "open"
                                                                   ELSE "declaring"]
    <2> DEFINE ls == [lis[e] EXCEPT ![role] = Accepted(c)]
               wanted == ent[e].wanted \ {role}
               state == IF ent[e].wanted = {role} THEN "open" ELSE "declaring"
               en == [ent[e] EXCEPT !.wanted = wanted, !.state = state]
    <2>1. /\ ls \in [Roles -> ListenerType] /\ lis' = [lis EXCEPT ![e] = ls]
          /\ ls[role] = Accepted(c)
          /\ \A r \in Roles \ {role} : ls[r] = lis[e][r]
      BY <1>1, <1>4, <1>5, <1>7, AcceptedFacts
    <2>2. /\ wanted \subseteq ent[e].wanted /\ role \notin wanted
          /\ state \in {"open", "declaring"}
          /\ role = "detect" => state = "open"
      BY <1>4
    <2>3. ent' = [ent EXCEPT ![e] = en]
      BY <1>1, <1>7
    <2> HIDE DEF wanted, state
    <2>4. en.form = ent[e].form /\ en.wanted = wanted /\ en.state = state
      BY <1>1 DEF EntityType
    <2> HIDE DEF ls, en
    <2>5. Stage(en)
      BY <1>3, <2>2, <2>4 DEF Stage, Ended
    <2>6. Lives(en, role, ls[role])
      BY <1>3, <1>4, <1>5, <2>1, <2>2, <2>4, AcceptedLives
    <2>7. ASSUME NEW r \in Roles \ {role}
          PROVE  Lives(en, r, ls[r])
      <3>1. /\ Lives(ent[e], r, lis[e][r]) /\ ls[r] = lis[e][r]
            /\ Kept(ls[r], lis[e][r])
        BY <1>3, <2>1 DEF Kept
      <3>2. QED
        BY <1>1, <2>2, <2>4, <3>1, GoesOn
    <2>8. QED
      BY <1>1, <2>1, <2>3, <2>5, <2>6, <2>7, OneEntityLives DEF IInv
  <1>8. ASSUME NEW l \in Failed(c),
               lis' = [lis EXCEPT ![e] =
                         [r \in Roles |-> abandon(IF r = role THEN l ELSE @[r])]],
               ent' = [ent EXCEPT ![e].wanted = {}, ![e].state = "tearing"]
        PROVE  (LifeInv /\ SessionInv)'
    <2> DEFINE ls == [r \in Roles |-> abandon(IF r = role THEN l ELSE lis[e][r])]
               en == [ent[e] EXCEPT !.wanted = {}, !.state = "tearing"]
    <2>1. lis' = [lis EXCEPT ![e] = ls] /\ ent' = [ent EXCEPT ![e] = en]
      BY <1>1, <1>8
    <2>2. /\ en.form = ent[e].form /\ en.wanted = {} /\ en.state = "tearing"
      BY <1>1 DEF EntityType
    <2> HIDE DEF en
    <2>3. abandon(l) \in ListenerType
      BY <1>5, <1>8, FailedSound
    <2>4. Lives(en, role, abandon(l))
      BY <1>3, <1>4, <1>5, <1>8, <2>2, FailedLives
    <2>5. ASSUME NEW r \in Roles
          PROVE  ls[r] \in ListenerType /\ Lives(en, r, ls[r])
      <3>1. CASE r = role
        BY <2>3, <2>4, <3>1
      <3>2. CASE r # role
        <4>1. ls[r] = abandon(lis[e][r]) /\ lis[e][r] \in ListenerType
          BY <1>1, <3>2
        <4>2. QED
          BY <1>1, <1>3, <2>2, <4>1, AbandonFacts, AbandonedLives
      <3>3. QED
        BY <3>1, <3>2
    <2>6. ls \in [Roles -> ListenerType]
      BY <2>5
    <2> HIDE DEF ls
    <2>7. Stage(en)
      BY <1>3, <2>2 DEF Stage, Ended
    <2>8. QED
      BY <1>1, <2>1, <2>5, <2>6, <2>7, OneEntityLives DEF IInv
  <1>9. QED
    BY <1>6, <1>7, <1>8

LEMMA TearDownReturnLives ==
  ASSUME IInv, LifeInv, SessionInv, NEW e \in Entities, TearDownReturn(e)
  PROVE  (LifeInv /\ SessionInv)'
  <1> DEFINE ls == [r \in Roles |-> Undeclared(lis[e][r])]
             slot == FreeSlot(ent[e].slot)
             en == [ent[e] EXCEPT !.state = "refused", !.slot = slot]
  <1>1. /\ ent[e].state = "tearing" /\ session' = session /\ session = "open"
        /\ ent[e] \in EntityType /\ ent \in [Entities -> EntityType]
        /\ UndeclareReturns(e)
    BY DEF TearDownReturn, SessionInv, IInv, TypeInv
  <1>2. /\ ent[e].form \in Forms /\ Options(ent[e].form) # {}
    BY <1>1 DEF LifeInv, Stage
  <1>3. lis' = [lis EXCEPT ![e] = ls] /\ ent' = [ent EXCEPT ![e] = en]
    BY <1>1 DEF TearDownReturn, IInv, TypeInv, EntityType
  <1>4. slot # "allocated"
    BY DEF FreeSlot
  <1> HIDE DEF slot
  <1>5. /\ en.form = ent[e].form /\ en.wanted = ent[e].wanted
        /\ en.state = "refused" /\ en.slot = slot
    BY <1>1 DEF EntityType
  <1> HIDE DEF en
  <1>6. ASSUME NEW r \in Roles
        PROVE  /\ ls[r] \in ListenerType /\ Lives(en, r, ls[r])
               /\ ls[r].closure # "given"
    <2>1. /\ ls[r] = Undeclared(lis[e][r])
          /\ lis[e][r] \in ListenerType /\ Lives(ent[e], r, lis[e][r])
          /\ lis[e][r].of # NoClosure => lis[e][r].of \in Built
          /\ Owned(lis[e][r]) => lis[e][r].of \in Built
          /\ r = "main" => ~(Owned(lis[e][r]) /\ lis[e][r].running)
          /\ Sound(lis[e][r], ent[e].state)
      BY <1>1, ListenerLives DEF UndeclareReturns, IInv, EntityInv
    <2>2. Lives(en, r, Undeclared(lis[e][r]))
      BY <1>1, <1>2, <1>5, <2>1, TornLives
    <2>3. Undeclared(lis[e][r]) \in ListenerType
      BY <2>1, UndeclaredSound
    <2>4. QED
      BY <1>5, <2>1, <2>2, <2>3 DEF Lives, Ending
  <1>7. ls \in [Roles -> ListenerType]
    BY <1>6
  <1> HIDE DEF ls
  <1>8. Stage(en)
    BY <1>2, <1>4, <1>5 DEF Stage
  <1>9. QED
    BY <1>1, <1>3, <1>6, <1>7, <1>8, OneEntityLives DEF IInv

LEMMA CloseLives ==
  ASSUME IInv, LifeInv, SessionInv, NEW e \in Entities, Close(e)
  PROVE  (LifeInv /\ SessionInv)'
  <1> DEFINE k == handler_drop(lis[e]["main"])
             ls == [lis[e] EXCEPT !["main"] = k]
             en == [ent[e] EXCEPT !.state = "closing"]
  <1>1. /\ ent[e].state = "open" /\ session' = session /\ HasSlot(ent[e].form)
        /\ ent[e] \in EntityType /\ ent \in [Entities -> EntityType]
        /\ lis[e] \in [Roles -> ListenerType]
        /\ "main" \in Roles
    BY DEF Close, IInv, TypeInv, Roles
  <1>2. ent[e].form \in Forms
    BY <1>1 DEF LifeInv, Stage
  <1>3. lis' = [lis EXCEPT ![e] = ls] /\ ent' = [ent EXCEPT ![e] = en]
    BY <1>1 DEF Close, IInv, TypeInv
  <1>4. en.form = ent[e].form /\ en.wanted = ent[e].wanted /\ en.state = "closing"
    BY <1>1 DEF EntityType
  <1> HIDE DEF en
  <1>5. /\ k \in ListenerType /\ Kept(k, lis[e]["main"])
        /\ k.queue = lis[e]["main"].queue
        /\ lis[e]["main"] = NoListener => k = NoListener
    BY <1>1, HandlerFacts, HandlerLife, NoListenerStays
  <1> HIDE DEF k
  <1>6. /\ ls \in [Roles -> ListenerType] /\ ls["main"] = k
        /\ \A r \in Roles \ {"main"} : ls[r] = lis[e][r]
    BY <1>1, <1>5
  <1> HIDE DEF ls
  <1>7. ASSUME NEW r \in Roles
        PROVE  /\ Lives(en, r, ls[r])
               /\ ls[r].closure = lis[e][r].closure /\ ls[r].of = lis[e][r].of
    <2>1. /\ Kept(ls[r], lis[e][r]) /\ ls[r].queue = lis[e][r].queue
          /\ lis[e][r] = NoListener => ls[r] = lis[e][r]
      BY <1>5, <1>6 DEF Kept
    <2>2. Lives(ent[e], r, lis[e][r])
      BY DEF LifeInv
    <2>3. QED
      BY <1>1, <1>4, <2>1, <2>2, GoesOn DEF Kept
  <1>8. Stage(en)
    BY <1>1, <1>2, <1>4 DEF Stage, Ended
  <1>9. session = "closed" =>
          \A r \in Roles : ls[r].closure = "given" => ls[r].of.owner = "entity"
    BY <1>7 DEF SessionInv
  <1>10. QED
    BY <1>1, <1>3, <1>4, <1>6, <1>7, <1>8, <1>9, OneEntityLives DEF IInv

LEMMA CloseReturnLives ==
  ASSUME IInv, LifeInv, SessionInv, NEW e \in Entities, CloseReturn(e)
  PROVE  (LifeInv /\ SessionInv)'
  <1> DEFINE ls == [r \in Roles |-> EndOf(r, lis[e][r])]
             slot == FreeSlot(ent[e].slot)
             en == [ent[e] EXCEPT !.state = "closed", !.slot = slot]
  <1>1. /\ ent[e].state = "closing" /\ session' = session
        /\ ent[e] \in EntityType /\ ent \in [Entities -> EntityType]
        /\ UndeclareReturns(e)
    BY DEF CloseReturn, IInv, TypeInv
  <1>2. ent[e].form \in Forms /\ HasSlot(ent[e].form)
    BY <1>1 DEF LifeInv, Stage
  <1>3. lis' = [lis EXCEPT ![e] = ls] /\ ent' = [ent EXCEPT ![e] = en]
    BY <1>1 DEF CloseReturn, IInv, TypeInv, EntityType
  <1>4. slot # "allocated"
    BY DEF FreeSlot
  <1> HIDE DEF slot
  <1>5. /\ en.form = ent[e].form /\ en.wanted = ent[e].wanted
        /\ en.state = "closed" /\ en.slot = slot
    BY <1>1 DEF EntityType
  <1> HIDE DEF en
  <1>6. ASSUME NEW r \in Roles
        PROVE  /\ ls[r] \in ListenerType /\ Lives(en, r, ls[r])
               /\ session = "closed" /\ ls[r].closure = "given" =>
                    ls[r].of.owner = "entity"
    <2> DEFINE l == lis[e][r]
               u == Undeclared(l)
               t == tee_drop(u)
    <2>1. /\ ls[r] = EndOf(r, l)
          /\ l \in ListenerType /\ Lives(ent[e], r, l)
          /\ l.of # NoClosure => l.of \in Built
          /\ Owned(l) => l.of \in Built
          /\ r = "main" => ~(Owned(l) /\ l.running)
          /\ Sound(l, "closing")
          /\ session = "closed" /\ l.closure = "given" => l.of.owner = "entity"
      BY <1>1, ListenerLives DEF UndeclareReturns, IInv, EntityInv, SessionInv
    <2> HIDE DEF l
    <2>2. u \in ListenerType /\ t \in ListenerType
      BY <2>1, UndeclaredSound, TeeDropFacts
    <2>3. EndOf(r, l) \in ListenerType /\ Lives(en, r, EndOf(r, l))
      BY <1>1, <1>2, <1>5, <2>1, <2>2, EndOfSound, ClosedLives
    <2>4. EndOf(r, l).closure = "given" => l.closure = "given"
      <3>1. u.closure = "given" => l.closure = "given"
        BY <2>1, UndeclaredLife DEF Owned
      <3>2. t.closure = u.closure
        BY <2>2, TeeDropFacts
      <3>3. EndOf(r, l) = abandon(t) \/ EndOf(r, l) = closeAndDrain(u)
        BY DEF EndOf
      <3> HIDE DEF u, t
      <3>4. QED
        BY <2>2, <3>1, <3>2, <3>3, AbandonLife, DrainLife
    <2>5. EndOf(r, l).of = l.of
      BY <2>1, EndOfSound
    <2>6. QED
      BY <2>1, <2>3, <2>4, <2>5
  <1>7. ls \in [Roles -> ListenerType]
    BY <1>6
  <1> HIDE DEF ls
  <1>8. Stage(en)
    BY <1>2, <1>4, <1>5 DEF Stage
  <1>9. QED
    BY <1>1, <1>3, <1>5, <1>6, <1>7, <1>8, OneEntityLives DEF IInv

\* A publisher that is collected never had a matching listener: it has none.
LEMMA CollectLives ==
  ASSUME IInv, LifeInv, SessionInv, NEW e \in Entities, Collect(e)
  PROVE  (LifeInv /\ SessionInv)'
  <1> DEFINE slot == FreeSlot(ent[e].slot)
             en == [ent[e] EXCEPT !.state = "closed", !.slot = slot]
  <1>1. /\ ent[e].state = "open" /\ session' = session
        /\ ent[e].form \in {"Publisher", "AdvancedPublisher"}
        /\ lis[e]["side"].port = "none"
        /\ ent[e] \in EntityType /\ ent \in [Entities -> EntityType]
        /\ lis[e] \in [Roles -> ListenerType] /\ lis' = [lis EXCEPT ![e] = lis[e]]
    BY DEF Collect, IInv, TypeInv
  <1>2. ent' = [ent EXCEPT ![e] = en]
    BY <1>1 DEF Collect, EntityType
  <1>3. slot # "allocated"
    BY DEF FreeSlot
  <1> HIDE DEF slot
  <1>4. /\ en.form = ent[e].form /\ en.state = "closed" /\ en.slot = slot
    BY <1>1 DEF EntityType
  <1> HIDE DEF en
  <1>5. ASSUME NEW r \in Roles
        PROVE  lis[e][r] = NoListener
    <2>1. Declared(ent[e], r, lis[e][r])
      BY DEF LifeInv, Lives
    <2>2. r # "side" => ~(r \in Options(ent[e].form))
      BY <1>1 DEF Options
    <2>3. r = "main" => Main(ent[e].form) = {NoClosure}
      BY <1>1 DEF Main, zd_declare_publisher, zd_declare_advanced_publisher
    <2>4. CASE r = "side"
      BY <1>1, <2>1, <2>4 DEF Declared
    <2>5. CASE r # "side"
      BY <2>1, <2>2, <2>3, <2>5 DEF Declared, Fits
    <2>6. QED
      BY <2>4, <2>5
  <1>6. \A r \in Roles : Lives(en, r, lis[e][r])
    BY <1>5, NoListenerLives
  <1>7. Stage(en)
    BY <1>1, <1>3, <1>4 DEF Stage, Forms
  <1>8. \A r \in Roles : lis[e][r].closure # "given"
    BY <1>5, NoListenerLife
  <1>9. QED
    BY <1>1, <1>2, <1>4, <1>6, <1>7, <1>8, OneEntityLives DEF IInv

LEMMA CallbackBeginsLives ==
  ASSUME IInv, LifeInv, SessionInv, NEW e \in Entities, NEW r \in Roles,
         CallbackBegins(e, r)
  PROVE  (LifeInv /\ SessionInv)'
  <1> DEFINE l == lis[e][r]
             n == l.posts + 1
             k == [l EXCEPT !.running = TRUE, !.posts = n]
  <1>1. /\ l.closure = "given" /\ session' = session /\ ent' = ent
        /\ session = "open"
        /\ lis \in [Entities -> [Roles -> ListenerType]]
    BY DEF CallbackBegins, IInv, TypeInv
  <1>2. l \in ListenerType /\ Lives(ent[e], r, l)
    BY ListenerLives
  <1>3. lis' = [lis EXCEPT ![e][r] = k]
    BY <1>1, <1>2 DEF CallbackBegins, ListenerType
  <1>4. n \in Nat
    BY <1>2 DEF ListenerType
  <1> HIDE DEF l, n
  <1>5. k \in ListenerType /\ Kept(k, l) /\ k.queue = l.queue
    BY <1>2, <1>4 DEF ListenerType, Kept
  <1> HIDE DEF k
  <1>6. Lives(ent[e], r, k)
    <2>1. l.of # NoClosure
      BY <1>1, <1>2, NoListenerLife DEF Lives, Declared
    <2>2. (\A x : Waits(k, x) <=> Waits(l, x)) /\ (Settled(k) <=> Settled(l))
      BY <1>5, SameQueue
    <2>3. Declared(ent[e], r, k)
      BY <1>2, <1>5, <2>1, NotAwaited DEF Lives, Declared, Kept
    <2>4. Ending(ent[e], r, k)
      BY <1>2, <1>5 DEF Lives, Ending, Kept
    <2>5. Draining(ent[e], r, k)
      BY <1>2, <1>5, <2>2 DEF Lives, Draining, Kept
    <2>6. History(ent[e], r, k)
      BY <1>2, <1>5 DEF Lives, History, Kept
    <2>7. QED
      BY <2>3, <2>4, <2>5, <2>6 DEF Lives
  <1>7. QED
    BY <1>1, <1>3, <1>5, <1>6, OneListenerLives DEF IInv

LEMMA CallbackEndsLives ==
  ASSUME IInv, LifeInv, SessionInv, NEW e \in Entities, NEW r \in Roles,
         CallbackEnds(e, r)
  PROVE  (LifeInv /\ SessionInv)'
  <1> DEFINE l == lis[e][r]
             c == Callback(l)
             x == IF c.ctx = "live" THEN c.ctx ELSE "wild"
             k == [c EXCEPT !.running = FALSE, !.ctx = x]
  <1>1. /\ l.running /\ session' = session /\ ent' = ent
        /\ lis \in [Entities -> [Roles -> ListenerType]]
    BY DEF CallbackEnds, IInv, TypeInv
  <1>2. l \in ListenerType /\ Lives(ent[e], r, l) /\ Given(l) /\ l.of \in Built
        /\ ent[e].form \in Forms
    <2>1. Sound(l, ent[e].state)
      BY DEF IInv, EntityInv
    <2>2. Given(l)
      BY <1>1, <2>1 DEF Sound
    <2>3. l # NoListener
      BY <1>1, NoListenerLife
    <2>4. QED
      BY <2>2, <2>3, ListenerLives
  <1>3. c \in ListenerType /\ Core(c) = Core(l)
    BY <1>2, CallbackFacts
  <1>4. lis' = [lis EXCEPT ![e][r] = k]
    <2>1. lis' = [lis EXCEPT ![e][r] =
                    [c EXCEPT !.running = FALSE,
                              !.ctx = IF @ = "live" THEN @ ELSE "wild"]]
      BY <1>1 DEF CallbackEnds
    <2> HIDE DEF l, c
    <2>3. [c EXCEPT !.running = FALSE,
                    !.ctx = IF @ = "live" THEN @ ELSE "wild"] = k
      BY <1>3 DEF ListenerType
    <2>4. QED
      BY <2>1, <2>3
  <1>5. c.of = l.of /\ c.closure = l.closure
    BY <1>3 DEF Core
  <1> HIDE DEF l
  <1>6. x \in {"none", "live", "freed", "wild"}
    BY <1>3 DEF ListenerType
  <1> HIDE DEF c, x
  <1>7. k \in ListenerType /\ Kept(k, c) /\ k.queue = c.queue
    BY <1>3, <1>6 DEF ListenerType, Kept
  <1> HIDE DEF k
  <1>8. Lives(ent[e], r, k)
    BY <1>2, <1>7, CallbackLives DEF c
  <1>9. session = "closed" /\ k.closure = "given" => k.of.owner = "entity"
    BY <1>5, <1>7 DEF SessionInv, Kept, l
  <1>10. QED
    BY <1>1, <1>4, <1>7, <1>8, <1>9, OneListenerLives DEF IInv

LEMMA DropClosureLives ==
  ASSUME IInv, LifeInv, SessionInv, NEW e \in Entities, NEW r \in Roles,
         DropClosure(e, r)
  PROVE  (LifeInv /\ SessionInv)'
  <1> DEFINE l == lis[e][r]
  <1>1. /\ Given(l) /\ session' = session /\ ent' = ent
        /\ lis' = [lis EXCEPT ![e][r] = Drop(l)]
    BY DEF DropClosure, Given, IInv, TypeInv
  <1>2. /\ l \in ListenerType /\ Lives(ent[e], r, l) /\ l.of \in Built
        /\ ent[e].form \in Forms
    <2>1. l # NoListener
      BY <1>1, NoListenerLife DEF Given
    <2>2. QED
      BY <1>1, <2>1, ListenerLives
  <1> HIDE DEF l
  <1>3. Drop(l) \in ListenerType /\ Drop(l).closure = "dropped"
    BY <1>2, DropFacts
  <1>4. Lives(ent[e], r, Drop(l))
    BY <1>1, <1>2, DropLives
  <1>5. QED
    BY <1>1, <1>3, <1>4, OneListenerLives DEF IInv

LEMMA TakeMessageLives ==
  ASSUME IInv, LifeInv, SessionInv, NEW e \in Entities, NEW r \in Roles,
         TakeMessage(e, r)
  PROVE  (LifeInv /\ SessionInv)'
  <1> DEFINE l == lis[e][r]
  <1>1. /\ l.queue # <<>> /\ session' = session /\ ent' = ent
        /\ lis' = [lis EXCEPT ![e][r] = Taken(l)]
    BY DEF TakeMessage, IInv, TypeInv
  <1>2. /\ l \in ListenerType /\ Lives(ent[e], r, l) /\ ent[e].form \in Forms
        /\ session = "closed" /\ l.closure = "given" => l.of.owner = "entity"
    BY <1>1, ListenerLives, NoListenerLife DEF SessionInv
  <1> HIDE DEF l
  <1>3. /\ Taken(l) \in ListenerType
        /\ Taken(l).of = l.of /\ Taken(l).closure = l.closure
    BY <1>1, <1>2, TakenFacts, TakenLife
  <1>4. Lives(ent[e], r, Taken(l))
    BY <1>1, <1>2, TakenLives
  <1>5. QED
    BY <1>1, <1>2, <1>3, <1>4, OneListenerLives DEF IInv

\* The session closes between the isolate's calls.
LEMMA SessionLives ==
  ASSUME IInv, LifeInv, SessionInv, SessionClose \/ SessionCloseReturn
  PROVE  (LifeInv /\ SessionInv)'
  <1>1. ent' = ent /\ lis' = lis
    BY DEF SessionClose, SessionCloseReturn
  <1>2. LifeInv'
    BY <1>1 DEF LifeInv
  <1>3. CASE SessionClose
    BY <1>1, <1>2, <1>3 DEF SessionClose, SessionInv, IsolateFree, Busy
  <1>4. CASE SessionCloseReturn
    BY <1>1, <1>2, <1>4 DEF SessionCloseReturn, SessionInv
  <1>5. QED
    BY <1>2, <1>3, <1>4

LEMMA InitLives == Init => LifeInv /\ SessionInv
  <1> SUFFICES ASSUME Init PROVE LifeInv /\ SessionInv
    OBVIOUS
  <1>1. \A e \in Entities :
          /\ ent[e].state = "unused" /\ ent[e].form = "none"
          /\ \A r \in Roles : lis[e][r] = NoListener
    BY DEF Init
  <1>2. \A e \in Entities : Stage(ent[e])
    BY <1>1 DEF Stage, Ended
  <1>3. LifeInv
    BY <1>1, <1>2, NoListenerLives DEF LifeInv
  <1>4. SessionInv
    BY DEF Init, SessionInv
  <1>5. QED
    BY <1>3, <1>4

LEMMA StepLives ==
  IInv /\ LifeInv /\ SessionInv /\ [Next]_vars => (LifeInv /\ SessionInv)'
  <1> SUFFICES ASSUME IInv, LifeInv, SessionInv, [Next]_vars
               PROVE  (LifeInv /\ SessionInv)'
    OBVIOUS
  <1>1. ASSUME NEW e \in Entities,
               \/ Declare(e) \/ DeclareFurther(e) \/ TearDownReturn(e)
               \/ Close(e) \/ CloseReturn(e) \/ Collect(e)
        PROVE  (LifeInv /\ SessionInv)'
    BY <1>1, DeclareLives, DeclareFurtherLives, TearDownReturnLives,
       CloseLives, CloseReturnLives, CollectLives
  <1>2. CASE SessionClose \/ SessionCloseReturn
    BY <1>2, SessionLives
  <1>3. ASSUME NEW e \in Entities, NEW r \in Roles,
               Zenoh(e, r) \/ TakeMessage(e, r)
        PROVE  (LifeInv /\ SessionInv)'
    BY <1>3, CallbackBeginsLives, CallbackEndsLives, DropClosureLives,
       TakeMessageLives DEF Zenoh
  <1>4. CASE UNCHANGED vars
    <2>1. ent' = ent /\ lis' = lis /\ session' = session
      BY <1>4 DEF vars
    <2>2. QED
      BY <2>1 DEF LifeInv, SessionInv
  <1>5. QED
    BY <1>1, <1>2, <1>3, <1>4 DEF Next

LEMMA LifeAlways == Spec => [](IInv /\ LifeInv /\ SessionInv)
  <1>1. Init => IInv /\ LifeInv /\ SessionInv
    BY InitIInv, InitLives
  <1>2. IInv /\ LifeInv /\ SessionInv /\ [Next]_vars
          => (IInv /\ LifeInv /\ SessionInv)'
    BY StepIInv, StepLives
  <1>3. QED
    BY <1>1, <1>2, PTL DEF Spec

\* A stream that has ended stays silent: the null that ends it comes of the
\* drop of the closure that posts to it (_zd_sample_drop_with_sentinel,
\* zenoh_dart.c:1625-1638), or the application has ended the entity
\* (closeAndDrain, subscriber.dart:335-355), whatever was being delivered and
\* also when the session closed first.
THEOREM StreamsEndForGood == Spec => []EndedForGood
  <1>1. LifeInv => EndedForGood
    <2> SUFFICES ASSUME LifeInv, NEW e \in Entities, NEW r \in Roles,
                        lis[e][r].done
                 PROVE  \/ Over(e) \/ ent[e].state \in {"tearing", "closing"}
                        \/ /\ lis[e][r].closure = "dropped"
                           /\ lis[e][r].of.owner # "entity"
      BY DEF EndedForGood
    <2>1. QED
      BY DEF LifeInv, Lives, History, Ended, Over
  <1>2. QED
    BY <1>1, LifeAlways, PTL

\* A sample, query or reply that is in a message is never discarded, whoever
\* closes what, but for publisher detection and for an advanced subscriber
\* whose declaration fails half-way (advanced_subscriber.dart:226-247): the
\* deferred close (subscriber.dart:335-355) comes after all that was posted.
THEOREM DetectionAloneLoses == Spec => []OnlyDetectionLoses
  <1>1. LifeInv => OnlyDetectionLoses
    BY DEF LifeInv, Lives, History, OnlyDetectionLoses
  <1>2. QED
    BY <1>1, LifeAlways, PTL

\* An entity that is closed, collected or refused leaves no slot, no handler
\* and no closure of its own, and no context without a closure; what is left
\* of it is what has to wait: a running callback of a side listener, the
\* messages of a port, a query, and publisher detection until the session ends
\* (pull_subscriber.dart:718-733, advanced_subscriber.dart:226-236 and 355-372).
THEOREM NothingIsLeft == Spec => []NothingLeftBehind
  <1>1. IInv /\ LifeInv /\ SessionInv => NothingLeftBehind
    <2> SUFFICES ASSUME IInv, LifeInv, SessionInv, NEW e \in Entities, Over(e)
                 PROVE  /\ ent[e].slot \in {"none", "freed"}
                        /\ \A r \in Roles :
                             LET l == lis[e][r] IN
                             /\ \/ l.closure \in {"none", "dropped"}
                                \/ r = "side" /\ l.closure = "undeclared"
                                \/ /\ l.of.owner \in {"session", "query"}
                                   /\ session # "closed" /\ ent[e].state = "closed"
                             /\ l.ctx = "live" => l.closure # "dropped"
                             /\ l.handler # "live"
                             /\ l.port = "open" =>
                                  \E i \in 1..Len(l.queue) : l.queue[i] = "timer"
      BY DEF NothingLeftBehind
    <2>1. Ended(ent[e])
      BY DEF Over, Ended
    <2>2. ent[e].slot \in {"none", "freed"}
      <3>1. ent[e].slot \in {"none", "allocated", "freed", "wild"}
        BY DEF IInv, TypeInv, EntityType
      <3>2. QED
        BY <2>1, <3>1 DEF IInv, EntityInv, Shape, LifeInv, Stage
    <2>3. ASSUME NEW r \in Roles
          PROVE  LET l == lis[e][r] IN
                 /\ \/ l.closure \in {"none", "dropped"}
                    \/ r = "side" /\ l.closure = "undeclared"
                    \/ /\ l.of.owner \in {"session", "query"}
                       /\ session # "closed" /\ ent[e].state = "closed"
                 /\ l.ctx = "live" => l.closure # "dropped"
                 /\ l.handler # "live"
                 /\ l.port = "open" =>
                      \E i \in 1..Len(l.queue) : l.queue[i] = "timer"
      <3> DEFINE l == lis[e][r]
      <3>1. /\ l \in ListenerType /\ Sound(l, ent[e].state)
            /\ Lives(ent[e], r, l)
            /\ session = "closed" /\ l.closure = "given" => l.of.owner = "entity"
        BY DEF IInv, TypeInv, EntityInv, LifeInv, SessionInv
      <3> HIDE DEF l
      <3>2. l.closure = "given" => l.of.owner \in {"entity", "session", "query"}
        BY <3>1 DEF Sound, Given, Built
      <3>3. \/ l.closure \in {"none", "dropped"}
            \/ r = "side" /\ l.closure = "undeclared"
            \/ /\ l.of.owner \in {"session", "query"}
               /\ session # "closed" /\ ent[e].state = "closed"
        BY <2>1, <3>1, <3>2 DEF Lives, Ending, Ended, ListenerType
      <3>4. l.closure = "dropped" => l.ctx # "live"
        <4>1. ~HandleHolds(l, ent[e].state)
          BY <2>1 DEF HandleHolds, Ended
        <4>2. l.closure = "dropped" => l.owners = 0
          BY <3>1, <4>1, Owners DEF Given
        <4>3. QED
          BY <3>1, <4>2 DEF Sound
      <3>5. l.handler # "live"
        BY <2>1, <3>1 DEF Sound, Ended
      <3>6. l.port = "open" => Waits(l, "timer")
        BY <2>1, <3>1 DEF Lives, Draining
      <3>7. QED
        BY <3>3, <3>4, <3>5, <3>6 DEF Waits, l
    <2>4. QED
      BY <2>2, <2>3
  <1>2. QED
    BY <1>1, LifeAlways, PTL

-----------------------------------------------------------------------------
(* That a stream ends with its session.                                    *)

\* A stream that nobody has to close: the session's, or a query's.
EndsByItself(l) == l.of.owner \in {"session", "query"} /\ ~IsTee(l.of)

\* Once its closure is dropped the null is in its port; where the port is
\* closed, or is about to be, the stream is done.
Announces(l) ==
  EndsByItself(l) =>
    /\ l.closure = "dropped" /\ l.port = "open" => Waits(l, "null")
    /\ l.port # "open" \/ Waits(l, "timer") => l.done

EndInv == \A e \in Entities, r \in Roles : Announces(lis[e][r])

\* What a listener of such a stream is told, and by whom.
EndIsOnItsWay ==
  \A e \in Entities, r \in Roles :
    LET l == lis[e][r] IN
    EndsByItself(l) =>
      \/ l.port # "open" /\ l.done
      \/ Waits(l, "null")
      \/ l.closure = "given" /\ session # "closed"

LEMMA NoListenerAnnounces == Announces(NoListener)
  BY NoListenerLife DEF Announces, EndsByItself, NoClosure, Closure

LEMMA AcceptedAnnounces ==
  ASSUME NEW form \in Forms, NEW r \in Roles, NEW c, Fits(form, r, c)
  PROVE  Announces(Accepted(c))
  <1>1. CASE c = NoClosure
    BY <1>1, NoneDeclared, NoListenerAnnounces
  <1>2. CASE c # NoClosure
    <2>1. c \in Built
      BY <1>2, FitsFacts
    <2>2. /\ Accepted(c).closure = "given" /\ Accepted(c).port = "open"
          /\ Accepted(c).queue = <<>>
      BY <2>1, AcceptedLife
    <2>3. \A x : ~Waits(Accepted(c), x)
      BY <2>2, NothingWaits
    <2>4. QED
      BY <2>2, <2>3 DEF Announces
  <1>3. QED
    BY <1>1, <1>2

\* What is abandoned is done, or was never opened.
LEMMA AbandonIsDone ==
  ASSUME NEW l, abandon(l) \in ListenerType, abandon(l).port # "none"
  PROVE  abandon(l).done = TRUE
  <1> DEFINE k == ClosePort(l)
  <1>1. abandon(l) = [k EXCEPT !.done = TRUE]
    BY DEF abandon
  <1> HIDE DEF k
  <1>2. QED
    BY <1>1 DEF ListenerType

LEMMA AbandonAnnounces ==
  ASSUME NEW l \in ListenerType, Announces(l)
  PROVE  Announces(abandon(l))
  <1>1. CASE l.port = "none"
    BY <1>1 DEF abandon
  <1>2. CASE l.port # "none"
    <2>1. abandon(l) \in ListenerType /\ abandon(l).port # "open"
          /\ (abandon(l).port = "none" => abandon(l) = l)
      BY AbandonFacts, AbandonLife
    <2>2. QED
      BY <1>2, <2>1, AbandonIsDone DEF Announces
  <1>3. QED
    BY <1>1, <1>2

LEMMA FailedAnnounces ==
  ASSUME NEW form \in Forms, NEW r \in Roles, NEW c, Fits(form, r, c),
         NEW l \in Failed(c)
  PROVE  Announces(abandon(l))
  <1>1. CASE c = NoClosure
    BY <1>1, NoneDeclared, NoListenerAnnounces
  <1>2. CASE c # NoClosure
    <2>1. c \in Built /\ c \in ClosureType
      BY <1>2, FitsFacts DEF ClosureType
    <2>2. abandon(l) \in ListenerType /\ abandon(l).port = "closed"
      BY <2>1, FailedSound, FailedLife
    <2>3. QED
      BY <2>2, AbandonIsDone DEF Announces
  <1>3. QED
    BY <1>1, <1>2

\* The deferred close is the close of a stream.
LEMMA DrainAnnounces ==
  ASSUME NEW l \in ListenerType, Announces(l)
  PROVE  Announces(closeAndDrain(l))
  <1>1. CASE l.port # "open"
    BY <1>1 DEF closeAndDrain
  <1>2. CASE l.port = "open"
    <2> DEFINE p == Post(l, "timer")
               k == [p EXCEPT !.done = TRUE]
    <2>1. p \in ListenerType
      BY PostFacts DEF Messages
    <2>2. Kept(p, l) /\ \A x : Waits(l, x) => Waits(p, x)
      BY PostLife DEF Messages
    <2>3. closeAndDrain(l) = k
      BY <1>2 DEF closeAndDrain
    <2> HIDE DEF p
    <2>4. /\ k.of = p.of /\ k.closure = p.closure /\ k.port = p.port
          /\ k.queue = p.queue /\ k.done = TRUE
      BY <2>1 DEF ListenerType
    <2> HIDE DEF k
    <2>5. \A x : Waits(k, x) <=> Waits(p, x)
      BY <2>4, SameQueue
    <2>6. QED
      BY <2>2, <2>3, <2>4, <2>5 DEF Announces, EndsByItself, Kept
  <1>3. QED
    BY <1>1, <1>2

LEMMA UndeclaredIsListener ==
  ASSUME NEW l \in ListenerType, Owned(l) => l.of \in Built
  PROVE  Undeclared(l) \in ListenerType
  <1>1. [l EXCEPT !.closure = "undeclared"] \in ListenerType
    BY DEF ListenerType
  <1>2. QED
    BY <1>1, DropFacts DEF Undeclared

\* What is undeclared was to be closed by the application.
LEMMA UndeclaredAnnounces ==
  ASSUME NEW l \in ListenerType, Announces(l), Owned(l) => l.of \in Built
  PROVE  Announces(Undeclared(l))
  <1>1. CASE ~Owned(l)
    BY <1>1 DEF Undeclared
  <1>2. CASE Owned(l)
    <2>1. Undeclared(l).of = l.of /\ l.of.owner = "entity"
      BY <1>2, UndeclaredLife DEF Owned
    <2>2. QED
      BY <2>1 DEF Announces, EndsByItself
  <1>3. QED
    BY <1>1, <1>2

LEMMA EndOfAnnounces ==
  ASSUME NEW r, NEW l \in ListenerType, Announces(l), Given(l) => l.of \in Built,
         Undeclared(l) \in ListenerType
  PROVE  Announces(EndOf(r, l))
  <1> DEFINE u == Undeclared(l)
             t == tee_drop(u)
  <1>1. u \in ListenerType /\ Announces(u)
    BY UndeclaredAnnounces DEF Owned, Given
  <1>2. EndOf(r, l) \in {abandon(t), closeAndDrain(u)}
    BY DEF EndOf
  <1> HIDE DEF u
  <1>3. t \in ListenerType /\ t.of = u.of /\ (~IsTee(u.of) => t = u)
    BY <1>1, TeeDropFacts
  <1>4. Announces(t)
    BY <1>1, <1>3 DEF Announces, EndsByItself
  <1> HIDE DEF t
  <1>5. QED
    BY <1>1, <1>2, <1>3, <1>4, AbandonAnnounces, DrainAnnounces

\* The drop of such a closure posts the null.
LEMMA DropAnnounces ==
  ASSUME NEW form \in Forms, NEW r \in Roles, NEW l \in ListenerType,
         Fits(form, r, l.of), l.of \in Built, Announces(l)
  PROVE  Announces(Drop(l))
  <1>1. EndsByItself(l) => l.of.drop \in SentinelDrops
    BY BuiltIsListener DEF EndsByItself, Fits, Forms, Main, Options, Further,
         Closure, IsTee, SentinelDrops,
         zd_declare_subscriber, zd_liveliness_declare_subscriber,
         zd_declare_advanced_subscriber, zd_declare_queryable,
         zd_declare_background_subscriber,
         zd_liveliness_declare_background_subscriber,
         zd_declare_background_queryable, zd_liveliness_get,
         zd_declare_pull_subscriber, zd_declare_pull_liveliness_subscriber,
         zd_declare_queryable_channel, zd_get_channel,
         zd_liveliness_get_channel, zd_declare_publisher,
         zd_declare_advanced_publisher, zd_declare_querier,
         zd_liveliness_declare_token,
         zd_publisher_declare_background_matching_listener,
         zd_querier_declare_background_matching_listener,
         zd_advanced_publisher_declare_background_matching_listener,
         zd_advanced_subscriber_declare_background_sample_miss_listener,
         zd_advanced_subscriber_detect_publishers_background
  <1>2. /\ Drop(l).of = l.of /\ Drop(l).port = l.port /\ Drop(l).done = l.done
        /\ Waits(Drop(l), "timer") => Waits(l, "timer")
    BY DropLife
  <1>3. ASSUME l.of.drop \in SentinelDrops, l.port = "open"
        PROVE  Waits(Drop(l), "null")
    <2> DEFINE p == Post(l, "null")
    <2>1. Drop(l) = FreeContext(p)
      BY <1>3 DEF SentinelDrops, Drop, sample_drop_with_sentinel,
         queryable_drop_with_sentinel, get_drop
    <2>2. p \in ListenerType /\ Waits(p, "null")
      BY <1>3, PostFacts, PostLife DEF Messages
    <2> HIDE DEF p
    <2>3. QED
      BY <2>1, <2>2, FreeContextLife, SameQueue
  <1>4. QED
    BY <1>1, <1>2, <1>3 DEF Announces, EndsByItself

LEMMA CallbackAnnounces ==
  ASSUME NEW l \in ListenerType, l.of \in Built, Announces(l),
         NEW k, Kept(k, Callback(l)), k.queue = Callback(l).queue
  PROVE  Announces(k)
  <1>1. /\ Kept(k, l)
        /\ Waits(l, "null") => Waits(k, "null")
        /\ Waits(k, "timer") => Waits(l, "timer")
    BY CallbackLife, SameQueue DEF Kept
  <1>2. QED
    BY <1>1 DEF Announces, EndsByItself, Kept

\* The null that is taken ends the stream; a port closed by the timer is one
\* whose stream the application has closed.
LEMMA TakenAnnounces ==
  ASSUME NEW l \in ListenerType, l.queue # <<>>, Announces(l)
  PROVE  Announces(Taken(l))
  <1> DEFINE q == Tail(l.queue)
             rest == [l EXCEPT !.queue = q]
             p == ClosePort(rest)
             k == [p EXCEPT !.done = TRUE]
  <1>1. q \in Seq({"handle", "copy", "null", "timer"})
    BY DEF ListenerType
  <1>2. Taken(l) = CASE Head(l.queue) = "null"  -> k
                     [] Head(l.queue) = "timer" -> p
                     [] OTHER                   -> rest
    BY DEF Taken, ListenerType
  <1> HIDE DEF q
  <1>3. rest \in ListenerType /\ Kept(rest, l) /\ rest.queue = q
    BY <1>1 DEF ListenerType, Kept
  <1> HIDE DEF rest
  <1>4. /\ \A x : Waits(rest, x) => Waits(l, x)
        /\ \A x : Waits(l, x) => Waits(rest, x) \/ x = Head(l.queue)
        /\ Waits(l, Head(l.queue))
    BY <1>3, TailWaits DEF q
  <1>5. /\ p \in ListenerType /\ p.of = rest.of /\ p.done = rest.done
        /\ p.port # "open"
    BY <1>3, ClosePortFacts, ClosePortLife
  <1> HIDE DEF p
  <1>6. k.of = p.of /\ k.port = p.port /\ k.done = TRUE
    BY <1>5 DEF ListenerType
  <1> HIDE DEF k
  <1>7. CASE Head(l.queue) = "null"
    BY <1>2, <1>5, <1>6, <1>7 DEF Announces
  <1>8. CASE Head(l.queue) = "timer"
    <2>1. Taken(l) = p /\ (EndsByItself(l) => l.done)
      BY <1>2, <1>4, <1>8 DEF Announces
    <2>2. QED
      BY <1>3, <1>5, <2>1 DEF Announces, EndsByItself, Kept
  <1>9. CASE Head(l.queue) \notin {"null", "timer"}
    <2>1. Taken(l) = rest
      BY <1>2, <1>9
    <2>2. QED
      BY <1>3, <1>4, <1>9, <2>1 DEF Announces, EndsByItself, Kept
  <1>10. QED
    BY <1>7, <1>8, <1>9

\* A step of one entity, or of one listener.
LEMMA OneEntityAnnounces ==
  ASSUME TypeInv, EndInv, NEW e \in Entities, NEW ls,
         lis' = [lis EXCEPT ![e] = ls], \A r \in Roles : Announces(ls[r])
  PROVE  EndInv'
  <1>1. ASSUME NEW f \in Entities, NEW r \in Roles
        PROVE  Announces(lis'[f][r])
    <2>1. lis'[f] = IF f = e THEN ls ELSE lis[f]
      BY DEF TypeInv
    <2>2. QED
      BY <2>1 DEF EndInv
  <1>2. QED
    BY <1>1 DEF EndInv

LEMMA OneListenerAnnounces ==
  ASSUME TypeInv, EndInv, NEW e \in Entities, NEW r \in Roles, NEW k,
         lis' = [lis EXCEPT ![e][r] = k], Announces(k)
  PROVE  EndInv'
  <1> DEFINE ls == [lis[e] EXCEPT ![r] = k]
  <1>1. lis' = [lis EXCEPT ![e] = ls]
    OBVIOUS
  <1>2. \A q \in Roles : ls[q] = IF q = r THEN k ELSE lis[e][q]
    BY DEF TypeInv
  <1> HIDE DEF ls
  <1>3. \A q \in Roles : Announces(ls[q])
    BY <1>2 DEF EndInv
  <1>4. QED
    BY <1>1, <1>3, OneEntityAnnounces

LEMMA DeclareAnnounces ==
  ASSUME IInv, EndInv, NEW e \in Entities, Declare(e)
  PROVE  EndInv'
  <1>1. PICK form \in FormsOf[e] : \E c \in Main(form) :
          \/ lis' = [lis EXCEPT ![e]["main"] = Accepted(c)]
          \/ \E l \in Failed(c) : lis' = [lis EXCEPT ![e]["main"] = abandon(l)]
    BY DEF Declare
  <1>2. PICK c \in Main(form) :
          \/ lis' = [lis EXCEPT ![e]["main"] = Accepted(c)]
          \/ \E l \in Failed(c) : lis' = [lis EXCEPT ![e]["main"] = abandon(l)]
    BY <1>1
  <1>3. form \in Forms /\ "main" \in Roles /\ Fits(form, "main", c)
    BY EntitiesAssumption DEF Fits, Roles
  <1>4. Announces(Accepted(c)) /\ \A l \in Failed(c) : Announces(abandon(l))
    BY <1>3, AcceptedAnnounces, FailedAnnounces
  <1>5. QED
    BY <1>2, <1>3, <1>4, OneListenerAnnounces DEF IInv

LEMMA DeclareFurtherAnnounces ==
  ASSUME IInv, LifeInv, EndInv, NEW e \in Entities, DeclareFurther(e)
  PROVE  EndInv'
  <1> DEFINE role == NextWanted(e)
             c == Further(ent[e].form, role)
  <1>1. /\ ent[e].wanted \subseteq Options(ent[e].form) /\ ent[e].wanted # {}
        /\ ent[e].form \in Forms
    BY DEF DeclareFurther, IInv, EntityInv, Shape, LifeInv, Stage
  <1>2. role \in ent[e].wanted /\ role \in Roles
    BY <1>1 DEF NextWanted, Options, Roles
  <1>3. Fits(ent[e].form, role, c)
    BY <1>1, <1>2 DEF Fits
  <1>4. \/ lis' = [lis EXCEPT ![e][role] = Accepted(c)]
        \/ \E l \in Failed(c) :
             lis' = [lis EXCEPT ![e] =
                       [r \in Roles |-> abandon(IF r = role THEN l ELSE @[r])]]
    BY DEF DeclareFurther
  <1>5. Announces(Accepted(c)) /\ \A l \in Failed(c) : Announces(abandon(l))
    BY <1>1, <1>2, <1>3, AcceptedAnnounces, FailedAnnounces
  <1> HIDE DEF role, c
  <1>6. CASE lis' = [lis EXCEPT ![e][role] = Accepted(c)]
    BY <1>2, <1>5, <1>6, OneListenerAnnounces DEF IInv
  <1>7. ASSUME NEW l \in Failed(c),
               lis' = [lis EXCEPT ![e] =
                         [r \in Roles |-> abandon(IF r = role THEN l ELSE @[r])]]
        PROVE  EndInv'
    <2> DEFINE ls == [r \in Roles |-> abandon(IF r = role THEN l ELSE lis[e][r])]
    <2>1. lis' = [lis EXCEPT ![e] = ls]
      BY <1>7 DEF IInv, TypeInv
    <2>2. ASSUME NEW r \in Roles
          PROVE  Announces(ls[r])
      <3>1. lis[e][r] \in ListenerType /\ Announces(lis[e][r])
        BY DEF IInv, TypeInv, EndInv
      <3>2. ls[r] = IF r = role THEN abandon(l) ELSE abandon(lis[e][r])
        OBVIOUS
      <3> HIDE DEF ls
      <3>3. QED
        BY <1>5, <3>1, <3>2, AbandonAnnounces
    <2> HIDE DEF ls
    <2>3. QED
      BY <2>1, <2>2, OneEntityAnnounces DEF IInv
  <1>8. QED
    BY <1>4, <1>6, <1>7

LEMMA ReturnAnnounces ==
  ASSUME IInv, LifeInv, EndInv, NEW e \in Entities,
         TearDownReturn(e) \/ CloseReturn(e)
  PROVE  EndInv'
  <1>1. PICK ls \in {[r \in Roles |-> Undeclared(lis[e][r])],
                     [r \in Roles |-> EndOf(r, lis[e][r])]} :
          lis' = [lis EXCEPT ![e] = ls]
    BY DEF TearDownReturn, CloseReturn, IInv, TypeInv
  <1>2. ASSUME NEW r \in Roles
        PROVE  Announces(Undeclared(lis[e][r])) /\ Announces(EndOf(r, lis[e][r]))
    <2> DEFINE l == lis[e][r]
    <2>1. /\ l \in ListenerType /\ Announces(l) /\ Sound(l, ent[e].state)
          /\ Given(l) => l.of \in Built
          /\ Owned(l) => Given(l)
      BY ListenerLives DEF EndInv, IInv, EntityInv
    <2> HIDE DEF l
    <2>2. Undeclared(l) \in ListenerType
      BY <2>1, UndeclaredIsListener
    <2>3. QED
      BY <2>1, <2>2, UndeclaredAnnounces, EndOfAnnounces DEF l
  <1>3. \A r \in Roles : Announces(ls[r])
    BY <1>1, <1>2
  <1>4. QED
    BY <1>1, <1>3, OneEntityAnnounces DEF IInv

LEMMA CloseAnnounces ==
  ASSUME IInv, EndInv, NEW e \in Entities, Close(e)
  PROVE  EndInv'
  <1> DEFINE l == lis[e]["main"]
  <1>1. /\ lis' = [lis EXCEPT ![e]["main"] = handler_drop(l)] /\ "main" \in Roles
        /\ l \in ListenerType /\ Announces(l)
    BY DEF Close, IInv, TypeInv, EndInv, Roles
  <1> HIDE DEF l
  <1>2. /\ handler_drop(l).of = l.of
        /\ ~IsTee(l.of) => handler_drop(l) = l
    BY <1>1, HandlerFacts
  <1>3. Announces(handler_drop(l))
    BY <1>1, <1>2 DEF Announces, EndsByItself
  <1>4. QED
    BY <1>1, <1>3, OneListenerAnnounces DEF IInv

LEMMA ZenohAnnounces ==
  ASSUME IInv, LifeInv, EndInv, NEW e \in Entities, NEW r \in Roles,
         Zenoh(e, r) \/ TakeMessage(e, r)
  PROVE  EndInv'
  <1> DEFINE l == lis[e][r]
  <1>1. /\ l \in ListenerType /\ Announces(l) /\ Lives(ent[e], r, l)
        /\ Given(l) => l.of \in Built /\ ent[e].form \in Forms
        /\ l.running => Given(l)
    <2>1. Sound(l, ent[e].state) /\ Announces(l)
      BY DEF IInv, EntityInv, EndInv
    <2>2. Given(l) => l # NoListener
      BY NoListenerLife DEF Given
    <2>3. QED
      BY <2>1, <2>2, ListenerLives DEF Sound
  <1>2. CASE CallbackBegins(e, r)
    <2> DEFINE n == l.posts + 1
               k == [l EXCEPT !.running = TRUE, !.posts = n]
    <2>1. lis' = [lis EXCEPT ![e][r] = k]
      BY <1>1, <1>2 DEF CallbackBegins, IInv, TypeInv, ListenerType
    <2> HIDE DEF l, n
    <2>2. Kept(k, l) /\ k.queue = l.queue
      BY <1>1 DEF ListenerType, Kept
    <2> HIDE DEF k
    <2>3. \A x : Waits(k, x) <=> Waits(l, x)
      BY <2>2, SameQueue
    <2>4. Announces(k)
      BY <1>1, <2>2, <2>3 DEF Announces, EndsByItself, Kept
    <2>5. QED
      BY <2>1, <2>4, OneListenerAnnounces DEF IInv
  <1>3. CASE CallbackEnds(e, r)
    <2> DEFINE c == Callback(l)
               x == IF c.ctx = "live" THEN c.ctx ELSE "wild"
               k == [c EXCEPT !.running = FALSE, !.ctx = x]
    <2>1. l.running /\ lis \in [Entities -> [Roles -> ListenerType]]
      BY <1>3 DEF CallbackEnds, IInv, TypeInv
    <2>2. c \in ListenerType
      BY <1>1, <2>1, CallbackFacts
    <2>3. lis' = [lis EXCEPT ![e][r] = k]
      <3>1. lis' = [lis EXCEPT ![e][r] =
                      [c EXCEPT !.running = FALSE,
                                !.ctx = IF @ = "live" THEN @ ELSE "wild"]]
        BY <1>3, <2>1 DEF CallbackEnds
      <3> HIDE DEF l, c
      <3>2. [c EXCEPT !.running = FALSE,
                      !.ctx = IF @ = "live" THEN @ ELSE "wild"] = k
        BY <2>2 DEF ListenerType
      <3>3. QED
        BY <3>1, <3>2
    <2> HIDE DEF l
    <2> HIDE DEF c, x
    <2>4. Kept(k, c) /\ k.queue = c.queue
      BY <2>2 DEF ListenerType, Kept
    <2> HIDE DEF k
    <2>5. Announces(k)
      BY <1>1, <2>1, <2>4, CallbackAnnounces DEF c
    <2>6. QED
      BY <2>3, <2>5, OneListenerAnnounces DEF IInv
  <1>4. CASE DropClosure(e, r)
    <2>1. lis' = [lis EXCEPT ![e][r] = Drop(l)] /\ Given(l)
      BY <1>4 DEF DropClosure, Given
    <2>2. Announces(Drop(l))
      BY <1>1, <2>1, DropAnnounces DEF Lives, Declared
    <2>3. QED
      BY <2>1, <2>2, OneListenerAnnounces DEF IInv
  <1>5. CASE TakeMessage(e, r)
    <2>1. lis' = [lis EXCEPT ![e][r] = Taken(l)] /\ l.queue # <<>>
      BY <1>5 DEF TakeMessage
    <2>2. Announces(Taken(l))
      BY <1>1, <2>1, TakenAnnounces
    <2>3. QED
      BY <2>1, <2>2, OneListenerAnnounces DEF IInv
  <1>6. QED
    BY <1>2, <1>3, <1>4, <1>5 DEF Zenoh

LEMMA EndStep ==
  ASSUME IInv, LifeInv, EndInv, [Next]_vars
  PROVE  EndInv'
  <1>1. ASSUME NEW e \in Entities,
               \/ Declare(e) \/ DeclareFurther(e) \/ TearDownReturn(e)
               \/ Close(e) \/ CloseReturn(e)
        PROVE  EndInv'
    BY <1>1, DeclareAnnounces, DeclareFurtherAnnounces, ReturnAnnounces,
       CloseAnnounces
  <1>2. ASSUME NEW e \in Entities, Collect(e)
        PROVE  EndInv'
    BY <1>2 DEF Collect, EndInv
  <1>3. CASE SessionClose \/ SessionCloseReturn \/ UNCHANGED vars
    <2>1. lis' = lis
      BY <1>3 DEF SessionClose, SessionCloseReturn, vars
    <2>2. QED
      BY <2>1 DEF EndInv
  <1>4. ASSUME NEW e \in Entities, NEW r \in Roles,
               Zenoh(e, r) \/ TakeMessage(e, r)
        PROVE  EndInv'
    BY <1>4, ZenohAnnounces
  <1>5. QED
    BY <1>1, <1>2, <1>3, <1>4 DEF Next

\* A stream that nobody has to close is never forgotten by its session: zenoh
\* has yet to drop its closure, which the close waits for, or the null is in
\* the port, or the stream is done, also when its application or a refused
\* part of its declaration closed it first (zenoh_dart.c:1625-1638,
\* subscriber.dart:335-355).  What BackgroundStreamsEnd adds is that the
\* isolate comes round to the port.
THEOREM EndIsNotForgotten == Spec => []EndIsOnItsWay
  <1>1. Init => EndInv
    BY NoListenerAnnounces DEF Init, EndInv
  <1>2. IInv /\ LifeInv /\ EndInv /\ [Next]_vars => EndInv'
    BY EndStep
  <1>3. IInv /\ LifeInv /\ SessionInv /\ EndInv => EndIsOnItsWay
    <2> SUFFICES ASSUME IInv, LifeInv, SessionInv, EndInv,
                        NEW e \in Entities, NEW r \in Roles,
                        EndsByItself(lis[e][r])
                 PROVE  \/ lis[e][r].port # "open" /\ lis[e][r].done
                        \/ Waits(lis[e][r], "null")
                        \/ lis[e][r].closure = "given" /\ session # "closed"
      BY DEF EndIsOnItsWay
    <2> DEFINE l == lis[e][r]
    <2>1. /\ l \in ListenerType /\ Announces(l) /\ Lives(ent[e], r, l)
          /\ l # NoListener => ent[e].form \in Forms
          /\ l.closure = "given" => l.of.owner = "entity" \/ session # "closed"
      BY ListenerLives DEF EndInv, SessionInv
    <2>2. l # NoListener /\ l.of # NoClosure /\ l.of.owner # "entity"
      BY NoListenerLife DEF EndsByItself, NoClosure, Closure
    <2> HIDE DEF l
    <2>3. Fits(ent[e].form, r, l.of)
      BY <2>1 DEF Lives, Declared
    <2>4. l.closure # "undeclared"
      BY <2>1, <2>2, <2>3, FitsFacts DEF Lives, Ending
    <2>5. l.closure \in {"none", "given", "undeclared", "dropped"}
      BY <2>1 DEF ListenerType
    <2>6. l.closure = "none" => l.port # "open"
      BY <2>1 DEF Lives, Ending
    <2>7. QED
      BY <2>1, <2>2, <2>4, <2>5, <2>6 DEF Announces, l
  <1>4. QED
    BY <1>1, <1>2, <1>3, LifeAlways, PTL DEF Spec

=============================================================================
