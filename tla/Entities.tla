------------------------------ MODULE Entities -------------------------------
(***************************************************************************)
(* What a session declares, from the declaration to the last callback.     *)
(*                                                                         *)
(* A declaration allocates a slot for zenoh's entity, opens a port, and    *)
(* hands zenoh a closure over a context, a block of the C heap that names  *)
(* the port.  zenoh's threads run the callback and, once, the drop, which  *)
(* frees the context and for some closures posts a null: end of stream.    *)
(*                                                                         *)
(* An entity has up to three listeners, declared one after the other:      *)
(* "main" (samples, queries, replies), "side" (matching status, or missed  *)
(* samples) and "detect" (publisher detection).  If one is refused, what   *)
(* was declared before it comes down again, while zenoh may already be     *)
(* delivering to it.  A background form is a main listener without a slot. *)
(* A pull form puts a tee before a channel: its context has two owners,    *)
(* zenoh's closure and the Dart handle, and the channel has a handler.     *)
(*                                                                         *)
(* The isolate runs one call at a time and takes messages only between     *)
(* calls.  Every message of a main or detect listener transfers a handle.  *)
(***************************************************************************)
EXTENDS Naturals, Sequences

CONSTANTS
  Entities,     (* the declarations of the application's run               *)
  FormsOf,      (* the forms each may take                                 *)
  MaxPosts      (* bound: callbacks zenoh starts per listener              *)


VARIABLES
  session,      (* "open", "closing" (the call has not returned), "closed" *)
  ent,          (* of each entity: form, state, slot, and the listeners    *)
                (*   still wanted                                          *)
  lis           (* of each entity and role, a listener                     *)

vars == <<session, ent, lis>>

-----------------------------------------------------------------------------
(* The entry points: the closure each builds, and whose life it shares.    *)

Closure(callback, drop, owner) ==
  [callback |-> callback, drop |-> drop, owner |-> owner]

NoClosure == Closure("none", "none", "none")

zd_declare_subscriber == Closure("sample", "sample", "entity")
zd_liveliness_declare_subscriber == Closure("sample", "sample", "entity")
zd_declare_advanced_subscriber == Closure("sample", "sample", "entity")
zd_declare_queryable == Closure("query", "queryable", "entity")

zd_declare_background_subscriber ==
  Closure("sample", "sample_with_sentinel", "session")
zd_liveliness_declare_background_subscriber ==
  Closure("sample", "sample_with_sentinel", "session")
zd_declare_background_queryable ==
  Closure("query", "queryable_with_sentinel", "session")
zd_liveliness_get == Closure("reply", "get", "query")

zd_declare_pull_subscriber == Closure("pull_tee", "pull_tee", "entity")
zd_declare_pull_liveliness_subscriber ==
  Closure("pull_tee", "pull_tee", "entity")
zd_declare_queryable_channel == Closure("query_tee", "query_tee", "entity")
zd_get_channel == Closure("reply_tee", "reply_tee", "query")
zd_liveliness_get_channel == Closure("reply_tee", "reply_tee", "query")

zd_declare_publisher == NoClosure
zd_declare_advanced_publisher == NoClosure
zd_declare_querier == NoClosure
zd_liveliness_declare_token == NoClosure

zd_publisher_declare_background_matching_listener ==
  Closure("matching_status", "matching", "entity")
zd_querier_declare_background_matching_listener ==
  Closure("matching_status", "matching", "entity")
zd_advanced_publisher_declare_background_matching_listener ==
  Closure("matching_status", "matching", "entity")
zd_advanced_subscriber_declare_background_sample_miss_listener ==
  Closure("miss", "sample", "entity")

\* Mutant: publisher detection is declared like the other listeners.
detect_publishers_quietly == Closure("sample", "sample", "session")

zd_advanced_subscriber_detect_publishers_background ==
  Closure("sample", "sample_with_sentinel", "session")

Forms == {"Subscriber", "AdvancedSubscriber", "Queryable", "Publisher",
          "AdvancedPublisher", "Querier", "LivelinessToken", "background",
          "livelinessGet", "PullSubscriber", "PullQueryable", "PullReplies"}

\* The entry points of the main declaration of a form.
Main(form) ==
  CASE form = "Subscriber" ->
         {zd_declare_subscriber, zd_liveliness_declare_subscriber}
    [] form = "AdvancedSubscriber" -> {zd_declare_advanced_subscriber}
    [] form = "Queryable"          -> {zd_declare_queryable}
    [] form = "Publisher"          -> {zd_declare_publisher}
    [] form = "AdvancedPublisher"  -> {zd_declare_advanced_publisher}
    [] form = "Querier"            -> {zd_declare_querier}
    [] form = "LivelinessToken"    -> {zd_liveliness_declare_token}
    [] form = "background" ->
         {zd_declare_background_subscriber, zd_declare_background_queryable,
          zd_liveliness_declare_background_subscriber}
    [] form = "livelinessGet"      -> {zd_liveliness_get}
    [] form = "PullSubscriber" ->
         {zd_declare_pull_subscriber, zd_declare_pull_liveliness_subscriber}
    [] form = "PullQueryable"      -> {zd_declare_queryable_channel}
    [] form = "PullReplies"   -> {zd_get_channel, zd_liveliness_get_channel}

\* The entry point of a further listener.
Further(form, role) ==
  CASE role = "detect" -> zd_advanced_subscriber_detect_publishers_background
    [] role = "side" /\ form = "AdvancedSubscriber" ->
         zd_advanced_subscriber_declare_background_sample_miss_listener
    [] role = "side" /\ form = "Publisher" ->
         zd_publisher_declare_background_matching_listener
    [] role = "side" /\ form = "Querier" ->
         zd_querier_declare_background_matching_listener
    [] role = "side" /\ form = "AdvancedPublisher" ->
         zd_advanced_publisher_declare_background_matching_listener

\* The listeners one may ask for on top.
Options(form) ==
  CASE form = "AdvancedSubscriber" -> {"side", "detect"}
    [] form \in {"Publisher", "AdvancedPublisher", "Querier"} -> {"side"}
    [] OTHER -> {}

ASSUME EntitiesAssumption ==
  /\ FormsOf \in [Entities -> SUBSET Forms]
  /\ MaxPosts \in Nat

HasSlot(form) == form \notin {"background", "livelinessGet"}

Roles == {"main", "side", "detect"}

-----------------------------------------------------------------------------
(* A listener.  "wild" marks a use or a second release of a freed block.   *)

NoListener ==
  [of |-> NoClosure,
   closure |-> "none",     (* "given", "undeclared" in a callback, "dropped" *)
   ctx |-> "none",         (* "live", "freed", "wild"                      *)
   owners |-> 0,           (* of the context                               *)
   handler |-> "none",     (* of a channel: "live", "freed", "wild"        *)
   running |-> FALSE,      (* a callback                                   *)
   posts |-> 0,            (* callbacks started                            *)
   port |-> "none",        (* "open", "closed"                             *)
   queue |-> <<>>,         (* of the port: "handle", "copy", "null", and   *)
                           (*   "timer", the deferred close                *)
   done |-> FALSE,         (* the StreamController is closed               *)
   lost |-> FALSE]         (* history: a handle was discarded              *)

\* Dart_PostCObject_DL.  Refused, the callback releases what it transfers.
Post(l, m) ==
  IF l.port = "open" THEN [l EXCEPT !.queue = Append(@, m)] ELSE l

\* What the callbacks leave in the port.
sample_callback(l) == Post(l, "handle")
query_callback(l) == Post(l, "handle")
reply_callback(l) == Post(l, "handle")
matching_status_callback(l) == Post(l, "copy")
miss_callback(l) == Post(l, "copy")

\* A tee pings the waiter, if there is one: there is one here.
pull_tee_on_call(l) == Post(l, "copy")
reply_tee_on_call(l) == Post(l, "copy")
query_tee_on_call(l) == Post(l, "copy")

Callback(l) ==
  CASE l.of.callback = "sample" -> sample_callback(l)
    [] l.of.callback = "query"  -> query_callback(l)
    [] l.of.callback = "reply"  -> reply_callback(l)
    [] l.of.callback = "matching_status" -> matching_status_callback(l)
    [] l.of.callback = "miss"   -> miss_callback(l)
    [] l.of.callback = "pull_tee"  -> pull_tee_on_call(l)
    [] l.of.callback = "reply_tee" -> reply_tee_on_call(l)
    [] l.of.callback = "query_tee" -> query_tee_on_call(l)

\* One owner lets go of the context, and the last one frees it.
ReleaseContext(l) ==
  [l EXCEPT !.owners = IF @ = 0 THEN 0 ELSE @ - 1,
            !.ctx = IF l.owners = 1 THEN "freed"
                    ELSE IF l.owners = 0 THEN "wild" ELSE @]

FreeContext(l) == [ReleaseContext(l) EXCEPT !.closure = "dropped"]

\* What the drops do.
\* Mutant: every sample drop posts the end of the stream.
sample_drop_posting(l) == FreeContext(Post(l, "null"))

sample_drop(l) == FreeContext(l)
sample_drop_with_sentinel(l) == FreeContext(Post(l, "null"))
queryable_drop(l) == FreeContext(l)
queryable_drop_with_sentinel(l) == FreeContext(Post(l, "null"))
matching_drop(l) == FreeContext(l)
get_drop(l) == FreeContext(Post(l, "null"))

\* The null of a tee wakes the waiter.  The port stays open.
pull_tee_on_drop(l) == FreeContext(Post(l, "copy"))
reply_tee_on_drop(l) == FreeContext(Post(l, "copy"))
query_tee_on_drop(l) == FreeContext(Post(l, "copy"))

Drop(l) ==
  CASE l.of.drop = "sample" -> sample_drop(l)
    [] l.of.drop = "sample_with_sentinel" -> sample_drop_with_sentinel(l)
    [] l.of.drop = "queryable" -> queryable_drop(l)
    [] l.of.drop = "queryable_with_sentinel" -> queryable_drop_with_sentinel(l)
    [] l.of.drop = "matching" -> matching_drop(l)
    [] l.of.drop = "get" -> get_drop(l)
    [] l.of.drop = "pull_tee"  -> pull_tee_on_drop(l)
    [] l.of.drop = "reply_tee" -> reply_tee_on_drop(l)
    [] l.of.drop = "query_tee" -> query_tee_on_drop(l)

IsTee(c) == c.drop \in {"pull_tee", "reply_tee", "query_tee"}

handler_drop(l) ==
  IF IsTee(l.of) THEN [l EXCEPT !.handler = IF @ = "live" THEN "freed" ELSE "wild"]
  ELSE l

\* zd_pull_tee_drop: the owner is the Dart handle, or the shim if there will
\* never be one.
tee_drop(l) == IF IsTee(l.of) THEN ReleaseContext(l) ELSE l

\* ReceivePort.close: the messages on their way are discarded.
ClosePort(l) ==
  IF l.port = "open"
    THEN [l EXCEPT !.port = "closed", !.queue = <<>>,
                   !.lost = @ \/ \E i \in 1..Len(l.queue) : l.queue[i] = "handle"]
    ELSE l

\* Close the port and the stream, now.  SampleChannel.abandon.
abandon(l) == IF l.port = "none" THEN l ELSE [ClosePort(l) EXCEPT !.done = TRUE]

\* Mutant: close() tears the channel down the way a failed declaration does.
closeAtOnce(l) == abandon(l)

\* Mutant: the port is left open.
closeStreamOnly(l) == IF l.port = "open" THEN [l EXCEPT !.done = TRUE] ELSE l

\* closeAndDrain: the stream now, the port after what it holds.
closeAndDrain(l) ==
  IF l.port = "open" THEN [Post(l, "timer") EXCEPT !.done = TRUE] ELSE l

-----------------------------------------------------------------------------
(* A call of an entry point on a fresh listener.                           *)

Opened(c) == [NoListener EXCEPT !.of = c,
                                !.port = IF c = NoClosure THEN "none" ELSE "open"]

\* The owners a context begins with.
tee_head_init(c) == IF IsTee(c) THEN 2 ELSE 1

Accepted(c) ==
  IF c = NoClosure THEN NoListener
  ELSE [Opened(c) EXCEPT !.closure = "given", !.ctx = "live",
                         !.owners = tee_head_init(c),
                         !.handler = IF IsTee(c) THEN "live" ELSE "none"]

\* Mutant: the shim frees the context after zenoh has dropped the closure.
RefusedTwice(c) ==
  IF c = NoClosure THEN NoListener ELSE FreeContext(Drop(Accepted(c)))

\* What is built around a closure of a pull form and has to go with it.
abandon_built(l) == handler_drop(tee_drop(l))

\* zenoh drops the closure it refuses; the shim's own drop is then a no-op,
\* or does it if zenoh never took the closure.
Refused(c) ==
  IF c = NoClosure THEN NoListener ELSE abandon_built(Drop(Accepted(c)))

\* malloc fails: no context, no closure.
NoMemory(c) ==
  handler_drop([Opened(c) EXCEPT !.handler = IF IsTee(c) THEN "live" ELSE "none"])

\* The capacity does not fit: nothing has been built.
BadCapacity(c) == Opened(c)

Failed(c) ==
  {Refused(c), NoMemory(c)} \cup (IF IsTee(c) THEN {BadCapacity(c)} ELSE {})

-----------------------------------------------------------------------------
Busy(e) == ent[e].state \in {"declaring", "tearing", "closing"}

IsolateFree == session # "closing" /\ \A e \in Entities : ~Busy(e)

FreeSlot(s) == CASE s = "allocated" -> "freed"
                 [] s = "none"      -> "none"
                 [] OTHER           -> "wild"

\* The first declaration of e.
Declare(e) ==
  /\ session = "open" /\ IsolateFree
  /\ ent[e].state = "unused"
  /\ \E form \in FormsOf[e] : \E c \in Main(form), wanted \in SUBSET Options(form) :
       LET slot == IF HasSlot(form) THEN "allocated" ELSE "none" IN
       \/ /\ ent' = [ent EXCEPT ![e] =
                       [form |-> form, slot |-> slot, wanted |-> wanted,
                        state |-> IF wanted = {} THEN "open" ELSE "declaring"]]
          /\ lis' = [lis EXCEPT ![e]["main"] = Accepted(c)]
       \/ \E l \in Failed(c) :
            /\ ent' = [ent EXCEPT ![e] =
                         [form |-> form, slot |-> FreeSlot(slot), wanted |-> {},
                          state |-> "refused"]]
            /\ lis' = [lis EXCEPT ![e]["main"] = abandon(l)]
  /\ UNCHANGED session

NextWanted(e) == IF "side" \in ent[e].wanted THEN "side" ELSE "detect"

\* Mutant: the teardown forgets the listeners declared earlier.
DeclareFurtherForgetful(e) ==
  /\ ent[e].state = "declaring"
  /\ LET role == NextWanted(e)
         c == Further(ent[e].form, role) IN
     \/ /\ lis' = [lis EXCEPT ![e][role] = Accepted(c)]
        /\ ent' = [ent EXCEPT ![e].wanted = @ \ {role},
                              ![e].state = IF ent[e].wanted = {role} THEN "open"
                                                              ELSE "declaring"]
     \/ \E l \in Failed(c) :
          /\ lis' = [lis EXCEPT ![e][role] = abandon(l)]
          /\ ent' = [ent EXCEPT ![e].wanted = {}, ![e].state = "tearing"]
  /\ UNCHANGED session

\* The declarations that follow.  A failure closes every port opened so far,
\* then undeclares the entity.
DeclareFurther(e) ==
  /\ ent[e].state = "declaring"
  /\ LET role == NextWanted(e)
         c == Further(ent[e].form, role) IN
     \/ /\ lis' = [lis EXCEPT ![e][role] = Accepted(c)]
        /\ ent' = [ent EXCEPT ![e].wanted = @ \ {role},
                              ![e].state = IF ent[e].wanted = {role} THEN "open"
                                                              ELSE "declaring"]
     \/ \E l \in Failed(c) :
          /\ lis' = [lis EXCEPT ![e] =
                       [r \in Roles |-> abandon(IF r = role THEN l ELSE @[r])]]
          /\ ent' = [ent EXCEPT ![e].wanted = {}, ![e].state = "tearing"]
  /\ UNCHANGED session

-----------------------------------------------------------------------------
(* Undeclaring.                                                            *)

Owned(l) == l.of.owner = "entity" /\ l.closure = "given"

\* zd_subscriber_drop and its siblings: zenoh gives up the closures that are
\* the entity's.  It waits for a running callback of the main listener; a
\* side listener is dropped when its callback has ended.
Undeclared(l) ==
  IF ~Owned(l) THEN l
  ELSE IF l.running THEN [l EXCEPT !.closure = "undeclared"] ELSE Drop(l)

UndeclareReturns(e) == ~(Owned(lis[e]["main"]) /\ lis[e]["main"].running)

\* Subscriber.close and the other close() methods, up to the native call that
\* undeclares.  A pull form drops its handler first.
Close(e) ==
  /\ IsolateFree
  /\ ent[e].state = "open" /\ HasSlot(ent[e].form)
  /\ ent' = [ent EXCEPT ![e].state = "closing"]
  /\ lis' = [lis EXCEPT ![e]["main"] = handler_drop(@)]
  /\ UNCHANGED session

\* The rest of a listener's end.
EndOf(r, l) ==
  IF r = "side" \/ IsTee(l.of) THEN abandon(tee_drop(Undeclared(l)))
                              ELSE closeAndDrain(Undeclared(l))

CloseReturn(e) ==
  /\ ent[e].state = "closing"
  /\ UndeclareReturns(e)
  /\ ent' = [ent EXCEPT ![e].state = "closed", ![e].slot = FreeSlot(@)]
  /\ lis' = [lis EXCEPT ![e] = [r \in Roles |-> EndOf(r, @[r])]]
  /\ UNCHANGED session

TearDownReturn(e) ==
  /\ ent[e].state = "tearing"
  /\ UndeclareReturns(e)
  /\ ent' = [ent EXCEPT ![e].state = "refused", ![e].slot = FreeSlot(@)]
  /\ lis' = [lis EXCEPT ![e] = [r \in Roles |-> Undeclared(@[r])]]
  /\ UNCHANGED session

\* The finalizer of a publisher nobody refers to; one with a matching
\* listener has none.
Collect(e) ==
  /\ ent[e].state = "open"
  /\ ent[e].form \in {"Publisher", "AdvancedPublisher"}
  /\ lis[e]["side"].port = "none"
  /\ ent' = [ent EXCEPT ![e].state = "closed", ![e].slot = FreeSlot(@)]
  /\ UNCHANGED <<session, lis>>

-----------------------------------------------------------------------------
(* The session.                                                            *)

SessionClose ==
  /\ session = "open" /\ IsolateFree
  /\ session' = "closing"
  /\ UNCHANGED <<ent, lis>>

\* It waits for the running callbacks and for the closures it owns.
SessionCloseReturn ==
  /\ session = "closing"
  /\ \A e \in Entities, r \in Roles :
       /\ ~lis[e][r].running
       /\ lis[e][r].closure = "given" => lis[e][r].of.owner = "entity"
  /\ session' = "closed"
  /\ UNCHANGED <<ent, lis>>

-----------------------------------------------------------------------------
(* zenoh's threads.                                                        *)

CallbackBegins(e, r) ==
  /\ session = "open"
  /\ lis[e][r].closure = "given" /\ ~lis[e][r].running
  /\ lis[e][r].posts < MaxPosts
  /\ lis' = [lis EXCEPT ![e][r].running = TRUE, ![e][r].posts = @ + 1]
  /\ UNCHANGED <<session, ent>>

\* The callback reads its context and posts.
CallbackEnds(e, r) ==
  /\ lis[e][r].running
  /\ lis' = [lis EXCEPT ![e][r] =
               [Callback(lis[e][r]) EXCEPT !.running = FALSE,
                 !.ctx = IF @ = "live" THEN @ ELSE "wild"]]
  /\ UNCHANGED <<session, ent>>

\* zenoh drops a closure: of a query that has ended, of a session that
\* closes, or of a listener whose entity was undeclared under its callback.
DropClosure(e, r) ==
  /\ ~lis[e][r].running
  /\ \/ lis[e][r].closure = "undeclared"
     \/ /\ lis[e][r].closure = "given"
        /\ session # "open" \/ lis[e][r].of.owner = "query"
  /\ lis' = [lis EXCEPT ![e][r] = Drop(@)]
  /\ UNCHANGED <<session, ent>>

-----------------------------------------------------------------------------
(* The isolate takes the next message of a port.                           *)

Taken(l) ==
  LET rest == [l EXCEPT !.queue = Tail(@)] IN
  CASE Head(l.queue) = "null"  -> [ClosePort(rest) EXCEPT !.done = TRUE]
    [] Head(l.queue) = "timer" -> ClosePort(rest)
    [] OTHER                   -> rest

TakeMessage(e, r) ==
  /\ IsolateFree
  /\ lis[e][r].queue # <<>>
  /\ lis' = [lis EXCEPT ![e][r] = Taken(@)]
  /\ UNCHANGED <<session, ent>>

-----------------------------------------------------------------------------
Init ==
  /\ session = "open"
  /\ ent = [e \in Entities |-> [form |-> "none", state |-> "unused",
                                slot |-> "none", wanted |-> {}]]
  /\ lis = [e \in Entities |-> [r \in Roles |-> NoListener]]

Zenoh(e, r) == CallbackBegins(e, r) \/ CallbackEnds(e, r) \/ DropClosure(e, r)

Next ==
  \/ \E e \in Entities :
       \/ Declare(e) \/ DeclareFurther(e) \/ TearDownReturn(e)
       \/ Close(e) \/ CloseReturn(e) \/ Collect(e)
  \/ SessionClose \/ SessionCloseReturn
  \/ \E e \in Entities, r \in Roles : Zenoh(e, r) \/ TakeMessage(e, r)

Spec == Init /\ [][Next]_vars

\* Calls that have begun go on, callbacks end, zenoh drops what it must, and
\* the event loop comes round to every port.
FairSpec ==
  /\ Spec
  /\ WF_vars(SessionCloseReturn)
  /\ \A e \in Entities :
       /\ WF_vars(DeclareFurther(e)) /\ WF_vars(TearDownReturn(e))
       /\ WF_vars(CloseReturn(e))
       /\ \A r \in Roles : /\ WF_vars(CallbackEnds(e, r))
                           /\ WF_vars(DropClosure(e, r))
                           /\ SF_vars(TakeMessage(e, r))

-----------------------------------------------------------------------------
(* Properties.                                                             *)

ListenerOK(l) ==
  /\ l.closure \in {"none", "given", "undeclared", "dropped"}
  /\ {l.ctx, l.handler} \subseteq {"none", "live", "freed", "wild"}
  /\ l.owners \in 0..2
  /\ {l.running, l.done, l.lost} \subseteq BOOLEAN
  /\ l.posts \in Nat
  /\ l.port \in {"none", "open", "closed"}
  /\ l.queue \in Seq({"handle", "copy", "null", "timer"})

\* The records are records of entities and of listeners.
TypeOK ==
  /\ session \in {"open", "closing", "closed"}
  /\ \A e \in Entities :
       /\ ent[e].form \in Forms \cup {"none"}
       /\ ent[e].state \in {"unused", "declaring", "open", "tearing", "refused",
                            "closing", "closed"}
       /\ ent[e].slot \in {"none", "allocated", "freed", "wild"}
       /\ ent[e].wanted \subseteq Roles
       /\ \A r \in Roles : ListenerOK(lis[e][r])

\* A context is freed once and after its last callback, and a slot is freed
\* once: whichever declaration was refused, whoever ends first, session or
\* entity, and whatever zenoh is delivering meanwhile.
FreedOnceAfterUse ==
  \A e \in Entities :
    /\ ent[e].slot # "wild"
    /\ \A r \in Roles : /\ "wild" \notin {lis[e][r].ctx, lis[e][r].handler}
                        /\ lis[e][r].running => lis[e][r].ctx = "live"

Over(e) == ent[e].state \in {"refused", "closed"}

\* A declaration of several parts is all or nothing, and so is its end: what
\* is left of an entity refused or closed is a side listener whose callback
\* was in progress, a port that waits for its deferred close, a query that has
\* not ended and, until the session does, publisher detection, which was the
\* session's from the start.  No context outlives its closure.
NothingLeftBehind ==
  \A e \in Entities : Over(e) =>
    /\ ent[e].slot \in {"none", "freed"}
    /\ \A r \in Roles :
         LET l == lis[e][r] IN
         /\ l.closure \in {"none", "dropped"}
              \/ (r = "side" /\ l.closure = "undeclared")
              \/ (l.of.owner \in {"session", "query"} /\ session # "closed"
                    /\ ent[e].state = "closed")
         /\ l.ctx = "live" => l.closure # "dropped"
         /\ l.handler # "live"
         /\ l.port = "open" => \E i \in 1..Len(l.queue) : l.queue[i] = "timer"

\* A stream that has ended stays silent for good: zenoh has dropped the
\* closure, or the application has closed the handle.  In particular the
\* stream of a handle does not end when the session does.
EndedForGood ==
  \A e \in Entities, r \in Roles :
    lis[e][r].done => Over(e) \/ ent[e].state \in {"tearing", "closing"}
                        \/ (lis[e][r].closure = "dropped"
                              /\ lis[e][r].of.owner # "entity")

\* A handle in a message is discarded only when publisher detection outlives
\* the AdvancedSubscriber that closed its port, or when a later part of its
\* declaration is refused.  Every other end drains the port first.
OnlyDetectionLoses ==
  \A e \in Entities, r \in Roles : lis[e][r].lost =>
    /\ ent[e].form = "AdvancedSubscriber"
    /\ r = "detect" \/ ent[e].state \in {"tearing", "refused"}

\* When the session closes, the streams it owns end.
BackgroundStreamsEnd ==
  \A e \in Entities, r \in Roles :
    (/\ session # "open" /\ lis[e][r].of.owner \in {"session", "query"}
     /\ ~IsTee(lis[e][r].of))
      ~> (lis[e][r].port # "open" /\ lis[e][r].done)

\* close() returns although callbacks are running, and nothing of the entity
\* stays: contexts, port and slot go back.
ClosedIsReclaimed ==
  \A e \in Entities :
    ent[e].state \in {"closing", "tearing"} ~>
      /\ ent[e].slot = "freed"
      /\ \A r \in Roles : /\ lis[e][r].port # "open"
                          /\ lis[e][r].of.owner # "session" =>
                               lis[e][r].ctx # "live"
=============================================================================
