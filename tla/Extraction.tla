----------------------------- MODULE Extraction ------------------------------
(***************************************************************************)
(* One value of zenoh's, read by the two receive surfaces.                 *)
(*                                                                         *)
(*  push: zenoh's thread runs a callback, which turns every field into an  *)
(*        element of a message.  The post copies what the elements borrow. *)
(*  pull: the isolate calls tryRecv, which takes the value out of its      *)
(*        channel and copies every field into a block the peer sized.      *)
(*                                                                         *)
(* A value has a column: a sample, an ok or an error reply, or a query.    *)
(* Any allocation of the pull side may fail, any conversion of the push    *)
(* side may be refused, and the port may be closed.  What is allocated on  *)
(* the way has to be released whatever happens, except for the handles the *)
(* application is given: a query, and a clone of the payload.              *)
(***************************************************************************)
EXTENDS Naturals, Sequences

CONSTANT Wires      (* the values: [Fields -> "absent", "empty" or "data"],  *)
                    (*   and a column                                      *)

Fields == {"keyexpr", "parameters", "payload", "encoding", "attachment",
           "timestamp", "zid"}

\* The fields a value of a column may have.  All have a payload but a query.
Columns ==
  [sample |-> Fields \ {"parameters", "zid"},
   ok     |-> Fields \ {"parameters"},
   error  |-> {"payload", "encoding", "zid"},
   query  |-> Fields \ {"timestamp", "zid"}]

ASSUME ExtractionAssumption ==
  \A w \in Wires :
    /\ DOMAIN w = Fields \cup {"column"}
    /\ w.column \in {"sample", "ok", "error", "query"}
    /\ \A f \in Fields : w[f] \in {"absent", "empty", "data"}
    /\ \A f \in Fields \ Columns[w.column] : w[f] = "absent"
    /\ w.column # "query" => w.payload # "absent"

VARIABLES
  wire,         (* the value                                               *)
  retain,       (* the application asked for a clone of the payload        *)
  at,           (* of each surface: the step it is at, 0 before it begins  *)
  outcome,      (* "none", "data", "failed", "undecodable", "refused"      *)
  heap,         (* of each surface and block: "none", "live", "freed", or  *)
                (*   "wild": released twice                                *)
  seen,         (* what Dart reads, a field each, or Unseen                *)
  app           (* the handles the application holds                       *)

readVars == <<wire, retain, at, outcome, heap, seen, app>>

-----------------------------------------------------------------------------
Surfaces == {"push", "pull"}

\* "value" is the sample, reply or query: on the pull side taken out of the
\* channel, on the push side zenoh's and lent.  "wrapper" is the block of a
\* query handed to Dart, and "clone" the query in it on the push side.
\* "payload" and "attachment" are slices on the push side.
Blocks == Fields \cup {"value", "wrapper", "clone", "encString", "retained",
                       "extra"}

Unseen == "unseen"
Crashed == "crashed"

Release(h, B) ==
  [b \in Blocks |-> IF b \notin B \/ h[b] = "none" THEN h[b]
                    ELSE IF h[b] = "live" THEN "freed" ELSE "wild"]

Claim(h, B) == [b \in Blocks |-> IF b \in B THEN "live" ELSE h[b]]

Present(f) == wire[f] # "absent"

-----------------------------------------------------------------------------
(* The pull side: one site per field.  "claims" is the block a site needs, *)
(* if this value makes it allocate one; "releases" is what the site gives  *)
(* back when malloc returns NULL; "temp" lives for the site only.          *)

Site(f, mallocs, releases) ==
  [claims |-> IF mallocs THEN {f} ELSE {}, releases |-> releases,
   temp |-> {}, guarded |-> TRUE]

EncodingSite(mallocs, releases) ==
  [Site("encoding", mallocs, releases) EXCEPT !.temp = {"encString"}]

\* A clone cannot fail.
CloneSite == Site("retained", retain, {})

\* zd_pull_subscriber_try_recv
SampleKeyexpr == Site("keyexpr", TRUE, {"value"})
SamplePayload == Site("payload", wire.payload = "data", {"keyexpr", "value"})

\* Mutant: no block for an encoding that renders to nothing.
EncodingIfAny ==
  EncodingSite(wire.encoding = "data", {"encString", "keyexpr", "payload", "value"})

SampleEncoding ==
  EncodingSite(TRUE, {"encString", "keyexpr", "payload", "value"})
SampleAttachment ==
  Site("attachment", Present("attachment"),
       {"keyexpr", "payload", "encoding", "value"})
\* This one does not test what malloc returns.
SampleTimestamp ==
  [Site("timestamp", Present("timestamp"), {}) EXCEPT !.guarded = FALSE]

\* Mutant: the clone is taken beside the copy of the payload.
CloneEarly == <<SampleKeyexpr, SamplePayload, CloneSite, SampleEncoding,
                SampleAttachment, SampleTimestamp>>

zd_pull_subscriber_try_recv ==
  <<SampleKeyexpr, SamplePayload, SampleEncoding, SampleAttachment,
    SampleTimestamp, CloneSite>>

\* zd_reply_channel_try_recv
reply_out_release ==
  {"keyexpr", "payload", "encoding", "attachment", "timestamp", "zid"}

ReplySite(f, mallocs) == Site(f, mallocs, reply_out_release \cup {"value"})

ReplyEncoding ==
  EncodingSite(TRUE, reply_out_release \cup {"value", "encString"})

ReplierZid == Site("zid", Present("zid"), {"value"})

OkReply ==
  <<ReplierZid, ReplySite("keyexpr", TRUE),
    ReplySite("payload", wire.payload = "data"), ReplyEncoding,
    ReplySite("attachment", Present("attachment")),
    ReplySite("timestamp", Present("timestamp")), CloneSite>>

ErrorReply ==
  <<ReplierZid, ReplySite("payload", wire.payload = "data"), ReplyEncoding>>

\* zd_query_channel_try_recv
ZD_QUERY_RECV_FAIL ==
  {"keyexpr", "parameters", "payload", "attachment", "encoding", "value",
   "wrapper"}

QuerySite(f, mallocs) == Site(f, mallocs, ZD_QUERY_RECV_FAIL)

zd_query_channel_try_recv ==
  <<Site("wrapper", TRUE, {"value"}),
    QuerySite("keyexpr", TRUE), QuerySite("parameters", TRUE),
    QuerySite("payload", Present("payload")),
    QuerySite("attachment", Present("attachment")),
    [QuerySite("encoding", Present("encoding"))
       EXCEPT !.releases = @ \cup {"encString"},
              !.temp = IF Present("encoding") THEN {"encString"} ELSE {}]>>

Sites == CASE wire.column = "sample" -> zd_pull_subscriber_try_recv
           [] wire.column = "ok"     -> OkReply
           [] wire.column = "error"  -> ErrorReply
           [] wire.column = "query"  -> zd_query_channel_try_recv

\* tryRecv zeroes its out-cells and finds the value in the handler of its
\* column and kind.  Without one it returns 1 or 2 and claims nothing.
Receive(columns) ==
  /\ at["pull"] = 0
  /\ wire.column \in columns
  /\ at' = [at EXCEPT !["pull"] = 1]
  /\ UNCHANGED <<wire, retain, outcome, heap, seen, app>>

ReceiveSample == Receive({"sample"})
ReceiveReply == Receive({"ok", "error"})
ReceiveQuery == Receive({"query"})

\* A site copies its field.
CopyField ==
  /\ at["pull"] \in DOMAIN Sites
  /\ LET site == Sites[at["pull"]] IN
     heap' = [heap EXCEPT !["pull"] =
                Release(Claim(@, site.claims \cup site.temp), site.temp)]
  /\ at' = [at EXCEPT !["pull"] = @ + 1]
  /\ UNCHANGED <<wire, retain, outcome, seen, app>>

\* malloc returns NULL: the call fails with -1 and tryRecv throws.  Dart
\* frees its own cells, and reads none of them.
CopyFails ==
  /\ at["pull"] \in DOMAIN Sites
  /\ LET site == Sites[at["pull"]] IN
     /\ site.claims \ {"retained"} # {}
     /\ IF site.guarded
          THEN /\ outcome' = [outcome EXCEPT !["pull"] = "failed"]
               /\ heap' = [heap EXCEPT !["pull"] =
                             Release(Claim(@, site.temp), site.releases)]
          ELSE /\ outcome' = [outcome EXCEPT !["pull"] = Crashed]
               /\ UNCHANGED heap
  /\ at' = [at EXCEPT !["pull"] = Len(Sites) + 2]
  /\ UNCHANGED <<wire, retain, seen, app>>

\* What tryRecv makes of the cells.
PullView(h) ==
  [f \in Fields |->
     IF h[f] = "live" THEN wire[f]
     ELSE IF f = "payload" /\ wire.column # "query" THEN "empty" ELSE "absent"]

\* The handles of a result.
Handles ==
  (IF wire.column = "query" THEN {"query"} ELSE {}) \cup
  (IF wire.column \in {"sample", "ok"} /\ retain THEN {"retained"} ELSE {})

\* Return 0.  A query's value stays in its wrapper, which is Dart's now; the
\* others are dropped.  Dart reads the cells, then frees what they point to.
PullReturns ==
  /\ at["pull"] = Len(Sites) + 1
  /\ at' = [at EXCEPT !["pull"] = @ + 1]
  /\ outcome' = [outcome EXCEPT !["pull"] = "data"]
  /\ seen' = [seen EXCEPT !["pull"] = PullView(heap["pull"])]
  /\ app' = [app EXCEPT !["pull"] = Handles]
  /\ heap' = [heap EXCEPT !["pull"] =
                Release(@, Fields \cup
                             IF wire.column = "query" THEN {} ELSE {"value"})]
  /\ UNCHANGED <<wire, retain>>

-----------------------------------------------------------------------------
(* The push side: the steps of a callback, in the order of its code.       *)

sample_callback ==
  <<"encode", "payload", "attachment", "retain", "post", "clean">>
query_callback ==
  <<"clone", "payload", "attachment", "encode", "post", "clean">>
ok_reply_callback ==
  <<"encode", "payload", "attachment", "retain", "post", "clean">>
error_reply_callback == <<"encode", "payload", "post", "clean">>

Steps == CASE wire.column = "sample" -> sample_callback
           [] wire.column = "ok"     -> ok_reply_callback
           [] wire.column = "error"  -> error_reply_callback
           [] wire.column = "query"  -> query_callback

CallbackBegins ==
  /\ at["push"] = 0
  /\ at' = [at EXCEPT !["push"] = 1]
  /\ UNCHANGED <<wire, retain, outcome, heap, seen, app>>

Step(s) ==
  /\ at["push"] \in DOMAIN Steps
  /\ Steps[at["push"]] = s
  /\ UNCHANGED <<wire, retain>>

StepDone == at' = [at EXCEPT !["push"] = @ + 1]

\* The callback returns: zenoh drops the value it lent.
CallbackEnds(h) ==
  /\ at' = [at EXCEPT !["push"] = Len(Steps) + 1]
  /\ heap' = [heap EXCEPT !["push"] = Release(h, {"value"})]

\* Only a query is cloned; without memory it is not delivered.
CloneQuery ==
  /\ Step("clone")
  /\ \/ /\ heap' = [heap EXCEPT !["push"] = Claim(@, {"wrapper", "clone"})]
        /\ StepDone
        /\ UNCHANGED outcome
     \/ /\ CallbackEnds(heap["push"])
        /\ outcome' = [outcome EXCEPT !["push"] = "failed"]
  /\ UNCHANGED <<seen, app>>

\* z_encoding_to_string makes a string the message borrows.
Encode ==
  /\ Step("encode")
  /\ heap' = [heap EXCEPT !["push"] =
                Claim(@, IF Present("encoding") THEN {"encString"} ELSE {})]
  /\ StepDone
  /\ UNCHANGED <<outcome, seen, app>>

\* What becomes of a field of bytes: no element if it is absent.
bytes_to_cobject(f) ==
  IF ~Present(f) THEN {"null"}
  ELSE IF wire[f] = "empty" THEN {"EMPTY"} ELSE {"SLICE", "FAILED"}

\* The elements are kept in "seen" until the post.
Convert(f) ==
  /\ Step(f)
  /\ \E conv \in bytes_to_cobject(f) :
       /\ seen' = [seen EXCEPT !["push"] = [@ EXCEPT ![f] = conv]]
       /\ heap' = [heap EXCEPT !["push"] =
                     Claim(@, IF conv = "SLICE" THEN {f} ELSE {})]
  /\ StepDone
  /\ UNCHANGED <<outcome, app>>

Retain ==
  /\ Step("retain")
  /\ heap' = [heap EXCEPT !["push"] = Claim(@, IF retain THEN {"retained"} ELSE {})]
  /\ StepDone
  /\ UNCHANGED <<outcome, seen, app>>

\* The post copies the elements: "garbage" is a copy out of released storage.
PushView ==
  [f \in Fields |->
     CASE f \in {"payload", "attachment"} ->
            (CASE seen["push"][f] = "null"  -> "absent"
               [] seen["push"][f] = "EMPTY" -> "empty"
               [] seen["push"][f] = "SLICE" ->
                    IF heap["push"][f] = "live" THEN wire[f] ELSE "garbage"
               [] seen["push"][f] = "FAILED" -> "undecodable")
       [] f = "encoding" /\ Present(f) /\ heap["push"]["encString"] # "live" ->
            "garbage"
       [] OTHER -> wire[f]]

\* Port closed: the callback takes back what the message would transfer.
TakenBack == {"wrapper", "clone", "retained"}

\* Dart's listener hands the value on, or an error if an element is one; the
\* handles in such a message are nobody's.
Post ==
  /\ Step("post")
  /\ \/ /\ IF \E f \in Fields : PushView[f] = "undecodable"
             THEN /\ outcome' = [outcome EXCEPT !["push"] = "undecodable"]
                  /\ seen' = [seen EXCEPT !["push"] = [f \in Fields |-> Unseen]]
                  /\ UNCHANGED app
             ELSE /\ outcome' = [outcome EXCEPT !["push"] = "data"]
                  /\ seen' = [seen EXCEPT !["push"] = PushView]
                  /\ app' = [app EXCEPT !["push"] = Handles]
        /\ UNCHANGED heap
     \/ /\ outcome' = [outcome EXCEPT !["push"] = "refused"]
        /\ seen' = [seen EXCEPT !["push"] = [f \in Fields |-> Unseen]]
        /\ heap' = [heap EXCEPT !["push"] = Release(@, TakenBack)]
        /\ UNCHANGED app
  /\ StepDone

\* Mutant: the cleanup drops the clone the message has transferred.
CleanAll ==
  /\ Step("clean")
  /\ CallbackEnds(Release(heap["push"],
                          {"payload", "attachment", "encString", "retained"}))
  /\ UNCHANGED <<outcome, seen, app>>

Clean ==
  /\ Step("clean")
  /\ CallbackEnds(Release(heap["push"], {"payload", "attachment", "encString"}))
  /\ UNCHANGED <<outcome, seen, app>>

-----------------------------------------------------------------------------
(* The application.                                                        *)

\* Query.payloadZBytes, through zd_query_payload_clone: at most once, and
\* none for a query without a payload.
PayloadZBytes(s) ==
  /\ "query" \in app[s]
  /\ Present("payload") /\ heap[s]["extra"] = "none"
  /\ heap' = [heap EXCEPT ![s] = Claim(@, {"extra"})]
  /\ app' = [app EXCEPT ![s] = @ \cup {"extra"}]
  /\ UNCHANGED <<wire, retain, at, outcome, seen>>

\* Query.dispose, through zd_query_drop: the query and its block.
DisposeQuery(s) ==
  /\ "query" \in app[s]
  /\ heap' = [heap EXCEPT ![s] =
                Release(@, {"wrapper", IF s = "push" THEN "clone" ELSE "value"})]
  /\ app' = [app EXCEPT ![s] = @ \ {"query"}]
  /\ UNCHANGED <<wire, retain, at, outcome, seen>>

\* ZBytes.dispose, or its finalizer.
DisposeBytes(s, b) ==
  /\ b \in app[s]
  /\ heap' = [heap EXCEPT ![s] = Release(@, {b})]
  /\ app' = [app EXCEPT ![s] = @ \ {b}]
  /\ UNCHANGED <<wire, retain, at, outcome, seen>>

-----------------------------------------------------------------------------
ReadInit ==
  /\ wire \in Wires
  /\ retain \in BOOLEAN
  /\ at = [s \in Surfaces |-> 0]
  /\ outcome = [s \in Surfaces |-> "none"]
  /\ heap = [s \in Surfaces |-> Claim([b \in Blocks |-> "none"], {"value"})]
  /\ seen = [s \in Surfaces |-> [f \in Fields |-> "null"]]
  /\ app = [s \in Surfaces |-> {}]

ReadNext ==
  /\ outcome["pull"] # Crashed
  /\ \/ ReceiveSample \/ ReceiveReply \/ ReceiveQuery
     \/ CopyField \/ CopyFails \/ PullReturns
     \/ CallbackBegins \/ CloneQuery \/ Encode \/ Retain \/ Post \/ Clean
     \/ \E f \in {"payload", "attachment"} : Convert(f)
     \/ \E s \in Surfaces :
          \/ PayloadZBytes(s) \/ DisposeQuery(s)
          \/ \E b \in {"retained", "extra"} : DisposeBytes(s, b)

ReadSpec == ReadInit /\ [][ReadNext]_readVars

-----------------------------------------------------------------------------
(* Properties.                                                             *)

\* A value that arrives is the peer's, field by field, on either surface and
\* whatever failed on the way: an absent field is not an empty one, and
\* neither stands for a field that could not be converted or copied.
SurfacesAgree ==
  \A s \in Surfaces :
    outcome[s] = "data" => seen[s] = [f \in Fields |-> wire[f]]

\* The blocks behind the application's handles.
Held(s) ==
  (IF "query" \in app[s]
     THEN {"wrapper", IF s = "push" THEN "clone" ELSE "value"} ELSE {})
  \cup (app[s] \ {"query"})

\* No block is released twice, and what the application holds is not released
\* by anyone else: a clone of the payload outlives the query it came from.
ReleasedByItsOwner ==
  \A s \in Surfaces :
    /\ \A b \in Blocks : heap[s][b] # "wild"
    /\ \A b \in Held(s) : heap[s][b] = "live"

Ended(s) ==
  /\ outcome[s] # Crashed
  /\ at[s] = IF s = "pull" THEN Len(Sites) + 2 ELSE Len(Steps) + 1

\* Whichever allocation or conversion failed, and if the port was closed, the
\* call leaves nothing behind but the application's handles.  The exception
\* is a message with a field that could not be converted: Dart drops it with
\* the handles it carries.
NothingLeaked ==
  \A s \in Surfaces : Ended(s) =>
    \A b \in Blocks : heap[s][b] = "live" =>
      \/ b \in Held(s)
      \/ outcome[s] = "undecodable" /\ b \in {"wrapper", "clone", "retained"}

=============================================================================
