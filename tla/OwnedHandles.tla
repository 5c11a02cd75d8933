---------------------------- MODULE OwnedHandles -----------------------------
(***************************************************************************)
(* The Dart wrappers over native values: who releases what, and when.      *)
(*                                                                         *)
(* A wrapper owns a slot, a block the isolate allocated, and the native    *)
(* value in it.  dispose() drops the value and frees the slot.  A send     *)
(* moves the value into zenoh, which leaves a gravestone in the slot, and  *)
(* markConsumed() then frees the slot alone.  A finalizer, the net, does   *)
(* what dispose() does for a wrapper the collector finds; every release by *)
(* hand must detach it, and what it detaches it must have released.        *)
(*                                                                         *)
(* All of this runs on the isolate, one call at a time, the finalizers     *)
(* between the calls: a call is an action.                                 *)
(***************************************************************************)
CONSTANTS
  Handles,    (* the wrappers of the application's run                     *)
  None        (* no wrapper: an argument left out                          *)

ASSUME OwnedHandlesAssumption == None \notin Handles

VARIABLE
  h           (* of each wrapper, a record:                                *)
              (*   kind     see Kinds                                      *)
              (*   state    "unused", "live", "consumed" (or finished, or  *)
              (*            undeclared), "disposed", "collected"           *)
              (*   slot     "none", "allocated", "freed", "wild"           *)
              (*   content  "none", "held", "moved" into another owner,    *)
              (*            "dropped", "wild"                              *)
              (*   net      the finalizer: "off", "drop" (value and slot), *)
              (*            "block" (the slot alone)                       *)
              (*   held     the application has a reference                *)
              (*   source   the wrapper it reads: of a cursor, its ZBytes   *)
              (*   eleven   marked consumed after return code 11 of        *)
              (*            zd_get_channel                                 *)

(* ZBytes; ZBytesWriter and ZSerializer; ZDeserializer; ShmMutBuffer;      *)
(* KeyExpr over an owned value and over a view of a string; Query.         *)
Kinds == {"bytes", "writer", "cursor", "shm", "keyexpr", "view", "query"}

Unused ==
  [kind |-> "none", state |-> "unused", slot |-> "none", content |-> "none",
   net |-> "off", held |-> FALSE, source |-> None, eleven |-> FALSE]

-----------------------------------------------------------------------------
(* What the calls do to one wrapper.  "wild" is the mark of a release of   *)
(* what has been released, or of a call on freed memory.                   *)

FreeSlot(r) ==
  [r EXCEPT !.slot = IF r.slot = "allocated" THEN "freed" ELSE "wild"]

\* zenoh moves or drops the value: of a gravestone, neither does anything.
Take(r, fate) ==
  [r EXCEPT !.content = IF r.slot # "allocated" THEN "wild"
                        ELSE IF r.content = "held" THEN fate ELSE r.content]

Detach(r) == [r EXCEPT !.net = "off"]

\* Which finalizer a kind gets.  A query gets none: its drop may post.
NetOf(k) == CASE k = "query" -> "off"
              [] k \in {"cursor", "view"} -> "block"
              [] OTHER -> "drop"

New(k, src) ==
  [kind |-> k, state |-> "live", slot |-> "allocated",
   content |-> IF k \in {"cursor", "view"} THEN "none" ELSE "held",
   net |-> NetOf(k), held |-> TRUE, source |-> src, eleven |-> FALSE]

\* Mutant: the block is freed with the finalizer still attached.
markConsumedAttached(r) ==
  IF r.state # "live" THEN r ELSE FreeSlot([r EXCEPT !.state = "consumed"])

markConsumed(r) ==
  IF r.state # "live" THEN r
  ELSE Detach(FreeSlot([r EXCEPT !.state = "consumed"]))

dispose(r) ==
  Detach(FreeSlot(Take([r EXCEPT !.state = "disposed"], "dropped")))

Finalize(r) == CASE r.net = "drop"  -> Detach(FreeSlot(Take(r, "dropped")))
                 [] r.net = "block" -> Detach(FreeSlot(r))
                 [] r.net = "off"   -> r

-----------------------------------------------------------------------------
(* The native entry points: what may come back, and what has become of the *)
(* payload and the attachment they were handed.                            *)

Sent     == [code |-> "ok",       fate |-> "moved"]
BadMime  == [code |-> "encoding", fate |-> "dropped"]
Refused  == [code |-> "canon",    fate |-> "dropped"]
NoMemory == [code |-> "memory",   fate |-> "dropped"]
Eleven   == [code |-> "eleven",   fate |-> "kept"]

zd_put == {Sent, BadMime, Refused}
zd_publisher_put == {Sent, BadMime, Refused}
zd_advanced_publisher_put == {Sent, BadMime, Refused}
zd_get == {Sent, BadMime, Refused, NoMemory}
zd_querier_get == {Sent, BadMime, Refused, NoMemory}
zd_get_channel == {Sent, BadMime, Refused, Eleven}
zd_querier_get_channel == {Sent, BadMime, Refused, Eleven}
zd_query_reply == {Sent, BadMime, Refused}
zd_query_reply_del == {Sent, Refused}
zd_query_reply_err == {Sent, BadMime, Refused}
zd_bytes_writer_append == {Sent, Refused}

Handed(r, result) ==
  IF result.fate = "kept" THEN r ELSE Take(r, result.fate)

-----------------------------------------------------------------------------
\* The guard of every accessor.  A cursor also asks whether its source lives.
Usable(i) ==
  /\ h[i].state = "live"
  /\ h[i].kind = "cursor" => h[h[i].source].state = "live"

\* The application has i, of kind k, and no accessor of it throws.
Has(i, k) == h[i].held /\ h[i].kind = k /\ Usable(i)

Sendable(x) == x = None \/ (x \in Handles /\ Has(x, "bytes"))

Free(i) == h[i].state = "unused"

(* The constructors.  The slot comes first, the net only when the entry    *)
(* point has filled it; a slot it refused to fill is freed.                *)

zd_bytes_copy_from_buf == {"filled", "refused"}
zd_bytes_writer_empty == {"filled"}
zd_serializer_empty == {"filled"}
zd_view_keyexpr_from_substr == {"filled", "refused"}
zd_keyexpr_from_substr_autocanonize == {"filled", "refused"}
zd_declare_keyexpr == {"filled", "refused"}
zd_keyexpr_from_substr == {"filled", "refused"}
zd_keyexpr_clone == {"filled"}
zd_keyexpr_concat == {"filled", "refused"}
zd_keyexpr_join == {"filled", "refused"}

\* Nothing is written for a rejected argument; otherwise the status selects
\* the one field that means anything.
zd_shm_provider_alloc ==
  {"filled", "alloc error", "layout error", "unknown status", "argument"}

Entries(k) == CASE k = "bytes"   -> zd_bytes_copy_from_buf
                [] k = "writer"  -> zd_bytes_writer_empty \cup zd_serializer_empty
                [] k = "shm"     -> zd_shm_provider_alloc
                [] k = "view"    -> zd_view_keyexpr_from_substr
                [] k = "keyexpr" -> zd_keyexpr_from_substr_autocanonize
                                      \cup zd_declare_keyexpr
                [] k = "query"   -> {"filled"}

Abandoned(k) ==
  FreeSlot([New(k, None) EXCEPT !.state = "disposed", !.content = "none",
                                !.net = "off", !.held = FALSE])

Constructed(k, outcome) ==
  IF outcome = "filled" THEN New(k, None) ELSE Abandoned(k)

\* The constructors of ZBytes, ZBytesWriter, ZSerializer and KeyExpr,
\* Session.declareKeyExpr, ShmProvider.alloc and its siblings; the Query a
\* queryable hands out.
Create(i, k) ==
  /\ Free(i)
  /\ k \in Kinds \ {"cursor"}
  /\ \E outcome \in Entries(k) : h' = [h EXCEPT ![i] = Constructed(k, outcome)]

HasKeyExpr(j) == Has(j, "keyexpr") \/ Has(j, "view")

\* Mutant: zenoh's clone, of a view too: it shares the string of the view.
CloneBorrowing(i, j) ==
  /\ Free(i)
  /\ HasKeyExpr(j)
  /\ h' = [h EXCEPT ![i] = [New("keyexpr", None) EXCEPT
                              !.source = IF h[j].kind = "view" THEN j ELSE None]]

\* KeyExpr.clone: a view does not own its string, so the string is copied.
CloneKeyExpr(i, j) ==
  /\ Free(i)
  /\ HasKeyExpr(j)
  /\ \E outcome \in IF h[j].kind = "view" THEN zd_keyexpr_from_substr
                                          ELSE zd_keyexpr_clone :
       h' = [h EXCEPT ![i] = Constructed("keyexpr", outcome)]

\* KeyExpr.concat, and KeyExpr.join with k, which is lent.
Concat(i, j) ==
  /\ Free(i)
  /\ HasKeyExpr(j)
  /\ \E outcome \in zd_keyexpr_concat :
       h' = [h EXCEPT ![i] = Constructed("keyexpr", outcome)]

Join(i, j, k) ==
  /\ Free(i)
  /\ HasKeyExpr(j) /\ HasKeyExpr(k)
  /\ \E outcome \in zd_keyexpr_join :
       h' = [h EXCEPT ![i] = Constructed("keyexpr", outcome)]

\* ZDeserializer(bytes).
NewCursor(i, b) ==
  /\ Free(i)
  /\ Has(b, "bytes")
  /\ h' = [h EXCEPT ![i] = New("cursor", b)]

-----------------------------------------------------------------------------
(* The sends.  A call that throws before the native entry point, for a     *)
(* closed carrier, a dead argument or a bad key expression, leaves every   *)
(* wrapper as it is.  Payload and attachment may be one ZBytes.            *)

Send(p, a, results) ==
  /\ Sendable(p) /\ Sendable(a)
  /\ \E result \in results :
       h' = [i \in Handles |-> IF i \in {p, a}
                               THEN markConsumed(Handed(h[i], result))
                               ELSE h[i]]

\* Session.putBytes.
PutBytes(p, a) == p # None /\ Send(p, a, zd_put)

\* Publisher.putBytes.
PublisherPutBytes(p, a) == p # None /\ Send(p, a, zd_publisher_put)

\* AdvancedPublisher.putBytes.
AdvancedPutBytes(p, a) == p # None /\ Send(p, a, zd_advanced_publisher_put)

\* Session.get.
Get(p, a) == {p, a} # {None} /\ Send(p, a, zd_get)

\* Querier.get.
QuerierGet(p, a) == {p, a} # {None} /\ Send(p, a, zd_querier_get)

\* Session.pullGet: marks on every code.
PullGet(p, a) ==
  /\ {p, a} # {None}
  /\ Sendable(p) /\ Sendable(a)
  /\ \E result \in zd_get_channel :
       h' = [i \in Handles |->
               IF i \in {p, a}
               THEN [markConsumed(Handed(h[i], result))
                       EXCEPT !.eleven = (result = Eleven)]
               ELSE h[i]]

\* Querier.pullGet: marks unless the code says that nothing was taken.
QuerierPullGet(p, a) ==
  /\ {p, a} # {None}
  /\ Sendable(p) /\ Sendable(a)
  /\ \E result \in zd_querier_get_channel :
       h' = [i \in Handles |->
               IF i \in {p, a} /\ result # Eleven
               THEN markConsumed(Handed(h[i], result))
               ELSE h[i]]

\* Query.replyBytes, replyDel (an attachment only), replyErrBytes (a payload
\* only), on a query that has not been disposed.
ReplyBytes(q, p, a) ==
  Has(q, "query") /\ p # None /\ Send(p, a, zd_query_reply)
ReplyDel(q, a) ==
  Has(q, "query") /\ Send(None, a, zd_query_reply_del)
ReplyErrBytes(q, p) ==
  Has(q, "query") /\ Send(p, None, zd_query_reply_err)

\* The methods that take a string wrap it in a ZBytes t of their own, which
\* nothing else refers to, and send that.
Wrapped == [New("bytes", None) EXCEPT !.held = FALSE]

SendText(t, a, results) ==
  /\ Free(t)
  /\ Sendable(a)
  /\ \E result \in results :
       h' = [i \in Handles |->
               CASE i = t -> markConsumed(Handed(Wrapped, result))
                 [] i = a -> markConsumed(Handed(h[i], result))
                 [] OTHER -> h[i]]

Put(t, a) == SendText(t, a, zd_put)
PublisherPut(t, a) == SendText(t, a, zd_publisher_put)
AdvancedPut(t, a) == SendText(t, a, zd_advanced_publisher_put)
Reply(q, t, a) == Has(q, "query") /\ SendText(t, a, zd_query_reply)
ReplyErr(q, t) == Has(q, "query") /\ SendText(t, None, zd_query_reply_err)

\* Query.reply wraps the string before replyBytes looks at the key expression
\* and at the attachment: if one is refused, only the net is left to t.
ReplyRefused(q, t) ==
  /\ Has(q, "query")
  /\ Free(t)
  /\ h' = [h EXCEPT ![t] = Wrapped]

-----------------------------------------------------------------------------
(* The other moves.                                                        *)

\* ZBytesWriter.append.
Append(w, b) ==
  /\ Has(w, "writer") /\ Has(b, "bytes")
  /\ \E result \in zd_bytes_writer_append :
       h' = [h EXCEPT ![b] = markConsumed(Handed(h[b], result))]

\* ZBytesWriter.finish and ZSerializer.finish.
Finish(w, b) ==
  /\ Has(w, "writer")
  /\ Free(b)
  /\ h' = [h EXCEPT ![w] = FreeSlot(Take(Detach([h[w] EXCEPT !.state = "consumed"]),
                                         "moved")),
                    ![b] = New("bytes", None)]

\* Mutant: the buffer keeps the finalizer that drops its chunk.
DowngradedLate(r) == [Take(r, "moved") EXCEPT !.state = "consumed"]

\* ShmMutBuffer.toBytes: the buffer keeps its slot, under the lesser net.
\* If zenoh refuses, the chunk is gone and there are no bytes.
Downgraded(r) ==
  [Take(r, "moved") EXCEPT !.state = "consumed", !.net = "block"]

ToBytes(s, b) ==
  /\ Has(s, "shm")
  /\ Free(b)
  /\ \/ h' = [h EXCEPT ![s] = Downgraded(h[s]), ![b] = New("bytes", None)]
     \/ h' = [h EXCEPT ![s] = Downgraded(h[s])]

\* Session.undeclareKeyExpr: consumed on every code, and a view is refused.
Undeclare(k) ==
  /\ Has(k, "keyexpr")
  /\ h' = [h EXCEPT ![k] = FreeSlot(Detach(Take([h[k] EXCEPT !.state = "consumed"],
                                                "moved")))]

-----------------------------------------------------------------------------
(* Release by hand.  On a wrapper that is not live dispose() does nothing, *)
(* or throws, except that a moved shared-memory buffer still has its slot. *)

DisposeBytes(i)  == Has(i, "bytes")  /\ h' = [h EXCEPT ![i] = dispose(@)]
DisposeWriter(i) == Has(i, "writer") /\ h' = [h EXCEPT ![i] = dispose(@)]
DisposeQuery(i)  == Has(i, "query")  /\ h' = [h EXCEPT ![i] = dispose(@)]
DisposeKeyExpr(i) ==
  /\ h[i].held /\ h[i].state = "live" /\ h[i].kind \in {"keyexpr", "view"}
  /\ h' = [h EXCEPT ![i] = dispose(@)]
DisposeCursor(i) ==
  /\ h[i].held /\ h[i].state = "live" /\ h[i].kind = "cursor"
  /\ h' = [h EXCEPT ![i] = dispose(@)]
DisposeShm(i) ==
  /\ h[i].held /\ h[i].kind = "shm" /\ h[i].state \in {"live", "consumed"}
  /\ h' = [h EXCEPT ![i] = IF h[i].state = "live" THEN dispose(@)
                           ELSE Detach(FreeSlot([@ EXCEPT !.state = "disposed"]))]

-----------------------------------------------------------------------------
(* The collector.                                                          *)

\* The application lets go of i.
Forget(i) == h[i].held /\ h' = [h EXCEPT ![i].held = FALSE]

\* A cursor keeps its source: the field _source.
Reachable(i) == h[i].held \/ \E c \in Handles : h[c].source = i /\ h[c].held

Collect(i) ==
  /\ h[i].state \in {"live", "consumed", "disposed"}
  /\ ~Reachable(i)
  /\ h' = [h EXCEPT ![i] = [Finalize(@) EXCEPT !.state = "collected"]]

-----------------------------------------------------------------------------
Init == h = [i \in Handles |-> Unused]

Arguments == Handles \cup {None}

Next ==
  \/ \E i \in Handles :
       \/ \E k \in Kinds : Create(i, k)
       \/ Undeclare(i) \/ Forget(i) \/ Collect(i)
       \/ DisposeBytes(i) \/ DisposeWriter(i) \/ DisposeQuery(i)
       \/ DisposeKeyExpr(i) \/ DisposeCursor(i) \/ DisposeShm(i)
  \/ \E i, j \in Handles :
       \/ CloneKeyExpr(i, j) \/ Concat(i, j)
       \/ \E k \in Handles : Join(i, j, k)
       \/ NewCursor(i, j) \/ Append(i, j) \/ Finish(i, j) \/ ToBytes(i, j)
       \/ ReplyDel(i, j) \/ ReplyErrBytes(i, j)
       \/ ReplyErr(i, j) \/ ReplyRefused(i, j)
  \/ \E p, a \in Arguments :
       \/ PutBytes(p, a) \/ PublisherPutBytes(p, a) \/ AdvancedPutBytes(p, a)
       \/ Get(p, a) \/ QuerierGet(p, a) \/ PullGet(p, a) \/ QuerierPullGet(p, a)
       \/ \E q \in Handles : ReplyBytes(q, p, a)
  \/ \E t \in Handles, a \in Arguments :
       \/ Put(t, a) \/ PublisherPut(t, a) \/ AdvancedPut(t, a)
       \/ \E q \in Handles : Reply(q, t, a)

Spec == Init /\ [][Next]_h

-----------------------------------------------------------------------------
(* Properties.                                                             *)

\* The records are records of wrappers, and a cursor has its source.
TypeOK ==
  h \in [Handles ->
          [kind : Kinds \cup {"none"},
           state : {"unused", "live", "consumed", "disposed", "collected"},
           slot : {"none", "allocated", "freed", "wild"},
           content : {"none", "held", "moved", "dropped", "wild"},
           net : {"off", "drop", "block"},
           held : BOOLEAN, source : Handles \cup {None}, eleven : BOOLEAN]]
  /\ \A i \in Handles : (h[i].kind = "cursor") <=> (h[i].source # None)

\* A release happens at most once: whatever the order of sends, dispose() and
\* collection, no slot is freed twice, and no native call is made on a freed
\* slot.  What is at stake is every detach in bytes.dart, bytes_writer.dart,
\* serializer.dart, keyexpr.dart and shm_mut_buffer.dart.
ReleasedOnce ==
  \A i \in Handles : h[i].slot # "wild" /\ h[i].content # "wild"

Backed(r) ==
  /\ r.slot = "allocated"
  /\ r.kind \notin {"cursor", "view"} => r.content = "held"

\* The guards of the accessors are enough: what they let through has its slot
\* and its value, and so has what it reads of another wrapper, a cursor of its
\* ZBytes, although the flags they look at are Dart's and the values are moved
\* and dropped in C.  A key expression made from another reads nothing of it.
UsableIsBacked ==
  \A i \in Handles : Usable(i) =>
    /\ Backed(h[i])
    /\ h[i].source # None => Backed(h[h[i].source])

\* Nothing the isolate owns is out of the net's reach, and the net reaches
\* nothing else: a slot has a finalizer exactly while it is allocated, and one
\* that drops the value exactly while the value is there to drop.  Queries are
\* left out by the code; the one exception is what Session.pullGet does of the
\* message after return code 11.
NetCoversAll ==
  \A i \in Handles : h[i].kind # "query" =>
    /\ (h[i].net # "off") <=> (h[i].slot = "allocated")
    /\ h[i].net = "drop" => h[i].content = "held"
    /\ h[i].content = "held" => h[i].net = "drop" \/ h[i].eleven

=============================================================================
