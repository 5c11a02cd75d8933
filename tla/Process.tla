------------------------------- MODULE Process -------------------------------
(***************************************************************************)
(* What isolates share because they share a process: zenoh's logging slot, *)
(* which the first initialisation owns for good, the text of zenoh's last  *)
(* error, which zenoh keeps per thread and never empties, and the          *)
(* enumeration of a session's peers or routers, whose length the network   *)
(* chooses.                                                                *)
(*                                                                         *)
(* A native call runs on one thread from its beginning to its end; between *)
(* two calls the VM may move an isolate to another thread.                 *)
(***************************************************************************)
EXTENDS Naturals, Sequences

CONSTANTS
  Isolates,
  Threads,      (* of the VM                                               *)
  UnstableApi,  (* the build has zc_get_last_error                         *)
  Texts,        (* the lengths an error's text may have                    *)
  BufferCaps,   (* the capacities a caller may give                        *)
  Peers,        (* the counts of peers a session may see                   *)
  MaxCalls,     (* bound: native calls of an isolate                       *)
  MaxRecords    (* bound: log records                                      *)

\* ZD_LAST_ERROR_CAP: four here, where the code has 512.
LastErrorCap == 4

ASSUME ProcessAssumption ==
  /\ UnstableApi \in BOOLEAN
  /\ Texts \cup BufferCaps \cup Peers \subseteq Nat
  /\ MaxCalls \in Nat /\ MaxRecords \in Nat

VARIABLES
  claimed,      (* zd_log_slot_claimed                                     *)
  slot,         (* whose zenoh's logging is: "none", "env", "sink"         *)
  port,         (* zd_log_sink_ctx.dart_port: the port's isolate, or None  *)
  records,      (* emitted to the sink: the isolate each was posted to     *)
  errors,       (* of each thread, zenoh's ERROR_DESCRIPTION               *)
  calls,        (* of each isolate, the native calls made                  *)
  call,         (* of each isolate, the native call it is in               *)
  sinks,        (* of each isolate: initLogWithSink has "returned" a       *)
                (*   stream, has only "thrown", or "none" of the two       *)
  told,         (* of each isolate, what its last call came back with      *)
  zidHeap       (* of each isolate, id buffers not released                *)

slotVars == <<claimed, slot, port>>
vars == <<slotVars, records, errors, calls, call, sinks, told, zidHeap>>

None == "none"
NoCall == [op |-> "none"]
NoText == [of |-> <<>>, len |-> 0]
Smaller(a, b) == IF a < b THEN a ELSE b

\* The calls of this model are told apart by isolate and number.
Id(i) == <<i, calls[i]>>

Ops == {"initLog", "initLogWithSink", "config", "provider", "other", "zids"}

\* The entries that return a detail.
Detailed == {"config", "provider"}

-----------------------------------------------------------------------------
(* Every call begins on a thread no other call is on.                      *)

Begin(i, op) ==
  /\ call[i] = NoCall
  /\ calls[i] < MaxCalls
  /\ calls' = [calls EXCEPT ![i] = @ + 1]
  /\ \E t \in Threads :
       /\ \A j \in Isolates : call[j] # NoCall => call[j].thread # t
       /\ \E cap \in IF op \in Detailed THEN BufferCaps ELSE {0},
             n \in IF op = "zids" THEN Peers ELSE {0} :
            call' = [call EXCEPT ![i] =
                       [op |-> op, thread |-> t, step |-> "begun", cap |-> cap,
                        peers |-> n, buf |-> "null", ids |-> <<>>, room |-> 0,
                        failed |-> FALSE, asked |-> 0]]
  /\ UNCHANGED <<slotVars, records, errors, sinks, told, zidHeap>>

In(i, op, step) == /\ call[i].op = op
                   /\ call[i].step = step

Goto(i, step) == call' = [call EXCEPT ![i].step = step]

\* The result of a call, and what the caller reads of its out-cells.
Return(i, rc, text, ids) ==
  /\ call' = [call EXCEPT ![i] = NoCall]
  /\ told' = [told EXCEPT ![i] =
                [id |-> Id(i), op |-> call[i].op, rc |-> rc, cap |-> call[i].cap,
                 text |-> text, peers |-> call[i].peers, ids |-> ids]]

-----------------------------------------------------------------------------
(* zd_init_log, and zd_init_log_with_callback: each claims the flag, then  *)
(* calls zenoh, which lets the first win and says nothing to the others.   *)

FirstWins(who) == slot' = IF slot = "none" THEN who ELSE slot

InitLogClaims(i) ==
  /\ In(i, "initLog", "begun")
  /\ claimed' = TRUE
  /\ Goto(i, "claimed")
  /\ UNCHANGED <<slot, port, records, errors, calls, sinks, told, zidHeap>>

InitLogInZenoh(i) ==
  /\ In(i, "initLog", "claimed")
  /\ FirstWins("env")
  /\ Return(i, 0, NoText, <<>>)
  /\ UNCHANGED <<claimed, port, records, errors, calls, sinks, zidHeap>>

\* The loser installs nothing: initLogWithSink closes its port and throws.
SinkRefused(i) ==
  /\ In(i, "initLogWithSink", "begun")
  /\ claimed
  /\ Return(i, 1, NoText, <<>>)
  /\ sinks' = [sinks EXCEPT ![i] = IF @ = "none" THEN "thrown" ELSE @]
  /\ UNCHANGED <<slotVars, records, errors, calls, zidHeap>>

\* Mutant: the flag is tested here and set after the installation.
SinkTests(i) ==
  /\ In(i, "initLogWithSink", "begun")
  /\ ~claimed
  /\ Goto(i, "claimed")
  /\ UNCHANGED <<slotVars, records, errors, calls, sinks, told, zidHeap>>

\* atomic_exchange found the flag clear.
SinkClaims(i) ==
  /\ In(i, "initLogWithSink", "begun")
  /\ ~claimed
  /\ claimed' = TRUE
  /\ Goto(i, "claimed")
  /\ UNCHANGED <<slot, port, records, errors, calls, sinks, told, zidHeap>>

SinkSetsPort(i) ==
  /\ In(i, "initLogWithSink", "claimed")
  /\ port' = i
  /\ Goto(i, "built")
  /\ UNCHANGED <<claimed, slot, records, errors, calls, sinks, told, zidHeap>>

SinkInZenoh(i) ==
  /\ In(i, "initLogWithSink", "built")
  /\ FirstWins("sink")
  /\ claimed' = TRUE
  /\ Return(i, 0, NoText, <<>>)
  /\ sinks' = [sinks EXCEPT ![i] = "returned"]
  /\ UNCHANGED <<port, records, errors, calls, zidHeap>>

\* _zd_log_call, on whichever thread of zenoh emits.
Emit ==
  /\ slot = "sink"
  /\ Len(records) < MaxRecords
  /\ records' = Append(records, port)
  /\ UNCHANGED <<slotVars, errors, calls, call, sinks, told, zidHeap>>

-----------------------------------------------------------------------------
(* The detail of a failure.                                                *)

\* zenoh reports an error on the calling thread.
Reported(i) ==
  \E n \in Texts :
    errors' = [errors EXCEPT ![call[i].thread] = [of |-> Id(i), len |-> n]]

\* A failing call without a detail.
OtherFails(i) ==
  /\ In(i, "other", "begun")
  /\ Reported(i)
  /\ Return(i, 1, NoText, <<>>)
  /\ UNCHANGED <<slotVars, records, calls, sinks, zidHeap>>

\* The out-length is 0 until the call has failed.
DetailCall(i, op) ==
  /\ In(i, op, "begun")
  /\ \/ /\ Return(i, 0, NoText, <<>>)
        /\ UNCHANGED errors
     \/ /\ Reported(i)
        /\ Goto(i, "failed")
        /\ UNCHANGED told
  /\ UNCHANGED <<slotVars, records, calls, sinks, zidHeap>>

\* zd_config_insert_json5 and the other four entries of Config.
ConfigCall(i) == DetailCall(i, "config")

\* The stable build does not have this one.
zd_shm_provider_new(i) == UnstableApi /\ DetailCall(i, "provider")

\* What the copy keeps: room for the terminator, and the shim's own clamp.
Copied(text, cap) ==
  IF ~UnstableApi \/ cap <= 1 THEN NoText
  ELSE [text EXCEPT !.len = Smaller(@, Smaller(cap - 1, LastErrorCap - 1))]

\* Mutant: the text is read back after the call, on the isolate's thread then.
ReadBackLater(i) ==
  /\ call[i] # NoCall /\ call[i].step = "failed"
  /\ \E t \in Threads :
       /\ \A j \in Isolates \ {i} : call[j] # NoCall => call[j].thread # t
       /\ Return(i, 1, Copied(errors[t], call[i].cap), <<>>)
  /\ UNCHANGED <<slotVars, records, errors, calls, sinks, zidHeap>>

\* _zd_capture_last_error, in the failing call, on its thread.
CaptureLastError(i) ==
  /\ call[i] # NoCall /\ call[i].step = "failed"
  /\ Return(i, 1, Copied(errors[call[i].thread], call[i].cap), <<>>)
  /\ UNCHANGED <<slotVars, records, errors, calls, sinks, zidHeap>>

-----------------------------------------------------------------------------
(* zd_info_peers_zid and zd_info_routers_zid.  zenoh calls back once per   *)
(* id, within the call.                                                    *)

NextRoom(c) == IF c.room = 0 THEN 1 ELSE c.room * 2

Collected(c) == [c EXCEPT !.ids = Append(@, c.asked + 1), !.asked = @ + 1]

\* Mutant: the result of realloc is assigned at once.
BufferLost(c) == [c EXCEPT !.failed = TRUE, !.asked = @ + 1, !.buf = "null"]

\* The buffer cannot grow: it stays as it is, and failed stays set.
GrowthFails(c) == [c EXCEPT !.failed = TRUE, !.asked = @ + 1]

\* The first growth allocates, the next ones move the buffer.
CollectZid(i) ==
  /\ In(i, "zids", "begun")
  /\ call[i].asked < call[i].peers
  /\ LET c == call[i] IN
     \/ /\ c.failed
        /\ call' = [call EXCEPT ![i].asked = @ + 1]
        /\ UNCHANGED zidHeap
     \/ /\ ~c.failed /\ Len(c.ids) < c.room
        /\ call' = [call EXCEPT ![i] = Collected(c)]
        /\ UNCHANGED zidHeap
     \/ /\ ~c.failed /\ Len(c.ids) = c.room
        /\ \/ /\ call' = [call EXCEPT ![i] =
                            Collected([c EXCEPT !.room = NextRoom(c),
                                                !.buf = "live"])]
              /\ zidHeap' = [zidHeap EXCEPT ![i] = IF c.buf = "live" THEN @
                                                                     ELSE @ + 1]
           \/ /\ call' = [call EXCEPT ![i] = GrowthFails(c)]
              /\ UNCHANGED zidHeap
  /\ UNCHANGED <<slotVars, records, errors, calls, sinks, told>>

\* free(NULL) does nothing.
Freed(i, buf) == [zidHeap EXCEPT ![i] = IF buf = "live" THEN @ - 1 ELSE @]

\* zenoh's call returns.  A failure, of the growth or of zenoh after its
\* callbacks, releases the buffer and leaves NULL and zero to the caller.
ZidsEnd(i) ==
  /\ In(i, "zids", "begun")
  /\ \E rc \in {0, 1} :
       /\ rc = 0 => call[i].asked = call[i].peers
       /\ IF call[i].failed \/ rc # 0
            THEN /\ call' = [call EXCEPT ![i] =
                               [@ EXCEPT !.step = "ended", !.failed = TRUE,
                                         !.buf = "null", !.ids = <<>>]]
                 /\ zidHeap' = Freed(i, call[i].buf)
            ELSE /\ Goto(i, "ended")
                 /\ UNCHANGED zidHeap
  /\ UNCHANGED <<slotVars, records, errors, calls, sinks, told>>

\* Session._collectZids reads the ids, or throws; zd_zid_list_drop in any case.
ReadZids(i) ==
  /\ In(i, "zids", "ended")
  /\ Return(i, IF call[i].failed THEN 11 ELSE 0, NoText, call[i].ids)
  /\ zidHeap' = Freed(i, call[i].buf)
  /\ UNCHANGED <<slotVars, records, errors, calls, sinks>>

-----------------------------------------------------------------------------
Init ==
  /\ claimed = FALSE /\ slot = "none" /\ port = None
  /\ records = <<>>
  /\ errors = [t \in Threads |-> NoText]
  /\ calls = [i \in Isolates |-> 0]
  /\ call = [i \in Isolates |-> NoCall]
  /\ sinks = [i \in Isolates |-> "none"]
  /\ told = [i \in Isolates |-> NoCall]
  /\ zidHeap = [i \in Isolates |-> 0]

InitLog(i) == InitLogClaims(i) \/ InitLogInZenoh(i)
InitLogWithSink(i) ==
  SinkRefused(i) \/ SinkClaims(i) \/ SinkSetsPort(i) \/ SinkInZenoh(i)
DetailEntry(i) ==
  ConfigCall(i) \/ zd_shm_provider_new(i) \/ CaptureLastError(i)
CollectZids(i) == CollectZid(i) \/ ZidsEnd(i) \/ ReadZids(i)

Next ==
  \/ Emit
  \/ \E i \in Isolates :
       \/ \E op \in Ops : Begin(i, op)
       \/ InitLog(i) \/ InitLogWithSink(i) \/ OtherFails(i)
       \/ DetailEntry(i) \/ CollectZids(i)

Spec == Init /\ [][Next]_vars

-----------------------------------------------------------------------------
(* Properties.                                                             *)

\* A call's text is nobody's until zenoh has reported on the thread.
TextType == [of : {<<>>} \cup (Isolates \X Nat), len : Nat]

CallType ==
  [op : Ops, thread : Threads,
   step : {"begun", "claimed", "built", "failed", "ended"}, cap : Nat,
   peers : Nat, buf : {"null", "live"}, ids : Seq(Nat), room : Nat,
   failed : BOOLEAN, asked : Nat]

ToldType ==
  [id : Isolates \X Nat, op : Ops, rc : Nat, cap : Nat, text : TextType,
   peers : Nat, ids : Seq(Nat)]

TypeOK ==
  /\ claimed \in BOOLEAN
  /\ slot \in {"none", "env", "sink"}
  /\ port \in Isolates \cup {None}
  /\ records \in Seq(Isolates \cup {None})
  /\ errors \in [Threads -> TextType]
  /\ calls \in [Isolates -> Nat]
  /\ call \in [Isolates -> CallType \cup {NoCall}]
  /\ sinks \in [Isolates -> {"none", "thrown", "returned"}]
  /\ told \in [Isolates -> ToldType \cup {NoCall}]
  /\ zidHeap \in [Isolates -> Nat]

\* An initLog that claimed the flag after a sink did, and reached zenoh first.
Overtaken == slot = "env"

\* Of the isolates that race for the slot one has a stream, and it is the one
\* every record goes to; one that was told the slot is taken never gets any.
\* Unless an initLog, which ignores the flag, overtook the sink in zenoh: then
\* the stream stays silent.
OneSink ==
  /\ \A i, j \in Isolates :
       sinks[i] = "returned" /\ sinks[j] = "returned" => i = j
  /\ \A i \in Isolates :
       /\ sinks[i] = "returned" => port = i /\ (slot = "sink" \/ Overtaken)
       /\ \A k \in 1..Len(records) : records[k] = i => sinks[i] = "returned"

\* The text an exception carries is zenoh's for that very call, whatever else
\* fails meanwhile and wherever the VM moves the isolates, and it fits, with
\* its terminator, into the buffer the caller gave.
DetailIsOwn ==
  \A i \in Isolates :
    told[i] # NoCall /\ told[i].text # NoText =>
      /\ told[i].text.of = told[i].id
      /\ told[i].text.len < told[i].cap
      /\ told[i].rc # 0

\* An enumeration yields every id or fails; it never stops short, failure is
\* not the empty list, and no buffer outlives it.
ZidsAreAll ==
  \A i \in Isolates :
    /\ told[i].op = "zids" =>
         told[i].ids = IF told[i].rc # 0 THEN <<>>
                       ELSE [k \in 1..told[i].peers |-> k]
    /\ call[i] = NoCall => zidHeap[i] = 0

=============================================================================
