---------------------------- MODULE ProcessProofs ----------------------------
(***************************************************************************)
(* Theorems about Process, for every number of isolates and threads, every *)
(* length of text and buffer, and every number of peers.                   *)
(***************************************************************************)
EXTENDS Process, TLAPS

-----------------------------------------------------------------------------
(* The inductive invariant, in named parts.                                *)

\* A sink's initialisation that has taken the flag and not returned.
InSink(i) == call[i].op = "initLogWithSink" /\ call[i].step \in {"claimed", "built"}

Owns(i) == InSink(i) \/ sinks[i] = "returned"

\* One isolate at most owns the slot, from the moment it takes the flag.
SlotInv ==
  /\ \A i \in Isolates : Owns(i) => claimed
  /\ \A i, j \in Isolates : Owns(i) /\ Owns(j) => i = j
  /\ \A i \in Isolates :
       call[i].op = "initLogWithSink" /\ call[i].step = "built" => port = i
  /\ \A i \in Isolates : sinks[i] = "returned" => port = i /\ slot # "none"
  /\ slot = "sink" => port \in Isolates /\ sinks[port] = "returned"
  /\ \A i \in Isolates, k \in 1..Len(records) :
       records[k] = i => sinks[i] = "returned"

\* No two calls are on one thread, so what a failing call left there is its own.
ThreadInv ==
  /\ \A i, j \in Isolates :
       i # j /\ call[i] # NoCall /\ call[j] # NoCall =>
         call[i].thread # call[j].thread
  /\ \A i \in Isolates :
       call[i] # NoCall /\ call[i].step = "failed" =>
         errors[call[i].thread].of = Id(i)

\* What a call in progress has collected, and whether it holds a buffer.
Collection(c) ==
  /\ c.op # "zids" => c.buf = "null"
  /\ c.op = "zids" =>
       /\ c.step \in {"begun", "ended"}
       /\ ~c.failed => /\ Len(c.ids) = c.asked
                       /\ \A k \in 1..c.asked : c.ids[k] = k
       /\ c.step = "ended" => IF c.failed THEN c.ids = <<>>
                                          ELSE c.asked = c.peers

Held(c) == IF c.buf = "live" THEN 1 ELSE 0

ZidInv ==
  \A i \in Isolates :
    /\ call[i] # NoCall => Collection(call[i]) /\ zidHeap[i] = Held(call[i])
    /\ call[i] = NoCall => zidHeap[i] = 0

\* What the last call of every isolate came back with.
ToldInv ==
  \A i \in Isolates :
    told[i] # NoCall =>
      /\ told[i].text # NoText => /\ told[i].text.of = told[i].id
                                 /\ told[i].text.len < told[i].cap
                                 /\ told[i].rc # 0
      /\ told[i].op = "zids" =>
           told[i].ids = IF told[i].rc # 0 THEN <<>>
                         ELSE [k \in 1..told[i].peers |-> k]

IInv == TypeOK /\ SlotInv /\ ThreadInv /\ ZidInv /\ ToldInv

-----------------------------------------------------------------------------
(* Types.                                                                  *)

LEMMA InCall ==
  ASSUME TypeOK, NEW i \in Isolates, call[i].op \in Ops
  PROVE  call[i] \in CallType /\ call[i] # NoCall
  <1>1. NoCall.op = "none"
    BY DEF NoCall
  <1>2. "none" \notin Ops
    BY DEF Ops
  <1>3. QED
    BY <1>1, <1>2 DEF TypeOK

LEMMA NoTextType == NoText \in TextType
  BY DEF NoText, TextType

LEMMA CopiedType ==
  ASSUME NEW text \in TextType, NEW cap \in Nat
  PROVE  /\ Copied(text, cap) \in TextType
         /\ Copied(text, cap) # NoText =>
              Copied(text, cap).of = text.of /\ Copied(text, cap).len < cap
  <1>1. CASE ~UnstableApi \/ cap <= 1
    BY <1>1, NoTextType DEF Copied
  <1>2. CASE UnstableApi /\ cap > 1
    <2> DEFINE n == Smaller(text.len, Smaller(cap - 1, LastErrorCap - 1))
    <2>1. n \in Nat /\ n < cap
      BY <1>2 DEF TextType, Smaller, LastErrorCap
    <2>2. Copied(text, cap) = [text EXCEPT !.len = n]
      BY <1>2 DEF Copied
    <2>3. QED
      BY <2>1, <2>2 DEF TextType
  <1>3. QED
    BY <1>1, <1>2

\* A call's return: what it changes keeps its type.
LEMMA ReturnType ==
  ASSUME TypeOK, NEW i \in Isolates, call[i] \in CallType,
         NEW rc \in Nat, NEW text \in TextType, NEW ids \in Seq(Nat),
         Return(i, rc, text, ids)
  PROVE  /\ call' \in [Isolates -> CallType \cup {NoCall}]
         /\ told' \in [Isolates -> ToldType \cup {NoCall}]
  <1>1. call' \in [Isolates -> CallType \cup {NoCall}]
    BY DEF Return, TypeOK
  <1>2. Id(i) \in Isolates \X Nat
    BY DEF Id, TypeOK
  <1>3. [id |-> Id(i), op |-> call[i].op, rc |-> rc, cap |-> call[i].cap,
         text |-> text, peers |-> call[i].peers, ids |-> ids] \in ToldType
    BY <1>2 DEF ToldType, CallType
  <1>4. QED
    BY <1>1, <1>3 DEF Return, TypeOK

LEMMA GotoType ==
  ASSUME TypeOK, NEW i \in Isolates, call[i] \in CallType,
         NEW step \in {"begun", "claimed", "built", "failed", "ended"},
         Goto(i, step)
  PROVE  call' \in [Isolates -> CallType \cup {NoCall}]
  <1>1. [call[i] EXCEPT !.step = step] \in CallType
    BY DEF CallType
  <1>2. call' = [call EXCEPT ![i] = [call[i] EXCEPT !.step = step]]
    BY DEF Goto, TypeOK
  <1>3. QED
    BY <1>1, <1>2 DEF TypeOK

LEMMA EmptySeq == <<>> \in Seq(Nat)
  OBVIOUS

\* The steps that begin a call or belong to the logging slot.
LEMMA TypeSlot ==
  ASSUME TypeOK, NEW i \in Isolates, InitLog(i) \/ InitLogWithSink(i)
  PROVE  TypeOK'
  <1>1. call[i].op \in {"initLog", "initLogWithSink"}
    BY DEF InitLog, InitLogWithSink, InitLogClaims, InitLogInZenoh, SinkRefused,
           SinkClaims, SinkSetsPort, SinkInZenoh, In
  <1>2. call[i] \in CallType
    BY <1>1, InCall DEF Ops
  <1> USE <1>2, GotoType, ReturnType, NoTextType, EmptySeq
  <1>3. CASE InitLogClaims(i)
    <2>1. call' \in [Isolates -> CallType \cup {NoCall}]
      BY <1>3 DEF InitLogClaims
    <2>2. QED
      BY <1>3, <2>1 DEF InitLogClaims, TypeOK
  <1>4. CASE InitLogInZenoh(i)
    <2>1. /\ call' \in [Isolates -> CallType \cup {NoCall}]
          /\ told' \in [Isolates -> ToldType \cup {NoCall}]
      BY <1>4 DEF InitLogInZenoh
    <2>2. QED
      BY <1>4, <2>1 DEF InitLogInZenoh, FirstWins, TypeOK
  <1>5. CASE SinkRefused(i)
    <2>1. /\ call' \in [Isolates -> CallType \cup {NoCall}]
          /\ told' \in [Isolates -> ToldType \cup {NoCall}]
      BY <1>5 DEF SinkRefused
    <2>2. QED
      BY <1>5, <2>1 DEF SinkRefused, slotVars, TypeOK
  <1>6. CASE SinkClaims(i)
    <2>1. call' \in [Isolates -> CallType \cup {NoCall}]
      BY <1>6 DEF SinkClaims
    <2>2. QED
      BY <1>6, <2>1 DEF SinkClaims, TypeOK
  <1>7. CASE SinkSetsPort(i)
    <2>1. call' \in [Isolates -> CallType \cup {NoCall}]
      BY <1>7 DEF SinkSetsPort
    <2>2. QED
      BY <1>7, <2>1 DEF SinkSetsPort, TypeOK
  <1>8. CASE SinkInZenoh(i)
    <2>1. /\ call' \in [Isolates -> CallType \cup {NoCall}]
          /\ told' \in [Isolates -> ToldType \cup {NoCall}]
      BY <1>8 DEF SinkInZenoh
    <2>2. QED
      BY <1>8, <2>1 DEF SinkInZenoh, FirstWins, TypeOK
  <1>9. QED
    BY <1>3, <1>4, <1>5, <1>6, <1>7, <1>8 DEF InitLog, InitLogWithSink

LEMMA TypeBegin ==
  ASSUME TypeOK, NEW i \in Isolates, NEW op \in Ops, Begin(i, op)
  PROVE  TypeOK'
  <1>1. PICK t \in Threads, cap \in Nat, n \in Nat :
          call' = [call EXCEPT ![i] =
                     [op |-> op, thread |-> t, step |-> "begun", cap |-> cap,
                      peers |-> n, buf |-> "null", ids |-> <<>>, room |-> 0,
                      failed |-> FALSE, asked |-> 0]]
    BY ProcessAssumption DEF Begin
  <1>2. [op |-> op, thread |-> t, step |-> "begun", cap |-> cap, peers |-> n,
         buf |-> "null", ids |-> <<>>, room |-> 0, failed |-> FALSE,
         asked |-> 0] \in CallType
    BY EmptySeq DEF CallType
  <1>3. call' \in [Isolates -> CallType \cup {NoCall}]
    BY <1>1, <1>2 DEF TypeOK
  <1>4. calls' \in [Isolates -> Nat]
    BY DEF Begin, TypeOK
  <1>5. QED
    BY <1>3, <1>4 DEF Begin, slotVars, TypeOK

LEMMA ReportedType ==
  ASSUME TypeOK, NEW i \in Isolates, call[i] \in CallType, Reported(i)
  PROVE  /\ errors' \in [Threads -> TextType]
         /\ errors'[call[i].thread].of = Id(i)
         /\ \A t \in Threads : t # call[i].thread => errors'[t] = errors[t]
  <1>1. PICK n \in Texts :
          errors' = [errors EXCEPT ![call[i].thread] = [of |-> Id(i), len |-> n]]
    BY DEF Reported
  <1>2. [of |-> Id(i), len |-> n] \in TextType
    BY ProcessAssumption DEF TextType, Id, TypeOK
  <1>3. call[i].thread \in Threads
    BY DEF CallType
  <1>4. QED
    BY <1>1, <1>2, <1>3 DEF TypeOK

\* The steps of the calls that may fail with a text.
LEMMA TypeDetail ==
  ASSUME TypeOK, NEW i \in Isolates, OtherFails(i) \/ DetailEntry(i)
  PROVE  TypeOK'
  <1> USE GotoType, ReturnType, NoTextType, EmptySeq, ReportedType
  <1>1. CASE OtherFails(i)
    <2>1. call[i] \in CallType
      BY <1>1, InCall DEF OtherFails, In, Ops
    <2>2. /\ call' \in [Isolates -> CallType \cup {NoCall}]
          /\ told' \in [Isolates -> ToldType \cup {NoCall}]
          /\ errors' \in [Threads -> TextType]
      BY <1>1, <2>1 DEF OtherFails
    <2>3. QED
      BY <1>1, <2>2 DEF OtherFails, slotVars, TypeOK
  <1>2. ASSUME NEW op \in Ops, DetailCall(i, op)
        PROVE  TypeOK'
    <2>1. call[i] \in CallType
      BY <1>2, InCall DEF DetailCall, In
    <2>2. /\ call' \in [Isolates -> CallType \cup {NoCall}]
          /\ told' \in [Isolates -> ToldType \cup {NoCall}]
          /\ errors' \in [Threads -> TextType]
      <3>1. CASE Return(i, 0, NoText, <<>>) /\ UNCHANGED errors
        BY <2>1, <3>1 DEF TypeOK
      <3>2. CASE Reported(i) /\ Goto(i, "failed") /\ UNCHANGED told
        BY <2>1, <3>2 DEF TypeOK
      <3>3. QED
        BY <1>2, <3>1, <3>2 DEF DetailCall
    <2>3. QED
      BY <1>2, <2>2 DEF DetailCall, slotVars, TypeOK
  <1>3. CASE CaptureLastError(i)
    <2>1. call[i] \in CallType
      BY <1>3 DEF CaptureLastError, TypeOK
    <2>2. Copied(errors[call[i].thread], call[i].cap) \in TextType
      BY <2>1, CopiedType DEF CallType, TypeOK
    <2>3. /\ call' \in [Isolates -> CallType \cup {NoCall}]
          /\ told' \in [Isolates -> ToldType \cup {NoCall}]
      BY <1>3, <2>1, <2>2 DEF CaptureLastError
    <2>4. QED
      BY <1>3, <2>3 DEF CaptureLastError, slotVars, TypeOK
  <1>4. QED
    BY <1>1, <1>2, <1>3 DEF DetailEntry, ConfigCall, zd_shm_provider_new, Ops

\* Sequences of ids.
LEMMA OneMore ==
  ASSUME NEW s \in Seq(Nat), NEW n \in Nat, Len(s) = n,
         \A k \in 1..n : s[k] = k
  PROVE  /\ Append(s, n + 1) \in Seq(Nat)
         /\ Len(Append(s, n + 1)) = n + 1
         /\ \A k \in 1..(n + 1) : Append(s, n + 1)[k] = k
  OBVIOUS

\* Two of the ways a callback may leave a call.
LEMMA CollectedType ==
  ASSUME NEW c \in CallType
  PROVE  /\ Collected(c) \in CallType
         /\ Collected(c).op = c.op /\ Collected(c).step = c.step
         /\ Collected(c).thread = c.thread /\ Collected(c).buf = c.buf
         /\ Collected(c).failed = c.failed
         /\ Collected(c).asked = c.asked + 1
         /\ Collected(c).ids = Append(c.ids, c.asked + 1)
  <1>1. c.ids \in Seq(Nat) /\ c.asked \in Nat
    BY DEF CallType
  <1>2. Append(c.ids, c.asked + 1) \in Seq(Nat) /\ c.asked + 1 \in Nat
    BY <1>1
  <1> DEFINE s == Append(c.ids, c.asked + 1)
             n == c.asked + 1
  <1>3. Collected(c) = [[c EXCEPT !.ids = s] EXCEPT !.asked = n]
    BY DEF Collected, CallType
  <1>4. s \in Seq(Nat) /\ n \in Nat
    BY <1>2
  <1> HIDE DEF s, n
  <1>5. /\ Collected(c) \in CallType
        /\ Collected(c).op = c.op /\ Collected(c).step = c.step
        /\ Collected(c).thread = c.thread /\ Collected(c).buf = c.buf
        /\ Collected(c).failed = c.failed
        /\ Collected(c).asked = n
        /\ Collected(c).ids = s
    BY <1>3, <1>4 DEF CallType
  <1>6. QED
    BY <1>5 DEF s, n

LEMMA GrowthFailsType ==
  ASSUME NEW c \in CallType
  PROVE  /\ GrowthFails(c) \in CallType
         /\ GrowthFails(c).op = c.op /\ GrowthFails(c).step = c.step
         /\ GrowthFails(c).thread = c.thread /\ GrowthFails(c).buf = c.buf
         /\ GrowthFails(c).failed
  <1> DEFINE n == c.asked + 1
  <1>1. n \in Nat
    BY DEF CallType
  <1>2. GrowthFails(c) = [[c EXCEPT !.failed = TRUE] EXCEPT !.asked = n]
    BY DEF GrowthFails, CallType
  <1> HIDE DEF n
  <1>3. QED
    BY <1>1, <1>2 DEF CallType

\* What one callback of an enumeration makes of the call and of its buffer.
LEMMA CollectZidStep ==
  ASSUME TypeOK, NEW i \in Isolates, CollectZid(i),
         Collection(call[i]), zidHeap[i] = Held(call[i])
  PROVE  \E c \in CallType :
           /\ call' = [call EXCEPT ![i] = c]
           /\ Collection(c)
           /\ c.thread = call[i].thread /\ c.step = "begun" /\ c.op = "zids"
           /\ zidHeap' \in [Isolates -> Nat]
           /\ zidHeap'[i] = Held(c)
           /\ \A j \in Isolates \ {i} : zidHeap'[j] = zidHeap[j]
  <1> DEFINE c == call[i]
  <1>1. c \in CallType /\ c.op = "zids" /\ c.step = "begun"
    BY InCall DEF CollectZid, In, Ops
  <1>2. /\ c.asked \in Nat /\ c.ids \in Seq(Nat) /\ c.room \in Nat
        /\ c.failed \in BOOLEAN
    BY <1>1 DEF CallType
  <1>3. CASE c.failed /\ UNCHANGED zidHeap /\ call' = [call EXCEPT ![i].asked = @ + 1]
    <2> DEFINE d == [c EXCEPT !.asked = @ + 1]
    <2>1. d \in CallType
      BY <1>1, <1>2 DEF CallType
    <2>2. /\ d.failed /\ d.op = "zids" /\ d.step = "begun" /\ d.buf = c.buf
          /\ d.thread = c.thread
      BY <1>1, <1>3 DEF CallType
    <2>3. Collection(d) /\ zidHeap'[i] = Held(d)
      BY <1>3, <2>2 DEF Collection, Held
    <2>4. call' = [call EXCEPT ![i] = d]
      BY <1>3 DEF TypeOK
    <2>5. QED
      BY <1>3, <2>1, <2>2, <2>3, <2>4 DEF TypeOK
  <1>4. CASE ~c.failed /\ UNCHANGED zidHeap /\ call' = [call EXCEPT ![i] = Collected(c)]
    <2> DEFINE d == Collected(c)
    <2>1. /\ Len(c.ids) = c.asked
          /\ \A k \in 1..c.asked : c.ids[k] = k
      BY <1>1, <1>4 DEF Collection
    <2>2. /\ Append(c.ids, c.asked + 1) \in Seq(Nat)
          /\ Len(Append(c.ids, c.asked + 1)) = c.asked + 1
          /\ \A k \in 1..(c.asked + 1) : Append(c.ids, c.asked + 1)[k] = k
      BY <1>2, <2>1, OneMore
    <2>3. /\ d \in CallType
          /\ d.op = "zids" /\ d.step = "begun" /\ d.thread = c.thread
          /\ d.buf = c.buf /\ d.asked = c.asked + 1
          /\ d.ids = Append(c.ids, c.asked + 1)
      BY <1>1, CollectedType
    <2>4. Collection(d) /\ zidHeap'[i] = Held(d)
      BY <1>4, <2>2, <2>3 DEF Collection, Held
    <2>5. QED
      BY <1>4, <2>3, <2>4 DEF TypeOK
  <1>5. CASE /\ ~c.failed
             /\ call' = [call EXCEPT ![i] =
                           Collected([c EXCEPT !.room = NextRoom(c),
                                               !.buf = "live"])]
             /\ zidHeap' = [zidHeap EXCEPT ![i] = IF c.buf = "live" THEN @
                                                                    ELSE @ + 1]
    <2> DEFINE b == [c EXCEPT !.room = NextRoom(c), !.buf = "live"]
               d == Collected(b)
    <2>1. /\ Len(c.ids) = c.asked
          /\ \A k \in 1..c.asked : c.ids[k] = k
      BY <1>1, <1>5 DEF Collection
    <2>2. /\ Append(c.ids, c.asked + 1) \in Seq(Nat)
          /\ Len(Append(c.ids, c.asked + 1)) = c.asked + 1
          /\ \A k \in 1..(c.asked + 1) : Append(c.ids, c.asked + 1)[k] = k
      BY <1>2, <2>1, OneMore
    <2>3. NextRoom(c) \in Nat
      BY <1>2 DEF NextRoom
    <2>4. /\ b \in CallType
          /\ b.op = "zids" /\ b.step = "begun" /\ b.thread = c.thread
          /\ b.buf = "live" /\ b.asked = c.asked /\ b.ids = c.ids
      BY <1>1, <1>2, <2>3 DEF CallType
    <2>5. /\ d \in CallType
          /\ d.op = "zids" /\ d.step = "begun" /\ d.thread = c.thread
          /\ d.buf = "live" /\ d.asked = c.asked + 1
          /\ d.ids = Append(c.ids, c.asked + 1)
      BY <2>4, CollectedType
    <2>6. zidHeap' \in [Isolates -> Nat] /\ zidHeap'[i] = 1
          /\ \A j \in Isolates \ {i} : zidHeap'[j] = zidHeap[j]
      BY <1>1, <1>5 DEF TypeOK, Held, CallType
    <2>7. Collection(d) /\ zidHeap'[i] = Held(d)
      BY <2>2, <2>5, <2>6 DEF Collection, Held
    <2>8. QED
      BY <1>5, <2>5, <2>6, <2>7
  <1>6. CASE UNCHANGED zidHeap /\ call' = [call EXCEPT ![i] = GrowthFails(c)]
    <2> DEFINE d == GrowthFails(c)
    <2>1. /\ d \in CallType
          /\ d.op = "zids" /\ d.step = "begun" /\ d.thread = c.thread
          /\ d.buf = c.buf /\ d.failed
      BY <1>1, GrowthFailsType
    <2>2. Collection(d) /\ zidHeap'[i] = Held(d)
      BY <1>6, <2>1 DEF Collection, Held
    <2>3. QED
      BY <1>6, <2>1, <2>2 DEF TypeOK
  <1>7. QED
    BY <1>3, <1>4, <1>5, <1>6 DEF CollectZid

\* The end of zenoh's enumeration, and of the wrapper's.
LEMMA ZidsEndStep ==
  ASSUME TypeOK, NEW i \in Isolates, ZidsEnd(i),
         Collection(call[i]), zidHeap[i] = Held(call[i])
  PROVE  \E c \in CallType :
           /\ call' = [call EXCEPT ![i] = c]
           /\ Collection(c)
           /\ c.thread = call[i].thread /\ c.step = "ended" /\ c.op = "zids"
           /\ zidHeap' \in [Isolates -> Nat]
           /\ zidHeap'[i] = Held(c)
           /\ \A j \in Isolates \ {i} : zidHeap'[j] = zidHeap[j]
  <1> DEFINE c == call[i]
  <1>1. c \in CallType /\ c.op = "zids" /\ c.step = "begun"
    BY InCall DEF ZidsEnd, In, Ops
  <1>2. PICK rc \in {0, 1} :
          /\ rc = 0 => c.asked = c.peers
          /\ IF c.failed \/ rc # 0
               THEN /\ call' = [call EXCEPT ![i] =
                                  [@ EXCEPT !.step = "ended", !.failed = TRUE,
                                            !.buf = "null", !.ids = <<>>]]
                    /\ zidHeap' = Freed(i, c.buf)
               ELSE /\ Goto(i, "ended")
                    /\ UNCHANGED zidHeap
    BY DEF ZidsEnd
  <1>3. CASE c.failed \/ rc # 0
    <2> DEFINE d == [c EXCEPT !.step = "ended", !.failed = TRUE,
                              !.buf = "null", !.ids = <<>>]
    <2>1. /\ d \in CallType
          /\ d.op = "zids" /\ d.step = "ended" /\ d.thread = c.thread
          /\ d.buf = "null" /\ d.failed /\ d.ids = <<>>
      BY <1>1, EmptySeq DEF CallType
    <2>2. call' = [call EXCEPT ![i] = d] /\ zidHeap' = Freed(i, c.buf)
      BY <1>2, <1>3
    <2>3. /\ zidHeap' \in [Isolates -> Nat] /\ zidHeap'[i] = 0
          /\ \A j \in Isolates \ {i} : zidHeap'[j] = zidHeap[j]
      BY <1>1, <2>2 DEF Freed, Held, TypeOK, CallType
    <2>4. Collection(d) /\ zidHeap'[i] = Held(d)
      BY <2>1, <2>3 DEF Collection, Held
    <2>5. QED
      BY <2>1, <2>2, <2>3, <2>4
  <1>4. CASE ~c.failed /\ rc = 0
    <2> DEFINE d == [c EXCEPT !.step = "ended"]
    <2>1. /\ d \in CallType
          /\ d.op = "zids" /\ d.step = "ended" /\ d.thread = c.thread
          /\ d.buf = c.buf /\ d.failed = c.failed /\ d.ids = c.ids
          /\ d.asked = c.asked /\ d.peers = c.peers
      BY <1>1 DEF CallType
    <2>2. call' = [call EXCEPT ![i] = d] /\ UNCHANGED zidHeap
      BY <1>2, <1>4 DEF Goto, TypeOK
    <2>3. Collection(d) /\ zidHeap'[i] = Held(d)
      BY <1>1, <1>2, <1>4, <2>1, <2>2 DEF Collection, Held
    <2>4. QED
      BY <2>1, <2>2, <2>3 DEF TypeOK
  <1>5. QED
    BY <1>3, <1>4

LEMMA ReadZidsStep ==
  ASSUME TypeOK, NEW i \in Isolates, ReadZids(i),
         Collection(call[i]), zidHeap[i] = Held(call[i])
  PROVE  /\ call' = [call EXCEPT ![i] = NoCall]
         /\ told' \in [Isolates -> ToldType \cup {NoCall}]
         /\ zidHeap' \in [Isolates -> Nat]
         /\ zidHeap'[i] = 0
         /\ \A j \in Isolates \ {i} : zidHeap'[j] = zidHeap[j]
  <1>1. call[i] \in CallType
    BY InCall DEF ReadZids, In, Ops
  <1>2. PICK rc \in Nat : Return(i, rc, NoText, call[i].ids)
    BY DEF ReadZids
  <1>3. call[i].ids \in Seq(Nat)
    BY <1>1 DEF CallType
  <1>4. told' \in [Isolates -> ToldType \cup {NoCall}]
    BY <1>1, <1>2, <1>3, ReturnType, NoTextType
  <1>5. zidHeap' = Freed(i, call[i].buf)
    BY DEF ReadZids
  <1>6. QED
    BY <1>1, <1>2, <1>4, <1>5 DEF Return, Freed, Held, TypeOK, CallType

LEMMA TypeZids ==
  ASSUME TypeOK, ZidInv, NEW i \in Isolates, CollectZids(i)
  PROVE  TypeOK'
  <1>1. call[i] # NoCall
    BY InCall DEF CollectZids, CollectZid, ZidsEnd, ReadZids, In, Ops
  <1>2. Collection(call[i]) /\ zidHeap[i] = Held(call[i])
    BY <1>1 DEF ZidInv
  <1>3. CASE CollectZid(i)
    <2>1. PICK c \in CallType :
            call' = [call EXCEPT ![i] = c] /\ zidHeap' \in [Isolates -> Nat]
      BY <1>2, <1>3, CollectZidStep
    <2>2. call' \in [Isolates -> CallType \cup {NoCall}]
      BY <2>1 DEF TypeOK
    <2>3. QED
      BY <1>3, <2>1, <2>2 DEF CollectZid, slotVars, TypeOK
  <1>4. CASE ZidsEnd(i)
    <2>1. PICK c \in CallType :
            call' = [call EXCEPT ![i] = c] /\ zidHeap' \in [Isolates -> Nat]
      BY <1>2, <1>4, ZidsEndStep
    <2>2. call' \in [Isolates -> CallType \cup {NoCall}]
      BY <2>1 DEF TypeOK
    <2>3. QED
      BY <1>4, <2>1, <2>2 DEF ZidsEnd, slotVars, TypeOK
  <1>5. CASE ReadZids(i)
    <2>1. /\ call' = [call EXCEPT ![i] = NoCall]
          /\ told' \in [Isolates -> ToldType \cup {NoCall}]
          /\ zidHeap' \in [Isolates -> Nat]
      BY <1>2, <1>5, ReadZidsStep
    <2>2. call' \in [Isolates -> CallType \cup {NoCall}]
      BY <2>1 DEF TypeOK
    <2>3. QED
      BY <1>5, <2>1, <2>2 DEF ReadZids, slotVars, TypeOK
  <1>6. QED
    BY <1>3, <1>4, <1>5 DEF CollectZids

LEMMA TypeStep ==
  ASSUME TypeOK, ZidInv, [Next]_vars
  PROVE  TypeOK'
  <1>1. CASE Emit
    <2>1. records' \in Seq(Isolates \cup {None})
      BY <1>1 DEF Emit, TypeOK
    <2>2. QED
      BY <1>1, <2>1 DEF Emit, slotVars, TypeOK
  <1>2. CASE UNCHANGED vars
    BY <1>2 DEF vars, slotVars, TypeOK
  <1>3. QED
    BY <1>1, <1>2, TypeBegin, TypeSlot, TypeDetail, TypeZids DEF Next

-----------------------------------------------------------------------------
(* Who changes what.                                                       *)

\* A step of one isolate leaves the calls of the others alone, and moves its own
\* from one step to the next on one thread.
LEMMA CallStep ==
  ASSUME TypeOK, ZidInv, NEW i \in Isolates,
         \/ InitLog(i) \/ InitLogWithSink(i) \/ OtherFails(i)
         \/ DetailEntry(i) \/ CollectZids(i)
  PROVE  /\ call[i] \in CallType /\ call[i] # NoCall
         /\ \A j \in Isolates \ {i} : call'[j] = call[j]
         /\ \/ call'[i] = NoCall
            \/ /\ call'[i] \in CallType
               /\ call'[i].thread = call[i].thread
               /\ call'[i].op = call[i].op
               /\ calls' = calls
  <1>1. call[i] # NoCall /\ call[i] \in CallType
    <2>1. CASE CaptureLastError(i)
      BY <2>1 DEF CaptureLastError, TypeOK
    <2>2. CASE ~CaptureLastError(i)
      <3>1. call[i].op \in Ops
        BY <2>2 DEF InitLog, InitLogWithSink, InitLogClaims, InitLogInZenoh,
             SinkRefused, SinkClaims, SinkSetsPort, SinkInZenoh, OtherFails,
             DetailEntry, ConfigCall, zd_shm_provider_new, DetailCall,
             CollectZids, CollectZid, ZidsEnd, ReadZids, In, Ops
      <3>2. QED
        BY <3>1, InCall
    <2>3. QED
      BY <2>1, <2>2
  <1>2. ASSUME NEW rc, NEW text, NEW ids, Return(i, rc, text, ids)
        PROVE  call'[i] = NoCall /\ \A j \in Isolates \ {i} : call'[j] = call[j]
    BY <1>2 DEF Return, TypeOK
  <1>3. ASSUME NEW step \in {"begun", "claimed", "built", "failed", "ended"},
               Goto(i, step)
        PROVE  /\ \A j \in Isolates \ {i} : call'[j] = call[j]
               /\ call'[i] \in CallType
               /\ call'[i].thread = call[i].thread
               /\ call'[i].op = call[i].op
    BY <1>1, <1>3 DEF Goto, TypeOK, CallType
  <1>4. CASE InitLog(i) \/ InitLogWithSink(i)
    BY <1>1, <1>2, <1>3, <1>4 DEF InitLog, InitLogWithSink, InitLogClaims,
         InitLogInZenoh, SinkRefused, SinkClaims, SinkSetsPort, SinkInZenoh
  <1>5. CASE OtherFails(i) \/ DetailEntry(i)
    BY <1>1, <1>2, <1>3, <1>5 DEF OtherFails, DetailEntry, ConfigCall,
         zd_shm_provider_new, DetailCall, CaptureLastError
  <1>6. CASE CollectZids(i)
    <2>1. Collection(call[i]) /\ zidHeap[i] = Held(call[i])
      BY <1>1 DEF ZidInv
    <2>2. CASE CollectZid(i)
      <3>1. PICK c \in CallType :
              /\ call' = [call EXCEPT ![i] = c]
              /\ c.thread = call[i].thread /\ c.op = "zids"
        BY <2>1, <2>2, CollectZidStep
      <3>2. call[i].op = "zids" /\ calls' = calls
        BY <2>2 DEF CollectZid, In
      <3>3. QED
        BY <1>1, <3>1, <3>2 DEF TypeOK
    <2>3. CASE ZidsEnd(i)
      <3>1. PICK c \in CallType :
              /\ call' = [call EXCEPT ![i] = c]
              /\ c.thread = call[i].thread /\ c.op = "zids"
        BY <2>1, <2>3, ZidsEndStep
      <3>2. call[i].op = "zids" /\ calls' = calls
        BY <2>3 DEF ZidsEnd, In
      <3>3. QED
        BY <1>1, <3>1, <3>2 DEF TypeOK
    <2>4. CASE ReadZids(i)
      BY <1>1, <1>2, <2>4 DEF ReadZids
    <2>5. QED
      BY <1>6, <2>2, <2>3, <2>4 DEF CollectZids
  <1>7. QED
    BY <1>4, <1>5, <1>6

-----------------------------------------------------------------------------
(* The logging slot.                                                       *)

LEMMA SlotBegin ==
  ASSUME TypeOK, SlotInv, NEW i \in Isolates, NEW op \in Ops, Begin(i, op)
  PROVE  SlotInv'
  <1>1. /\ call'[i].step = "begun"
        /\ \A j \in Isolates \ {i} : call'[j] = call[j]
    BY DEF Begin, TypeOK
  <1>2. UNCHANGED <<claimed, slot, port, records, sinks>>
    BY DEF Begin, slotVars
  <1>3. \A j \in Isolates : Owns(j)' => Owns(j)
    BY <1>1, <1>2 DEF Owns, InSink
  <1>4. QED
    BY <1>1, <1>2, <1>3 DEF SlotInv

\* A step that is not an initialisation's leaves the slot and its owner alone.
LEMMA SlotOther ==
  ASSUME TypeOK, ZidInv, SlotInv, NEW i \in Isolates,
         OtherFails(i) \/ DetailEntry(i) \/ CollectZids(i)
  PROVE  SlotInv'
  <1>1. UNCHANGED <<claimed, slot, port, records, sinks>>
    BY DEF OtherFails, DetailEntry, ConfigCall, zd_shm_provider_new,
           DetailCall, CaptureLastError, CollectZids, CollectZid, ZidsEnd,
           ReadZids, slotVars
  <1>2. \A j \in Isolates \ {i} : call'[j] = call[j]
    BY CallStep
  <1>3. call'[i].op # "initLogWithSink"
    <2>1. CASE call'[i] = NoCall
      BY <2>1 DEF NoCall
    <2>2. CASE call'[i] # NoCall
      <3>1. call'[i].op = call[i].op
        BY <2>2, CallStep
      <3>2. ~CaptureLastError(i)
        BY <2>2 DEF CaptureLastError, Return, TypeOK
      <3>3. QED
        BY <3>1, <3>2 DEF OtherFails, DetailEntry, ConfigCall,
             zd_shm_provider_new, DetailCall, CollectZids, CollectZid,
             ZidsEnd, ReadZids, In
    <2>3. QED
      BY <2>1, <2>2
  <1>4. \A j \in Isolates : Owns(j)' => Owns(j)
    BY <1>1, <1>2, <1>3 DEF Owns, InSink
  <1>5. QED
    BY <1>1, <1>2, <1>3, <1>4 DEF SlotInv

LEMMA SlotInit ==
  ASSUME TypeOK, ZidInv, SlotInv, NEW i \in Isolates,
         InitLog(i) \/ InitLogWithSink(i)
  PROVE  SlotInv'
  <1> USE DEF SlotInv
  <1>1. \A j \in Isolates \ {i} : call'[j] = call[j]
    BY CallStep
  <1>2. NoCall.op # "initLogWithSink"
    BY DEF NoCall
  <1>3. CASE InitLogClaims(i)
    <2>1. /\ claimed' = TRUE /\ UNCHANGED <<slot, port, records, sinks>>
          /\ call'[i].op = "initLog"
      BY <1>3 DEF InitLogClaims, Goto, In, TypeOK
    <2>2. \A j \in Isolates : Owns(j)' => Owns(j)
      BY <1>1, <2>1 DEF Owns, InSink
    <2>3. QED
      BY <1>1, <2>1, <2>2
  <1>4. CASE InitLogInZenoh(i)
    <2>1. /\ slot' = IF slot = "none" THEN "env" ELSE slot
          /\ UNCHANGED <<claimed, port, records, sinks>>
          /\ call'[i] = NoCall
      BY <1>4 DEF InitLogInZenoh, FirstWins, Return, TypeOK
    <2>2. \A j \in Isolates : Owns(j)' => Owns(j)
      BY <1>1, <1>2, <2>1 DEF Owns, InSink
    <2>3. QED
      BY <1>1, <1>2, <2>1, <2>2
  <1>5. CASE SinkRefused(i)
    <2>1. /\ UNCHANGED <<claimed, slot, port, records>>
          /\ call'[i] = NoCall
          /\ \A j \in Isolates : sinks'[j] = "returned" <=> sinks[j] = "returned"
      BY <1>5 DEF SinkRefused, Return, slotVars, TypeOK
    <2>2. \A j \in Isolates : Owns(j)' => Owns(j)
      BY <1>1, <1>2, <2>1 DEF Owns, InSink
    <2>3. QED
      BY <1>1, <1>2, <2>1, <2>2 DEF TypeOK
  <1>6. CASE SinkClaims(i)
    <2>1. /\ ~claimed /\ claimed'
          /\ UNCHANGED <<slot, port, records, sinks>>
          /\ call'[i].step = "claimed"
      BY <1>6 DEF SinkClaims, Goto, In, TypeOK
    <2>2. \A j \in Isolates : ~Owns(j)
      BY <2>1
    <2>3. \A j \in Isolates : Owns(j)' => j = i
      BY <1>1, <2>1, <2>2 DEF Owns, InSink
    <2>4. \A j \in Isolates : sinks[j] # "returned"
      BY <2>2 DEF Owns
    <2>5. QED
      BY <1>1, <2>1, <2>2, <2>3, <2>4
  <1>7. CASE SinkSetsPort(i)
    <2>1. /\ port' = i /\ InSink(i)
          /\ UNCHANGED <<claimed, slot, records, sinks>>
          /\ call'[i].step = "built" /\ call'[i].op = call[i].op
      BY <1>7 DEF SinkSetsPort, Goto, In, InSink, TypeOK
    <2>2. \A j \in Isolates : Owns(j) => j = i
      BY <2>1 DEF Owns
    <2>3. \A j \in Isolates : Owns(j)' => j = i
      BY <1>1, <2>1, <2>2 DEF Owns, InSink
    <2>4. claimed
      BY <2>1 DEF Owns
    <2>5. \A j \in Isolates : sinks[j] = "returned" => j = i
      BY <2>2 DEF Owns
    <2>6. \A j \in Isolates :
            call'[j].op = "initLogWithSink" /\ call'[j].step = "built" => j = i
      BY <2>3 DEF Owns, InSink
    <2>7. QED
      BY <2>1, <2>3, <2>4, <2>5, <2>6
  <1>8. CASE SinkInZenoh(i)
    <2>1. /\ slot' = IF slot = "none" THEN "sink" ELSE slot
          /\ InSink(i) /\ port = i /\ claimed'
          /\ UNCHANGED <<port, records>>
          /\ call'[i] = NoCall
          /\ sinks'[i] = "returned"
          /\ \A j \in Isolates \ {i} : sinks'[j] = sinks[j]
      BY <1>8 DEF SinkInZenoh, FirstWins, Return, In, InSink, TypeOK
    <2>2. \A j \in Isolates : Owns(j) => j = i
      BY <2>1 DEF Owns
    <2>3. \A j \in Isolates : Owns(j)' => j = i
      BY <1>1, <1>2, <2>1, <2>2 DEF Owns, InSink
    <2>4. \A j \in Isolates : sinks'[j] = "returned" => j = i
      BY <2>3 DEF Owns
    <2>5. \A j \in Isolates :
            ~(call'[j].op = "initLogWithSink" /\ call'[j].step = "built") \/ j = i
      BY <2>3 DEF Owns, InSink
    <2>6. \A j \in Isolates, k \in 1..Len(records') :
            records'[k] = j => sinks'[j] = "returned"
      BY <2>1
    <2>7. QED
      BY <2>1, <2>3, <2>4, <2>5, <2>6
  <1>9. QED
    BY <1>3, <1>4, <1>5, <1>6, <1>7, <1>8 DEF InitLog, InitLogWithSink

LEMMA SlotStep ==
  ASSUME TypeOK, ZidInv, SlotInv, [Next]_vars
  PROVE  SlotInv'
  <1>1. CASE Emit
    <2>1. /\ slot = "sink" /\ records' = Append(records, port)
          /\ UNCHANGED <<claimed, slot, port, call, sinks>>
      BY <1>1 DEF Emit, slotVars
    <2>2. port \in Isolates /\ sinks[port] = "returned"
      BY <2>1 DEF SlotInv
    <2>3. \A j \in Isolates, k \in 1..Len(records') :
            records'[k] = j => sinks[j] = "returned"
      <3>1. records \in Seq(Isolates \cup {None})
        BY DEF TypeOK
      <3>2. \A k \in 1..Len(records') :
              records'[k] = port \/ (k \in 1..Len(records) /\ records'[k] = records[k])
        BY <2>1, <2>2, <3>1
      <3>3. QED
        BY <2>2, <3>2 DEF SlotInv
    <2>4. QED
      BY <2>1, <2>3 DEF SlotInv, Owns, InSink
  <1>2. CASE UNCHANGED vars
    BY <1>2 DEF vars, slotVars, SlotInv, Owns, InSink
  <1>3. QED
    BY <1>1, <1>2, SlotBegin, SlotInit, SlotOther DEF Next

-----------------------------------------------------------------------------
(* Threads and their errors.                                               *)

LEMMA ThreadBegin ==
  ASSUME TypeOK, ThreadInv, NEW i \in Isolates, NEW op \in Ops, Begin(i, op)
  PROVE  ThreadInv'
  <1>1. PICK t \in Threads :
          /\ \A j \in Isolates : call[j] # NoCall => call[j].thread # t
          /\ call'[i].thread = t /\ call'[i].step = "begun"
    BY DEF Begin, TypeOK
  <1>2. /\ \A j \in Isolates \ {i} : call'[j] = call[j] /\ calls'[j] = calls[j]
        /\ errors' = errors
    BY DEF Begin, TypeOK
  <1>3. QED
    BY <1>1, <1>2 DEF ThreadInv, Id

\* Which steps report an error, and who is about to read one.
LEMMA ErrorStep ==
  ASSUME TypeOK, ZidInv, NEW i \in Isolates,
         \/ InitLog(i) \/ InitLogWithSink(i) \/ OtherFails(i)
         \/ DetailEntry(i) \/ CollectZids(i)
  PROVE  /\ calls' = calls
         /\ \A t \in Threads : t # call[i].thread => errors'[t] = errors[t]
         /\ call'[i] # NoCall /\ call'[i].step = "failed" =>
              errors'[call[i].thread].of = Id(i)
  <1>1. call[i] \in CallType /\ call[i] # NoCall
    BY CallStep
  <1>2. ASSUME NEW step, Goto(i, step)
        PROVE  call'[i].step = step
    BY <1>1, <1>2 DEF Goto, TypeOK, CallType
  <1>3. ASSUME NEW rc, NEW text, NEW ids, Return(i, rc, text, ids)
        PROVE  call'[i] = NoCall
    BY <1>3 DEF Return, TypeOK
  <1>4. CASE InitLog(i) \/ InitLogWithSink(i)
    BY <1>2, <1>3, <1>4 DEF InitLog, InitLogWithSink, InitLogClaims,
         InitLogInZenoh, SinkRefused, SinkClaims, SinkSetsPort, SinkInZenoh
  <1>5. CASE OtherFails(i)
    <2>1. Reported(i) /\ call'[i] = NoCall /\ calls' = calls
      BY <1>3, <1>5 DEF OtherFails
    <2>2. QED
      BY <1>1, <2>1, ReportedType
  <1>6. ASSUME NEW op, DetailCall(i, op)
        PROVE  /\ calls' = calls
               /\ \A t \in Threads : t # call[i].thread => errors'[t] = errors[t]
               /\ call'[i] # NoCall /\ call'[i].step = "failed" =>
                    errors'[call[i].thread].of = Id(i)
    <2>1. calls' = calls
      BY <1>6 DEF DetailCall
    <2>2. CASE Return(i, 0, NoText, <<>>) /\ UNCHANGED errors
      BY <1>3, <2>1, <2>2
    <2>3. CASE Reported(i)
      BY <1>1, <2>1, <2>3, ReportedType
    <2>4. QED
      BY <1>6, <2>2, <2>3 DEF DetailCall
  <1>7. CASE CaptureLastError(i)
    BY <1>3, <1>7 DEF CaptureLastError
  <1>8. CASE CollectZids(i)
    <2>1. Collection(call[i]) /\ zidHeap[i] = Held(call[i])
      BY <1>1 DEF ZidInv
    <2>2. CASE CollectZid(i)
      <3>1. call'[i].step = "begun"
        BY <2>1, <2>2, CollectZidStep DEF TypeOK
      <3>2. QED
        BY <2>2, <3>1 DEF CollectZid
    <2>3. CASE ZidsEnd(i)
      <3>1. call'[i].step = "ended"
        BY <2>1, <2>3, ZidsEndStep DEF TypeOK
      <3>2. QED
        BY <2>3, <3>1 DEF ZidsEnd
    <2>4. CASE ReadZids(i)
      BY <1>3, <2>4 DEF ReadZids
    <2>5. QED
      BY <1>8, <2>2, <2>3, <2>4 DEF CollectZids
  <1>9. QED
    BY <1>4, <1>5, <1>6, <1>7, <1>8 DEF DetailEntry, ConfigCall,
       zd_shm_provider_new

LEMMA ThreadStep ==
  ASSUME TypeOK, ZidInv, ThreadInv, [Next]_vars
  PROVE  ThreadInv'
  <1>1. ASSUME UNCHANGED <<errors, calls, call>>
        PROVE  ThreadInv'
    BY <1>1 DEF ThreadInv, Id
  <1>2. ASSUME NEW i \in Isolates,
               \/ InitLog(i) \/ InitLogWithSink(i) \/ OtherFails(i)
               \/ DetailEntry(i) \/ CollectZids(i)
        PROVE  ThreadInv'
    <2>1. /\ call[i] \in CallType /\ call[i] # NoCall
          /\ \A j \in Isolates \ {i} : call'[j] = call[j]
          /\ call'[i] = NoCall \/ call'[i].thread = call[i].thread
      BY <1>2, CallStep
    <2>2. /\ calls' = calls
          /\ \A t \in Threads : t # call[i].thread => errors'[t] = errors[t]
          /\ call'[i] # NoCall /\ call'[i].step = "failed" =>
               errors'[call[i].thread].of = Id(i)
      BY <1>2, ErrorStep
    <2>3. \A j \in Isolates \ {i} :
            call[j] # NoCall =>
              call[j].thread \in Threads /\ call[j].thread # call[i].thread
      BY <2>1 DEF ThreadInv, TypeOK, CallType
    <2>4. QED
      BY <2>1, <2>2, <2>3 DEF ThreadInv, Id
  <1>3. CASE Emit \/ UNCHANGED vars
    BY <1>1, <1>3 DEF Emit, vars
  <1>4. QED
    BY <1>2, <1>3, ThreadBegin DEF Next

-----------------------------------------------------------------------------
(* Enumerations.                                                           *)

LEMMA ZidStep ==
  ASSUME TypeOK, ZidInv, [Next]_vars
  PROVE  ZidInv'
  <1>1. CASE Emit \/ UNCHANGED vars
    BY <1>1 DEF Emit, vars, ZidInv
  <1>2. ASSUME NEW i \in Isolates, NEW op \in Ops, Begin(i, op)
        PROVE  ZidInv'
    <2>1. /\ call[i] = NoCall /\ zidHeap' = zidHeap
          /\ \A j \in Isolates \ {i} : call'[j] = call[j]
      BY <1>2 DEF Begin, TypeOK
    <2>2. /\ call'[i].op = op /\ call'[i].step = "begun"
          /\ call'[i].buf = "null" /\ call'[i].ids = <<>>
          /\ call'[i].asked = 0 /\ ~call'[i].failed
      BY <1>2 DEF Begin, TypeOK
    <2>3. Collection(call'[i]) /\ Held(call'[i]) = 0
      BY <2>2 DEF Collection, Held
    <2>4. call'[i] # NoCall
      BY <2>2 DEF NoCall, Ops
    <2>5. QED
      BY <2>1, <2>3, <2>4 DEF ZidInv
  \* The calls that hold no buffer.
  <1>3. ASSUME NEW i \in Isolates,
               InitLog(i) \/ InitLogWithSink(i) \/ OtherFails(i) \/ DetailEntry(i)
        PROVE  ZidInv'
    <2>1. /\ call[i] \in CallType /\ call[i] # NoCall
          /\ \A j \in Isolates \ {i} : call'[j] = call[j]
      BY <1>3, CallStep
    <2>2. zidHeap' = zidHeap
      BY <1>3 DEF InitLog, InitLogWithSink, InitLogClaims,
         InitLogInZenoh, SinkRefused, SinkClaims, SinkSetsPort, SinkInZenoh,
         OtherFails, DetailEntry, ConfigCall, zd_shm_provider_new, DetailCall,
         CaptureLastError
    <2>3. ASSUME NEW rc, NEW text, NEW ids, Return(i, rc, text, ids),
                 call[i].op # "zids"
          PROVE  ZidInv'
      <3>1. call'[i] = NoCall
        BY <2>3 DEF Return, TypeOK
      <3>2. zidHeap[i] = 0
        BY <2>1, <2>3 DEF ZidInv, Collection, Held
      <3>3. QED
        BY <2>1, <2>2, <3>1, <3>2 DEF ZidInv
    <2>4. ASSUME NEW step, Goto(i, step), call[i].op # "zids"
          PROVE  ZidInv'
      <3>1. call'[i] = [call[i] EXCEPT !.step = step]
        BY <2>4 DEF Goto, TypeOK
      <3>2. call'[i].op = call[i].op /\ call'[i].buf = call[i].buf
        BY <2>1, <3>1 DEF CallType
      <3>3. Collection(call'[i]) /\ Held(call'[i]) = Held(call[i])
        BY <2>1, <2>4, <3>2 DEF ZidInv, Collection, Held
      <3>4. zidHeap[i] = Held(call[i]) /\ Held(call[i]) = 0
        BY <2>1, <2>4 DEF ZidInv, Collection, Held
      <3>5. QED
        BY <2>1, <2>2, <3>3, <3>4 DEF ZidInv
    <2>5. CASE InitLog(i) \/ InitLogWithSink(i)
      BY <2>3, <2>4, <2>5 DEF InitLog, InitLogWithSink, InitLogClaims,
         InitLogInZenoh, SinkRefused, SinkClaims, SinkSetsPort, SinkInZenoh, In
    <2>6. CASE OtherFails(i)
      BY <2>3, <2>6 DEF OtherFails, In
    <2>7. CASE ConfigCall(i) \/ zd_shm_provider_new(i)
      BY <2>3, <2>4, <2>7 DEF ConfigCall, zd_shm_provider_new, DetailCall, In
    <2>8. CASE CaptureLastError(i)
      <3>1. call[i].step = "failed"
        BY <2>8 DEF CaptureLastError
      <3>2. call[i].op # "zids"
        BY <2>1, <3>1 DEF ZidInv, Collection
      <3>3. QED
        BY <2>3, <2>8, <3>2 DEF CaptureLastError
    <2>9. QED
      BY <1>3, <2>5, <2>6, <2>7, <2>8 DEF DetailEntry
  <1>4. ASSUME NEW i \in Isolates, CollectZids(i)
        PROVE  ZidInv'
    <2>1. /\ call[i] # NoCall
          /\ \A j \in Isolates \ {i} : call'[j] = call[j]
      BY <1>4, CallStep
    <2>2. Collection(call[i]) /\ zidHeap[i] = Held(call[i])
      BY <2>1 DEF ZidInv
    <2>3. CASE CollectZid(i)
      <3>1. PICK c \in CallType :
              /\ call' = [call EXCEPT ![i] = c]
              /\ Collection(c)
              /\ zidHeap'[i] = Held(c)
              /\ \A j \in Isolates \ {i} : zidHeap'[j] = zidHeap[j]
              /\ c.op = "zids"
        BY <2>2, <2>3, CollectZidStep
      <3>2. c # NoCall /\ call'[i] = c
        BY <3>1 DEF NoCall, TypeOK
      <3>3. QED
        BY <2>1, <3>1, <3>2 DEF ZidInv
    <2>4. CASE ZidsEnd(i)
      <3>1. PICK c \in CallType :
              /\ call' = [call EXCEPT ![i] = c]
              /\ Collection(c)
              /\ zidHeap'[i] = Held(c)
              /\ \A j \in Isolates \ {i} : zidHeap'[j] = zidHeap[j]
              /\ c.op = "zids"
        BY <2>2, <2>4, ZidsEndStep
      <3>2. c # NoCall /\ call'[i] = c
        BY <3>1 DEF NoCall, TypeOK
      <3>3. QED
        BY <2>1, <3>1, <3>2 DEF ZidInv
    <2>5. CASE ReadZids(i)
      BY <2>1, <2>2, <2>5, ReadZidsStep DEF ZidInv, TypeOK
    <2>6. QED
      BY <1>4, <2>3, <2>4, <2>5 DEF CollectZids
  <1>5. QED
    BY <1>1, <1>2, <1>3, <1>4 DEF Next

-----------------------------------------------------------------------------
(* What the callers are told.                                              *)

\* The record a return leaves.
LEMMA ReturnTold ==
  ASSUME TypeOK, ToldInv, NEW i \in Isolates, call[i] \in CallType,
         NEW rc \in Nat, NEW text \in TextType, NEW ids \in Seq(Nat),
         Return(i, rc, text, ids),
         text # NoText => text.of = Id(i) /\ text.len < call[i].cap /\ rc # 0,
         call[i].op = "zids" /\ rc # 0 => ids = <<>>,
         call[i].op = "zids" /\ rc = 0 => ids = [k \in 1..call[i].peers |-> k]
  PROVE  ToldInv'
  <1>1. /\ told'[i] = [id |-> Id(i), op |-> call[i].op, rc |-> rc,
                       cap |-> call[i].cap, text |-> text,
                       peers |-> call[i].peers, ids |-> ids]
        /\ \A j \in Isolates \ {i} : told'[j] = told[j]
    BY DEF Return, TypeOK
  <1>2. /\ told'[i].id = Id(i) /\ told'[i].op = call[i].op
        /\ told'[i].rc = rc /\ told'[i].cap = call[i].cap
        /\ told'[i].text = text /\ told'[i].peers = call[i].peers
        /\ told'[i].ids = ids
    BY <1>1
  <1>3. ASSUME NEW j \in Isolates, told'[j] # NoCall
        PROVE  /\ told'[j].text # NoText =>
                    /\ told'[j].text.of = told'[j].id
                    /\ told'[j].text.len < told'[j].cap
                    /\ told'[j].rc # 0
               /\ told'[j].op = "zids" =>
                    told'[j].ids = IF told'[j].rc # 0 THEN <<>>
                                   ELSE [k \in 1..told'[j].peers |-> k]
    <2>1. CASE j = i
      BY <1>2, <2>1
    <2>2. CASE j # i
      BY <1>1, <1>3, <2>2 DEF ToldInv
    <2>3. QED
      BY <2>1, <2>2
  <1>4. QED
    BY <1>3 DEF ToldInv

\* A list of ids in order is the enumeration.
LEMMA Enumeration ==
  ASSUME NEW s \in Seq(Nat), NEW n \in Nat, Len(s) = n,
         \A k \in 1..n : s[k] = k
  PROVE  s = [k \in 1..n |-> k]
  OBVIOUS

LEMMA ToldStep ==
  ASSUME TypeOK, ThreadInv, ZidInv, ToldInv, [Next]_vars
  PROVE  ToldInv'
  <1> USE NoTextType, EmptySeq
  <1>1. ASSUME UNCHANGED told
        PROVE  ToldInv'
    BY <1>1 DEF ToldInv
  <1>2. ASSUME NEW i \in Isolates, NEW rc \in Nat, call[i] \in CallType,
               Return(i, rc, NoText, <<>>), call[i].op # "zids"
        PROVE  ToldInv'
    BY <1>2, ReturnTold
  <1>3. ASSUME NEW i \in Isolates, InitLog(i) \/ InitLogWithSink(i)
        PROVE  ToldInv'
    <2>1. call[i] \in CallType
      BY <1>3, CallStep
    <2>2. CASE InitLogInZenoh(i) \/ SinkRefused(i) \/ SinkInZenoh(i)
      BY <1>2, <2>1, <2>2 DEF InitLogInZenoh, SinkRefused, SinkInZenoh, In
    <2>3. CASE InitLogClaims(i) \/ SinkClaims(i) \/ SinkSetsPort(i)
      BY <1>1, <2>3 DEF InitLogClaims, SinkClaims, SinkSetsPort
    <2>4. QED
      BY <1>3, <2>2, <2>3 DEF InitLog, InitLogWithSink
  <1>4. ASSUME NEW i \in Isolates, OtherFails(i) \/ DetailEntry(i)
        PROVE  ToldInv'
    <2>1. call[i] \in CallType
      BY <1>4, CallStep
    <2>2. CASE OtherFails(i)
      BY <1>2, <2>1, <2>2 DEF OtherFails, In
    <2>3. CASE ConfigCall(i) \/ zd_shm_provider_new(i)
      BY <1>1, <1>2, <2>1, <2>3 DEF ConfigCall, zd_shm_provider_new,
           DetailCall, In
    <2>4. CASE CaptureLastError(i)
      <3>1. /\ call[i] # NoCall /\ call[i].step = "failed"
            /\ Return(i, 1, Copied(errors[call[i].thread], call[i].cap), <<>>)
        BY <2>4 DEF CaptureLastError
      <3> DEFINE text == Copied(errors[call[i].thread], call[i].cap)
      <3>2. /\ text \in TextType
            /\ text # NoText => /\ text.of = errors[call[i].thread].of
                                /\ text.len < call[i].cap
        BY <2>1, CopiedType DEF CallType, TypeOK
      <3>3. errors[call[i].thread].of = Id(i)
        BY <3>1 DEF ThreadInv
      <3>4. call[i].op # "zids"
        BY <3>1 DEF ZidInv, Collection
      <3> HIDE DEF text
      <3>5. Return(i, 1, text, <<>>)
        BY <3>1 DEF text
      <3>6. text # NoText => text.of = Id(i) /\ text.len < call[i].cap /\ 1 # 0
        BY <3>2, <3>3
      <3>7. QED
        BY <2>1, <3>2, <3>4, <3>5, <3>6, ReturnTold
    <2>5. QED
      BY <1>4, <2>2, <2>3, <2>4 DEF DetailEntry
  <1>5. ASSUME NEW i \in Isolates, CollectZids(i)
        PROVE  ToldInv'
    <2>1. call[i] \in CallType /\ call[i] # NoCall
      BY <1>5, CallStep
    <2>2. CASE CollectZid(i) \/ ZidsEnd(i)
      BY <1>1, <2>2 DEF CollectZid, ZidsEnd
    <2>3. CASE ReadZids(i)
      <3> DEFINE rc == IF call[i].failed THEN 11 ELSE 0
      <3>1. /\ call[i].op = "zids" /\ call[i].step = "ended"
            /\ Return(i, rc, NoText, call[i].ids)
        BY <2>3 DEF ReadZids, In
      <3>2. Collection(call[i])
        BY <2>1 DEF ZidInv
      <3>3. call[i].ids \in Seq(Nat) /\ call[i].peers \in Nat
        BY <2>1 DEF CallType
      <3>4. CASE call[i].failed
        <4>1. call[i].ids = <<>>
          BY <3>1, <3>2, <3>4 DEF Collection
        <4>2. Return(i, 11, NoText, <<>>)
          BY <3>1, <3>4, <4>1
        <4>3. 11 \in Nat /\ 11 # 0
          OBVIOUS
        <4>4. QED
          BY <2>1, <4>2, <4>3, ReturnTold
      <3>5. CASE ~call[i].failed
        <4>1. /\ Len(call[i].ids) = call[i].peers /\ rc = 0
              /\ \A k \in 1..call[i].peers : call[i].ids[k] = k
          BY <3>1, <3>2, <3>5 DEF Collection
        <4>2. call[i].ids = [k \in 1..call[i].peers |-> k]
          BY <3>3, <4>1, Enumeration
        <4>3. Return(i, 0, NoText, call[i].ids)
          BY <3>1, <3>5
        <4>4. QED
          BY <2>1, <3>3, <4>2, <4>3, ReturnTold
      <3>6. QED
        BY <3>4, <3>5
    <2>4. QED
      BY <1>5, <2>2, <2>3 DEF CollectZids
  <1>6. CASE Emit \/ UNCHANGED vars
    BY <1>1, <1>6 DEF Emit, vars
  <1>7. ASSUME NEW i \in Isolates, NEW op \in Ops, Begin(i, op)
        PROVE  ToldInv'
    BY <1>1, <1>7 DEF Begin
  <1>8. QED
    BY <1>3, <1>4, <1>5, <1>6, <1>7 DEF Next

-----------------------------------------------------------------------------
(* The theorems.                                                           *)

LEMMA IInvInit == Init => IInv
  <1> SUFFICES ASSUME Init PROVE IInv
    OBVIOUS
  <1>1. TypeOK
    <2>1. calls \in [Isolates -> Nat] /\ zidHeap \in [Isolates -> Nat]
      BY DEF Init
    <2>2. errors \in [Threads -> TextType]
      BY NoTextType DEF Init
    <2>3. records \in Seq(Isolates \cup {None})
      BY DEF Init
    <2>4. /\ call \in [Isolates -> CallType \cup {NoCall}]
          /\ told \in [Isolates -> ToldType \cup {NoCall}]
          /\ sinks \in [Isolates -> {"none", "thrown", "returned"}]
      BY DEF Init
    <2>5. QED
      BY <2>1, <2>2, <2>3, <2>4 DEF Init, TypeOK
  <1>2. SlotInv
    BY DEF Init, SlotInv, Owns, InSink, NoCall
  <1>3. ThreadInv /\ ZidInv /\ ToldInv
    BY DEF Init, ThreadInv, ZidInv, ToldInv
  <1>4. QED
    BY <1>1, <1>2, <1>3 DEF IInv

LEMMA IInvAlways == Spec => []IInv
  <1>1. IInv /\ [Next]_vars => IInv'
    BY TypeStep, SlotStep, ThreadStep, ZidStep, ToldStep DEF IInv
  <1>2. QED
    BY <1>1, IInvInit, PTL DEF Spec

\* Type correctness of the slot, the threads' errors and the enumerations
\* (zenoh_dart.c:97-180, 182-244, 1950-2080).
THEOREM TypeCorrect == Spec => []TypeOK
  <1>1. IInv => TypeOK
    BY DEF IInv
  <1>2. QED
    BY <1>1, IInvAlways, PTL

\* However many isolates race to install a log sink, one gets a stream and every
\* record goes to it (zenoh_dart.c:97-180).
THEOREM OneSinkAtMost == Spec => []OneSink
  <1>1. IInv => OneSink
    BY DEF IInv, TypeOK, SlotInv, Owns, OneSink, Overtaken
  <1>2. QED
    BY <1>1, IInvAlways, PTL

\* However calls of isolates and threads interleave, an exception carries the text
\* of its own failure, within its buffer (zenoh_dart.c:182-244).
THEOREM DetailIsOfItsCall == Spec => []DetailIsOwn
  <1>1. IInv => DetailIsOwn
    BY DEF IInv, ToldInv, DetailIsOwn
  <1>2. QED
    BY <1>1, IInvAlways, PTL

\* For every number of peers and however the growths fail, an enumeration is
\* complete or fails, and releases its buffer (zenoh_dart.c:1950-2080).
THEOREM EnumerationIsComplete == Spec => []ZidsAreAll
  <1>1. NoCall.op # "zids"
    BY DEF NoCall
  <1>2. IInv => ZidsAreAll
    BY <1>1 DEF IInv, ToldInv, ZidInv, ZidsAreAll
  <1>3. QED
    BY <1>2, IInvAlways, PTL

==============================================================================
