------------------------- MODULE OwnedHandlesProofs --------------------------
(***************************************************************************)
(* Every wrapper is released at most once, what the guards let through is  *)
(* there, and the net covers what the isolate owns, for any number of      *)
(* wrappers and any order of calls.                                        *)
(*                                                                         *)
(* Except for a cursor, whose source is another wrapper, a wrapper can be  *)
(* looked at alone.  Sound says what each state of the wrapper means for   *)
(* its slot, its value and its finalizer.  The lemmas follow one wrapper   *)
(* through one call; the theorem then only has to find, for each action,   *)
(* which wrappers it touches and by which lemma.                           *)
(***************************************************************************)
EXTENDS OwnedHandles, TLAPS

Wrappers ==
  [kind : Kinds \cup {"none"},
   state : {"unused", "live", "consumed", "disposed", "collected"},
   slot : {"none", "allocated", "freed", "wild"},
   content : {"none", "held", "moved", "dropped", "wild"},
   net : {"off", "drop", "block"},
   held : BOOLEAN, source : Handles \cup {None}, eleven : BOOLEAN]

Borrows(k) == k \in {"cursor", "view"}

SoundLive(r) ==
  r.state = "live" =>
    /\ r.kind # "none"
    /\ r.slot = "allocated"
    /\ r.net = NetOf(r.kind)
    /\ r.content = IF Borrows(r.kind) THEN "none" ELSE "held"

SoundConsumed(r) ==
  r.state = "consumed" =>
    /\ r.kind \in {"bytes", "writer", "keyexpr", "shm"}
    /\ r.kind = "shm" =>
         r.slot = "allocated" /\ r.net = "block" /\ r.content = "moved"
    /\ r.kind # "shm" =>
         /\ r.slot = "freed" /\ r.net = "off"
         /\ r.content \in {"moved", "dropped"} \/ (r.content = "held" /\ r.eleven)

SoundReleased(r) ==
  r.state \in {"disposed", "collected"} =>
    /\ r.kind # "none"
    /\ r.net = "off"
    /\ r.kind # "query" =>
         /\ r.slot = "freed"
         /\ r.content \in {"none", "moved", "dropped"}
            \/ (r.content = "held" /\ r.eleven)
    /\ r.slot # "wild" /\ r.content # "wild"

Sound(r) ==
  /\ r.state = "unused" => r = Unused
  /\ r.kind = "cursor" <=> r.source # None
  /\ SoundLive(r) /\ SoundConsumed(r) /\ SoundReleased(r)

IInv ==
  /\ h \in [Handles -> Wrappers]
  /\ \A i \in Handles : Sound(h[i])
  /\ \A i \in Handles : h[i].kind = "cursor" =>
       h[i].source \in Handles /\ h[h[i].source].kind = "bytes"

\* What a call may make of a wrapper other than a cursor coming into being.
Becomes(r, s) ==
  /\ s \in Wrappers
  /\ Sound(s)
  /\ r.kind # "none" => s.kind = r.kind /\ s.source = r.source
  /\ r.kind = "none" => s.kind # "cursor"

Results == {Sent, BadMime, Refused, NoMemory, Eleven}

-----------------------------------------------------------------------------
(* One wrapper, one call.                                                  *)

\* A new wrapper is sound: its net is the one of its kind.
LEMMA NewSound ==
  ASSUME NEW k \in Kinds, NEW src \in Handles \cup {None}, k = "cursor" <=> src # None
  PROVE  New(k, src) \in Wrappers /\ Sound(New(k, src))
<1>1. New(k, src) \in Wrappers
  BY DEF New, NetOf, Wrappers, Kinds
<1>2. Sound(New(k, src))
  BY DEF New, NetOf, Sound, SoundLive, SoundConsumed, SoundReleased, Borrows, Kinds
<1> QED BY <1>1, <1>2

\* So is one whose constructor failed, and either may come of a fresh one.
LEMMA ConstructedSound ==
  ASSUME NEW k \in Kinds \ {"cursor"}, NEW outcome
  PROVE  Becomes(Unused, Constructed(k, outcome))
<1>1. Becomes(Unused, New(k, None))
  <2>1. New(k, None) \in Wrappers /\ Sound(New(k, None))
    BY NewSound
  <2> QED BY <2>1 DEF Becomes, New, Unused
<1>2. Becomes(Unused, Abandoned(k))
  <2> DEFINE n == New(k, None)
             t == [n EXCEPT !.state = "disposed", !.content = "none",
                            !.net = "off", !.held = FALSE, !.slot = "freed"]
  <2>1. n \in Wrappers /\ n.kind = k /\ n.source = None /\ n.slot = "allocated"
    BY NewSound DEF New
  <2>2. Abandoned(k) = t
    BY <2>1 DEF Abandoned, FreeSlot, Wrappers
  <2>3. t \in Wrappers
    BY <2>1 DEF Wrappers
  <2>4. /\ t.kind = k /\ t.source = None /\ t.state = "disposed"
        /\ t.slot = "freed" /\ t.net = "off" /\ t.content = "none"
    BY <2>1 DEF Wrappers
  <2>5. k # "none"
    BY DEF Kinds
  <2>6. Sound(t)
    BY <2>4, <2>5 DEF Sound, SoundLive, SoundConsumed, SoundReleased
  <2> QED BY <2>2, <2>3, <2>4, <2>6 DEF Becomes, Unused
<1> QED BY <1>1, <1>2 DEF Constructed

\* A send leaves what it was handed consumed, its slot free, and its value in
\* other hands.
LEMMA SendSound ==
  ASSUME NEW r \in Wrappers, Sound(r), r.state = "live", r.kind = "bytes",
         NEW result \in Results \ {Eleven}
  PROVE  Becomes(r, markConsumed(Handed(r, result)))
<1> DEFINE s == Take(r, result.fate)
<1>1. result.fate \in {"moved", "dropped"}
  BY DEF Results, Sent, BadMime, Refused, NoMemory, Eleven
<1>2. Handed(r, result) = s
  BY <1>1 DEF Handed
<1>3. s = [r EXCEPT !.content = result.fate]
  BY DEF Take, Sound, SoundLive, Borrows
<1>4. markConsumed(s) =
        [r EXCEPT !.content = result.fate, !.state = "consumed",
                  !.slot = "freed", !.net = "off"]
  BY <1>3 DEF markConsumed, Detach, FreeSlot, Sound, SoundLive, Wrappers
<1> DEFINE t == markConsumed(s)
<1>5. t \in Wrappers
  BY <1>1, <1>4 DEF Wrappers
<1>6. /\ t.kind = "bytes" /\ t.source = r.source /\ t.state = "consumed"
      /\ t.slot = "freed" /\ t.net = "off" /\ t.content \in {"moved", "dropped"}
  BY <1>1, <1>4 DEF Wrappers
<1>7. Sound(t)
  BY <1>6 DEF Sound, SoundLive, SoundConsumed, SoundReleased
<1> QED
  BY <1>2, <1>5, <1>6, <1>7 DEF Becomes

\* The same for Session.pullGet, which notes that the code was eleven.
LEMMA PullGetSound ==
  ASSUME NEW r \in Wrappers, Sound(r), r.state = "live", r.kind = "bytes",
         NEW result \in Results
  PROVE  Becomes(r, [markConsumed(Handed(r, result))
                       EXCEPT !.eleven = (result = Eleven)])
<1>1. CASE result = Eleven
  <2> DEFINE t == [r EXCEPT !.state = "consumed", !.slot = "freed",
                            !.net = "off", !.eleven = TRUE]
  <2>1. [markConsumed(Handed(r, result)) EXCEPT !.eleven = (result = Eleven)] = t
    BY <1>1 DEF Handed, Eleven, markConsumed, Detach, FreeSlot, Sound, SoundLive, Wrappers
  <2>2. t \in Wrappers
    BY DEF Wrappers
  <2>3. /\ t.kind = "bytes" /\ t.source = r.source /\ t.state = "consumed"
        /\ t.slot = "freed" /\ t.net = "off" /\ t.content = "held" /\ t.eleven
    BY DEF Wrappers, Sound, SoundLive, Borrows
  <2>4. Sound(t)
    BY <2>3 DEF Sound, SoundLive, SoundConsumed, SoundReleased
  <2> QED BY <2>1, <2>2, <2>3, <2>4 DEF Becomes
<1>2. CASE result # Eleven
  <2> DEFINE s == markConsumed(Handed(r, result))
             t == [s EXCEPT !.eleven = FALSE]
  <2>1. Becomes(r, s)
    BY <1>2, SendSound
  <2>2. s.state = "consumed" /\ s.content # "held"
    <3>1. result.fate \in {"moved", "dropped"}
      BY <1>2 DEF Results, Sent, BadMime, Refused, NoMemory, Eleven
    <3> QED
      BY <3>1 DEF Handed, Take, markConsumed, Detach, FreeSlot, Sound, SoundLive, Wrappers
  <2>3. /\ t \in Wrappers
        /\ t.kind = s.kind /\ t.source = s.source /\ t.state = s.state
        /\ t.slot = s.slot /\ t.net = s.net /\ t.content = s.content
    BY <2>1 DEF Becomes, Wrappers
  <2>4. Sound(t)
    BY <2>1, <2>2, <2>3 DEF Becomes, Sound, SoundLive, SoundConsumed, SoundReleased
  <2> QED
    BY <1>2, <2>1, <2>3, <2>4 DEF Becomes
<1> QED BY <1>1, <1>2

\* dispose() on a live wrapper releases both, whatever its kind.
LEMMA DisposeSound ==
  ASSUME NEW r \in Wrappers, Sound(r), r.state = "live"
  PROVE  Becomes(r, dispose(r))
<1> DEFINE c == IF Borrows(r.kind) THEN "none" ELSE "dropped"
           t == [r EXCEPT !.state = "disposed", !.content = c,
                          !.slot = "freed", !.net = "off"]
<1>1. dispose(r) = t
  BY DEF dispose, Detach, FreeSlot, Take, Sound, SoundLive, Wrappers
<1>2. t \in Wrappers
  BY DEF Wrappers
<1>3. /\ t.kind = r.kind /\ t.source = r.source /\ t.state = "disposed"
      /\ t.slot = "freed" /\ t.net = "off" /\ t.content \in {"none", "dropped"}
  BY DEF Wrappers
<1>4. Sound(t)
  BY <1>3 DEF Sound, SoundLive, SoundConsumed, SoundReleased
<1> QED BY <1>1, <1>2, <1>3, <1>4 DEF Becomes, Sound, SoundLive

\* dispose() on a moved shared-memory buffer releases what is left, its slot.
LEMMA DisposeMovedSound ==
  ASSUME NEW r \in Wrappers, Sound(r), r.state = "consumed", r.kind = "shm"
  PROVE  Becomes(r, Detach(FreeSlot([r EXCEPT !.state = "disposed"])))
<1> DEFINE t == [r EXCEPT !.state = "disposed", !.slot = "freed", !.net = "off"]
<1>1. Detach(FreeSlot([r EXCEPT !.state = "disposed"])) = t
  BY DEF Detach, FreeSlot, Sound, SoundConsumed, Wrappers
<1>2. t \in Wrappers
  BY DEF Wrappers
<1>3. /\ t.kind = "shm" /\ t.source = r.source /\ t.state = "disposed"
      /\ t.slot = "freed" /\ t.net = "off" /\ t.content = "moved"
  BY DEF Wrappers, Sound, SoundConsumed
<1>4. Sound(t)
  BY <1>3 DEF Sound, SoundLive, SoundConsumed, SoundReleased
<1> QED BY <1>1, <1>2, <1>3, <1>4 DEF Becomes

\* A finalizer finds what it releases, and only that.
LEMMA FinalizeSound ==
  ASSUME NEW r \in Wrappers, Sound(r),
         r.state \in {"live", "consumed", "disposed"}
  PROVE  Becomes(r, [Finalize(r) EXCEPT !.state = "collected"])
<1>1. CASE r.net = "drop"
  <2>1. r.state = "live" /\ ~Borrows(r.kind) /\ r.kind # "query"
    BY <1>1 DEF Sound, SoundLive, SoundConsumed, SoundReleased, NetOf, Borrows
  <2> DEFINE t == [r EXCEPT !.state = "collected", !.content = "dropped",
                            !.slot = "freed", !.net = "off"]
  <2>2. [Finalize(r) EXCEPT !.state = "collected"] = t
    BY <1>1, <2>1 DEF Finalize, Detach, FreeSlot, Take, Sound, SoundLive, Wrappers
  <2>3. t \in Wrappers
    BY DEF Wrappers
  <2>4. /\ t.kind = r.kind /\ t.source = r.source /\ t.state = "collected"
        /\ t.slot = "freed" /\ t.net = "off" /\ t.content = "dropped"
    BY DEF Wrappers
  <2>5. Sound(t)
    BY <2>1, <2>4 DEF Sound, SoundLive, SoundConsumed, SoundReleased
  <2> QED BY <2>1, <2>2, <2>3, <2>4, <2>5 DEF Becomes, Sound, SoundLive
<1>2. CASE r.net = "block"
  <2> DEFINE t == [r EXCEPT !.state = "collected", !.slot = "freed", !.net = "off"]
  <2>1. /\ r.slot = "allocated" /\ r.kind # "none"
        /\ r.content \in {"none", "moved"}
    BY <1>2 DEF Sound, SoundLive, SoundConsumed, SoundReleased, NetOf, Borrows
  <2>2. [Finalize(r) EXCEPT !.state = "collected"] = t
    BY <1>2, <2>1 DEF Finalize, Detach, FreeSlot, Wrappers
  <2>3. t \in Wrappers
    BY DEF Wrappers
  <2>4. /\ t.kind = r.kind /\ t.source = r.source /\ t.state = "collected"
        /\ t.slot = "freed" /\ t.net = "off" /\ t.content = r.content
    BY DEF Wrappers
  <2>5. Sound(t)
    BY <2>1, <2>4 DEF Sound, SoundLive, SoundConsumed, SoundReleased
  <2> QED BY <2>1, <2>2, <2>3, <2>4, <2>5 DEF Becomes
<1>3. CASE r.net = "off"
  <2> DEFINE t == [r EXCEPT !.state = "collected"]
  <2>1. [Finalize(r) EXCEPT !.state = "collected"] = t
    BY <1>3 DEF Finalize
  <2>2. t \in Wrappers
    BY DEF Wrappers
  <2>3. /\ t.kind = r.kind /\ t.source = r.source /\ t.state = "collected"
        /\ t.slot = r.slot /\ t.net = "off" /\ t.content = r.content
        /\ t.eleven = r.eleven
    BY <1>3 DEF Wrappers
  <2>4. /\ r.kind # "none" /\ r.slot # "wild" /\ r.content # "wild"
        /\ r.kind # "query" => /\ r.slot = "freed"
                               /\ r.content \in {"none", "moved", "dropped"}
                                  \/ (r.content = "held" /\ r.eleven)
    BY <1>3 DEF Sound, SoundLive, SoundConsumed, SoundReleased, NetOf, Borrows
  <2>5. Sound(t)
    BY <2>3, <2>4 DEF Sound, SoundLive, SoundConsumed, SoundReleased
  <2> QED BY <2>1, <2>2, <2>3, <2>4, <2>5 DEF Becomes
<1> QED BY <1>1, <1>2, <1>3 DEF Wrappers

\* finish() and undeclare: the value goes, then the slot.
LEMMA MoveSound ==
  ASSUME NEW r \in Wrappers, Sound(r), r.state = "live",
         r.kind \in {"writer", "keyexpr"}
  PROVE  /\ Becomes(r, FreeSlot(Take(Detach([r EXCEPT !.state = "consumed"]), "moved")))
         /\ Becomes(r, FreeSlot(Detach(Take([r EXCEPT !.state = "consumed"], "moved"))))
<1> DEFINE t == [r EXCEPT !.state = "consumed", !.content = "moved",
                          !.slot = "freed", !.net = "off"]
<1>1. FreeSlot(Take(Detach([r EXCEPT !.state = "consumed"]), "moved")) = t
  BY DEF Detach, FreeSlot, Take, Sound, SoundLive, Borrows, Wrappers
<1>2. FreeSlot(Detach(Take([r EXCEPT !.state = "consumed"], "moved"))) = t
  BY DEF Detach, FreeSlot, Take, Sound, SoundLive, Borrows, Wrappers
<1>3. t \in Wrappers
  BY DEF Wrappers
<1>4. /\ t.kind = r.kind /\ t.source = r.source /\ t.state = "consumed"
      /\ t.slot = "freed" /\ t.net = "off" /\ t.content = "moved"
  BY DEF Wrappers
<1>5. Sound(t)
  BY <1>4 DEF Sound, SoundLive, SoundConsumed, SoundReleased
<1> QED BY <1>1, <1>2, <1>3, <1>4, <1>5 DEF Becomes

\* toBytes(): the chunk goes, the slot stays, under the net that frees it.
LEMMA DowngradedSound ==
  ASSUME NEW r \in Wrappers, Sound(r), r.state = "live", r.kind = "shm"
  PROVE  Becomes(r, Downgraded(r))
<1> DEFINE t == [r EXCEPT !.state = "consumed", !.content = "moved", !.net = "block"]
<1>1. Downgraded(r) = t
  BY DEF Downgraded, Take, Sound, SoundLive, Borrows, Wrappers
<1>2. t \in Wrappers
  BY DEF Wrappers
<1>3. /\ t.kind = "shm" /\ t.source = r.source /\ t.state = "consumed"
      /\ t.slot = "allocated" /\ t.net = "block" /\ t.content = "moved"
  BY DEF Wrappers, Sound, SoundLive
<1>4. Sound(t)
  BY <1>3 DEF Sound, SoundLive, SoundConsumed, SoundReleased
<1> QED BY <1>1, <1>2, <1>3, <1>4 DEF Becomes

\* Being forgotten changes nothing but that.
LEMMA ForgetSound ==
  ASSUME NEW r \in Wrappers, Sound(r)
  PROVE  /\ r.held => Becomes(r, [r EXCEPT !.held = FALSE])
         /\ Becomes(r, r)
<1> DEFINE t == [r EXCEPT !.held = FALSE]
<1>1. t \in Wrappers
  BY DEF Wrappers
<1>2. /\ t.kind = r.kind /\ t.source = r.source /\ t.state = r.state
      /\ t.slot = r.slot /\ t.net = r.net /\ t.content = r.content
      /\ t.eleven = r.eleven
  BY DEF Wrappers
<1>3. r.held => r.state # "unused"
  BY DEF Sound, Unused
<1>4. r.held => Sound(t)
  BY <1>2, <1>3 DEF Sound, SoundLive, SoundConsumed, SoundReleased
<1>5. r.state # "unused" => r.kind # "none"
  BY DEF Sound, SoundLive, SoundConsumed, SoundReleased, Wrappers
<1>6. r.state = "unused" => r.kind = "none"
  BY DEF Sound, Unused
<1>7. r.held => Becomes(r, t)
  BY <1>1, <1>2, <1>3, <1>4, <1>5 DEF Becomes
<1>8. Becomes(r, r)
  BY DEF Becomes, Sound, SoundLive, Unused
<1> QED BY <1>7, <1>8

\* The ZBytes a call makes of a string, left behind or sent.
LEMMA TextSound ==
  /\ Becomes(Unused, Wrapped)
  /\ \A result \in Results \ {Eleven} :
       Becomes(Unused, markConsumed(Handed(Wrapped, result)))
<1>1. New("bytes", None) \in Wrappers /\ Sound(New("bytes", None))
  BY NewSound DEF Kinds
<1>2. Wrapped \in Wrappers /\ Wrapped.kind = "bytes" /\ Wrapped.state = "live"
  BY <1>1 DEF Wrapped, New, Wrappers
<1>3. Sound(Wrapped)
  BY DEF Wrapped, New, NetOf, Sound, SoundLive, SoundConsumed, SoundReleased, Borrows
<1>4. Unused.kind = "none"
  BY DEF Unused
<1>5. Becomes(Unused, Wrapped)
  BY <1>2, <1>3, <1>4 DEF Becomes
<1>6. ASSUME NEW result \in Results \ {Eleven}
      PROVE  Becomes(Unused, markConsumed(Handed(Wrapped, result)))
  <2>1. Becomes(Wrapped, markConsumed(Handed(Wrapped, result)))
    BY <1>2, <1>3, SendSound
  <2> QED BY <2>1, <1>2, <1>4 DEF Becomes
<1> QED BY <1>5, <1>6

-----------------------------------------------------------------------------
(* From one wrapper to all.                                                *)

\* If every wrapper becomes something sound, the invariant is kept.
LEMMA AllBecome ==
  ASSUME IInv, h' = [i \in Handles |-> h'[i]],
         \A i \in Handles : Becomes(h[i], h'[i])
  PROVE  IInv'
<1>1. h' \in [Handles -> Wrappers]
  BY DEF Becomes
<1>2. \A i \in Handles : Sound(h'[i])
  BY DEF Becomes
<1>3. ASSUME NEW i \in Handles, h'[i].kind = "cursor"
      PROVE  h'[i].source \in Handles /\ h'[h'[i].source].kind = "bytes"
  <2>1. h[i].kind = "cursor" /\ h'[i].source = h[i].source
    BY <1>3 DEF Becomes
  <2>2. h[i].source \in Handles /\ h[h[i].source].kind = "bytes"
    BY <2>1 DEF IInv
  <2>3. h'[h[i].source].kind = "bytes"
    BY <2>2 DEF Becomes
  <2> QED BY <2>1, <2>2, <2>3
<1> QED BY <1>1, <1>2, <1>3 DEF IInv

\* The same when one wrapper changes.
LEMMA OneBecomes ==
  ASSUME IInv, NEW i \in Handles, NEW x, Becomes(h[i], x),
         h' = [h EXCEPT ![i] = x]
  PROVE  IInv'
<1>1. h \in [Handles -> Wrappers] /\ \A j \in Handles : Sound(h[j])
  BY DEF IInv
<1>2. \A j \in Handles : Becomes(h[j], h[j])
  BY <1>1, ForgetSound
<1>3. \A j \in Handles : Becomes(h[j], h'[j])
  BY <1>1, <1>2
<1>4. h' = [j \in Handles |-> h'[j]]
  BY <1>1
<1> QED BY <1>3, <1>4, AllBecome

\* One becomes x and a fresh one a new ZBytes.
LEMMA MovedIntoBytes ==
  ASSUME IInv, NEW i \in Handles, NEW b \in Handles, NEW x,
         Becomes(h[i], x), h[i].state # "unused", Free(b),
         h' = [h EXCEPT ![i] = x, ![b] = New("bytes", None)]
  PROVE  IInv'
<1>1. h \in [Handles -> Wrappers] /\ \A j \in Handles : Sound(h[j])
  BY DEF IInv
<1>2. \A j \in Handles : Becomes(h[j], h[j])
  BY <1>1, ForgetSound
<1>3. i # b /\ h[b] = Unused
  BY <1>1 DEF Free, Sound
<1>4. Becomes(h[b], New("bytes", None))
  <2>1. New("bytes", None) \in Wrappers /\ Sound(New("bytes", None))
    BY NewSound DEF Kinds
  <2> QED BY <1>3, <2>1 DEF Becomes, New, Unused
<1>5. \A j \in Handles : Becomes(h[j], h'[j])
  BY <1>1, <1>2, <1>3, <1>4
<1>6. h' = [j \in Handles |-> h'[j]]
  BY <1>1
<1> QED BY <1>5, <1>6, AllBecome

\* The sends of ZBytes keep the invariant, whatever code comes back.
LEMMA SendKeeps ==
  ASSUME IInv, NEW p \in Arguments, NEW a \in Arguments,
         NEW results \in SUBSET (Results \ {Eleven}), Send(p, a, results)
  PROVE  IInv'
<1>1. h \in [Handles -> Wrappers] /\ \A j \in Handles : Sound(h[j])
  BY DEF IInv
<1>2. \A j \in Handles : Becomes(h[j], h[j])
  BY <1>1, ForgetSound
<1>3. PICK result \in results :
        h' = [i \in Handles |-> IF i \in {p, a}
                                THEN markConsumed(Handed(h[i], result))
                                ELSE h[i]]
  BY DEF Send
<1>4. ASSUME NEW i \in Handles, i \in {p, a}
      PROVE  Becomes(h[i], h'[i])
  <2>1. h[i].state = "live" /\ h[i].kind = "bytes"
    BY <1>4, OwnedHandlesAssumption DEF Send, Sendable, Has, Usable
  <2>2. Becomes(h[i], markConsumed(Handed(h[i], result)))
    BY <1>1, <2>1, SendSound
  <2> QED BY <1>3, <1>4, <2>2
<1>5. ASSUME NEW i \in Handles, i \notin {p, a}
      PROVE  Becomes(h[i], h'[i])
  BY <1>2, <1>3, <1>5
<1>6. h' = [j \in Handles |-> h'[j]]
  BY <1>3
<1> QED BY <1>4, <1>5, <1>6, AllBecome

\* So do the sends of a string, which make a ZBytes of it.
LEMMA SendTextKeeps ==
  ASSUME IInv, NEW t \in Handles, NEW a \in Arguments,
         NEW results \in SUBSET (Results \ {Eleven}), SendText(t, a, results)
  PROVE  IInv'
<1>1. h \in [Handles -> Wrappers] /\ \A j \in Handles : Sound(h[j])
  BY DEF IInv
<1>2. \A j \in Handles : Becomes(h[j], h[j])
  BY <1>1, ForgetSound
<1>3. PICK result \in results :
        h' = [i \in Handles |->
                CASE i = t -> markConsumed(Handed(Wrapped, result))
                  [] i = a -> markConsumed(Handed(h[i], result))
                  [] OTHER -> h[i]]
  BY DEF SendText
<1>4. h[t] = Unused
  BY <1>1 DEF SendText, Free, Sound
<1>5. a # t
  <2>1. a \in Handles => h[a].state = "live"
    BY OwnedHandlesAssumption DEF SendText, Sendable, Has, Usable
  <2> QED BY <1>4, <2>1 DEF Unused
<1>6. Becomes(h[t], h'[t])
  <2>1. h'[t] = markConsumed(Handed(Wrapped, result))
    BY <1>3, <1>5
  <2>2. result \in Results \ {Eleven}
    OBVIOUS
  <2>3. Becomes(Unused, markConsumed(Handed(Wrapped, result)))
    BY <2>2, TextSound
  <2> QED BY <1>4, <2>1, <2>3
<1>7. ASSUME NEW i \in Handles, i = a
      PROVE  Becomes(h[i], h'[i])
  <2>1. h[i].state = "live" /\ h[i].kind = "bytes"
    BY <1>7, OwnedHandlesAssumption DEF SendText, Sendable, Has, Usable
  <2>2. Becomes(h[i], markConsumed(Handed(h[i], result)))
    BY <1>1, <2>1, SendSound
  <2> QED BY <1>3, <1>5, <1>7, <2>2
<1>8. ASSUME NEW i \in Handles, i # t, i # a
      PROVE  Becomes(h[i], h'[i])
  BY <1>2, <1>3, <1>8
<1>9. h' = [j \in Handles |-> h'[j]]
  BY <1>3
<1> QED BY <1>6, <1>7, <1>8, <1>9, AllBecome

-----------------------------------------------------------------------------
(* The invariant and what it says.                                         *)

\* The invariant holds before any wrapper is made.
LEMMA InitIInv == Init => IInv
<1> SUFFICES ASSUME Init PROVE IInv
  OBVIOUS
<1>1. Unused \in Wrappers
  BY DEF Unused, Wrappers
<1>2. Sound(Unused)
  BY DEF Unused, Sound, SoundLive, SoundConsumed, SoundReleased
<1>3. Unused.kind # "cursor"
  BY DEF Unused
<1> QED BY <1>1, <1>2, <1>3 DEF Init, IInv

\* Session.pullGet keeps it, with what it strands marked as such.
LEMMA PullGetKeeps ==
  ASSUME IInv, NEW p \in Arguments, NEW a \in Arguments, PullGet(p, a)
  PROVE  IInv'
<1>1. h \in [Handles -> Wrappers] /\ \A j \in Handles : Sound(h[j])
  BY DEF IInv
<1>2. \A j \in Handles : Becomes(h[j], h[j])
  BY <1>1, ForgetSound
<1>3. PICK result \in zd_get_channel :
        h' = [i \in Handles |->
                IF i \in {p, a}
                THEN [markConsumed(Handed(h[i], result))
                        EXCEPT !.eleven = (result = Eleven)]
                ELSE h[i]]
  BY DEF PullGet
<1>4. ASSUME NEW i \in Handles, i \in {p, a}
      PROVE  Becomes(h[i], h'[i])
  <2>1. h[i].state = "live" /\ h[i].kind = "bytes"
    BY <1>4, OwnedHandlesAssumption DEF PullGet, Sendable, Has, Usable
  <2>2. result \in Results
    BY DEF zd_get_channel, Results
  <2>3. Becomes(h[i], [markConsumed(Handed(h[i], result))
                         EXCEPT !.eleven = (result = Eleven)])
    BY <1>1, <2>1, <2>2, PullGetSound
  <2> QED BY <1>3, <1>4, <2>3
<1>5. ASSUME NEW i \in Handles, i \notin {p, a}
      PROVE  Becomes(h[i], h'[i])
  BY <1>2, <1>3, <1>5
<1>6. h' = [j \in Handles |-> h'[j]]
  BY <1>3
<1> QED BY <1>4, <1>5, <1>6, AllBecome

\* Querier.pullGet leaves its wrappers alone, or does what a get does.
LEMMA QuerierPullGetKeeps ==
  ASSUME IInv, NEW p \in Arguments, NEW a \in Arguments, QuerierPullGet(p, a)
  PROVE  IInv'
<1>1. h \in [Handles -> Wrappers] /\ \A j \in Handles : Sound(h[j])
  BY DEF IInv
<1>2. \A j \in Handles : Becomes(h[j], h[j])
  BY <1>1, ForgetSound
<1>3. PICK result \in zd_querier_get_channel :
        h' = [i \in Handles |->
                IF i \in {p, a} /\ result # Eleven
                THEN markConsumed(Handed(h[i], result))
                ELSE h[i]]
  BY DEF QuerierPullGet
<1>4. ASSUME NEW i \in Handles, i \in {p, a}, result # Eleven
      PROVE  Becomes(h[i], h'[i])
  <2>1. h[i].state = "live" /\ h[i].kind = "bytes"
    BY <1>4, OwnedHandlesAssumption DEF QuerierPullGet, Sendable, Has, Usable
  <2>2. result \in Results \ {Eleven}
    BY <1>4 DEF zd_querier_get_channel, Results
  <2>3. Becomes(h[i], markConsumed(Handed(h[i], result)))
    BY <1>1, <2>1, <2>2, SendSound
  <2> QED BY <1>3, <1>4, <2>3
<1>5. ASSUME NEW i \in Handles, ~(i \in {p, a} /\ result # Eleven)
      PROVE  Becomes(h[i], h'[i])
  BY <1>2, <1>3, <1>5
<1>6. h' = [j \in Handles |-> h'[j]]
  BY <1>3
<1> QED BY <1>4, <1>5, <1>6, AllBecome

\* Every call, and the collector, keeps the invariant.
LEMMA NextKeepsIInv == IInv /\ [Next]_h => IInv'
<1> SUFFICES ASSUME IInv, [Next]_h PROVE IInv'
  OBVIOUS
<1>1. h \in [Handles -> Wrappers] /\ \A j \in Handles : Sound(h[j])
  BY DEF IInv
<1>2. \A j \in Handles : Free(j) => h[j] = Unused
  BY <1>1 DEF Free, Sound
<1>3. /\ zd_put \in SUBSET (Results \ {Eleven})
      /\ zd_publisher_put \in SUBSET (Results \ {Eleven})
      /\ zd_advanced_publisher_put \in SUBSET (Results \ {Eleven})
      /\ zd_get \in SUBSET (Results \ {Eleven})
      /\ zd_querier_get \in SUBSET (Results \ {Eleven})
      /\ zd_query_reply \in SUBSET (Results \ {Eleven})
      /\ zd_query_reply_del \in SUBSET (Results \ {Eleven})
      /\ zd_query_reply_err \in SUBSET (Results \ {Eleven})
      /\ zd_bytes_writer_append \in SUBSET (Results \ {Eleven})
  BY DEF zd_put, zd_publisher_put, zd_advanced_publisher_put, zd_get,
         zd_querier_get, zd_query_reply, zd_query_reply_del, zd_query_reply_err,
         zd_bytes_writer_append, Results, Sent, BadMime, Refused, NoMemory, Eleven
<1>4. None \in Arguments /\ Handles \subseteq Arguments
  BY DEF Arguments
<1>5. ASSUME NEW i \in Handles, NEW k \in Kinds \ {"cursor"}, NEW outcome,
             Free(i), h' = [h EXCEPT ![i] = Constructed(k, outcome)]
      PROVE  IInv'
  <2>1. Becomes(h[i], Constructed(k, outcome))
    BY <1>2, <1>5, ConstructedSound
  <2> QED BY <1>5, <2>1, OneBecomes
<1>6. ASSUME NEW i \in Handles, Undeclare(i) PROVE IInv'
  <2>1. h[i].state = "live" /\ h[i].kind = "keyexpr"
    BY <1>6 DEF Undeclare, Has, Usable
  <2> QED BY <1>1, <1>6, <2>1, MoveSound, OneBecomes DEF Undeclare
<1>7. ASSUME NEW i \in Handles, Forget(i) PROVE IInv'
  <2>1. Becomes(h[i], [h[i] EXCEPT !.held = FALSE])
    BY <1>1, <1>7, ForgetSound DEF Forget
  <2>2. h' = [h EXCEPT ![i] = [h[i] EXCEPT !.held = FALSE]]
    BY <1>7 DEF Forget
  <2> QED BY <2>1, <2>2, OneBecomes
<1>8. ASSUME NEW i \in Handles, Collect(i) PROVE IInv'
  <2>1. Becomes(h[i], [Finalize(h[i]) EXCEPT !.state = "collected"])
    BY <1>1, <1>8, FinalizeSound DEF Collect
  <2>2. h' = [h EXCEPT ![i] = [Finalize(h[i]) EXCEPT !.state = "collected"]]
    BY <1>8 DEF Collect
  <2> QED BY <2>1, <2>2, OneBecomes
<1>9. ASSUME NEW i \in Handles, h[i].state = "live", h' = [h EXCEPT ![i] = dispose(@)]
      PROVE  IInv'
  <2>1. Becomes(h[i], dispose(h[i]))
    BY <1>1, <1>9, DisposeSound
  <2>2. h' = [h EXCEPT ![i] = dispose(h[i])]
    BY <1>9
  <2> QED BY <2>1, <2>2, OneBecomes
<1>10. ASSUME NEW i \in Handles,
              DisposeBytes(i) \/ DisposeWriter(i) \/ DisposeQuery(i)
                \/ DisposeKeyExpr(i) \/ DisposeCursor(i)
       PROVE  IInv'
  <2>1. h[i].state = "live" /\ h' = [h EXCEPT ![i] = dispose(@)]
    BY <1>10 DEF DisposeBytes, DisposeWriter, DisposeQuery, DisposeKeyExpr,
                 DisposeCursor, Has, Usable
  <2> QED BY <1>9, <2>1
<1>11. ASSUME NEW i \in Handles, DisposeShm(i) PROVE IInv'
  <2>1. CASE h[i].state = "live"
    <3>1. h' = [h EXCEPT ![i] = dispose(@)]
      BY <1>11, <2>1 DEF DisposeShm
    <3> QED BY <1>9, <2>1, <3>1
  <2>2. CASE h[i].state = "consumed"
    <3>1. Becomes(h[i], Detach(FreeSlot([h[i] EXCEPT !.state = "disposed"])))
      BY <1>1, <1>11, <2>2, DisposeMovedSound DEF DisposeShm
    <3>2. h' = [h EXCEPT ![i] = Detach(FreeSlot([h[i] EXCEPT !.state = "disposed"]))]
      BY <1>11, <2>2 DEF DisposeShm
    <3> QED BY <3>1, <3>2, OneBecomes
  <2> QED BY <1>11, <2>1, <2>2 DEF DisposeShm
<1>12. ASSUME NEW i \in Handles, NEW b \in Handles, NewCursor(i, b) PROVE IInv'
  <2> DEFINE c == New("cursor", b)
  <2>1. h[b].kind = "bytes" /\ h[i] = Unused /\ b # None
    BY <1>2, <1>12, OwnedHandlesAssumption DEF NewCursor, Has
  <2>2. i # b
    BY <2>1 DEF Unused
  <2>3. c \in Wrappers /\ Sound(c) /\ c.source = b
    <3>1. "cursor" \in Kinds
      BY DEF Kinds
    <3>2. c \in Wrappers /\ Sound(c)
      BY <2>1, <3>1, NewSound
    <3> QED BY <3>2 DEF New
  <2>4. h' = [h EXCEPT ![i] = c]
    BY <1>12 DEF NewCursor
  <2>5. h' \in [Handles -> Wrappers] /\ \A j \in Handles : Sound(h'[j])
    BY <1>1, <2>3, <2>4
  <2>6. ASSUME NEW j \in Handles, h'[j].kind = "cursor"
        PROVE  h'[j].source \in Handles /\ h'[h'[j].source].kind = "bytes"
    <3>1. CASE j = i
      BY <1>1, <2>1, <2>2, <2>3, <2>4, <3>1
    <3>2. CASE j # i
      <4>1. h'[j] = h[j]
        BY <1>1, <2>4, <3>2
      <4>2. h[j].source \in Handles /\ h[h[j].source].kind = "bytes"
        BY <2>6, <4>1 DEF IInv
      <4>3. h[j].source # i
        BY <2>1, <4>2 DEF Unused
      <4> QED BY <1>1, <2>4, <4>1, <4>2, <4>3
    <3> QED BY <3>1, <3>2
  <2> QED BY <2>5, <2>6 DEF IInv
<1>13. ASSUME NEW w \in Handles, NEW b \in Handles, Append(w, b) PROVE IInv'
  <2>1. h[b].state = "live" /\ h[b].kind = "bytes"
    BY <1>13 DEF Append, Has, Usable
  <2>2. PICK result \in zd_bytes_writer_append :
          h' = [h EXCEPT ![b] = markConsumed(Handed(h[b], result))]
    BY <1>13 DEF Append
  <2>3. Becomes(h[b], markConsumed(Handed(h[b], result)))
    BY <1>1, <1>3, <2>1, SendSound
  <2> QED BY <2>2, <2>3, OneBecomes
<1>14. ASSUME NEW w \in Handles, NEW b \in Handles, Finish(w, b) PROVE IInv'
  <2> DEFINE x == FreeSlot(Take(Detach([h[w] EXCEPT !.state = "consumed"]), "moved"))
  <2>1. h[w].state = "live" /\ h[w].kind = "writer" /\ Free(b)
    BY <1>14 DEF Finish, Has, Usable
  <2>2. Becomes(h[w], x)
    BY <1>1, <2>1, MoveSound
  <2>3. h' = [h EXCEPT ![w] = x, ![b] = New("bytes", None)]
    BY <1>14 DEF Finish
  <2>4. h[w].state # "unused"
    BY <2>1
  <2> QED BY <2>1, <2>2, <2>3, <2>4, MovedIntoBytes
<1>15. ASSUME NEW s \in Handles, NEW b \in Handles, ToBytes(s, b) PROVE IInv'
  <2>1. h[s].state = "live" /\ h[s].kind = "shm" /\ Free(b)
    BY <1>15 DEF ToBytes, Has, Usable
  <2>2. Becomes(h[s], Downgraded(h[s]))
    BY <1>1, <2>1, DowngradedSound
  <2>3. h[s].state # "unused"
    BY <2>1
  <2>4. CASE h' = [h EXCEPT ![s] = Downgraded(h[s]), ![b] = New("bytes", None)]
    BY <2>1, <2>2, <2>3, <2>4, MovedIntoBytes
  <2>5. CASE h' = [h EXCEPT ![s] = Downgraded(h[s])]
    BY <2>2, <2>5, OneBecomes
  <2> QED BY <1>15, <2>4, <2>5 DEF ToBytes
<1>16. ASSUME NEW q \in Handles, NEW t \in Handles, ReplyRefused(q, t) PROVE IInv'
  <2>1. Becomes(h[t], Wrapped)
    BY <1>2, <1>16, TextSound DEF ReplyRefused
  <2> QED BY <1>16, <2>1, OneBecomes DEF ReplyRefused
<1>17. ASSUME NEW q \in Handles, NEW j \in Handles,
              ReplyDel(q, j) \/ ReplyErrBytes(q, j) \/ ReplyErr(q, j)
       PROVE  IInv'
  <2>1. CASE ReplyDel(q, j)
    BY <1>3, <1>4, <2>1, SendKeeps DEF ReplyDel
  <2>2. CASE ReplyErrBytes(q, j)
    BY <1>3, <1>4, <2>2, SendKeeps DEF ReplyErrBytes
  <2>3. CASE ReplyErr(q, j)
    BY <1>3, <1>4, <2>3, SendTextKeeps DEF ReplyErr
  <2> QED BY <1>17, <2>1, <2>2, <2>3
<1>18. ASSUME NEW p \in Arguments, NEW a \in Arguments,
              \/ PutBytes(p, a) \/ PublisherPutBytes(p, a) \/ AdvancedPutBytes(p, a)
              \/ Get(p, a) \/ QuerierGet(p, a)
              \/ \E q \in Handles : ReplyBytes(q, p, a)
       PROVE  IInv'
  <2>1. PICK results \in SUBSET (Results \ {Eleven}) : Send(p, a, results)
    BY <1>3, <1>18 DEF PutBytes, PublisherPutBytes, AdvancedPutBytes, Get,
                       QuerierGet, ReplyBytes
  <2> QED BY <2>1, SendKeeps
<1>19. ASSUME NEW t \in Handles, NEW a \in Arguments,
              \/ Put(t, a) \/ PublisherPut(t, a) \/ AdvancedPut(t, a)
              \/ \E q \in Handles : Reply(q, t, a)
       PROVE  IInv'
  <2>1. PICK results \in SUBSET (Results \ {Eleven}) : SendText(t, a, results)
    BY <1>3, <1>19 DEF Put, PublisherPut, AdvancedPut, Reply
  <2> QED BY <2>1, SendTextKeeps
<1>20. ASSUME NEW i \in Handles, NEW k \in Kinds, Create(i, k) PROVE IInv'
  BY <1>5, <1>20 DEF Create
<1>21. ASSUME NEW i \in Handles, NEW j \in Handles,
              \/ CloneKeyExpr(i, j) \/ Concat(i, j)
              \/ \E k \in Handles : Join(i, j, k)
       PROVE  IInv'
  <2>1. Free(i) /\ \E outcome : h' = [h EXCEPT ![i] = Constructed("keyexpr", outcome)]
    BY <1>21 DEF CloneKeyExpr, Concat, Join
  <2>2. "keyexpr" \in Kinds \ {"cursor"}
    BY DEF Kinds
  <2> QED BY <1>5, <2>1, <2>2
<1>22. CASE UNCHANGED h
  BY <1>22 DEF IInv
<1> QED
  BY <1>6, <1>7, <1>8, <1>10, <1>11, <1>12, <1>13, <1>14, <1>15, <1>16, <1>17,
     <1>18, <1>19, <1>20, <1>21, <1>22, PullGetKeeps, QuerierPullGetKeeps DEF Next

\* The invariant holds throughout.
LEMMA SpecIInv == Spec => []IInv
<1> QED BY InitIInv, NextKeepsIInv, PTL DEF Spec

\* The invariant implies the type invariant.
LEMMA IInvTypeOK == IInv => TypeOK
<1> SUFFICES ASSUME IInv PROVE TypeOK
  OBVIOUS
<1>1. h \in [Handles -> Wrappers]
  BY DEF IInv
<1>2. \A i \in Handles : (h[i].kind = "cursor") <=> (h[i].source # None)
  BY DEF IInv, Sound
<1> QED BY <1>1, <1>2 DEF TypeOK, Wrappers

\* A sound wrapper shows no mark of a second release.
LEMMA IInvReleasedOnce == IInv => ReleasedOnce
<1> SUFFICES ASSUME IInv, NEW i \in Handles
             PROVE  h[i].slot # "wild" /\ h[i].content # "wild"
  BY DEF ReleasedOnce
<1>1. h[i] \in Wrappers /\ Sound(h[i])
  BY DEF IInv
<1> QED
  BY <1>1 DEF Wrappers, Sound, SoundLive, SoundConsumed, SoundReleased, Unused

\* A cursor that passes its guard has a live source, and that one is backed.
LEMMA IInvUsableIsBacked == IInv => UsableIsBacked
<1> SUFFICES ASSUME IInv, NEW i \in Handles, Usable(i)
             PROVE  Backed(h[i]) /\ (h[i].source # None => Backed(h[h[i].source]))
  BY DEF UsableIsBacked
<1>1. \A j \in Handles : h[j].state = "live" => Backed(h[j])
  BY DEF IInv, Sound, SoundLive, Borrows, Backed
<1>2. h[i].source # None => h[i].kind = "cursor" /\ h[i].source \in Handles
  BY DEF IInv, Sound
<1> QED BY <1>1, <1>2 DEF Usable

\* In each state of a sound wrapper the net is what is left to release.
LEMMA IInvNetCoversAll == IInv => NetCoversAll
<1> SUFFICES ASSUME IInv, NEW i \in Handles, h[i].kind # "query"
             PROVE  /\ (h[i].net # "off") <=> (h[i].slot = "allocated")
                    /\ h[i].net = "drop" => h[i].content = "held"
                    /\ h[i].content = "held" => h[i].net = "drop" \/ h[i].eleven
  BY DEF NetCoversAll
<1>1. h[i] \in Wrappers /\ Sound(h[i])
  BY DEF IInv
<1>2. CASE h[i].state = "unused"
  BY <1>1, <1>2 DEF Sound, Unused
<1>3. CASE h[i].state = "live"
  BY <1>1, <1>3 DEF Sound, SoundLive, NetOf, Borrows
<1>4. CASE h[i].state = "consumed"
  BY <1>1, <1>4 DEF Sound, SoundConsumed
<1>5. CASE h[i].state \in {"disposed", "collected"}
  BY <1>1, <1>5 DEF Sound, SoundReleased
<1> QED BY <1>1, <1>2, <1>3, <1>4, <1>5 DEF Wrappers

-----------------------------------------------------------------------------
(* Theorems.                                                               *)

\* The wrappers are always well formed, and a cursor always has its source.
THEOREM TypeCorrect == Spec => []TypeOK
<1> QED BY SpecIInv, IInvTypeOK, PTL

\* No order of sends, dispose() and collection releases anything twice or
\* calls C on freed memory.
THEOREM NothingReleasedTwice == Spec => []ReleasedOnce
<1> QED BY SpecIInv, IInvReleasedOnce, PTL

\* What an accessor's guard lets through has its native value, a cursor's
\* source included.
THEOREM GuardsAreEnough == Spec => []UsableIsBacked
<1> QED BY SpecIInv, IInvUsableIsBacked, PTL

\* Every finalizer has something to release, and everything the isolate owns
\* has a finalizer, but for queries and what Session.pullGet strands.
THEOREM NetIsExact == Spec => []NetCoversAll
<1> QED BY SpecIInv, IInvNetCoversAll, PTL
=============================================================================
