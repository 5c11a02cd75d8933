---------------------------- MODULE MCNativeCalls -----------------------------
(* Instance of Extraction and of Process for TLC.  The two share no state: a *)
(* behaviour is one of either of them, with the other at rest in one of its  *)
(* initial states.                                                           *)
EXTENDS Extraction, Process, TLC

-----------------------------------------------------------------------------
(* Extraction: every value of every column, with each field it can have    *)
(* absent, empty or with data where the column allows.                     *)
Each == {"absent", "empty", "data"}
Given == {"empty", "data"}
Maybe == {"absent", "data"}
Never == {"absent"}

Wire(column, parameters, payload, encoding, attachment, timestamp, zid) ==
  { [column |-> column, keyexpr |-> IF column = "error" THEN "absent" ELSE "data",
     parameters |-> pa, payload |-> p, encoding |-> e, attachment |-> a,
     timestamp |-> t, zid |-> z] :
      pa \in parameters, p \in payload, e \in encoding, a \in attachment,
      t \in timestamp, z \in zid }

MCWires ==
  Wire("sample", Never, Given, Given, Each, Maybe, Never)
  \cup Wire("ok", Never, Given, Given, Each, Maybe, Maybe)
  \cup Wire("error", Never, Given, Given, Never, Never, Maybe)
  \cup Wire("query", Given, Each, Each, Each, Never, Never)

-----------------------------------------------------------------------------
(* Process: two isolates on two threads, texts below and above the clamp,  *)
(* and peers enough for three growths of the buffer.                       *)
CONSTANTS i1, i2, t1, t2

MCIsolates == {i1, i2}
MCThreads == {t1, t2}
MCTexts == {1, 5}
MCBufferCaps == {1, 6}
MCPeers == {0, 3}

\* Isolates are alike, and threads are; the properties of this run are invariants.
MCSymmetry == Permutations(MCIsolates) \cup Permutations(MCThreads)

-----------------------------------------------------------------------------
VARIABLE moving  (* which of the two this behaviour is of                  *)

MCInit ==
  /\ ReadInit
  /\ Init
  /\ moving \in {"extraction", "process"}
  /\ moving = "process" => ~retain /\ wire = CHOOSE w \in MCWires : TRUE

ExtractionMoves ==
  moving = "extraction" /\ ReadNext /\ UNCHANGED <<vars, moving>>

ProcessMoves ==
  moving = "process" /\ Next /\ UNCHANGED <<readVars, moving>>

MCNext == ExtractionMoves \/ ProcessMoves

MCSpec == MCInit /\ [][MCNext]_<<readVars, vars, moving>>

=============================================================================
