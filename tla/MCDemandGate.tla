---------------------------- MODULE MCDemandGate -----------------------------
(* Instance of DemandGate for TLC. *)
EXTENDS DemandGate

==============================================================================
