------------------------------ MODULE MCOffload ------------------------------
(* Instance of Offload for TLC. *)
EXTENDS Offload

==============================================================================
