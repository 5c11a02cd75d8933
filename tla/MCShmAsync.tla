----------------------------- MODULE MCShmAsync ------------------------------
(* Instance of ShmAsync for TLC. *)
EXTENDS ShmAsync

==============================================================================
