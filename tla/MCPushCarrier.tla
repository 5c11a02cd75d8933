---------------------------- MODULE MCPushCarrier ----------------------------
(* Instance of PushCarrier for TLC. *)
EXTENDS PushCarrier

==============================================================================
