---------------------------- MODULE MCPullChannel ----------------------------
(* Instances of PullChannel for TLC. *)
EXTENDS PullChannel

AllButSecondLook == Sites \ {"recvAgain"}
OnlySecondLook == {"recvAgain"}
==============================================================================
