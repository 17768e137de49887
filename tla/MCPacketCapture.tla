-------------------------- MODULE MCPacketCapture --------------------------
(***************************************************************************)
(* Two pods compete for the one target there is room for: the first one to *)
(* be listed takes it, and the other one is past maxTargets.               *)
(***************************************************************************)
EXTENDS PacketCapture

MCPod == 1 .. 2
=============================================================================
