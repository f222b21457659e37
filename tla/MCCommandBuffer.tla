---------------------------- MODULE MCCommandBuffer ----------------------------
(* Instances of CommandBuffer for TLC. *)
EXTENDS CommandBuffer, TLC
================================================================================
