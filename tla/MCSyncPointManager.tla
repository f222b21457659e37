-------------------------- MODULE MCSyncPointManager --------------------------
(* Instances of SyncPointManager for TLC. *)
EXTENDS SyncPointManager, TLC

CONSTANTS c1, c2, c3, t1, t2

\* Two command buffers on one thread, the third one on a thread of its own.
TwoAndOne == c1 :> t1 @@ c2 :> t1 @@ c3 :> t2

\* Two command buffers on the one thread that GetInitialService makes.
OneForAll == c1 :> t1 @@ c2 :> t1
==============================================================================
