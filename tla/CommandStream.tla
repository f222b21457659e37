----------------------------- MODULE CommandStream -----------------------------
(***************************************************************************)
(* What a command buffer promises to its client: commands are executed     *)
(* once, in the order they were issued, as they were written, until the    *)
(* context is lost; Finish returns when all of them have been executed.    *)
(* There is no ring, no flush and no waiting for room.                     *)
(***************************************************************************)
EXTENDS Sequences

CONSTANT Commands

VARIABLES
  stream,      \* commands issued and not yet executed
  lost,        \* the context is lost
  finishing    \* the client is in Finish

vars == <<stream, lost, finishing>>

Init == stream = <<>> /\ lost = FALSE /\ finishing = FALSE

Issue ==
  /\ ~finishing
  /\ ~lost
  /\ \E c \in Commands : stream' = Append(stream, c)
  /\ UNCHANGED <<lost, finishing>>

Execute ==
  /\ ~lost
  /\ stream # <<>>
  /\ stream' = Tail(stream)
  /\ UNCHANGED <<lost, finishing>>

\* What is left is never executed, and what is issued from now on neither.
Lose ==
  /\ lost' = TRUE
  /\ stream' = <<>>
  /\ UNCHANGED finishing

StartFinish ==
  /\ finishing' = TRUE
  /\ UNCHANGED <<stream, lost>>

EndFinish ==
  /\ finishing
  /\ lost \/ stream = <<>>
  /\ finishing' = FALSE
  /\ UNCHANGED <<stream, lost>>

Next == Issue \/ Execute \/ Lose \/ StartFinish \/ EndFinish

Spec == Init /\ [][Next]_vars
=============================================================================
