------------------------------ MODULE FenceSyncs ------------------------------
(***************************************************************************)
(* What fence syncs promise to the users of command buffers, without order *)
(* numbers, callbacks and threads: a client that waits for a release goes  *)
(* on only when the release command has been executed, or will never be.   *)
(***************************************************************************)
EXTENDS Integers

CONSTANTS Client, MaxRelease, NoWait

VARIABLES
  released,   \* release commands of a client executed so far
  gone,       \* clients without a context
  waiting     \* the token a client waits for, or NoWait

vars == <<released, gone, waiting>>

Token == Client \X (1 .. MaxRelease)

Init ==
  /\ released = [c \in Client |-> 0]
  /\ gone = {}
  /\ waiting = [c \in Client |-> NoWait]

Release(c) ==
  /\ c \notin gone
  /\ waiting[c] = NoWait
  /\ released[c] < MaxRelease
  /\ released' = [released EXCEPT ![c] = @ + 1]
  /\ UNCHANGED <<gone, waiting>>

Leave(c) ==
  /\ c \notin gone
  /\ waiting[c] = NoWait
  /\ gone' = gone \cup {c}
  /\ UNCHANGED <<released, waiting>>

StartWait(c, token) ==
  /\ c \notin gone
  /\ waiting[c] = NoWait
  /\ waiting' = [waiting EXCEPT ![c] = token]
  /\ UNCHANGED <<released, gone>>

Signaled(token) == token[2] =< released[token[1]] \/ token[1] \in gone

FinishWait(c) ==
  /\ waiting[c] # NoWait
  /\ Signaled(waiting[c])
  /\ waiting' = [waiting EXCEPT ![c] = NoWait]
  /\ UNCHANGED <<released, gone>>

Next ==
  \E c \in Client :
    \/ Release(c)
    \/ Leave(c)
    \/ \E token \in Token : StartWait(c, token)
    \/ FinishWait(c)

Spec == Init /\ [][Next]_vars
=============================================================================
