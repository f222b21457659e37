-------------------------- MODULE MCTaskGraphRunner --------------------------
(* An instance of TaskGraphRunner for TLC.                                 *)
EXTENDS TaskGraphRunner

CONSTANTS a, b, c, d, w1, w2, f1

\* Two namespaces: b depends on a and c; d is alone in the other one.
MCTask == {a, b, c, d}
MCNamespaceOf == [t \in MCTask |-> IF t = d THEN 2 ELSE 1]
MCDependency == {<<a, b>>, <<c, b>>}
MCRank == [t \in MCTask |-> IF t = b THEN 1 ELSE 0]
\* a goes first in its namespace; b, c and d tie, so every order of them is met.
MCPriorities == {[t \in MCTask |-> IF t = a THEN 0 ELSE 1]}

MCWorker == {w1, w2}
MCFlusher == {f1}
MCSyncOrigin == {2}

\* What is scheduled in the first namespace: all of it, or c alone, or nothing.
MCGraphs == nodes[1] \in {{a, b, c}, {c}, {}}

\* FlushForTesting leaves without a Signal, so that one that waits beside an
\* origin thread may swallow its wakeup: here it is called by a test, whose
\* thread is the origin thread of every namespace, so no other call overlaps it.
Flushing == \E f \in Flusher : pc[f] # "client"
FlushesAlone ==
  /\ Flushing' => \A ns \in Origin : pc'[ns] = "client"
  /\ Flushing /\ Flushing' =>
       UNCHANGED <<next_namespace_id, namespaces, nodes, collected>>

MCSpec == Init /\ [][Next /\ MCGraphs' /\ FlushesAlone]_vars /\ Fairness
=============================================================================
