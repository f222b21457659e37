----------------------------- MODULE MCScheduler -----------------------------
(* Instances of Scheduler for TLC: the constants are in the configurations. *)
EXTENDS Scheduler

\* A client that stays visible and able to draw once it is, for the properties
\* that ask what becomes of a frame that nobody interrupts.
StaysVisible == /\ sm.visible => sm'.visible
                /\ sm.can_draw => sm'.can_draw

SteadySpec == Init /\ [][Next /\ StaysVisible]_vars /\ Fairness
==============================================================================
