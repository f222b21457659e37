---------------------------- MODULE MCThreadProxy ----------------------------
(* Instances of ThreadProxy for TLC: the constants are in the configurations. *)
EXTENDS ThreadProxy

\* A page that has something to draw from its first tree on, and whose tiles
\* are always there: drawing never checkerboards.
DrawsWhatItHas ==
  /\ sm'.can_draw # sm.can_draw => ~sm.can_draw
  /\ inside_action = "ACTIVATE_SYNC_TREE" /\ inside_action' = "NONE" =>
       sm.can_draw
  /\ sm'.forced_redraw_state = "IDLE"

DrawingSpec == Init /\ [][Next /\ DrawsWhatItHas]_vars

\* A page that stays visible once it is: what becomes of a frame that nobody
\* interrupts.
StaysVisible == main.visible => main'.visible

SteadySpec == Init /\ [][Next /\ StaysVisible]_vars /\ Fairness
==============================================================================
