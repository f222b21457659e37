------------------------------ MODULE MCSurfaces ------------------------------
(* Instances of Surfaces for TLC.                                          *)
EXTENDS Surfaces, TLC

\* The child's surfaces and the embedder's root surfaces are interchangeable.
Symmetry == Permutations(Roots) \cup Permutations(Children)
=============================================================================
