----------------------------- MODULE MCGemPexec -----------------------------
(* Instances of GemPexec for TLC.  *)
EXTENDS GemPexec, TLC

CONSTANTS p1, p2, p3, h1, h2

Symmetry == Permutations(Pages) \cup Permutations(Handles)
=============================================================================
