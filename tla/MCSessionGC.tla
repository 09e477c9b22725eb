----------------------------- MODULE MCSessionGC -----------------------------
(* Two sessions, two requests, a clock of a few ticks. *)
EXTENDS SessionGC, TLC

Symmetry == Permutations(Tokens) \cup Permutations(Requests)
=============================================================================
