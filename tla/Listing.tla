------------------------------ MODULE Listing ------------------------------
(***************************************************************************)
(* What the passes of the controllers and of the agents have in common:    *)
(* registry.List returns the records ordered by key, so keys are numbers.  *)
(***************************************************************************)
EXTENDS Naturals, FiniteSets

\* The record a loop over a listing takes next.
First(s) == CHOOSE x \in s : \A y \in s : x <= y
=============================================================================
