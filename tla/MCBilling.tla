----------------------------- MODULE MCBilling -----------------------------
(* Instances of the monthly fee for TLC. *)
EXTENDS Billing, TLC

Symmetry == Permutations(Desks) \cup Permutations(Hooks)
=============================================================================
