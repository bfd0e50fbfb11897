---------------------------- MODULE MCFeeLedger ----------------------------
(* Instances of the commission ledger for TLC. *)
EXTENDS FeeLedger, TLC

Symmetry == Permutations(Workers)
=============================================================================
