-------------------------- MODULE MCLabelLifecycle --------------------------
(***************************************************************************)
(* Small instances of LabelLifecycle for TLC: packages, labels, forms and  *)
(* workers are interchangeable.                                            *)
(***************************************************************************)
EXTENDS LabelLifecycle, TLC

Symmetry == Permutations(Package) \cup Permutations(Label)
             \cup Permutations(Form) \cup Permutations(Worker)
=============================================================================
