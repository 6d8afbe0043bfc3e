------------------------- MODULE MCPostagePurchase -------------------------
(***************************************************************************)
(* Small instances of PostagePurchase for TLC. Offers are interchangeable, *)
(* and so are packages of one kind and the requests that do not clean up.  *)
(***************************************************************************)
EXTENDS PostagePurchase, TLC

Symmetry ==
  Permutations(Sourced) \cup Permutations(Offer) \cup Permutations(Request \ Unattended)
=============================================================================
