----------------------------- MODULE MCImageStore -----------------------------
(* Symmetry of the reliable publishes, the fingerprints and the aliases.   *)
EXTENDS ImageStore, TLC

StoreSymmetry ==
  Permutations(Publishers \ Unreliable) \cup Permutations(Images) \cup Permutations(Aliases)
=============================================================================
