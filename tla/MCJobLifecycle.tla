-------------------------- MODULE MCJobLifecycle --------------------------
(* Instances of JobLifecycle for TLC: a controller is a model value. *)
EXTENDS JobLifecycle, TLC

AllOps == {"accept", "reject", "cancel", "reverify", "cleanup"}
Symmetry == Permutations(Controllers)
=============================================================================
