---------------------------- MODULE MCLazyPirate ----------------------------
(* Instances of LazyPirate with interchangeable endpoints; the runs        *)
(* without a liveness property use their symmetry.                         *)
EXTENDS LazyPirate, TLC

Symmetry == Permutations(Endpoints)
=============================================================================
