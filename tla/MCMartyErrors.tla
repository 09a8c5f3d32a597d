---------------------------- MODULE MCMartyErrors ----------------------------
(***************************************************************************)
(* A small instance of MartyErrors: with what the errors of other crates   *)
(* become, one variant of each exception type and of each level.           *)
(***************************************************************************)
EXTENDS MartyErrors, TLC

SomeFailing == {"StatusIndexOutOfBounds", "KeyNotFound", "KeyUnsupportedAlgorithm"}

(* Errors only, and everything.                                            *)
SomeFilters == {{"error"}, {"error", "warn", "info", "debug"}}

Symmetry == Permutations(Threads)
=============================================================================
