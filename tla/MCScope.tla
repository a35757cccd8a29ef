------------------------------- MODULE MCScope -------------------------------
(***************************************************************************)
(* Small instances of Scope.                                               *)
(***************************************************************************)
EXTENDS Scope, TLC

CONSTANTS t1, t2

\* Types are only compared, and with each other.
TypeSymmetry == Permutations({t1, t2})
=============================================================================
