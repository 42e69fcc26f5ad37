---------------------------- MODULE MCEventStream ----------------------------
(***************************************************************************)
(* EventStream for TLC.  Workers are interchangeable; symmetry is used in  *)
(* the run that checks safety only.                                        *)
(***************************************************************************)
EXTENDS EventStream, TLC

Symmetry == Permutations(Workers)
=============================================================================
