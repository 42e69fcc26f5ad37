---------------------------- MODULE MCJobPipeline ----------------------------
(***************************************************************************)
(* JobPipeline for TLC: the ids are model values, so that jobs, workers    *)
(* and threads are interchangeable.  Symmetry is used in the runs that     *)
(* check safety only.                                                      *)
(***************************************************************************)
EXTENDS JobPipeline, TLC

Symmetry == Permutations(Jobs) \cup Permutations(Workers) \cup Permutations(Threads)
=============================================================================
