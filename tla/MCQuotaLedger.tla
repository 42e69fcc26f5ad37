---------------------------- MODULE MCQuotaLedger ----------------------------
(***************************************************************************)
(* QuotaLedger for TLC: requests of one kind are interchangeable.          *)
(***************************************************************************)
EXTENDS QuotaLedger, TLC

Symmetry == Permutations(Threads) \cup Permutations(Admins)
=============================================================================
