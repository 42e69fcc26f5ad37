----------------------------- MODULE MCRunFiles -----------------------------
(***************************************************************************)
(* RunFiles for TLC: two analyses of one ticker, one of them retried.      *)
(***************************************************************************)
EXTENDS RunFiles, TLC

CONSTANTS w1, w2, j1, j2

MCTickers == j1 :> "A" @@ j2 :> "A"
MCDates == j1 :> 1 @@ j2 :> 2
\* With zero rounds left to it the bear has nothing to say: only the first
\* attempt at j1 has a section of its own.
MCTreeOf(j, a) ==
    {"complete_report.md"} \cup {f \in {"2_research/bear.md"} : j = j1 /\ a = 1}

Symmetry == Permutations({w1, w2})
=============================================================================
