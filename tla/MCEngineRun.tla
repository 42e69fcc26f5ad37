----------------------------- MODULE MCEngineRun -----------------------------
(***************************************************************************)
(* EngineRun for TLC: no analyst, one, two with tools, one of the two      *)
(* without; debates of no round, one and two; with and without checkpoints.*)
(***************************************************************************)
EXTENDS EngineRun

NoEnv == [debate |-> Unset, risk |-> Unset]
NoDebateRounds == [debate |-> 0, risk |-> Unset]
MoreDebate == [debate |-> 2, risk |-> 1]

MCRequests ==
    {Configured({"fundamentals"}, TRUE, 1, NoEnv, FALSE),
     Configured({"fundamentals"}, FALSE, 2, NoDebateRounds, FALSE),
     Configured({"social", "fundamentals"}, TRUE, 1, MoreDebate, FALSE),
     Configured({"news", "market"}, FALSE, 1, NoEnv, FALSE),
     Configured({"social", "market"}, FALSE, 1, NoEnv, TRUE)}
=============================================================================
