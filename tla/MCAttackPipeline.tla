--------------------------- MODULE MCAttackPipeline ---------------------------
(***************************************************************************)
(* Two reports of one attacker, so that upserts and enrichments race, with *)
(* two verdicts, one admin request (a wipe or a ban) and one crash.        *)
(***************************************************************************)
EXTENDS AttackPipeline

CONSTANTS r1, r2, ip1

MCReport == {r1, r2}
MCIp == {ip1}
MCIpOf == [r \in MCReport |-> ip1]
MCRiskDelta == [r \in MCReport |-> 2]

\* A benign verdict with a confident attribution, a malicious one with a weak one.
MCVerdict ==
    {[riskScore |-> 10, severity |-> 0, confidence |-> 80],
     [riskScore |-> 90, severity |-> 2, confidence |-> 55]}
==============================================================================
