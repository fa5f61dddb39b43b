----------------------------- MODULE MCHoneyToken -----------------------------
(***************************************************************************)
(* Three requests of one trace that present one token, with a quota of one *)
(* call, so that the dedup, the quota and the document are all contended.  *)
(* A second catalog entry lets a seeding fail half way.                    *)
(***************************************************************************)
EXTENDS HoneyToken, TLC

CONSTANTS q1, q2, q3, hrKey, dbKey, trace1

MCReq == {q1, q2, q3}
MCToken == {hrKey, dbKey}
MCTrace == {trace1}
MCTokenOf == [r \in MCReq |-> hrKey]
MCTraceOf == [r \in MCReq |-> trace1]

Symmetry == Permutations(MCReq)
==============================================================================
