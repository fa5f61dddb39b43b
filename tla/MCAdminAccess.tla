---------------------------- MODULE MCAdminAccess ----------------------------
(***************************************************************************)
(* Two accounts, one of them with a row in both collections, and two       *)
(* requests at a time; ticks of 20 s would make ApiTtl 3 and PageTtl 1,    *)
(* here they are 2 and 1.                                                  *)
(***************************************************************************)
EXTENDS AdminAccess, TLC

CONSTANTS alice, bob, p1, p2

MCUser == {alice, bob}
MCReq == {p1, p2}
MCAdminRole == (alice :> "none") @@ (bob :> "user")

Symmetry == Permutations(MCReq)
==============================================================================
