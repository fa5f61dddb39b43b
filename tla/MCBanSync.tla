------------------------------- MODULE MCBanSync -------------------------------
(***************************************************************************)
(* Two addresses and ticks of five seconds: REFRESH_MS is 3, the timeout   *)
(* is 1.                                                                   *)
(***************************************************************************)
EXTENDS BanSync, TLC

CONSTANTS ip1, ip2

MCIp == {ip1, ip2}
==============================================================================
