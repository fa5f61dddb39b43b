----------------------------- MODULE MCGeoLookup -----------------------------
(* A private address and two public ones, of which the offline database knows the region   *)
(* of one; room for two in the cache.                                                      *)
EXTENDS GeoLookup, TLC

CONSTANTS lan, p1, p2, a1, a2, nogeo, noentry, nodoc, nobody, noip

MCIp == {lan, p1, p2}
MCAttack == {a1, a2}
Nothing == [success |-> FALSE, city |-> FALSE, region |-> FALSE, country |-> FALSE,
            code |-> FALSE, coords |-> "none"]
City == [success |-> TRUE, city |-> TRUE, region |-> TRUE, country |-> TRUE,
         code |-> TRUE, coords |-> "point"]
Coarse == [City EXCEPT !.city = FALSE]

MCSaid == {Nothing, City}
MCOffline == [i \in MCIp |-> IF i = p2 THEN Coarse ELSE nogeo]

Left == [city |-> "Unknown", country |-> TRUE, coords |-> "none"]
MCStored == {(lan :> ISRAEL_FALLBACK) @@ (p1 :> Left) @@ (p2 :> nodoc)}
==============================================================================
