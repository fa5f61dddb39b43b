----------------------------- MODULE Connections -----------------------------
(***************************************************************************)
(* The connections of the panel's process to its databases, one for each   *)
(* handle (admin, safezone, telemetry), made when a request first asks for *)
(* it and kept.                                                            *)
(*                                                                         *)
(*   conn    the connection's readyState                                   *)
(*   first   the promise of the first attempt, which is kept too, however  *)
(*           it ended: the driver never tries a first attempt again, but   *)
(*           restores a connection that once was                           *)
(***************************************************************************)
EXTENDS Naturals

CONSTANTS
    Handle,
    Warmed,          \* handles asked for when the process starts
    Configured,      \* handles whose URI is in the environment
    MaxOutages       \* bound: how often the database fails

VARIABLES conn, first, dbUp, outages

connVars == <<conn, first>>
dbVars == <<dbUp, outages>>
connectionVars == <<connVars, dbVars>>

ASSUME ConnectionAssumption ==
    /\ Warmed \subseteq Configured /\ Configured \subseteq Handle
    /\ MaxOutages \in Nat

ConnectionType ==
    /\ conn \in [Handle -> {"none", "connecting", "connected", "disconnected"}]
    /\ first \in [Handle -> {"none", "pending", "resolved", "rejected"}]
    /\ dbUp \in BOOLEAN /\ outages \in 0..MaxOutages

\* createMaliciousConnection, mongoose.createConnection: the attempt begins.
createConnection(h) ==
    /\ conn' = [conn EXCEPT ![h] = "connecting"]
    /\ first' = [first EXCEPT ![h] = "pending"]

\* The first request creates the connection, and no await comes between the look and the
\* assignment.
getConn(h) ==
    IF conn[h] = "none" /\ h \in Configured THEN createConnection(h) ELSE UNCHANGED connVars

\* What a caller finds: the connection, usable or not; an error; or it waits.  The promise
\* is not asked when the connection is ready.
isReady(h) == conn[h] = "connected"
isHanded(h) == isReady(h) \/ first[h] = "resolved"

\* Mutant: who waits for a rejected promise is not told.
isRefusedWhenUnset(h) == h \notin Configured

isRefused(h) == ~isReady(h) /\ (h \notin Configured \/ first[h] = "rejected")

InitConnections ==
    /\ conn = [h \in Handle |-> IF h \in Warmed THEN "connecting" ELSE "none"]
    /\ first = [h \in Handle |-> IF h \in Warmed THEN "pending" ELSE "none"]
    /\ dbUp = TRUE /\ outages = 0

-----------------------------------------------------------------------------
(* The driver and the database. *)

\* The first attempt finds a server, or eight seconds pass without one.
Attempt(h) ==
    /\ first[h] = "pending"
    /\ first' = [first EXCEPT ![h] = IF dbUp THEN "resolved" ELSE "rejected"]
    /\ conn' = [conn EXCEPT ![h] = IF dbUp THEN "connected" ELSE "disconnected"]
    /\ UNCHANGED dbVars

\* The driver notices that the server is gone, or that it is back.
Notice(h) ==
    /\ first[h] = "resolved"
    /\ conn' = [conn EXCEPT ![h] = IF dbUp THEN "connected" ELSE "disconnected"]
    /\ conn' # conn
    /\ UNCHANGED <<first, dbVars>>

Outage ==
    /\ dbUp /\ outages < MaxOutages
    /\ dbUp' = FALSE /\ outages' = outages + 1
    /\ UNCHANGED <<connVars>>

Recovery ==
    /\ ~dbUp /\ dbUp' = TRUE
    /\ UNCHANGED <<connVars, outages>>
==============================================================================
