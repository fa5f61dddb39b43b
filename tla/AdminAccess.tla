------------------------------ MODULE AdminAccess ------------------------------
(***************************************************************************)
(* Who may use the admin panel, and the user administration that changes   *)
(* it.                                                                     *)
(*                                                                         *)
(* An account may have a row in admin_users, a row in the Safe Zone users, *)
(* or one in each.  Two gates read them, each with a cache in memory:      *)
(*                                                                         *)
(*   "api"    requireAdmin: admin in either collection; the time of an     *)
(*            entry is taken BEFORE the reads                              *)
(*   "page"   dbRoleForUsername: the admin_users row wins; the time of an  *)
(*            entry is taken AFTER the reads                               *)
(*                                                                         *)
(* A request that passes the api gate may patch or delete a Safe Zone      *)
(* user; the delete checks first and removes later, an await apart.        *)
(***************************************************************************)
EXTENDS Integers, FiniteSets

CONSTANTS
    User,            \* usernames
    AdminRole,       \* role of the active admin_users row, "none" without a row
    Req,             \* requests
    ApiTtl,          \* TTL_MS of adminRoleCache.ts, in ticks
    PageTtl,         \* ROLE_CACHE_MS of portalAccess.ts, in ticks
    MaxRead,         \* bound: ticks the reads of one decision may take
    MaxTime,         \* bound: the clock
    MaxWrites,       \* bound: writes to the users collection
    MaxRequests      \* bound: requests that come

Gate == {"api", "page"}
Role == {"none", "user", "admin"}

ASSUME AccessAssumption ==
    /\ User # {} /\ IsFiniteSet(User)
    /\ AdminRole \in [User -> Role]
    /\ ApiTtl \in Nat \ {0} /\ PageTtl \in Nat \ {0}
    /\ MaxRead \in Nat /\ MaxTime \in Nat
    /\ MaxWrites \in Nat /\ MaxRequests \in Nat

VARIABLES
    role,            \* role in the Safe Zone users, "none" without a row
    active,          \* users whose row says isActive
    now,
    cache,           \* per gate and user: no or one decision with its time
    req,             \* per request: where it is and what it holds
    came,            \* requests so far
    writes,          \* writes so far
    last             \* history: when a gate's answer for a user was last yes, last no

dbVars == <<role, active, writes>>
vars == <<dbVars, now, cache, req, came, last>>

Never == -(ApiTtl + PageTtl + MaxRead + 1)
Time == 0..MaxTime
Reading == {"users", "decide"}
Work == {"allowed", "find", "count", "remove"}

AtMostOne(S) == {{}} \cup {{x} : x \in S}

\* pc; whose session and which gate; the user it is about; when it came; what the gate
\* read or decided; history: the writes when a delete counted the admins.
Request ==
    [pc : {"idle", "denied"} \cup Reading \cup Work, by : User, gate : Gate,
     target : User, since : Time, verdict : BOOLEAN, countedAt : 0..MaxWrites]

TypeOK ==
    /\ role \in [User -> Role]
    /\ active \subseteq User
    /\ now \in Time
    /\ cache \in [Gate -> [User -> AtMostOne([ok : BOOLEAN, at : Time])]]
    /\ req \in [Req -> Request]
    /\ came \in 0..MaxRequests
    /\ writes \in 0..MaxWrites
    /\ last \in [Gate -> [User -> [BOOLEAN -> Time \cup {Never}]]]

\* What each gate would read, with these rows in the Safe Zone users.
isAdminUsername(u, ro, ac) == AdminRole[u] = "admin" \/ (ro[u] = "admin" /\ u \in ac)
dbRoleIsAdmin(u, ro, ac) ==
    IF AdminRole[u] # "none" THEN AdminRole[u] = "admin"
    ELSE ro[u] = "admin" /\ u \in ac
Says(g, u, ro, ac) ==
    IF g = "api" THEN isAdminUsername(u, ro, ac) ELSE dbRoleIsAdmin(u, ro, ac)

Ttl(g) == IF g = "api" THEN ApiTtl ELSE PageTtl

\* The history follows every step that moves the clock or writes.
Remember(t, ro, ac) ==
    last' = [g \in Gate |-> [u \in User |-> [b \in BOOLEAN |->
                IF Says(g, u, ro, ac) = b THEN t ELSE last[g][u][b]]]]

\* No request, or one that has been answered.
NoReq ==
    LET u == CHOOSE x \in User : TRUE IN
    [pc |-> "idle", by |-> u, gate |-> "page", target |-> u, since |-> 0,
     verdict |-> FALSE, countedAt |-> 0]

Init ==
    /\ role \in [User -> {"user", "admin"}]
    /\ active = User
    /\ now = 0
    /\ cache = [g \in Gate |-> [u \in User |-> {}]]
    /\ req = [r \in Req |-> NoReq]
    /\ came = 0
    /\ writes = 0
    /\ last = [g \in Gate |-> [u \in User |-> [b \in BOOLEAN |->
                 IF Says(g, u, role, active) = b THEN 0 ELSE Never]]]

\* Time passes, but a decision is never more than MaxRead ticks in the making.
Tick ==
    /\ now < MaxTime
    /\ \A r \in Req : req[r].pc \in Reading => now - req[r].since < MaxRead
    /\ now' = now + 1
    /\ Remember(now + 1, role, active)
    /\ UNCHANGED <<dbVars, cache, req, came>>
------------------------------------------------------------------------------
(***************************************************************************)
(* The gates.                                                              *)
(***************************************************************************)
Becomes(r, q) == req' = [req EXCEPT ![r] = q]
Goes(r, to) == Becomes(r, [req[r] EXCEPT !.pc = to])
Answered(r) == Becomes(r, NoReq)

\* Mutant: an entry is good for one tick too many.
FreshInclusive(g, u) == {e \in cache[g][u] : now - e.at <= Ttl(g)}

\* The entry that still holds, if there is one.
Fresh(g, u) == {e \in cache[g][u] : now - e.at < Ttl(g)}

Come(r, u, g, t, to, yes) ==
    /\ req[r].pc \in {"idle", "denied"}
    /\ came < MaxRequests
    /\ came' = came + 1
    /\ Becomes(r, [pc |-> to, by |-> u, gate |-> g, target |-> t, since |-> now,
                   verdict |-> yes, countedAt |-> 0])
    /\ UNCHANGED <<dbVars, now, cache, last>>

\* A request comes and no entry holds.  The admin_users row is read first; user
\* administration never writes it, so that its read is part of this step.  (Registering
\* inserts a row where ALLOW_ADMIN_SELF_REGISTER is set, as it is not by default; LoginFlow
\* has that step, and here it is assumed off.)  For the page gate any row decides, for the
\* api gate an admin's.
Miss(r, u, g, t) ==
    LET row == AdminRole[u]
        decides == IF g = "api" THEN row = "admin" ELSE row # "none"
    IN
    /\ Fresh(g, u) = {}
    /\ Come(r, u, g, t, IF decides THEN "decide" ELSE "users", row = "admin")

\* A request comes and the entry answers.
Hit(r, u, g, t) ==
    \E e \in Fresh(g, u) : Come(r, u, g, t, IF e.ok THEN "allowed" ELSE "denied", e.ok)

\* The active row in the Safe Zone users is read.
ReadUsers(r) ==
    LET u == req[r].by IN
    /\ req[r].pc = "users"
    /\ Becomes(r, [req[r] EXCEPT !.pc = "decide",
                                 !.verdict = (role[u] = "admin" /\ u \in active)])
    /\ UNCHANGED <<dbVars, now, cache, came, last>>

\* The cache holds these entries for the request's user, and the request is let in or not.
Settle(r, entries) ==
    LET q == req[r] IN
    /\ q.pc = "decide"
    /\ cache' = [cache EXCEPT ![q.gate] = [cache[q.gate] EXCEPT ![q.by] = entries]]
    /\ Goes(r, IF q.verdict THEN "allowed" ELSE "denied")
    /\ UNCHANGED <<dbVars, now, came, last>>

Entry(r, at) == [ok |-> req[r].verdict, at |-> at]
ReadTime(r) == IF req[r].gate = "api" THEN req[r].since ELSE now

\* Mutant: the entry is added, not replaced.
DecideBesides(r) ==
    Settle(r, cache[req[r].gate][req[r].by] \cup {Entry(r, ReadTime(r))})

\* Mutant: the api gate, too, takes the time after its reads.
DecideLate(r) == Settle(r, {Entry(r, now)})

\* What was read is stored with its time.
Decide(r) == Settle(r, {Entry(r, ReadTime(r))})

\* The panel restarts: its caches are empty and what it was doing is lost.
Restart ==
    /\ cache' = [g \in Gate |-> [u \in User |-> {}]]
    /\ req' = [r \in Req |-> NoReq]
    /\ UNCHANGED <<dbVars, now, came, last>>
------------------------------------------------------------------------------
(***************************************************************************)
(* User administration, behind the api gate.                               *)
(***************************************************************************)
Write(ro, ac) ==
    /\ writes < MaxWrites
    /\ writes' = writes + 1
    /\ role' = ro
    /\ active' = ac
    /\ Remember(now, ro, ac)

\* A page, a GET, or a change that is refused (404, 403): nothing more to do.
View(r) ==
    /\ req[r].pc = "allowed"
    /\ Answered(r)
    /\ UNCHANGED <<dbVars, now, cache, came, last>>

\* PATCH: one update of the role, of isActive or of both; nobody counts admins here.
Patch(r) ==
    LET u == req[r].target IN
    /\ req[r].pc = "allowed" /\ req[r].gate = "api"
    /\ role[u] # "none"
    /\ \E to \in {"user", "admin"}, on \in BOOLEAN :
         Write([role EXCEPT ![u] = to], IF on THEN active \cup {u} ELSE active \ {u})
    /\ Answered(r)
    /\ UNCHANGED <<now, cache, came>>

\* DELETE, not of oneself.
StartDelete(r) ==
    /\ req[r].pc = "allowed" /\ req[r].gate = "api"
    /\ req[r].target # req[r].by
    /\ Goes(r, "find")
    /\ UNCHANGED <<dbVars, now, cache, came, last>>

\* The target's row: none is a 404, an admin's has the admins counted.
FindTarget(r) ==
    LET found == role[req[r].target] IN
    /\ req[r].pc = "find"
    /\ \/ found = "none" /\ Answered(r)
       \/ found = "user" /\ Goes(r, "remove")
       \/ found = "admin" /\ Goes(r, "count")
    /\ UNCHANGED <<dbVars, now, cache, came, last>>

Admins == {u \in User : role[u] = "admin"}

Count(r, fewest) ==
    /\ req[r].pc = "count"
    /\ IF Cardinality(Admins) <= fewest
         THEN Answered(r)
         ELSE Becomes(r, [req[r] EXCEPT !.pc = "remove", !.countedAt = writes])
    /\ UNCHANGED <<dbVars, now, cache, came, last>>

\* Mutant: the count may fall to none.
CountAdminsOff(r) == Count(r, 0)

\* "Cannot delete the last admin account"
CountAdmins(r) == Count(r, 1)

Remove(r) ==
    LET u == req[r].target IN
    /\ req[r].pc = "remove"
    /\ Write([role EXCEPT ![u] = "none"], active \ {u})
    /\ Answered(r)
    /\ UNCHANGED <<now, cache, came>>
------------------------------------------------------------------------------
Comes(r, u, g, t) == Miss(r, u, g, t) \/ Hit(r, u, g, t)
GateStep(r) ==
    \/ \E u, t \in User : Comes(r, u, "api", t)
    \/ \E u \in User : Comes(r, u, "page", u)
    \/ ReadUsers(r) \/ Decide(r)
WorkStep(r) ==
    \/ View(r) \/ Patch(r) \/ StartDelete(r)
    \/ FindTarget(r) \/ CountAdmins(r) \/ Remove(r)

Next ==
    \/ Tick
    \/ Restart
    \/ \E r \in Req : GateStep(r) \/ WorkStep(r)

Spec == Init /\ [][Next]_vars
------------------------------------------------------------------------------
(***************************************************************************)
(* Properties.                                                             *)
(***************************************************************************)
Decided(q) == q.pc \in {"denied"} \cup Work

\* The api gate never acts on an answer that was over a TTL old before the request came:
\* it says yes (no) only if the collections said yes (no) less than TTL_MS before,
\* whatever requests fill the cache in whatever order (adminRoleCache.ts).
ApiDecisionFresh ==
    \A r \in Req : LET q == req[r] IN
        (Decided(q) /\ q.gate = "api") => last["api"][q.by][q.verdict] > q.since - ApiTtl

\* The page gate stamps its entry after the reads, so that its answer may be older by as
\* much as the reads took (portalAccess.ts).
PageDecisionFresh ==
    \A r \in Req : LET q == req[r] IN
        (Decided(q) /\ q.gate = "page") =>
            last["page"][q.by][q.verdict] > q.since - (PageTtl + MaxRead)

\* The step in which a DELETE takes the last admin row away.
DeletesLastAdmin(r) ==
    /\ req[r].pc = "remove" /\ req'[r].pc = "idle"
    /\ Admins # {} /\ Admins' = {}

\* A DELETE takes the last admin row away only if somebody else wrote between its count
\* and its removal (users/route.ts).
OnlyRacesDeleteLastAdmin ==
    [][\A r \in Req : DeletesLastAdmin(r) => writes > req[r].countedAt]_vars

\* "Cannot delete the last admin account" (users/route.ts): no DELETE takes the last
\* admin row away.  The code does not hold it: see MCLastAdmin.cfg.
DeleteLeavesAnAdmin == [][\A r \in Req : ~DeletesLastAdmin(r)]_vars
==============================================================================
