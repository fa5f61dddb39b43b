-------------------------- MODULE AdminAccessProofs --------------------------
(***************************************************************************)
(* Proofs about AdminAccess, for every set of users and requests and every *)
(* time to live: the types, how old a gate's answer may be, and that only  *)
(* a race deletes the last admin.                                          *)
(***************************************************************************)
EXTENDS AdminAccess, FiniteSetTheorems, TLAPS

USE AccessAssumption DEF AccessAssumption

LEMMA NoReqType == NoReq \in Request /\ NoReq.pc = "idle"
BY DEF NoReq, Request, Gate, Time

LEMMA RememberType ==
    ASSUME TypeOK, NEW t \in Time, NEW ro, NEW ac, Remember(t, ro, ac)
    PROVE  last' \in [Gate -> [User -> [BOOLEAN -> Time \cup {Never}]]]
BY DEF TypeOK, Remember

LEMMA InitType == Init => TypeOK
<1> SUFFICES ASSUME Init PROVE TypeOK
  OBVIOUS
<1>1. role \in [User -> Role] /\ active \subseteq User
  BY DEF Init, Role
<1>2. /\ cache \in [Gate -> [User -> AtMostOne([ok : BOOLEAN, at : Time])]]
      /\ req \in [Req -> Request]
  BY NoReqType DEF Init, AtMostOne
<1>3. now \in Time /\ came \in 0..MaxRequests /\ writes \in 0..MaxWrites
  BY DEF Init, Time
<1>4. last \in [Gate -> [User -> [BOOLEAN -> Time \cup {Never}]]]
  BY DEF Init, Time
<1> QED
  BY <1>1, <1>2, <1>3, <1>4 DEF TypeOK

LEMMA StepType == TypeOK /\ [Next]_vars => TypeOK'
<1> SUFFICES ASSUME TypeOK, [Next]_vars PROVE TypeOK'
  OBVIOUS
<1> USE DEF TypeOK, dbVars
<1>1. CASE Tick
  <2>1. now' \in Time
    BY <1>1 DEF Tick, Time
  <2>2. last' \in [Gate -> [User -> [BOOLEAN -> Time \cup {Never}]]]
    BY <1>1, <2>1, RememberType DEF Tick
  <2> QED
    BY <1>1, <2>1, <2>2 DEF Tick
<1>2. CASE Restart
  BY <1>2, NoReqType DEF Restart, AtMostOne
<1>3. ASSUME NEW r \in Req, NEW q \in Request, Becomes(r, q), came < MaxRequests,
             came' = came + 1, UNCHANGED <<dbVars, now, cache, last>>
      PROVE  TypeOK'
  <2>1. req' \in [Req -> Request]
    BY <1>3 DEF Becomes
  <2>2. came' \in 0..MaxRequests
    BY <1>3
  <2> QED
    BY <1>3, <2>1, <2>2
<1>4. ASSUME NEW r \in Req, NEW u \in User, NEW g \in Gate, NEW t \in User,
             Comes(r, u, g, t)
      PROVE  TypeOK'
  <2>1. CASE Miss(r, u, g, t)
    <3> DEFINE row == AdminRole[u]
               to == IF IF g = "api" THEN row = "admin" ELSE row # "none"
                       THEN "decide" ELSE "users"
               q == [pc |-> to, by |-> u, gate |-> g, target |-> t, since |-> now,
                     verdict |-> (row = "admin"), countedAt |-> 0]
    <3>1. q \in Request
      BY DEF Request, Reading
    <3>2. /\ Becomes(r, q) /\ came < MaxRequests /\ came' = came + 1
          /\ UNCHANGED <<dbVars, now, cache, last>>
      BY <2>1 DEF Miss, Come
    <3> HIDE DEF q
    <3> QED
      BY <1>3, <3>1, <3>2
  <2>2. CASE Hit(r, u, g, t)
    <3>1. PICK e \in Fresh(g, u) :
            Come(r, u, g, t, IF e.ok THEN "allowed" ELSE "denied", e.ok)
      BY <2>2 DEF Hit
    <3>2. cache[g][u] \in AtMostOne([ok : BOOLEAN, at : Time])
      OBVIOUS
    <3>3. e \in [ok : BOOLEAN, at : Time]
      BY <3>2 DEF Fresh, AtMostOne
    <3> DEFINE q == [pc |-> IF e.ok THEN "allowed" ELSE "denied", by |-> u, gate |-> g,
                     target |-> t, since |-> now, verdict |-> e.ok, countedAt |-> 0]
    <3>4. q \in Request
      BY <3>3 DEF Request, Work
    <3>5. /\ Becomes(r, q) /\ came < MaxRequests /\ came' = came + 1
          /\ UNCHANGED <<dbVars, now, cache, last>>
      BY <3>1 DEF Come
    <3> HIDE DEF q
    <3> QED
      BY <1>3, <3>4, <3>5
  <2> QED
    BY <1>4, <2>1, <2>2 DEF Comes
<1>5. ASSUME NEW r \in Req, NEW to \in {"users", "decide", "denied"} \cup Work, Goes(r, to)
      PROVE  req' \in [Req -> Request]
  <2>1. [req[r] EXCEPT !.pc = to] \in Request
    BY DEF Request, Reading
  <2> QED
    BY <1>5, <2>1 DEF Goes, Becomes
<1>6. ASSUME NEW r \in Req, Answered(r) PROVE req' \in [Req -> Request]
  BY <1>6, NoReqType DEF Answered, Becomes
<1>7. ASSUME NEW r \in Req, ReadUsers(r) PROVE TypeOK'
  <2>1. [req[r] EXCEPT !.pc = "decide",
           !.verdict = (role[req[r].by] = "admin" /\ req[r].by \in active)] \in Request
    BY DEF Request, Reading
  <2> QED
    BY <1>7, <2>1 DEF ReadUsers, Becomes
<1>8. ASSUME NEW r \in Req, Decide(r) PROVE TypeOK'
  <2>1. req[r] \in Request
    OBVIOUS
  <2>2. Entry(r, ReadTime(r)) \in [ok : BOOLEAN, at : Time]
    BY <2>1 DEF Entry, ReadTime, Request
  <2>3. cache' \in [Gate -> [User -> AtMostOne([ok : BOOLEAN, at : Time])]]
    BY <1>8, <2>1, <2>2 DEF Decide, Settle, Request, AtMostOne
  <2>4. req' \in [Req -> Request]
    BY <1>8, <1>5 DEF Decide, Settle, Work
  <2> QED
    BY <1>8, <2>3, <2>4 DEF Decide, Settle
<1>9. ASSUME NEW ro \in [User -> Role], NEW ac \in SUBSET User, Write(ro, ac)
      PROVE  /\ role' \in [User -> Role] /\ active' \subseteq User
             /\ writes' \in 0..MaxWrites
             /\ last' \in [Gate -> [User -> [BOOLEAN -> Time \cup {Never}]]]
  <2>1. Remember(now, ro, ac)
    BY <1>9 DEF Write
  <2>2. last' \in [Gate -> [User -> [BOOLEAN -> Time \cup {Never}]]]
    BY <2>1, RememberType
  <2> QED
    BY <1>9, <2>2 DEF Write
<1>10. ASSUME NEW r \in Req, View(r) PROVE TypeOK'
  BY <1>10, <1>6 DEF View
<1>11. ASSUME NEW r \in Req, Patch(r) PROVE TypeOK'
  <2> DEFINE u == req[r].target
  <2>1. u \in User
    BY DEF Request
  <2>2. PICK to \in {"user", "admin"}, on \in BOOLEAN :
          Write([role EXCEPT ![u] = to], IF on THEN active \cup {u} ELSE active \ {u})
    BY <1>11 DEF Patch
  <2>3. [role EXCEPT ![u] = to] \in [User -> Role]
    BY DEF Role
  <2>4. (IF on THEN active \cup {u} ELSE active \ {u}) \in SUBSET User
    BY <2>1
  <2> HIDE DEF u
  <2> QED
    BY <1>11, <2>2, <2>3, <2>4, <1>9, <1>6 DEF Patch
<1>12. ASSUME NEW r \in Req, StartDelete(r) PROVE TypeOK'
  BY <1>12, <1>5 DEF StartDelete, Work
<1>13. ASSUME NEW r \in Req, FindTarget(r) PROVE TypeOK'
  BY <1>13, <1>5, <1>6 DEF FindTarget, Work
<1>14. ASSUME NEW r \in Req, CountAdmins(r) PROVE TypeOK'
  <2>1. [req[r] EXCEPT !.pc = "remove", !.countedAt = writes] \in Request
    BY DEF Request, Work
  <2>2. req' \in [Req -> Request]
    BY <1>14, <1>6, <2>1 DEF CountAdmins, Count, Becomes
  <2> QED
    BY <1>14, <2>2 DEF CountAdmins, Count
<1>15. ASSUME NEW r \in Req, Remove(r) PROVE TypeOK'
  <2> DEFINE u == req[r].target
  <2>1. [role EXCEPT ![u] = "none"] \in [User -> Role]
    BY DEF Role
  <2>2. active \ {u} \in SUBSET User
    OBVIOUS
  <2>3. Write([role EXCEPT ![u] = "none"], active \ {u})
    BY <1>15 DEF Remove
  <2> HIDE DEF u
  <2> QED
    BY <1>15, <2>1, <2>2, <2>3, <1>9, <1>6 DEF Remove
<1>16. CASE UNCHANGED vars
  BY <1>16 DEF vars
<1> QED
  BY <1>1, <1>2, <1>4, <1>7, <1>8, <1>10, <1>11, <1>12, <1>13, <1>14, <1>15, <1>16
     DEF Next, GateStep, WorkStep, Gate

\* Every variable keeps its type, and a gate never holds two entries for a user.
THEOREM TypeCorrect == Spec => []TypeOK
<1> QED
  BY InitType, StepType, PTL DEF Spec
------------------------------------------------------------------------------
(***************************************************************************)
(* The history: no answer was heard in the future, and the answer the      *)
(* collections give now has been heard now.                                *)
(***************************************************************************)
HistoryInv ==
    /\ \A g \in Gate, u \in User, b \in BOOLEAN : last[g][u][b] <= now
    /\ \A g \in Gate, u \in User : last[g][u][Says(g, u, role, active)] = now

\* What was heard is never forgotten: the times only grow.
Grows == \A g \in Gate, u \in User, b \in BOOLEAN : last'[g][u][b] >= last[g][u][b]

LEMMA LastIsInt ==
    ASSUME TypeOK, NEW g \in Gate, NEW u \in User, NEW b \in BOOLEAN
    PROVE  last[g][u][b] \in Int
BY DEF TypeOK, Time, Never

LEMMA SaysBoolean ==
    ASSUME NEW g, NEW u, NEW ro, NEW ac PROVE Says(g, u, ro, ac) \in BOOLEAN
BY DEF Says, isAdminUsername, dbRoleIsAdmin

LEMMA Remembered ==
    ASSUME TypeOK, HistoryInv, NEW t \in {now, now + 1}, NEW ro, NEW ac,
           Remember(t, ro, ac), now' = t, role' = ro, active' = ac
    PROVE  HistoryInv' /\ Grows
<1>1. ASSUME NEW g \in Gate, NEW u \in User, NEW b \in BOOLEAN
      PROVE  last'[g][u][b] = IF Says(g, u, ro, ac) = b THEN t ELSE last[g][u][b]
  BY DEF Remember
<1>2. now \in Int /\ t >= now
  BY DEF TypeOK, Time
<1>3. ASSUME NEW g \in Gate, NEW u \in User, NEW b \in BOOLEAN
      PROVE  last'[g][u][b] <= t /\ last'[g][u][b] >= last[g][u][b]
  <2>1. last[g][u][b] \in Int /\ last[g][u][b] <= now
    BY LastIsInt DEF HistoryInv
  <2>2. last'[g][u][b] = t \/ last'[g][u][b] = last[g][u][b]
    BY <1>1
  <2> QED
    BY <1>2, <2>1, <2>2
<1>4. ASSUME NEW g \in Gate, NEW u \in User
      PROVE  last'[g][u][Says(g, u, ro, ac)] = t
  BY <1>1, SaysBoolean
<1> QED
  BY <1>3, <1>4 DEF HistoryInv, Grows

LEMMA StepHistory == TypeOK /\ HistoryInv /\ [Next]_vars => HistoryInv' /\ Grows
<1> SUFFICES ASSUME TypeOK, HistoryInv, [Next]_vars PROVE HistoryInv' /\ Grows
  OBVIOUS
<1>1. CASE UNCHANGED <<dbVars, now, last>>
  <2>1. HistoryInv'
    BY <1>1 DEF HistoryInv, dbVars
  <2>2. Grows
    BY <1>1, LastIsInt DEF Grows
  <2> QED
    BY <2>1, <2>2
<1>2. CASE Tick
  BY <1>2, Remembered DEF Tick, dbVars
<1>3. ASSUME NEW ro, NEW ac, Write(ro, ac), now' = now
      PROVE  HistoryInv' /\ Grows
  BY <1>3, Remembered DEF Write
<1>4. ASSUME NEW r \in Req, Patch(r) PROVE HistoryInv' /\ Grows
  BY <1>4, <1>3 DEF Patch
<1>5. ASSUME NEW r \in Req, Remove(r) PROVE HistoryInv' /\ Grows
  BY <1>5, <1>3 DEF Remove
<1>6. CASE Restart
  BY <1>6, <1>1 DEF Restart
<1>7. ASSUME NEW r \in Req, GateStep(r) PROVE UNCHANGED <<dbVars, now, last>>
  BY <1>7 DEF GateStep, Comes, Miss, Hit, Come, ReadUsers, Decide, Settle
<1>8. ASSUME NEW r \in Req, View(r) \/ StartDelete(r) \/ FindTarget(r) \/ CountAdmins(r)
      PROVE  UNCHANGED <<dbVars, now, last>>
  BY <1>8 DEF View, StartDelete, FindTarget, CountAdmins, Count
<1>9. CASE UNCHANGED vars
  BY <1>9, <1>1 DEF vars
<1> QED
  BY <1>1, <1>2, <1>4, <1>5, <1>6, <1>7, <1>8, <1>9 DEF Next, WorkStep

LEMMA InitHistory == Init => HistoryInv
<1> SUFFICES ASSUME Init PROVE HistoryInv
  OBVIOUS
<1>1. ASSUME NEW g \in Gate, NEW u \in User, NEW b \in BOOLEAN
      PROVE  last[g][u][b] = IF Says(g, u, role, active) = b THEN 0 ELSE Never
  BY DEF Init
<1>2. Never \in Int /\ Never <= 0 /\ now = 0
  BY DEF Never, Init
<1>3. ASSUME NEW g \in Gate, NEW u \in User, NEW b \in BOOLEAN PROVE last[g][u][b] <= now
  BY <1>1, <1>2
<1>4. ASSUME NEW g \in Gate, NEW u \in User
      PROVE  last[g][u][Says(g, u, role, active)] = now
  BY <1>1, <1>2, SaysBoolean
<1> QED
  BY <1>3, <1>4 DEF HistoryInv
------------------------------------------------------------------------------
(***************************************************************************)
(* How old an answer may be.  What a request is about to store was true    *)
(* when or after the request came; what a cache holds was true no more     *)
(* than Slack before its time; so was what a request decided by.           *)
(***************************************************************************)
Slack(g) == IF g = "api" THEN 0 ELSE MaxRead

ReadingInv ==
    \A r \in Req : req[r].pc \in Reading =>
        req[r].since <= now /\ now <= req[r].since + MaxRead

UsersInv ==
    \A r \in Req : req[r].pc = "users" =>
        IF req[r].gate = "api" THEN AdminRole[req[r].by] # "admin"
                               ELSE AdminRole[req[r].by] = "none"

DecideInv ==
    \A r \in Req : req[r].pc = "decide" =>
        last[req[r].gate][req[r].by][req[r].verdict] >= req[r].since

CacheInv ==
    \A g \in Gate, u \in User : \A e \in cache[g][u] : last[g][u][e.ok] >= e.at - Slack(g)

DecidedInv ==
    \A r \in Req : Decided(req[r]) =>
        last[req[r].gate][req[r].by][req[r].verdict]
            > req[r].since - (Ttl(req[r].gate) + Slack(req[r].gate))

FreshInv == ReadingInv /\ UsersInv /\ DecideInv /\ CacheInv /\ DecidedInv

LEMMA InitFresh == Init => FreshInv
<1> SUFFICES ASSUME Init PROVE FreshInv
  OBVIOUS
<1>1. \A r \in Req : req[r].pc = "idle"
  BY NoReqType DEF Init
<1>2. \A g \in Gate, u \in User : cache[g][u] = {}
  BY DEF Init
<1> QED
  BY <1>1, <1>2 DEF FreshInv, ReadingInv, UsersInv, DecideInv, CacheInv, DecidedInv,
                    Decided, Reading, Work

\* What holds of one request, named so that a step can be taken one request at a time.
Good(q) ==
    /\ q.pc \in Reading => q.since <= now /\ now <= q.since + MaxRead
    /\ q.pc = "users" => IF q.gate = "api" THEN AdminRole[q.by] # "admin"
                                           ELSE AdminRole[q.by] = "none"
    /\ q.pc = "decide" => last[q.gate][q.by][q.verdict] >= q.since
    /\ Decided(q) =>
         last[q.gate][q.by][q.verdict] > q.since - (Ttl(q.gate) + Slack(q.gate))

LEMMA FreshIsGood == FreshInv <=> CacheInv /\ \A r \in Req : Good(req[r])
BY DEF FreshInv, ReadingInv, UsersInv, DecideInv, CacheInv, DecidedInv, Good

LEMMA RequestFields ==
    ASSUME NEW q \in Request
    PROVE  /\ q.gate \in Gate /\ q.by \in User /\ q.target \in User
           /\ q.verdict \in BOOLEAN /\ q.since \in Time /\ q.countedAt \in 0..MaxWrites
BY DEF Request

\* A request that a step leaves alone stays good, unless the clock moves too far.
LEMMA GoodStays ==
    ASSUME TypeOK, TypeOK', Grows, NEW q \in Request, Good(q),
           q.pc \in Reading => now' <= q.since + MaxRead, now' >= now
    PROVE  Good(q)'
<1>1. /\ q.gate \in Gate /\ q.by \in User /\ q.verdict \in BOOLEAN /\ q.since \in Time
  BY RequestFields
<1>2. /\ last[q.gate][q.by][q.verdict] \in Int
      /\ last'[q.gate][q.by][q.verdict] \in Int
      /\ last'[q.gate][q.by][q.verdict] >= last[q.gate][q.by][q.verdict]
  <2>1. last[q.gate][q.by][q.verdict] \in Int
    BY <1>1, LastIsInt
  <2>2. last'[q.gate][q.by][q.verdict] \in Time \cup {Never}
    BY <1>1 DEF TypeOK
  <2>3. last'[q.gate][q.by][q.verdict] \in Int
    BY <2>2 DEF Time, Never
  <2> QED
    BY <1>1, <2>1, <2>3 DEF Grows
<1>3. q.since \in Int /\ now \in Int /\ now' \in Int
  BY <1>1 DEF TypeOK, Time
<1>4. Ttl(q.gate) + Slack(q.gate) \in Int
  BY DEF Ttl, Slack
<1>5. (q.pc \in Reading => q.since <= now /\ now <= q.since + MaxRead)'
  BY <1>3 DEF Good
<1>6. (q.pc = "users" => IF q.gate = "api" THEN AdminRole[q.by] # "admin"
                                           ELSE AdminRole[q.by] = "none")'
  BY DEF Good
<1>7. (q.pc = "decide" => last[q.gate][q.by][q.verdict] >= q.since)'
  BY <1>2, <1>3 DEF Good
<1>8. (Decided(q) =>
         last[q.gate][q.by][q.verdict] > q.since - (Ttl(q.gate) + Slack(q.gate)))'
  BY <1>2, <1>3, <1>4 DEF Good, Decided
<1> QED
  BY <1>5, <1>6, <1>7, <1>8 DEF Good

LEMMA EntryType ==
    ASSUME TypeOK, NEW g \in Gate, NEW u \in User, NEW e \in cache[g][u]
    PROVE  e.ok \in BOOLEAN /\ e.at \in Time
<1>1. cache[g][u] \in AtMostOne([ok : BOOLEAN, at : Time])
  BY DEF TypeOK
<1>2. e \in [ok : BOOLEAN, at : Time]
  BY <1>1 DEF AtMostOne
<1> QED
  BY <1>2

\* So does an entry.
LEMMA CacheStays ==
    ASSUME TypeOK, TypeOK', Grows, CacheInv, cache' = cache
    PROVE  CacheInv'
<1> SUFFICES ASSUME NEW g \in Gate, NEW u \in User, NEW e \in cache[g][u]
             PROVE  last'[g][u][e.ok] >= e.at - Slack(g)
  BY DEF CacheInv
<1>3. e.ok \in BOOLEAN /\ e.at \in Int
  BY EntryType DEF Time
<1>4. last[g][u][e.ok] \in Int /\ Slack(g) \in Int
  BY <1>3, LastIsInt DEF Slack
<1>5. last'[g][u][e.ok] \in Time \cup {Never}
  BY <1>3 DEF TypeOK
<1>6. last'[g][u][e.ok] \in Int
  BY <1>5 DEF Time, Never
<1>7. last[g][u][e.ok] >= e.at - Slack(g) /\ last'[g][u][e.ok] >= last[g][u][e.ok]
  BY <1>3 DEF CacheInv, Grows
<1> QED
  BY <1>3, <1>4, <1>6, <1>7

\* A step of one request leaves the others alone.
LEMMA OneAtATime ==
    ASSUME TypeOK, TypeOK', Grows, FreshInv, now' = now, NEW r \in Req,
           NEW q \in Request, req' = [req EXCEPT ![r] = q], Good(q)', CacheInv'
    PROVE  FreshInv'
<1>1. ASSUME NEW s \in Req PROVE Good(req[s])'
  <2>1. PICK x \in Request : x = req'[s]
    BY DEF TypeOK
  <2>2. CASE s = r
    BY <2>1, <2>2 DEF TypeOK, Good, Decided
  <2>3. CASE s # r
    <3>1. x = req[s]
      BY <2>1, <2>3 DEF TypeOK
    <3>2. Good(x)
      BY <3>1, FreshIsGood
    <3>3. now \in Int
      BY DEF TypeOK, Time
    <3>4. Good(x)'
      BY <3>2, <3>3, GoodStays DEF Good
    <3> QED
      BY <2>1, <3>4 DEF Good, Decided
  <2> QED
    BY <2>2, <2>3
<1> QED
  BY <1>1 DEF FreshInv, ReadingInv, UsersInv, DecideInv, DecidedInv, Good

LEMMA NoReqIsGood == Good(NoReq) /\ Good(NoReq)'
BY NoReqType DEF Good, Decided, Reading, Work

\* A request at work keeps what it was let in by.
LEMMA WorkStays ==
    ASSUME TypeOK, TypeOK', Grows, FreshInv, now' = now, CacheInv', NEW r \in Req,
           req[r].pc \in Work, NEW q \in Request, req' = [req EXCEPT ![r] = q],
           q = NoReq \/ (/\ q.pc \in Work /\ q.by = req[r].by /\ q.gate = req[r].gate
                         /\ q.since = req[r].since /\ q.verdict = req[r].verdict)
    PROVE  FreshInv'
<1>1. CASE q = NoReq
  <2>1. Good(q)'
    BY <1>1, NoReqIsGood DEF Good, Decided
  <2> QED
    BY <2>1, OneAtATime
<1>2. CASE q # NoReq
  <2>1. Good(req[r])
    BY FreshIsGood
  <2>2. Good(q)
    BY <1>2, <2>1 DEF Good, Decided, Reading, Work
  <2>3. Good(q)'
    <3>1. q.pc \notin Reading
      BY <1>2 DEF Reading, Work
    <3>2. now' >= now
      BY DEF TypeOK, Time
    <3> QED
      BY <2>2, <3>1, <3>2, GoodStays
  <2> QED
    BY <2>3, OneAtATime
<1> QED
  BY <1>1, <1>2

LEMMA StepFresh ==
    TypeOK /\ TypeOK' /\ HistoryInv /\ Grows /\ FreshInv /\ [Next]_vars => FreshInv'
<1> SUFFICES ASSUME TypeOK, TypeOK', HistoryInv, Grows, FreshInv, [Next]_vars
             PROVE  FreshInv'
  OBVIOUS
<1>a. now \in Int /\ MaxRead \in Int
  BY DEF TypeOK, Time
<1>b. CacheInv
  BY DEF FreshInv
<1>c. ASSUME NEW r \in Req PROVE req[r] \in Request /\ Good(req[r])
  BY FreshIsGood DEF TypeOK
<1>1. CASE Tick
  <2>1. CacheInv'
    BY <1>1, <1>b, CacheStays DEF Tick
  <2>2. ASSUME NEW r \in Req PROVE Good(req[r])'
    <3>1. PICK x \in Request : x = req[r]
      BY <1>c
    <3>2. x.pc \in Reading => now' <= x.since + MaxRead
      <4>1. x.since \in Int
        BY RequestFields DEF Time
      <4>2. x.pc \in Reading => now - x.since < MaxRead
        BY <1>1, <3>1 DEF Tick
      <4>3. now' = now + 1
        BY <1>1 DEF Tick
      <4> QED
        BY <1>a, <4>1, <4>2, <4>3
    <3>3. now' >= now
      BY <1>1, <1>a DEF Tick
    <3>4. Good(x)'
      BY <1>c, <3>1, <3>2, <3>3, GoodStays
    <3>5. req' = req
      BY <1>1 DEF Tick
    <3> QED
      BY <3>1, <3>4, <3>5 DEF Good, Decided
  <2> QED
    BY <2>1, <2>2 DEF FreshInv, ReadingInv, UsersInv, DecideInv, DecidedInv, Good
<1>2. CASE Restart
  <2>1. CacheInv'
    BY <1>2 DEF Restart, CacheInv
  <2>2. \A r \in Req : req'[r].pc = "idle"
    BY <1>2, NoReqType DEF Restart
  <2> QED
    BY <2>1, <2>2 DEF FreshInv, ReadingInv, UsersInv, DecideInv, DecidedInv, Decided,
                      Reading, Work
<1>3. ASSUME NEW r \in Req, NEW u \in User, NEW g \in Gate, NEW t \in User,
             Miss(r, u, g, t)
      PROVE  FreshInv'
  <2> DEFINE row == AdminRole[u]
             to == IF IF g = "api" THEN row = "admin" ELSE row # "none"
                     THEN "decide" ELSE "users"
             arrived == [pc |-> to, by |-> u, gate |-> g, target |-> t, since |-> now,
                       verdict |-> (row = "admin"), countedAt |-> 0]
  <2>0. arrived \in Request
    BY DEF Request, Reading, TypeOK
  <2>1. PICK q \in Request : q = arrived
    BY <2>0
  <2>9. /\ q.pc = to /\ q.by = u /\ q.gate = g /\ q.since = now
        /\ q.verdict = (row = "admin")
    BY <2>1
  <2>2. /\ req' = [req EXCEPT ![r] = q] /\ UNCHANGED <<dbVars, now, cache, last>>
    BY <1>3, <2>1 DEF Miss, Come, Becomes
  <2>3. to = "decide" => last[g][u][row = "admin"] = now
    <3>1. to = "decide" => Says(g, u, role, active) = (row = "admin")
      BY DEF Says, isAdminUsername, dbRoleIsAdmin
    <3>2. last[g][u][Says(g, u, role, active)] = now
      BY DEF HistoryInv
    <3> QED
      BY <3>1, <3>2
  <2>4. to = "users" => IF g = "api" THEN AdminRole[u] # "admin" ELSE AdminRole[u] = "none"
    OBVIOUS
  <2>5. Good(q)'
    <3>1. q.pc \in Reading => q.since <= now' /\ now' <= q.since + MaxRead
      BY <1>a, <2>2, <2>9
    <3>2. q.pc = "decide" => last'[q.gate][q.by][q.verdict] >= q.since
      BY <1>a, <2>2, <2>3, <2>9
    <3>3. ~Decided(q)
      BY <2>9 DEF Decided, Work
    <3>4. q.pc = "users" => IF q.gate = "api" THEN AdminRole[q.by] # "admin"
                                              ELSE AdminRole[q.by] = "none"
      BY <2>4, <2>9
    <3> QED
      BY <3>1, <3>2, <3>3, <3>4 DEF Good, Decided
  <2>6. CacheInv'
    BY <2>2, <1>b, CacheStays
  <2> QED
    BY <2>2, <2>5, <2>6, OneAtATime
<1>4. ASSUME NEW r \in Req, NEW u \in User, NEW g \in Gate, NEW t \in User,
             Hit(r, u, g, t)
      PROVE  FreshInv'
  <2>1. PICK e \in Fresh(g, u) :
          Come(r, u, g, t, IF e.ok THEN "allowed" ELSE "denied", e.ok)
    BY <1>4 DEF Hit
  <2>2. e \in cache[g][u] /\ now - e.at < Ttl(g)
    BY DEF Fresh
  <2>3. e.ok \in BOOLEAN /\ e.at \in Time
    BY <2>2, EntryType
  <2> DEFINE arrived == [pc |-> IF e.ok THEN "allowed" ELSE "denied", by |-> u, gate |-> g,
                       target |-> t, since |-> now, verdict |-> e.ok, countedAt |-> 0]
  <2>0. arrived \in Request
    BY <2>3 DEF Request, Work, TypeOK
  <2>4. PICK q \in Request : q = arrived
    BY <2>0
  <2>5. /\ req' = [req EXCEPT ![r] = q] /\ UNCHANGED <<dbVars, now, cache, last>>
    BY <2>1, <2>4 DEF Come, Becomes
  <2>6. last[g][u][e.ok] > now - (Ttl(g) + Slack(g))
    <3>1. last[g][u][e.ok] >= e.at - Slack(g)
      BY <1>b, <2>2 DEF CacheInv
    <3>2. last[g][u][e.ok] \in Int /\ e.at \in Int /\ Slack(g) \in Int /\ Ttl(g) \in Int
      BY <2>3, LastIsInt DEF Slack, Ttl, Time
    <3> QED
      BY <1>a, <2>2, <3>1, <3>2
  <2>7. Good(q)'
    BY <2>4, <2>5, <2>6 DEF Good, Decided, Reading
  <2>8. CacheInv'
    BY <2>5, <1>b, CacheStays
  <2> QED
    BY <2>5, <2>7, <2>8, OneAtATime
<1>5. ASSUME NEW r \in Req, ReadUsers(r) PROVE FreshInv'
  <2> DEFINE u == req[r].by
             g == req[r].gate
             yes == role[u] = "admin" /\ u \in active
             read == [req[r] EXCEPT !.pc = "decide", !.verdict = yes]
  <2>0. /\ read \in Request
        /\ read.pc = "decide" /\ read.since = req[r].since /\ read.gate = g
        /\ read.by = u /\ read.verdict = yes
    BY <1>c DEF Request, Reading
  <2>1. PICK q \in Request : q = read
    BY <2>0
  <2>2. /\ req' = [req EXCEPT ![r] = q] /\ UNCHANGED <<dbVars, now, cache, last>>
    BY <1>5, <2>1 DEF ReadUsers, Becomes
  <2>3. u \in User /\ g \in Gate /\ req[r].since \in Int
    BY <1>c, RequestFields DEF Time
  <2>4. last[g][u][yes] = now
    <3>1. IF g = "api" THEN AdminRole[u] # "admin" ELSE AdminRole[u] = "none"
      BY <1>5, <1>c DEF ReadUsers, Good
    <3>2. Says(g, u, role, active) = yes
      BY <3>1 DEF Says, isAdminUsername, dbRoleIsAdmin
    <3>3. last[g][u][Says(g, u, role, active)] = now
      BY <2>3 DEF HistoryInv
    <3> QED
      BY <3>2, <3>3
  <2>5. req[r].since <= now /\ now <= req[r].since + MaxRead
    BY <1>5, <1>c DEF ReadUsers, Good, Reading
  <2>6. /\ q.pc = "decide" /\ q.since = req[r].since /\ q.gate = g /\ q.by = u
        /\ q.verdict = yes
    BY <2>0, <2>1
  <2>7. CacheInv'
    BY <2>2, <1>b, CacheStays
  <2> HIDE DEF u, g, yes, read
  <2>8. Good(q)'
    <3>1. q.since <= now' /\ now' <= q.since + MaxRead
      BY <2>2, <2>5, <2>6
    <3>2. last'[q.gate][q.by][q.verdict] >= q.since
      BY <1>a, <2>2, <2>3, <2>4, <2>5, <2>6
    <3>3. ~Decided(q)
      BY <2>6 DEF Decided, Work
    <3> QED
      BY <2>6, <3>1, <3>2, <3>3 DEF Good, Decided
  <2> QED
    BY <2>2, <2>7, <2>8, OneAtATime
<1>6. ASSUME NEW r \in Req, Decide(r) PROVE FreshInv'
  <2> DEFINE u == req[r].by
             g == req[r].gate
             to == IF req[r].verdict THEN "allowed" ELSE "denied"
             admitted == [req[r] EXCEPT !.pc = to]
             e == Entry(r, ReadTime(r))
  <2>0. /\ admitted \in Request
        /\ admitted.pc = to /\ admitted.since = req[r].since /\ admitted.gate = g /\ admitted.by = u
        /\ admitted.verdict = req[r].verdict
    BY <1>c DEF Request, Work
  <2>1. PICK q \in Request : q = admitted
    BY <2>0
  <2>2. /\ req' = [req EXCEPT ![r] = q] /\ UNCHANGED <<dbVars, now, last>>
        /\ cache' = [cache EXCEPT ![g] = [cache[g] EXCEPT ![u] = {e}]]
    BY <1>6, <2>1 DEF Decide, Settle, Becomes, Goes
  <2>3. u \in User /\ g \in Gate /\ req[r].since \in Int /\ req[r].verdict \in BOOLEAN
    BY <1>c, RequestFields DEF Time
  <2>4. /\ last[g][u][req[r].verdict] >= req[r].since
        /\ req[r].since <= now /\ now <= req[r].since + MaxRead
    BY <1>6, <1>c DEF Decide, Settle, Good, Reading
  <2>5. last[g][u][req[r].verdict] \in Int
    BY <2>3, LastIsInt
  <2>6. /\ q.pc = to /\ q.since = req[r].since /\ q.gate = g /\ q.by = u
        /\ q.verdict = req[r].verdict
    BY <2>0, <2>1
  <2>7. Ttl(g) \in Int /\ Ttl(g) > 0 /\ Slack(g) \in Int /\ Slack(g) >= 0
    BY DEF Ttl, Slack
  <2>8. last[g][u][e.ok] >= e.at - Slack(g)
    BY <1>a, <2>3, <2>4, <2>5 DEF Entry, ReadTime, Slack
  <2>9. CacheInv'
    <3> SUFFICES ASSUME NEW h \in Gate, NEW v \in User, NEW f \in cache'[h][v]
                 PROVE  last'[h][v][f.ok] >= f.at - Slack(h)
      BY DEF CacheInv
    <3>1. CASE h = g /\ v = u
      <4>1. f = e
        BY <2>2, <2>3, <3>1 DEF TypeOK
      <4> QED
        BY <2>2, <2>8, <3>1, <4>1
    <3>2. CASE ~(h = g /\ v = u)
      <4>1. f \in cache[h][v]
        BY <2>2, <2>3, <3>2 DEF TypeOK
      <4> QED
        BY <1>b, <2>2, <4>1 DEF CacheInv
    <3> QED
      BY <3>1, <3>2
  <2> HIDE DEF u, g, admitted, e
  <2>10. Good(q)'
    <3>1. q.pc \notin Reading
      BY <2>6 DEF Reading
    <3>2. last'[q.gate][q.by][q.verdict] > q.since - (Ttl(q.gate) + Slack(q.gate))
      BY <2>2, <2>3, <2>4, <2>5, <2>6, <2>7
    <3> QED
      BY <3>1, <3>2 DEF Good, Decided, Reading
  <2> QED
    BY <2>2, <2>9, <2>10, OneAtATime
<1>7. ASSUME NEW r \in Req, WorkStep(r) PROVE FreshInv'
  <2>1. req[r].pc \in Work
    BY <1>7 DEF WorkStep, View, Patch, StartDelete, FindTarget, CountAdmins, Count, Remove,
                Work
  <2>2. cache' = cache /\ now' = now
    BY <1>7 DEF WorkStep, View, Patch, StartDelete, FindTarget, CountAdmins, Count, Remove
  <2>3. CacheInv'
    BY <2>2, <1>b, CacheStays
  <2>4. PICK q \in Request :
          /\ req' = [req EXCEPT ![r] = q]
          /\ q = NoReq \/ (/\ q.pc \in Work /\ q.by = req[r].by /\ q.gate = req[r].gate
                           /\ q.since = req[r].since /\ q.verdict = req[r].verdict)
    <3>1. CASE Answered(r)
      BY <3>1, NoReqType DEF Answered, Becomes
    <3>2. ASSUME NEW to \in Work, Goes(r, to)
          PROVE  \E q \in Request :
                   /\ req' = [req EXCEPT ![r] = q]
                   /\ q.pc \in Work /\ q.by = req[r].by /\ q.gate = req[r].gate
                   /\ q.since = req[r].since /\ q.verdict = req[r].verdict
      <4> DEFINE q == [req[r] EXCEPT !.pc = to]
      <4>1. /\ q \in Request
            /\ q.pc \in Work /\ q.by = req[r].by /\ q.gate = req[r].gate
            /\ q.since = req[r].since /\ q.verdict = req[r].verdict
        BY <1>c DEF Request
      <4>2. req' = [req EXCEPT ![r] = q]
        BY <3>2 DEF Goes, Becomes
      <4> HIDE DEF q
      <4> QED
        BY <4>1, <4>2
    <3>3. CASE CountAdmins(r) /\ ~Answered(r)
      <4> DEFINE q == [req[r] EXCEPT !.pc = "remove", !.countedAt = writes]
      <4>1. /\ q \in Request
            /\ q.pc \in Work /\ q.by = req[r].by /\ q.gate = req[r].gate
            /\ q.since = req[r].since /\ q.verdict = req[r].verdict
        BY <1>c DEF Request, Work, TypeOK
      <4>2. req' = [req EXCEPT ![r] = q]
        BY <3>3 DEF CountAdmins, Count, Becomes
      <4> HIDE DEF q
      <4> QED
        BY <4>1, <4>2
    <3>4. \/ Answered(r) \/ CountAdmins(r)
          \/ \E to \in Work : Goes(r, to)
      BY <1>7 DEF WorkStep, View, Patch, StartDelete, FindTarget, Remove, Work
    <3> QED
      BY <3>1, <3>2, <3>3, <3>4
  <2> QED
    BY <2>1, <2>2, <2>3, <2>4, WorkStays
<1>8. CASE UNCHANGED vars
  BY <1>8 DEF vars, dbVars, FreshInv, ReadingInv, UsersInv, DecideInv, CacheInv,
              DecidedInv, Decided
<1> QED
  BY <1>1, <1>2, <1>3, <1>4, <1>5, <1>6, <1>7, <1>8 DEF Next, GateStep, Comes, Gate

\* The inductive invariant of the freshness theorems.
AccessInv == TypeOK /\ HistoryInv /\ FreshInv

LEMMA AccessInvHolds == Spec => []AccessInv
<1>1. Init => AccessInv
  BY InitType, InitHistory, InitFresh DEF AccessInv
<1>2. AccessInv /\ [Next]_vars => AccessInv'
  BY StepType, StepHistory, StepFresh DEF AccessInv
<1> QED
  BY <1>1, <1>2, PTL DEF Spec

\* Whatever requests fill the cache, and in whatever order: the api gate decides by an
\* answer that was right less than TTL_MS before the request came.
THEOREM ApiDecisionFreshHolds == Spec => []ApiDecisionFresh
<1>1. AccessInv => ApiDecisionFresh
  BY DEF AccessInv, FreshInv, DecidedInv, ApiDecisionFresh, Ttl, Slack
<1> QED
  BY <1>1, AccessInvHolds, PTL

\* The page gate decides by an answer that was right less than ROLE_CACHE_MS and the time
\* its reads took before the request came.
THEOREM PageDecisionFreshHolds == Spec => []PageDecisionFresh
<1>1. AccessInv => PageDecisionFresh
  BY DEF AccessInv, FreshInv, DecidedInv, PageDecisionFresh, Ttl, Slack
<1> QED
  BY <1>1, AccessInvHolds, PTL
------------------------------------------------------------------------------
(***************************************************************************)
(* Deleting the last admin.  A delete that nobody has written since it     *)
(* counted is about a user, or about an admin who is not alone.            *)
(***************************************************************************)
Harmless(q) ==
    role[q.target] = "user" \/ \E u \in User \ {q.target} : role[u] = "admin"

RaceInv ==
    \A r \in Req :
        /\ req[r].countedAt <= writes
        /\ req[r].pc = "remove" /\ req[r].countedAt = writes => Harmless(req[r])

LEMMA NotAlone ==
    ASSUME NEW t \in User, ~(Cardinality(Admins) <= 1)
    PROVE  \E u \in User \ {t} : role[u] = "admin"
<1>1. SUFFICES ASSUME \A u \in User \ {t} : role[u] # "admin" PROVE FALSE
  OBVIOUS
<1>2. Admins \subseteq {t}
  BY <1>1 DEF Admins
<1>3. IsFiniteSet({t}) /\ Cardinality({t}) = 1
  BY FS_Singleton
<1>4. Cardinality(Admins) <= Cardinality({t})
  BY <1>2, <1>3, FS_Subset
<1> QED
  BY <1>1, <1>3, <1>4

LEMMA StepRace == TypeOK /\ RaceInv /\ [Next]_vars => RaceInv'
<1> SUFFICES ASSUME TypeOK, RaceInv, [Next]_vars PROVE RaceInv'
  OBVIOUS
<1>a. writes \in Int /\ writes >= 0 /\ \A r \in Req : req[r].countedAt \in Int
  BY RequestFields DEF TypeOK
<1>b. NoReq.countedAt = 0 /\ NoReq.pc = "idle"
  BY NoReqType DEF NoReq
<1>c. ASSUME NEW r \in Req, NEW to, Goes(r, to)
      PROVE  req'[r].pc = to /\ req'[r].countedAt = req[r].countedAt
  BY <1>c DEF Goes, Becomes, TypeOK, Request
<1>1. ASSUME NEW r \in Req, NEW ro, NEW ac, Write(ro, ac), Answered(r)
      PROVE  RaceInv'
  <2>1. writes' = writes + 1
    BY <1>1 DEF Write
  <2>2. \A s \in Req : req'[s] = NoReq \/ req'[s] = req[s]
    BY <1>1 DEF Answered, Becomes, TypeOK
  <2>3. \A s \in Req : req'[s].countedAt <= writes
    <3> SUFFICES ASSUME NEW s \in Req PROVE req'[s].countedAt <= writes
      OBVIOUS
    <3>1. CASE req'[s] = NoReq
      BY <3>1, <1>a, <1>b
    <3>2. CASE req'[s] = req[s]
      BY <3>2 DEF RaceInv
    <3> QED
      BY <2>2, <3>1, <3>2
  <2>4. \A s \in Req : req'[s].countedAt \in Int
    BY <2>2, <1>a, <1>b
  <2> QED
    BY <1>a, <2>1, <2>3, <2>4 DEF RaceInv
<1>2. ASSUME NEW r \in Req, Patch(r) \/ Remove(r) PROVE RaceInv'
  BY <1>1, <1>2 DEF Patch, Remove
<1>3. ASSUME UNCHANGED dbVars,
             \A s \in Req : \/ req'[s] = req[s]
                            \/ req'[s].countedAt <= writes /\ req'[s].pc # "remove"
                            \/ req'[s].countedAt <= writes /\ Harmless(req'[s])
      PROVE  RaceInv'
  BY <1>3 DEF RaceInv, Harmless, dbVars
<1>4. CASE Restart
  BY <1>4, <1>3, <1>a, <1>b DEF Restart, TypeOK
<1>5. CASE Tick \/ UNCHANGED vars
  BY <1>5, <1>3 DEF Tick, vars
<1>6. ASSUME NEW r \in Req, GateStep(r) PROVE RaceInv'
  <2>1. ASSUME NEW u \in User, NEW g \in Gate, NEW t \in User, Comes(r, u, g, t)
        PROVE  RaceInv'
    <3>1. UNCHANGED dbVars
      BY <2>1 DEF Comes, Miss, Hit, Come
    <3>2. req'[r].countedAt = 0 /\ req'[r].pc # "remove"
      BY <2>1 DEF Comes, Miss, Hit, Come, Becomes, TypeOK
    <3>3. \A s \in Req : s # r => req'[s] = req[s]
      BY <2>1 DEF Comes, Miss, Hit, Come, Becomes, TypeOK
    <3> QED
      BY <1>3, <3>1, <3>2, <3>3 DEF TypeOK
  <2>2. CASE ReadUsers(r) \/ Decide(r)
    <3>1. UNCHANGED dbVars
      BY <2>2 DEF ReadUsers, Decide, Settle
    <3>2. req'[r].countedAt = req[r].countedAt /\ req'[r].pc # "remove"
      <4>1. CASE ReadUsers(r)
        BY <4>1 DEF ReadUsers, Becomes, TypeOK, Request
      <4>2. CASE Decide(r)
        BY <4>2, <1>c DEF Decide, Settle
      <4> QED
        BY <2>2, <4>1, <4>2
    <3>3. \A s \in Req : s # r => req'[s] = req[s]
      BY <2>2 DEF ReadUsers, Decide, Settle, Goes, Becomes, TypeOK
    <3> QED
      BY <1>3, <3>1, <3>2, <3>3 DEF RaceInv
  <2> QED
    BY <1>6, <2>1, <2>2 DEF GateStep, Gate
<1>7. ASSUME NEW r \in Req, View(r) \/ StartDelete(r) PROVE RaceInv'
  <2>1. req'[r].countedAt <= writes /\ req'[r].pc # "remove"
    <3>1. CASE View(r)
      BY <3>1, <1>a, <1>b DEF View, Answered, Becomes, TypeOK
    <3>2. CASE StartDelete(r)
      BY <3>2, <1>c DEF StartDelete, RaceInv
    <3> QED
      BY <1>7, <3>1, <3>2
  <2>2. \A s \in Req : s # r => req'[s] = req[s]
    BY <1>7 DEF View, StartDelete, Answered, Goes, Becomes, TypeOK
  <2> QED
    BY <1>3, <1>7, <2>1, <2>2 DEF View, StartDelete
<1>8. ASSUME NEW r \in Req, FindTarget(r) PROVE RaceInv'
  <2>1. /\ req'[r].countedAt <= writes
        /\ req'[r].pc # "remove" \/ Harmless(req'[r])
    <3>1. CASE Answered(r)
      BY <3>1, <1>a, <1>b DEF Answered, Becomes, TypeOK
    <3>2. CASE role[req[r].target] = "user" /\ Goes(r, "remove")
      BY <3>2 DEF Goes, Becomes, TypeOK, Request, RaceInv, Harmless
    <3>3. CASE Goes(r, "count")
      BY <3>3 DEF Goes, Becomes, TypeOK, Request, RaceInv
    <3> QED
      BY <1>8, <3>1, <3>2, <3>3 DEF FindTarget
  <2>2. \A s \in Req : s # r => req'[s] = req[s]
    BY <1>8 DEF FindTarget, Answered, Goes, Becomes, TypeOK
  <2> QED
    BY <1>3, <1>8, <2>1, <2>2 DEF FindTarget
<1>9. ASSUME NEW r \in Req, CountAdmins(r) PROVE RaceInv'
  <2>1. /\ req'[r].countedAt <= writes
        /\ req'[r].pc # "remove" \/ Harmless(req'[r])
    <3>1. CASE Answered(r)
      BY <3>1, <1>a, <1>b DEF Answered, Becomes, TypeOK
    <3>2. CASE ~Answered(r)
      <4>1. ~(Cardinality(Admins) <= 1)
        BY <1>9, <3>2 DEF CountAdmins, Count
      <4>2. req'[r].target = req[r].target /\ req'[r].countedAt = writes
        BY <1>9, <3>2 DEF CountAdmins, Count, Becomes, TypeOK, Request
      <4>3. \E u \in User \ {req[r].target} : role[u] = "admin"
        BY <4>1, NotAlone, RequestFields DEF TypeOK
      <4> QED
        BY <1>a, <4>2, <4>3 DEF Harmless
    <3> QED
      BY <3>1, <3>2
  <2>2. \A s \in Req : s # r => req'[s] = req[s]
    BY <1>9 DEF CountAdmins, Count, Answered, Becomes, TypeOK
  <2> QED
    BY <1>3, <1>9, <2>1, <2>2 DEF CountAdmins, Count
<1> QED
  BY <1>2, <1>4, <1>5, <1>6, <1>7, <1>8, <1>9 DEF Next, WorkStep

\* A delete that takes the last admin row away has been raced by a write.
THEOREM OnlyRacesDeleteLastAdminHolds == Spec => OnlyRacesDeleteLastAdmin
<1>1. Init => RaceInv
  BY NoReqType DEF Init, RaceInv, NoReq
<1>2. ASSUME TypeOK, RaceInv, [Next]_vars, NEW r \in Req, DeletesLastAdmin(r)
      PROVE  writes > req[r].countedAt
  <2>1. req[r].countedAt <= writes /\ writes \in Int /\ req[r].countedAt \in Int
    BY <1>2, RequestFields DEF RaceInv, TypeOK
  <2>2. SUFFICES ASSUME req[r].countedAt = writes PROVE FALSE
    BY <2>1
  <2>3. Harmless(req[r])
    BY <1>2, <2>2 DEF RaceInv, DeletesLastAdmin
  <2>4. role' # role
    BY <1>2 DEF DeletesLastAdmin, Admins
  <2>5. Remove(r)
    <3>1. ASSUME NEW s \in Req, s # r, WorkStep(s) PROVE req'[r] = req[r]
      BY <1>2, <3>1 DEF WorkStep, View, Patch, StartDelete, FindTarget, CountAdmins, Count,
                        Remove, Answered, Goes, Becomes, TypeOK
    <3>2. ASSUME NEW s \in Req, GateStep(s) PROVE role' = role
      BY <3>2 DEF GateStep, Comes, Miss, Hit, Come, ReadUsers, Decide, Settle, dbVars
    <3>3. ASSUME WorkStep(r) PROVE Remove(r)
      BY <1>2, <3>3 DEF WorkStep, View, Patch, StartDelete, FindTarget, CountAdmins, Count,
                        DeletesLastAdmin
    <3>4. PICK s \in Req : GateStep(s) \/ WorkStep(s)
      BY <1>2, <2>4 DEF Next, Tick, Restart, vars, dbVars
    <3> QED
      BY <1>2, <2>4, <3>1, <3>2, <3>3, <3>4 DEF DeletesLastAdmin
  <2>6. role' = [role EXCEPT ![req[r].target] = "none"]
    BY <2>5 DEF Remove, Write
  <2>7. \E u \in User \ {req[r].target} : role[u] = "admin"
    BY <1>2, <2>3 DEF Harmless, DeletesLastAdmin, Admins
  <2> QED
    BY <1>2, <2>6, <2>7 DEF DeletesLastAdmin, Admins, TypeOK
<1>3. TypeOK /\ RaceInv /\ [Next]_vars
        => [\A r \in Req : DeletesLastAdmin(r) => writes > req[r].countedAt]_vars
  BY <1>2
<1> QED
  BY <1>1, <1>3, StepRace, TypeCorrect, PTL DEF Spec, OnlyRacesDeleteLastAdmin
==============================================================================
