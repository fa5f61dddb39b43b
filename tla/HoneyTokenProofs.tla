--------------------------- MODULE HoneyTokenProofs ---------------------------
(***************************************************************************)
(* Proofs about HoneyToken, for every set of requests, tokens and traces   *)
(* and every quota.  Each property has an inductive invariant of its own,  *)
(* stated of one token or request at a time; the types come first.         *)
(***************************************************************************)
EXTENDS HoneyToken, TLAPS

USE HoneyAssumption DEF HoneyAssumption

LEMMA RateType ==
    ASSUME NEW q \in Quota
    PROVE  /\ consumeRate(q).limited \in BOOLEAN
           /\ consumeRate(q).firstLimited \in BOOLEAN
           /\ consumeRate(q).left \in Quota
BY DEF consumeRate, Quota

LEMMA StartValues == FullQuota \in Quota /\ Fresh \in Doc /\ Fresh # NoDoc
<1>1. FullQuota \in Quota
  BY DEF FullQuota, Quota
<1>2. Fresh \in Doc
  BY DEF Fresh, Doc
<1> QED
  BY <1>1, <1>2

\* The document a use leaves behind.
LEMMA UsedDoc ==
    ASSUME NEW d \in Doc, NEW r \in Req
    PROVE  [isTriggered |-> TRUE, triggeredLogs |-> d.triggeredLogs \cup {r}] \in Doc
BY DEF Doc

LEMMA InitType == Init => TypeOK
<1> SUFFICES ASSUME Init PROVE TypeOK
  OBVIOUS
<1>1. /\ pc \in [Req -> {"idle", "usage", "report", "done", "lost"}]
      /\ action \in [Req -> {"none", "token_used", "api"}]
      /\ rateByToken \in [Token -> Quota]
      /\ doc \in [Token -> Doc \cup {NoDoc}]
  BY StartValues DEF Init
<1>2. /\ sweeps \in 0..MaxSweeps /\ crashes \in 0..MaxCrashes /\ expiries \in 0..MaxExpiries
      /\ reported \in [Trace -> Nat]
      /\ served \in [Token -> Nat]
      /\ limitLogged \in [Token -> Nat]
  BY DEF Init
<1>3. /\ tokenUsedByTrace \subseteq Trace /\ sent \subseteq Req /\ recorded \subseteq Req
      /\ seeding \subseteq Token
      /\ up \in BOOLEAN /\ unplanted \subseteq Token
  BY DEF Init
<1> QED
  BY <1>1, <1>2, <1>3 DEF TypeOK

LEMMA StepType == TypeOK /\ [Next]_vars => TypeOK'
<1> SUFFICES ASSUME TypeOK, [Next]_vars PROVE TypeOK'
  OBVIOUS
<1> USE DEF TypeOK, requestVars, memoryVars, bootVars, dbVars, boundVars
<1>1. ASSUME NEW r \in Req, Present(r) PROVE TypeOK'
  BY <1>1 DEF Present, Record, Answer
<1>2. ASSUME NEW r \in Req, PresentAcknowledged(r) PROVE TypeOK'
  BY <1>2 DEF PresentAcknowledged, Answer
<1>3. ASSUME NEW r \in Req, CallApi(r) PROVE TypeOK'
  BY <1>3, RateType DEF CallApi, Record, Answer
<1>4. ASSUME NEW r \in Req, UsageSettles(r) PROVE TypeOK'
  BY <1>4 DEF UsageSettles
<1>5. ASSUME NEW r \in Req, ReportSettles(r) PROVE TypeOK'
  BY <1>5 DEF ReportSettles
<1>6. ASSUME NEW r \in Req, UsageLands(r) PROVE TypeOK'
  BY <1>6, UsedDoc DEF UsageLands
<1>7. ASSUME NEW r \in Req, UsageDropped(r) PROVE TypeOK'
  BY <1>7 DEF UsageDropped
<1>8. ASSUME NEW t \in Token, WindowExpires(t) PROVE TypeOK'
  BY <1>8 DEF WindowExpires, Quota, FullQuota
<1>9. ASSUME NEW t \in Token, Seed(t) PROVE TypeOK'
  BY <1>9 DEF Seed, Doc, Fresh
<1>10. ASSUME NEW t \in Token, Reset(t) PROVE TypeOK'
  BY <1>10 DEF Reset, Doc, Fresh
<1>11. ASSUME NEW t \in Token, Delete(t) PROVE TypeOK'
  BY <1>11 DEF Delete
<1>12. ASSUME NEW tr \in Trace, TraceExpires(tr) PROVE TypeOK'
  BY <1>12 DEF TraceExpires
<1>13. CASE GatewayCrash
  BY <1>13 DEF GatewayCrash, Quota, FullQuota
<1>14. CASE TelemetryCrash
  <2>1. crashes' \in 0..MaxCrashes
    BY <1>14 DEF TelemetryCrash
  <2>2. PICK kept \in SUBSET sent : sent' = kept
    BY <1>14 DEF TelemetryCrash
  <2>3. sent' \subseteq Req
    BY <2>2
  <2>4. seeding' = Token /\ up' = FALSE
    BY <1>14 DEF TelemetryCrash
  <2> QED
    BY <1>14, <2>1, <2>3, <2>4 DEF TelemetryCrash
<1>15. CASE SeedFails
  BY <1>15 DEF SeedFails
<1>16. CASE Listen
  BY <1>16 DEF Listen
<1>17. CASE UNCHANGED vars
  BY <1>17 DEF vars
<1> QED
    BY <1>1, <1>2, <1>3, <1>4, <1>5, <1>6, <1>7, <1>8, <1>9, <1>10, <1>11, <1>12, <1>13,
     <1>14, <1>15, <1>16, <1>17 DEF Next

\* The components keep their types.
THEOREM TypeCorrect == Spec => []TypeOK
  BY InitType, StepType, PTL DEF Spec

------------------------------------------------------------------------------
(***************************************************************************)
(* The quota: what was served and what was logged is a function of the     *)
(* count that is kept.                                                     *)
(***************************************************************************)
QuotaInv ==
    \A t \in Token :
        LET q == rateByToken[t] IN
        /\ served[t] = IF q.count > Limit THEN Limit ELSE q.count
        /\ limitLogged[t] = IF q.notifiedLimit THEN 1 ELSE 0
        /\ q.notifiedLimit <=> q.count > Limit

LEMMA StepQuota == TypeOK /\ QuotaInv /\ [Next]_vars => QuotaInv'
<1> SUFFICES ASSUME TypeOK, QuotaInv, [Next]_vars PROVE QuotaInv'
  OBVIOUS
<1>1. ASSUME NEW r \in Req, CallApi(r) PROVE QuotaInv'
  <2> DEFINE c == TokenOf[r]
             rate == consumeRate(rateByToken[c])
  <2>1. /\ rateByToken' = [rateByToken EXCEPT ![c] = rate.left]
        /\ served' = [served EXCEPT ![c] = IF rate.limited THEN served[c] ELSE served[c] + 1]
        /\ limitLogged' = [limitLogged EXCEPT ![c] =
                             IF rate.firstLimited THEN limitLogged[c] + 1 ELSE limitLogged[c]]
    BY <1>1 DEF CallApi
  <2>2. \A t \in Token \ {c} :
          /\ rateByToken'[t] = rateByToken[t]
          /\ served'[t] = served[t]
          /\ limitLogged'[t] = limitLogged[t]
    BY <2>1 DEF TypeOK
  <2>3. /\ rateByToken'[c] = rate.left
        /\ served'[c] = IF rate.limited THEN served[c] ELSE served[c] + 1
        /\ limitLogged'[c] = IF rate.firstLimited THEN limitLogged[c] + 1 ELSE limitLogged[c]
    BY <2>1 DEF TypeOK
  <2>4. rateByToken[c].count \in Nat /\ rateByToken[c].notifiedLimit \in BOOLEAN
    BY DEF TypeOK, Quota
  <2>5. /\ rate.limited <=> rateByToken[c].count + 1 > Limit
        /\ rate.firstLimited <=> rate.limited /\ ~rateByToken[c].notifiedLimit
        /\ rate.left.count = rateByToken[c].count + 1
        /\ rate.left.notifiedLimit <=> rateByToken[c].notifiedLimit \/ rate.limited
    BY <2>4 DEF consumeRate
  <2>6. /\ served[c] = IF rateByToken[c].count > Limit THEN Limit ELSE rateByToken[c].count
        /\ limitLogged[c] = IF rateByToken[c].notifiedLimit THEN 1 ELSE 0
        /\ rateByToken[c].notifiedLimit <=> rateByToken[c].count > Limit
    BY DEF QuotaInv
  <2>7. /\ served'[c] = IF rate.left.count > Limit THEN Limit ELSE rate.left.count
        /\ limitLogged'[c] = IF rate.left.notifiedLimit THEN 1 ELSE 0
        /\ rate.left.notifiedLimit <=> rate.left.count > Limit
    BY <2>3, <2>4, <2>5, <2>6
  <2>8. ASSUME NEW t \in Token
        PROVE LET q == rateByToken'[t] IN
              /\ served'[t] = IF q.count > Limit THEN Limit ELSE q.count
              /\ limitLogged'[t] = IF q.notifiedLimit THEN 1 ELSE 0
              /\ q.notifiedLimit <=> q.count > Limit
    <3>1. CASE t = c
      BY <2>3, <2>7, <3>1
    <3>2. CASE t # c
      BY <2>2, <3>2 DEF QuotaInv
    <3> QED
      BY <3>1, <3>2
  <2> HIDE DEF c, rate
  <2> QED
    BY <2>8 DEF QuotaInv
<1>2. ASSUME NEW t \in Token, WindowExpires(t) PROVE QuotaInv'
  BY <1>2 DEF QuotaInv, TypeOK, WindowExpires, FullQuota
<1>3. CASE GatewayCrash
  BY <1>3 DEF QuotaInv, GatewayCrash, FullQuota
<1>4. CASE UNCHANGED <<rateByToken, served, limitLogged>>
  BY <1>4 DEF QuotaInv
<1>5. \/ \E r \in Req : CallApi(r)
      \/ \E t \in Token : WindowExpires(t)
      \/ GatewayCrash
      \/ UNCHANGED <<rateByToken, served, limitLogged>>
  BY DEF Next, vars, memoryVars, Present, PresentAcknowledged, UsageSettles, ReportSettles,
         UsageLands, UsageDropped, Seed, Reset, Delete, TraceExpires, TelemetryCrash,
         SeedFails, Listen
<1> QED
  BY <1>1, <1>2, <1>3, <1>4, <1>5

\* honeyTokenFlow.js, consumeRate: at most RATE_LIMIT calls served and one 429 logged in a
\* window.
THEOREM QuotaHoldsAlways == Spec => []QuotaHolds
<1>1. Init => QuotaInv
  BY DEF Init, QuotaInv, FullQuota
<1>2. TypeOK /\ QuotaInv => QuotaHolds
  <2> SUFFICES ASSUME TypeOK, QuotaInv, NEW t \in Token
               PROVE served[t] <= Limit /\ limitLogged[t] <= 1
    BY DEF QuotaHolds
  <2>1. rateByToken[t].count \in Nat
    BY DEF TypeOK, Quota
  <2> QED
    BY <2>1 DEF QuotaInv
<1> QED
  BY <1>1, <1>2, StepQuota, TypeCorrect, PTL DEF Spec

------------------------------------------------------------------------------
(***************************************************************************)
(* The documents.  A step adds uses to one, plants it, or is maintenance.  *)
(***************************************************************************)

\* What a step does to the document of a token, as TriggeredIffLogged sees it.
LEMMA DocStep ==
    ASSUME TypeOK, [Next]_vars, NEW t \in Token
    PROVE  \/ doc'[t] = doc[t]
           \/ doc[t] = NoDoc /\ doc'[t] = Fresh
           \/ /\ doc[t] # NoDoc /\ doc'[t] # NoDoc
              /\ doc'[t].isTriggered
              /\ \E r \in Req : doc'[t].triggeredLogs = doc[t].triggeredLogs \cup {r}
           \/ sweeps' # sweeps /\ doc'[t] \in {Fresh, NoDoc}
<1>1. ASSUME NEW u \in Token, Seed(u) PROVE doc'[t] = doc[t] \/ (doc[t] = NoDoc /\ doc'[t] = Fresh)
  BY <1>1 DEF Seed, TypeOK
<1>2. ASSUME NEW u \in Token, Reset(u) \/ Delete(u)
      PROVE doc'[t] = doc[t] \/ (sweeps' # sweeps /\ doc'[t] \in {Fresh, NoDoc})
  BY <1>2 DEF Reset, Delete, TypeOK
<1>3. ASSUME NEW r \in Req, UsageLands(r), doc'[t] # doc[t]
      PROVE  /\ doc[t] # NoDoc /\ doc'[t] # NoDoc
             /\ doc'[t].isTriggered
             /\ doc'[t].triggeredLogs = doc[t].triggeredLogs \cup {r}
  <2> DEFINE used == [isTriggered |-> TRUE, triggeredLogs |-> doc[t].triggeredLogs \cup {r}]
  <2>1. doc[t] # NoDoc /\ doc'[t] = used
    BY <1>3 DEF UsageLands, TypeOK
  <2>2. used \in Doc
    BY <2>1, UsedDoc DEF TypeOK
  <2>3. doc'[t] # NoDoc
    BY <2>1, <2>2
  <2>4. used.isTriggered /\ used.triggeredLogs = doc[t].triggeredLogs \cup {r}
    OBVIOUS
  <2> QED
    BY <2>1, <2>3, <2>4
<1>4. \/ \E u \in Token : Seed(u) \/ Reset(u) \/ Delete(u)
      \/ \E r \in Req : UsageLands(r)
      \/ UNCHANGED doc
  BY DEF Next, vars, dbVars, Present, PresentAcknowledged, CallApi, UsageSettles,
         ReportSettles, UsageDropped, WindowExpires, TraceExpires, GatewayCrash,
         TelemetryCrash, SeedFails, Listen
<1> QED
  BY <1>1, <1>2, <1>3, <1>4

\* honeyTokenService.js and maintenance: the flag and the log of a token go together.
THEOREM TriggeredIffLoggedHolds == Spec => []TriggeredIffLogged
<1>1. Init => TriggeredIffLogged
  BY DEF Init, TriggeredIffLogged
<1>2. TypeOK /\ TriggeredIffLogged /\ [Next]_vars => TriggeredIffLogged'
  <2> SUFFICES ASSUME TypeOK, TriggeredIffLogged, [Next]_vars,
                      NEW t \in Token, doc'[t] # NoDoc
               PROVE  doc'[t].isTriggered <=> doc'[t].triggeredLogs # {}
    BY DEF TriggeredIffLogged
  <2> QED
    BY DocStep, StartValues DEF TriggeredIffLogged, Fresh
<1> QED
  BY <1>1, <1>2, TypeCorrect, PTL DEF Spec

LEMMA KeepsUses ==
    ASSUME TypeOK, [Next]_vars, NEW t \in Token, doc[t] # NoDoc, sweeps' = sweeps
    PROVE  doc'[t] # NoDoc /\ doc[t].triggeredLogs \subseteq doc'[t].triggeredLogs
BY DocStep

\* honeyTokenService.js: seeding, crashes and late calls take no use away.
THEOREM HistoryKeptHolds == Spec => HistoryKept
<1>1. TypeOK /\ [Next]_vars =>
        [\A t \in Token :
           (doc[t] # NoDoc /\ sweeps' = sweeps)
              => doc'[t] # NoDoc /\ doc[t].triggeredLogs \subseteq doc'[t].triggeredLogs]_vars
  BY KeepsUses
<1> QED
  BY <1>1, TypeCorrect, PTL DEF Spec, HistoryKept

------------------------------------------------------------------------------
(***************************************************************************)
(* Boot order.  Until maintenance runs, a missing document is still to be  *)
(* seeded or was left out by a seeding that failed, so a listening server  *)
(* has all the others.                                                     *)
(***************************************************************************)
BootInv ==
    sweeps = 0 =>
        /\ up => seeding = {}
        /\ \A t \in Token : doc[t] = NoDoc => t \in seeding \cup unplanted
        /\ \A r \in sent : TokenOf[r] \notin unplanted => doc[TokenOf[r]] # NoDoc
        /\ \A r \in recorded :
             TokenOf[r] \notin unplanted =>
                doc[TokenOf[r]] # NoDoc /\ r \in doc[TokenOf[r]].triggeredLogs

\* Nothing takes a sweep or a failed seeding back.
LEMMA SweepStep ==
    ASSUME TypeOK, [Next]_vars
    PROVE  /\ sweeps' = 0 => sweeps = 0 /\ sweeps' = sweeps
           /\ unplanted \subseteq unplanted'
<1>1. ASSUME NEW t \in Token, Reset(t) \/ Delete(t)
      PROVE  sweeps' = sweeps + 1 /\ unplanted' = unplanted
  BY <1>1 DEF Reset, Delete, bootVars
<1>2. CASE SeedFails
  BY <1>2 DEF SeedFails, boundVars
<1>3. \/ \E t \in Token : Reset(t) \/ Delete(t)
      \/ SeedFails
      \/ UNCHANGED <<sweeps, unplanted>>
  BY DEF Next, vars, boundVars, bootVars, Present, PresentAcknowledged, CallApi,
         UsageSettles, ReportSettles, UsageLands, UsageDropped, WindowExpires, Seed,
         TraceExpires, GatewayCrash, TelemetryCrash, Listen
<1>4. sweeps \in Nat
  BY DEF TypeOK
<1> QED
  BY <1>1, <1>2, <1>3, <1>4

LEMMA StepBoot == TypeOK /\ BootInv /\ [Next]_vars => BootInv'
<1> DEFINE Planted(t) == t \notin unplanted
           Kept(r) == doc[TokenOf[r]] # NoDoc /\ r \in doc[TokenOf[r]].triggeredLogs
<1> SUFFICES ASSUME TypeOK, BootInv, [Next]_vars, sweeps' = 0
             PROVE  /\ up' => seeding' = {}
                    /\ \A t \in Token : doc'[t] = NoDoc => t \in seeding' \cup unplanted'
                    /\ \A r \in sent' : Planted(TokenOf[r])' => doc'[TokenOf[r]] # NoDoc
                    /\ \A r \in recorded' : Planted(TokenOf[r])' => Kept(r)'
  BY DEF BootInv
<1>0. sweeps = 0 /\ sweeps' = sweeps /\ unplanted \subseteq unplanted'
  BY SweepStep
<1>1. /\ up => seeding = {}
      /\ \A t \in Token : doc[t] = NoDoc => t \in seeding \cup unplanted
      /\ \A r \in sent : Planted(TokenOf[r]) => doc[TokenOf[r]] # NoDoc
      /\ \A r \in recorded : Planted(TokenOf[r]) => Kept(r)
  BY <1>0 DEF BootInv
<1>2. \A t \in Token : doc[t] # NoDoc =>
         doc'[t] # NoDoc /\ doc[t].triggeredLogs \subseteq doc'[t].triggeredLogs
  BY <1>0, KeepsUses
<1>3. sent \subseteq Req /\ recorded \subseteq Req /\ seeding \subseteq Token
  BY DEF TypeOK
<1>4. \A r \in recorded : Planted(TokenOf[r])' => Kept(r)'
  BY <1>0, <1>1, <1>2, <1>3
<1>5. \A r \in sent : Planted(TokenOf[r])' => doc'[TokenOf[r]] # NoDoc
  BY <1>0, <1>1, <1>2, <1>3
<1>6. ASSUME NEW r \in Req, Present(r) \/ PresentAcknowledged(r) \/ CallApi(r)
      PROVE  /\ UNCHANGED <<up, seeding, unplanted, doc, recorded>>
             /\ sent' = sent \/ (up /\ sent' = sent \cup {r})
  BY <1>6 DEF Present, PresentAcknowledged, CallApi, Record, Answer, bootVars
<1>7. ASSUME NEW r \in Req, UsageLands(r), Planted(TokenOf[r])
      PROVE  r \in doc'[TokenOf[r]].triggeredLogs
  BY <1>1, <1>7 DEF UsageLands, TypeOK
<1>8. CASE \E r \in Req : Present(r) \/ PresentAcknowledged(r) \/ CallApi(r)
  BY <1>1, <1>4, <1>5, <1>6, <1>8
<1>9. CASE \E r \in Req : UsageLands(r)
  <2>1. PICK r \in Req : UsageLands(r)
    BY <1>9
  <2>2. /\ UNCHANGED <<up, seeding, unplanted>>
        /\ sent' \subseteq sent /\ recorded' = recorded \cup {r} /\ r \in sent
    BY <2>1 DEF UsageLands, bootVars
  <2> QED
    BY <1>1, <1>2, <1>4, <1>5, <1>7, <2>1, <2>2
<1>10. CASE \E t \in Token : Seed(t)
  <2>1. PICK u \in Token : Seed(u)
    BY <1>10
  <2>2. /\ seeding' = seeding \ {u} /\ UNCHANGED <<up, unplanted, sent, recorded>>
        /\ doc'[u] # NoDoc
    BY <2>1, StartValues DEF Seed, TypeOK
  <2> QED
    BY <1>1, <1>2, <1>3, <1>4, <1>5, <2>2
<1>11. CASE TelemetryCrash
  BY <1>1, <1>4, <1>5, <1>11 DEF TelemetryCrash
<1>12. CASE Listen
  BY <1>1, <1>4, <1>5, <1>12 DEF Listen, dbVars
<1>13. CASE \E r \in Req : UsageDropped(r)
  BY <1>1, <1>4, <1>5, <1>13 DEF UsageDropped, bootVars
<1>14. CASE UNCHANGED <<bootVars, dbVars>>
  BY <1>1, <1>4, <1>5, <1>14 DEF bootVars, dbVars
<1>15. CASE SeedFails
  <2>1. /\ seeding' = {} /\ UNCHANGED <<up, doc, sent, recorded>>
        /\ unplanted' = unplanted \cup {t \in seeding : doc[t] = NoDoc}
    BY <1>15 DEF SeedFails, dbVars
  <2> QED
    BY <1>1, <1>4, <1>5, <2>1
<1>16. \/ \E r \in Req : \/ Present(r) \/ PresentAcknowledged(r) \/ CallApi(r)
                         \/ UsageLands(r) \/ UsageDropped(r)
       \/ \E t \in Token : Seed(t)
       \/ TelemetryCrash \/ Listen \/ SeedFails
       \/ UNCHANGED <<bootVars, dbVars>>
  <2>1. \A t \in Token : ~Reset(t) /\ ~Delete(t)
    BY <1>0 DEF Reset, Delete, TypeOK
  <2> QED
    BY <2>1 DEF Next, vars, UsageSettles, ReportSettles, WindowExpires, TraceExpires,
                GatewayCrash
<1> QED
  BY <1>8, <1>9, <1>10, <1>11, <1>12, <1>13, <1>14, <1>15, <1>16

\* server.js boots telemetry in an order that loses no use it acknowledges, but of entries
\* that a seeding that threw left without a document.
THEOREM AcknowledgedUseIsLoggedHolds == Spec => []AcknowledgedUseIsLogged
<1>1. Init => BootInv
  BY DEF Init, BootInv
<1>2. BootInv => AcknowledgedUseIsLogged
  BY DEF BootInv, AcknowledgedUseIsLogged
<1> QED
  BY <1>1, <1>2, StepBoot, TypeCorrect, PTL DEF Spec

------------------------------------------------------------------------------
(***************************************************************************)
(* The dedup, once the requests that raced the first are through.          *)
(***************************************************************************)
LEMMA QuietStep ==
    ASSUME TypeOK, [Next]_vars, NEW tr \in Trace,
           tr \in tokenUsedByTrace, Pending(tr) = {}, tr \in tokenUsedByTrace'
    PROVE  Pending(tr)' = {} /\ reported'[tr] = reported[tr]
<1>1. ASSUME NEW r \in Req, Present(r) \/ PresentAcknowledged(r) \/ CallApi(r)
      PROVE  /\ reported' = reported
             /\ \A s \in Req \ {r} : pc'[s] = pc[s] /\ action'[s] = action[s]
             /\ TraceOf[r] # tr \/ pc'[r] # "usage" \/ action'[r] # "token_used"
  BY <1>1 DEF Present, PresentAcknowledged, CallApi, Record, Answer, memoryVars, TypeOK
<1>2. CASE \E r \in Req : Present(r) \/ PresentAcknowledged(r) \/ CallApi(r)
  BY <1>1, <1>2 DEF Pending
<1>3. ASSUME NEW r \in Req, UsageSettles(r) \/ ReportSettles(r)
      PROVE  /\ action' = action
             /\ \A s \in Req : pc'[s] = "usage" => pc[s] = "usage"
             /\ reported'[tr] = reported[tr]
  BY <1>3 DEF UsageSettles, ReportSettles, Pending, TypeOK
<1>4. CASE \E r \in Req : UsageSettles(r) \/ ReportSettles(r)
  BY <1>3, <1>4 DEF Pending
<1>5. CASE \E u \in Trace : TraceExpires(u)
  BY <1>5 DEF TraceExpires, Pending, requestVars, TypeOK
<1>6. CASE UNCHANGED <<requestVars, reported>>
  BY <1>6 DEF requestVars, Pending
<1>7. ~GatewayCrash
  BY DEF GatewayCrash
<1>8. \/ \E r \in Req : Present(r) \/ PresentAcknowledged(r) \/ CallApi(r)
      \/ \E r \in Req : UsageSettles(r) \/ ReportSettles(r)
      \/ \E u \in Trace : TraceExpires(u)
      \/ UNCHANGED <<requestVars, reported>>
  BY <1>7 DEF Next, vars, memoryVars, UsageLands, UsageDropped, WindowExpires, Seed, Reset,
              Delete, TelemetryCrash, SeedFails, Listen
<1> QED
  BY <1>2, <1>4, <1>5, <1>6, <1>8

\* decoyReroute.js: a remembered trace with nothing in flight is not reported again.
THEOREM RememberedStaysQuietHolds == Spec => RememberedStaysQuiet
<1>1. TypeOK /\ [Next]_vars =>
        [\A tr \in Trace :
           (tr \in tokenUsedByTrace /\ Pending(tr) = {} /\ tr \in tokenUsedByTrace')
              => Pending(tr)' = {} /\ reported'[tr] = reported[tr]]_vars
  BY QuietStep
<1> QED
  BY <1>1, TypeCorrect, PTL DEF Spec, RememberedStaysQuiet
==============================================================================
