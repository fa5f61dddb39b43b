------------------------- MODULE AttackPipelineProofs -------------------------
(***************************************************************************)
(* What holds of AttackPipeline for every set of reports, addresses and    *)
(* verdicts and every number of admin requests and crashes.                    *)
(***************************************************************************)
EXTENDS AttackPipeline, FiniteSetTheorems, TLAPS

USE PipelineAssumption DEF PipelineAssumption

LEMMA RollUpType ==
    ASSUME NEW doc \in ProfileDoc, NEW v \in Verdict, NEW s \in Severity \cup {Absent}
    PROVE  RollUp(doc, v, s) \in ProfileDoc
BY DEF RollUp, Larger, ProfileDoc, Severity, Absent

LEMMA CreditType ==
    ASSUME NEW doc \in ProfileDoc \cup {NoProfile}, NEW delta \in Nat
    PROVE  Credit(doc, delta) \in ProfileDoc
<1>1. CASE doc = NoProfile
  BY <1>1 DEF Credit, NewProfile, ProfileDoc, Absent
<1>2. CASE doc # NoProfile
  <2>1. Credit(doc, delta) = [doc EXCEPT !.risk = doc.risk + delta]
    BY <1>2 DEF Credit
  <2>2. doc \in ProfileDoc /\ doc.risk + delta \in Nat
    BY <1>2 DEF ProfileDoc
  <2> QED
    BY <2>1, <2>2 DEF ProfileDoc
<1> QED
  BY <1>1, <1>2

------------------------------------------------------------------------------
(***************************************************************************)
(* Types.  The profile keeps its type only because a rollup has a verdict, *)
(* so the two are proved together.                                         *)
(***************************************************************************)

TypeInv == TypeOK /\ VerdictHeld

LEMMA InitType == Init => TypeInv
BY DEF Init, TypeInv, TypeOK, VerdictHeld, ReportState, HandlerState, UpsertState, MlState,
       Absent

LEMMA StepType == TypeInv /\ [Next]_vars => TypeOK'
<1> SUFFICES ASSUME TypeOK, VerdictHeld, [Next]_vars PROVE TypeOK'
  BY DEF TypeInv
<1> USE DEF TypeOK, gatewayVars, taskVars, dbVars, adminVars
<1>1. ASSUME NEW r \in Report, ReportAttack(r) PROVE TypeOK'
  BY <1>1 DEF ReportAttack, ReportState, HandlerState
<1>2. ASSUME NEW r \in Report, ReplyArrives(r) PROVE TypeOK'
  BY <1>2 DEF ReplyArrives, ReportState
<1>3. ASSUME NEW r \in Report, GiveUp(r) PROVE TypeOK'
  BY <1>3 DEF GiveUp, ReportState
<1>4. ASSUME NEW r \in Report, Arrive(r) PROVE TypeOK'
  BY <1>4 DEF Arrive, HandlerState
<1>5. ASSUME NEW r \in Report, GeoResolved(r) PROVE TypeOK'
  BY <1>5 DEF GeoResolved, HandlerState, UpsertState
<1>6. ASSUME NEW r \in Report, SaveLands(r) PROVE TypeOK'
  BY <1>6 DEF SaveLands, HandlerState
<1>7. ASSUME NEW r \in Report, SaveThrows(r) PROVE TypeOK'
  BY <1>7 DEF SaveThrows, HandlerState
<1>8. ASSUME NEW r \in Report, Resume(r) PROVE TypeOK'
  BY <1>8 DEF Resume, HandlerState, MlState
<1>9. ASSUME NEW r \in Report, UpsertLands(r) PROVE TypeOK'
  BY <1>9, CreditType DEF UpsertLands, UpsertState
<1>10. ASSUME NEW r \in Report, UpsertFails(r) PROVE TypeOK'
  BY <1>10 DEF UpsertFails, UpsertState
<1>11. ASSUME NEW r \in Report, MlAnswers(r) PROVE TypeOK'
  BY <1>11 DEF MlAnswers, MlState
<1>12. ASSUME NEW r \in Report, MlFails(r) PROVE TypeOK'
  BY <1>12 DEF MlFails, MlEnds, MlState
<1>13. ASSUME NEW r \in Report, MlWriteEvent(r) PROVE TypeOK'
  BY <1>13 DEF MlWriteEvent, MlState
<1>14. ASSUME NEW r \in Report, MlReadProfile(r) PROVE TypeOK'
  BY <1>14 DEF MlReadProfile, MlState, ProfileDoc
<1>15. ASSUME NEW r \in Report, MlRollUp(r) PROVE TypeOK'
  <2>1. CASE profile[IpOf[r]] = NoProfile
    BY <1>15, <2>1 DEF MlRollUp, MlEnds, MlState
  <2>2. CASE profile[IpOf[r]] # NoProfile
    <3> DEFINE ip == IpOf[r]
               doc == RollUp(profile[ip], verdict[r], seen[r])
    <3>1. /\ ip \in Ip
          /\ verdict[r] \in Verdict
          /\ profile[ip] \in ProfileDoc
          /\ seen[r] \in Severity \cup {Absent}
      BY <1>15, <2>2 DEF MlRollUp, VerdictHeld
    <3>2. doc \in ProfileDoc
      BY <3>1, RollUpType
    <3>3. /\ profile' = [profile EXCEPT ![ip] = doc]
          /\ rolledUp' = [rolledUp EXCEPT ![ip] = rolledUp[ip] \cup {verdict[r]}]
      BY <1>15, <2>2 DEF MlRollUp
    <3>4. /\ profile' \in [Ip -> ProfileDoc \cup {NoProfile}]
          /\ rolledUp' \in [Ip -> SUBSET Verdict]
      <4> HIDE DEF doc
      <4> QED
        BY <3>1, <3>2, <3>3
    <3> QED
      BY <1>15, <3>4 DEF MlRollUp, MlEnds, MlState
  <2> QED
    BY <2>1, <2>2
<1>16. ASSUME StartWipe PROVE TypeOK'
  BY <1>16 DEF StartWipe, Targets, Collection
<1>17. ASSUME DeleteEvents PROVE TypeOK'
  BY <1>17 DEF DeleteEvents
<1>18. ASSUME DeleteProfiles PROVE TypeOK'
  BY <1>18 DEF DeleteProfiles
<1>19. ASSUME Crash PROVE TypeOK'
  BY <1>19 DEF Crash, HandlerState, UpsertState, MlState
<1>20. ASSUME UNCHANGED vars PROVE TypeOK'
  BY <1>20 DEF vars
<1>21. ASSUME NEW i \in Ip, BanProfile(i) PROVE TypeOK'
  BY <1>21 DEF BanProfile, NewProfile, ProfileDoc, Absent
<1> QED
  BY <1>1, <1>2, <1>3, <1>4, <1>5, <1>6, <1>7, <1>8, <1>9, <1>10, <1>11, <1>12,
     <1>13, <1>14, <1>15, <1>16, <1>17, <1>18, <1>19, <1>20, <1>21 DEF Next, Step, HandlerStep

LEMMA StepVerdict == TypeInv /\ [Next]_vars => VerdictHeld'
<1> SUFFICES ASSUME TypeOK, VerdictHeld, [Next]_vars,
                    NEW q \in Report, ml'[q] \in {"event", "profile", "rollup"}
             PROVE  verdict'[q] \in Verdict
  BY DEF TypeInv, VerdictHeld
<1> USE DEF TypeOK, VerdictHeld, taskVars
<1>1. ASSUME NEW r \in Report, MlAnswers(r) PROVE verdict'[q] \in Verdict
  BY <1>1 DEF MlAnswers
<1>2. ASSUME NEW r \in Report, MlFails(r) \/ MlRollUp(r) PROVE verdict'[q] \in Verdict
  BY <1>2 DEF MlFails, MlRollUp, MlEnds
<1>3. ASSUME NEW r \in Report,
             MlWriteEvent(r) \/ MlReadProfile(r) \/ Resume(r)
      PROVE  verdict'[q] \in Verdict
  BY <1>3 DEF MlWriteEvent, MlReadProfile, Resume
<1>4. ASSUME NEW r \in Report,
             \/ ReportAttack(r) \/ ReplyArrives(r) \/ GiveUp(r) \/ Arrive(r)
             \/ GeoResolved(r) \/ SaveLands(r) \/ SaveThrows(r)
             \/ UpsertLands(r) \/ UpsertFails(r)
      PROVE  verdict'[q] \in Verdict
  BY <1>4 DEF ReportAttack, ReplyArrives, GiveUp, Arrive, GeoResolved, SaveLands,
              SaveThrows, UpsertLands, UpsertFails
<1>5. CASE \/ \E i \in Ip : BanProfile(i)
          \/ StartWipe \/ DeleteEvents \/ DeleteProfiles \/ UNCHANGED vars
  BY <1>5 DEF BanProfile, StartWipe, DeleteEvents, DeleteProfiles, vars
<1>6. CASE Crash
  BY <1>6 DEF Crash
<1> QED
  BY <1>1, <1>2, <1>3, <1>4, <1>5, <1>6 DEF Next, Step, HandlerStep

\* Every variable keeps its type: in particular no interleaving of upserts, rollups and
\* wipes leaves a profile that is not a document.
THEOREM TypeCorrect == Spec => []TypeOK
BY InitType, StepType, StepVerdict, PTL DEF Spec, TypeInv

------------------------------------------------------------------------------
(***************************************************************************)
(* The order of the pipeline.  NoFalseSuccess is not inductive: it needs   *)
(* what each stage of the handler says about the event and the alert, and  *)
(* that an event is not saved before its handler gets there.               *)
(***************************************************************************)

OrderInv ==
    \A r \in Report :
      /\ report[r] = "idle" => handler[r] = "none"
      /\ handler[r] \in {"none", "transit", "geo", "saving"} => r \notin saved
      /\ handler[r] \in {"saved", "ok"} => r \in saved
      /\ handler[r] = "ok" => r \in alerts
      /\ report[r] = "sent" => handler[r] = "ok"

LEMMA StepOrder == TypeInv /\ OrderInv /\ [Next]_vars => OrderInv'
<1> SUFFICES ASSUME TypeOK, OrderInv, [Next]_vars PROVE OrderInv'
  BY DEF TypeInv
<1> USE DEF TypeOK, OrderInv, gatewayVars, taskVars, dbVars
<1>1. ASSUME NEW r \in Report, ReportAttack(r) PROVE OrderInv'
  BY <1>1 DEF ReportAttack
<1>2. ASSUME NEW r \in Report, ReplyArrives(r) PROVE OrderInv'
  BY <1>2 DEF ReplyArrives
<1>3. ASSUME NEW r \in Report, GiveUp(r) PROVE OrderInv'
  BY <1>3 DEF GiveUp
<1>4. ASSUME NEW r \in Report, Arrive(r) PROVE OrderInv'
  BY <1>4 DEF Arrive
<1>5. ASSUME NEW r \in Report, GeoResolved(r) PROVE OrderInv'
  BY <1>5 DEF GeoResolved
<1>6. ASSUME NEW r \in Report, SaveLands(r) PROVE OrderInv'
  BY <1>6 DEF SaveLands
<1>7. ASSUME NEW r \in Report, SaveThrows(r) PROVE OrderInv'
  BY <1>7 DEF SaveThrows
<1>8. ASSUME NEW r \in Report, Resume(r) PROVE OrderInv'
  BY <1>8 DEF Resume
<1>9. ASSUME NEW r \in Report,
             \/ UpsertLands(r) \/ UpsertFails(r) \/ MlAnswers(r) \/ MlFails(r)
             \/ MlWriteEvent(r) \/ MlReadProfile(r) \/ MlRollUp(r)
      PROVE  OrderInv'
  BY <1>9 DEF UpsertLands, UpsertFails, MlAnswers, MlFails, MlWriteEvent, MlReadProfile,
              MlRollUp
<1>10. CASE \/ \E i \in Ip : BanProfile(i)
          \/ StartWipe \/ DeleteEvents \/ DeleteProfiles \/ UNCHANGED vars
  BY <1>10 DEF BanProfile, StartWipe, DeleteEvents, DeleteProfiles, vars
<1>11. CASE Crash
  BY <1>11 DEF Crash
<1> QED
  BY <1>1, <1>2, <1>3, <1>4, <1>5, <1>6, <1>7, <1>8, <1>9, <1>10, <1>11
     DEF Next, Step, HandlerStep

LEMMA OrderCorrect == Spec => [](TypeInv /\ OrderInv)
<1>1. Init => TypeInv /\ OrderInv
  BY InitType DEF Init, OrderInv
<1>2. TypeInv /\ OrderInv /\ [Next]_vars => (TypeInv /\ OrderInv)'
  BY StepType, StepVerdict, StepOrder DEF TypeInv
<1> QED
  BY <1>1, <1>2, PTL DEF Spec

\* Whatever is lost, late or crashed, a gateway that was told "sent" reported an event that
\* was persisted and announced.
THEOREM NoFalseSuccessHolds == Spec => []NoFalseSuccess
<1>1. OrderInv => NoFalseSuccess
  BY DEF OrderInv, NoFalseSuccess
<1> QED
  BY <1>1, OrderCorrect, PTL

------------------------------------------------------------------------------
(***************************************************************************)
(* The refinement: each action is a step of the abstract log or leaves it  *)
(* as it is.                                                               *)
(***************************************************************************)

LEMMA LogStep ==
    ASSUME TypeInv, OrderInv, [Next]_vars
    PROVE  [Log!Next]_(Log!vars)
<1> USE DEF TypeInv, TypeOK, OrderInv, gatewayVars, taskVars, dbVars,
            Log!Next, Log!vars, Log!Persist, Log!Announce, Log!Acknowledge
<1>1. ASSUME NEW r \in Report, ReportAttack(r) PROVE UNCHANGED Log!vars
  BY <1>1 DEF ReportAttack
<1>2. ASSUME NEW r \in Report, ReplyArrives(r) PROVE Log!Next \/ UNCHANGED Log!vars
  <2>1. CASE handler[r] = "ok"
    BY <1>2, <2>1 DEF ReplyArrives
  <2>2. CASE handler[r] = "error"
    BY <1>2, <2>2 DEF ReplyArrives
  <2> QED
    BY <1>2, <2>1, <2>2 DEF ReplyArrives
<1>3. ASSUME NEW r \in Report, GiveUp(r) PROVE UNCHANGED Log!vars
  BY <1>3 DEF GiveUp
<1>4. ASSUME NEW r \in Report, SaveLands(r) PROVE Log!Next
  BY <1>4 DEF SaveLands
<1>5. ASSUME NEW r \in Report, SaveThrows(r) PROVE Log!Next \/ UNCHANGED Log!vars
  BY <1>5 DEF SaveThrows
<1>6. ASSUME NEW r \in Report, Resume(r) PROVE Log!Next \/ UNCHANGED Log!vars
  BY <1>6 DEF Resume
<1>7. ASSUME NEW r \in Report,
             \/ Arrive(r) \/ GeoResolved(r) \/ UpsertLands(r) \/ UpsertFails(r)
             \/ MlAnswers(r) \/ MlFails(r) \/ MlWriteEvent(r) \/ MlReadProfile(r)
             \/ MlRollUp(r)
      PROVE  UNCHANGED Log!vars
  BY <1>7 DEF Arrive, GeoResolved, UpsertLands, UpsertFails, MlAnswers, MlFails,
              MlWriteEvent, MlReadProfile, MlRollUp
<1>8. CASE \/ \E i \in Ip : BanProfile(i)
          \/ StartWipe \/ DeleteEvents \/ DeleteProfiles \/ Crash \/ UNCHANGED vars
  BY <1>8 DEF BanProfile, StartWipe, DeleteEvents, DeleteProfiles, Crash, vars
<1> QED
  BY <1>1, <1>2, <1>3, <1>4, <1>5, <1>6, <1>7, <1>8 DEF Next, Step, HandlerStep

\* processAttack implements the abstract log for any number of reports.
THEOREM PipelineImplementsLog == Spec => ImplementsAttackLog
<1>1. Init => Log!Init
  BY DEF Init, Log!Init
<1>2. TypeInv /\ OrderInv /\ [Next]_vars => [Log!Next]_(Log!vars)
  BY LogStep
<1> QED
  BY <1>1, <1>2, OrderCorrect, PTL DEF Spec, ImplementsAttackLog, Log!Spec

------------------------------------------------------------------------------
(***************************************************************************)
(* The profile.  Between its creation and its deletion it counts at least  *)
(* one report or was made by a ban, and its mlRisk is the maximum of what  *)
(* it absorbed; before it is created it has absorbed nothing.              *)
(***************************************************************************)

IsMaxRisk(risk, verdicts) ==
    /\ \E v \in verdicts : risk = v.riskScore
    /\ \A v \in verdicts : risk >= v.riskScore

ProfileInv ==
    \A i \in Ip :
      IF profile[i] = NoProfile THEN rolledUp[i] = {}
      ELSE /\ credited[i] # {} \/ i \in bannedFirst
           /\ rolledUp[i] = {} => profile[i].mlRisk = Absent
           /\ rolledUp[i] # {} => IsMaxRisk(profile[i].mlRisk, rolledUp[i])

LEMMA CreditKeepsMlRisk ==
    ASSUME NEW doc \in ProfileDoc, NEW delta \in Nat
    PROVE  Credit(doc, delta).mlRisk = doc.mlRisk
<1>1. doc # NoProfile
  OBVIOUS
<1>2. Credit(doc, delta) = [doc EXCEPT !.risk = doc.risk + delta]
  BY <1>1 DEF Credit
<1> QED
  BY <1>2 DEF ProfileDoc

LEMMA AbsorbedMaxRisk ==
    ASSUME NEW verdicts \in SUBSET Verdict, NEW v \in Verdict,
           NEW risk \in Nat \cup {Absent},
           verdicts = {} => risk = Absent,
           verdicts # {} => IsMaxRisk(risk, verdicts)
    PROVE  IsMaxRisk(Larger(risk, v.riskScore), verdicts \cup {v})
<1>1. v.riskScore \in Nat /\ \A w \in verdicts : w.riskScore \in Nat
  OBVIOUS
<1>2. CASE verdicts = {}
  BY <1>1, <1>2 DEF IsMaxRisk, Larger, Absent
<1>3. CASE verdicts # {}
  BY <1>1, <1>3 DEF IsMaxRisk, Larger, Absent
<1> QED
  BY <1>2, <1>3

LEMMA StepProfile == TypeInv /\ ProfileInv /\ [Next]_vars => ProfileInv'
<1> SUFFICES ASSUME TypeInv, TypeOK, VerdictHeld, ProfileInv, [Next]_vars, NEW i \in Ip
             PROVE  IF profile'[i] = NoProfile THEN rolledUp'[i] = {}
                    ELSE /\ credited'[i] # {} \/ i \in bannedFirst'
                         /\ rolledUp'[i] = {} => profile'[i].mlRisk = Absent
                         /\ rolledUp'[i] # {} => IsMaxRisk(profile'[i].mlRisk, rolledUp'[i])
  BY DEF TypeInv, ProfileInv, IsMaxRisk
<1> DEFINE Goal == IF profile'[i] = NoProfile THEN rolledUp'[i] = {}
                   ELSE /\ credited'[i] # {} \/ i \in bannedFirst'
                        /\ rolledUp'[i] = {} => profile'[i].mlRisk = Absent
                        /\ rolledUp'[i] # {} => IsMaxRisk(profile'[i].mlRisk, rolledUp'[i])
<1>1. ASSUME profile'[i] = profile[i], credited'[i] = credited[i], rolledUp'[i] = rolledUp[i],
             i \in bannedFirst => i \in bannedFirst'
      PROVE  Goal
  BY <1>1 DEF ProfileInv
<1>2. ASSUME NEW r \in Report, UpsertLands(r) PROVE Goal
  <2>1. CASE IpOf[r] # i
    BY <1>1, <1>2, <2>1 DEF UpsertLands, TypeOK
  <2>2. CASE IpOf[r] = i
    <3>1. /\ profile'[i] = Credit(profile[i], RiskDelta[r])
          /\ credited'[i] = credited[i] \cup {r}
          /\ rolledUp'[i] = rolledUp[i]
          /\ RiskDelta[r] \in Nat
          /\ profile[i] \in ProfileDoc \cup {NoProfile}
      BY <1>2, <2>2 DEF UpsertLands, TypeOK
    <3>2. profile'[i] # NoProfile
      BY <3>1, CreditType
    <3>3. CASE profile[i] = NoProfile
      <4>1. rolledUp[i] = {} /\ profile'[i].mlRisk = Absent
        BY <3>1, <3>3 DEF ProfileInv, Credit, NewProfile
      <4> QED
        BY <3>1, <3>2, <4>1
    <3>4. CASE profile[i] # NoProfile
      <4>1. profile'[i].mlRisk = profile[i].mlRisk
        BY <3>1, <3>4, CreditKeepsMlRisk
      <4> QED
        BY <3>1, <3>2, <3>4, <4>1 DEF ProfileInv
    <3> QED
      BY <3>3, <3>4
  <2> QED
    BY <2>1, <2>2
<1>3. ASSUME NEW r \in Report, MlRollUp(r) PROVE Goal
  <2>1. CASE IpOf[r] # i \/ profile[i] = NoProfile
    BY <1>1, <1>3, <2>1 DEF MlRollUp, TypeOK
  <2>2. CASE IpOf[r] = i /\ profile[i] # NoProfile
    <3>1. /\ profile'[i] = RollUp(profile[i], verdict[r], seen[r])
          /\ credited'[i] = credited[i]
          /\ bannedFirst' = bannedFirst
          /\ rolledUp'[i] = rolledUp[i] \cup {verdict[r]}
          /\ verdict[r] \in Verdict
          /\ seen[r] \in Severity \cup {Absent}
          /\ rolledUp[i] \in SUBSET Verdict
          /\ profile[i] \in ProfileDoc
      BY <1>3, <2>2 DEF MlRollUp, TypeOK, VerdictHeld
    <3>2. profile'[i] # NoProfile
      BY <3>1, RollUpType
    <3>3. profile'[i].mlRisk = Larger(profile[i].mlRisk, verdict[r].riskScore)
      BY <3>1 DEF RollUp
    <3>4. profile[i].mlRisk \in Nat \cup {Absent}
      BY <3>1 DEF ProfileDoc
    <3>5. IsMaxRisk(profile'[i].mlRisk, rolledUp'[i])
      <4>1. /\ rolledUp[i] = {} => profile[i].mlRisk = Absent
            /\ rolledUp[i] # {} => IsMaxRisk(profile[i].mlRisk, rolledUp[i])
        BY <2>2 DEF ProfileInv
      <4>2. IsMaxRisk(Larger(profile[i].mlRisk, verdict[r].riskScore),
                      rolledUp[i] \cup {verdict[r]})
        BY <3>1, <3>4, <4>1, AbsorbedMaxRisk
      <4> QED
        BY <3>1, <3>3, <4>2
    <3> QED
      BY <2>2, <3>1, <3>2, <3>5 DEF ProfileInv
  <2> QED
    BY <2>1, <2>2
<1>4. CASE DeleteProfiles
  BY <1>4 DEF DeleteProfiles
<1>5. ASSUME NEW r \in Report,
             \/ ReportAttack(r) \/ ReplyArrives(r) \/ GiveUp(r) \/ Arrive(r)
             \/ GeoResolved(r) \/ SaveLands(r) \/ SaveThrows(r) \/ Resume(r)
             \/ UpsertFails(r) \/ MlAnswers(r) \/ MlFails(r) \/ MlWriteEvent(r)
             \/ MlReadProfile(r)
      PROVE  Goal
  BY <1>1, <1>5 DEF ReportAttack, ReplyArrives, GiveUp, Arrive, GeoResolved, SaveLands,
       SaveThrows, Resume, UpsertFails, MlAnswers, MlFails, MlWriteEvent, MlReadProfile, dbVars
<1>6. ASSUME NEW j \in Ip, BanProfile(j) PROVE Goal
  <2>1. CASE j = i /\ profile[i] = NoProfile
    <3>1. /\ profile'[i] = NewProfile(0)
          /\ rolledUp'[i] = {}
          /\ i \in bannedFirst'
      BY <1>6, <2>1 DEF BanProfile, TypeOK, ProfileInv
    <3>2. NewProfile(0) # NoProfile /\ NewProfile(0).mlRisk = Absent
      BY DEF NewProfile, ProfileDoc, Absent
    <3> QED
      BY <3>1, <3>2
  <2>2. CASE ~(j = i /\ profile[i] = NoProfile)
    <3>1. /\ profile'[i] = profile[i]
          /\ credited'[i] = credited[i]
          /\ rolledUp'[i] = rolledUp[i]
          /\ i \in bannedFirst => i \in bannedFirst'
      BY <1>6, <2>2 DEF BanProfile, TypeOK
    <3> QED
      BY <1>1, <3>1
  <2> QED
    BY <2>1, <2>2
<1>7. CASE StartWipe \/ DeleteEvents \/ Crash \/ UNCHANGED vars
  BY <1>1, <1>7 DEF StartWipe, DeleteEvents, Crash, vars, dbVars
<1> QED
  BY <1>2, <1>3, <1>4, <1>5, <1>6, <1>7 DEF Next, Step, HandlerStep

LEMMA ProfileCorrect == Spec => [](TypeInv /\ ProfileInv)
<1>1. Init => TypeInv /\ ProfileInv
  BY InitType DEF Init, ProfileInv
<1>2. TypeInv /\ ProfileInv /\ [Next]_vars => (TypeInv /\ ProfileInv)'
  BY StepType, StepVerdict, StepProfile DEF TypeInv
<1> QED
  BY <1>1, <1>2, PTL DEF Spec

\* No order of upserts, enrichments and wipes makes a profile that neither a report nor a
\* ban created.
THEOREM ProfileHasOriginHolds == Spec => []ProfileHasOrigin
<1>1. ProfileInv => ProfileHasOrigin
  BY DEF ProfileInv, ProfileHasOrigin
<1> QED
  BY <1>1, ProfileCorrect, PTL

\* mlRiskScore is the maximum of the scores rolled up, in whatever order they land.
THEOREM MlRiskIsHighestHolds == Spec => []MlRiskIsHighest
<1>1. TypeInv /\ ProfileInv => MlRiskIsHighest
  <2> SUFFICES ASSUME TypeOK, ProfileInv, NEW i \in Ip,
                      profile[i] # NoProfile, rolledUp[i] # {}
               PROVE  profile[i].mlRisk = Max({v.riskScore : v \in rolledUp[i]})
    BY DEF TypeInv, MlRiskIsHighest
  <2> DEFINE S == {v.riskScore : v \in rolledUp[i]}
             m == profile[i].mlRisk
  <2>1. S \subseteq Nat
    BY DEF TypeOK
  <2>2. m \in S /\ \A y \in S : m >= y
    BY DEF ProfileInv, IsMaxRisk
  <2> HIDE DEF S, m
  <2>3. \A x \in S : (\A y \in S : x >= y) => x = m
    BY <2>1, <2>2
  <2>4. Max(S) = m
    BY <2>2, <2>3 DEF Max
  <2> QED
    BY <2>4 DEF S, m
<1> QED
  BY <1>1, ProfileCorrect, PTL

------------------------------------------------------------------------------
(***************************************************************************)
(* The risk of a profile is a sum over a set, a fold of the library.  What *)
(* it adds up to is shown without an induction scheme: were a lemma false  *)
(* of a finite set, it would be false of a minimal one.                    *)
(***************************************************************************)

\* An element of a set, as the fold picks it.
Chosen(S) == CHOOSE r \in S : TRUE

\* The recursion behind the sum over S: a function of the subsets of S.
Recursion(g, S) ==
    g = [s \in SUBSET S |-> IF s = {} THEN 0 ELSE RiskDelta[Chosen(s)] + g[s \ {Chosen(s)}]]

Total(S) == MapThenSumSet(LAMBDA r : RiskDelta[r], S)

LEMMA TotalIsRecursion ==
    ASSUME NEW S
    PROVE  Total(S) = (CHOOSE g : Recursion(g, S))[S]
BY DEF Total, MapThenSumSet, MapThenFoldSet, Recursion, Chosen

LEMMA Minimal ==
    ASSUME NEW S, NEW T \in SUBSET FiniteSubsetsOf(S), T # {}
    PROVE  \E t \in T : \A u \in T : ~(u \subseteq t /\ u # t)
<1>1. PICK t \in T : \A u \in T : ~(<<u, t>> \in StrictSubsetOrdering(S))
  BY WFMin, FS_StrictSubsetOrderingWellFounded
<1> QED
  BY <1>1 DEF StrictSubsetOrdering, FiniteSubsetsOf

\* Two recursions agree where both are defined.
LEMMA RecursionsAgree ==
    ASSUME NEW S, NEW R, NEW g, NEW h, Recursion(g, S), Recursion(h, R),
           NEW s \in FiniteSubsetsOf(S), s \subseteq R
    PROVE  g[s] = h[s]
<1> DEFINE Differ == {t \in FiniteSubsetsOf(S) : t \subseteq R /\ g[t] # h[t]}
<1>1. SUFFICES ASSUME Differ # {} PROVE FALSE
  OBVIOUS
<1>2. PICK t \in Differ : \A u \in Differ : ~(u \subseteq t /\ u # t)
  <2>1. Differ \in SUBSET FiniteSubsetsOf(S)
    OBVIOUS
  <2> HIDE DEF Differ
  <2> QED
    BY <1>1, <2>1, Minimal
<1>3. /\ t \subseteq S /\ t \subseteq R /\ IsFiniteSet(t)
      /\ g[t] # h[t]
  BY DEF FiniteSubsetsOf
<1>4. t # {}
  BY <1>3 DEF Recursion
<1>5. Chosen(t) \in t
  BY <1>4 DEF Chosen
<1>6. t \ {Chosen(t)} \in FiniteSubsetsOf(S) /\ t \ {Chosen(t)} \subseteq R
  BY <1>3, FS_Subset DEF FiniteSubsetsOf
<1>7. g[t \ {Chosen(t)}] = h[t \ {Chosen(t)}]
  BY <1>2, <1>5, <1>6
<1>8. /\ g[t] = RiskDelta[Chosen(t)] + g[t \ {Chosen(t)}]
      /\ h[t] = RiskDelta[Chosen(t)] + h[t \ {Chosen(t)}]
  BY <1>3, <1>4 DEF Recursion
<1> QED
  BY <1>3, <1>7, <1>8

\* On a finite set of reports there is such a function.
LEMMA RecursionExists ==
    ASSUME NEW S \in SUBSET Report, IsFiniteSet(S)
    PROVE  \E g \in [SUBSET S -> Nat] : Recursion(g, S)
<1> DEFINE Has(t) == \E g \in [SUBSET t -> Nat] : Recursion(g, t)
           Missing == {t \in FiniteSubsetsOf(S) : ~Has(t)}
<1>1. SUFFICES ASSUME Missing # {} PROVE FALSE
  BY DEF FiniteSubsetsOf
<1>2. PICK t \in Missing : \A u \in Missing : ~(u \subseteq t /\ u # t)
  <2>1. Missing \in SUBSET FiniteSubsetsOf(S)
    OBVIOUS
  <2> HIDE DEF Missing
  <2> QED
    BY <1>1, <2>1, Minimal
<1>3. t \subseteq S /\ IsFiniteSet(t) /\ ~Has(t)
  BY <1>2 DEF FiniteSubsetsOf
<1>4. \A u \in SUBSET t : u # t => u \in FiniteSubsetsOf(S) /\ Has(u)
  BY <1>2, <1>3, FS_Subset DEF FiniteSubsetsOf
<1> DEFINE part == [u \in SUBSET t |-> CHOOSE g : g \in [SUBSET u -> Nat] /\ Recursion(g, u)]
           sum == [s \in SUBSET t |->
                     IF s = {} THEN 0 ELSE RiskDelta[Chosen(s)] + part[s \ {Chosen(s)}][s \ {Chosen(s)}]]
<1>5. \A u \in SUBSET t : u # t => part[u] \in [SUBSET u -> Nat] /\ Recursion(part[u], u)
  <2> SUFFICES ASSUME NEW u \in SUBSET t, u # t
               PROVE part[u] \in [SUBSET u -> Nat] /\ Recursion(part[u], u)
    OBVIOUS
  <2>1. PICK g : g \in [SUBSET u -> Nat] /\ Recursion(g, u)
    BY <1>4
  <2>2. part[u] = CHOOSE f : f \in [SUBSET u -> Nat] /\ Recursion(f, u)
    OBVIOUS
  <2> QED
    BY <2>1, <2>2
<1> HIDE DEF part, Has
<1>6. \A s \in SUBSET t : s # {} => /\ Chosen(s) \in s /\ Chosen(s) \in Report
                                   /\ s \ {Chosen(s)} \in SUBSET t /\ s \ {Chosen(s)} # t
  BY <1>3 DEF Chosen
<1>7. \A s \in SUBSET t : s # {} => part[s \ {Chosen(s)}][s \ {Chosen(s)}] \in Nat
  <2> SUFFICES ASSUME NEW s \in SUBSET t, s # {}
               PROVE  part[s \ {Chosen(s)}][s \ {Chosen(s)}] \in Nat
    OBVIOUS
  <2> DEFINE w == s \ {Chosen(s)}
  <2>1. part[w] \in [SUBSET w -> Nat]
    BY <1>5, <1>6
  <2> HIDE DEF w
  <2>2. part[w][w] \in Nat
    BY <2>1
  <2> QED
    BY <2>2 DEF w
<1>8. sum \in [SUBSET t -> Nat]
  <2>1. \A s \in SUBSET t : s # {} =>
          RiskDelta[Chosen(s)] + part[s \ {Chosen(s)}][s \ {Chosen(s)}] \in Nat
    <3>1. \A s \in SUBSET t : s # {} => RiskDelta[Chosen(s)] \in Nat
      BY <1>6
    <3> QED
      BY <1>7, <3>1
  <2> QED
    BY <2>1
<1>9. \A w \in SUBSET t : w # t => part[w][w] = sum[w]
  <2> SUFFICES ASSUME NEW w \in SUBSET t, w # t PROVE part[w][w] = sum[w]
    OBVIOUS
  <2>1. Recursion(part[w], w)
    BY <1>5
  <2>2. CASE w = {}
    BY <2>1, <2>2 DEF Recursion
  <2>3. CASE w # {}
    <3> DEFINE v == w \ {Chosen(w)}
    <3>1. v \in SUBSET t /\ v # t /\ v \subseteq w
      BY <1>6, <2>3
    <3>2. v \in FiniteSubsetsOf(w)
      BY <1>3, <3>1, FS_Subset DEF FiniteSubsetsOf
    <3>3. part[w][v] = part[v][v]
      <4>1. Recursion(part[v], v)
        BY <1>5, <3>1
      <4> HIDE DEF v
      <4> QED
        BY <2>1, <3>2, <4>1, RecursionsAgree
    <3>4. part[w][w] = RiskDelta[Chosen(w)] + part[w][v]
      BY <2>1, <2>3 DEF Recursion
    <3> QED
      BY <2>3, <3>3, <3>4
  <2> QED
    BY <2>2, <2>3
<1>10. Recursion(sum, t)
  <2>1. \A s \in SUBSET t :
          sum[s] = IF s = {} THEN 0 ELSE RiskDelta[Chosen(s)] + sum[s \ {Chosen(s)}]
    BY <1>6, <1>9
  <2>2. sum = [s \in SUBSET t |-> sum[s]]
    OBVIOUS
  <2> HIDE DEF sum
  <2> QED
    BY <2>1, <2>2 DEF Recursion
<1> HIDE DEF sum
<1> QED
  BY <1>3, <1>8, <1>10 DEF Has

\* The sum of a finite set, one element taken out.
LEMMA TotalStep ==
    ASSUME NEW S \in SUBSET Report, IsFiniteSet(S)
    PROVE  /\ Total(S) \in Nat
           /\ S = {} => Total(S) = 0
           /\ S # {} => Total(S) = RiskDelta[Chosen(S)] + Total(S \ {Chosen(S)})
<1> DEFINE rec(T) == CHOOSE g : Recursion(g, T)
<1>1. ASSUME NEW T \in SUBSET Report, IsFiniteSet(T)
      PROVE  Recursion(rec(T), T) /\ rec(T)[T] \in Nat /\ Total(T) = rec(T)[T]
  <2>1. PICK g \in [SUBSET T -> Nat] : Recursion(g, T)
    BY <1>1, RecursionExists
  <2>2. Recursion(rec(T), T)
    BY <2>1
  <2>3. T \in FiniteSubsetsOf(T)
    BY <1>1 DEF FiniteSubsetsOf
  <2> HIDE DEF rec
  <2>4. rec(T)[T] = g[T]
    BY <2>1, <2>2, <2>3, RecursionsAgree
  <2>5. g[T] \in Nat
    BY <2>1
  <2> QED
    BY <2>2, <2>4, <2>5, TotalIsRecursion DEF rec
<1>2. CASE S = {}
  <2>1. Recursion(rec(S), S) /\ Total(S) = rec(S)[S]
    BY <1>1
  <2>2. \A g : Recursion(g, S) => g[S] = 0
    BY <1>2 DEF Recursion
  <2> HIDE DEF rec
  <2> QED
    BY <1>2, <2>1, <2>2
<1>3. CASE S # {}
  <2> DEFINE u == S \ {Chosen(S)}
  <2>1. u \in SUBSET Report /\ IsFiniteSet(u) /\ u \in FiniteSubsetsOf(S)
    BY FS_Subset DEF FiniteSubsetsOf
  <2>2. Recursion(rec(S), S) /\ Recursion(rec(u), u) /\ Total(u) = rec(u)[u] /\ Total(S) = rec(S)[S]
        /\ rec(S)[S] \in Nat
    BY <1>1, <2>1
  <2> HIDE DEF rec
  <2>3. rec(S)[u] = rec(u)[u]
    BY <2>1, <2>2, RecursionsAgree
  <2>4. rec(S)[S] = RiskDelta[Chosen(S)] + rec(S)[u]
    BY <1>3, <2>2 DEF Recursion
  <2> QED
    BY <1>3, <2>2, <2>3, <2>4
<1> QED
  BY <1>2, <1>3

\* It does not matter which.
LEMMA TotalWithout ==
    ASSUME NEW S \in SUBSET Report, IsFiniteSet(S), NEW r \in S
    PROVE  Total(S) = RiskDelta[r] + Total(S \ {r})
<1> DEFINE Bad == {t \in FiniteSubsetsOf(S) : \E x \in t : Total(t) # RiskDelta[x] + Total(t \ {x})}
<1>1. SUFFICES ASSUME Bad # {} PROVE FALSE
  BY DEF FiniteSubsetsOf
<1>2. PICK t \in Bad : \A u \in Bad : ~(u \subseteq t /\ u # t)
  <2>1. Bad \in SUBSET FiniteSubsetsOf(S)
    OBVIOUS
  <2> HIDE DEF Bad
  <2> QED
    BY <1>1, <2>1, Minimal
<1>3. PICK x \in t : Total(t) # RiskDelta[x] + Total(t \ {x})
  OBVIOUS
<1>4. t \in SUBSET Report /\ IsFiniteSet(t) /\ t \subseteq S
  BY DEF FiniteSubsetsOf
<1> DEFINE c == Chosen(t)
<1>5. c \in t /\ Total(t) = RiskDelta[c] + Total(t \ {c})
  BY <1>3, <1>4, TotalStep DEF Chosen
<1>6. c # x
  BY <1>3, <1>5
<1>7. /\ t \ {c} \in FiniteSubsetsOf(S) /\ t \ {x} \in FiniteSubsetsOf(S)
      /\ t \ {c, x} \in SUBSET Report /\ IsFiniteSet(t \ {c, x})
  BY <1>4, FS_Subset DEF FiniteSubsetsOf
<1>8. t \ {c} \notin Bad /\ t \ {x} \notin Bad
  <2> HIDE DEF Bad
  <2> QED
    BY <1>2, <1>5
<1>9. (t \ {c}) \ {x} = t \ {c, x} /\ (t \ {x}) \ {c} = t \ {c, x}
  OBVIOUS
<1>10. /\ Total(t \ {c}) = RiskDelta[x] + Total(t \ {c, x})
       /\ Total(t \ {x}) = RiskDelta[c] + Total(t \ {c, x})
  BY <1>5, <1>6, <1>7, <1>8, <1>9
<1>11. Total(t \ {c, x}) \in Nat /\ RiskDelta[c] \in Nat /\ RiskDelta[x] \in Nat
  BY <1>4, <1>5, <1>7, TotalStep
<1> QED
  BY <1>3, <1>5, <1>10, <1>11

LEMMA TotalWith ==
    ASSUME NEW S \in SUBSET Report, IsFiniteSet(S), NEW r \in Report, r \notin S
    PROVE  Total(S \cup {r}) = Total(S) + RiskDelta[r] /\ IsFiniteSet(S \cup {r})
<1>1. IsFiniteSet(S \cup {r}) /\ (S \cup {r}) \ {r} = S
  BY FS_AddElement
<1>2. Total(S \cup {r}) = RiskDelta[r] + Total(S)
  BY <1>1, TotalWithout
<1>3. Total(S) \in Nat /\ RiskDelta[r] \in Nat
  BY TotalStep
<1> QED
  BY <1>1, <1>2, <1>3

\* A report is credited once: its only upsert starts when its handler leaves the geo lookup.
OnceInv ==
    \A r \in Report :
      /\ report[r] = "idle" => handler[r] = "none"
      /\ handler[r] \in {"none", "transit", "geo"} => upsert[r] = "idle"
      /\ handler[r] \in {"none", "transit", "geo"} \/ upsert[r] = "running"
           => \A i \in Ip : r \notin credited[i]

SumInv ==
    \A i \in Ip :
      /\ IsFiniteSet(credited[i])
      /\ profile[i] = NoProfile => credited[i] = {}
      /\ profile[i] # NoProfile => profile[i].risk = Total(credited[i])

LEMMA StepOnce == TypeInv /\ OnceInv /\ [Next]_vars => OnceInv'
<1> SUFFICES ASSUME TypeOK, OnceInv, [Next]_vars, NEW q \in Report
             PROVE  /\ report'[q] = "idle" => handler'[q] = "none"
                    /\ handler'[q] \in {"none", "transit", "geo"} => upsert'[q] = "idle"
                    /\ handler'[q] \in {"none", "transit", "geo"} \/ upsert'[q] = "running"
                         => \A i \in Ip : q \notin credited'[i]
  BY DEF TypeInv, OnceInv
<1> DEFINE Goal == /\ report'[q] = "idle" => handler'[q] = "none"
                   /\ handler'[q] \in {"none", "transit", "geo"} => upsert'[q] = "idle"
                   /\ handler'[q] \in {"none", "transit", "geo"} \/ upsert'[q] = "running"
                        => \A i \in Ip : q \notin credited'[i]
<1> USE DEF TypeOK, OnceInv, taskVars, dbVars, gatewayVars
<1>1. ASSUME NEW r \in Report, ReportAttack(r) PROVE Goal
  BY <1>1 DEF ReportAttack
<1>2. ASSUME NEW r \in Report, ReplyArrives(r) \/ GiveUp(r) PROVE Goal
  BY <1>2 DEF ReplyArrives, GiveUp
<1>3. ASSUME NEW r \in Report, Arrive(r) PROVE Goal
  BY <1>3 DEF Arrive
<1>4. ASSUME NEW r \in Report, GeoResolved(r) PROVE Goal
  BY <1>4 DEF GeoResolved
<1>5. ASSUME NEW r \in Report, SaveLands(r) PROVE Goal
  BY <1>5 DEF SaveLands
<1>6. ASSUME NEW r \in Report, SaveThrows(r) PROVE Goal
  BY <1>6 DEF SaveThrows
<1>7. ASSUME NEW r \in Report, Resume(r) PROVE Goal
  BY <1>7 DEF Resume
<1>8. ASSUME NEW r \in Report, UpsertLands(r) PROVE Goal
  BY <1>8 DEF UpsertLands
<1>9. ASSUME NEW r \in Report, UpsertFails(r) PROVE Goal
  BY <1>9 DEF UpsertFails
<1>10. ASSUME NEW r \in Report,
              MlAnswers(r) \/ MlFails(r) \/ MlWriteEvent(r) \/ MlReadProfile(r) \/ MlRollUp(r)
       PROVE  Goal
  BY <1>10 DEF MlAnswers, MlFails, MlWriteEvent, MlReadProfile, MlRollUp
<1>11. ASSUME NEW i \in Ip, BanProfile(i) PROVE Goal
  BY <1>11 DEF BanProfile
<1>12. CASE StartWipe \/ DeleteEvents \/ DeleteProfiles
  BY <1>12 DEF StartWipe, DeleteEvents, DeleteProfiles
<1>13. CASE Crash
  BY <1>13 DEF Crash
<1>14. CASE UNCHANGED vars
  BY <1>14 DEF vars
<1> QED
  BY <1>1, <1>2, <1>3, <1>4, <1>5, <1>6, <1>7, <1>8, <1>9, <1>10, <1>11, <1>12, <1>13, <1>14
     DEF Next, Step, HandlerStep

LEMMA StepSum == TypeInv /\ OnceInv /\ SumInv /\ [Next]_vars => SumInv'
<1> SUFFICES ASSUME TypeOK, VerdictHeld, OnceInv, SumInv, [Next]_vars, NEW i \in Ip
             PROVE  /\ IsFiniteSet(credited'[i])
                    /\ profile'[i] = NoProfile => credited'[i] = {}
                    /\ profile'[i] # NoProfile => profile'[i].risk = Total(credited'[i])
  BY DEF TypeInv, SumInv
<1> DEFINE Goal == /\ IsFiniteSet(credited'[i])
                   /\ profile'[i] = NoProfile => credited'[i] = {}
                   /\ profile'[i] # NoProfile => profile'[i].risk = Total(credited'[i])
<1>1. ASSUME credited'[i] = credited[i], profile'[i] = NoProfile <=> profile[i] = NoProfile,
             profile[i] # NoProfile => profile'[i].risk = profile[i].risk
      PROVE  Goal
  BY <1>1 DEF SumInv
<1>2. /\ IsFiniteSet({}) /\ Total({}) = 0
  BY FS_EmptySet, TotalStep
<1>3. ASSUME NEW r \in Report, UpsertLands(r) PROVE Goal
  <2>1. CASE IpOf[r] # i
    BY <1>1, <1>3, <2>1 DEF UpsertLands, TypeOK
  <2>2. CASE IpOf[r] = i
    <3>1. /\ credited'[i] = credited[i] \cup {r} /\ profile'[i] = Credit(profile[i], RiskDelta[r])
          /\ r \notin credited[i] /\ credited[i] \in SUBSET Report /\ IsFiniteSet(credited[i])
          /\ RiskDelta[r] \in Nat /\ profile[i] \in ProfileDoc \cup {NoProfile}
      BY <1>3, <2>2 DEF UpsertLands, TypeOK, OnceInv, SumInv
    <3>2. /\ Total(credited[i] \cup {r}) = Total(credited[i]) + RiskDelta[r]
          /\ IsFiniteSet(credited[i] \cup {r})
      BY <3>1, TotalWith
    <3>3. Credit(profile[i], RiskDelta[r]) \in ProfileDoc
      BY <3>1, CreditType
    <3>4. Credit(profile[i], RiskDelta[r]).risk = Total(credited[i]) + RiskDelta[r]
      <4>1. CASE profile[i] = NoProfile
        <5>1. Total(credited[i]) = 0
          BY <1>2, <4>1 DEF SumInv
        <5>2. Credit(profile[i], RiskDelta[r]).risk = RiskDelta[r]
          BY <4>1 DEF Credit, NewProfile
        <5> QED
          BY <3>1, <5>1, <5>2
      <4>2. CASE profile[i] # NoProfile
        <5>1. profile[i] \in ProfileDoc /\ profile[i].risk = Total(credited[i])
          BY <3>1, <4>2 DEF SumInv
        <5>2. Credit(profile[i], RiskDelta[r]) = [profile[i] EXCEPT !.risk = profile[i].risk + RiskDelta[r]]
          BY <4>2 DEF Credit
        <5> QED
          BY <5>1, <5>2 DEF ProfileDoc
      <4> QED
        BY <4>1, <4>2
    <3> QED
      BY <3>1, <3>2, <3>3, <3>4
  <2> QED
    BY <2>1, <2>2
<1>4. ASSUME NEW r \in Report, MlRollUp(r) PROVE Goal
  <2>1. CASE IpOf[r] # i \/ profile[i] = NoProfile
    BY <1>1, <1>4, <2>1 DEF MlRollUp, TypeOK
  <2>2. CASE IpOf[r] = i /\ profile[i] # NoProfile
    <3>1. /\ profile[i] \in ProfileDoc /\ verdict[r] \in Verdict /\ seen[r] \in Severity \cup {Absent}
          /\ profile'[i] = RollUp(profile[i], verdict[r], seen[r]) /\ credited'[i] = credited[i]
      BY <1>4, <2>2 DEF MlRollUp, TypeOK, VerdictHeld
    <3>2. profile'[i] \in ProfileDoc
      BY <3>1, RollUpType
    <3>3. profile'[i].risk = profile[i].risk
      BY <3>1 DEF RollUp
    <3> QED
      BY <1>1, <2>2, <3>1, <3>2, <3>3
  <2> QED
    BY <2>1, <2>2
<1>5. CASE DeleteProfiles
  BY <1>2, <1>5 DEF DeleteProfiles
<1>6. ASSUME NEW j \in Ip, BanProfile(j) PROVE Goal
  <2>1. CASE j # i \/ profile[i] # NoProfile
    BY <1>1, <1>6, <2>1 DEF BanProfile, TypeOK
  <2>2. CASE j = i /\ profile[i] = NoProfile
    <3>1. profile'[i] = NewProfile(0) /\ credited'[i] = {}
      BY <1>6, <2>2 DEF BanProfile, TypeOK, SumInv
    <3>2. NewProfile(0) \in ProfileDoc /\ NewProfile(0).risk = 0
      BY DEF NewProfile, ProfileDoc, Absent
    <3> QED
      BY <1>2, <3>1, <3>2
  <2> QED
    BY <2>1, <2>2
<1>7. ASSUME NEW r \in Report,
             \/ ReportAttack(r) \/ ReplyArrives(r) \/ GiveUp(r) \/ Arrive(r)
             \/ HandlerStep(r) \/ UpsertFails(r)
             \/ MlAnswers(r) \/ MlFails(r) \/ MlWriteEvent(r) \/ MlReadProfile(r)
      PROVE  Goal
  BY <1>1, <1>7 DEF ReportAttack, ReplyArrives, GiveUp, Arrive, HandlerStep, GeoResolved,
       SaveLands, SaveThrows, Resume, UpsertFails, MlAnswers, MlFails, MlWriteEvent,
       MlReadProfile, dbVars
<1>8. CASE StartWipe \/ DeleteEvents \/ Crash \/ UNCHANGED vars
  BY <1>1, <1>8 DEF StartWipe, DeleteEvents, Crash, vars, dbVars
<1> QED
  BY <1>3, <1>4, <1>5, <1>6, <1>7, <1>8 DEF Next, Step

\* No concurrent upsert is lost or counted twice: the risk is the sum over the reports
\* credited to the profile (AttackerProfileService.js:68-81).
THEOREM RiskScoreIsSumHolds == Spec => []RiskScoreIsSum
<1>1. Init => OnceInv /\ SumInv
  BY FS_EmptySet DEF Init, OnceInv, SumInv
<1>2. TypeInv /\ OnceInv /\ SumInv /\ [Next]_vars => (OnceInv /\ SumInv)'
  BY StepOnce, StepSum
<1>3. Spec => []TypeInv
  BY ProfileCorrect, PTL
<1>4. SumInv => RiskScoreIsSum
  BY DEF SumInv, RiskScoreIsSum, Total
<1> QED
  BY <1>1, <1>2, <1>3, <1>4, PTL DEF Spec

\* A profile says what the reports behind it add up to, whatever upserts, enrichments, bans,
\* wipes and crashes overlapped.
THEOREM ProfileMatchesReportsHolds == Spec => []ProfileMatchesReports
BY RiskScoreIsSumHolds, ProfileHasOriginHolds, MlRiskIsHighestHolds, PTL
   DEF ProfileMatchesReports

------------------------------------------------------------------------------
(***************************************************************************)
(* What a step may not do.                                                 *)
(***************************************************************************)

\* Only a stored event carries an enrichment.
StoredInv == \A r \in Report : enriched[r] # NoVerdict => r \in events

LEMMA StepStored == TypeInv /\ StoredInv /\ [Next]_vars => StoredInv'
<1> SUFFICES ASSUME TypeOK, StoredInv, [Next]_vars PROVE StoredInv'
  BY DEF TypeInv
<1> USE DEF TypeOK, StoredInv, dbVars
<1>1. ASSUME NEW r \in Report, MlWriteEvent(r) PROVE StoredInv'
  BY <1>1 DEF MlWriteEvent
<1>2. CASE DeleteEvents
  BY <1>2 DEF DeleteEvents
<1>3. ASSUME NEW r \in Report, SaveLands(r) \/ SaveThrows(r) PROVE StoredInv'
  BY <1>3 DEF SaveLands, SaveThrows
<1>4. ASSUME NEW r \in Report,
             \/ ReportAttack(r) \/ ReplyArrives(r) \/ GiveUp(r) \/ Arrive(r)
             \/ GeoResolved(r) \/ Resume(r) \/ UpsertLands(r) \/ UpsertFails(r)
             \/ MlAnswers(r) \/ MlFails(r) \/ MlReadProfile(r) \/ MlRollUp(r)
      PROVE  StoredInv'
  BY <1>4 DEF ReportAttack, ReplyArrives, GiveUp, Arrive, GeoResolved, Resume, UpsertLands,
              UpsertFails, MlAnswers, MlFails, MlReadProfile, MlRollUp
<1>5. CASE \/ \E i \in Ip : BanProfile(i)
          \/ StartWipe \/ DeleteProfiles \/ Crash \/ UNCHANGED vars
  BY <1>5 DEF BanProfile, StartWipe, DeleteProfiles, Crash, vars
<1> QED
  BY <1>1, <1>2, <1>3, <1>4, <1>5 DEF Next, Step, HandlerStep

LEMMA SavedOnce ==
    ASSUME TypeInv, OrderInv, [Next]_vars, NEW q \in Report, q \in saved \ events
    PROVE  q \notin events'
<1> USE DEF TypeInv, TypeOK, OrderInv, dbVars
<1>1. ASSUME NEW r \in Report, SaveLands(r) \/ SaveThrows(r) PROVE q \notin events'
  BY <1>1 DEF SaveLands, SaveThrows
<1>2. ASSUME NEW r \in Report,
             \/ ReportAttack(r) \/ ReplyArrives(r) \/ GiveUp(r) \/ Arrive(r)
             \/ GeoResolved(r) \/ Resume(r) \/ UpsertLands(r) \/ UpsertFails(r)
             \/ MlAnswers(r) \/ MlFails(r) \/ MlWriteEvent(r) \/ MlReadProfile(r)
             \/ MlRollUp(r)
      PROVE  q \notin events'
  BY <1>2 DEF ReportAttack, ReplyArrives, GiveUp, Arrive, GeoResolved, Resume, UpsertLands,
              UpsertFails, MlAnswers, MlFails, MlWriteEvent, MlReadProfile, MlRollUp
<1>3. CASE \/ \E i \in Ip : BanProfile(i)
          \/ StartWipe \/ DeleteEvents \/ DeleteProfiles \/ Crash \/ UNCHANGED vars
  BY <1>3 DEF BanProfile, StartWipe, DeleteEvents, DeleteProfiles, Crash, vars
<1> QED
  BY <1>1, <1>2, <1>3 DEF Next, Step, HandlerStep

\* A deleted event never comes back: no enrichment recreates it, and the handler that
\* saved it saves it once.
THEOREM DeletedStaysDeletedHolds == Spec => DeletedStaysDeleted
<1>1. Init => StoredInv
  BY DEF Init, StoredInv
<1>2. TypeInv /\ OrderInv /\ StoredInv' /\ [Next]_vars
      => [\A r \in Report :
            /\ r \in saved \ events => r \notin events'
            /\ r \notin events' => enriched'[r] = NoVerdict]_vars
  BY SavedOnce DEF StoredInv
<1>3. TypeInv /\ StoredInv /\ [Next]_vars => StoredInv'
  BY StepStored
<1> QED
  BY <1>1, <1>2, <1>3, OrderCorrect, PTL DEF Spec, DeletedStaysDeleted

LEMMA RollUpSeverity ==
    ASSUME NEW doc \in ProfileDoc, NEW v \in Verdict, NEW s \in Severity \cup {Absent},
           RollUp(doc, v, s).mlSeverity < doc.mlSeverity
    PROVE  s # doc.mlSeverity
<1>1. RollUp(doc, v, s).mlSeverity = IF v.severity >= s THEN v.severity ELSE doc.mlSeverity
  BY DEF RollUp
<1>2. /\ v.severity \in Int
      /\ doc.mlSeverity \in Int
  BY DEF ProfileDoc, Severity, Absent
<1> QED
  BY <1>1, <1>2

LEMMA CreditKeepsSeverity ==
    ASSUME NEW doc \in ProfileDoc, NEW delta \in Nat
    PROVE  Credit(doc, delta).mlSeverity = doc.mlSeverity
<1>1. doc # NoProfile
  OBVIOUS
<1>2. Credit(doc, delta) = [doc EXCEPT !.risk = doc.risk + delta]
  BY <1>1 DEF Credit
<1> QED
  BY <1>2 DEF ProfileDoc

\* The severity of a profile drops only by an update whose read has become stale: with no
\* two enrichments of one address under way it never drops.
THEOREM SeverityDropsOnlyWhenStaleHolds == Spec => SeverityDropsOnlyWhenStale
<1> DEFINE Drop(i) == /\ profile[i] # NoProfile
                      /\ profile'[i] # NoProfile
                      /\ profile'[i].mlSeverity < profile[i].mlSeverity
           Stale(i) == \E r \in Report :
                         /\ IpOf[r] = i
                         /\ ml[r] = "rollup" /\ ml'[r] = "idle"
                         /\ seen[r] # profile[i].mlSeverity
<1>1. TypeInv /\ [Next]_vars => [\A i \in Ip : Drop(i) => Stale(i)]_vars
  <2> SUFFICES ASSUME TypeOK, VerdictHeld, [Next]_vars, NEW i \in Ip, Drop(i)
               PROVE  Stale(i)
    BY DEF TypeInv
  <2>1. profile[i] \in ProfileDoc /\ profile'[i] # profile[i]
    <3>1. profile[i] \in ProfileDoc
      BY DEF TypeOK
    <3>2. ~(profile[i].mlSeverity < profile[i].mlSeverity)
      BY <3>1 DEF ProfileDoc, Severity, Absent
    <3> QED
      BY <3>1, <3>2
  <2>2. ASSUME NEW r \in Report, UpsertLands(r) PROVE FALSE
    <3>1. IpOf[r] = i /\ profile'[i] = Credit(profile[i], RiskDelta[r])
      BY <2>1, <2>2 DEF UpsertLands, TypeOK
    <3>2. profile'[i].mlSeverity = profile[i].mlSeverity
      BY <2>1, <3>1, CreditKeepsSeverity
    <3>3. ~(profile[i].mlSeverity < profile[i].mlSeverity)
      BY <2>1 DEF ProfileDoc, Severity, Absent
    <3> QED
      BY <3>2, <3>3
  <2>3. ASSUME NEW r \in Report, MlRollUp(r) PROVE Stale(i)
    <3>1. /\ IpOf[r] = i
          /\ profile'[i] = RollUp(profile[i], verdict[r], seen[r])
          /\ verdict[r] \in Verdict
          /\ seen[r] \in Severity \cup {Absent}
      BY <2>1, <2>3 DEF MlRollUp, TypeOK, VerdictHeld
    <3>2. seen[r] # profile[i].mlSeverity
      BY <2>1, <3>1, RollUpSeverity
    <3>3. ml[r] = "rollup" /\ ml'[r] = "idle"
      BY <2>3 DEF MlRollUp, MlEnds, TypeOK
    <3> QED
      BY <3>1, <3>2, <3>3
  <2>4. ASSUME NEW r \in Report,
               \/ ReportAttack(r) \/ ReplyArrives(r) \/ GiveUp(r) \/ Arrive(r)
               \/ GeoResolved(r) \/ SaveLands(r) \/ SaveThrows(r) \/ Resume(r)
               \/ UpsertFails(r) \/ MlAnswers(r) \/ MlFails(r) \/ MlWriteEvent(r)
               \/ MlReadProfile(r)
        PROVE  FALSE
    BY <2>1, <2>4 DEF ReportAttack, ReplyArrives, GiveUp, Arrive, GeoResolved, SaveLands,
         SaveThrows, Resume, UpsertFails, MlAnswers, MlFails, MlWriteEvent, MlReadProfile,
         dbVars
  <2>5. ASSUME NEW j \in Ip, BanProfile(j) PROVE FALSE
    <3>1. profile'[i] = profile[i]
      BY <2>1, <2>5 DEF BanProfile, TypeOK
    <3> QED
      BY <2>1, <3>1
  <2>6. CASE StartWipe \/ DeleteEvents \/ DeleteProfiles \/ Crash \/ UNCHANGED vars
    BY <2>1, <2>6 DEF StartWipe, DeleteEvents, DeleteProfiles, Crash, vars, dbVars
  <2> QED
    BY <2>2, <2>3, <2>4, <2>5, <2>6 DEF Next, Step, HandlerStep
<1> QED
  BY <1>1, TypeCorrect, OrderCorrect, PTL DEF Spec, SeverityDropsOnlyWhenStale
==============================================================================
