---------------------------- MODULE AttackPipeline ----------------------------
(***************************************************************************)
(* The write path of a trap event, from the gateway that reports it to the *)
(* malicious database, the attacker's profile, the live alert and the ML   *)
(* enrichment.                                                             *)
(*                                                                         *)
(*   gateway     reportAttack: one POST with a 5 s timeout, no retry       *)
(*   telemetry   processAttack: geo, then the profile upsert (not awaited),*)
(*               the event write (awaited), the ML enrichment (not         *)
(*               awaited), the alert, the answer                           *)
(*   ML          the event update, then a profile read and, later, a       *)
(*               profile update built from what was read                   *)
(*   admin       maintenance, which deletes events or profiles at any time,*)
(*               and bans, which create the profile they mark               *)
(*                                                                         *)
(* Each await is a point where the others run, so a handler or a task is a *)
(* sequence of actions, one per piece of code between two awaits.  A write *)
(* is split in two where it matters: it takes effect in the database       *)
(* (SaveLands) before the handler learns of it (Resume).                   *)
(***************************************************************************)
EXTENDS Integers, FiniteSets, FiniteSetsExt

CONSTANTS
    Report,          \* attack reports (each gets an eventID of its own)
    Ip,              \* attacker addresses
    IpOf,            \* the attackerIp of a report
    RiskDelta,       \* 1 + fingerprint.riskScore of a report
    Verdict,         \* the enrichments the ML service may answer
    NoVerdict,       \* an event without mlEnrichment
    NoProfile,       \* an address without an AttackerProfile document
    MaxAdminActs,    \* bound: maintenance requests and bans
    MaxCrashes       \* bound: crashes of the telemetry process

\* Ranks of benign, suspicious and malicious; a field that is not set is Absent,
\* and a threat actor "Unknown" has no confidence worth storing: Absent too.
Severity == 0..2
Absent == -1

ProfileDoc ==
    [risk : Nat, mlRisk : Nat \cup {Absent},
     mlSeverity : Severity \cup {Absent}, actorConfidence : Nat \cup {Absent}]

ASSUME PipelineAssumption ==
    /\ IpOf \in [Report -> Ip]
    /\ RiskDelta \in [Report -> Nat \ {0}]
    /\ Verdict \subseteq
         [riskScore : Nat, severity : Severity, confidence : Nat \cup {Absent}]
    /\ NoVerdict \notin Verdict
    /\ NoProfile \notin ProfileDoc
    /\ MaxAdminActs \in Nat
    /\ MaxCrashes \in Nat

VARIABLES
    tokenSet,        \* the gateway was started with ADMIN_SOCKET_TOKEN
    report,          \* what the gateway knows of a report
    handler,         \* where processAttack is for a report
    upsert,          \* the profile upsert it started
    ml,              \* the enrichment it started
    verdict,         \* the answer the enrichment got from the ML service
    seen,            \* the profile severity the enrichment read
    events,          \* reports whose AttackEvent is in the database
    enriched,        \* mlEnrichment of an event
    profile,         \* AttackerProfile by address
    wiping,          \* collections a maintenance request is still to delete
    adminActs, crashes, \* how often admins and crashes interfered, for the bounds
    \* History, only to state properties:
    saved,           \* reports whose AttackEvent was ever in the database
    alerts,          \* reports broadcast as a liveAlert
    credited,        \* reports the present profile of an address counts
    bannedFirst,     \* addresses whose present profile a ban created
    rolledUp         \* verdicts the present profile of an address has absorbed

gatewayVars == <<tokenSet, report>>
taskVars == <<upsert, ml, verdict, seen>>
dbVars == <<events, enriched, profile, saved, credited, bannedFirst, rolledUp>>
adminVars == <<wiping, adminActs, crashes>>
vars == <<gatewayVars, handler, taskVars, dbVars, adminVars, alerts>>

ReportState == {"idle", "pending", "sent", "failed", "skipped"}
HandlerState == {"none", "transit", "geo", "saving", "saved", "ok", "error", "dead"}
UpsertState == {"idle", "running"}
MlState == {"idle", "calling", "event", "profile", "rollup"}
Collection == {"events", "profiles"}

TypeOK ==
    /\ tokenSet \in BOOLEAN
    /\ report \in [Report -> ReportState]
    /\ handler \in [Report -> HandlerState]
    /\ upsert \in [Report -> UpsertState]
    /\ ml \in [Report -> MlState]
    /\ verdict \in [Report -> Verdict \cup {NoVerdict}]
    /\ seen \in [Report -> Severity \cup {Absent}]
    /\ events \subseteq saved
    /\ saved \subseteq Report
    /\ enriched \in [Report -> Verdict \cup {NoVerdict}]
    /\ profile \in [Ip -> ProfileDoc \cup {NoProfile}]
    /\ wiping \subseteq Collection
    /\ adminActs \in 0..MaxAdminActs
    /\ crashes \in 0..MaxCrashes
    /\ alerts \subseteq Report
    /\ credited \in [Ip -> SUBSET Report]
    /\ bannedFirst \subseteq Ip
    /\ rolledUp \in [Ip -> SUBSET Verdict]

\* An enrichment past its call holds the verdict it will write.
VerdictHeld ==
    \A r \in Report : ml[r] \in {"event", "profile", "rollup"} => verdict[r] \in Verdict

\* The databases may hold documents of earlier runs; those of this run start from none.
Init ==
    /\ tokenSet \in BOOLEAN
    /\ report = [r \in Report |-> "idle"]
    /\ handler = [r \in Report |-> "none"]
    /\ upsert = [r \in Report |-> "idle"]
    /\ ml = [r \in Report |-> "idle"]
    /\ verdict = [r \in Report |-> NoVerdict]
    /\ seen = [r \in Report |-> Absent]
    /\ events = {}
    /\ saved = {}
    /\ enriched = [r \in Report |-> NoVerdict]
    /\ profile = [i \in Ip |-> NoProfile]
    /\ wiping = {}
    /\ adminActs = 0
    /\ crashes = 0
    /\ alerts = {}
    /\ credited = [i \in Ip |-> {}]
    /\ bannedFirst = {}
    /\ rolledUp = [i \in Ip |-> {}]
------------------------------------------------------------------------------
(***************************************************************************)
(* The gateway.                                                            *)
(***************************************************************************)

\* A trap fired: the POST leaves, or there is no token to send it with.
ReportAttack(r) ==
    /\ report[r] = "idle"
    /\ IF tokenSet
         THEN /\ report' = [report EXCEPT ![r] = "pending"]
              /\ handler' = [handler EXCEPT ![r] = "transit"]
         ELSE /\ report' = [report EXCEPT ![r] = "skipped"]
              /\ UNCHANGED handler
    /\ UNCHANGED <<tokenSet, taskVars, dbVars, adminVars, alerts>>

\* Mutant: the status of the handler is kept as it came.
ReplyArrivesRaw(r) ==
    /\ report[r] = "pending"
    /\ handler[r] \in {"ok", "error"}
    /\ report' = [report EXCEPT ![r] = handler[r]]
    /\ UNCHANGED <<tokenSet, handler, taskVars, dbVars, adminVars, alerts>>

\* The answer of the handler arrives in time: 200 is sent, 502 is failed.
ReplyArrives(r) ==
    /\ report[r] = "pending"
    /\ handler[r] \in {"ok", "error"}
    /\ report' = [report EXCEPT ![r] = IF handler[r] = "ok" THEN "sent" ELSE "failed"]
    /\ UNCHANGED <<tokenSet, handler, taskVars, dbVars, adminVars, alerts>>

\* Mutant: without AbortSignal.timeout, only a request that never arrived fails.
GiveUpIfRefused(r) ==
    /\ report[r] = "pending"
    /\ handler[r] = "transit"
    /\ report' = [report EXCEPT ![r] = "failed"]
    /\ UNCHANGED <<tokenSet, handler, taskVars, dbVars, adminVars, alerts>>

\* Five seconds went by, or the connection broke.  The handler is not told.
GiveUp(r) ==
    /\ report[r] = "pending"
    /\ report' = [report EXCEPT ![r] = "failed"]
    /\ UNCHANGED <<tokenSet, handler, taskVars, dbVars, adminVars, alerts>>
------------------------------------------------------------------------------
(***************************************************************************)
(* The telemetry handler.                                                  *)
(***************************************************************************)

\* The request reaches processAttack, or never does (refused, lost, rejected by
\* requireToken).  An aborted request may still arrive.
Arrive(r) ==
    /\ handler[r] = "transit"
    /\ \E to \in {"geo", "dead"} : handler' = [handler EXCEPT ![r] = to]
    /\ UNCHANGED <<gatewayVars, taskVars, dbVars, adminVars, alerts>>

\* Mutant: the alert is not kept back until the event is saved.
GeoResolvedAnnouncing(r) ==
    /\ handler[r] = "geo"
    /\ handler' = [handler EXCEPT ![r] = "saving"]
    /\ upsert' = [upsert EXCEPT ![r] = "running"]
    /\ alerts' = alerts \cup {r}
    /\ UNCHANGED <<gatewayVars, ml, verdict, seen, dbVars, adminVars>>

\* The location is known: the profile upsert starts on its own, the event write begins.
GeoResolved(r) ==
    /\ handler[r] = "geo"
    /\ handler' = [handler EXCEPT ![r] = "saving"]
    /\ upsert' = [upsert EXCEPT ![r] = "running"]
    /\ UNCHANGED <<gatewayVars, ml, verdict, seen, dbVars, adminVars, alerts>>

\* The AttackEvent is in the database; the handler has yet to hear of it.
SaveLands(r) ==
    /\ handler[r] = "saving"
    /\ handler' = [handler EXCEPT ![r] = "saved"]
    /\ events' = events \cup {r}
    /\ saved' = saved \cup {r}
    /\ UNCHANGED <<gatewayVars, taskVars, enriched, profile, credited, bannedFirst,
                   rolledUp, adminVars, alerts>>

\* Mutant: recordEvent swallows its error, so the handler answers 200.
SaveThrowsSilently(r) ==
    /\ handler[r] = "saving"
    /\ handler' = [handler EXCEPT ![r] = "ok"]
    /\ UNCHANGED <<gatewayVars, taskVars, dbVars, adminVars, alerts>>

\* recordEvent throws and the handler answers 502.  The write may have reached the
\* database all the same (the connection broke after it): "failed" proves nothing.
SaveThrows(r) ==
    /\ handler[r] = "saving"
    /\ handler' = [handler EXCEPT ![r] = "error"]
    /\ \E landed \in SUBSET {r} :
         /\ events' = events \cup landed
         /\ saved' = saved \cup landed
    /\ UNCHANGED <<gatewayVars, taskVars, enriched, profile, credited, bannedFirst,
                   rolledUp, adminVars, alerts>>

\* Mutant: no alert for a gateway that has stopped waiting.
ResumeIfAwaited(r) ==
    /\ handler[r] = "saved"
    /\ handler' = [handler EXCEPT ![r] = "ok"]
    /\ ml' = [ml EXCEPT ![r] = "calling"]
    /\ alerts' = IF report[r] = "pending" THEN alerts \cup {r} ELSE alerts
    /\ UNCHANGED <<gatewayVars, upsert, verdict, seen, dbVars, adminVars>>

\* After the await: the enrichment starts on its own, the alert goes out, 200 is sent.
Resume(r) ==
    /\ handler[r] = "saved"
    /\ handler' = [handler EXCEPT ![r] = "ok"]
    /\ ml' = [ml EXCEPT ![r] = "calling"]
    /\ alerts' = alerts \cup {r}
    /\ UNCHANGED <<gatewayVars, upsert, verdict, seen, dbVars, adminVars>>
------------------------------------------------------------------------------
(***************************************************************************)
(* The profile upsert, one atomic findOneAndUpdate after the geo lookup.   *)
(***************************************************************************)

NewProfile(delta) ==
    [risk |-> delta, mlRisk |-> Absent, mlSeverity |-> Absent, actorConfidence |-> Absent]

\* Mutant: $set in place of $inc.
CreditSetting(doc, delta) ==
    IF doc = NoProfile THEN NewProfile(delta) ELSE [doc EXCEPT !.risk = delta]

\* The document after the upsert: $setOnInsert and the defaults, or $inc of the risk.
Credit(doc, delta) ==
    IF doc = NoProfile THEN NewProfile(delta) ELSE [doc EXCEPT !.risk = doc.risk + delta]

UpsertLands(r) ==
    LET ip == IpOf[r] IN
    /\ upsert[r] = "running"
    /\ upsert' = [upsert EXCEPT ![r] = "idle"]
    /\ profile' = [profile EXCEPT ![ip] = Credit(profile[ip], RiskDelta[r])]
    /\ credited' = [credited EXCEPT ![ip] = @ \cup {r}]
    /\ UNCHANGED <<gatewayVars, handler, ml, verdict, seen, events, enriched, saved,
                   bannedFirst, rolledUp, adminVars, alerts>>

\* upsertFromAttackSafe swallows the error: the report is not counted.
UpsertFails(r) ==
    /\ upsert[r] = "running"
    /\ upsert' = [upsert EXCEPT ![r] = "idle"]
    /\ UNCHANGED <<gatewayVars, handler, ml, verdict, seen, dbVars, adminVars, alerts>>
------------------------------------------------------------------------------
(***************************************************************************)
(* The enrichment.                                                         *)
(***************************************************************************)

\* The task is over, and with it what it held.
MlEnds(r) ==
    /\ ml' = [ml EXCEPT ![r] = "idle"]
    /\ verdict' = [verdict EXCEPT ![r] = NoVerdict]
    /\ seen' = [seen EXCEPT ![r] = Absent]

\* The ML service answers within its 8 s.
MlAnswers(r) ==
    /\ ml[r] = "calling"
    /\ ml' = [ml EXCEPT ![r] = "event"]
    /\ \E v \in Verdict : verdict' = [verdict EXCEPT ![r] = v]
    /\ UNCHANGED <<gatewayVars, handler, upsert, seen, dbVars, adminVars, alerts>>

\* A timeout, an error status, enrichment turned off, a database error: enrichEventSafe
\* drops what is left to do and keeps what is done.
MlFails(r) ==
    /\ ml[r] # "idle"
    /\ MlEnds(r)
    /\ UNCHANGED <<gatewayVars, handler, upsert, dbVars, adminVars, alerts>>

\* Mutant: upsert: true on the event.
MlWriteEventUpserting(r) ==
    /\ ml[r] = "event"
    /\ ml' = [ml EXCEPT ![r] = "profile"]
    /\ events' = events \cup {r}
    /\ enriched' = [enriched EXCEPT ![r] = verdict[r]]
    /\ UNCHANGED <<gatewayVars, handler, upsert, verdict, seen, profile, saved, credited,
                   bannedFirst, rolledUp, adminVars, alerts>>

\* updateOne by eventID: nothing to update if the event was deleted meanwhile.
MlWriteEvent(r) ==
    /\ ml[r] = "event"
    /\ ml' = [ml EXCEPT ![r] = "profile"]
    /\ enriched' = IF r \in events THEN [enriched EXCEPT ![r] = verdict[r]] ELSE enriched
    /\ UNCHANGED <<gatewayVars, handler, upsert, verdict, seen, events, profile, saved,
                   credited, bannedFirst, rolledUp, adminVars, alerts>>

MlReadProfile(r) ==
    LET doc == profile[IpOf[r]] IN
    /\ ml[r] = "profile"
    /\ ml' = [ml EXCEPT ![r] = "rollup"]
    /\ seen' = [seen EXCEPT ![r] = IF doc = NoProfile THEN Absent ELSE doc.mlSeverity]
    /\ UNCHANGED <<gatewayVars, handler, upsert, verdict, dbVars, adminVars, alerts>>

Larger(a, b) == IF a >= b THEN a ELSE b

\* Mutant: $set of the risk in place of $max.
RollUpLastRisk(doc, v, readSeverity) ==
    [risk |-> doc.risk,
     mlRisk |-> v.riskScore,
     mlSeverity |-> IF v.severity >= readSeverity THEN v.severity ELSE doc.mlSeverity,
     actorConfidence |-> IF v.confidence # Absent THEN v.confidence ELSE doc.actorConfidence]

\* Mutant: no comparison with the severity that was read.
RollUpUnguarded(doc, v, readSeverity) ==
    [risk |-> doc.risk,
     mlRisk |-> Larger(doc.mlRisk, v.riskScore),
     mlSeverity |-> v.severity,
     actorConfidence |-> IF v.confidence # Absent THEN v.confidence ELSE doc.actorConfidence]

\* The update persistEnrichment builds: $max of the risk, $set of the severity if it is
\* not below the one READ, $set of the actor unless it is Unknown.
RollUp(doc, v, readSeverity) ==
    [risk |-> doc.risk,
     mlRisk |-> Larger(doc.mlRisk, v.riskScore),
     mlSeverity |-> IF v.severity >= readSeverity THEN v.severity ELSE doc.mlSeverity,
     actorConfidence |-> IF v.confidence # Absent THEN v.confidence ELSE doc.actorConfidence]

\* Mutant: upsert: true on the profile.
MlRollUpUpserting(r) ==
    LET ip == IpOf[r] IN
    /\ ml[r] = "rollup"
    /\ MlEnds(r)
    /\ profile' = [profile EXCEPT ![ip] =
                     RollUp(IF @ = NoProfile THEN NewProfile(0) ELSE @, verdict[r], seen[r])]
    /\ rolledUp' = [rolledUp EXCEPT ![ip] = @ \cup {verdict[r]}]
    /\ UNCHANGED <<gatewayVars, handler, upsert, events, enriched, saved, credited,
                   bannedFirst, adminVars, alerts>>

\* updateOne with upsert: false: no profile, no effect.
MlRollUp(r) ==
    LET ip == IpOf[r] IN
    /\ ml[r] = "rollup"
    /\ MlEnds(r)
    /\ IF profile[ip] = NoProfile
         THEN UNCHANGED <<profile, rolledUp>>
         ELSE /\ profile' = [profile EXCEPT ![ip] = RollUp(profile[ip], verdict[r], seen[r])]
              /\ rolledUp' = [rolledUp EXCEPT ![ip] = @ \cup {verdict[r]}]
    /\ UNCHANGED <<gatewayVars, handler, upsert, events, enriched, saved, credited,
                   bannedFirst, adminVars, alerts>>
------------------------------------------------------------------------------
(***************************************************************************)
(* Bans, maintenance and crashes.                                          *)
(***************************************************************************)

\* A ban upserts the profile of an address typed in by an admin: with the defaults, so a
\* risk of 0, if there is none.  (The mark itself is the business of BanSync.)
BanProfile(i) ==
    /\ adminActs < MaxAdminActs
    /\ adminActs' = adminActs + 1
    /\ IF profile[i] = NoProfile
         THEN /\ profile' = [profile EXCEPT ![i] = NewProfile(0)]
              /\ bannedFirst' = bannedFirst \cup {i}
         ELSE UNCHANGED <<profile, bannedFirst>>
    /\ UNCHANGED <<gatewayVars, handler, taskVars, events, enriched, saved, credited,
                   rolledUp, wiping, crashes, alerts>>

\* The collections of the actions "events", "profiles" and "all"; "all" issues its
\* deletes at once and they land in any order, each on its own: one that fails is one
\* that never lands.
Targets == {{"events"}, {"profiles"}, Collection}

StartWipe ==
    /\ wiping = {}
    /\ adminActs < MaxAdminActs
    /\ adminActs' = adminActs + 1
    /\ wiping' \in Targets
    /\ UNCHANGED <<gatewayVars, handler, taskVars, dbVars, crashes, alerts>>

DeleteEvents ==
    /\ "events" \in wiping
    /\ wiping' = wiping \ {"events"}
    /\ events' = {}
    /\ enriched' = [r \in Report |-> NoVerdict]
    /\ UNCHANGED <<gatewayVars, handler, taskVars, profile, saved, credited, bannedFirst,
                   rolledUp, adminActs, crashes, alerts>>

DeleteProfiles ==
    /\ "profiles" \in wiping
    /\ wiping' = wiping \ {"profiles"}
    /\ profile' = [i \in Ip |-> NoProfile]
    /\ credited' = [i \in Ip |-> {}]
    /\ bannedFirst' = {}
    /\ rolledUp' = [i \in Ip |-> {}]
    /\ UNCHANGED <<gatewayVars, handler, taskVars, events, enriched, saved,
                   adminActs, crashes, alerts>>

\* The telemetry process dies and is restarted: handlers and tasks are gone, what they
\* wrote stays.  A request on its way may still reach the new process.
Crash ==
    /\ crashes < MaxCrashes
    /\ crashes' = crashes + 1
    /\ handler' = [r \in Report |->
                     IF handler[r] \in {"geo", "saving", "saved"} THEN "dead" ELSE handler[r]]
    /\ upsert' = [r \in Report |-> "idle"]
    /\ ml' = [r \in Report |-> "idle"]
    /\ verdict' = [r \in Report |-> NoVerdict]
    /\ seen' = [r \in Report |-> Absent]
    /\ UNCHANGED <<gatewayVars, dbVars, wiping, adminActs, alerts>>
------------------------------------------------------------------------------
\* What the handler's own code does once the request is there.
HandlerStep(r) ==
    GeoResolved(r) \/ SaveLands(r) \/ SaveThrows(r) \/ Resume(r)

Step(r) ==
    \/ ReportAttack(r) \/ ReplyArrives(r) \/ GiveUp(r)
    \/ Arrive(r) \/ HandlerStep(r)
    \/ UpsertLands(r) \/ UpsertFails(r)
    \/ MlAnswers(r) \/ MlFails(r) \/ MlWriteEvent(r) \/ MlReadProfile(r) \/ MlRollUp(r)

Next ==
    \/ \E r \in Report : Step(r)
    \/ \E i \in Ip : BanProfile(i)
    \/ StartWipe \/ DeleteEvents \/ DeleteProfiles
    \/ Crash

\* The event loop runs what is ready, a database call returns or throws, and the timer of
\* AbortSignal.timeout fires.  Nothing makes traps fire, admins wipe or processes crash.
Fairness ==
    \A r \in Report : WF_vars(GiveUp(r)) /\ WF_vars(HandlerStep(r))

Spec == Init /\ [][Next]_vars /\ Fairness
------------------------------------------------------------------------------
(***************************************************************************)
(* Properties.                                                             *)
(***************************************************************************)

\* A gateway that was told "sent" reported an event that was persisted and announced.
\* handleAttack answers 502 on a failed write so that there is no false success
\* (routes/internal.js:101-105).
NoFalseSuccess ==
    \A r \in Report : report[r] = "sent" => r \in saved /\ r \in alerts

\* The pipeline logs, announces and acknowledges in this order whatever is lost, late or
\* crashed: processAttack implements the abstract log (routes/internal.js:57-89).
Log == INSTANCE AttackLog WITH
         log <- saved, announced <- alerts,
         acknowledged <- {r \in Report : report[r] = "sent"}
ImplementsAttackLog == Log!Spec

\* A profile's riskScore is the sum over exactly the reports credited to it since it was
\* created: no concurrent upsert is lost or counted twice (AttackerProfileService.js:68-81).
RiskScoreIsSum ==
    \A i \in Ip : profile[i] # NoProfile =>
      profile[i].risk = MapThenSumSet(LAMBDA r : RiskDelta[r], credited[i])

\* A profile exists only because an upsert or a ban created it: an enrichment that is late,
\* or that overtakes the upsert or a wipe, never makes one (mlEnrichmentService.js:106).
ProfileHasOrigin ==
    \A i \in Ip : profile[i] # NoProfile => credited[i] # {} \/ i \in bannedFirst

\* mlRiskScore is the highest score rolled up into the profile, in whatever order the
\* enrichments landed ("Highest ML risk score seen", AttackerProfile.js:44-45).
MlRiskIsHighest ==
    \A i \in Ip : profile[i] # NoProfile /\ rolledUp[i] # {} =>
      profile[i].mlRisk = Max({v.riskScore : v \in rolledUp[i]})

\* The three together: whatever upserts, enrichments, bans, wipes and crashes overlapped, a
\* profile says what the reports behind it add up to.
ProfileMatchesReports == RiskScoreIsSum /\ ProfileHasOrigin /\ MlRiskIsHighest

\* A deleted event never comes back, in part or whole: an enrichment that was under way
\* when maintenance deleted its event writes nothing (mlEnrichmentService.js:64-66).
DeletedStaysDeleted ==
    [][\A r \in Report :
         /\ r \in saved \ events => r \notin events'
         /\ r \notin events' => enriched'[r] = NoVerdict]_vars

\* The severity of a profile goes down only by an update built from a read that another
\* update has since made stale (mlEnrichmentService.js:70-84).
SeverityDropsOnlyWhenStale ==
    [][\A i \in Ip :
         /\ profile[i] # NoProfile
         /\ profile'[i] # NoProfile
         /\ profile'[i].mlSeverity < profile[i].mlSeverity
         => \E r \in Report :
              /\ IpOf[r] = i
              /\ ml[r] = "rollup" /\ ml'[r] = "idle"
              /\ seen[r] # profile[i].mlSeverity]_vars

\* Every report settles: the gateway's request is never stuck behind a telemetry service
\* that crashed, lost it or does not answer (telemetryClient.js:40).
ReportSettles ==
    \A r \in Report : report[r] = "pending" ~> report[r] \in {"sent", "failed"}

\* A handler that persisted an event announces it unless the process dies first, also when
\* the gateway has stopped waiting for it.
PersistedIsAnnounced ==
    \A r \in Report : handler[r] = "saved" ~> r \in alerts \/ handler[r] = "dead"

\* NOT true of the code, see the README: "Worst severity observed" (AttackerProfile.js:46).
SeverityIsWorst ==
    \A i \in Ip : profile[i] # NoProfile /\ rolledUp[i] # {} =>
      profile[i].mlSeverity = Max({v.severity : v \in rolledUp[i]})

\* NOT true of the code, see the README: "Best threat-actor attribution + its
\* confidence" (AttackerProfile.js:50).
AttributionIsBest ==
    \A i \in Ip : profile[i] # NoProfile /\ rolledUp[i] # {} =>
      profile[i].actorConfidence = Max({v.confidence : v \in rolledUp[i]})
==============================================================================
