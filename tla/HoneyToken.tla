------------------------------ MODULE HoneyToken ------------------------------
(***************************************************************************)
(* A stolen bait credential in use: the gateway recognises it, decides how *)
(* to answer, has the use recorded and reports it.                         *)
(*                                                                         *)
(*   gateway     two Maps in memory: the traces whose token_used report is *)
(*               out, and each token's quota of API calls                  *)
(*   telemetry   the HoneyToken documents, one per catalog entry, with     *)
(*               isTriggered and triggeredLogs; seeded when it boots       *)
(*   admin       maintenance, which resets or deletes the documents        *)
(*                                                                         *)
(* A request decides in one step, then waits for recordUsage and for       *)
(* report; other requests run during each wait, and each wait ends by      *)
(* itself after the 5 s timeout, whether or not the call took effect.      *)
(***************************************************************************)
EXTENDS Integers

CONSTANTS
    Req,             \* requests that present a token
    Token,           \* catalog entries
    Trace,           \* attacker_trace_id cookies
    TokenOf,         \* the catalog entry a request's token resolves to
    TraceOf,         \* the trace a request carries
    Limit,           \* RATE_LIMIT
    NoDoc,           \* a catalog entry without a document
    MaxSweeps,       \* bound: documents that maintenance resets or deletes
    MaxCrashes,      \* bound: crashes, of either process
    MaxExpiries      \* bound: quota windows and trace lifetimes that run out

VARIABLES
    pc,              \* where a request is
    action,          \* what its report will say
    tokenUsedByTrace,\* traces whose report is out (the gateway's Map)
    rateByToken,     \* calls counted and 429 noted in the present window
    sent,            \* usage calls that telemetry may still carry out
    doc,             \* HoneyToken documents
    seeding,         \* catalog entries a booting telemetry has yet to plant
    up,              \* telemetry is listening
    sweeps, crashes, expiries,
    \* History, only to state properties:
    reported,        \* token_used reports of a trace since its memory began
    served,          \* API calls of a token in its window that were not limited
    limitLogged,     \* 429 uses of a token logged in its window
    recorded,        \* usage calls that telemetry answered with success
    unplanted        \* catalog entries that a failed seeding left without a document

requestVars == <<pc, action>>
memoryVars == <<tokenUsedByTrace, rateByToken, reported, served, limitLogged>>
bootVars == <<seeding, up, unplanted>>
dbVars == <<sent, doc, recorded>>
boundVars == <<sweeps, crashes, expiries>>
vars == <<requestVars, memoryVars, bootVars, dbVars, boundVars>>

Doc == [isTriggered : BOOLEAN, triggeredLogs : SUBSET Req]
Fresh == [isTriggered |-> FALSE, triggeredLogs |-> {}]
Quota == [count : Nat, notifiedLimit : BOOLEAN]
FullQuota == [count |-> 0, notifiedLimit |-> FALSE]

ASSUME HoneyAssumption ==
    /\ TokenOf \in [Req -> Token]
    /\ TraceOf \in [Req -> Trace]
    /\ NoDoc \notin Doc
    /\ Limit \in Nat /\ MaxSweeps \in Nat /\ MaxCrashes \in Nat /\ MaxExpiries \in Nat

TypeOK ==
    /\ pc \in [Req -> {"idle", "usage", "report", "done", "lost"}]
    /\ action \in [Req -> {"none", "token_used", "api"}]
    /\ tokenUsedByTrace \subseteq Trace
    /\ rateByToken \in [Token -> Quota]
    /\ sent \subseteq Req
    /\ doc \in [Token -> Doc \cup {NoDoc}]
    /\ seeding \subseteq Token
    /\ up \in BOOLEAN
    /\ sweeps \in 0..MaxSweeps
    /\ crashes \in 0..MaxCrashes
    /\ expiries \in 0..MaxExpiries
    /\ reported \in [Trace -> Nat]
    /\ served \in [Token -> Nat]
    /\ limitLogged \in [Token -> Nat]
    /\ recorded \subseteq Req
    /\ unplanted \subseteq Token

\* Telemetry has reached its database and starts to seed.
Init ==
    /\ pc = [r \in Req |-> "idle"]
    /\ action = [r \in Req |-> "none"]
    /\ tokenUsedByTrace = {}
    /\ rateByToken = [t \in Token |-> FullQuota]
    /\ sent = {}
    /\ doc = [t \in Token |-> NoDoc]
    /\ seeding = Token
    /\ up = FALSE
    /\ sweeps = 0 /\ crashes = 0 /\ expiries = 0
    /\ reported = [t \in Trace |-> 0]
    /\ served = [t \in Token |-> 0]
    /\ limitLogged = [t \in Token |-> 0]
    /\ recorded = {}
    /\ unplanted = {}
------------------------------------------------------------------------------
(***************************************************************************)
(* The gateway decides.                                                    *)
(***************************************************************************)

\* The use is to be recorded: the call leaves, or is refused if nobody listens.
Record(r, a) ==
    /\ pc' = [pc EXCEPT ![r] = "usage"]
    /\ action' = [action EXCEPT ![r] = a]
    /\ sent' = IF up THEN sent \cup {r} ELSE sent

\* Nothing to record.
Answer(r) ==
    /\ pc' = [pc EXCEPT ![r] = "done"]
    /\ UNCHANGED <<action, sent>>

\* Mutant: the Map is never asked.
PresentUnasked(r) ==
    /\ pc[r] = "idle"
    /\ Record(r, "token_used")
    /\ UNCHANGED <<memoryVars, bootVars, doc, recorded, boundVars>>

\* decoyReroute, anywhere but on the decoy API: the console, or a redirect to it.
Present(r) ==
    /\ pc[r] = "idle"
    /\ IF TraceOf[r] \in tokenUsedByTrace THEN Answer(r) ELSE Record(r, "token_used")
    /\ UNCHANGED <<memoryVars, bootVars, doc, recorded, boundVars>>

\* The target of that redirect carries token_ack=1: nothing to record.
PresentAcknowledged(r) ==
    /\ pc[r] = "idle"
    /\ Answer(r)
    /\ UNCHANGED <<memoryVars, bootVars, doc, recorded, boundVars>>

\* Mutants: a quota that lets one more through, and one that counts down past zero.
consumeRateInclusive(q) ==
    LET limited == q.count > Limit IN
    [limited |-> limited,
     firstLimited |-> limited /\ ~q.notifiedLimit,
     left |-> [count |-> q.count + 1, notifiedLimit |-> q.notifiedLimit \/ limited]]

consumeRateDown(q) ==
    LET limited == q.count + 1 > Limit IN
    [limited |-> limited,
     firstLimited |-> limited /\ ~q.notifiedLimit,
     left |-> [count |-> q.count - 1, notifiedLimit |-> q.notifiedLimit \/ limited]]

\* One call against a quota: whether it is over it, the first to be, and what is kept.
consumeRate(q) ==
    LET limited == q.count + 1 > Limit IN
    [limited |-> limited,
     firstLimited |-> limited /\ ~q.notifiedLimit,
     left |-> [count |-> q.count + 1, notifiedLimit |-> q.notifiedLimit \/ limited]]

\* The decoy API.  A 200 and a 403 (no scope) are recorded, of the 429s only the first.
CallApi(r) ==
    LET t == TokenOf[r]
        rate == consumeRate(rateByToken[t])
    IN
    /\ pc[r] = "idle"
    /\ rateByToken' = [rateByToken EXCEPT ![t] = rate.left]
    /\ served' = [served EXCEPT ![t] = IF rate.limited THEN @ ELSE @ + 1]
    /\ limitLogged' = [limitLogged EXCEPT ![t] = IF rate.firstLimited THEN @ + 1 ELSE @]
    /\ IF rate.limited /\ ~rate.firstLimited THEN Answer(r) ELSE Record(r, "api")
    /\ UNCHANGED <<tokenUsedByTrace, reported, bootVars, doc, recorded, boundVars>>
------------------------------------------------------------------------------
(***************************************************************************)
(* The gateway carries on after its awaits.                                *)
(***************************************************************************)

\* recordUsage is over, done or failed (its error is swallowed): the report leaves.
UsageSettles(r) ==
    /\ pc[r] = "usage"
    /\ pc' = [pc EXCEPT ![r] = "report"]
    /\ reported' = IF action[r] = "token_used"
                     THEN [reported EXCEPT ![TraceOf[r]] = @ + 1] ELSE reported
    /\ UNCHANGED <<action, tokenUsedByTrace, rateByToken, served, limitLogged, bootVars,
                   dbVars, boundVars>>

\* The report is over, done or failed: a trace is remembered, the request answered.
ReportSettles(r) ==
    /\ pc[r] = "report"
    /\ pc' = [pc EXCEPT ![r] = "done"]
    /\ tokenUsedByTrace' = IF action[r] = "token_used"
                             THEN tokenUsedByTrace \cup {TraceOf[r]} ELSE tokenUsedByTrace
    /\ UNCHANGED <<action, rateByToken, reported, served, limitLogged, bootVars, dbVars,
                   boundVars>>

\* RATE_WINDOW_MS is over: the next call starts a new count.
WindowExpires(t) ==
    /\ expiries < MaxExpiries
    /\ expiries' = expiries + 1
    /\ rateByToken' = [rateByToken EXCEPT ![t] = FullQuota]
    /\ served' = [served EXCEPT ![t] = 0]
    /\ limitLogged' = [limitLogged EXCEPT ![t] = 0]
    /\ UNCHANGED <<requestVars, tokenUsedByTrace, reported, bootVars, dbVars, sweeps, crashes>>

\* TRACE_TTL_MS is over.
TraceExpires(tr) ==
    /\ expiries < MaxExpiries
    /\ tr \in tokenUsedByTrace
    /\ expiries' = expiries + 1
    /\ tokenUsedByTrace' = tokenUsedByTrace \ {tr}
    /\ reported' = [reported EXCEPT ![tr] = 0]
    /\ UNCHANGED <<requestVars, rateByToken, served, limitLogged, bootVars, dbVars,
                   sweeps, crashes>>

\* The gateway dies with its Maps and its requests; calls it made may still land.
GatewayCrash ==
    /\ crashes < MaxCrashes
    /\ crashes' = crashes + 1
    /\ pc' = [r \in Req |-> IF pc[r] \in {"usage", "report"} THEN "lost" ELSE pc[r]]
    /\ tokenUsedByTrace' = {}
    /\ rateByToken' = [t \in Token |-> FullQuota]
    /\ reported' = [t \in Trace |-> 0]
    /\ served' = [t \in Token |-> 0]
    /\ limitLogged' = [t \in Token |-> 0]
    /\ UNCHANGED <<action, bootVars, dbVars, sweeps, expiries>>
------------------------------------------------------------------------------
(***************************************************************************)
(* Telemetry and the database.                                             *)
(***************************************************************************)

\* The honeyTokenService's one updateOne, without upsert: no document, nothing recorded,
\* and the answer is a success all the same.
UsageLands(r) ==
    LET t == TokenOf[r] IN
    /\ r \in sent
    /\ sent' = sent \ {r}
    /\ recorded' = recorded \cup {r}
    /\ doc' = IF doc[t] = NoDoc THEN doc
              ELSE [doc EXCEPT ![t] = [isTriggered |-> TRUE,
                                       triggeredLogs |-> doc[t].triggeredLogs \cup {r}]]
    /\ UNCHANGED <<requestVars, memoryVars, bootVars, boundVars>>

\* The call is lost, or its update throws (500).
UsageDropped(r) ==
    /\ r \in sent
    /\ sent' = sent \ {r}
    /\ UNCHANGED <<requestVars, memoryVars, bootVars, doc, recorded, boundVars>>

\* Telemetry dies and boots again; what it had sent to the database may still land.
TelemetryCrash ==
    /\ crashes < MaxCrashes
    /\ crashes' = crashes + 1
    /\ up' = FALSE
    /\ seeding' = Token
    /\ \E kept \in SUBSET sent : sent' = kept
    /\ UNCHANGED <<requestVars, memoryVars, unplanted, doc, recorded, sweeps, expiries>>

\* Mutant: seeding sets the trigger state too.
SeedOverwriting(t) ==
    /\ t \in seeding
    /\ seeding' = seeding \ {t}
    /\ doc' = [doc EXCEPT ![t] = Fresh]
    /\ UNCHANGED <<requestVars, memoryVars, up, unplanted, sent, recorded, boundVars>>

\* seedCatalog, entry by entry: provenance by $set, trigger state by $setOnInsert.
Seed(t) ==
    /\ t \in seeding
    /\ seeding' = seeding \ {t}
    /\ doc' = IF doc[t] = NoDoc THEN [doc EXCEPT ![t] = Fresh] ELSE doc
    /\ UNCHANGED <<requestVars, memoryVars, up, unplanted, sent, recorded, boundVars>>

\* It throws: the rest of the catalog is left out, the boot goes on.
SeedFails ==
    /\ seeding # {}
    /\ seeding' = {}
    /\ unplanted' = unplanted \cup {t \in seeding : doc[t] = NoDoc}
    /\ UNCHANGED <<requestVars, memoryVars, up, dbVars, boundVars>>

\* Mutant: the server does not wait for seedCatalog.
ListenAtOnce ==
    /\ ~up
    /\ up' = TRUE
    /\ UNCHANGED <<requestVars, memoryVars, seeding, unplanted, dbVars, boundVars>>

\* Only then does the server listen.
Listen ==
    /\ ~up
    /\ seeding = {}
    /\ up' = TRUE
    /\ UNCHANGED <<requestVars, memoryVars, seeding, unplanted, dbVars, boundVars>>

\* Mutant: RESET TOKENS forgets the log.
ResetFlag(t) ==
    /\ sweeps < MaxSweeps
    /\ doc[t] # NoDoc
    /\ sweeps' = sweeps + 1
    /\ doc' = [doc EXCEPT ![t].isTriggered = FALSE]
    /\ UNCHANGED <<requestVars, memoryVars, bootVars, sent, recorded, crashes, expiries>>

\* RESET TOKENS reaches a document: updateMany is atomic for each one only, and may fail
\* half way.
Reset(t) ==
    /\ sweeps < MaxSweeps
    /\ doc[t] # NoDoc
    /\ sweeps' = sweeps + 1
    /\ doc' = [doc EXCEPT ![t] = Fresh]
    /\ UNCHANGED <<requestVars, memoryVars, bootVars, sent, recorded, crashes, expiries>>

\* DELETE TOKENS reaches a document.
Delete(t) ==
    /\ sweeps < MaxSweeps
    /\ sweeps' = sweeps + 1
    /\ doc' = [doc EXCEPT ![t] = NoDoc]
    /\ UNCHANGED <<requestVars, memoryVars, bootVars, sent, recorded, crashes, expiries>>
------------------------------------------------------------------------------
Next ==
    \/ \E r \in Req :
         \/ Present(r) \/ PresentAcknowledged(r) \/ CallApi(r)
         \/ UsageSettles(r) \/ ReportSettles(r)
         \/ UsageLands(r) \/ UsageDropped(r)
    \/ \E t \in Token : WindowExpires(t) \/ Seed(t) \/ Reset(t) \/ Delete(t)
    \/ \E tr \in Trace : TraceExpires(tr)
    \/ GatewayCrash \/ TelemetryCrash \/ SeedFails \/ Listen

Spec == Init /\ [][Next]_vars
------------------------------------------------------------------------------
(***************************************************************************)
(* Properties.                                                             *)
(***************************************************************************)

\* Within one window a token gets at most RATE_LIMIT answers that are not a 429, and at
\* most one 429 is logged, however its calls interleave (honeyTokenFlow.js, consumeRate).
QuotaHolds == \A t \in Token : served[t] <= Limit /\ limitLogged[t] <= 1

\* A token is marked as triggered exactly if there is a use to show for it, through
\* seeding, uses and maintenance in any order (honeyTokenService.js, maintenance/route.ts).
TriggeredIffLogged ==
    \A t \in Token : doc[t] # NoDoc => (doc[t].isTriggered <=> doc[t].triggeredLogs # {})

\* A use that telemetry acknowledged is in the log of its token, as long as maintenance has
\* not run: no use arrives before its document does.  A seeding that throws costs the uses
\* of the entries it left without a document, of which server.js only warns; it costs no
\* entry that was planted before, by this boot or an earlier one.
AcknowledgedUseIsLogged ==
    sweeps = 0 =>
        \A r \in recorded :
            TokenOf[r] \notin unplanted =>
                doc[TokenOf[r]] # NoDoc /\ r \in doc[TokenOf[r]].triggeredLogs

\* Only maintenance takes a document or a use away: "re-seeding never wipes forensic
\* history" (honeyTokenService.js), nor does a crash or a late call.
HistoryKept ==
    [][\A t \in Token :
         (doc[t] # NoDoc /\ sweeps' = sweeps)
            => doc'[t] # NoDoc /\ doc[t].triggeredLogs \subseteq doc'[t].triggeredLogs]_vars

\* Requests of a trace that are past the dedup check and not yet counted.
Pending(tr) == {r \in Req : TraceOf[r] = tr /\ pc[r] = "usage" /\ action[r] = "token_used"}

\* Once a trace is remembered and the requests that raced the first are through, it is not
\* reported again until it is forgotten (decoyReroute.js, shouldReportTokenUsed).
RememberedStaysQuiet ==
    [][\A tr \in Trace :
         (tr \in tokenUsedByTrace /\ Pending(tr) = {} /\ tr \in tokenUsedByTrace')
            => Pending(tr)' = {} /\ reported'[tr] = reported[tr]]_vars

\* "traceId -> first token_used report timestamp (in-process dedup)" (honeyTokenFlow.js):
\* a trace is reported once.  Two requests that pass the check together break it, which
\* RememberedStaysQuiet allows; no run checks it.
TokenUsedOnce == \A tr \in Trace : reported[tr] <= 1
==============================================================================
