-------------------------------- MODULE BanSync --------------------------------
(***************************************************************************)
(* Ban enforcement.  The admin panel writes the banned flag of an attacker *)
(* profile, the telemetry service reads the flagged addresses, and the     *)
(* gateway polls them into a set of its own, which the gatekeeper asks.    *)
(*                                                                         *)
(* A poll is a request in flight: telemetry reads the database some time   *)
(* after it left and the gateway hears of it later still, so the answer    *)
(* may be stale when it replaces the set.  Time is counted in ticks: a     *)
(* poll starts every Period and is abandoned after Timeout, and both run   *)
(* out on the tick they are due (they are timers of one event loop).       *)
(***************************************************************************)
EXTENDS Integers, FiniteSets

CONSTANTS
    Ip,              \* attacker addresses
    Period,          \* REFRESH_MS
    Timeout,         \* TELEMETRY_TIMEOUT_MS
    MaxWrites,       \* bound: actions of the admin
    MaxBoots         \* bound: restarts of the gateway

\* A poll is over before the next one starts: 5 s against 15 s.
ASSUME BanAssumption ==
    /\ Period \in Nat /\ Timeout \in Nat
    /\ Timeout < Period
    /\ MaxWrites \in Nat
    /\ MaxBoots \in Nat

VARIABLES
    banned,          \* addresses whose profile says banned: true
    bannedSet,       \* the gateway's copy
    polls,           \* refreshes in flight: their age and what telemetry answered
    due,             \* ticks to the next run of the interval timer
    writes, boots,   \* how often that happened, for the bounds
    steady           \* history: ticks since an address was last written, a poll
                     \* failed or the gateway booted; it stops at Window + 1

banVars == <<banned, bannedSet, polls, due, writes, boots, steady>>

\* How long a ban may go unenforced when every poll succeeds.
Window == Period + Timeout

\* The answer of a poll is a set of no or one list of addresses.
Poll == [age : 0..Timeout, answer : SUBSET SUBSET Ip]
NewPoll == [age |-> 0, answer |-> {}]

BanTypeOK ==
    /\ banned \subseteq Ip
    /\ bannedSet \subseteq Ip
    /\ polls \subseteq Poll
    /\ due \in 0..Period
    /\ writes \in 0..MaxWrites
    /\ boots \in 0..MaxBoots
    /\ steady \in [Ip -> 0..Window + 1]

\* The gatekeeper's question.
isBlacklisted(ip) == ip \in bannedSet

\* startBanRefreshLoop: a refresh at once and the timer, with the set still empty; the
\* server starts to listen without waiting for it.
BanInit ==
    /\ banned \in SUBSET Ip
    /\ bannedSet = {}
    /\ polls = {NewPoll}
    /\ due = Period
    /\ writes = 0
    /\ boots = 0
    /\ steady = [ip \in Ip |-> 0]
------------------------------------------------------------------------------
(***************************************************************************)
(* The admin panel.                                                        *)
(***************************************************************************)
Write(touched) ==
    /\ writes < MaxWrites
    /\ writes' = writes + 1
    /\ steady' = [ip \in Ip |-> IF ip \in touched THEN 0 ELSE steady[ip]]
    /\ UNCHANGED <<bannedSet, polls, due, boots>>

\* POST /api/admin/ban creates the profile if it has to.
Ban(ip) ==
    /\ banned' = banned \cup {ip}
    /\ Write({ip})

\* DELETE /api/admin/ban
Unban(ip) ==
    /\ banned' = banned \ {ip}
    /\ Write({ip})

\* Maintenance deletes every profile, and with them the bans.
WipeProfiles ==
    /\ banned' = {}
    /\ Write(banned)
------------------------------------------------------------------------------
(***************************************************************************)
(* The gateway and the telemetry service.                                  *)
(***************************************************************************)

\* Mutant: a fetch without AbortSignal.timeout.
TickUnbounded ==
    /\ due > 0
    /\ due' = due - 1
    /\ polls' = {[age |-> p.age + 1, answer |-> p.answer] : p \in polls}
    /\ steady' = [ip \in Ip |-> IF steady[ip] > Window THEN steady[ip] ELSE steady[ip] + 1]
    /\ UNCHANGED <<banned, bannedSet, writes, boots>>

Tick ==
    /\ due > 0
    /\ \A p \in polls : p.age < Timeout
    /\ due' = due - 1
    /\ polls' = {[age |-> p.age + 1, answer |-> p.answer] : p \in polls}
    /\ steady' = [ip \in Ip |-> IF steady[ip] > Window THEN steady[ip] ELSE steady[ip] + 1]
    /\ UNCHANGED <<banned, bannedSet, writes, boots>>

\* The interval timer runs refreshBannedSet whether or not an earlier run is over.
StartRefresh ==
    /\ due = 0
    /\ due' = Period
    /\ polls' = polls \cup {NewPoll}
    /\ UNCHANGED <<banned, bannedSet, writes, boots, steady>>

\* Telemetry answers GET /internal/banned-ips from the database.
GetBannedIps(p) ==
    /\ p.answer = {}
    /\ polls' = (polls \ {p}) \cup {[age |-> p.age, answer |-> {banned}]}
    /\ UNCHANGED <<banned, bannedSet, due, writes, boots, steady>>

\* Mutant: the answer is added to the set in place of replacing it.
RefreshBannedSetAdding(p) ==
    /\ \E ips \in p.answer : bannedSet' = bannedSet \cup ips
    /\ polls' = polls \ {p}
    /\ UNCHANGED <<banned, due, writes, boots, steady>>

\* The answer arrives and replaces the set.
RefreshBannedSet(p) ==
    /\ \E ips \in p.answer : bannedSet' = ips
    /\ polls' = polls \ {p}
    /\ UNCHANGED <<banned, due, writes, boots, steady>>

\* Mutant: a refresh that fails leaves an empty list (ips: [] of the 500 answer).
RefreshFailsEmpty(p) ==
    /\ p \in polls
    /\ bannedSet' = {}
    /\ polls' = polls \ {p}
    /\ steady' = [ip \in Ip |-> 0]
    /\ UNCHANGED <<banned, due, writes, boots>>

\* A timeout, a refused connection, a status that is not 2xx, no token: the set stays.
RefreshFails(p) ==
    /\ p \in polls
    /\ polls' = polls \ {p}
    /\ steady' = [ip \in Ip |-> 0]
    /\ UNCHANGED <<banned, bannedSet, due, writes, boots>>

\* The gateway process is replaced.
Reboot ==
    /\ boots < MaxBoots
    /\ boots' = boots + 1
    /\ bannedSet' = {}
    /\ polls' = {NewPoll}
    /\ due' = Period
    /\ steady' = [ip \in Ip |-> 0]
    /\ UNCHANGED <<banned, writes>>
------------------------------------------------------------------------------
PollStep(p) == GetBannedIps(p) \/ RefreshBannedSet(p) \/ RefreshFails(p)

BanNext ==
    \/ \E ip \in Ip : Ban(ip) \/ Unban(ip)
    \/ WipeProfiles
    \/ Tick
    \/ StartRefresh
    \/ \E p \in polls : PollStep(p)
    \/ Reboot

(***************************************************************************)
(* Timers run.  That polls succeed now and then is an assumption about the *)
(* telemetry service and the network, not something the gateway can do.    *)
(***************************************************************************)
Fairness ==
    /\ WF_banVars(Tick)
    /\ WF_banVars(StartRefresh)
    /\ SF_banVars(\E p \in polls : GetBannedIps(p))
    /\ SF_banVars(\E p \in polls : RefreshBannedSet(p))
    /\ WF_banVars(\E p \in polls : RefreshFails(p))

BanSpec == BanInit /\ [][BanNext]_banVars /\ Fairness
------------------------------------------------------------------------------
(***************************************************************************)
(* Properties.                                                             *)
(***************************************************************************)
Agrees(ip) == isBlacklisted(ip) <=> ip \in banned

\* A ban or an unban that has stood for longer than one period and one timeout, with no
\* poll failing and no restart meanwhile, is what the gatekeeper enforces (banService.js).
BanWindow == \A ip \in Ip : steady[ip] > Window => Agrees(ip)

\* Refreshes never overlap, so that an older answer cannot replace a newer one: the
\* timeout of telemetryClient.js is what keeps setInterval from running two at once.
OnePollAtATime == Cardinality(polls) <= 1

\* Once the gateway enforces what the database says of an address and the flag has stood
\* for longer than a poll can last, no late or failed poll undoes it; only a restart or a
\* new write does (refreshBannedSet keeps the old set on error).
AgreementLasts ==
    [][\A ip \in Ip :
         (steady[ip] > Timeout /\ Agrees(ip) /\ boots' = boots /\ writes' = writes)
            => Agrees(ip)']_banVars

\* When the admin is done, the gateway comes to enforce exactly the bans in the database,
\* if telemetry answers a poll again and again, however many fail or get lost in between
\* and however often the gateway restarted (banService.js, startBanRefreshLoop).
BansConverge == <>[](\A ip \in Ip : Agrees(ip))
==============================================================================
