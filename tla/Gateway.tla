------------------------------- MODULE Gateway -------------------------------
(***************************************************************************)
(* The deception gateway: a request is checked against the bans, given to  *)
(* a trap or to its route, reported to telemetry and answered, and the     *)
(* client may follow the redirect it got.                                  *)
(*                                                                         *)
(*   req       the request a slot of the server is busy with               *)
(*   attempts  fakeLogin: attempts counted per address, 0 without an entry *)
(*   dumps     sqliDumpRotation: the same for the credential dump          *)
(*   used      traces whose use of a honey token was reported              *)
(*                                                                         *)
(* An action runs from one await to the next: telemetry's answer to a      *)
(* report, a sleep, a timer of a stream.  Whether an address is banned is   *)
(* free (module BanSync), and so is what telemetry says of a key.          *)
(***************************************************************************)
EXTENDS Integers, ClientAddress, Detection

CONSTANTS
    Slot, Client,    \* clients, by their addresses
    Asks,            \* bound: who may ask for what by which way and with which headers that
                     \* name addresses, in each slot
    Bannable,        \* bound: the clients that may be banned
    GRANT_ON, SUSPICIOUS_ON,
    MAX_BYTES, HARD_MAX, LATE,   \* trickle: byte cap; hard limit, and how late a timer may be,
                                 \* in intervals of TRICKLE_INTERVAL_MS
    TOTAL_CHUNKS,    \* data bomb: TOTAL_BYTES in chunks
    ENTRY_DEPTH,     \* segments of the labyrinth's root in originalUrl
    CHECKPOINT_DEPTH, MAX_DEPTH,
    MaxRestarts      \* bound

VARIABLES
    req, attempts, dumps, used, restarts,
    \* History of the redirects that led to a request, only to state properties:
    hops,            \* how many
    silent,          \* how many since the last report
    seen, told       \* the threats met, and whether a report was made

memory == <<attempts, dumps, used>>
chain == <<hops, silent, seen, told>>
vars == <<req, memory, restarts, chain>>

ASSUME GatewayAssumption ==
    /\ Client \subseteq Address /\ Bannable \subseteq Client
    /\ Asks \in [Slot -> SUBSET (Client \X Via \X Request \X Headers)]
    /\ GRANT_ON \in Nat \ {0} /\ SUSPICIOUS_ON \in Nat \ {0}
    /\ {MAX_BYTES, HARD_MAX, LATE, TOTAL_CHUNKS, MaxRestarts} \subseteq Nat
    \* 5, 20 and 2: there is a checkpoint at the cap, and the root lies before it.
    /\ CHECKPOINT_DEPTH \in Nat \ {0, 1} /\ MAX_DEPTH \in Nat
    /\ MAX_DEPTH % CHECKPOINT_DEPTH = 0 /\ ENTRY_DEPTH \in 1..(MAX_DEPTH - 1)

\* Both proxies are on the machine of the gateway or in TRUSTED_PROXY_IPS (docker-compose.yml),
\* and a client on that machine comes by proxies that are there as well.
ASSUME DeploymentAssumption ==
    /\ {NGINX, PANEL} \subseteq Loopback \cup Trusted
    /\ \A s \in Slot : \A ask \in Asks[s] :
         ask[1] \in Loopback => Proxies(ask[2]) \subseteq Loopback

\* The addresses a request may be charged to.
Charged == Address \cup {Unknown}

\* A page, or a redirect to a place of the site with something added to its query.
Page == [to |-> "page", tag |-> "none"]
RedirectTo(p, tag) == [to |-> p, tag |-> tag]
Answer == {Page} \cup [to : Path, tag : Tag]

Event == [type : Trap, secondary : SUBSET Kind, bytes : Nat]

NoRequest == [path |-> "portal", method |-> "GET", scanner |-> FALSE, credentials |-> {},
              parameters |-> {}, token |-> "none", dump |-> FALSE, tag |-> "none"]

\* from: the client, and the addresses its request claims to come from.  turn: the number of
\* this attempt at fakeLogin, 0 if it is none; left: the attempts that its answer says remain;
\* object: the last count of the counter it holds, if that was removed from the map, and 0 if
\* it is still there.
Nobody == [address |-> Unknown, claims |-> {}]

Idle == [at |-> "idle", r |-> NoRequest, from |-> Nobody, ip |-> Unknown, depth |-> 0,
         threat |-> NoThreat, trap |-> "none", answer |-> Page, events |-> <<>>,
         bytes |-> 0, age |-> 0, signals |-> {}, finalized |-> FALSE,
         turn |-> 0, left |-> GRANT_ON, object |-> 0]

Put(s, q) == req' = [req EXCEPT ![s] = q]

\* report(): the event leaves at once; the handler goes on when telemetry answered.
Emitted(q, type) ==
    [q EXCEPT !.events = Append(@, [type |-> type, secondary |-> q.threat.secondary,
                                    bytes |-> q.bytes])]
Report(q, type, answer) == [Emitted(q, type) EXCEPT !.at = "report", !.answer = answer]
Show(q, answer) == [q EXCEPT !.at = "answered", !.answer = answer]
\* A handler sleeps; what it reports and answers then is settled.
Sleep(q, trap, answer) == [q EXCEPT !.at = "sleep", !.trap = trap, !.answer = answer]
------------------------------------------------------------------------------
(***************************************************************************)
(* The traps.                                                              *)
(***************************************************************************)

\* An attempt of address a was counted and is not answered: it sleeps, or is being reported.
Pending(s, a) == req[s].turn # 0 /\ req[s].at \in {"sleep", "report"} /\ req[s].ip = a

\* Mutant: one attempt too many.
fakeLoginLate(s, q) ==
    LET n == attempts[q.ip] + 1 IN
    IF n > GRANT_ON
      THEN /\ attempts' = [attempts EXCEPT ![q.ip] = 0]
           /\ Put(s, Report(q, "BRUTE_FORCE", RedirectTo("console", "breach")))
      ELSE /\ attempts' = [attempts EXCEPT ![q.ip] = n]
           /\ Put(s, Report([q EXCEPT !.left = GRANT_ON - n], "BRUTE_FORCE", Page))

\* fakeLogin: the tenth attempt of an address gets in, every fifth sleeps first.  The answer is
\* made here and sent when its report returned.
fakeLogin(s, q) ==
    LET n == attempts[q.ip] + 1 IN
    IF n >= GRANT_ON
      THEN /\ attempts' = [attempts EXCEPT ![q.ip] = 0]
           /\ req' = [t \in Slot |->
                        IF t = s THEN Report(q, "BRUTE_FORCE", RedirectTo("console", "breach"))
                        ELSE IF Pending(t, q.ip) /\ req[t].object = 0
                          THEN [req[t] EXCEPT !.object = n]
                        ELSE req[t]]
      ELSE /\ attempts' = [attempts EXCEPT ![q.ip] = n]
           /\ LET turn == [q EXCEPT !.turn = n] IN
              Put(s, IF n % SUSPICIOUS_ON = 0 THEN Sleep(turn, "slow", Page)
                     ELSE Report([turn EXCEPT !.left = GRANT_ON - n], "BRUTE_FORCE", Page))

\* Mutant: after the sleep the counter is looked up in the map again.
WakeSlowLookup(s) ==
    LET q == req[s] IN
    /\ q.at = "sleep" /\ q.trap = "slow"
    /\ Put(s, Report([q EXCEPT !.left = GRANT_ON - attempts[q.ip]], "BRUTE_FORCE", Page))
    /\ UNCHANGED <<memory, restarts, chain>>

\* The sleep of a fifth attempt is over: the counter it holds is read again.
WakeSlow(s) ==
    LET q == req[s]
        count == IF q.object = 0 THEN attempts[q.ip] ELSE q.object
    IN
    /\ q.at = "sleep" /\ q.trap = "slow"
    /\ Put(s, Report([q EXCEPT !.left = GRANT_ON - count], "BRUTE_FORCE", Page))
    /\ UNCHANGED <<memory, restarts, chain>>

\* The counters of an address are forgotten an hour after they were last used; an attempt is
\* answered long before that.
Sweep(a) ==
    /\ \/ /\ attempts[a] # 0 /\ \A s \in Slot : ~Pending(s, a)
          /\ attempts' = [attempts EXCEPT ![a] = 0] /\ UNCHANGED dumps
       \/ dumps[a] # 0 /\ dumps' = [dumps EXCEPT ![a] = 0] /\ UNCHANGED attempts
    /\ UNCHANGED <<req, used, restarts, chain>>

\* shouldShowCredentialDump: odd requests get the dump, even ones the tarpit.
\* The counter is kept modulo 2, with 0 for no entry.
handleDatabaseExport(s, q) ==
    LET odd == dumps[q.ip] # 1 IN
    IF q.r.dump \/ q.r.method = "POST"
      THEN /\ dumps' = [dumps EXCEPT ![q.ip] = IF odd THEN 1 ELSE 2]
           /\ Put(s, IF odd THEN Report(q, "SQLI", Page) ELSE Sleep(q, "tarpit", Page))
           /\ UNCHANGED <<attempts, used>>
      ELSE Put(s, Show(q, Page)) /\ UNCHANGED memory

\* infiniteRedirect, up to its sleep: one segment deeper, or back to the root.
serveInfiniteRedirect(q) == Sleep(q, "archives", RedirectTo("archives", "none"))

\* Mutant: at the cap the labyrinth leads nowhere else.
DeeperCapped(depth) == IF depth >= MAX_DEPTH THEN depth ELSE depth + 1

\* The depth of the next redirect: beyond the cap it starts again below the root.
Deeper(depth) == IF depth >= MAX_DEPTH THEN ENTRY_DEPTH + 1 ELSE depth + 1

\* Mutant: the tarpit of a scanner is not reported.
WakeUnreported(s) ==
    LET q == req[s] IN
    /\ q.at = "sleep" /\ q.trap \in {"tarpit", "archives"}
    /\ Put(s, IF q.trap = "archives" /\ q.depth % CHECKPOINT_DEPTH = 0 THEN Report(q, "RECON", q.answer)
              ELSE IF q.threat.type = "SQLI" THEN Report(q, "SQLI", q.answer)
              ELSE Show(q, q.answer))
    /\ UNCHANGED <<memory, restarts, chain>>

\* A tarpit or a redirect of the labyrinth wakes; the latter reports only now and then.
Wake(s) ==
    LET q == req[s] IN
    /\ q.at = "sleep" /\ q.trap \in {"tarpit", "archives"}
    /\ Put(s, IF q.trap = "archives"
                THEN IF q.depth = 1 \/ q.depth % CHECKPOINT_DEPTH = 0
                       THEN Report(q, "RECON", q.answer)
                       ELSE Show(q, q.answer)
              ELSE Report(q, IF q.threat.type = "SCANNER" THEN "SCANNER" ELSE "SQLI", q.answer))
    /\ UNCHANGED <<memory, restarts, chain>>

\* serveDataBomb and the trickle: three events of the connection may end a stream, or two.
Stream(q, trap) ==
    [q EXCEPT !.at = "stream", !.trap = trap,
              !.signals = IF trap = "bomb" THEN {"req close", "res close", "finish"}
                          ELSE {"close", "aborted"}]

\* Mutant: each of the events reports.
finalizeAgain(s, q) == Put(s, [Emitted(q, "DATA_BOMB") EXCEPT !.finalized = TRUE])

\* finalize, finish: only the first call counts.
finalize(s, q) ==
    Put(s, IF q.finalized THEN q ELSE [Emitted(q, "DATA_BOMB") EXCEPT !.finalized = TRUE])

\* Mutant: at the hard limit the timer is not set again, and that is all.
writeOneQuiet(s) ==
    LET q == req[s] IN
    /\ q.at = "stream" /\ q.trap = "trickle" /\ ~q.finalized
    /\ q.bytes < MAX_BYTES /\ q.age < HARD_MAX
    /\ Put(s, [q EXCEPT !.bytes = @ + 1, !.age = @ + 1])
    /\ UNCHANGED <<memory, restarts, chain>>

\* writeOne, whose timer may come late.
writeOne(s) ==
    LET q == req[s] IN
    /\ q.at = "stream" /\ q.trap = "trickle" /\ ~q.finalized
    /\ IF q.bytes >= MAX_BYTES \/ q.age >= HARD_MAX
         THEN finalize(s, q)
         ELSE \E late \in 0..LATE :
                Put(s, [q EXCEPT !.bytes = @ + 1, !.age = @ + 1 + late])
    /\ UNCHANGED <<memory, restarts, chain>>

\* A chunk of the bomb is taken; a client that does not read takes none.
sendChunk(s) ==
    LET q == req[s] IN
    /\ q.at = "stream" /\ q.trap = "bomb" /\ ~q.finalized
    /\ q.bytes < TOTAL_CHUNKS
    /\ Put(s, [q EXCEPT !.bytes = @ + 1])
    /\ UNCHANGED <<memory, restarts, chain>>

\* An event of the connection; "finish" needs the whole body, and the request may close first.
StreamEvent(s, e) ==
    LET q == req[s] IN
    /\ q.at = "stream"
    /\ e \in q.signals
    /\ e = "finish" => q.bytes = TOTAL_CHUNKS
    /\ finalize(s, [q EXCEPT !.signals = @ \ {e}])
    /\ UNCHANGED <<memory, restarts, chain>>

\* Telemetry answered the report of a stream, and the connection is gone.
StreamOver(s) ==
    /\ req[s].at = "stream" /\ req[s].finalized
    /\ Put(s, Idle)
    /\ UNCHANGED <<memory, restarts, chain>>

\* A handler that keeps nothing for the next request.
Handle(s, q) == Put(s, q) /\ UNCHANGED memory

\* The console, which reports unless the visit is announced or a token brought it.
renderAdminDashboard(q) ==
    IF q.threat.type = "HONEY_TOKEN" \/ q.r.tag \in {"breach", "ack"}
      THEN Show(q, Page)
      ELSE Report(q, "RECON", Page)

\* Planted files, the page of integrations, the file viewer, the fetch page.
serveLeak(q) == Report(q, "RECON", Page)
serveHoneyToken(q) == Report(q, "RECON", Page)
renderFileViewer(q) == Report(q, "PATH_TRAVERSAL", Page)
renderFetchStatus(q) == Report(q, "SSRF", Page)

\* The sandbox answers first and reports then.
renderSandboxXSS(q) == Show(Emitted(q, "XSS"), Page)

\* SQL in the sign-in of an employee seems to work.
handoffSqliBypassLogin(q) == Report(q, "SQLI", RedirectTo("legacySignIn", "bypass"))

renderFakeLoginPage(q) ==
    Show(q, IF q.r.tag = "brute" THEN RedirectTo("console", "breach") ELSE Page)

logoutLegacyAdmin(q) == Show(q, RedirectTo("login", "none"))

serveScannerTarpit(q) == Sleep(q, "tarpit", Page)

\* A wrong key at an interface is reported, a missing one is not.
denyUnauthorized(q) ==
    IF q.r.token = "unknown" THEN Report(q, "HONEY_TOKEN", Page) ELSE Show(q, Page)

\* A known key at an interface: its use is recorded and reported, unless it is one more call
\* over the quota (module HoneyToken).
serveHoneyTokenApi(s, q) ==
    Handle(s, [q EXCEPT !.at = "use", !.trap = "token"]) \/ Handle(s, Show(q, Page))

\* A known key elsewhere: the use is recorded, then reported, then remembered.
useHoneyToken(q) ==
    IF q.r.tag = "ack" \/ q.ip \in used
      THEN renderAdminDashboard(q)
      ELSE [q EXCEPT !.at = "use", !.trap = "token",
                     !.answer = IF q.r.path = "console" THEN Page ELSE RedirectTo("console", "ack")]
------------------------------------------------------------------------------
(***************************************************************************)
(* From a request to its handler.                                          *)
(***************************************************************************)

\* The switch over the trap; where the trap has a place of its own, the client is sent there.
decoyReroute(s, q) ==
    LET at(p) == q.r.path = p
        send(p, tag) == Handle(s, Show(q, RedirectTo(p, tag)))
        threat == q.threat.type
    IN
    IF isLeakedArtifactPath(q.r.path) THEN Handle(s, serveLeak(q))
    ELSE CASE threat = "SCANNER" -> Handle(s, serveScannerTarpit(q))
           [] threat = "SQLI" ->
                IF at("database") THEN handleDatabaseExport(s, q)
                ELSE IF at("login") /\ q.r.method = "POST" THEN Handle(s, handoffSqliBypassLogin(q))
                ELSE send("database", "none")
           [] threat = "SSRF" ->
                IF at("fetchStatus") THEN Handle(s, renderFetchStatus(q)) ELSE send("fetchStatus", "url")
           [] threat = "PATH_TRAVERSAL" ->
                IF at("fileViewer") THEN Handle(s, renderFileViewer(q)) ELSE send("fileViewer", "file")
           [] threat = "XSS" -> Handle(s, renderSandboxXSS(q))
           [] threat = "DATA_BOMB" ->
                IF at("database") THEN handleDatabaseExport(s, q) ELSE Handle(s, Stream(q, "bomb"))
           [] threat = "RECON" -> Handle(s, renderAdminDashboard(q))
           [] threat = "HONEY_TOKEN" ->
                IF isHoneyApiPath(q.r.path) THEN serveHoneyTokenApi(s, q)
                ELSE Handle(s, useHoneyToken(q))

\* The routes, for a request nothing was found in; the portal's own are the last.
Route(s, q) ==
    LET at(p) == q.r.path = p IN
    CASE at("console") -> Handle(s, renderAdminDashboard(q))
      [] at("legacySignIn") -> IF q.r.method = "POST" THEN fakeLogin(s, q) /\ UNCHANGED <<dumps, used>>
                               ELSE Handle(s, renderFakeLoginPage(q))
      [] at("database") -> handleDatabaseExport(s, q)
      [] at("archiveExport") -> Handle(s, Stream(q, "bomb"))
      [] at("apiKeys") -> Handle(s, serveHoneyToken(q))
      [] isHoneyApiPath(q.r.path) -> Handle(s, denyUnauthorized(q))
      [] at("fileViewer") -> Handle(s, renderFileViewer(q))
      [] at("fetchStatus") -> Handle(s, renderFetchStatus(q))
      [] at("archives") -> Handle(s, serveInfiniteRedirect(q))
      [] at("signOut") -> Handle(s, logoutLegacyAdmin(q))
      [] OTHER -> Handle(s, Show(q, Page))

\* An address that is banned gets the trickle, and everybody else what was found in the request.
gatekeeper(s, q) ==
    LET found == [q EXCEPT !.threat = threatInfo(q.r)] IN
    \/ q.ip \in Bannable /\ Handle(s, Stream(q, "trickle"))
    \/ IF found.threat = NoThreat THEN Route(s, found) ELSE decoyReroute(s, found)

\* honeyTokenDetector: a key that is not in the catalog is asked of telemetry.
honeyTokenDetector(s, r, from, ip, depth) ==
    LET q == [Idle EXCEPT !.at = "check", !.r = r, !.from = from, !.ip = ip, !.depth = depth] IN
    IF r.token = "unknown" THEN Put(s, q) /\ UNCHANGED memory ELSE gatekeeper(s, q)

\* A client may enter the labyrinth at any depth; bound: one beyond the cap.
Depths(r) == IF r.path = "archives" THEN ENTRY_DEPTH..(MAX_DEPTH + 1) ELSE {ENTRY_DEPTH}

\* A client asks for something, by some way, with headers of its own that name addresses.
Arrive(s, c, via, r, own) ==
    /\ req[s].at = "idle"
    /\ \E depth \in Depths(r) :
         honeyTokenDetector(s, r, [address |-> c, claims |-> Claims(c, via, own)],
                            resolveAttackerIp(Received(c, via, own)), depth)
    /\ hops' = [hops EXCEPT ![s] = 0] /\ silent' = [silent EXCEPT ![s] = 0]
    /\ seen' = [seen EXCEPT ![s] = {}] /\ told' = [told EXCEPT ![s] = FALSE]
    /\ UNCHANGED restarts

\* The file or URL a redirect adds to the query: that of the request, with what was in it,
\* or the one the trap makes up, also when the query had only the other of the two.
Example(tag) == IF tag = "file" THEN {"PATH_TRAVERSAL"} ELSE {"SSRF"}

Kept(q) ==
    IF q.answer.tag \notin {"file", "url"} THEN {{}}
    ELSE {Example(q.answer.tag)} \cup (IF q.r.tag \in {"file", "url"} THEN {} ELSE SUBSET q.r.parameters)

\* What a client sends that follows a redirect, its key again or not.
Followed(q, kept, token) ==
    [q.r EXCEPT !.path = q.answer.to, !.method = "GET", !.tag = q.answer.tag,
                !.credentials = {}, !.dump = FALSE, !.token = token, !.parameters = kept]

\* It does so by the same way and with the same headers.
Follow(s) ==
    LET q == req[s] IN
    /\ q.at = "answered" /\ q.answer # Page
    /\ \E token \in {q.r.token, "none"}, kept \in Kept(q) :
         honeyTokenDetector(s, Followed(q, kept, token), q.from, q.ip,
                            IF q.answer.to = "archives" THEN Deeper(q.depth) ELSE q.depth)
    /\ hops' = [hops EXCEPT ![s] = IF q.answer.to = "archives" THEN 0 ELSE @ + 1]
    /\ silent' = [silent EXCEPT ![s] = IF q.events = <<>> THEN @ + 1 ELSE 0]
    /\ seen' = [seen EXCEPT ![s] = @ \cup {q.threat.type}]
    /\ told' = [told EXCEPT ![s] = @ \/ q.events # <<>>]
    /\ UNCHANGED restarts

\* It reads the answer, or does not, and goes.
Leave(s) ==
    /\ req[s].at = "answered"
    /\ Put(s, Idle)
    /\ UNCHANGED <<memory, restarts, chain>>

\* Telemetry knows the key, of a catalog it was seeded with, or does not, or does not answer.
CheckReturns(s) ==
    /\ req[s].at = "check"
    /\ \E token \in {"known", "unknown"} : gatekeeper(s, [req[s] EXCEPT !.r.token = token])
    /\ UNCHANGED <<restarts, chain>>

\* recordUsage returned; the use is reported.
UseReturns(s) ==
    /\ req[s].at = "use"
    /\ Put(s, Report(req[s], "HONEY_TOKEN", req[s].answer))
    /\ UNCHANGED <<memory, restarts, chain>>

\* report() returned: it never throws, and gives telemetry five seconds.
ReportReturns(s) ==
    LET q == req[s] IN
    /\ q.at = "report"
    /\ Put(s, Show(q, q.answer))
    /\ used' = IF q.trap = "token" /\ ~isHoneyApiPath(q.r.path) THEN used \cup {q.ip} ELSE used
    /\ UNCHANGED <<attempts, dumps, restarts, chain>>

\* The gateway restarts: what it had in memory is gone, and so are the requests.
Restart ==
    /\ restarts < MaxRestarts
    /\ restarts' = restarts + 1
    /\ req' = [s \in Slot |-> Idle]
    /\ attempts' = [a \in Charged |-> 0] /\ dumps' = [a \in Charged |-> 0] /\ used' = {}
    /\ UNCHANGED chain
------------------------------------------------------------------------------
Init ==
    /\ req = [s \in Slot |-> Idle]
    /\ attempts = [a \in Charged |-> 0] /\ dumps = [a \in Charged |-> 0] /\ used = {}
    /\ restarts = 0
    /\ hops = [s \in Slot |-> 0] /\ silent = [s \in Slot |-> 0]
    /\ seen = [s \in Slot |-> {}] /\ told = [s \in Slot |-> FALSE]

Serve(s) ==
    \/ CheckReturns(s) \/ UseReturns(s) \/ ReportReturns(s)
    \/ WakeSlow(s) \/ Wake(s) \/ writeOne(s)

Next ==
    \/ \E s \in Slot :
         \/ Serve(s) \/ sendChunk(s) \/ StreamOver(s) \/ Follow(s) \/ Leave(s)
         \/ \E e \in {"close", "aborted", "req close", "res close", "finish"} : StreamEvent(s, e)
         \/ \E a \in Asks[s] : Arrive(s, a[1], a[2], a[3], a[4])
    \/ \E a \in Charged : Sweep(a)
    \/ Restart

\* Timers come, and telemetry answers or is given up; nothing is assumed of clients.
Spec == Init /\ [][Next]_vars /\ \A s \in Slot : WF_vars(Serve(s))
------------------------------------------------------------------------------
(***************************************************************************)
(* Properties.                                                             *)
(***************************************************************************)
Sender == [address : Charged, claims : SUBSET Address]

Task ==
    [at : {"idle", "check", "use", "sleep", "report", "stream", "answered"},
     r : Request, from : Sender, ip : Charged, depth : Nat,
     threat : [type : Trap \cup {"none"}, secondary : SUBSET Kind],
     trap : {"none", "slow", "tarpit", "archives", "bomb", "trickle", "token"},
     answer : Answer, events : Seq(Event), bytes : Nat, age : Nat,
     signals : SUBSET {"close", "aborted", "req close", "res close", "finish"},
     finalized : BOOLEAN, turn : 0..(GRANT_ON - 1), left : 0..GRANT_ON, object : 0..GRANT_ON]

TypeOK ==
    /\ req \in [Slot -> Task]
    /\ attempts \in [Charged -> 0..(GRANT_ON - 1)] /\ dumps \in [Charged -> 0..2]
    /\ used \subseteq Charged /\ restarts \in 0..MaxRestarts
    /\ hops \in [Slot -> Nat] /\ silent \in [Slot -> Nat]
    /\ seen \in [Slot -> SUBSET (Trap \cup {"none"})] /\ told \in [Slot -> BOOLEAN]

\* A request is charged to the client that sent it, straight or through the panel, nginx or
\* both, or to an address it named for itself where that is believed, but never to a proxy: who
\* names nobody, and who comes straight from a machine that is trusted with no header, is
\* found again by a ban and by the counters of the traps (clientIpCore.js,
\* forwardGatewayClientIp.ts).
ChargedToSender ==
    \A s \in Slot : req[s].ip = req[s].from.address \/ req[s].ip \in req[s].from.claims

\* A stream reports once, whichever of its events come and in which order, and what it
\* reports are the bytes it sent; the trickle stops at the hard limit, with a byte per
\* interval at most (dataBomb.js, httpTrickle.js).
StreamReportsOnce ==
    \A s \in Slot : req[s].at = "stream" =>
        /\ Len(req[s].events) = IF req[s].finalized THEN 1 ELSE 0
        /\ req[s].finalized => req[s].events[1].bytes = req[s].bytes
        /\ req[s].trap = "trickle" => req[s].bytes <= HARD_MAX

\* Until the answer of a failed attempt goes, and that is up to five seconds after it was made,
\* it does not promise an attempt that this one used up, and it does not take away one that is
\* left, however many others were counted meanwhile; only if the address was let in meanwhile
\* may it have more attempts than the answer says (fakeLogin.js:41-59, 95-126).
CountdownHonest ==
    \A s \in Slot : LET q == req[s] IN
        q.turn # 0 /\ q.at = "report" =>
            /\ q.left <= GRANT_ON - q.turn
            /\ q.left >= GRANT_ON - attempts[q.ip] \/ q.object # 0

\* Nobody is sent around for nothing: the redirects of the traps end after three, whatever
\* telemetry finds out about a key on the way, and those of the labyrinth, which do not, are
\* reported every CHECKPOINT_DEPTH (decoyReroute.js, infiniteRedirect.js).
RedirectsLead == \A s \in Slot : hops[s] <= 3 /\ silent[s] <= CHECKPOINT_DEPTH

\* What was found in a request and in those that redirects led to it from.
Found(s) == seen[s] \cup {req[s].threat.type}

\* The client has its page, and nothing was reported.
SilentPage(s) ==
    req[s].at = "answered" /\ req[s].answer = Page /\ ~told[s] /\ req[s].events = <<>>

\* A threat of these kinds is in the log when the client has its page, wherever redirects led
\* it, but for two ways out of the trap it belongs to: SQL in what the redirect took along,
\* and a key, of a trace whose use of one is in the log already, that telemetry came to know
\* meanwhile (decoyReroute.js, decoyController.js).
AttackIsLogged ==
    \A s \in Slot : SilentPage(s) =>
        \/ Found(s) \cap {"SCANNER", "SSRF", "PATH_TRAVERSAL", "XSS"} = {}
        \/ "SQLI" \in Found(s)
        \/ req[s].threat.type = "HONEY_TOKEN" /\ req[s].ip \in used

\* The same for every kind, as the README of the gateway has it: "It reports every attack to
\* the telemetry service" (src/services/innotech-gateway/README.md:7-8).
EveryAttackIsLogged == \A s \in Slot : SilentPage(s) => Found(s) \cap Kind = {}

\* Whatever trap it is in, a request is answered; only a bomb lasts as long as its client
\* likes (tarpit.js, fakeLogin.js, httpTrickle.js, telemetryClient.js).
Waiting(s) == \/ req[s].at \in {"check", "use", "sleep", "report"}
              \/ req[s].at = "stream" /\ req[s].trap = "trickle" /\ ~req[s].finalized

Answered == \A s \in Slot : Waiting(s) ~> ~Waiting(s)
==============================================================================
