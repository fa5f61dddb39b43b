------------------------------ MODULE GeoLookup ------------------------------
(***************************************************************************)
(* Where an attacker is: the lookup the telemetry service makes for every  *)
(* attack before it saves the event, and what the attacker's profile makes *)
(* of the answer.                                                          *)
(*                                                                         *)
(*   cache     the answers kept, a Map: bounded, and in order of insertion *)
(*   inFlight  for an address, the request whose lookup others join        *)
(*   req       the attack requests                                         *)
(*   profile   the profiles' place, in the database                        *)
(*   script    the backfill script, a process of its own                   *)
(*                                                                         *)
(* What runs between two awaits is one step; the two online services, the  *)
(* clock and the writes of the database come between.  A restart loses     *)
(* everything but the profiles: it begins a behaviour with those it finds. *)
(***************************************************************************)
EXTENDS GeoAnswer, FiniteSets

CONSTANTS
    Ip,
    Private,                \* the private addresses
    Offline,                \* Offline[ip]: the record of the offline database, or NoGeo
    Attack,                 \* requests in hand
    Said,                   \* what an online service may say
    CACHE_TTL, NEGATIVE_CACHE_TTL,   \* in ticks of the clock
    MAX_CACHE_SIZE,
    Stored,                 \* the profiles that earlier runs of the service may have left
    NoEntry, NoDoc, Nobody, NoIp

VARIABLES
    booting,        \* "ipwho", "ipapi": being asked for the egress; "listening"
    lanEgressGeo,
    cache,
    before,         \* <<i, j>>: the entry of i was inserted before that of j
    inFlight,
    req,
    profile,
    script

cacheVars == <<cache, before, inFlight>>
bootVars == <<booting, lanEgressGeo>>
vars == <<bootVars, cacheVars, req, profile, script>>

Entry == [geo : Geo, age : 0..CACHE_TTL + 1, ttl : {CACHE_TTL, NEGATIVE_CACHE_TTL}]
Doc == Geo
\* on: the request whose promise this one awaits, itself when it makes the lookup.
Request == [at : {"idle", "ipwho", "ipapi", "joined", "upsert"}, ip : Ip \cup {NoIp},
            on : Attack \cup {Nobody}, geo : Geo \cup {NoGeo}]
\* The script: the addresses still to do, and what it is about to write.
Script == [todo : SUBSET Ip, ip : Ip \cup {NoIp}, geo : Geo \cup {NoGeo}]

\* Without a place on the map there are no coordinates.
CityAndPoint(doc) == doc.city \in {"Unknown", "LAN / Local"} => doc.coords = "none"

ASSUME GeoAssumption ==
    /\ Private \subseteq Ip
    /\ Said \subseteq Reply
    /\ Offline \in [Ip -> Reply \cup {NoGeo}]
    /\ Stored \subseteq [Ip -> Doc \cup {NoDoc}]
    /\ \A db \in Stored, ip \in Ip : db[ip] # NoDoc => CityAndPoint(db[ip])
    /\ CACHE_TTL \in Nat /\ NEGATIVE_CACHE_TTL \in 0..CACHE_TTL
    /\ MAX_CACHE_SIZE \in Nat \ {0}
    /\ GEO_PRIVATE_CITY \in BOOLEAN
    /\ NoEntry \notin Entry /\ NoDoc \notin Doc /\ NoGeo \notin Geo \cup Reply
    /\ Nobody \notin Attack /\ NoIp \notin Ip

TypeOK ==
    /\ booting \in {"ipwho", "ipapi", "listening"}
    /\ lanEgressGeo \in Geo \cup {NoGeo}
    /\ cache \in [Ip -> Entry \cup {NoEntry}]
    /\ before \subseteq Ip \X Ip
    /\ inFlight \in [Ip -> Attack \cup {Nobody}]
    /\ req \in [Attack -> Request]
    /\ profile \in [Ip -> Doc \cup {NoDoc}]
    /\ script \in Script

Idle == [at |-> "idle", ip |-> NoIp, on |-> Nobody, geo |-> NoGeo]
Rest == [todo |-> {}, ip |-> NoIp, geo |-> NoGeo]

Init ==
    /\ booting = "ipwho" /\ lanEgressGeo = NoGeo
    /\ cache = [i \in Ip |-> NoEntry] /\ before = {}
    /\ inFlight = [i \in Ip |-> Nobody]
    /\ req = [a \in Attack |-> Idle]
    /\ profile \in Stored
    /\ script = Rest

-----------------------------------------------------------------------------
(* The cache. *)

Keys == {i \in Ip : cache[i] # NoEntry}

isFresh(entry) == entry.age <= entry.ttl

\* readCache: the answer kept for ip, unless it is too old ...
readCache(ip) ==
    IF ip \in Keys /\ isFresh(cache[ip]) THEN cache[ip].geo ELSE NoGeo

\* ... and then it is dropped.
Dropped(ip) == [cache EXCEPT ![ip] = NoEntry]
DroppedOrder(ip) == {p \in before : ip \notin {p[1], p[2]}}

NewEntry(geo) ==
    [geo |-> geo, age |-> 0,
     ttl |-> IF geo.city = "Unknown" THEN NEGATIVE_CACHE_TTL ELSE CACHE_TTL]

\* evictCacheIfNeeded: of the keys in this order, the youngest that fit.
Kept(keys, order) ==
    {i \in keys : Cardinality({j \in keys : <<i, j>> \in order}) < MAX_CACHE_SIZE}

\* Map.set: a key that is there keeps its place, a new one comes last.
writeCache(c, order, ip, geo) ==
    LET keys == {i \in Ip : c[i] # NoEntry} \cup {ip}
        set == [c EXCEPT ![ip] = NewEntry(geo)]
        after == IF c[ip] # NoEntry THEN order ELSE order \cup ((keys \ {ip}) \X {ip})
        kept == Kept(keys, after)
    IN /\ cache' = [i \in Ip |-> IF i \in kept THEN set[i] ELSE NoEntry]
       /\ before' = after \cap (kept \X kept)

-----------------------------------------------------------------------------
(* Before the server listens, it asks where its own public address is. *)

clearGeoCache ==
    /\ cache' = [i \in Ip |-> NoEntry] /\ before' = {}
    /\ inFlight' = [i \in Ip |-> Nobody]

Found(geo) == lanEgressGeo' = geo /\ booting' = "listening" /\ clearGeoCache

\* Half a second after the first service failed, the second is asked; when that fails too,
\* the host is taken to be in Tel Aviv.
initLanEgressGeo ==
    /\ \E data \in Said :
         \/ /\ booting = "ipwho" /\ fromIpWhoPayload(data) # NoGeo
            /\ Found(fromIpWhoPayload(data))
         \/ /\ booting = "ipwho" /\ fromIpWhoPayload(data) = NoGeo
            /\ booting' = "ipapi"
            /\ UNCHANGED <<lanEgressGeo, cacheVars>>
         \/ /\ booting = "ipapi" /\ fromIpApiPayload(data) # NoGeo
            /\ Found(fromIpApiPayload(data))
         \/ /\ booting = "ipapi" /\ fromIpApiPayload(data) = NoGeo
            /\ lanEgressGeo' = ISRAEL_FALLBACK /\ booting' = "listening"
            /\ UNCHANGED cacheVars
    /\ UNCHANGED <<req, profile, script>>

-----------------------------------------------------------------------------
(* A request. *)

\* The event gets the answer, and the profile what the event says, or, when that is
\* Unknown, what the cache says at that moment, which is the same answer.
Answered(r, geo) ==
    LET told == geoFromAttackData(applyGeoToPayload(geo))
    IN [Idle EXCEPT !.at = "upsert", !.ip = r.ip, !.geo = IF told = NoGeo THEN geo ELSE told]

\* Mutant: requests are served before the host knows where it is.
AskingEarly(a, ip) == /\ req[a] = Idle
                      /\ UNCHANGED <<bootVars, profile, script>>

Asking(a, ip) == /\ booting = "listening"
                 /\ req[a] = Idle
                 /\ UNCHANGED <<bootVars, profile, script>>

\* What is known without asking anybody.
Known(ip) == IF ip \in Private THEN privateLanGeo(lanEgressGeo) ELSE fromGeoipLite(Offline[ip])

\* The address is in the cache.
Hit(a, ip) ==
    /\ Asking(a, ip)
    /\ readCache(ip) # NoGeo
    /\ req' = [req EXCEPT ![a] = Answered([Idle EXCEPT !.ip = ip], readCache(ip))]
    /\ UNCHANGED cacheVars

\* Somebody is looking it up: wait for his answer.
Join(a, ip) ==
    /\ Asking(a, ip)
    /\ readCache(ip) = NoGeo /\ inFlight[ip] # Nobody
    /\ req' = [req EXCEPT ![a] = [Idle EXCEPT !.at = "joined", !.ip = ip, !.on = inFlight[ip]]]
    /\ cache' = Dropped(ip) /\ before' = DroppedOrder(ip)
    /\ UNCHANGED inFlight

\* It can be told at once.
Local(a, ip) ==
    /\ Asking(a, ip)
    /\ readCache(ip) = NoGeo /\ inFlight[ip] = Nobody /\ Known(ip) # NoGeo
    /\ req' = [req EXCEPT ![a] = Answered([Idle EXCEPT !.ip = ip], Known(ip))]
    /\ writeCache(Dropped(ip), DroppedOrder(ip), ip, Known(ip))
    /\ UNCHANGED inFlight

\* Mutant: an address is looked up again while its lookup is under way.
LeadRegardless(a, ip) ==
    /\ Asking(a, ip)
    /\ readCache(ip) = NoGeo /\ Known(ip) = NoGeo
    /\ req' = [req EXCEPT ![a] = [Idle EXCEPT !.at = "ipwho", !.ip = ip, !.on = a]]
    /\ inFlight' = [inFlight EXCEPT ![ip] = a]
    /\ cache' = Dropped(ip) /\ before' = DroppedOrder(ip)

\* Look it up, and let others join.
Lead(a, ip) ==
    /\ Asking(a, ip)
    /\ readCache(ip) = NoGeo /\ inFlight[ip] = Nobody /\ Known(ip) = NoGeo
    /\ req' = [req EXCEPT ![a] = [Idle EXCEPT !.at = "ipwho", !.ip = ip, !.on = a]]
    /\ inFlight' = [inFlight EXCEPT ![ip] = a]
    /\ cache' = Dropped(ip) /\ before' = DroppedOrder(ip)

resolveIpGeo(a, ip) == Hit(a, ip) \/ Join(a, ip) \/ Local(a, ip) \/ Lead(a, ip)

\* Mutant: those who wait are forgotten.
SettleAlone(a, geo) ==
    /\ writeCache(cache, before, req[a].ip, geo)
    /\ inFlight' = [inFlight EXCEPT ![req[a].ip] = Nobody]
    /\ req' = [req EXCEPT ![a] = Answered(req[a], geo)]

\* The lookup of a is over: the answer is kept, everybody who waits gets it, and the
\* promise is forgotten (finally).
Settle(a, geo) ==
    /\ writeCache(cache, before, req[a].ip, geo)
    /\ inFlight' = [inFlight EXCEPT ![req[a].ip] = Nobody]
    /\ req' = [b \in Attack |-> IF req[b].on = a THEN Answered(req[b], geo) ELSE req[b]]

\* The first service answers, or four seconds pass.
ipWhoEnds(a) ==
    /\ req[a].at = "ipwho"
    /\ \E data \in Said :
         \/ /\ fromIpWhoPayload(data) # NoGeo
            /\ Settle(a, fromIpWhoPayload(data))
         \/ /\ fromIpWhoPayload(data) = NoGeo
            /\ req' = [req EXCEPT ![a] = [req[a] EXCEPT !.at = "ipapi"]]
            /\ UNCHANGED cacheVars
    /\ UNCHANGED <<bootVars, profile, script>>

\* The second one: an error is caught, and without an answer the place is Unknown.
ipApiEnds(a) ==
    /\ req[a].at = "ipapi"
    /\ \E data \in Said :
         LET geo == fromIpApiPayload(data)
         IN Settle(a, IF geo = NoGeo THEN UnknownGeo ELSE geo)
    /\ UNCHANGED <<bootVars, profile, script>>

lookupOnline(a) == ipWhoEnds(a) \/ ipApiEnds(a)

\* What the profile was, for the fields an update does not set.
Old(ip) == IF profile[ip] = NoDoc THEN UnknownGeo ELSE profile[ip]

\* The profile is written, or the database fails, which is logged and forgotten.
upsertFromAttack(a) ==
    /\ req[a].at = "upsert"
    /\ req' = [req EXCEPT ![a] = Idle]
    /\ \/ profile' = [profile EXCEPT ![req[a].ip] = applyGeoFields(Old(req[a].ip), req[a].geo)]
       \/ UNCHANGED profile
    /\ UNCHANGED <<bootVars, cacheVars, script>>

\* Time passes: no lookup takes as long as a tick, but ticks come at any moment.
Tick ==
    /\ cache' = [i \in Ip |->
         IF i \in Keys /\ cache[i].age <= CACHE_TTL THEN [cache[i] EXCEPT !.age = cache[i].age + 1]
         ELSE cache[i]]
    /\ cache' # cache
    /\ UNCHANGED <<bootVars, before, inFlight, req, profile, script>>

-----------------------------------------------------------------------------
(* The script.  It runs with a cache of its own, and without an egress. *)

BackfillStart ==
    /\ script = Rest
    /\ script' = [Rest EXCEPT !.todo = {i \in Ip : profile[i] # NoDoc /\ Missing(profile[i])}]
    /\ script'.todo # {}
    /\ UNCHANGED <<bootVars, cacheVars, req, profile>>

\* All that a lookup may come to; an error counts as Unknown.
ScriptAnswers(ip) ==
    LET known == IF ip \in Private THEN privateLanGeo(NoGeo) ELSE fromGeoipLite(Offline[ip])
        online == {fromIpWhoPayload(d) : d \in Said} \cup {fromIpApiPayload(d) : d \in Said}
    IN IF known # NoGeo THEN {known} ELSE (online \ {NoGeo}) \cup {UnknownGeo}

\* The next address is looked up; one that stays Unknown is skipped.
BackfillLookup ==
    /\ script.ip = NoIp
    /\ \E ip \in script.todo : \E geo \in ScriptAnswers(ip) :
         script' = [todo |-> script.todo \ {ip},
                    ip |-> IF geo.city = "Unknown" THEN NoIp ELSE ip,
                    geo |-> IF geo.city = "Unknown" THEN NoGeo ELSE geo]
    /\ UNCHANGED <<bootVars, cacheVars, req, profile>>

\* updateOne sets the fields, those without a value excepted, whatever happened since.
BackfillWrite ==
    /\ script.ip # NoIp
    /\ profile' = [profile EXCEPT ![script.ip] = applyGeoFields(Old(script.ip), script.geo)]
    /\ script' = [script EXCEPT !.ip = NoIp, !.geo = NoGeo]
    /\ UNCHANGED <<bootVars, cacheVars, req>>

Backfill == BackfillStart \/ BackfillLookup \/ BackfillWrite

-----------------------------------------------------------------------------
Next ==
    \/ initLanEgressGeo
    \/ \E a \in Attack :
         \/ \E ip \in Ip : resolveIpGeo(a, ip)
         \/ lookupOnline(a)
         \/ upsertFromAttack(a)
    \/ Tick
    \/ Backfill

\* Every fetch has a timeout.
Spec == Init /\ [][Next]_vars /\ \A a \in Attack : WF_vars(lookupOnline(a))

-----------------------------------------------------------------------------
(* Properties. *)

\* Two requests never look the same address up at the same time, and nobody looks up what
\* the cache holds.
OneLookup ==
    \A a \in Attack : req[a].at \in {"ipwho", "ipapi"} =>
        /\ inFlight[req[a].ip] = a
        /\ cache[req[a].ip] = NoEntry

\* The order of insertion is the order of age, so what is evicted is the oldest answer:
\* an entry is never renewed in its old place.
CacheInOrder == \A p \in before :
    /\ p[1] \in Keys /\ p[2] \in Keys
    /\ cache[p[1]].age >= cache[p[2]].age

\* A private address is always placed where this host is: no answer from before the host
\* knew is kept for six hours.
LanPlaced == \A ip \in Private \cap Keys : cache[ip].geo = lanEgressGeo

\* A profile without a place on the map has no coordinates left over from another answer,
\* whoever wrote it, the requests or the script, and in whatever order.
CityAndPointAgree ==
    \A ip \in Ip : profile[ip] # NoDoc => CityAndPoint(profile[ip])

\* Every attack goes on, with or without a place, however the services fail; it waits for
\* its own lookup or for another's.
GoesOn ==
    \A a \in Attack : req[a].at \in {"ipwho", "ipapi", "joined"} ~> req[a].at \in {"upsert", "idle"}
==============================================================================
