---------------------------- MODULE GeoLookupProofs ----------------------------
(***************************************************************************)
(* Proofs about GeoLookup, for every set of addresses and requests, every  *)
(* bound of the cache, both lifetimes and whatever the services say.       *)
(***************************************************************************)
EXTENDS GeoLookup, TLAPS

USE GeoAssumption DEF GeoAssumption

------------------------------------------------------------------------------
(***************************************************************************)
(* What is made of an answer.                                              *)
(***************************************************************************)

\* An answer without a place on the map has no point; an event may make a zero of that.
Honest(geo) == geo.city \in {"Unknown", "LAN / Local"} => geo.coords # "point"

LEMMA BuiltType ==
    ASSUME NEW city \in Label, NEW country \in BOOLEAN, NEW coords \in Coords
    PROVE  /\ buildGeoResult(city, country, coords) \in Geo
           /\ buildGeoResult(city, country, coords).city = city
           /\ coords # "point" => buildGeoResult(city, country, coords).coords = "none"
BY DEF buildGeoResult, hasValidCoords, Geo, Coords

LEMMA FormatType ==
    ASSUME NEW city \in BOOLEAN, NEW region \in BOOLEAN, NEW country \in BOOLEAN
    PROVE  formatCity(city, region, country) \in {"city", "region", "country", "Unknown"}
BY DEF formatCity

LEMMA LabelledType ==
    ASSUME NEW label \in {"city", "region", "country", "Unknown"}, NEW country \in BOOLEAN,
           NEW coords \in Coords
    PROVE  LET geo == Labelled(label, country, coords)
           IN geo = NoGeo \/ (geo \in Geo /\ Honest(geo))
BY BuiltType DEF Labelled, Label, Honest

LEMMA OnlineType ==
    ASSUME NEW data \in Said
    PROVE  /\ fromIpWhoPayload(data) = NoGeo
              \/ (fromIpWhoPayload(data) \in Geo /\ Honest(fromIpWhoPayload(data)))
           /\ fromIpApiPayload(data) = NoGeo
              \/ (fromIpApiPayload(data) \in Geo /\ Honest(fromIpApiPayload(data)))
<1>1. data \in Reply
  OBVIOUS
<1>2. countryLabel(data) \in BOOLEAN /\ data.city \in BOOLEAN /\ data.region \in BOOLEAN
      /\ data.coords \in Coords
  BY <1>1 DEF Reply, countryLabel
<1>3. formatCity(data.city, data.region, countryLabel(data))
        \in {"city", "region", "country", "Unknown"}
  BY <1>2, FormatType
<1> QED
  BY <1>2, <1>3, LabelledType DEF fromIpWhoPayload, fromIpApiPayload

LEMMA OfflineType ==
    ASSUME NEW ip \in Ip
    PROVE  LET geo == fromGeoipLite(Offline[ip])
           IN geo = NoGeo \/ (geo \in Geo /\ Honest(geo))
<1>1. CASE Offline[ip] = NoGeo
  BY <1>1 DEF fromGeoipLite
<1>2. CASE Offline[ip] # NoGeo
  <2> DEFINE data == Offline[ip]
  <2>1. data \in Reply
    BY <1>2
  <2>2. data.code \in BOOLEAN /\ data.city \in BOOLEAN /\ data.region \in BOOLEAN
        /\ data.coords \in Coords
    BY <2>1 DEF Reply
  <2>3. formatCity(data.city, data.region, data.code)
          \in {"city", "region", "country", "Unknown"}
    BY <2>2, FormatType
  <2> QED
    BY <1>2, <2>2, <2>3, LabelledType DEF fromGeoipLite
<1> QED
  BY <1>1, <1>2

LEMMA ConstantsType ==
    /\ UnknownGeo \in Geo /\ UnknownGeo.city = "Unknown" /\ UnknownGeo.coords = "none"
    /\ ISRAEL_FALLBACK \in Geo /\ Honest(ISRAEL_FALLBACK)
    /\ ISRAEL_FALLBACK # NoGeo /\ UnknownGeo # NoGeo
<1>1. UnknownGeo \in Geo /\ UnknownGeo.city = "Unknown" /\ UnknownGeo.coords = "none"
  BY BuiltType DEF UnknownGeo, Label, Coords
<1>2. ISRAEL_FALLBACK \in Geo /\ Honest(ISRAEL_FALLBACK)
  BY DEF ISRAEL_FALLBACK, Geo, Label, Coords, Honest
<1> QED
  BY <1>1, <1>2

\* What a private address is told.
LEMMA PrivateType ==
    ASSUME NEW egress \in Geo \cup {NoGeo}, egress # NoGeo => Honest(egress)
    PROVE  /\ privateLanGeo(egress) \in Geo /\ Honest(privateLanGeo(egress))
           /\ egress # NoGeo => privateLanGeo(egress) = egress
<1>1. CASE egress # NoGeo
  BY <1>1 DEF privateLanGeo
<1>2. CASE egress = NoGeo /\ GEO_PRIVATE_CITY
  <2>1. privateLanGeo(egress) = buildGeoResult("city", TRUE, "point")
    BY <1>2 DEF privateLanGeo
  <2>2. "city" \in Label /\ "point" \in Coords
    BY DEF Label, Coords
  <2> DEFINE geo == buildGeoResult("city", TRUE, "point")
  <2>3. geo \in Geo /\ geo.city = "city"
    BY <2>2, BuiltType
  <2>4. Honest(geo)
    BY <2>3 DEF Honest
  <2> QED
    BY <1>2, <2>1, <2>3, <2>4
<1>3. CASE egress = NoGeo /\ ~GEO_PRIVATE_CITY
  <2>1. privateLanGeo(egress) = buildGeoResult("LAN / Local", FALSE, "none")
    BY <1>3 DEF privateLanGeo
  <2> QED
    BY <1>3, <2>1, BuiltType DEF Label, Coords, Honest
<1> QED
  BY <1>1, <1>2, <1>3

LEMMA AnsweredType ==
    ASSUME NEW r, r.ip \in Ip, NEW geo \in Geo, Honest(geo)
    PROVE  /\ Answered(r, geo) \in Request
           /\ Answered(r, geo).at = "upsert" /\ Answered(r, geo).ip = r.ip
           /\ Answered(r, geo).on = Nobody
           /\ Answered(r, geo).geo \in Geo /\ Honest(Answered(r, geo).geo)
<1> DEFINE body == applyGeoToPayload(geo)
           told == geoFromAttackData(body)
           kept == IF told = NoGeo THEN geo ELSE told
<1>1. body \in Geo /\ Honest(body)
  BY DEF applyGeoToPayload, Geo, Coords, Honest
<1>2. kept \in Geo /\ Honest(kept)
  BY <1>1 DEF geoFromAttackData
<1> HIDE DEF kept
<1>3. Answered(r, geo) = [Idle EXCEPT !.at = "upsert", !.ip = r.ip, !.geo = kept]
  BY DEF Answered, kept
<1> QED
  BY <1>2, <1>3 DEF Idle, Request

\* What the profile makes of it.
LEMMA AppliedType ==
    ASSUME NEW doc \in Doc, NEW geo \in Geo, Honest(geo)
    PROVE  /\ applyGeoFields(doc, geo) \in Doc
           /\ CityAndPoint(applyGeoFields(doc, geo))
BY DEF applyGeoFields, hasValidCoords, Doc, Geo, Coords, Honest, CityAndPoint

LEMMA EntryType ==
    ASSUME NEW geo \in Geo
    PROVE  /\ NewEntry(geo) \in Entry /\ NewEntry(geo).age = 0 /\ NewEntry(geo).geo = geo
BY DEF NewEntry, Entry

------------------------------------------------------------------------------
(***************************************************************************)
(* The cache.  What is kept is ordered by age, honest, and where this host *)
(* is when the address is a private one.                                   *)
(***************************************************************************)
Ordered(c, order) ==
    \A p \in order : c[p[1]] # NoEntry /\ c[p[2]] # NoEntry /\ c[p[1]].age >= c[p[2]].age

Good(c, egress) ==
    \A i \in Ip : c[i] # NoEntry =>
        Honest(c[i].geo) /\ (i \in Private => c[i].geo = egress)

CacheOK(c, order, egress) ==
    /\ c \in [Ip -> Entry \cup {NoEntry}]
    /\ order \subseteq Ip \X Ip
    /\ Ordered(c, order)
    /\ Good(c, egress)

LEMMA CacheWritten ==
    ASSUME NEW c, NEW order, NEW egress, NEW ip \in Ip, NEW geo \in Geo,
           CacheOK(c, order, egress), c[ip] = NoEntry,
           Honest(geo), ip \in Private => geo = egress,
           writeCache(c, order, ip, geo)
    PROVE  /\ CacheOK(cache', before', egress)
           /\ \A i \in Ip : i # ip /\ c[i] = NoEntry => cache'[i] = NoEntry
<1> DEFINE keys == {i \in Ip : c[i] # NoEntry} \cup {ip}
           set == [c EXCEPT ![ip] = NewEntry(geo)]
           after == order \cup ((keys \ {ip}) \X {ip})
           kept == Kept(keys, after)
<1>1. /\ cache' = [i \in Ip |-> IF i \in kept THEN set[i] ELSE NoEntry]
      /\ before' = after \cap (kept \X kept)
  BY DEF writeCache
<1>2. kept \subseteq keys
  BY DEF Kept
<1>3. NewEntry(geo) \in Entry /\ NewEntry(geo).age = 0 /\ NewEntry(geo).geo = geo
  BY EntryType
<1>4. c \in [Ip -> Entry \cup {NoEntry}] /\ order \subseteq Ip \X Ip
  BY DEF CacheOK
<1>5. set[ip] = NewEntry(geo) /\ \A i \in Ip \ {ip} : set[i] = c[i]
  BY <1>4
<1>6. \A i \in keys : i \in Ip /\ set[i] \in Entry
  BY <1>3, <1>4, <1>5
<1>7. \A p \in after : p[1] \in keys /\ p[2] \in keys => set[p[1]].age >= set[p[2]].age
  <2> SUFFICES ASSUME NEW p \in after, p[1] \in keys, p[2] \in keys
               PROVE  set[p[1]].age >= set[p[2]].age
    OBVIOUS
  <2>1. CASE p \in order
    <3>1. c[p[1]] # NoEntry /\ c[p[2]] # NoEntry /\ c[p[1]].age >= c[p[2]].age
      BY <2>1 DEF CacheOK, Ordered
    <3> QED
      BY <1>5, <3>1
  <2>2. CASE p \in (keys \ {ip}) \X {ip}
    <3>1. p[2] = ip /\ p[1] \in keys
      BY <2>2
    <3>2. set[p[1]].age \in Nat
      BY <1>6, <3>1 DEF Entry
    <3> QED
      BY <1>3, <1>5, <3>1, <3>2
  <2> QED
    BY <2>1, <2>2
<1> HIDE DEF kept, keys, set, after
<1>8. cache' \in [Ip -> Entry \cup {NoEntry}]
  BY <1>1, <1>2, <1>6
<1>9. before' \subseteq Ip \X Ip
  BY <1>1, <1>2, <1>6
<1>10. NoEntry \notin Entry
  OBVIOUS
<1>11. Ordered(cache', before')
  <2> SUFFICES ASSUME NEW p \in before'
               PROVE  /\ cache'[p[1]] # NoEntry /\ cache'[p[2]] # NoEntry
                      /\ cache'[p[1]].age >= cache'[p[2]].age
    BY DEF Ordered
  <2>1. p \in after /\ p[1] \in kept /\ p[2] \in kept
    BY <1>1
  <2>2. cache'[p[1]] = set[p[1]] /\ cache'[p[2]] = set[p[2]]
    BY <1>1, <1>2, <1>6, <2>1
  <2>3. cache'[p[1]] # NoEntry /\ cache'[p[2]] # NoEntry
    BY <1>2, <1>6, <1>10, <2>1, <2>2
  <2> QED
    BY <1>2, <1>7, <2>1, <2>2, <2>3
<1>12. \A i \in Ip : cache'[i] # NoEntry => cache'[i] = set[i]
  BY <1>1
<1>13. Good(cache', egress)
  <2> SUFFICES ASSUME NEW i \in Ip, cache'[i] # NoEntry
               PROVE  Honest(cache'[i].geo) /\ (i \in Private => cache'[i].geo = egress)
    BY DEF Good
  <2>1. CASE i = ip
    BY <1>3, <1>5, <1>12, <2>1
  <2>2. CASE i # ip
    <3>1. cache'[i] = c[i] /\ c[i] # NoEntry
      BY <1>5, <1>12, <2>2
    <3> QED
      BY <3>1 DEF CacheOK, Good
  <2> QED
    BY <2>1, <2>2
<1>14. \A i \in Ip : i # ip /\ c[i] = NoEntry => cache'[i] = NoEntry
  BY <1>5, <1>12
<1> QED
  BY <1>8, <1>9, <1>11, <1>13, <1>14 DEF CacheOK

LEMMA CacheDropped ==
    ASSUME NEW egress, NEW ip \in Ip, CacheOK(cache, before, egress)
    PROVE  /\ CacheOK(Dropped(ip), DroppedOrder(ip), egress)
           /\ Dropped(ip)[ip] = NoEntry
           /\ \A i \in Ip \ {ip} : Dropped(ip)[i] = cache[i]
<1>1. cache \in [Ip -> Entry \cup {NoEntry}] /\ before \subseteq Ip \X Ip
  BY DEF CacheOK
<1>2. /\ Dropped(ip) \in [Ip -> Entry \cup {NoEntry}]
      /\ Dropped(ip)[ip] = NoEntry
      /\ \A i \in Ip \ {ip} : Dropped(ip)[i] = cache[i]
  BY <1>1 DEF Dropped
<1>3. DroppedOrder(ip) \subseteq Ip \X Ip
  BY <1>1 DEF DroppedOrder
<1>4. Ordered(Dropped(ip), DroppedOrder(ip))
  <2> SUFFICES ASSUME NEW p \in DroppedOrder(ip)
               PROVE  /\ Dropped(ip)[p[1]] # NoEntry /\ Dropped(ip)[p[2]] # NoEntry
                      /\ Dropped(ip)[p[1]].age >= Dropped(ip)[p[2]].age
    BY DEF Ordered
  <2>1. p \in before /\ p[1] # ip /\ p[2] # ip
    BY DEF DroppedOrder
  <2>2. p[1] \in Ip /\ p[2] \in Ip
    BY <1>1, <2>1
  <2>3. Dropped(ip)[p[1]] = cache[p[1]] /\ Dropped(ip)[p[2]] = cache[p[2]]
    BY <1>2, <2>1, <2>2
  <2> QED
    BY <2>1, <2>3 DEF CacheOK, Ordered
<1>5. Good(Dropped(ip), egress)
  BY <1>2 DEF CacheOK, Good
<1> QED
  BY <1>2, <1>3, <1>4, <1>5 DEF CacheOK

------------------------------------------------------------------------------
(***************************************************************************)
(* The inductive invariant.                                                *)
(***************************************************************************)

\* Before the server listens nothing has been asked or kept.
BootInv ==
    /\ booting # "listening" =>
         /\ lanEgressGeo = NoGeo
         /\ cache = [i \in Ip |-> NoEntry]
         /\ req = [a \in Attack |-> Idle]
    /\ booting = "listening" => lanEgressGeo \in Geo /\ Honest(lanEgressGeo)

CacheInv == CacheOK(cache, before, lanEgressGeo)

Looking(a) == req[a].at \in {"ipwho", "ipapi"}

\* A lookup is promised to all, of a public address that the cache does not hold.
LookInv ==
    \A a \in Attack : Looking(a) =>
        /\ req[a].on = a /\ req[a].ip \in Ip \ Private
        /\ inFlight[req[a].ip] = a
        /\ cache[req[a].ip] = NoEntry

JoinInv ==
    \A a \in Attack : req[a].at = "joined" =>
        /\ req[a].on \in Attack /\ req[a].ip \in Ip
        /\ Looking(req[a].on) /\ req[req[a].on].ip = req[a].ip

FlightInv ==
    \A ip \in Ip : inFlight[ip] # Nobody =>
        Looking(inFlight[ip]) /\ req[inFlight[ip]].ip = ip

UpsertInv ==
    \A a \in Attack :
        /\ req[a].at = "upsert" =>
             /\ req[a].ip \in Ip /\ req[a].on = Nobody
             /\ req[a].geo \in Geo /\ Honest(req[a].geo)
        /\ req[a].at = "idle" => req[a] = Idle

ScriptInv == script.ip # NoIp => script.ip \in Ip /\ script.geo \in Geo /\ Honest(script.geo)

ReqInv == LookInv /\ JoinInv /\ FlightInv /\ UpsertInv

IInv == TypeOK /\ BootInv /\ CacheInv /\ ReqInv /\ ScriptInv /\ CityAndPointAgree

LEMMA IdleType == Idle \in Request /\ Idle.at = "idle" /\ Idle.on = Nobody /\ Rest \in Script
BY DEF Idle, Request, Rest, Script

LEMMA EmptyCache ==
    ASSUME NEW egress, NEW c, NEW order \in SUBSET (Ip \X Ip), c = [i \in Ip |-> NoEntry],
           Ordered(c, order)
    PROVE  CacheOK(c, order, egress)
BY DEF CacheOK, Good

LEMMA InitInv == Init => IInv
<1> SUFFICES ASSUME Init PROVE IInv
  OBVIOUS
<1> USE DEF Init
<1>1. TypeOK
  BY IdleType DEF TypeOK
<1>2. Ordered(cache, before)
  BY DEF Ordered
<1>3. CacheInv
  BY <1>2, EmptyCache DEF CacheInv
<1>4. \A a \in Attack : req[a] = Idle /\ req[a].at = "idle"
  BY IdleType
<1>5. ReqInv
  BY <1>4 DEF ReqInv, LookInv, JoinInv, FlightInv, UpsertInv, Looking
<1>6. ScriptInv /\ CityAndPointAgree
  BY DEF ScriptInv, CityAndPointAgree, Rest
<1> QED
  BY <1>1, <1>3, <1>5, <1>6 DEF IInv, BootInv

\* What the invariant says when the server listens.
LEMMA Listening ==
    ASSUME IInv, booting = "listening", NEW ip \in Ip
    PROVE  /\ lanEgressGeo \in Geo /\ Honest(lanEgressGeo) /\ lanEgressGeo # NoGeo
           /\ Known(ip) # NoGeo => Known(ip) \in Geo /\ Honest(Known(ip))
           /\ ip \in Private => Known(ip) = lanEgressGeo
<1>1. lanEgressGeo \in Geo /\ Honest(lanEgressGeo)
  BY DEF IInv, BootInv
<1>2. lanEgressGeo # NoGeo
  BY <1>1
<1> QED
  BY <1>1, <1>2, PrivateType, OfflineType DEF Known

------------------------------------------------------------------------------
(***************************************************************************)
(* Before the server listens.                                              *)
(***************************************************************************)
LEMMA StepInit == IInv /\ initLanEgressGeo => IInv'
<1> SUFFICES ASSUME IInv, initLanEgressGeo PROVE IInv'
  OBVIOUS
<1>1. UNCHANGED <<req, profile, script>>
  BY DEF initLanEgressGeo
<1>2. booting # "listening"
  BY DEF initLanEgressGeo
<1>3. cache = [i \in Ip |-> NoEntry] /\ req = [a \in Attack |-> Idle] /\ lanEgressGeo = NoGeo
  BY <1>2 DEF IInv, BootInv
<1>4. \/ booting' = "listening" /\ lanEgressGeo' \in Geo /\ Honest(lanEgressGeo') /\ clearGeoCache
      \/ booting' = "listening" /\ lanEgressGeo' \in Geo /\ Honest(lanEgressGeo')
         /\ UNCHANGED cacheVars
      \/ booting' = "ipapi" /\ UNCHANGED <<lanEgressGeo, cacheVars>>
  BY OnlineType, ConstantsType DEF initLanEgressGeo, Found
<1>5. cache' = [i \in Ip |-> NoEntry] /\ (before' = {} \/ before' = before)
      /\ (inFlight' = [i \in Ip |-> Nobody] \/ inFlight' = inFlight)
  BY <1>3, <1>4 DEF clearGeoCache, cacheVars
<1>6. TypeOK'
  BY <1>1, <1>4, <1>5 DEF IInv, TypeOK
<1>7. BootInv'
  BY <1>1, <1>3, <1>4, <1>5 DEF BootInv
<1>8. Ordered(cache', before')
  BY <1>3, <1>5 DEF IInv, CacheInv, CacheOK, Ordered
<1>9. CacheInv'
  BY <1>5, <1>6, <1>8, EmptyCache DEF CacheInv, TypeOK
<1>10. \A a \in Attack : req'[a] = Idle /\ req'[a].at = "idle" /\ req[a].at = "idle"
  BY <1>1, <1>3, IdleType
<1>11. \A ip \in Ip : inFlight[ip] = Nobody
  BY <1>10 DEF IInv, ReqInv, FlightInv, Looking, TypeOK
<1>12. \A ip \in Ip : inFlight'[ip] = Nobody
  BY <1>5, <1>11
<1>13. ReqInv'
  BY <1>10, <1>12 DEF ReqInv, LookInv, JoinInv, FlightInv, UpsertInv, Looking
<1> QED
  BY <1>1, <1>6, <1>7, <1>9, <1>13 DEF IInv, ScriptInv, CityAndPointAgree

------------------------------------------------------------------------------
(***************************************************************************)
(* A request.                                                              *)
(***************************************************************************)

\* The parts that a step of a request leaves alone.
LEMMA RequestFrame ==
    ASSUME IInv, booting = "listening", UNCHANGED <<bootVars, profile, script>>,
           CacheOK(cache', before', lanEgressGeo), inFlight' \in [Ip -> Attack \cup {Nobody}],
           req' \in [Attack -> Request], ReqInv'
    PROVE  IInv'
<1>1. lanEgressGeo' = lanEgressGeo /\ booting' = booting /\ profile' = profile /\ script' = script
  BY DEF bootVars
<1>2. CacheInv'
  BY <1>1 DEF CacheInv
<1>3. cache' \in [Ip -> Entry \cup {NoEntry}] /\ before' \subseteq Ip \X Ip
  BY DEF CacheOK
<1>4. TypeOK'
  BY <1>1, <1>3 DEF IInv, TypeOK
<1> QED
  BY <1>1, <1>2, <1>4 DEF IInv, BootInv, ScriptInv, CityAndPointAgree

LEMMA StepHit ==
    ASSUME IInv, NEW a \in Attack, NEW ip \in Ip, Hit(a, ip)
    PROVE  IInv'
<1> DEFINE geo == readCache(ip)
           r == Answered([Idle EXCEPT !.ip = ip], geo)
<1>1. booting = "listening" /\ req[a] = Idle /\ UNCHANGED <<bootVars, profile, script>>
      /\ UNCHANGED cacheVars /\ req' = [req EXCEPT ![a] = r] /\ geo # NoGeo
  BY DEF Hit, Asking
<1>2. cache[ip] # NoEntry /\ geo = cache[ip].geo
  BY <1>1 DEF readCache, Keys
<1>3. cache[ip] \in Entry
  BY <1>2 DEF IInv, TypeOK
<1>4. geo \in Geo /\ Honest(geo)
  BY <1>2, <1>3 DEF IInv, CacheInv, CacheOK, Good, Entry
<1>5. [Idle EXCEPT !.ip = ip].ip = ip
  BY DEF Idle
<1>6. /\ r \in Request /\ r.at = "upsert" /\ r.ip \in Ip /\ r.on = Nobody
      /\ r.geo \in Geo /\ Honest(r.geo)
  BY <1>4, <1>5, AnsweredType
<1> HIDE DEF r, geo
<1>7. req' \in [Attack -> Request] /\ req'[a] = r /\ \A b \in Attack \ {a} : req'[b] = req[b]
  BY <1>1, <1>6 DEF IInv, TypeOK
<1>8. UNCHANGED <<cache, before, inFlight>>
  BY <1>1 DEF cacheVars
<1>9. req[a].at = "idle" /\ ~Looking(a)
  BY <1>1, IdleType DEF Looking
<1>10. ReqInv'
  <2>1. LookInv' /\ UpsertInv'
    BY <1>6, <1>7, <1>8 DEF IInv, ReqInv, LookInv, UpsertInv, Looking
  <2>2. JoinInv'
    BY <1>6, <1>7, <1>9 DEF IInv, ReqInv, JoinInv, Looking
  <2>3. FlightInv'
    BY <1>7, <1>8, <1>9 DEF IInv, ReqInv, FlightInv, Looking, TypeOK
  <2> QED
    BY <2>1, <2>2, <2>3 DEF ReqInv
<1> QED
  BY <1>1, <1>7, <1>8, <1>10, RequestFrame DEF IInv, CacheInv, TypeOK

LEMMA StepJoin ==
    ASSUME IInv, NEW a \in Attack, NEW ip \in Ip, Join(a, ip)
    PROVE  IInv'
<1> DEFINE l == inFlight[ip]
           r == [Idle EXCEPT !.at = "joined", !.ip = ip, !.on = l]
<1>1. booting = "listening" /\ req[a] = Idle /\ UNCHANGED <<bootVars, profile, script>>
      /\ UNCHANGED inFlight /\ req' = [req EXCEPT ![a] = r] /\ l # Nobody
      /\ cache' = Dropped(ip) /\ before' = DroppedOrder(ip)
  BY DEF Join, Asking
<1>2. CacheOK(cache', before', lanEgressGeo)
      /\ \A i \in Ip : cache[i] = NoEntry => cache'[i] = NoEntry
  BY <1>1, CacheDropped DEF IInv, CacheInv
<1>3. l \in Attack /\ Looking(l) /\ req[l].ip = ip
  BY <1>1 DEF IInv, TypeOK, ReqInv, FlightInv
<1>4. r \in Request /\ r.at = "joined" /\ r.ip = ip /\ r.on = l
  BY <1>3 DEF Idle, Request
<1> HIDE DEF r, l
<1>5. req' \in [Attack -> Request] /\ req'[a] = r /\ \A b \in Attack \ {a} : req'[b] = req[b]
  BY <1>1, <1>4 DEF IInv, TypeOK
<1>6. ~Looking(a) /\ l # a
  BY <1>1, <1>3, IdleType DEF Looking
<1>7. ReqInv'
  <2>1. LookInv'
    BY <1>1, <1>2, <1>4, <1>5 DEF IInv, ReqInv, LookInv, Looking
  <2>2. JoinInv'
    BY <1>3, <1>4, <1>5, <1>6 DEF IInv, ReqInv, JoinInv, Looking
  <2>3. FlightInv'
    BY <1>1, <1>5, <1>6 DEF IInv, ReqInv, FlightInv, Looking, TypeOK
  <2>4. UpsertInv'
    BY <1>4, <1>5 DEF IInv, ReqInv, UpsertInv
  <2> QED
    BY <2>1, <2>2, <2>3, <2>4 DEF ReqInv
<1>8. inFlight' \in [Ip -> Attack \cup {Nobody}]
  BY <1>1 DEF IInv, TypeOK
<1> QED
  BY <1>1, <1>2, <1>5, <1>7, <1>8, RequestFrame

LEMMA StepLocal ==
    ASSUME IInv, NEW a \in Attack, NEW ip \in Ip, Local(a, ip)
    PROVE  IInv'
<1> DEFINE geo == Known(ip)
           r == Answered([Idle EXCEPT !.ip = ip], geo)
<1>1. booting = "listening" /\ req[a] = Idle /\ UNCHANGED <<bootVars, profile, script>>
      /\ UNCHANGED inFlight /\ req' = [req EXCEPT ![a] = r]
      /\ geo # NoGeo /\ inFlight[ip] = Nobody
  BY DEF Local, Asking
<1>2. writeCache(Dropped(ip), DroppedOrder(ip), ip, geo)
  BY DEF Local
<1>3. geo \in Geo /\ Honest(geo) /\ (ip \in Private => geo = lanEgressGeo)
  BY <1>1, Listening
<1>4. [Idle EXCEPT !.ip = ip].ip = ip
  BY DEF Idle
<1>5. /\ r \in Request /\ r.at = "upsert" /\ r.ip \in Ip /\ r.on = Nobody
      /\ r.geo \in Geo /\ Honest(r.geo)
  BY <1>3, <1>4, AnsweredType
<1> HIDE DEF r, geo
<1>6. CacheOK(Dropped(ip), DroppedOrder(ip), lanEgressGeo) /\ Dropped(ip)[ip] = NoEntry
      /\ \A i \in Ip \ {ip} : Dropped(ip)[i] = cache[i]
  BY CacheDropped DEF IInv, CacheInv
<1>7. CacheOK(cache', before', lanEgressGeo)
      /\ \A i \in Ip : i # ip /\ Dropped(ip)[i] = NoEntry => cache'[i] = NoEntry
  BY <1>2, <1>3, <1>6, CacheWritten
<1>8. req' \in [Attack -> Request] /\ req'[a] = r /\ \A b \in Attack \ {a} : req'[b] = req[b]
  BY <1>1, <1>5 DEF IInv, TypeOK
<1>9. ~Looking(a)
  BY <1>1, IdleType DEF Looking
<1>10. ReqInv'
  <2>1. LookInv'
    <3> SUFFICES ASSUME NEW b \in Attack, Looking(b)'
                 PROVE  (/\ req[b].on = b /\ req[b].ip \in Ip \ Private
                         /\ inFlight[req[b].ip] = b /\ cache[req[b].ip] = NoEntry)'
      BY DEF LookInv
    <3>1. b # a /\ req'[b] = req[b] /\ Looking(b)
      BY <1>5, <1>8 DEF Looking
    <3>2. req[b].on = b /\ req[b].ip \in Ip \ Private /\ inFlight[req[b].ip] = b
          /\ cache[req[b].ip] = NoEntry
      BY <3>1 DEF IInv, ReqInv, LookInv
    <3>3. req[b].ip # ip
      BY <1>1, <3>2
    <3> QED
      BY <1>1, <1>6, <1>7, <3>1, <3>2, <3>3
  <2>2. JoinInv'
    BY <1>5, <1>8, <1>9 DEF IInv, ReqInv, JoinInv, Looking
  <2>3. FlightInv'
    BY <1>1, <1>8, <1>9 DEF IInv, ReqInv, FlightInv, Looking, TypeOK
  <2>4. UpsertInv'
    BY <1>5, <1>8 DEF IInv, ReqInv, UpsertInv
  <2> QED
    BY <2>1, <2>2, <2>3, <2>4 DEF ReqInv
<1>11. inFlight' \in [Ip -> Attack \cup {Nobody}]
  BY <1>1 DEF IInv, TypeOK
<1> QED
  BY <1>1, <1>7, <1>8, <1>10, <1>11, RequestFrame

LEMMA StepLead ==
    ASSUME IInv, NEW a \in Attack, NEW ip \in Ip, Lead(a, ip)
    PROVE  IInv'
<1> DEFINE r == [Idle EXCEPT !.at = "ipwho", !.ip = ip, !.on = a]
<1>1. booting = "listening" /\ req[a] = Idle /\ UNCHANGED <<bootVars, profile, script>>
      /\ req' = [req EXCEPT ![a] = r] /\ inFlight' = [inFlight EXCEPT ![ip] = a]
      /\ inFlight[ip] = Nobody /\ Known(ip) = NoGeo
      /\ cache' = Dropped(ip) /\ before' = DroppedOrder(ip)
  BY DEF Lead, Asking
<1>2. CacheOK(cache', before', lanEgressGeo) /\ cache'[ip] = NoEntry
      /\ \A i \in Ip : cache[i] = NoEntry => cache'[i] = NoEntry
  BY <1>1, CacheDropped DEF IInv, CacheInv
<1>3. ip \notin Private
  BY <1>1, Listening
<1>4. r \in Request /\ r.at = "ipwho" /\ r.ip = ip /\ r.on = a
  BY DEF Idle, Request
<1> HIDE DEF r
<1>5. req' \in [Attack -> Request] /\ req'[a] = r /\ \A b \in Attack \ {a} : req'[b] = req[b]
  BY <1>1, <1>4 DEF IInv, TypeOK
<1>6. /\ inFlight' \in [Ip -> Attack \cup {Nobody}]
      /\ inFlight'[ip] = a /\ \A i \in Ip \ {ip} : inFlight'[i] = inFlight[i]
  BY <1>1 DEF IInv, TypeOK
<1>7. ~Looking(a)
  BY <1>1, IdleType DEF Looking
<1>8. ReqInv'
  <2>1. LookInv'
    <3> SUFFICES ASSUME NEW b \in Attack, Looking(b)'
                 PROVE  (/\ req[b].on = b /\ req[b].ip \in Ip \ Private
                         /\ inFlight[req[b].ip] = b /\ cache[req[b].ip] = NoEntry)'
      BY DEF LookInv
    <3>1. CASE b = a
      BY <1>2, <1>3, <1>4, <1>5, <1>6, <3>1
    <3>2. CASE b # a
      <4>1. req'[b] = req[b] /\ Looking(b)
        BY <1>5, <3>2 DEF Looking
      <4>2. req[b].on = b /\ req[b].ip \in Ip \ Private /\ inFlight[req[b].ip] = b
            /\ cache[req[b].ip] = NoEntry
        BY <4>1 DEF IInv, ReqInv, LookInv
      <4>3. req[b].ip # ip
        BY <1>1, <4>2
      <4> QED
        BY <1>2, <1>6, <4>1, <4>2, <4>3
    <3> QED
      BY <3>1, <3>2
  <2>2. JoinInv'
    BY <1>4, <1>5, <1>7 DEF IInv, ReqInv, JoinInv, Looking
  <2>3. FlightInv'
    BY <1>4, <1>5, <1>6, <1>7 DEF IInv, ReqInv, FlightInv, Looking, TypeOK
  <2>4. UpsertInv'
    BY <1>4, <1>5 DEF IInv, ReqInv, UpsertInv
  <2> QED
    BY <2>1, <2>2, <2>3, <2>4 DEF ReqInv
<1> QED
  BY <1>1, <1>2, <1>5, <1>6, <1>8, RequestFrame

LEMMA StepSettle ==
    ASSUME IInv, booting = "listening", NEW a \in Attack, Looking(a),
           NEW geo \in Geo, Honest(geo), Settle(a, geo),
           UNCHANGED <<bootVars, profile, script>>
    PROVE  IInv'
<1> DEFINE ip == req[a].ip
<1>1. req[a].on = a /\ ip \in Ip \ Private /\ inFlight[ip] = a /\ cache[ip] = NoEntry
  BY DEF IInv, ReqInv, LookInv
<1> HIDE DEF ip
<1>2. /\ writeCache(cache, before, ip, geo)
      /\ inFlight' = [inFlight EXCEPT ![ip] = Nobody]
      /\ req' = [b \in Attack |-> IF req[b].on = a THEN Answered(req[b], geo) ELSE req[b]]
  BY DEF Settle, ip
<1>3. CacheOK(cache', before', lanEgressGeo)
      /\ \A i \in Ip : i # ip /\ cache[i] = NoEntry => cache'[i] = NoEntry
  BY <1>1, <1>2, CacheWritten DEF IInv, CacheInv
<1>4. /\ inFlight' \in [Ip -> Attack \cup {Nobody}]
      /\ inFlight'[ip] = Nobody /\ \A i \in Ip \ {ip} : inFlight'[i] = inFlight[i]
  BY <1>1, <1>2 DEF IInv, TypeOK
<1>5. ASSUME NEW b \in Attack, req[b].on = a
      PROVE  req[b].ip \in Ip
  <2>1. req[b].at \in {"idle", "ipwho", "ipapi", "joined", "upsert"}
    BY DEF IInv, TypeOK, Request
  <2>2. Nobody # a
    OBVIOUS
  <2> QED
    BY <1>5, <2>1, <2>2, IdleType
       DEF IInv, ReqInv, LookInv, JoinInv, UpsertInv, Looking
<1>6. ASSUME NEW b \in Attack, req[b].on = a
      PROVE  /\ req'[b] \in Request /\ req'[b].at = "upsert" /\ req'[b].ip \in Ip
             /\ req'[b].on = Nobody /\ req'[b].geo \in Geo /\ Honest(req'[b].geo)
  <2>1. req'[b] = Answered(req[b], geo)
    BY <1>2, <1>6
  <2> QED
    BY <1>5, <1>6, <2>1, AnsweredType
<1>7. ASSUME NEW b \in Attack, req[b].on # a
      PROVE  req'[b] = req[b] /\ req'[b] \in Request
  BY <1>2, <1>7 DEF IInv, TypeOK
<1>8. req' \in [Attack -> Request]
  BY <1>2, <1>6, <1>7
<1>9. ASSUME NEW b \in Attack, Looking(b)'
      PROVE  b # a /\ req[b].on # a /\ req'[b] = req[b] /\ Looking(b)
  BY <1>1, <1>6, <1>7, <1>9 DEF Looking
<1>10. ASSUME NEW b \in Attack, Looking(b), b # a
       PROVE  req'[b] = req[b] /\ req'[b].at \in {"ipwho", "ipapi"}
  BY <1>7, <1>10 DEF IInv, ReqInv, LookInv, Looking
<1>11. LookInv'
  <2> SUFFICES ASSUME NEW b \in Attack, Looking(b)'
               PROVE  (/\ req[b].on = b /\ req[b].ip \in Ip \ Private
                       /\ inFlight[req[b].ip] = b /\ cache[req[b].ip] = NoEntry)'
    BY DEF LookInv
  <2>1. req'[b] = req[b] /\ Looking(b) /\ b # a
    BY <1>9
  <2>2. req[b].on = b /\ req[b].ip \in Ip \ Private /\ inFlight[req[b].ip] = b
        /\ cache[req[b].ip] = NoEntry
    BY <2>1 DEF IInv, ReqInv, LookInv
  <2>3. req[b].ip # ip
    BY <1>1, <2>1, <2>2
  <2> QED
    BY <1>3, <1>4, <2>1, <2>2, <2>3
<1>12. JoinInv'
  <2> SUFFICES ASSUME NEW b \in Attack, req'[b].at = "joined"
               PROVE  (/\ req[b].on \in Attack /\ req[b].ip \in Ip
                       /\ Looking(req[b].on) /\ req[req[b].on].ip = req[b].ip)'
    BY DEF JoinInv
  <2>1. req[b].on # a /\ req'[b] = req[b]
    BY <1>6, <1>7
  <2>2. req[b].on \in Attack /\ req[b].ip \in Ip /\ Looking(req[b].on)
        /\ req[req[b].on].ip = req[b].ip
    BY <2>1 DEF IInv, ReqInv, JoinInv
  <2>3. req'[req[b].on] = req[req[b].on] /\ req'[req[b].on].at \in {"ipwho", "ipapi"}
    BY <1>10, <2>1, <2>2
  <2> QED
    BY <2>1, <2>2, <2>3 DEF Looking
<1>13. FlightInv'
  <2> SUFFICES ASSUME NEW i \in Ip, inFlight'[i] # Nobody
               PROVE  (Looking(inFlight[i]) /\ req[inFlight[i]].ip = i)'
    BY DEF FlightInv
  <2>1. i # ip /\ inFlight'[i] = inFlight[i]
    BY <1>4
  <2>2. inFlight[i] \in Attack /\ Looking(inFlight[i]) /\ req[inFlight[i]].ip = i
    BY <2>1 DEF IInv, TypeOK, ReqInv, FlightInv
  <2>3. inFlight[i] # a
    BY <2>1, <2>2 DEF ip
  <2>4. req'[inFlight[i]] = req[inFlight[i]] /\ req'[inFlight[i]].at \in {"ipwho", "ipapi"}
    BY <1>10, <2>2, <2>3
  <2> QED
    BY <2>1, <2>2, <2>4 DEF Looking
<1>14. UpsertInv'
  BY <1>6, <1>7 DEF IInv, ReqInv, UpsertInv
<1>15. ReqInv'
  BY <1>11, <1>12, <1>13, <1>14 DEF ReqInv
<1> QED
  BY <1>3, <1>4, <1>8, <1>15, RequestFrame

\* The first service had no answer, the second is asked.
LEMMA StepSecond ==
    ASSUME IInv, booting = "listening", NEW a \in Attack, req[a].at = "ipwho",
           req' = [req EXCEPT ![a] = [req[a] EXCEPT !.at = "ipapi"]],
           UNCHANGED <<bootVars, cacheVars, profile, script>>
    PROVE  IInv'
<1> DEFINE r == [req[a] EXCEPT !.at = "ipapi"]
<1>1. req[a] \in Request
  BY DEF IInv, TypeOK
<1>2. r \in Request /\ r.at = "ipapi" /\ r.ip = req[a].ip /\ r.on = req[a].on
  BY <1>1 DEF Request
<1>3. req' = [req EXCEPT ![a] = r]
  OBVIOUS
<1> HIDE DEF r
<1>4. req' \in [Attack -> Request] /\ req'[a] = r /\ \A b \in Attack \ {a} : req'[b] = req[b]
  BY <1>2, <1>3 DEF IInv, TypeOK
<1>5. UNCHANGED <<cache, before, inFlight>>
  BY DEF cacheVars
<1>6. \A b \in Attack : req'[b].ip = req[b].ip /\ req'[b].on = req[b].on
      /\ (req'[b].at \in {"ipwho", "ipapi"} <=> req[b].at \in {"ipwho", "ipapi"})
  BY <1>2, <1>4
<1>7. ReqInv'
  <2>1. LookInv'
    BY <1>5, <1>6 DEF IInv, ReqInv, LookInv, Looking
  <2>2. JoinInv'
    BY <1>2, <1>4, <1>6 DEF IInv, ReqInv, JoinInv, Looking
  <2>3. FlightInv'
    BY <1>5, <1>6 DEF IInv, TypeOK, ReqInv, FlightInv, Looking
  <2>4. UpsertInv'
    BY <1>2, <1>4 DEF IInv, ReqInv, UpsertInv
  <2> QED
    BY <2>1, <2>2, <2>3, <2>4 DEF ReqInv
<1> QED
  BY <1>4, <1>5, <1>7, RequestFrame DEF IInv, CacheInv, TypeOK

LEMMA StepOnline ==
    ASSUME IInv, NEW a \in Attack, lookupOnline(a)
    PROVE  IInv'
<1>1. req[a].at \in {"ipwho", "ipapi"} /\ UNCHANGED <<bootVars, profile, script>>
  BY DEF lookupOnline, ipWhoEnds, ipApiEnds
<1>2. booting = "listening"
  BY <1>1, IdleType DEF IInv, BootInv
<1>3. Looking(a)
  BY <1>1 DEF Looking
<1>4. CASE ipWhoEnds(a)
  <2>1. PICK data \in Said :
          \/ fromIpWhoPayload(data) # NoGeo /\ Settle(a, fromIpWhoPayload(data))
          \/ req' = [req EXCEPT ![a] = [req[a] EXCEPT !.at = "ipapi"]] /\ UNCHANGED cacheVars
    BY <1>4 DEF ipWhoEnds
  <2>2. req[a].at = "ipwho"
    BY <1>4 DEF ipWhoEnds
  <2> QED
    BY <1>1, <1>2, <1>3, <2>1, <2>2, OnlineType, StepSettle, StepSecond
<1>5. CASE ipApiEnds(a)
  <2>1. PICK data \in Said :
          LET geo == fromIpApiPayload(data)
          IN Settle(a, IF geo = NoGeo THEN UnknownGeo ELSE geo)
    BY <1>5 DEF ipApiEnds
  <2> DEFINE geo == IF fromIpApiPayload(data) = NoGeo THEN UnknownGeo ELSE fromIpApiPayload(data)
  <2>2. geo \in Geo /\ Honest(geo)
    BY OnlineType, ConstantsType DEF Honest
  <2>3. Settle(a, geo)
    BY <2>1
  <2> QED
    BY <1>1, <1>2, <1>3, <2>2, <2>3, StepSettle
<1> QED
  BY <1>4, <1>5 DEF lookupOnline

LEMMA OldType == ASSUME TypeOK, NEW ip \in Ip PROVE Old(ip) \in Doc
BY ConstantsType DEF Old, TypeOK, Doc

\* A profile that an honest answer is applied to agrees with itself.
LEMMA ProfileWritten ==
    ASSUME IInv, NEW ip \in Ip, NEW geo \in Geo, Honest(geo),
           \/ profile' = [profile EXCEPT ![ip] = applyGeoFields(Old(ip), geo)]
           \/ UNCHANGED profile
    PROVE  profile' \in [Ip -> Doc \cup {NoDoc}] /\ CityAndPointAgree'
<1> DEFINE doc == applyGeoFields(Old(ip), geo)
<1>1. doc \in Doc /\ CityAndPoint(doc)
  BY OldType, AppliedType DEF IInv
<1> HIDE DEF doc
<1>2. CASE UNCHANGED profile
  BY <1>2 DEF IInv, TypeOK, CityAndPointAgree
<1>3. CASE profile' = [profile EXCEPT ![ip] = doc]
  BY <1>1, <1>3 DEF IInv, TypeOK, CityAndPointAgree
<1> QED
  BY <1>2, <1>3 DEF doc

LEMMA StepUpsert ==
    ASSUME IInv, NEW a \in Attack, upsertFromAttack(a)
    PROVE  IInv'
<1>1. req[a].at = "upsert" /\ req' = [req EXCEPT ![a] = Idle]
      /\ UNCHANGED <<bootVars, cacheVars, script>>
  BY DEF upsertFromAttack
<1>2. UNCHANGED <<booting, lanEgressGeo, cache, before, inFlight, script>>
  BY <1>1 DEF bootVars, cacheVars
<1>3. req[a].ip \in Ip /\ req[a].geo \in Geo /\ Honest(req[a].geo) /\ ~Looking(a)
  BY <1>1 DEF IInv, ReqInv, UpsertInv, Looking
<1>4. profile' \in [Ip -> Doc \cup {NoDoc}] /\ CityAndPointAgree'
  BY <1>3, ProfileWritten DEF upsertFromAttack
<1>5. req' \in [Attack -> Request] /\ req'[a] = Idle /\ \A b \in Attack \ {a} : req'[b] = req[b]
  BY <1>1, IdleType DEF IInv, TypeOK
<1>6. TypeOK'
  BY <1>2, <1>4, <1>5 DEF IInv, TypeOK
<1>7. booting = "listening"
  BY <1>1, IdleType DEF IInv, BootInv
<1>8. BootInv' /\ CacheInv' /\ ScriptInv'
  BY <1>2, <1>7 DEF IInv, BootInv, CacheInv, ScriptInv
<1>9. ReqInv'
  <2>1. LookInv'
    BY <1>2, <1>5, IdleType DEF IInv, ReqInv, LookInv, Looking
  <2>2. JoinInv'
    BY <1>3, <1>5, IdleType DEF IInv, ReqInv, JoinInv, Looking
  <2>3. FlightInv'
    BY <1>2, <1>3, <1>5 DEF IInv, TypeOK, ReqInv, FlightInv, Looking
  <2>4. UpsertInv'
    BY <1>5, IdleType DEF IInv, ReqInv, UpsertInv
  <2> QED
    BY <2>1, <2>2, <2>3, <2>4 DEF ReqInv
<1> QED
  BY <1>4, <1>6, <1>8, <1>9 DEF IInv

------------------------------------------------------------------------------
(***************************************************************************)
(* The clock and the script.                                               *)
(***************************************************************************)
LEMMA AgedType ==
    ASSUME NEW e \in Entry, e.age <= CACHE_TTL
    PROVE  /\ [e EXCEPT !.age = e.age + 1] \in Entry
           /\ [e EXCEPT !.age = e.age + 1].age = e.age + 1
           /\ [e EXCEPT !.age = e.age + 1].geo = e.geo
BY DEF Entry

LEMMA StepTick == IInv /\ Tick => IInv'
<1> SUFFICES ASSUME IInv, Tick PROVE IInv'
  OBVIOUS
<1>1. UNCHANGED <<booting, lanEgressGeo, before, inFlight, req, profile, script>>
  BY DEF Tick, bootVars
<1>2. cache' = [i \in Ip |->
         IF i \in Keys /\ cache[i].age <= CACHE_TTL THEN [cache[i] EXCEPT !.age = cache[i].age + 1]
         ELSE cache[i]]
  BY DEF Tick
<1>3. ASSUME NEW i \in Ip, cache[i] # NoEntry
      PROVE  /\ cache'[i] \in Entry /\ cache[i] \in Entry /\ cache'[i].geo = cache[i].geo
             /\ cache'[i].age = IF cache[i].age <= CACHE_TTL THEN cache[i].age + 1 ELSE cache[i].age
  <2>1. cache[i] \in Entry
    BY <1>3 DEF IInv, TypeOK
  <2>2. CASE cache[i].age <= CACHE_TTL
    <3>1. cache'[i] = [cache[i] EXCEPT !.age = cache[i].age + 1]
      BY <1>2, <1>3, <2>2 DEF Keys
    <3> QED
      BY <2>1, <2>2, <3>1, AgedType
  <2>3. CASE ~(cache[i].age <= CACHE_TTL)
    BY <1>2, <2>1, <2>3
  <2> QED
    BY <2>2, <2>3
<1>4. ASSUME NEW i \in Ip, cache[i] = NoEntry
      PROVE  cache'[i] = NoEntry
  BY <1>2, <1>4 DEF Keys
<1>5. cache' \in [Ip -> Entry \cup {NoEntry}]
  BY <1>2, <1>3, <1>4
<1>6. Ordered(cache', before')
  <2> SUFFICES ASSUME NEW p \in before
               PROVE  /\ cache'[p[1]] # NoEntry /\ cache'[p[2]] # NoEntry
                      /\ cache'[p[1]].age >= cache'[p[2]].age
    BY <1>1 DEF Ordered
  <2>1. p[1] \in Ip /\ p[2] \in Ip
    BY DEF IInv, TypeOK
  <2>2. cache[p[1]] # NoEntry /\ cache[p[2]] # NoEntry /\ cache[p[1]].age >= cache[p[2]].age
    BY DEF IInv, CacheInv, CacheOK, Ordered
  <2>3. cache[p[1]].age \in 0..CACHE_TTL + 1 /\ cache[p[2]].age \in 0..CACHE_TTL + 1
    BY <1>3, <2>1, <2>2 DEF Entry
  <2>4. cache'[p[1]] # NoEntry /\ cache'[p[2]] # NoEntry
    BY <1>3, <2>1, <2>2
  <2>5. cache'[p[1]].age
          = IF cache[p[1]].age <= CACHE_TTL THEN cache[p[1]].age + 1 ELSE cache[p[1]].age
    BY <1>3, <2>1, <2>2
  <2>6. cache'[p[2]].age
          = IF cache[p[2]].age <= CACHE_TTL THEN cache[p[2]].age + 1 ELSE cache[p[2]].age
    BY <1>3, <2>1, <2>2
  <2>7. cache'[p[1]].age >= cache'[p[2]].age
    BY <2>2, <2>3, <2>5, <2>6
  <2> QED
    BY <2>4, <2>7
<1>7. Good(cache', lanEgressGeo')
  BY <1>1, <1>3, <1>4 DEF IInv, CacheInv, CacheOK, Good
<1>8. CacheInv'
  BY <1>1, <1>5, <1>6, <1>7 DEF IInv, CacheInv, CacheOK
<1>9. TypeOK'
  BY <1>1, <1>5 DEF IInv, TypeOK
<1>10. ReqInv'
  BY <1>1, <1>4 DEF IInv, ReqInv, LookInv, JoinInv, FlightInv, UpsertInv, Looking
<1>11. BootInv'
  <2>1. cache = [i \in Ip |-> NoEntry] => cache' = [i \in Ip |-> NoEntry]
    BY <1>4, <1>5
  <2> QED
    BY <1>1, <2>1 DEF IInv, BootInv
<1> QED
  BY <1>1, <1>8, <1>9, <1>10, <1>11 DEF IInv, ScriptInv, CityAndPointAgree

LEMMA ScriptFrame ==
    ASSUME IInv, UNCHANGED <<bootVars, cacheVars, req>>, script' \in Script, ScriptInv',
           profile' \in [Ip -> Doc \cup {NoDoc}], CityAndPointAgree'
    PROVE  IInv'
<1>1. UNCHANGED <<booting, lanEgressGeo, cache, before, inFlight, req>>
  BY DEF bootVars, cacheVars
<1>2. TypeOK'
  BY <1>1 DEF IInv, TypeOK
<1>3. BootInv' /\ CacheInv'
  BY <1>1 DEF IInv, BootInv, CacheInv
<1>4. ReqInv'
  BY <1>1 DEF IInv, ReqInv, LookInv, JoinInv, FlightInv, UpsertInv, Looking
<1> QED
  BY <1>2, <1>3, <1>4 DEF IInv

LEMMA AnswersType ==
    ASSUME NEW ip \in Ip, NEW geo \in ScriptAnswers(ip)
    PROVE  geo \in Geo /\ Honest(geo)
<1> DEFINE known == IF ip \in Private THEN privateLanGeo(NoGeo) ELSE fromGeoipLite(Offline[ip])
<1>1. known # NoGeo => known \in Geo /\ Honest(known)
  BY PrivateType, OfflineType
<1>2. UnknownGeo \in Geo /\ Honest(UnknownGeo)
  BY ConstantsType DEF Honest
<1>3. \/ geo = known /\ known # NoGeo
      \/ geo = UnknownGeo
      \/ geo # NoGeo /\ \E d \in Said : geo = fromIpWhoPayload(d)
      \/ geo # NoGeo /\ \E d \in Said : geo = fromIpApiPayload(d)
  BY DEF ScriptAnswers
<1> HIDE DEF known
<1>4. ASSUME geo # NoGeo, NEW d \in Said, geo = fromIpWhoPayload(d)
      PROVE  geo \in Geo /\ Honest(geo)
  BY <1>4, OnlineType DEF Honest
<1>5. ASSUME geo # NoGeo, NEW d \in Said, geo = fromIpApiPayload(d)
      PROVE  geo \in Geo /\ Honest(geo)
  BY <1>5, OnlineType DEF Honest
<1> QED
  BY <1>1, <1>2, <1>3, <1>4, <1>5

LEMMA StepBackfill == IInv /\ Backfill => IInv'
<1> SUFFICES ASSUME IInv, Backfill PROVE IInv'
  OBVIOUS
<1>1. script \in Script /\ profile \in [Ip -> Doc \cup {NoDoc}]
  BY DEF IInv, TypeOK
<1>2. CASE BackfillStart
  <2>1. UNCHANGED <<bootVars, cacheVars, req, profile>>
    BY <1>2 DEF BackfillStart
  <2>2. PICK todo \in SUBSET Ip : script' = [Rest EXCEPT !.todo = todo]
    BY <1>2 DEF BackfillStart
  <2>3. script' \in Script /\ script'.ip = NoIp
    BY <2>2 DEF Rest, Script
  <2> QED
    BY <1>1, <2>1, <2>3, ScriptFrame DEF IInv, ScriptInv, CityAndPointAgree
<1>3. CASE BackfillLookup
  <2>1. UNCHANGED <<bootVars, cacheVars, req, profile>>
    BY <1>3 DEF BackfillLookup
  <2>2. PICK ip \in script.todo : \E geo \in ScriptAnswers(ip) :
          script' = [todo |-> script.todo \ {ip},
                     ip |-> IF geo.city = "Unknown" THEN NoIp ELSE ip,
                     geo |-> IF geo.city = "Unknown" THEN NoGeo ELSE geo]
    BY <1>3 DEF BackfillLookup
  <2>3. script.todo \in SUBSET Ip
    BY <1>1 DEF Script
  <2>4. PICK geo \in Geo :
          /\ Honest(geo)
          /\ script' = [todo |-> script.todo \ {ip},
                        ip |-> IF geo.city = "Unknown" THEN NoIp ELSE ip,
                        geo |-> IF geo.city = "Unknown" THEN NoGeo ELSE geo]
    BY <2>2, <2>3, AnswersType
  <2>5. script' \in Script /\ ScriptInv'
    BY <2>3, <2>4 DEF Script, ScriptInv
  <2> QED
    BY <1>1, <2>1, <2>5, ScriptFrame DEF IInv, CityAndPointAgree
<1>4. CASE BackfillWrite
  <2>1. /\ UNCHANGED <<bootVars, cacheVars, req>> /\ script.ip # NoIp
        /\ profile' = [profile EXCEPT ![script.ip] = applyGeoFields(Old(script.ip), script.geo)]
        /\ script' = [script EXCEPT !.ip = NoIp, !.geo = NoGeo]
    BY <1>4 DEF BackfillWrite
  <2>2. script.ip \in Ip /\ script.geo \in Geo /\ Honest(script.geo)
    BY <2>1 DEF IInv, ScriptInv
  <2>3. profile' \in [Ip -> Doc \cup {NoDoc}] /\ CityAndPointAgree'
    BY <2>1, <2>2, ProfileWritten
  <2>4. script' \in Script /\ script'.ip = NoIp
    BY <1>1, <2>1 DEF Script
  <2> QED
    BY <2>1, <2>3, <2>4, ScriptFrame DEF ScriptInv
<1> QED
  BY <1>2, <1>3, <1>4 DEF Backfill

------------------------------------------------------------------------------
(***************************************************************************)
(* The theorems.                                                           *)
(***************************************************************************)
LEMMA StepInv == IInv /\ [Next]_vars => IInv'
<1> SUFFICES ASSUME IInv, [Next]_vars PROVE IInv'
  OBVIOUS
<1>1. CASE UNCHANGED vars
  BY <1>1, ScriptFrame DEF vars, IInv, TypeOK, ScriptInv, CityAndPointAgree
<1>2. ASSUME NEW a \in Attack, NEW ip \in Ip, resolveIpGeo(a, ip) PROVE IInv'
  BY <1>2, StepHit, StepJoin, StepLocal, StepLead DEF resolveIpGeo
<1> QED
  BY <1>1, <1>2, StepInit, StepOnline, StepUpsert, StepTick, StepBackfill DEF Next

LEMMA Invariance == Spec => []IInv
BY InitInv, StepInv, PTL DEF Spec

\* Every variable keeps its type, whatever the services say and the script does.
THEOREM TypeCorrect == Spec => []TypeOK
<1>1. IInv => TypeOK
  BY DEF IInv
<1> QED
  BY <1>1, Invariance, PTL

\* Two requests never look the same address up, however many arrive while the first one
\* waits (resolveIpGeo and its inFlight map), and nobody looks up what is kept.
THEOREM OneLookupHolds == Spec => []OneLookup
<1>1. IInv => OneLookup
  BY DEF IInv, ReqInv, LookInv, Looking, OneLookup
<1> QED
  BY <1>1, Invariance, PTL

\* What the bounded cache evicts is its oldest answer: no entry is renewed in its old place.
THEOREM CacheInOrderHolds == Spec => []CacheInOrder
<1>1. IInv => CacheInOrder
  BY DEF IInv, TypeOK, CacheInv, CacheOK, Ordered, CacheInOrder, Keys
<1> QED
  BY <1>1, Invariance, PTL

\* A private address that is kept is placed where this host is.
THEOREM LanPlacedHolds == Spec => []LanPlaced
<1>1. IInv => LanPlaced
  BY DEF IInv, CacheInv, CacheOK, Good, LanPlaced, Keys
<1> QED
  BY <1>1, Invariance, PTL

\* A profile without a place has no coordinates, whether the request or the backfill script
\* wrote it last, and whatever it said before.
THEOREM CityAndPointAgreeHolds == Spec => []CityAndPointAgree
<1>1. IInv => CityAndPointAgree
  BY DEF IInv
<1> QED
  BY <1>1, Invariance, PTL
===============================================================================
