------------------------------ MODULE GeoAnswer ------------------------------
(***************************************************************************)
(* What the telemetry service makes of what it is told about the place of  *)
(* an address.  A place is known by how exact its label is and by whether  *)
(* it comes with coordinates; names and numbers are left out.              *)
(***************************************************************************)
EXTENDS Naturals

CONSTANTS
    NoGeo,              \* no answer
    GEO_PRIVATE_CITY    \* whether the environment names a city for private addresses

Coords == {"none", "zero", "point"}

\* The fields that an answer of a service, or a record of the offline database, fills in.
Reply == [success : BOOLEAN, city : BOOLEAN, region : BOOLEAN, country : BOOLEAN,
          code : BOOLEAN, coords : Coords]

Label == {"city", "region", "country", "Tel Aviv", "LAN / Local", "Unknown"}
Geo == [city : Label, country : BOOLEAN, coords : Coords]

\* Zero and zero is what a service says that does not know.
hasValidCoords(coords) == coords = "point"

formatCity(city, region, country) ==
    CASE city -> "city"
      [] ~city /\ region -> "region"
      [] ~city /\ ~region /\ country -> "country"
      [] OTHER -> "Unknown"

\* A country has a name when its code is known.
countryLabel(data) == data.country \/ data.code

buildGeoResult(city, country, coords) ==
    [city |-> city, country |-> country,
     coords |-> IF hasValidCoords(coords) THEN coords ELSE "none"]

UnknownGeo == buildGeoResult("Unknown", FALSE, "none")

\* The answer for a label, if there is one.
Labelled(label, country, coords) ==
    IF label = "Unknown" THEN NoGeo ELSE buildGeoResult(label, country, coords)

\* A record without a city is labelled by its country, so the code's last case (a country
\* with coordinates and no label) never occurs.
fromGeoipLite(geo) ==
    IF geo = NoGeo THEN NoGeo
    ELSE Labelled(formatCity(geo.city, geo.region, geo.code), geo.code, geo.coords)

fromIpWhoPayload(data) ==
    IF ~data.success THEN NoGeo
    ELSE Labelled(formatCity(data.city, data.region, countryLabel(data)),
                  countryLabel(data), data.coords)

\* The other service names its fields differently and says as much.
fromIpApiPayload(data) ==
    IF ~data.success THEN NoGeo
    ELSE Labelled(formatCity(data.city, data.region, countryLabel(data)),
                  countryLabel(data), data.coords)

ISRAEL_FALLBACK == [city |-> "Tel Aviv", country |-> TRUE, coords |-> "point"]

\* A private address is where the host's public address is, when that is known.
privateLanGeo(lanEgressGeo) ==
    CASE lanEgressGeo # NoGeo -> lanEgressGeo
      [] lanEgressGeo = NoGeo /\ GEO_PRIVATE_CITY -> buildGeoResult("city", TRUE, "point")
      [] OTHER -> buildGeoResult("LAN / Local", FALSE, "none")

\* The event and the live alert carry numbers: none becomes zero.
applyGeoToPayload(geo) ==
    [geo EXCEPT !.coords = IF geo.coords = "none" THEN "zero" ELSE geo.coords]

\* What the profile takes over from the event.
geoFromAttackData(body) == IF body.city = "Unknown" THEN NoGeo ELSE body

\* Mutant: an answer without coordinates leaves the old ones.
applyGeoFieldsWhenValid(doc, geo) ==
    [city |-> geo.city, country |-> doc.country \/ geo.country,
     coords |-> IF hasValidCoords(geo.coords) THEN geo.coords ELSE doc.coords]

\* The profile: $set leaves the country alone when the answer has none.
applyGeoFields(doc, geo) ==
    [city |-> geo.city, country |-> doc.country \/ geo.country,
     coords |-> IF hasValidCoords(geo.coords) THEN geo.coords ELSE "none"]

\* The profiles that the backfill script looks up again.
Missing(doc) == doc.city \in {"Unknown", "Tel Aviv"} \/ ~hasValidCoords(doc.coords)
==============================================================================
