------------------------------ MODULE Detection ------------------------------
(***************************************************************************)
(* What the gateway finds in a request, and which trap it belongs to.      *)
(* A request is what the patterns tell apart: its place in the site, and   *)
(* the kinds of attack that match the parts the detection looks at.        *)
(***************************************************************************)
EXTENDS Naturals, Sequences

\* A request has one trap: the first of these that matches.
PRIORITY == <<"SCANNER", "SQLI", "SSRF", "PATH_TRAVERSAL", "XSS", "DATA_BOMB", "RECON">>

Kind == {PRIORITY[n] : n \in DOMAIN PRIORITY}
Trap == Kind \cup {"HONEY_TOKEN", "BRUTE_FORCE"}

\* The places of the site: those of the deception (config/deceptionPaths.js), each with its
\* aliases, the two redirect labyrinths, the sign-in of the employees, and the rest.
DeceptionPath == {"console", "legacySignIn", "database", "apiKeys", "hrExport", "storageList",
                  "archiveExport", "fileViewer", "fetchStatus", "signOut", "envLeak",
                  "gitConfigLeak"}
Path == DeceptionPath \cup {"archives", "legacyArchives", "login", "portal"}

isHoneyApiPath(p) == p \in {"hrExport", "storageList"}
isLeakedArtifactPath(p) == p \in {"envLeak", "gitConfigLeak"}

\* isAuthFormPath: a form of credentials.
isAuthFormPath(p) == p \in {"login", "legacySignIn"}

\* What the patterns find in the place itself.
PathKinds(p) ==
    IF isLeakedArtifactPath(p) THEN {"RECON"}
    ELSE IF p = "legacyArchives" THEN {"DATA_BOMB"}
    ELSE {}

\* "file" and "url": the query is that parameter and no other.
Tag == {"none", "ack", "breach", "brute", "bypass", "file", "url"}

Request ==
    [path : Path, method : {"GET", "POST"},
     scanner : BOOLEAN,                        \* the user agent of a scanner
     credentials : SUBSET Kind,                \* found in user name and password
     parameters : SUBSET Kind,                 \* found in query and body
     token : {"none", "known", "unknown"},     \* the key presented, if any
     dump : BOOLEAN,                           \* export=credentials, or a query of that kind
     tag : Tag]                                \* what a redirect added to the query

\* uniqueOrdered, of which only the first counts.
primaryOf(found) ==
    PRIORITY[CHOOSE n \in DOMAIN PRIORITY :
               PRIORITY[n] \in found /\ \A m \in 1..(n - 1) : PRIORITY[m] \notin found]

\* getThreatTypes, and getThreatTypesFromCredentials for a form.
getThreatTypes(r) ==
    (IF r.scanner THEN {"SCANNER"} ELSE {})
    \cup (IF isAuthFormPath(r.path) THEN r.credentials ELSE r.parameters \cup PathKinds(r.path))

NoThreat == [type |-> "none", secondary |-> {}]

\* gatekeeper, after the detector of honey tokens: a known key decides the trap, and what else
\* was found is kept beside it.
threatInfo(r) ==
    LET types == getThreatTypes(r) IN
    IF r.token = "known" THEN [type |-> "HONEY_TOKEN", secondary |-> types]
    ELSE IF types = {} THEN NoThreat
    ELSE [type |-> primaryOf(types), secondary |-> types \ {primaryOf(types)}]
==============================================================================
