------------------------------ MODULE MCGateway ------------------------------
(* A client on the network, who tries the traps, and one on the machine itself; the panel   *)
(* runs on the machine and nginx beside it.  Both may name another machine, the machine     *)
(* itself or a list of the two, in each of the headers.                                     *)
EXTENDS Gateway

CONSTANTS lan, local, nginx, other, nobody, unknown, w1, w2

MCSlot == {w1, w2}
MCAddress == {lan, local, nginx, other}

Get(p) == [NoRequest EXCEPT !.path = p]
With(p, kinds) == [Get(p) EXCEPT !.parameters = kinds]

Own ==
    {NoHeaders}
    \cup {[NoHeaders EXCEPT !.forwarded = list] : list \in {<<other>>, <<local>>, <<local, other>>}}
    \cup {[NoHeaders EXCEPT !.client = a] : a \in {other, local}}
    \cup {[NoHeaders EXCEPT !.real = a] : a \in {other, local}}
    \cup {[NoHeaders EXCEPT !.cdn = a] : a \in {other, local}}

AnyAsk ==
    {<<lan, via, Get("portal"), own>> : via \in Via, own \in Own}
    \cup {<<local, via, Get("portal"), own>> : via \in {"direct", "panel"}, own \in Own}
    \cup {<<nginx, "direct", Get("portal"), own>> : own \in Own}
    \cup {<<lan, "nginx", r, NoHeaders>> : r \in
       {With("portal", {"SQLI", "DATA_BOMB"}), With("portal", {"SSRF", "XSS"}),
        With("portal", {"PATH_TRAVERSAL"}), With("portal", {"XSS", "RECON"}),
        [With("database", {"DATA_BOMB"}) EXCEPT !.dump = TRUE],
        [Get("login") EXCEPT !.method = "POST", !.credentials = {"SQLI"}],
        [Get("legacySignIn") EXCEPT !.method = "POST"],
        [Get("legacySignIn") EXCEPT !.tag = "brute"],
        [Get("gitConfigLeak") EXCEPT !.scanner = TRUE], [Get("portal") EXCEPT !.scanner = TRUE],
        [With("portal", {"RECON"}) EXCEPT !.token = "known"],
        [Get("hrExport") EXCEPT !.token = "known"], [Get("storageList") EXCEPT !.token = "unknown"],
        [With("portal", {"SSRF"}) EXCEPT !.token = "unknown"],
        [With("login", {"SSRF", "SQLI"}) EXCEPT !.method = "POST", !.credentials = {"PATH_TRAVERSAL"}],
        Get("archives"), Get("archiveExport"), Get("apiKeys"), Get("signOut")}}

\* The second slot is there for the traps that share something.
MCAsks == (w1 :> AnyAsk) @@ (w2 :> {a \in AnyAsk : a[3].path \in {"database", "legacySignIn"}})
==============================================================================
