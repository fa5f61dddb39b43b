---------------------------- MODULE ClientAddress ----------------------------
(***************************************************************************)
(* Whom a request is charged to (clientIpCore.js), behind the proxies that *)
(* may stand in front of the gateway.  Addresses are values; those written *)
(* in several ways (::1, ::ffff:..., with a port) are one value, and what  *)
(* stands where an address should is an address: normalizeIp checks none.  *)
(***************************************************************************)
EXTENDS Naturals, Sequences, SequencesExt

CONSTANTS
    Address,
    Loopback,       \* the addresses of the machine itself
    Trusted,        \* those TRUSTED_PROXY_IPS lists, by range, prefix or value
    NGINX, PANEL,   \* the addresses the gateway sees of its two proxies
    NoAddress, Unknown

ASSUME AddressAssumption ==
    /\ Loopback \subseteq Address /\ Trusted \subseteq Address
    /\ {NGINX, PANEL} \subseteq Address
    /\ NoAddress \notin Address /\ Unknown \notin Address

\* The headers that name addresses: x-client-ip, x-forwarded-for, x-real-ip and, of a CDN,
\* cf-connecting-ip.  No deployment of the repository has a CDN, but any client, or a proxy of
\* its own, may send each of them.
Headers == [client : Address \cup {NoAddress}, forwarded : Seq(Address),
            real : Address \cup {NoAddress}, cdn : Address \cup {NoAddress}]

NoHeaders == [client |-> NoAddress, forwarded |-> <<>>, real |-> NoAddress, cdn |-> NoAddress]

\* The addresses they name.
Named(h) == Range(h.forwarded) \cup ({h.client, h.real, h.cdn} \ {NoAddress})

isLoopback(a) == a \in Loopback

isTrustedLocalProxy(m) == isLoopback(m.peer)

isTrustedProxy(m) == isTrustedLocalProxy(m) \/ m.peer \in Trusted

Given(a) == IF a = NoAddress THEN <<>> ELSE <<a>>

\* The machines outside.
Outside == Address \ Loopback

\* The first of the addresses in s, or default.
First(s, addresses, default) ==
    IF \E n \in DOMAIN s : s[n] \in addresses
      THEN s[CHOOSE n \in DOMAIN s : s[n] \in addresses /\ \A m \in 1..(n - 1) : s[m] \notin addresses]
      ELSE default

\* The addresses a request m may come from, the most believable first.
candidatesOf(m) ==
    (IF isTrustedLocalProxy(m) THEN Given(m.client) ELSE <<>>)
    \o (IF isTrustedProxy(m) THEN m.forwarded \o Given(m.real) \o Given(m.cdn) ELSE <<>>)
    \o <<m.peer>>

\* Mutant: the headers are believed only of the machine itself.
resolveAttackerIpLocally(m) ==
    First(IF isTrustedLocalProxy(m) THEN candidatesOf(m) ELSE <<m.peer>>,
          Outside, m.peer)

resolveAttackerIp(m) ==
    LET candidates == candidatesOf(m)
        outside == First(candidates, Outside, NoAddress)
    IN  IF outside # NoAddress THEN outside
        ELSE IF isTrustedLocalProxy(m) THEN First(candidates, Loopback, Unknown)
        ELSE Unknown

\* resolveMiddlewareClientIp: what the panel makes of a request it passes on; whoever its peer
\* is, the headers are believed.
resolveMiddlewareClientIp(m) ==
    LET candidates == Given(m.cdn) \o m.forwarded \o Given(m.real) \o <<m.peer>>
    IN  First(candidates, Outside, Head(candidates))

\* applyGatewayClientIpHeaders, and the rewrite that sends the request on.
RelayByPanel(m) ==
    LET ip == resolveMiddlewareClientIp(m)
    IN  [m EXCEPT !.peer = PANEL, !.client = ip, !.real = ip,
                  !.forwarded = IF Contains(@, ip) THEN @ ELSE <<ip>> \o @]

\* proxy_set_header of nginx.conf; it appends to x-forwarded-for whatever that had, and
\* passes x-client-ip and cf-connecting-ip on as they came.
RelayByNginx(m) ==
    [m EXCEPT !.peer = NGINX, !.real = m.peer, !.forwarded = Append(@, m.peer)]

\* What a machine sends with the headers own.
Sent(a, own) == [peer |-> a, client |-> own.client, forwarded |-> own.forwarded,
                 real |-> own.real, cdn |-> own.cdn]

\* The way of a request: straight, or through the proxies in their order.
Via == {"direct", "panel", "nginx", "nginx_panel"}

\* The proxies on a way.
Proxies(via) ==
    CASE via = "direct" -> {}
      [] via = "panel" -> {PANEL}
      [] via = "nginx" -> {NGINX}
      [] via = "nginx_panel" -> {NGINX, PANEL}

\* What the gateway sees of a request of a that came with the headers own.
Received(a, via, own) ==
    CASE via = "direct" -> Sent(a, own)
      [] via = "panel" -> RelayByPanel(Sent(a, own))
      [] via = "nginx" -> RelayByNginx(Sent(a, own))
      [] via = "nginx_panel" -> RelayByPanel(RelayByNginx(Sent(a, own)))

\* The addresses a request names for itself where they are believed: not on a straight way
\* from a machine that is trusted with none.
Claims(a, via, own) ==
    IF via = "direct" /\ a \notin Loopback \cup Trusted THEN {} ELSE Named(own)
==============================================================================
