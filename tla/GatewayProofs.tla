---------------------------- MODULE GatewayProofs ----------------------------
(***************************************************************************)
(* Proofs about Gateway, and after them those about BanSync, which keeps   *)
(* the gateway's copy of the bans.                                         *)
(*                                                                         *)
(* What the gateway does to a request is one of two things.  The request   *)
(* is handed to a handler (Taken): it comes, follows a redirect, or its    *)
(* key was checked.  Or it goes on after an await (GoesOn).  Both leave    *)
(* every request Sound, which says of each place a handler can stop at     *)
(* what the request looks like there.                                      *)
(*                                                                         *)
(* That redirects end is a matter of the history of a request.  Rank       *)
(* bounds the redirects that may still follow it, and every redirect but   *)
(* those of the labyrinth takes one off it; ChainFits ties what the        *)
(* history counts to Rank and to the depth in the labyrinth.               *)
(***************************************************************************)
EXTENDS Gateway, BanSync, FiniteSetTheorems, TLAPS

------------------------------------------------------------------------------
(***************************************************************************)
(* Numbers                                                                 *)
(***************************************************************************)

\* Division with remainder, and that the remainder is one.
LEMMA Remainder ==
    ASSUME NEW n \in Nat, NEW c \in Nat \ {0}
    PROVE n % c \in 0..(c - 1) /\ n \div c \in Nat /\ n = c * (n \div c) + (n % c)
<1>1. n % c \in 0..(c - 1)
  OBVIOUS
<1>2. n \div c \in Nat
  OBVIOUS
<1>3. n = c * (n \div c) + (n % c)
  OBVIOUS
<1> QED
  BY <1>1, <1>2, <1>3

LEMMA RemainderIs ==
    ASSUME NEW n \in Nat, NEW c \in Nat \ {0}, NEW a \in Nat, NEW r \in 0..(c - 1), n = c * a + r
    PROVE n % c = r
<1> DEFINE b == n \div c
           m == n % c
<1>1. b \in Nat /\ m \in 0..(c - 1) /\ n = c * b + m
  BY Remainder
<1> HIDE DEF b, m
<1>2. c * a - c * b = m - r /\ c * a \in Int /\ c * b \in Int
  BY <1>1
<1>3. ~(a > b)
  <2>1. a > b => c * a >= c * (b + 1) /\ c * (b + 1) = c * b + c
    BY <1>1
  <2> QED
    BY <1>1, <1>2, <2>1
<1>4. ~(b > a)
  <2>1. b > a => c * b >= c * (a + 1) /\ c * (a + 1) = c * a + c
    BY <1>1
  <2> QED
    BY <1>1, <1>2, <2>1
<1>5. a = b
  BY <1>1, <1>3, <1>4
<1>6. m = r
  BY <1>1, <1>5
<1> QED
  BY <1>6 DEF m

\* Unless it starts again at 0, the remainder of the next number is one more.
LEMMA NextRemainder ==
    ASSUME NEW n \in Nat, NEW c \in Nat \ {0}, (n + 1) % c # 0
    PROVE (n + 1) % c = (n % c) + 1
<1> DEFINE a == n \div c
          r == n % c
<1>1. a \in Nat /\ r \in 0..(c - 1) /\ n = c * a + r
  BY Remainder
<1> HIDE DEF a, r
<1>2. CASE r = c - 1
  <2>1. c * (a + 1) = c * a + c
    BY <1>1
  <2>2. n + 1 = c * (a + 1) + 0
    BY <1>1, <1>2, <2>1
  <2>3. 0 \in 0..(c - 1) /\ a + 1 \in Nat /\ n + 1 \in Nat
    BY <1>1
  <2>4. (n + 1) % c = 0
    BY <2>2, <2>3, RemainderIs
  <2> QED
    BY <2>4
<1>3. CASE r # c - 1
  <2>1. r + 1 \in 0..(c - 1) /\ n + 1 \in Nat /\ n + 1 = c * a + (r + 1)
    BY <1>1, <1>3
  <2>2. (n + 1) % c = r + 1
    BY <1>1, <2>1, RemainderIs
  <2> QED
    BY <2>2 DEF r
<1> QED
  BY <1>2, <1>3

\* A set of numbers has a least one.
LEMMA Least ==
    ASSUME NEW N \in SUBSET Nat, NEW n \in N
    PROVE \E k \in N : \A m \in N : k <= m
<1> DEFINE S == 1..n
          T == {1..k : k \in {k \in N : k <= n}}
<1>1. IsFiniteSet(S)
  BY FS_Interval
<1>2. T \subseteq FiniteSubsetsOf(S) /\ T # {}
  <2>1. ASSUME NEW k \in N, k <= n PROVE 1..k \in FiniteSubsetsOf(S)
    <3>1. 1..k \subseteq S
      BY <2>1
    <3> QED
      BY <1>1, <3>1, FS_Subset DEF FiniteSubsetsOf
  <2>2. 1..n \in T
    OBVIOUS
  <2> QED
    BY <2>1, <2>2
<1>3. PICK t \in T : \A u \in T : ~(<<u, t>> \in StrictSubsetOrdering(S))
  <2> HIDE DEF T, S
  <2> QED
    BY <1>2, WFMin, <1>1, FS_StrictSubsetOrderingWellFounded
<1>4. PICK k \in N : k <= n /\ t = 1..k
  BY <1>3
<1>5. ASSUME NEW m \in N PROVE k <= m
  <2>1. SUFFICES ASSUME m < k PROVE FALSE
    OBVIOUS
  <2>2. 1..m \in T /\ 1..m \subseteq 1..k
    BY <1>4, <2>1
  <2>3. k \in 1..k /\ k \notin 1..m
    BY <2>1
  <2>4. 1..m # 1..k
    BY <2>3
  <2>5. <<1..m, 1..k>> \in StrictSubsetOrdering(S)
    BY <2>2, <2>4, <1>2, <1>3, <1>4 DEF StrictSubsetOrdering, FiniteSubsetsOf
  <2> QED
    BY <1>3, <1>4, <2>2, <2>5
<1> QED
  BY <1>5

------------------------------------------------------------------------------
(***************************************************************************)
(* Whom a request is charged to.                                           *)
(***************************************************************************)

\* If the n-th of a list is of A, what First finds is of A, and comes no later.
LEMMA FirstIn ==
    ASSUME NEW S, NEW A, NEW s \in Seq(S), NEW default, NEW n \in DOMAIN s, s[n] \in A
    PROVE \E k \in 1..n : First(s, A, default) = s[k] /\ s[k] \in A
<1> DEFINE N == {m \in DOMAIN s : s[m] \in A}
<1>1. DOMAIN s = 1..Len(s) /\ Len(s) \in Nat
  OBVIOUS
<1>2. N \in SUBSET Nat /\ n \in N
  BY <1>1
<1>3. PICK k \in N : \A m \in N : k <= m
  <2> HIDE DEF N
  <2> QED
    BY <1>2, Least
<1>4. k \in DOMAIN s /\ s[k] \in A /\ \A m \in 1..(k - 1) : s[m] \notin A
  <2>1. ASSUME NEW m \in 1..(k - 1) PROVE s[m] \notin A
    <3>1. m \in DOMAIN s /\ ~(k <= m)
      BY <1>1, <1>3
    <3> QED
      BY <1>3, <3>1
  <2> QED
    BY <1>3, <2>1
<1> DEFINE c == CHOOSE i \in DOMAIN s : s[i] \in A /\ \A m \in 1..(i - 1) : s[m] \notin A
<1>5. c \in DOMAIN s /\ s[c] \in A /\ \A m \in 1..(c - 1) : s[m] \notin A
  BY <1>4
<1>6. First(s, A, default) = s[c]
  BY <1>4 DEF First
<1> HIDE DEF c
<1>7. c \in 1..n
  <2>1. n \in 1..(c - 1) => s[n] \notin A
    BY <1>5
  <2> QED
    BY <1>1, <1>5, <2>1
<1> QED
  BY <1>5, <1>6, <1>7

LEMMA FirstIsNone ==
    ASSUME NEW A, NEW s, NEW default, \A n \in DOMAIN s : s[n] \notin A
    PROVE First(s, A, default) = default
  BY DEF First

\* A list h of addresses of N, and p that comes after it, which a is behind: unless p is a,
\* the list names somebody, and if a is outside, somebody outside.
Behind(h, p, a, N) ==
    /\ h \in Seq(N) /\ p \in Address /\ a \in N /\ N \subseteq Address
    /\ \/ p = a
       \/ h # <<>> /\ (a \in Outside => \E n \in DOMAIN h : h[n] \in Outside)
    /\ a \in Loopback => p \in Loopback

\* Then the first outside, and if there is none the first of all, is of N.
LEMMA BehindFirst ==
    ASSUME NEW N, NEW a, NEW p, NEW h, Behind(h, p, a, N),
           NEW list, list = h \o <<p>>, NEW default
    PROVE /\ list \in Seq(Address) /\ list # <<>>
          /\ \/ First(list, Outside, default) \in N \cap Outside
             \/ /\ \A n \in DOMAIN list : list[n] \notin Outside
                /\ a \in Loopback
                /\ First(list, Loopback, Unknown) \in N /\ list[1] \in N
<1>0. /\ h \in Seq(N) /\ p \in Address /\ a \in N /\ N \subseteq Address
      /\ Len(h) \in Nat /\ DOMAIN h = 1..Len(h)
      /\ \A n \in DOMAIN h : h[n] \in N
  BY DEF Behind
<1>1. /\ list \in Seq(Address) /\ list # <<>>
      /\ DOMAIN list = 1..(Len(h) + 1) /\ list[Len(h) + 1] = p
      /\ \A n \in DOMAIN h : list[n] = h[n]
  <2>1. h \in Seq(Address) /\ <<p>> \in Seq(Address) /\ Len(<<p>>) = 1 /\ <<p>>[1] = p
    BY <1>0
  <2>2. list \in Seq(Address) /\ Len(list) = Len(h) + 1
    BY <2>1
  <2>3. \A n \in 1..(Len(h) + 1) : list[n] = IF n <= Len(h) THEN h[n] ELSE <<p>>[n - Len(h)]
    BY <2>1
  <2>4. DOMAIN list = 1..(Len(h) + 1) /\ list # <<>>
    BY <2>2, <1>0
  <2> QED
    BY <1>0, <2>1, <2>2, <2>3, <2>4
<1>2. CASE \E n \in DOMAIN h : h[n] \in Outside
  <2>1. PICK n \in DOMAIN h : h[n] \in Outside
    BY <1>2
  <2>2. n \in DOMAIN list /\ list[n] \in Outside
    BY <1>0, <1>1, <2>1
  <2>3. PICK k \in 1..n : First(list, Outside, default) = list[k] /\ list[k] \in Outside
    BY <1>1, <2>2, FirstIn
  <2>4. k \in DOMAIN h
    BY <1>0, <2>1
  <2> QED
    BY <1>0, <1>1, <2>3, <2>4
<1>3. CASE p = a /\ a \in Outside
  <2>1. Len(h) + 1 \in DOMAIN list /\ list[Len(h) + 1] \in Outside
    BY <1>0, <1>1, <1>3
  <2>2. PICK k \in 1..(Len(h) + 1) : First(list, Outside, default) = list[k] /\ list[k] \in Outside
    BY <1>1, <2>1, FirstIn
  <2>3. list[k] \in N
    BY <1>0, <1>1, <1>3
  <2> QED
    BY <1>1, <2>2, <2>3
<1>4. CASE a \in Loopback /\ ~\E n \in DOMAIN h : h[n] \in Outside
  <2>1. p \in Loopback
    BY <1>4 DEF Behind
  <2>2. \A n \in DOMAIN list : list[n] \in Loopback
    BY <1>0, <1>1, <1>4, <2>1 DEF Outside
  <2>3. \A n \in DOMAIN list : list[n] \notin Outside
    BY <2>2 DEF Outside
  <2>4. 1 \in DOMAIN list /\ list[1] \in N
    <3>1. CASE h = <<>>
      <4>1. Len(h) = 0 /\ p = a
        BY <3>1 DEF Behind
      <4> QED
        BY <1>0, <1>1, <4>1
    <3>2. CASE h # <<>>
      <4>1. 1 \in DOMAIN h
        BY <1>0, <3>2
      <4> QED
        BY <1>0, <1>1, <4>1
    <3> QED
      BY <3>1, <3>2
  <2>5. First(list, Loopback, Unknown) = list[1]
    <3>1. list[1] \in Loopback
      BY <2>2, <2>4
    <3>2. PICK k \in 1..1 : First(list, Loopback, Unknown) = list[k] /\ list[k] \in Loopback
      BY <1>1, <2>4, <3>1, FirstIn
    <3> QED
      BY <3>2
  <2> QED
    BY <1>1, <1>4, <2>3, <2>4, <2>5
<1>5. a \in Outside \/ a \in Loopback
  BY <1>0 DEF Outside
<1>6. a \in Outside => p = a \/ \E n \in DOMAIN h : h[n] \in Outside
  BY DEF Behind
<1> QED
  BY <1>2, <1>3, <1>4, <1>5, <1>6

\* What a server sees of a request of a, where the headers name nobody who is not in N.
Vouched(m, a, N) ==
    /\ m \in [peer : Address, client : N \cup {NoAddress}, forwarded : Seq(N),
              real : N \cup {NoAddress}, cdn : N \cup {NoAddress}]
    /\ m.peer = a \/ m.peer \in Loopback \cup Trusted
    /\ Behind(m.forwarded, m.peer, a, N)

\* More headers, before and after, do no harm.
LEMMA BehindMore ==
    ASSUME NEW N, NEW a, NEW p, NEW h, NEW s \in Seq(N), NEW t \in Seq(N), Behind(h, p, a, N)
    PROVE Behind(s \o h, p, a, N) /\ Behind(h \o t, p, a, N)
<1>1. h \in Seq(N)
  BY DEF Behind
<1>2. s \o h \in Seq(N) /\ h \o t \in Seq(N)
  BY <1>1
<1>3. h # <<>> => s \o h # <<>> /\ h \o t # <<>>
  <2>1. h # <<>> => Len(h) >= 1
    BY <1>1
  <2>2. Len(s \o h) = Len(s) + Len(h) /\ Len(h \o t) = Len(h) + Len(t)
    BY <1>1
  <2>3. Len(<<>>) = 0 /\ Len(s) \in Nat /\ Len(t) \in Nat /\ Len(h) \in Nat
    BY <1>1
  <2> QED
    BY <2>1, <2>2, <2>3
<1>4. ASSUME NEW n \in DOMAIN h, h[n] \in Outside
      PROVE /\ \E k \in DOMAIN (s \o h) : (s \o h)[k] \in Outside
            /\ \E k \in DOMAIN (h \o t) : (h \o t)[k] \in Outside
  <2>1. n \in 1..Len(h) /\ Len(h) \in Nat /\ Len(s) \in Nat /\ Len(t) \in Nat
    BY <1>1
  <2>2. /\ Len(s) + n \in DOMAIN (s \o h) /\ (s \o h)[Len(s) + n] = h[n]
        /\ n \in DOMAIN (h \o t) /\ (h \o t)[n] = h[n]
    BY <1>1, <2>1
  <2> QED
    BY <1>4, <2>2
<1> QED
  BY <1>2, <1>3, <1>4 DEF Behind

LEMMA GivenIs ==
    ASSUME NEW N, NEW x \in N \cup {NoAddress}
    PROVE Given(x) \in Seq(N)
  BY DEF Given

\* Whom the gateway charges with it, and whom the panel makes it out to be of.
LEMMA VouchedResolved ==
    ASSUME NEW N, NEW a, NEW m, Vouched(m, a, N)
    PROVE /\ resolveAttackerIp(m) \in N
          /\ resolveMiddlewareClientIp(m) \in N
          /\ a \in Outside => resolveMiddlewareClientIp(m) \in Outside
<1> DEFINE client == IF isTrustedLocalProxy(m) THEN Given(m.client) ELSE <<>>
          named == m.forwarded \o Given(m.real)
          headers == IF isTrustedProxy(m) THEN named \o Given(m.cdn) ELSE <<>>
<1>0. Behind(m.forwarded, m.peer, a, N)
  BY DEF Vouched
<1>1. /\ Given(m.client) \in Seq(N) /\ Given(m.real) \in Seq(N) /\ Given(m.cdn) \in Seq(N)
      /\ <<>> \in Seq(N)
  BY GivenIs DEF Vouched
<1>2. Behind(named, m.peer, a, N)
  BY <1>0, <1>1, BehindMore
<1> HIDE DEF named
<1>3. Behind(headers, m.peer, a, N)
  <2>1. CASE isTrustedProxy(m)
    BY <1>1, <1>2, <2>1, BehindMore
  <2>2. CASE ~isTrustedProxy(m)
    <3>1. m.peer = a
      BY <2>2 DEF Vouched, isTrustedProxy, isTrustedLocalProxy, isLoopback
    <3> QED
      BY <1>0, <1>1, <2>2, <3>1 DEF Behind
  <2> QED
    BY <2>1, <2>2
<1>4. client \in Seq(N)
  BY <1>1
<1>5. candidatesOf(m) = (client \o headers) \o <<m.peer>>
  BY DEF candidatesOf, named
<1>6. a \in Loopback => isTrustedLocalProxy(m)
  BY <1>0 DEF Behind, isTrustedLocalProxy, isLoopback
<1>7. NoAddress \notin N
  BY <1>0, AddressAssumption DEF Behind
<1> HIDE DEF client, headers
<1>8. Behind(client \o headers, m.peer, a, N)
  BY <1>3, <1>4, BehindMore
<1>9. resolveAttackerIp(m) \in N
  <2> DEFINE list == candidatesOf(m)
  <2>1. \/ First(list, Outside, NoAddress) \in N \cap Outside
        \/ /\ \A n \in DOMAIN list : list[n] \notin Outside
           /\ a \in Loopback
           /\ First(list, Loopback, Unknown) \in N
    <3>1. list = (client \o headers) \o <<m.peer>>
      BY <1>5
    <3> HIDE DEF list
    <3> QED
      BY <1>8, <3>1, BehindFirst
  <2> QED
    BY <1>6, <1>7, <2>1, FirstIsNone DEF resolveAttackerIp
<1>10. /\ resolveMiddlewareClientIp(m) \in N
       /\ a \in Outside => resolveMiddlewareClientIp(m) \in Outside
  <2> DEFINE before == (Given(m.cdn) \o m.forwarded) \o Given(m.real)
  <2>1. Behind(before, m.peer, a, N)
    <3>1. Behind(Given(m.cdn) \o m.forwarded, m.peer, a, N)
      BY <1>0, <1>1, BehindMore
    <3> QED
      BY <1>1, <3>1, BehindMore
  <2> DEFINE list == before \o <<m.peer>>
  <2>2. resolveMiddlewareClientIp(m) = First(list, Outside, Head(list))
    BY DEF resolveMiddlewareClientIp
  <2> HIDE DEF before
  <2>3. list = before \o <<m.peer>>
    OBVIOUS
  <2> HIDE DEF list
  <2>4. /\ list \in Seq(Address) /\ list # <<>>
        /\ \/ First(list, Outside, Head(list)) \in N \cap Outside
           \/ (\A n \in DOMAIN list : list[n] \notin Outside) /\ a \in Loopback /\ list[1] \in N
    BY <2>1, <2>3, BehindFirst
  <2>5. Head(list) = list[1]
    BY <2>4
  <2> QED
    BY <2>2, <2>4, <2>5, FirstIsNone DEF Outside
<1> QED
  BY <1>9, <1>10

\* A message with some of its fields written anew.
LEMMA Rewritten ==
    ASSUME NEW P, NEW C, NEW F, NEW p \in P, NEW c \in C, NEW f \in F, NEW r \in C,
           NEW m \in [peer : P, client : C, forwarded : F, real : C, cdn : C]
    PROVE /\ LET n == [m EXCEPT !.peer = p, !.client = c, !.real = r, !.forwarded = f]
             IN  /\ n \in [peer : P, client : C, forwarded : F, real : C, cdn : C]
                 /\ n.peer = p /\ n.forwarded = f
          /\ LET n == [m EXCEPT !.peer = p, !.real = r, !.forwarded = f]
             IN  /\ n \in [peer : P, client : C, forwarded : F, real : C, cdn : C]
                 /\ n.peer = p /\ n.forwarded = f
<1>1. LET n == [m EXCEPT !.peer = p, !.client = c, !.real = r, !.forwarded = f]
      IN  /\ n \in [peer : P, client : C, forwarded : F, real : C, cdn : C]
          /\ n.peer = p /\ n.forwarded = f
  OBVIOUS
<1>2. LET n == [m EXCEPT !.peer = p, !.real = r, !.forwarded = f]
      IN  /\ n \in [peer : P, client : C, forwarded : F, real : C, cdn : C]
          /\ n.peer = p /\ n.forwarded = f
  OBVIOUS
<1> QED
  BY <1>1, <1>2

\* What a machine sends, and what the proxies make of it.
LEMMA SentVouched ==
    ASSUME NEW N \in SUBSET Address, NEW a \in N, NEW own \in Headers, Named(own) \subseteq N
    PROVE Vouched(Sent(a, own), a, N)
<1>1. own.forwarded \in Seq(N)
  <2>1. own.forwarded \in Seq(Address)
    BY DEF Headers
  <2>2. \A n \in DOMAIN own.forwarded : own.forwarded[n] \in N
    BY <2>1 DEF Named, Range
  <2> QED
    BY <2>1, <2>2
<1>2. /\ own.client \in N \cup {NoAddress} /\ own.real \in N \cup {NoAddress}
      /\ own.cdn \in N \cup {NoAddress}
  BY DEF Headers, Named
<1>3. a \in Address
  OBVIOUS
<1>4. Behind(own.forwarded, a, a, N)
  BY <1>1, <1>3 DEF Behind
<1> QED
  BY <1>1, <1>2, <1>3, <1>4 DEF Vouched, Sent

LEMMA NginxVouched ==
    ASSUME NEW N \in SUBSET Address, NEW a \in N, NEW own \in Headers, Named(own) \subseteq N,
           NGINX \in Loopback \cup Trusted, a \in Loopback => NGINX \in Loopback
    PROVE Vouched(RelayByNginx(Sent(a, own)), a, N)
<1> DEFINE sent == Sent(a, own)
          f == Append(sent.forwarded, a)
          m == RelayByNginx(sent)
<1>1. Vouched(sent, a, N) /\ sent.peer = a
  BY SentVouched DEF Sent
<1> HIDE DEF sent
<1>2. /\ sent \in [peer : Address, client : N \cup {NoAddress}, forwarded : Seq(N),
                   real : N \cup {NoAddress}, cdn : N \cup {NoAddress}]
  BY <1>1 DEF Vouched
<1>3. /\ f \in Seq(N) /\ f # <<>>
      /\ Len(sent.forwarded) + 1 \in DOMAIN f /\ f[Len(sent.forwarded) + 1] = a
  <2>1. sent.forwarded \in Seq(N)
    BY <1>2
  <2> QED
    BY <2>1
<1> HIDE DEF f
<1>4. m = [sent EXCEPT !.peer = NGINX, !.real = a, !.forwarded = f]
  BY <1>1 DEF RelayByNginx, f
<1>5. NGINX \in Address /\ a \in N \cup {NoAddress}
  BY AddressAssumption
<1>6. /\ m \in [peer : Address, client : N \cup {NoAddress}, forwarded : Seq(N),
                real : N \cup {NoAddress}, cdn : N \cup {NoAddress}]
      /\ m.peer = NGINX /\ m.forwarded = f
  <2> HIDE DEF m
  <2> QED
    BY <1>2, <1>3, <1>4, <1>5, Rewritten
<1> HIDE DEF m
<1>7. Behind(f, NGINX, a, N)
  BY <1>3, <1>5 DEF Behind
<1> QED
  BY <1>6, <1>7 DEF Vouched, m, sent

LEMMA PanelVouched ==
    ASSUME NEW N \in SUBSET Address, NEW a \in N, NEW m, Vouched(m, a, N),
           PANEL \in Loopback \cup Trusted, a \in Loopback => PANEL \in Loopback
    PROVE Vouched(RelayByPanel(m), a, N)
<1> DEFINE ip == resolveMiddlewareClientIp(m)
          f == IF Contains(m.forwarded, ip) THEN m.forwarded ELSE <<ip>> \o m.forwarded
          w == RelayByPanel(m)
<1>1. ip \in N /\ (a \in Outside => ip \in Outside)
  BY VouchedResolved
<1>2. m \in [peer : Address, client : N \cup {NoAddress}, forwarded : Seq(N),
            real : N \cup {NoAddress}, cdn : N \cup {NoAddress}]
  BY DEF Vouched
<1>3. w = [m EXCEPT !.peer = PANEL, !.client = ip, !.real = ip, !.forwarded = f]
  BY DEF RelayByPanel
<1> HIDE DEF ip
<1>4. f \in Seq(N) /\ \E n \in DOMAIN f : f[n] = ip
  <2>1. CASE Contains(m.forwarded, ip)
    <3>1. m.forwarded \in Seq(N) /\ DOMAIN m.forwarded = 1..Len(m.forwarded)
      BY <1>2
    <3> QED
      BY <2>1, <3>1 DEF Contains
  <2>2. CASE ~Contains(m.forwarded, ip)
    <3>1. m.forwarded \in Seq(N) /\ <<ip>> \in Seq(N) /\ Len(<<ip>>) = 1 /\ <<ip>>[1] = ip
      BY <1>1, <1>2
    <3>2. <<ip>> \o m.forwarded \in Seq(N) /\ Len(<<ip>> \o m.forwarded) = 1 + Len(m.forwarded)
      BY <3>1
    <3>3. 1 \in DOMAIN (<<ip>> \o m.forwarded) /\ (<<ip>> \o m.forwarded)[1] = ip
      BY <3>1, <3>2
    <3> QED
      BY <2>2, <3>2, <3>3
  <2> QED
    BY <2>1, <2>2
<1> HIDE DEF f, w
<1>5. PANEL \in Address /\ ip \in N \cup {NoAddress}
  BY <1>1, AddressAssumption
<1>6. /\ w \in [peer : Address, client : N \cup {NoAddress}, forwarded : Seq(N),
                real : N \cup {NoAddress}, cdn : N \cup {NoAddress}]
      /\ w.peer = PANEL /\ w.forwarded = f
  BY <1>2, <1>3, <1>4, <1>5, Rewritten
<1>7. f # <<>>
  BY <1>4
<1>8. Behind(f, PANEL, a, N)
  BY <1>1, <1>4, <1>5, <1>7 DEF Behind
<1> QED
  BY <1>6, <1>8 DEF Vouched, w

\* From a machine that is trusted with no header, none is believed.
LEMMA StraightResolved ==
    ASSUME NEW a \in Address \ (Loopback \cup Trusted), NEW own
    PROVE resolveAttackerIp(Sent(a, own)) = a
<1> DEFINE m == Sent(a, own)
<1>1. m.peer = a
  BY DEF Sent
<1> HIDE DEF m
<1>2. ~isTrustedProxy(m) /\ ~isTrustedLocalProxy(m)
  BY <1>1 DEF isTrustedProxy, isTrustedLocalProxy, isLoopback
<1>3. candidatesOf(m) = <<>> \o <<a>>
  <2>1. <<>> \o <<>> = <<>>
    OBVIOUS
  <2> QED
    BY <1>1, <1>2, <2>1 DEF candidatesOf
<1>4. Behind(<<>>, a, a, {a})
  BY DEF Behind
<1>5. First(candidatesOf(m), Outside, NoAddress) = a
  <2>1. First(<<>> \o <<a>>, Outside, NoAddress) \in {a} \cap Outside \/ a \in Loopback
    BY <1>4, BehindFirst
  <2> QED
    BY <1>3, <2>1
<1>6. a # NoAddress
  BY AddressAssumption
<1> QED
  BY <1>5, <1>6 DEF resolveAttackerIp, m

\* A request that may come is charged to its client, or to an address it claims.
LEMMA AskCharged ==
    ASSUME NEW s \in Slot, NEW ask \in Asks[s]
    PROVE LET ip == resolveAttackerIp(Received(ask[1], ask[2], ask[4]))
              claims == Claims(ask[1], ask[2], ask[4])
          IN  /\ ask[1] \in Address /\ ask[3] \in Request /\ claims \subseteq Address
              /\ ip \in Address /\ (ip = ask[1] \/ ip \in claims)
<1> DEFINE a == ask[1]
          own == ask[4]
          N == {a} \cup Named(own)
<1>1. ask \in Client \X Via \X Request \X Headers
  BY GatewayAssumption
<1>2. a \in Address /\ ask[2] \in Via /\ ask[3] \in Request /\ own \in Headers
  BY <1>1, GatewayAssumption
<1>3. /\ {NGINX, PANEL} \subseteq Loopback \cup Trusted
      /\ a \in Loopback => Proxies(ask[2]) \subseteq Loopback
  BY DeploymentAssumption
<1> HIDE DEF a, own
<1>4. Named(own) \subseteq Address
  <2>1. own.forwarded \in Seq(Address)
    BY <1>2 DEF Headers
  <2>2. Range(own.forwarded) \subseteq Address
    BY <2>1 DEF Range
  <2> QED
    BY <1>2, <2>2 DEF Headers, Named
<1>5. N \in SUBSET Address /\ a \in N /\ Named(own) \subseteq N
  BY <1>2, <1>4
<1> HIDE DEF N
<1>6. Vouched(Received(a, ask[2], own), a, N)
  <2>1. CASE ask[2] = "direct"
    BY <1>2, <1>5, <2>1, SentVouched DEF Received
  <2>2. CASE ask[2] = "panel"
    BY <1>2, <1>3, <1>5, <2>2, SentVouched, PanelVouched DEF Received, Proxies
  <2>3. CASE ask[2] = "nginx"
    BY <1>2, <1>3, <1>5, <2>3, NginxVouched DEF Received, Proxies
  <2>4. CASE ask[2] = "nginx_panel"
    BY <1>2, <1>3, <1>5, <2>4, NginxVouched, PanelVouched DEF Received, Proxies
  <2> QED
    BY <1>2, <2>1, <2>2, <2>3, <2>4 DEF Via
<1>7. resolveAttackerIp(Received(a, ask[2], own)) \in N
  BY <1>6, VouchedResolved
<1>8. CASE ask[2] = "direct" /\ a \notin Loopback \cup Trusted
  <2>1. resolveAttackerIp(Received(a, ask[2], own)) = a
    BY <1>2, <1>8, StraightResolved DEF Received
  <2> QED
    BY <1>2, <1>8, <2>1 DEF Claims, a, own
<1>9. CASE ~(ask[2] = "direct" /\ a \notin Loopback \cup Trusted)
  <2>1. Claims(a, ask[2], own) = Named(own)
    BY <1>9 DEF Claims
  <2> QED
    BY <1>2, <1>4, <1>5, <1>7, <2>1 DEF a, own, N
<1> QED
  BY <1>8, <1>9

------------------------------------------------------------------------------
(***************************************************************************)
(* What is found in a request.                                             *)
(***************************************************************************)

\* The kinds of attack, one by one.
LEMMA KindsAre ==
    /\ DOMAIN PRIORITY = 1..7
    /\ Kind = {"SCANNER", "SQLI", "SSRF", "PATH_TRAVERSAL", "XSS", "DATA_BOMB", "RECON"}
<1>1. DOMAIN PRIORITY = 1..7
  BY DEF PRIORITY
<1>2. /\ PRIORITY[1] = "SCANNER" /\ PRIORITY[2] = "SQLI" /\ PRIORITY[3] = "SSRF"
      /\ PRIORITY[4] = "PATH_TRAVERSAL" /\ PRIORITY[5] = "XSS" /\ PRIORITY[6] = "DATA_BOMB"
      /\ PRIORITY[7] = "RECON"
  BY DEF PRIORITY
<1>3. \A n \in 1..7 : n = 1 \/ n = 2 \/ n = 3 \/ n = 4 \/ n = 5 \/ n = 6 \/ n = 7
  OBVIOUS
<1> QED
  BY <1>1, <1>2, <1>3 DEF Kind

\* The trap is one of the kinds that were found.
LEMMA PrimaryIn ==
    ASSUME NEW found \in SUBSET Kind, found # {}
    PROVE primaryOf(found) \in found
<1> DEFINE First7(n) == PRIORITY[n] \in found /\ \A m \in 1..(n - 1) : PRIORITY[m] \notin found
<1>1. PICK k \in 1..7 : PRIORITY[k] \in found
  BY KindsAre DEF Kind
<1>2. \E n \in 1..7 : First7(n)
  <2>1. CASE PRIORITY[1] \in found
    BY <2>1
  <2>2. CASE PRIORITY[1] \notin found /\ PRIORITY[2] \in found
    BY <2>2
  <2>3. CASE PRIORITY[1] \notin found /\ PRIORITY[2] \notin found /\ PRIORITY[3] \in found
    BY <2>3
  <2>4. CASE /\ PRIORITY[1] \notin found /\ PRIORITY[2] \notin found /\ PRIORITY[3] \notin found
             /\ PRIORITY[4] \in found
    BY <2>4
  <2>5. CASE /\ PRIORITY[1] \notin found /\ PRIORITY[2] \notin found /\ PRIORITY[3] \notin found
             /\ PRIORITY[4] \notin found /\ PRIORITY[5] \in found
    BY <2>5
  <2>6. CASE /\ PRIORITY[1] \notin found /\ PRIORITY[2] \notin found /\ PRIORITY[3] \notin found
             /\ PRIORITY[4] \notin found /\ PRIORITY[5] \notin found /\ PRIORITY[6] \in found
    BY <2>6
  <2>7. CASE /\ PRIORITY[1] \notin found /\ PRIORITY[2] \notin found /\ PRIORITY[3] \notin found
             /\ PRIORITY[4] \notin found /\ PRIORITY[5] \notin found /\ PRIORITY[6] \notin found
    <3>1. k = 7
      BY <1>1, <2>7
    <3> QED
      BY <1>1, <2>7, <3>1
  <2> QED
    BY <2>1, <2>2, <2>3, <2>4, <2>5, <2>6, <2>7
<1> DEFINE n0 == CHOOSE n \in 1..7 : First7(n)
<1>3. First7(n0)
  BY <1>2
<1>4. primaryOf(found) = PRIORITY[n0]
  BY KindsAre DEF primaryOf
<1> QED
  BY <1>3, <1>4

\* What is found are kinds of attack.
LEMMA ThreatTypes ==
    ASSUME NEW r \in Request
    PROVE getThreatTypes(r) \subseteq Kind
  BY KindsAre DEF getThreatTypes, PathKinds, Request

\* What is known of the trap of a request.
LEMMA ThreatInfo ==
    ASSUME NEW r \in Request
    PROVE /\ threatInfo(r) \in [type : Trap \cup {"none"}, secondary : SUBSET Kind]
          /\ threatInfo(r).type = "HONEY_TOKEN" <=> r.token = "known"
          /\ threatInfo(r) = NoThreat <=> threatInfo(r).type = "none"
          /\ threatInfo(r).type = "none" => getThreatTypes(r) = {}
          /\ threatInfo(r).type \in Kind => threatInfo(r).type \in getThreatTypes(r)
          /\ threatInfo(r).type \in Kind \cup {"HONEY_TOKEN", "none"}
<1> DEFINE types == getThreatTypes(r)
<1>1. types \in SUBSET Kind
  BY ThreatTypes
<1>2. /\ "none" \notin Kind /\ "HONEY_TOKEN" \notin Kind
      /\ Kind \subseteq Trap /\ "HONEY_TOKEN" \in Trap
  BY KindsAre DEF Trap
<1>3. CASE r.token = "known"
  <2>1. threatInfo(r) = [type |-> "HONEY_TOKEN", secondary |-> types]
    BY <1>3 DEF threatInfo
  <2> QED
    BY <1>1, <1>2, <1>3, <2>1 DEF NoThreat
<1>4. CASE r.token # "known" /\ types = {}
  <2>1. threatInfo(r) = NoThreat
    BY <1>4 DEF threatInfo
  <2> QED
    BY <1>1, <1>2, <1>4, <2>1 DEF NoThreat
<1>5. CASE r.token # "known" /\ types # {}
  <2>1. threatInfo(r) = [type |-> primaryOf(types), secondary |-> types \ {primaryOf(types)}]
    BY <1>5 DEF threatInfo
  <2>2. primaryOf(types) \in types
    BY <1>1, <1>5, PrimaryIn
  <2> QED
    BY <1>1, <1>2, <1>5, <2>1, <2>2 DEF NoThreat
<1> QED
  BY <1>3, <1>4, <1>5

------------------------------------------------------------------------------
(***************************************************************************)
(* A request as a record.                                                  *)
(***************************************************************************)

\* What a handler leaves as it is.
SameRequest(p, q) ==
    /\ p.r = q.r /\ p.from = q.from /\ p.ip = q.ip /\ p.depth = q.depth
    /\ p.threat = q.threat /\ p.object = q.object

\* The types of the fields.
LEMMA TaskFields ==
    ASSUME NEW q \in Task
    PROVE /\ q.at \in {"idle", "check", "use", "sleep", "report", "stream", "answered"}
          /\ q.r \in Request /\ q.from \in Sender /\ q.ip \in Charged /\ q.depth \in Nat
          /\ q.threat \in [type : Trap \cup {"none"}, secondary : SUBSET Kind]
          /\ q.answer \in Answer /\ q.events \in Seq(Event)
          /\ q.bytes \in Nat /\ q.age \in Nat /\ q.finalized \in BOOLEAN
          /\ q.turn \in 0..(GRANT_ON - 1) /\ q.left \in 0..GRANT_ON /\ q.object \in 0..GRANT_ON
  BY DEF Task

\* What a report adds to a request, and what the ways to leave a handler make of it.
LEMMA EmittedIs ==
    ASSUME NEW q \in Task, NEW type \in Trap
    PROVE /\ Emitted(q, type) \in Task
          /\ SameRequest(Emitted(q, type), q)
          /\ Emitted(q, type).events # <<>>
          /\ Len(Emitted(q, type).events) = Len(q.events) + 1
          /\ Emitted(q, type).events[Len(q.events) + 1].bytes = q.bytes
          /\ Emitted(q, type).at = q.at /\ Emitted(q, type).trap = q.trap
          /\ Emitted(q, type).answer = q.answer /\ Emitted(q, type).turn = q.turn
          /\ Emitted(q, type).bytes = q.bytes /\ Emitted(q, type).age = q.age
          /\ Emitted(q, type).finalized = q.finalized /\ Emitted(q, type).left = q.left
<1> DEFINE e == [type |-> type, secondary |-> q.threat.secondary, bytes |-> q.bytes]
<1>1. e \in Event /\ e.bytes = q.bytes
  BY DEF Event, Task
<1>2. q.events \in Seq(Event)
  BY DEF Task
<1> HIDE DEF e
<1>3. /\ Append(q.events, e) \in Seq(Event) /\ Append(q.events, e) # <<>>
      /\ Len(Append(q.events, e)) = Len(q.events) + 1
      /\ Append(q.events, e)[Len(q.events) + 1] = e
  BY <1>1, <1>2
<1>4. Emitted(q, type) = [q EXCEPT !.events = Append(q.events, e)]
  BY DEF Emitted, e, Task
<1>5. [q EXCEPT !.events = Append(q.events, e)] \in Task
  BY <1>3 DEF Task
<1>6. Emitted(q, type).events = Append(q.events, e)
  BY <1>4 DEF Task
<1>7. SameRequest(Emitted(q, type), q)
  BY <1>4 DEF Task, SameRequest
<1>8. /\ Emitted(q, type).at = q.at /\ Emitted(q, type).trap = q.trap
      /\ Emitted(q, type).answer = q.answer /\ Emitted(q, type).turn = q.turn
      /\ Emitted(q, type).bytes = q.bytes /\ Emitted(q, type).age = q.age
      /\ Emitted(q, type).finalized = q.finalized /\ Emitted(q, type).left = q.left
  BY <1>4 DEF Task
<1>9. Emitted(q, type) \in Task
  BY <1>4, <1>5
<1> QED
  BY <1>1, <1>3, <1>6, <1>7, <1>8, <1>9

LEMMA ShowIs ==
    ASSUME NEW q \in Task, NEW answer \in Answer
    PROVE /\ Show(q, answer) \in Task /\ SameRequest(Show(q, answer), q)
          /\ Show(q, answer).at = "answered" /\ Show(q, answer).answer = answer
          /\ Show(q, answer).events = q.events /\ Show(q, answer).trap = q.trap
          /\ Show(q, answer).turn = q.turn
  BY DEF Show, Task, SameRequest

LEMMA SleepIs ==
    ASSUME NEW q \in Task, NEW answer \in Answer, NEW trap \in {"slow", "tarpit", "archives"}
    PROVE /\ Sleep(q, trap, answer) \in Task /\ SameRequest(Sleep(q, trap, answer), q)
          /\ Sleep(q, trap, answer).at = "sleep" /\ Sleep(q, trap, answer).answer = answer
          /\ Sleep(q, trap, answer).events = q.events /\ Sleep(q, trap, answer).trap = trap
          /\ Sleep(q, trap, answer).turn = q.turn
  BY DEF Sleep, Task, SameRequest

LEMMA ReportIs ==
    ASSUME NEW q \in Task, NEW type \in Trap, NEW answer \in Answer
    PROVE /\ Report(q, type, answer) \in Task /\ SameRequest(Report(q, type, answer), q)
          /\ Report(q, type, answer).at = "report" /\ Report(q, type, answer).answer = answer
          /\ Report(q, type, answer).events # <<>> /\ Report(q, type, answer).trap = q.trap
          /\ Report(q, type, answer).left = q.left /\ Report(q, type, answer).turn = q.turn
<1> DEFINE p == Emitted(q, type)
<1>1. /\ p \in Task /\ SameRequest(p, q) /\ p.events # <<>> /\ p.trap = q.trap
      /\ p.left = q.left /\ p.turn = q.turn
  BY EmittedIs
<1>2. Report(q, type, answer) = [p EXCEPT !.at = "report", !.answer = answer]
  BY DEF Report
<1> HIDE DEF p
<1>3. Report(q, type, answer) \in Task
  BY <1>1, <1>2 DEF Task
<1>4. SameRequest(Report(q, type, answer), p)
  BY <1>1, <1>2 DEF Task, SameRequest
<1>5. /\ Report(q, type, answer).at = "report" /\ Report(q, type, answer).answer = answer
      /\ Report(q, type, answer).events = p.events
  BY <1>1, <1>2 DEF Task
<1>6. /\ Report(q, type, answer).trap = p.trap /\ Report(q, type, answer).left = p.left
      /\ Report(q, type, answer).turn = p.turn
  BY <1>1, <1>2 DEF Task
<1> HIDE DEF p
<1>7. SameRequest(Report(q, type, answer), q)
  BY <1>1, <1>4 DEF SameRequest
<1> QED
  BY <1>1, <1>3, <1>5, <1>6, <1>7

LEMMA StreamIs ==
    ASSUME NEW q \in Task, NEW trap \in {"bomb", "trickle"}
    PROVE /\ Stream(q, trap) \in Task /\ SameRequest(Stream(q, trap), q)
          /\ Stream(q, trap).at = "stream" /\ Stream(q, trap).trap = trap
          /\ Stream(q, trap).events = q.events /\ Stream(q, trap).finalized = q.finalized
          /\ Stream(q, trap).bytes = q.bytes /\ Stream(q, trap).age = q.age
          /\ Stream(q, trap).turn = q.turn /\ Stream(q, trap).answer = q.answer
<1> DEFINE signals == IF trap = "bomb" THEN {"req close", "res close", "finish"}
                      ELSE {"close", "aborted"}
<1>1. signals \in SUBSET {"close", "aborted", "req close", "res close", "finish"}
  OBVIOUS
<1>2. Stream(q, trap) = [q EXCEPT !.at = "stream", !.trap = trap, !.signals = signals]
  BY DEF Stream
<1> HIDE DEF signals
<1>3. Stream(q, trap) \in Task
  BY <1>1, <1>2 DEF Task
<1>4. SameRequest(Stream(q, trap), q)
  BY <1>2 DEF Task, SameRequest
<1>5. /\ Stream(q, trap).at = "stream" /\ Stream(q, trap).trap = trap
  BY <1>2 DEF Task
<1>6. /\ Stream(q, trap).events = q.events /\ Stream(q, trap).finalized = q.finalized
      /\ Stream(q, trap).bytes = q.bytes /\ Stream(q, trap).age = q.age
      /\ Stream(q, trap).turn = q.turn /\ Stream(q, trap).answer = q.answer
  BY <1>2 DEF Task
<1> QED
  BY <1>3, <1>4, <1>5, <1>6

------------------------------------------------------------------------------
(***************************************************************************)
(* The invariant of a request.                                             *)
(***************************************************************************)

\* A request before anything was found in it.
Fresh(r, from, ip, depth) ==
    [[Idle EXCEPT !.at = "check", !.from = from, !.ip = ip, !.depth = depth] EXCEPT !.r = r]

\* A request the query of which is the file or URL a redirect gave it.
TakenAlong(r) == r.tag \in {"file", "url"} /\ r.path \in {"fileViewer", "fetchStatus"}

\* The redirects there are.
Leads(q, answer) ==
    LET threat == q.threat.type
        goes(p, tag) == answer = RedirectTo(p, tag)
    IN  \/ goes("archives", "none") /\ q.r.path = "archives" /\ threat = "none"
        \/ /\ goes("console", "breach") /\ q.r.path = "legacySignIn" /\ threat = "none"
           /\ q.r.method = "POST" \/ q.r.tag = "brute"
        \/ /\ goes("legacySignIn", "bypass") /\ q.r.path = "login" /\ q.r.method = "POST"
           /\ threat = "SQLI"
        \/ goes("login", "none") /\ q.r.path = "signOut" /\ threat = "none"
        \/ goes("database", "none") /\ q.r.path # "database" /\ threat = "SQLI"
        \/ goes("fetchStatus", "url") /\ q.r.path # "fetchStatus" /\ threat = "SSRF"
        \/ goes("fileViewer", "file") /\ q.r.path # "fileViewer" /\ threat = "PATH_TRAVERSAL"
        \/ goes("console", "ack") /\ q.r.path # "console" /\ threat = "HONEY_TOKEN"

\* What is answered without a report.
SilentFits(q, answer, known) ==
    LET threat == q.threat.type IN
    /\ answer = Page =>
         /\ threat \notin {"SCANNER", "SSRF", "PATH_TRAVERSAL", "XSS"}
         /\ TakenAlong(q.r) => threat = "HONEY_TOKEN" /\ q.ip \in known
    /\ answer # Page =>
         /\ threat # "HONEY_TOKEN"
         /\ answer.to = "archives" => q.depth # 1 /\ q.depth % CHECKPOINT_DEPTH # 0

\* What a stream has sent and reported.
StreamFits(q) ==
    /\ q.trap \in {"bomb", "trickle"}
    /\ Len(q.events) = IF q.finalized THEN 1 ELSE 0
    /\ q.finalized => q.events[1].bytes = q.bytes
    /\ q.trap = "trickle" => q.bytes <= q.age /\ q.bytes <= HARD_MAX

\* What a request has reported, and is to be answered, at an await and at its end.
AnswerFits(q, known) ==
    /\ q.trap \notin {"bomb", "trickle"}
    /\ q.answer # Page => Leads(q, q.answer)
    /\ q.at = "sleep" =>
        \/ q.trap = "archives" /\ q.answer = RedirectTo("archives", "none")
        \/ q.trap \in {"slow", "tarpit"} /\ q.answer = Page
    /\ q.at = "report" => q.events # <<>>
    /\ q.at = "answered" /\ q.events = <<>> => SilentFits(q, q.answer, known)

\* What a request is at each place; known are the traces whose use of a key is in the log.
Sound(q, known) ==
    /\ q.ip = q.from.address \/ q.ip \in q.from.claims
    /\ q.object \in {0, GRANT_ON}
    /\ q.at = "idle" => q = Idle
    /\ q.at = "check" => q = Fresh(q.r, q.from, q.ip, q.depth)
    /\ q.at \notin {"idle", "check"} /\ q.trap # "trickle" => q.threat = threatInfo(q.r)
    /\ q.at = "stream" => StreamFits(q)
    /\ q.at \in {"use", "sleep", "report", "answered"} => AnswerFits(q, known)

\* A request about to be answered.
Open(q) ==
    /\ q \in Task /\ q.object \in {0, GRANT_ON}
    /\ q.ip = q.from.address \/ q.ip \in q.from.claims
    /\ q.threat = threatInfo(q.r) /\ q.trap \notin {"bomb", "trickle"}

\* The four ways to leave a handler make a sound request of an open one.
LEMMA ReportSound ==
    ASSUME NEW q, Open(q), NEW type \in Trap, NEW answer \in Answer, NEW known,
           answer # Page => Leads(q, answer)
    PROVE Report(q, type, answer) \in Task /\ Sound(Report(q, type, answer), known)
<1> DEFINE p == Report(q, type, answer)
<1>1. /\ p \in Task /\ SameRequest(p, q) /\ p.at = "report" /\ p.answer = answer
      /\ p.events # <<>> /\ p.trap = q.trap
  BY ReportIs DEF Open
<1> HIDE DEF p
<1>2. AnswerFits(p, known)
  BY <1>1 DEF AnswerFits, Leads, SameRequest, Open
<1> QED
  BY <1>1, <1>2 DEF Sound, SameRequest, Open, p

LEMMA ShowSound ==
    ASSUME NEW q, Open(q), NEW answer \in Answer, NEW known,
           answer # Page => Leads(q, answer),
           q.events # <<>> \/ SilentFits(q, answer, known)
    PROVE Show(q, answer) \in Task /\ Sound(Show(q, answer), known)
<1> DEFINE p == Show(q, answer)
<1>1. /\ p \in Task /\ SameRequest(p, q) /\ p.at = "answered" /\ p.answer = answer
      /\ p.events = q.events /\ p.trap = q.trap
  BY ShowIs DEF Open
<1> HIDE DEF p
<1>2. AnswerFits(p, known)
  BY <1>1 DEF AnswerFits, Leads, SilentFits, SameRequest, Open
<1> QED
  BY <1>1, <1>2 DEF Sound, SameRequest, Open, p

LEMMA SleepSound ==
    ASSUME NEW q, Open(q), NEW trap \in {"slow", "tarpit", "archives"},
           NEW answer \in Answer, NEW known,
           answer # Page => Leads(q, answer),
           IF trap = "archives" THEN answer = RedirectTo("archives", "none") ELSE answer = Page
    PROVE Sleep(q, trap, answer) \in Task /\ Sound(Sleep(q, trap, answer), known)
<1> DEFINE p == Sleep(q, trap, answer)
<1>1. /\ p \in Task /\ SameRequest(p, q) /\ p.at = "sleep" /\ p.answer = answer
      /\ p.events = q.events /\ p.trap = trap
  BY SleepIs DEF Open
<1> HIDE DEF p
<1>2. AnswerFits(p, known)
  BY <1>1 DEF AnswerFits, Leads, SameRequest, Open
<1> QED
  BY <1>1, <1>2 DEF Sound, SameRequest, Open, p

LEMMA StreamSound ==
    ASSUME NEW q \in Task, q.ip = q.from.address \/ q.ip \in q.from.claims,
           q.object \in {0, GRANT_ON}, NEW known,
           NEW trap \in {"bomb", "trickle"}, trap = "trickle" \/ q.threat = threatInfo(q.r),
           q.events = <<>>, ~q.finalized, q.bytes = 0
    PROVE Stream(q, trap) \in Task /\ Sound(Stream(q, trap), known)
<1> DEFINE p == Stream(q, trap)
<1>1. /\ p \in Task /\ SameRequest(p, q) /\ p.at = "stream" /\ p.trap = trap
      /\ p.events = q.events /\ p.finalized = q.finalized /\ p.bytes = q.bytes /\ p.age = q.age
  BY StreamIs
<1> HIDE DEF p
<1>2. q.age \in Nat /\ HARD_MAX \in Nat
  BY GatewayAssumption DEF Task
<1>3. StreamFits(p)
  BY <1>1, <1>2 DEF StreamFits
<1> QED
  BY <1>1, <1>3 DEF Sound, SameRequest, p

------------------------------------------------------------------------------
(***************************************************************************)
(* Handlers.                                                               *)
(***************************************************************************)

\* As a handler gets it.
Ready(q) ==
    /\ Open(q) /\ q.answer = Page /\ q.events = <<>> /\ q.turn = 0 /\ q.object = 0
    /\ q.bytes = 0 /\ ~q.finalized

\* As a handler leaves it.
Outcome(p, q, known) ==
    /\ p \in Task /\ Sound(p, known) /\ SameRequest(p, q)
    /\ p.at \notin {"idle", "check"} /\ p.turn = 0

\* The same of a request as a handler gets it.
LEMMA Reported ==
    ASSUME NEW q, Ready(q), NEW type \in Trap, NEW answer \in Answer, NEW known,
           answer # Page => Leads(q, answer)
    PROVE Outcome(Report(q, type, answer), q, known)
  BY ReportSound, ReportIs DEF Outcome, Ready, Open

LEMMA Shown ==
    ASSUME NEW q, Ready(q), NEW answer \in Answer, NEW known,
           answer # Page => Leads(q, answer), SilentFits(q, answer, known)
    PROVE Outcome(Show(q, answer), q, known)
  BY ShowSound, ShowIs DEF Outcome, Ready, Open

LEMMA Slept ==
    ASSUME NEW q, Ready(q), NEW trap \in {"slow", "tarpit", "archives"},
           NEW answer \in Answer, NEW known,
           answer # Page => Leads(q, answer),
           IF trap = "archives" THEN answer = RedirectTo("archives", "none") ELSE answer = Page
    PROVE Outcome(Sleep(q, trap, answer), q, known)
  BY SleepSound, SleepIs DEF Outcome, Ready, Open

LEMMA Streamed ==
    ASSUME NEW q, Ready(q), NEW known
    PROVE Outcome(Stream(q, "bomb"), q, known)
  BY StreamSound, StreamIs DEF Outcome, Ready, Open

\* The traps, one by one.
LEMMA TrapsAre ==
    {"SCANNER", "SQLI", "SSRF", "PATH_TRAVERSAL", "XSS", "DATA_BOMB", "RECON",
     "HONEY_TOKEN", "BRUTE_FORCE"} = Trap
  BY KindsAre DEF Trap

\* A redirect is an answer, and not the page.
LEMMA AnswersAre ==
    /\ Page \in Answer
    /\ \A p \in Path, tag \in Tag : RedirectTo(p, tag) \in Answer /\ RedirectTo(p, tag) # Page
    /\ \A p \in Path, tag \in Tag : RedirectTo(p, tag).to = p /\ RedirectTo(p, tag).tag = tag
<1>1. "page" \notin Path
  BY DEF Path, DeceptionPath
<1> QED
  BY <1>1 DEF Answer, Page, RedirectTo

\* renderAdminDashboard, for whoever is sent to it.
LEMMA DashboardOutcome ==
    ASSUME NEW q, Ready(q), NEW known,
           q.threat.type \in {"none", "RECON", "HONEY_TOKEN"},
           q.threat.type = "none" => q.r.path = "console",
           q.threat.type = "HONEY_TOKEN" => q.r.tag = "ack" \/ q.ip \in known
    PROVE Outcome(renderAdminDashboard(q), q, known)
<1>1. CASE q.threat.type = "HONEY_TOKEN" \/ q.r.tag \in {"breach", "ack"}
  <2>1. SilentFits(q, Page, known)
    BY <1>1 DEF SilentFits, TakenAlong
  <2> QED
    BY <1>1, <2>1, Shown, AnswersAre DEF renderAdminDashboard
<1>2. CASE ~(q.threat.type = "HONEY_TOKEN" \/ q.r.tag \in {"breach", "ack"})
  BY <1>2, Reported, AnswersAre, TrapsAre DEF renderAdminDashboard
<1> QED
  BY <1>1, <1>2

\* useHoneyToken, before its await or without one.
LEMMA UseOutcome ==
    ASSUME NEW q, Ready(q), q.threat.type = "HONEY_TOKEN", NEW known, known = used
    PROVE Outcome(useHoneyToken(q), q, known)
<1>1. CASE q.r.tag = "ack" \/ q.ip \in used
  BY <1>1, DashboardOutcome DEF useHoneyToken
<1>2. CASE ~(q.r.tag = "ack" \/ q.ip \in used)
  <2> DEFINE answer == IF q.r.path = "console" THEN Page ELSE RedirectTo("console", "ack")
             p == [q EXCEPT !.at = "use", !.trap = "token", !.answer = answer]
  <2>1. answer \in Answer /\ (answer # Page => Leads(q, answer))
    BY AnswersAre DEF Leads, Path, DeceptionPath, Tag
  <2>2. useHoneyToken(q) = p
    BY <1>2 DEF useHoneyToken
  <2> HIDE DEF answer
  <2>3. p \in Task
    BY <2>1 DEF Task, Ready, Open
  <2>4. /\ p.at = "use" /\ p.trap = "token" /\ p.answer = answer
        /\ p.turn = q.turn /\ p.events = q.events
    BY DEF Task, Ready, Open
  <2>5. SameRequest(p, q)
    BY DEF Task, Ready, Open, SameRequest
  <2> HIDE DEF p
  <2>6. AnswerFits(p, known)
    BY <2>1, <2>4, <2>5 DEF AnswerFits, Leads, SameRequest, Ready
  <2>7. Sound(p, known)
    BY <2>4, <2>5, <2>6 DEF Sound, SameRequest, Ready, Open
  <2> QED
    BY <2>2, <2>3, <2>4, <2>5, <2>7 DEF Outcome, Ready
<1> QED
  BY <1>1, <1>2

\* TypeOK has three parts: the requests, what is in memory, and what is history.
MemoryOK ==
    /\ attempts \in [Charged -> 0..(GRANT_ON - 1)] /\ dumps \in [Charged -> 0..2]
    /\ used \subseteq Charged

\* What a request that was counted at fakeLogin holds of the counter, and what its answer says.
CountFits(q, counts) ==
    q.turn # 0 =>
        /\ q.at \in {"sleep", "report", "answered"}
        /\ q.at = "sleep" => q.trap = "slow"
        /\ q.at \in {"sleep", "report"} /\ q.object = 0 => q.turn <= counts[q.ip]
        /\ q.at = "report" =>
             /\ q.left <= GRANT_ON - q.turn
             /\ q.object = 0 => q.left >= GRANT_ON - counts[q.ip]

\* A request was handed to its handler, and only a grant touches another one.
Taken(s, q) ==
    /\ req' \in [Slot -> Task] /\ MemoryOK'
    /\ Sound(req'[s], used') /\ req'[s].at # "idle"
    /\ req'[s].r = q.r /\ req'[s].ip = q.ip /\ req'[s].depth = q.depth
    /\ CountFits(req'[s], attempts')
    /\ \A t \in Slot \ {s} :
         /\ \/ req'[t] = req[t]
            \/ /\ req[t].at \in {"sleep", "report"}
               /\ req'[t] = [req[t] EXCEPT !.object = GRANT_ON]
         /\ CountFits(req[t], attempts) => CountFits(req'[t], attempts')
    /\ used' = used

\* A request that was not counted holds nothing of a counter, and of one that was counted more
\* attempts take nothing.
LEMMA CountNone ==
    ASSUME NEW q, q.turn = 0, NEW counts
    PROVE CountFits(q, counts)
  BY DEF CountFits

LEMMA CountGrows ==
    ASSUME NEW q \in Task, MemoryOK, MemoryOK', attempts[q.ip] <= attempts'[q.ip],
           CountFits(q, attempts)
    PROVE CountFits(q, attempts')
<1>1. /\ q.ip \in Charged /\ GRANT_ON \in Nat /\ q.turn \in Nat /\ q.left \in Nat
      /\ attempts[q.ip] \in Nat /\ attempts'[q.ip] \in Nat
  BY TaskFields, GatewayAssumption DEF MemoryOK
<1> QED
  BY <1>1 DEF CountFits

\* A handler that is left in one of those ways.
LEMMA PutTaken ==
    ASSUME NEW s \in Slot, req \in [Slot -> Task], NEW q, NEW p \in Task,
           Sound(p, used), SameRequest(p, q), p.at \notin {"idle", "check"},
           CountFits(p, attempts'), MemoryOK, \A a \in Charged : attempts[a] <= attempts'[a],
           Put(s, p), MemoryOK', used' = used
    PROVE Taken(s, q)
<1>1. req' \in [Slot -> Task] /\ req'[s] = p /\ \A t \in Slot \ {s} : req'[t] = req[t]
  BY DEF Put
<1>2. Sound(req'[s], used') /\ CountFits(req'[s], attempts')
  BY <1>1
<1>3. ASSUME NEW t \in Slot \ {s} PROVE CountFits(req[t], attempts) => CountFits(req'[t], attempts')
  <2>1. req'[t] = req[t] /\ req[t].ip \in Charged
    BY <1>1, TaskFields
  <2> QED
    BY <2>1, CountGrows
<1> QED
  BY <1>1, <1>2, <1>3 DEF Taken, SameRequest

LEMMA HandledTaken ==
    ASSUME NEW s \in Slot, req \in [Slot -> Task], MemoryOK,
           NEW q, NEW p, Outcome(p, q, used), Handle(s, p)
    PROVE Taken(s, q)
<1>1. Put(s, p) /\ MemoryOK' /\ used' = used /\ attempts' = attempts
  BY DEF Handle, memory, MemoryOK
<1>2. \A a \in Charged : attempts[a] <= attempts'[a]
  BY <1>1 DEF MemoryOK
<1>3. CountFits(p, attempts')
  BY CountNone DEF Outcome
<1> QED
  BY <1>1, <1>2, <1>3, PutTaken DEF Outcome

\* The two handlers that count: handleDatabaseExport and fakeLogin.
LEMMA ExportTaken ==
    ASSUME NEW s \in Slot, req \in [Slot -> Task], MemoryOK,
           NEW q, Ready(q), q.r.path = "database",
           q.threat.type \in {"none", "SQLI", "DATA_BOMB"}, handleDatabaseExport(s, q)
    PROVE Taken(s, q)
<1> DEFINE odd == dumps[q.ip] # 1
<1>0. q.ip \in Charged /\ q \in Task
  BY DEF Ready, Open, Task
<1>1. CASE q.r.dump \/ q.r.method = "POST"
  <2> DEFINE p == IF odd THEN Report(q, "SQLI", Page) ELSE Sleep(q, "tarpit", Page)
  <2>1. Outcome(p, q, used)
    BY Reported, Slept, AnswersAre, TrapsAre
  <2>2. Put(s, p) /\ attempts' = attempts /\ used' = used
    BY <1>1 DEF handleDatabaseExport
  <2>3. dumps' = [dumps EXCEPT ![q.ip] = IF odd THEN 1 ELSE 2]
    BY <1>1 DEF handleDatabaseExport
  <2> HIDE DEF p
  <2>4. dumps' \in [Charged -> 0..2]
    <3>1. dumps \in [Charged -> 0..2] /\ (IF odd THEN 1 ELSE 2) \in 0..2
      BY DEF MemoryOK
    <3> HIDE DEF odd
    <3> QED
      BY <2>3, <3>1
  <2>5. MemoryOK'
    BY <2>2, <2>4 DEF MemoryOK
  <2>6. CountFits(p, attempts') /\ \A a \in Charged : attempts[a] <= attempts'[a]
    BY <2>1, <2>2, CountNone DEF Outcome, MemoryOK
  <2> QED
    BY <2>1, <2>2, <2>5, <2>6, PutTaken DEF Outcome
<1>2. CASE ~(q.r.dump \/ q.r.method = "POST")
  <2>1. SilentFits(q, Page, used)
    BY DEF SilentFits, TakenAlong
  <2>2. Outcome(Show(q, Page), q, used)
    BY <2>1, Shown, AnswersAre
  <2>3. Handle(s, Show(q, Page))
    BY <1>2 DEF handleDatabaseExport, Handle
  <2> QED
    BY <2>2, <2>3, HandledTaken
<1> QED
  BY <1>1, <1>2

LEMMA FakeLoginTaken ==
    ASSUME NEW s \in Slot, req \in [Slot -> Task], MemoryOK,
           NEW q, Ready(q), q.r.path = "legacySignIn", q.r.method = "POST", q.threat.type = "none",
           fakeLogin(s, q), dumps' = dumps, used' = used
    PROVE Taken(s, q)
<1> DEFINE n == attempts[q.ip] + 1
<1>0. q.ip \in Charged /\ q \in Task /\ GRANT_ON \in Nat \ {0}
  BY GatewayAssumption DEF Ready, Open, Task
<1>3. attempts[q.ip] \in 0..(GRANT_ON - 1) /\ n \in 1..GRANT_ON
  BY <1>0 DEF MemoryOK
<1>1. CASE n >= GRANT_ON
  <2> DEFINE p == Report(q, "BRUTE_FORCE", RedirectTo("console", "breach"))
  <2>1. Leads(q, RedirectTo("console", "breach")) /\ RedirectTo("console", "breach") \in Answer
    BY AnswersAre DEF Leads, Path, DeceptionPath, Tag
  <2>2. Outcome(p, q, used)
    BY <2>1, Reported, TrapsAre
  <2>3. n = GRANT_ON
    BY <1>0, <1>1, <1>3
  <2>4. attempts' = [attempts EXCEPT ![q.ip] = 0]
    BY <1>1 DEF fakeLogin
  <2>5. req' = [t \in Slot |->
                  IF t = s THEN p
                  ELSE IF Pending(t, q.ip) /\ req[t].object = 0
                    THEN [req[t] EXCEPT !.object = n]
                  ELSE req[t]]
    BY <1>1 DEF fakeLogin
  <2> HIDE DEF p
  <2>6. MemoryOK' /\ used' = used
    BY <1>0, <2>4 DEF MemoryOK
  <2>7. /\ req'[s] = p
        /\ \A t \in Slot \ {s} :
             \/ req'[t] = req[t]
             \/ /\ req[t].at \in {"sleep", "report"}
                /\ req'[t] = [req[t] EXCEPT !.object = GRANT_ON]
    BY <2>3, <2>5 DEF Pending
  <2>8. \A t \in Slot : req[t] \in Task /\ [req[t] EXCEPT !.object = GRANT_ON] \in Task
    <3>1. GRANT_ON \in 0..GRANT_ON
      BY <1>0
    <3>2. \A w \in Task : [w EXCEPT !.object = GRANT_ON] \in Task
      BY <3>1 DEF Task
    <3> QED
      BY <3>2
  <2>9. req' \in [Slot -> Task]
    BY <2>2, <2>3, <2>5, <2>8 DEF Outcome
  <2>10. Sound(req'[s], used')
    BY <2>2, <2>6, <2>7 DEF Outcome
  <2>11. CountFits(req'[s], attempts')
    BY <2>2, <2>7, CountNone DEF Outcome
  <2>12. ASSUME NEW t \in Slot \ {s}, CountFits(req[t], attempts)
         PROVE CountFits(req'[t], attempts')
    <3>1. req[t] \in Task /\ req[t].ip \in Charged
      BY TaskFields
    <3>2. CASE Pending(t, q.ip) /\ req[t].object = 0
      <4> DEFINE w == req[t]
                 v == [w EXCEPT !.object = GRANT_ON]
      <4>1. /\ v.at = w.at /\ v.trap = w.trap /\ v.turn = w.turn /\ v.left = w.left
            /\ v.object = GRANT_ON
        BY <3>1 DEF Task
      <4>2. req'[t] = v
        BY <2>3, <2>5, <3>2
      <4> HIDE DEF v
      <4> QED
        BY <1>0, <2>12, <4>1, <4>2 DEF CountFits
    <3>3. CASE ~(Pending(t, q.ip) /\ req[t].object = 0)
      <4>1. req'[t] = req[t]
        BY <2>5, <3>3
      <4>2. CASE req[t].ip = q.ip
        BY <2>12, <3>3, <4>1, <4>2 DEF CountFits, Pending
      <4>3. CASE req[t].ip # q.ip
        <5>1. attempts'[req[t].ip] = attempts[req[t].ip]
          BY <2>4, <3>1, <4>3 DEF MemoryOK
        <5> QED
          BY <2>12, <4>1, <5>1 DEF CountFits
      <4> QED
        BY <4>2, <4>3
    <3> QED
      BY <3>2, <3>3
  <2> QED
    BY <2>2, <2>6, <2>7, <2>9, <2>10, <2>11, <2>12 DEF Outcome, Taken, SameRequest
<1>2. CASE n < GRANT_ON
  <2>1. attempts' = [attempts EXCEPT ![q.ip] = n]
    BY <1>0, <1>2, <1>3 DEF fakeLogin
  <2>2. MemoryOK' /\ attempts'[q.ip] = n
    BY <1>0, <1>2, <1>3, <2>1 DEF MemoryOK
  <2>3. \A a \in Charged : attempts[a] <= attempts'[a]
    <3>1. ASSUME NEW a \in Charged PROVE attempts[a] <= attempts'[a]
      <4>1. attempts[a] \in Nat /\ attempts'[a] = IF a = q.ip THEN n ELSE attempts[a]
        BY <1>0, <2>1 DEF MemoryOK
      <4> QED
        BY <4>1
    <3> QED
      BY <3>1
  <2> DEFINE turn == [q EXCEPT !.turn = n]
             w == [turn EXCEPT !.left = GRANT_ON - n]
  <2>4. /\ turn \in Task /\ SameRequest(turn, q) /\ turn.turn = n /\ turn.trap = q.trap
        /\ w \in Task /\ SameRequest(w, q) /\ w.turn = n /\ w.left = GRANT_ON - n /\ w.trap = q.trap
    <3>1. GRANT_ON - n \in 0..GRANT_ON /\ n \in 0..(GRANT_ON - 1)
      BY <1>0, <1>2, <1>3
    <3> HIDE DEF n
    <3>2. turn \in Task /\ SameRequest(turn, q) /\ turn.turn = n /\ turn.trap = q.trap
      BY <1>0, <3>1 DEF Task, SameRequest
    <3> HIDE DEF turn
    <3>3. /\ w \in Task /\ SameRequest(w, turn) /\ w.turn = turn.turn /\ w.left = GRANT_ON - n
          /\ w.trap = turn.trap
      BY <3>1, <3>2 DEF Task, SameRequest
    <3> QED
      BY <3>2, <3>3 DEF SameRequest
  <2>5. Open(turn) /\ Open(w)
    BY <2>4 DEF Ready, Open, SameRequest
  <2>6. q.object = 0
    BY DEF Ready
  <2>7. CASE n % SUSPICIOUS_ON = 0
    <3> DEFINE p == Sleep(turn, "slow", Page)
    <3>1. Put(s, p)
      BY <1>0, <1>2, <1>3, <2>7 DEF fakeLogin
    <3> HIDE DEF turn, w
    <3>2. /\ p \in Task /\ Sound(p, used) /\ SameRequest(p, turn) /\ p.at = "sleep" /\ p.trap = "slow"
          /\ p.turn = n
      BY <2>4, <2>5, SleepSound, SleepIs, AnswersAre
    <3> HIDE DEF p
    <3>3. CountFits(p, attempts') /\ SameRequest(p, q)
      BY <1>3, <2>2, <2>4, <3>2 DEF CountFits, SameRequest
    <3> QED
      BY <2>2, <2>3, <3>1, <3>2, <3>3, PutTaken
  <2>8. CASE n % SUSPICIOUS_ON # 0
    <3> DEFINE p == Report(w, "BRUTE_FORCE", Page)
    <3>1. Put(s, p)
      BY <1>0, <1>2, <1>3, <2>8 DEF fakeLogin
    <3> HIDE DEF turn, w
    <3>2. /\ SameRequest(p, w) /\ p.at = "report" /\ p.turn = n /\ p.left = GRANT_ON - n
      BY <2>4, ReportIs, AnswersAre, TrapsAre
    <3>3. p \in Task /\ Sound(p, used)
      BY <2>5, ReportSound, AnswersAre, TrapsAre
    <3> HIDE DEF p
    <3>4. CountFits(p, attempts') /\ SameRequest(p, q)
      BY <1>0, <1>3, <2>2, <2>4, <3>2 DEF CountFits, SameRequest
    <3> QED
      BY <2>2, <2>3, <3>1, <3>2, <3>3, <3>4, PutTaken
  <2> QED
    BY <2>7, <2>8
<1> QED
  BY <1>0, <1>1, <1>2, <1>3

\* Handlers that answer, or report, and keep nothing.
LEMMA ShownTaken ==
    ASSUME NEW s \in Slot, req \in [Slot -> Task], MemoryOK, NEW q, Ready(q), NEW answer \in Answer,
           answer # Page => Leads(q, answer), SilentFits(q, answer, used),
           Handle(s, Show(q, answer))
    PROVE Taken(s, q)
  BY Shown, HandledTaken

LEMMA ReportedTaken ==
    ASSUME NEW s \in Slot, req \in [Slot -> Task], MemoryOK, NEW q, Ready(q), NEW answer \in Answer,
           NEW type \in Trap, answer # Page => Leads(q, answer), Handle(s, Report(q, type, answer))
    PROVE Taken(s, q)
  BY Reported, HandledTaken

\* The interfaces of the storage and of HR.
LEMMA ApiTaken ==
    ASSUME NEW s \in Slot, req \in [Slot -> Task], MemoryOK, NEW q, Ready(q),
           q.threat.type = "HONEY_TOKEN", isHoneyApiPath(q.r.path), serveHoneyTokenApi(s, q)
    PROVE Taken(s, q)
<1>1. CASE Handle(s, Show(q, Page))
  BY <1>1, ShownTaken, AnswersAre DEF SilentFits, TakenAlong, isHoneyApiPath
<1>2. CASE Handle(s, [q EXCEPT !.at = "use", !.trap = "token"])
  <2> DEFINE p == [q EXCEPT !.at = "use", !.trap = "token"]
  <2>1. /\ p \in Task /\ SameRequest(p, q) /\ p.at = "use" /\ p.trap = "token"
        /\ p.answer = Page /\ p.turn = q.turn /\ p.events = q.events
    BY DEF Task, Ready, Open, SameRequest
  <2> HIDE DEF p
  <2>2. AnswerFits(p, used)
    BY <2>1 DEF AnswerFits
  <2>3. Outcome(p, q, used)
    BY <2>1, <2>2 DEF Outcome, Sound, SameRequest, Ready, Open
  <2> QED
    BY <1>2, <2>3, HandledTaken DEF p
<1> QED
  BY <1>1, <1>2 DEF serveHoneyTokenApi

\* A redirect to the place of the trap.
LEMMA SendTaken ==
    ASSUME NEW s \in Slot, req \in [Slot -> Task], MemoryOK, NEW q, Ready(q),
           NEW p \in Path, NEW tag \in Tag, p # "archives", q.threat.type # "HONEY_TOKEN",
           Leads(q, RedirectTo(p, tag)), Handle(s, Show(q, RedirectTo(p, tag)))
    PROVE Taken(s, q)
<1>1. RedirectTo(p, tag) \in Answer /\ RedirectTo(p, tag) # Page /\ RedirectTo(p, tag).to = p
  BY AnswersAre
<1>2. SilentFits(q, RedirectTo(p, tag), used)
  BY <1>1 DEF SilentFits
<1> QED
  BY <1>1, <1>2, ShownTaken

\* The switch over the trap, and the routes.
LEMMA RerouteTaken ==
    ASSUME NEW s \in Slot, req \in [Slot -> Task], MemoryOK, NEW q, Ready(q),
           q.threat.type \in Kind \cup {"HONEY_TOKEN"}, decoyReroute(s, q)
    PROVE Taken(s, q)
<1> USE AnswersAre, TrapsAre
<1>0. /\ {"database", "fetchStatus", "fileViewer", "legacySignIn"} \subseteq Path
      /\ {"none", "url", "file", "bypass"} \subseteq Tag
  BY DEF Path, DeceptionPath, Tag
<1>1. CASE isLeakedArtifactPath(q.r.path)
  BY <1>1, ReportedTaken DEF decoyReroute, serveLeak
<1> DEFINE threat == q.threat.type
<1>2. CASE ~isLeakedArtifactPath(q.r.path) /\ threat = "SCANNER"
  <2>1. Handle(s, serveScannerTarpit(q))
    BY <1>2 DEF decoyReroute
  <2> QED
    BY <2>1, Slept, HandledTaken DEF serveScannerTarpit
<1>3. CASE ~isLeakedArtifactPath(q.r.path) /\ threat = "SQLI"
  <2>1. CASE q.r.path = "database"
    BY <1>3, <2>1, ExportTaken DEF decoyReroute
  <2>2. CASE q.r.path = "login" /\ q.r.method = "POST"
    <3>1. Handle(s, handoffSqliBypassLogin(q))
      BY <1>3, <2>2 DEF decoyReroute
    <3>2. Leads(q, RedirectTo("legacySignIn", "bypass"))
      BY <1>3, <2>2 DEF Leads
    <3> QED
      BY <1>0, <3>1, <3>2, ReportedTaken DEF handoffSqliBypassLogin
  <2>3. CASE q.r.path # "database" /\ ~(q.r.path = "login" /\ q.r.method = "POST")
    <3>1. Handle(s, Show(q, RedirectTo("database", "none")))
      BY <1>3, <2>3 DEF decoyReroute
    <3>2. Leads(q, RedirectTo("database", "none"))
      BY <1>3, <2>3 DEF Leads
    <3> QED
      BY <1>0, <1>3, <3>1, <3>2, SendTaken
  <2> QED
    BY <2>1, <2>2, <2>3
<1>4. CASE ~isLeakedArtifactPath(q.r.path) /\ threat = "SSRF"
  <2>1. CASE q.r.path = "fetchStatus"
    BY <1>4, <2>1, ReportedTaken DEF decoyReroute, renderFetchStatus
  <2>2. CASE q.r.path # "fetchStatus"
    <3>1. Handle(s, Show(q, RedirectTo("fetchStatus", "url")))
      BY <1>4, <2>2 DEF decoyReroute
    <3>2. Leads(q, RedirectTo("fetchStatus", "url"))
      BY <1>4, <2>2 DEF Leads
    <3> QED
      BY <1>0, <1>4, <3>1, <3>2, SendTaken
  <2> QED
    BY <2>1, <2>2
<1>5. CASE ~isLeakedArtifactPath(q.r.path) /\ threat = "PATH_TRAVERSAL"
  <2>1. CASE q.r.path = "fileViewer"
    BY <1>5, <2>1, ReportedTaken DEF decoyReroute, renderFileViewer
  <2>2. CASE q.r.path # "fileViewer"
    <3>1. Handle(s, Show(q, RedirectTo("fileViewer", "file")))
      BY <1>5, <2>2 DEF decoyReroute
    <3>2. Leads(q, RedirectTo("fileViewer", "file"))
      BY <1>5, <2>2 DEF Leads
    <3> QED
      BY <1>0, <1>5, <3>1, <3>2, SendTaken
  <2> QED
    BY <2>1, <2>2
<1>6. CASE ~isLeakedArtifactPath(q.r.path) /\ threat = "XSS"
  <2>1. Handle(s, renderSandboxXSS(q))
    BY <1>6 DEF decoyReroute
  <2> DEFINE e == Emitted(q, "XSS")
  <2>2. /\ e \in Task /\ SameRequest(e, q) /\ e.events # <<>> /\ e.trap = q.trap /\ e.turn = q.turn
    BY EmittedIs DEF Ready, Open
  <2> HIDE DEF e
  <2>3. Open(e)
    BY <2>2 DEF Ready, Open, SameRequest
  <2>4. Outcome(Show(e, Page), q, used)
    <3>1. Sound(Show(e, Page), used)
      BY <2>2, <2>3, ShowSound
    <3> QED
      BY <2>2, <3>1, ShowIs DEF Outcome, SameRequest, Ready
  <2> QED
    BY <2>1, <2>4, HandledTaken DEF renderSandboxXSS, e
<1>7. CASE ~isLeakedArtifactPath(q.r.path) /\ threat = "DATA_BOMB"
  <2>1. CASE q.r.path = "database"
    BY <1>7, <2>1, ExportTaken DEF decoyReroute
  <2>2. CASE q.r.path # "database"
    BY <1>7, <2>2, Streamed, HandledTaken DEF decoyReroute
  <2> QED
    BY <2>1, <2>2
<1>8. CASE ~isLeakedArtifactPath(q.r.path) /\ threat = "RECON"
  BY <1>8, DashboardOutcome, HandledTaken DEF decoyReroute
<1>9. CASE ~isLeakedArtifactPath(q.r.path) /\ threat = "HONEY_TOKEN"
  BY <1>9, ApiTaken, UseOutcome, HandledTaken DEF decoyReroute
<1> QED
  BY <1>1, <1>2, <1>3, <1>4, <1>5, <1>6, <1>7, <1>8, <1>9, KindsAre

LEMMA RouteTaken ==
    ASSUME NEW s \in Slot, req \in [Slot -> Task], MemoryOK, NEW q, Ready(q),
           q.threat.type = "none", Route(s, q)
    PROVE Taken(s, q)
<1> USE AnswersAre, TrapsAre
<1> DEFINE at(p) == q.r.path = p
<1>0. {"console", "login", "archives"} \subseteq Path /\ {"none", "breach"} \subseteq Tag
  BY DEF Path, DeceptionPath, Tag
<1>1. CASE at("console")
  BY <1>1, DashboardOutcome, HandledTaken DEF Route, isHoneyApiPath
<1>2. CASE at("legacySignIn")
  <2>1. CASE q.r.method = "POST"
    BY <1>2, <2>1, FakeLoginTaken DEF Route, isHoneyApiPath
  <2>2. CASE q.r.method # "POST" /\ q.r.tag = "brute"
    <3>1. Handle(s, Show(q, RedirectTo("console", "breach")))
      BY <1>2, <2>2 DEF Route, renderFakeLoginPage, isHoneyApiPath
    <3>2. Leads(q, RedirectTo("console", "breach"))
      BY <1>2, <2>2 DEF Leads
    <3> QED
      BY <1>0, <3>1, <3>2, SendTaken
  <2>3. CASE q.r.method # "POST" /\ q.r.tag # "brute"
    <3>1. Handle(s, Show(q, Page))
      BY <1>2, <2>3 DEF Route, renderFakeLoginPage, isHoneyApiPath
    <3> QED
      BY <1>2, <3>1, ShownTaken DEF SilentFits, TakenAlong
  <2> QED
    BY <2>1, <2>2, <2>3
<1>3. CASE at("database")
  BY <1>3, ExportTaken DEF Route, isHoneyApiPath
<1>4. CASE at("archiveExport")
  BY <1>4, Streamed, HandledTaken DEF Route, isHoneyApiPath
<1>5. CASE at("apiKeys")
  BY <1>5, ReportedTaken DEF Route, serveHoneyToken, isHoneyApiPath
<1>6. CASE isHoneyApiPath(q.r.path)
  <2>1. Handle(s, denyUnauthorized(q))
    BY <1>6 DEF Route, isHoneyApiPath
  <2>2. SilentFits(q, Page, used)
    BY <1>6 DEF SilentFits, TakenAlong, isHoneyApiPath
  <2> QED
    BY <2>1, <2>2, ShownTaken, ReportedTaken DEF denyUnauthorized
<1>7. CASE at("fileViewer")
  BY <1>7, ReportedTaken DEF Route, renderFileViewer, isHoneyApiPath
<1>8. CASE at("fetchStatus")
  BY <1>8, ReportedTaken DEF Route, renderFetchStatus, isHoneyApiPath
<1>9. CASE at("archives")
  <2>1. Handle(s, Sleep(q, "archives", RedirectTo("archives", "none")))
    BY <1>9 DEF Route, serveInfiniteRedirect, isHoneyApiPath
  <2>2. Leads(q, RedirectTo("archives", "none"))
    BY <1>9 DEF Leads
  <2> QED
    BY <1>0, <2>1, <2>2, Slept, HandledTaken
<1>10. CASE at("signOut")
  <2>1. Handle(s, Show(q, RedirectTo("login", "none")))
    BY <1>10 DEF Route, logoutLegacyAdmin, isHoneyApiPath
  <2>2. Leads(q, RedirectTo("login", "none"))
    BY <1>10 DEF Leads
  <2> QED
    BY <1>0, <2>1, <2>2, SendTaken
<1>11. CASE /\ ~at("console") /\ ~at("legacySignIn") /\ ~at("database")
            /\ ~at("archiveExport") /\ ~at("apiKeys") /\ ~isHoneyApiPath(q.r.path)
            /\ ~at("fileViewer") /\ ~at("fetchStatus") /\ ~at("archives")
            /\ ~at("signOut")
  <2>1. Handle(s, Show(q, Page))
    BY <1>11 DEF Route
  <2>2. SilentFits(q, Page, used)
    BY <1>11 DEF SilentFits, TakenAlong
  <2> QED
    BY <2>1, <2>2, ShownTaken
<1> QED
  BY <1>1, <1>2, <1>3, <1>4, <1>5, <1>6, <1>7, <1>8, <1>9, <1>10, <1>11

------------------------------------------------------------------------------
(***************************************************************************)
(* Every request is handed to a handler, and goes on from there.           *)
(***************************************************************************)

\* A free slot, and a request that is new.
LEMMA IdleIs ==
    /\ Idle \in Task /\ Idle.at = "idle" /\ Idle.turn = 0
    /\ \A known : Sound(Idle, known)
<1>1. /\ GRANT_ON \in Nat /\ 0 \in 0..GRANT_ON /\ GRANT_ON \in 0..GRANT_ON
      /\ 0 \in 0..(GRANT_ON - 1)
  BY GatewayAssumption
<1>2. NoRequest \in Request
  BY KindsAre DEF NoRequest, Request, Path, DeceptionPath, Tag
<1>3. NoThreat \in [type : Trap \cup {"none"}, secondary : SUBSET Kind]
  BY DEF NoThreat
<1>4. <<>> \in Seq(Event)
  OBVIOUS
<1>5. Nobody \in Sender /\ Nobody.address = Unknown
  BY DEF Nobody, Sender, Charged
<1>6. Idle \in Task
  BY <1>1, <1>2, <1>3, <1>4, <1>5, AnswersAre DEF Idle, Task, Charged
<1>7. /\ Idle.at = "idle" /\ Idle.ip = Unknown /\ Idle.from = Nobody
      /\ Idle.object = 0 /\ Idle.turn = 0
  BY DEF Idle
<1> QED
  BY <1>5, <1>6, <1>7 DEF Sound

LEMMA FreshIs ==
    ASSUME NEW r \in Request, NEW from \in Sender, NEW ip \in Charged, NEW depth \in Nat,
           ip = from.address \/ ip \in from.claims
    PROVE /\ Fresh(r, from, ip, depth) \in Task
          /\ Fresh(r, from, ip, depth).at = "check" /\ Fresh(r, from, ip, depth).r = r
          /\ Fresh(r, from, ip, depth).ip = ip /\ Fresh(r, from, ip, depth).from = from
          /\ Fresh(r, from, ip, depth).depth = depth /\ Fresh(r, from, ip, depth).object = 0
          /\ Fresh(r, from, ip, depth).turn = 0 /\ Fresh(r, from, ip, depth).answer = Page
          /\ Fresh(r, from, ip, depth).events = <<>> /\ Fresh(r, from, ip, depth).bytes = 0
          /\ ~Fresh(r, from, ip, depth).finalized /\ Fresh(r, from, ip, depth).trap = "none"
          /\ \A known : Sound(Fresh(r, from, ip, depth), known)
<1> DEFINE q == Fresh(r, from, ip, depth)
<1>1. q \in Task
  <2> DEFINE w == [Idle EXCEPT !.at = "check", !.from = from, !.ip = ip, !.depth = depth]
  <2>1. w \in Task
    BY IdleIs DEF Task
  <2>2. q = [w EXCEPT !.r = r]
    BY DEF Fresh
  <2> HIDE DEF w, q
  <2> QED
    BY <2>1, <2>2 DEF Task
<1>2. /\ q.at = "check" /\ q.r = r /\ q.ip = ip /\ q.from = from /\ q.depth = depth
      /\ q.object = 0 /\ q.turn = 0 /\ q.answer = Page /\ q.events = <<>> /\ q.bytes = 0
      /\ ~q.finalized /\ q.trap = "none"
  BY DEF Fresh, Idle
<1>3. q = Fresh(q.r, q.from, q.ip, q.depth)
  BY <1>2
<1> HIDE DEF q
<1>4. \A known : Sound(q, known)
  BY <1>2, <1>3 DEF Sound
<1> QED
  BY <1>1, <1>2, <1>4 DEF q

\* gatekeeper and honeyTokenDetector hand a request to its handler.
LEMMA GatekeeperTaken ==
    ASSUME NEW s \in Slot, req \in [Slot -> Task], MemoryOK,
           NEW r \in Request, NEW from \in Sender, NEW ip \in Charged, NEW depth \in Nat,
           ip = from.address \/ ip \in from.claims,
           gatekeeper(s, Fresh(r, from, ip, depth))
    PROVE Taken(s, Fresh(r, from, ip, depth))
<1> DEFINE q == Fresh(r, from, ip, depth)
          found == [q EXCEPT !.threat = threatInfo(q.r)]
<1>1. /\ q \in Task /\ q.r = r /\ q.ip = ip /\ q.from = from /\ q.depth = depth /\ q.object = 0
      /\ q.turn = 0 /\ q.answer = Page /\ q.events = <<>> /\ q.bytes = 0
      /\ ~q.finalized /\ q.trap = "none"
  BY FreshIs
<1>0. gatekeeper(s, q)
  OBVIOUS
<1> HIDE DEF q
<1>2. \/ q.ip \in Bannable /\ Handle(s, Stream(q, "trickle"))
      \/ IF found.threat = NoThreat THEN Route(s, found) ELSE decoyReroute(s, found)
  BY <1>0 DEF gatekeeper
<1>3. CASE Handle(s, Stream(q, "trickle"))
  <2>1. Stream(q, "trickle") \in Task /\ Sound(Stream(q, "trickle"), used)
    BY <1>1, StreamSound
  <2>2. Outcome(Stream(q, "trickle"), q, used)
    BY <1>1, <2>1, StreamIs DEF Outcome
  <2> QED
    BY <1>3, <2>2, HandledTaken DEF q
<1>4. CASE IF found.threat = NoThreat THEN Route(s, found) ELSE decoyReroute(s, found)
  <2>1. /\ found.threat = threatInfo(r)
        /\ threatInfo(r) \in [type : Trap \cup {"none"}, secondary : SUBSET Kind]
    BY <1>1, ThreatInfo DEF Task
  <2>2. found \in Task
    BY <1>1, <2>1 DEF Task
  <2>3. /\ found.r = r /\ found.ip = ip /\ found.from = from /\ found.depth = depth
        /\ found.object = 0 /\ found.turn = 0 /\ found.answer = Page /\ found.events = <<>>
        /\ found.bytes = 0
        /\ ~found.finalized /\ found.trap = "none"
    BY <1>1 DEF Task
  <2> HIDE DEF found
  <2>4. Ready(found)
    BY <2>1, <2>2, <2>3 DEF Ready, Open
  <2>5. /\ found.threat = NoThreat <=> found.threat.type = "none"
        /\ found.threat.type \in Kind \cup {"HONEY_TOKEN", "none"}
    BY <2>1, ThreatInfo
  <2>6. Taken(s, found)
    BY <1>4, <2>4, <2>5, RouteTaken, RerouteTaken
  <2> QED
    BY <1>1, <2>3, <2>6 DEF Taken, q
<1> QED
  BY <1>2, <1>3, <1>4

LEMMA DetectorTaken ==
    ASSUME NEW s \in Slot, req \in [Slot -> Task], MemoryOK,
           NEW r \in Request, NEW from \in Sender, NEW ip \in Charged, NEW depth \in Nat,
           ip = from.address \/ ip \in from.claims,
           honeyTokenDetector(s, r, from, ip, depth)
    PROVE Taken(s, Fresh(r, from, ip, depth))
<1> DEFINE q == Fresh(r, from, ip, depth)
<1>1. IF r.token = "unknown" THEN Put(s, q) /\ UNCHANGED memory ELSE gatekeeper(s, q)
  BY DEF honeyTokenDetector, Fresh
<1>2. CASE r.token = "unknown"
  <2>1. q \in Task /\ Sound(q, used) /\ q.at # "idle" /\ q.turn = 0
    BY FreshIs
  <2> HIDE DEF q
  <2>2. MemoryOK' /\ used' = used /\ Put(s, q)
    BY <1>1, <1>2 DEF memory, MemoryOK
  <2>3. req' \in [Slot -> Task] /\ req'[s] = q /\ \A t \in Slot \ {s} : req'[t] = req[t]
    BY <2>1, <2>2 DEF Put
  <2>4. Sound(req'[s], used') /\ CountFits(req'[s], attempts')
    BY <2>1, <2>2, <2>3, CountNone
  <2>5. \A t \in Slot \ {s} : CountFits(req[t], attempts) => CountFits(req'[t], attempts')
    BY <1>1, <1>2, <2>3 DEF memory
  <2> QED
    BY <2>1, <2>2, <2>3, <2>4, <2>5 DEF Taken, q
<1>3. CASE r.token # "unknown"
  BY <1>1, <1>3, GatekeeperTaken
<1> QED
  BY <1>2, <1>3

HistoryOK ==
    /\ restarts \in 0..MaxRestarts
    /\ hops \in [Slot -> Nat] /\ silent \in [Slot -> Nat]
    /\ seen \in [Slot -> SUBSET (Trap \cup {"none"})] /\ told \in [Slot -> BOOLEAN]

\* Every request is sound.
TaskInv == \A s \in Slot : Sound(req[s], used)

\* What is counted fits, and what is announced with it.
CountInv == \A s \in Slot : CountFits(req[s], attempts)

\* TypeOK in its parts.
LEMMA TypeParts == TypeOK <=> req \in [Slot -> Task] /\ MemoryOK /\ HistoryOK
  BY DEF TypeOK, MemoryOK, HistoryOK

\* That more uses are in the log takes nothing from a sound request.
LEMMA SoundGrows ==
    ASSUME NEW q, NEW known, NEW more, known \subseteq more, Sound(q, known)
    PROVE Sound(q, more)
  BY DEF Sound, AnswerFits, SilentFits

\* Nor does it that its counter was removed.
LEMMA SoundGranted ==
    ASSUME NEW q \in Task, NEW known, Sound(q, known), q.at # "idle", q.at # "check"
    PROVE Sound([q EXCEPT !.object = GRANT_ON], known)
<1> DEFINE p == [q EXCEPT !.object = GRANT_ON]
<1>1. /\ p.at = q.at /\ p.r = q.r /\ p.from = q.from /\ p.ip = q.ip /\ p.depth = q.depth
      /\ p.threat = q.threat /\ p.trap = q.trap /\ p.answer = q.answer /\ p.events = q.events
      /\ p.bytes = q.bytes /\ p.age = q.age /\ p.finalized = q.finalized
      /\ p.object = GRANT_ON
  BY DEF Task
<1> HIDE DEF p
<1> QED
  BY <1>1 DEF Sound, StreamFits, AnswerFits, SilentFits, Leads, p

\* So a request that is handed to its handler leaves all of them sound.
LEMMA TakenTasks ==
    ASSUME req \in [Slot -> Task], TaskInv, NEW s \in Slot, NEW q, Taken(s, q)
    PROVE TaskInv'
<1> SUFFICES ASSUME NEW t \in Slot PROVE Sound(req'[t], used')
  BY DEF TaskInv
<1>1. CASE t = s
  BY <1>1 DEF Taken
<1>2. CASE t # s /\ req'[t] = req[t]
  BY <1>2 DEF Taken, TaskInv
<1>3. CASE t # s /\ req[t].at \in {"sleep", "report"} /\ req'[t] = [req[t] EXCEPT !.object = GRANT_ON]
  <2>1. Sound(req[t], used) /\ used' = used /\ req[t] \in Task
    BY DEF Taken, TaskInv
  <2>2. Sound([req[t] EXCEPT !.object = GRANT_ON], used)
    BY <1>3, <2>1, SoundGranted
  <2> QED
    BY <1>3, <2>1, <2>2
<1> QED
  BY <1>1, <1>2, <1>3 DEF Taken

LEMMA TakenCounts ==
    ASSUME CountInv, NEW s \in Slot, NEW q, Taken(s, q)
    PROVE CountInv'
<1>1. ASSUME NEW t \in Slot PROVE CountFits(req'[t], attempts')
  BY DEF CountInv, Taken
<1> QED
  BY <1>1 DEF CountInv

\* A request that comes is handed to its handler as one of its sender.
LEMMA ArriveTaken ==
    ASSUME TypeOK, NEW s \in Slot, NEW ask \in Asks[s], Arrive(s, ask[1], ask[2], ask[3], ask[4])
    PROVE /\ HistoryOK'
          /\ \E depth \in Nat \ {0}, from \in Sender, ip \in Charged :
               /\ ip = from.address \/ ip \in from.claims
               /\ Taken(s, Fresh(ask[3], from, ip, depth))
<1> DEFINE ip == resolveAttackerIp(Received(ask[1], ask[2], ask[4]))
          claims == Claims(ask[1], ask[2], ask[4])
          from == [address |-> ask[1], claims |-> claims]
<1>1. /\ ask[1] \in Address /\ ask[3] \in Request /\ claims \subseteq Address
      /\ ip \in Address /\ (ip = ask[1] \/ ip \in claims)
  BY AskCharged
<1>2. PICK depth \in Depths(ask[3]) : honeyTokenDetector(s, ask[3], from, ip, depth)
  BY DEF Arrive
<1>3. depth \in Nat \ {0}
  BY GatewayAssumption DEF Depths
<1> HIDE DEF ip, claims
<1>4. from \in Sender /\ ip \in Charged /\ (ip = from.address \/ ip \in from.claims)
  BY <1>1 DEF Sender, Charged
<1> HIDE DEF from
<1>5. Taken(s, Fresh(ask[3], from, ip, depth))
  BY <1>1, <1>2, <1>3, <1>4, DetectorTaken, TypeParts
<1>6. HistoryOK'
  BY TypeParts DEF Arrive, HistoryOK
<1> QED
  BY <1>3, <1>4, <1>5, <1>6

\* What follows a redirect is a request.
LEMMA KeptIs ==
    ASSUME NEW q \in Task, NEW kept \in Kept(q)
    PROVE kept \subseteq Kind
<1>1. q.r \in Request /\ q.r.parameters \in SUBSET Kind
  BY DEF Task, Request
<1>2. \A tag : Example(tag) \subseteq Kind
  BY KindsAre DEF Example
<1>3. CASE q.answer.tag \in {"file", "url"}
  <2>1. kept = Example(q.answer.tag) \/ kept \in SUBSET q.r.parameters
    BY <1>3 DEF Kept
  <2> QED
    BY <1>1, <1>2, <2>1
<1>4. CASE q.answer.tag \notin {"file", "url"}
  BY <1>4 DEF Kept
<1> QED
  BY <1>3, <1>4

LEMMA FollowedIs ==
    ASSUME NEW q \in Task, q.answer # Page, NEW token \in {q.r.token, "none"}, NEW kept \in Kept(q)
    PROVE /\ Followed(q, kept, token) \in Request
          /\ Followed(q, kept, token).path = q.answer.to
          /\ Followed(q, kept, token).tag = q.answer.tag
          /\ Followed(q, kept, token).method = "GET" /\ Followed(q, kept, token).credentials = {}
          /\ Followed(q, kept, token).parameters = kept
<1>1. q.answer.to \in Path /\ q.answer.tag \in Tag
  BY DEF Task, Answer
<1>2. kept \subseteq Kind /\ q.r \in Request
  BY KeptIs DEF Task
<1> DEFINE r == q.r
           f == [r EXCEPT !.path = q.answer.to, !.method = "GET", !.tag = q.answer.tag,
                !.credentials = {}, !.dump = FALSE, !.token = token, !.parameters = kept]
<1>3. Followed(q, kept, token) = f
  BY DEF Followed
<1>4. token \in {"none", "known", "unknown"}
  BY <1>2 DEF Request
<1>5. r \in Request
  BY <1>2
<1> HIDE DEF r
<1>6. f \in Request
  BY <1>1, <1>2, <1>4, <1>5 DEF Request
<1>7. /\ f.path = q.answer.to /\ f.tag = q.answer.tag /\ f.method = "GET" /\ f.credentials = {}
      /\ f.parameters = kept
  BY <1>5 DEF Request
<1> QED
  BY <1>3, <1>6, <1>7

\* The depth of the request that follows a redirect.
NextDepth(q) == IF q.answer.to = "archives" THEN Deeper(q.depth) ELSE q.depth

\* So is one that follows a redirect.
LEMMA FollowTaken ==
    ASSUME TypeOK, TaskInv, NEW s \in Slot, Follow(s)
    PROVE /\ HistoryOK'
          /\ NextDepth(req[s]) \in Nat
          /\ \E token \in {req[s].r.token, "none"}, kept \in Kept(req[s]) :
               Taken(s, Fresh(Followed(req[s], kept, token), req[s].from, req[s].ip,
                              NextDepth(req[s])))
<1> DEFINE q == req[s]
<1>1. q \in Task /\ Sound(q, used)
  BY DEF TypeOK, TaskInv
<1>2. q.at = "answered" /\ q.answer # Page
  BY DEF Follow
<1>3. PICK token \in {q.r.token, "none"}, kept \in Kept(q) :
         honeyTokenDetector(s, Followed(q, kept, token), q.from, q.ip, NextDepth(q))
  BY DEF Follow, NextDepth
<1>4. /\ q.ip = q.from.address \/ q.ip \in q.from.claims
      /\ q.ip \in Charged /\ q.from \in Sender
  BY <1>1, TaskFields DEF Sound
<1>5. NextDepth(q) \in Nat
  <2>1. q.depth \in Nat
    BY <1>1 DEF Task
  <2>2. ENTRY_DEPTH \in Nat
    BY GatewayAssumption
  <2> QED
    BY <2>1, <2>2 DEF NextDepth, Deeper
<1>6. Followed(q, kept, token) \in Request
  BY <1>1, <1>2, FollowedIs
<1>7. Taken(s, Fresh(Followed(q, kept, token), q.from, q.ip, NextDepth(q)))
  BY <1>3, <1>4, <1>5, <1>6, DetectorTaken, TypeParts
<1>8. HistoryOK'
  <2>1. q.threat.type \in Trap \cup {"none"}
    BY <1>1 DEF Task
  <2> QED
    BY <2>1, TypeParts DEF Follow, HistoryOK
<1> QED
  BY <1>5, <1>7, <1>8

\* A request goes on: its handler, or its stream, has got further, or it is over.
GoesOn(s) ==
    /\ req' \in [Slot -> Task] /\ MemoryOK' /\ used \subseteq used'
    /\ Sound(req'[s], used')
    /\ req[s].at # "idle"
    /\ \A t \in Slot \ {s} : req'[t] = req[t]
    /\ req'[s].at # "idle" => req'[s].r = req[s].r /\ req'[s].depth = req[s].depth
    /\ attempts' = attempts
    /\ CountFits(req[s], attempts) => CountFits(req'[s], attempts')

\* A handler is taken up where it was left.
LEMMA StillOpen ==
    ASSUME NEW q \in Task, NEW known, Sound(q, known),
           q.at \in {"use", "sleep", "report", "answered"}
    PROVE /\ Open(q) /\ AnswerFits(q, known)
          /\ q.answer # Page => Leads(q, q.answer)
  BY DEF Sound, AnswerFits, Open

\* What all of the actions below do.
LEMMA PutGoesOn ==
    ASSUME TypeOK, NEW s \in Slot, NEW p \in Task, NEW known, Sound(p, known),
           known = used', used \subseteq used', MemoryOK', Put(s, p), req[s].at # "idle",
           p.at # "idle" => p.r = req[s].r /\ p.depth = req[s].depth,
           attempts' = attempts, CountFits(req[s], attempts) => CountFits(p, attempts)
    PROVE GoesOn(s)
<1>1. req' \in [Slot -> Task] /\ req'[s] = p /\ \A t \in Slot \ {s} : req'[t] = req[t]
  BY DEF Put, TypeOK
<1>2. Sound(req'[s], used')
  BY <1>1
<1>3. CountFits(req[s], attempts) => CountFits(req'[s], attempts')
  BY <1>1
<1> QED
  BY <1>1, <1>2, <1>3 DEF GoesOn

\* The awaits that return: of recordUsage, of report, of the sleeps.
LEMMA UseGoesOn ==
    ASSUME TypeOK, TaskInv, NEW s \in Slot, UseReturns(s)
    PROVE GoesOn(s)
<1> DEFINE q == req[s]
           p == Report(q, "HONEY_TOKEN", q.answer)
<1>1. q \in Task /\ Sound(q, used) /\ q.at = "use" /\ MemoryOK
  BY TypeParts DEF TypeOK, TaskInv, UseReturns
<1>2. Put(s, p) /\ MemoryOK' /\ used' = used /\ attempts' = attempts
  BY <1>1 DEF UseReturns, memory, MemoryOK
<1>3. q.answer \in Answer /\ "HONEY_TOKEN" \in Trap
  BY <1>1, TrapsAre DEF Task
<1> HIDE DEF q
<1>4. Open(q) /\ (q.answer # Page => Leads(q, q.answer))
  BY <1>1, StillOpen
<1>5. p \in Task /\ Sound(p, used)
  BY <1>3, <1>4, ReportSound
<1>6. p.at = "report" /\ p.r = q.r /\ p.depth = q.depth /\ p.turn = q.turn
  BY <1>1, <1>3, ReportIs DEF SameRequest
<1> HIDE DEF p
<1>7. CountFits(q, attempts) => CountFits(p, attempts)
  BY <1>1, <1>6, CountNone DEF CountFits
<1> QED
  BY <1>1, <1>2, <1>5, <1>6, <1>7, PutGoesOn DEF q

LEMMA ReportGoesOn ==
    ASSUME TypeOK, TaskInv, NEW s \in Slot, ReportReturns(s)
    PROVE GoesOn(s)
<1> DEFINE q == req[s]
           p == Show(q, q.answer)
<1>1. q \in Task /\ Sound(q, used) /\ q.at = "report" /\ MemoryOK /\ Put(s, p)
  BY TypeParts DEF TypeOK, TaskInv, ReportReturns
<1>2. MemoryOK' /\ used \subseteq used' /\ attempts' = attempts
  <2>1. q.ip \in Charged
    BY <1>1 DEF Task
  <2> QED
    BY <1>1, <2>1 DEF ReportReturns, MemoryOK
<1>3. q.answer \in Answer
  BY <1>1 DEF Task
<1> HIDE DEF q
<1>4. /\ Open(q) /\ (q.answer # Page => Leads(q, q.answer))
      /\ q.events # <<>>
  BY <1>1, StillOpen DEF AnswerFits
<1>5. p \in Task /\ Sound(p, used')
  BY <1>3, <1>4, ShowSound
<1>6. p.at = "answered" /\ p.r = q.r /\ p.depth = q.depth
  BY <1>1, <1>3, ShowIs DEF SameRequest
<1> HIDE DEF p
<1>7. CountFits(p, attempts)
  BY <1>6 DEF CountFits
<1> QED
  BY <1>1, <1>2, <1>5, <1>6, <1>7, PutGoesOn DEF q

LEMMA WakeSlowGoesOn ==
    ASSUME TypeOK, TaskInv, NEW s \in Slot, WakeSlow(s)
    PROVE GoesOn(s)
<1> DEFINE q == req[s]
           count == IF q.object = 0 THEN attempts[q.ip] ELSE q.object
           w == [q EXCEPT !.left = GRANT_ON - count]
           p == Report(w, "BRUTE_FORCE", Page)
<1>1. q \in Task /\ Sound(q, used) /\ q.at = "sleep" /\ MemoryOK /\ Put(s, p)
  BY TypeParts DEF TypeOK, TaskInv, WakeSlow
<1>2. MemoryOK' /\ used' = used /\ attempts' = attempts
  BY <1>1 DEF WakeSlow, memory, MemoryOK
<1>3. /\ GRANT_ON \in Nat /\ q.ip \in Charged /\ attempts[q.ip] \in 0..(GRANT_ON - 1)
      /\ q.object \in {0, GRANT_ON}
  BY <1>1, GatewayAssumption DEF Task, MemoryOK, Sound
<1>4. count \in 0..GRANT_ON /\ (count = attempts[q.ip] \/ (count = GRANT_ON /\ q.object = GRANT_ON))
  BY <1>3
<1>5. GRANT_ON - count \in 0..GRANT_ON
  BY <1>3, <1>4
<1> HIDE DEF q, count
<1>6. Open(q)
  BY <1>1, StillOpen
<1>7. /\ w \in Task /\ SameRequest(w, q) /\ w.trap = q.trap /\ w.turn = q.turn
      /\ w.left = GRANT_ON - count
  BY <1>1, <1>5 DEF Task, SameRequest
<1> HIDE DEF w
<1>8. Open(w)
  BY <1>6, <1>7 DEF Open, SameRequest
<1>9. p \in Task /\ Sound(p, used)
  BY <1>8, ReportSound, AnswersAre, TrapsAre
<1>10. /\ p.at = "report" /\ p.r = q.r /\ p.depth = q.depth /\ p.ip = q.ip /\ p.object = q.object
       /\ p.turn = q.turn /\ p.left = GRANT_ON - count
  <2>1. p.at = "report" /\ SameRequest(p, w) /\ p.turn = w.turn /\ p.left = w.left
    BY <1>7, ReportIs, AnswersAre, TrapsAre
  <2> HIDE DEF p
  <2> QED
    BY <1>7, <2>1 DEF SameRequest
<1> HIDE DEF p
<1>11. CountFits(q, attempts) => CountFits(p, attempts)
  <2>1. q.turn \in 0..(GRANT_ON - 1)
    BY <1>1, TaskFields
  <2> QED
    BY <1>1, <1>3, <1>10, <2>1 DEF CountFits, count
<1> QED
  BY <1>1, <1>2, <1>9, <1>10, <1>11, PutGoesOn DEF q

LEMMA WakeGoesOn ==
    ASSUME TypeOK, TaskInv, NEW s \in Slot, Wake(s)
    PROVE GoesOn(s)
<1> DEFINE q == req[s]
           checkpoint == q.depth = 1 \/ q.depth % CHECKPOINT_DEPTH = 0
           type == IF q.trap = "archives" THEN "RECON"
                   ELSE IF q.threat.type = "SCANNER" THEN "SCANNER" ELSE "SQLI"
           p == IF q.trap = "archives" /\ ~checkpoint THEN Show(q, q.answer)
                ELSE Report(q, type, q.answer)
<1>1. /\ q \in Task /\ Sound(q, used) /\ q.at = "sleep" /\ q.trap \in {"tarpit", "archives"}
      /\ MemoryOK /\ Put(s, p)
  BY TypeParts DEF TypeOK, TaskInv, Wake
<1>2. MemoryOK' /\ used' = used /\ attempts' = attempts
  BY <1>1 DEF Wake, memory, MemoryOK
<1>3. q.answer \in Answer /\ type \in Trap
  BY <1>1, TrapsAre DEF Task
<1> HIDE DEF q, type
<1>4. Open(q) /\ (q.answer # Page => Leads(q, q.answer)) /\ AnswerFits(q, used)
  BY <1>1, StillOpen
<1>5. /\ p \in Task /\ Sound(p, used)
      /\ p.at # "idle" /\ p.r = q.r /\ p.depth = q.depth /\ p.turn = q.turn
  <2>1. CASE q.trap = "archives" /\ ~checkpoint
    <3>1. q.answer = RedirectTo("archives", "none") /\ q.answer # Page /\ q.answer.to = "archives"
      BY <1>1, <1>4, <2>1, AnswersAre DEF AnswerFits, Path, Tag
    <3>2. q.threat.type = "none"
      BY <1>4, <3>1 DEF Leads, RedirectTo
    <3>3. SilentFits(q, q.answer, used)
      BY <2>1, <3>1, <3>2 DEF SilentFits
    <3> QED
      BY <1>1, <1>3, <1>4, <2>1, <3>3, ShowSound, ShowIs DEF SameRequest
  <2>2. CASE ~(q.trap = "archives" /\ ~checkpoint)
    BY <1>1, <1>3, <1>4, <2>2, ReportSound, ReportIs DEF SameRequest
  <2> QED
    BY <2>1, <2>2
<1> HIDE DEF p
<1>6. CountFits(q, attempts) => CountFits(p, attempts)
  BY <1>1, <1>5 DEF CountFits
<1> QED
  BY <1>1, <1>2, <1>5, <1>6, PutGoesOn DEF q

\* The fields in which a stream and its next state may differ.
SameStream(p, q) ==
    /\ SameRequest(p, q) /\ p.at = "stream" /\ p.trap = q.trap
    /\ p.turn = q.turn /\ p.answer = q.answer

\* A stream that sends, and one that ends.
LEMMA StreamMoves ==
    ASSUME TypeOK, TaskInv, NEW s \in Slot, req[s].at = "stream", NEW p \in Task,
           SameStream(p, req[s]), StreamFits(p), Put(s, p), UNCHANGED memory
    PROVE GoesOn(s)
<1> DEFINE q == req[s]
<1>1. Sound(q, used) /\ MemoryOK' /\ used' = used /\ attempts' = attempts
  BY TypeParts DEF TaskInv, memory, MemoryOK
<1>2. Sound(p, used)
  BY <1>1 DEF Sound, SameStream, SameRequest
<1>3. p.at # "idle" /\ p.r = q.r /\ p.depth = q.depth /\ p.turn = q.turn
  BY DEF SameStream, SameRequest
<1>4. CountFits(q, attempts) => CountFits(p, attempts)
  BY <1>3 DEF CountFits
<1> QED
  BY <1>1, <1>2, <1>3, <1>4, PutGoesOn

LEMMA FinalizeGoesOn ==
    ASSUME TypeOK, TaskInv, NEW s \in Slot, req[s].at = "stream", NEW w \in Task,
           SameStream(w, req[s]), StreamFits(w), finalize(s, w), UNCHANGED memory
    PROVE GoesOn(s)
<1>1. CASE w.finalized
  BY <1>1, StreamMoves DEF finalize
<1>2. CASE ~w.finalized
  <2> DEFINE e == Emitted(w, "DATA_BOMB")
             p == [e EXCEPT !.finalized = TRUE]
  <2>1. /\ e \in Task /\ SameRequest(e, w) /\ Len(e.events) = Len(w.events) + 1
        /\ e.events[Len(w.events) + 1].bytes = w.bytes
        /\ e.at = w.at /\ e.trap = w.trap /\ e.answer = w.answer /\ e.turn = w.turn
        /\ e.bytes = w.bytes /\ e.age = w.age
    BY EmittedIs, TrapsAre
  <2>2. Put(s, p)
    BY <1>2 DEF finalize
  <2> HIDE DEF e
  <2>3. /\ p \in Task /\ SameRequest(p, e) /\ p.events = e.events /\ p.at = e.at /\ p.trap = e.trap
        /\ p.answer = e.answer /\ p.turn = e.turn /\ p.bytes = e.bytes /\ p.age = e.age
        /\ p.finalized
    BY <2>1 DEF Task, SameRequest
  <2> HIDE DEF p
  <2>4. Len(w.events) = 0
    BY <1>2 DEF StreamFits
  <2>7. Len(e.events) = 1 /\ e.events[1].bytes = w.bytes
    BY <2>1, <2>4
  <2>5. StreamFits(p)
    BY <2>1, <2>3, <2>7 DEF StreamFits
  <2>6. SameStream(p, req[s])
    BY <2>1, <2>3 DEF SameStream, SameRequest
  <2> QED
    BY <2>2, <2>3, <2>5, <2>6, StreamMoves
<1> QED
  BY <1>1, <1>2

\* The actions of the streams.
LEMMA WriteGoesOn ==
    ASSUME TypeOK, TaskInv, NEW s \in Slot, writeOne(s)
    PROVE GoesOn(s)
<1> DEFINE q == req[s]
<1>1. /\ q \in Task /\ q.at = "stream" /\ q.trap = "trickle" /\ ~q.finalized /\ StreamFits(q)
      /\ UNCHANGED memory
  BY DEF TypeOK, TaskInv, writeOne, Sound
<1>2. CASE q.bytes >= MAX_BYTES \/ q.age >= HARD_MAX
  <2>1. finalize(s, q) /\ SameStream(q, req[s])
    BY <1>1, <1>2 DEF writeOne, SameStream, SameRequest
  <2> QED
    BY <1>1, <2>1, FinalizeGoesOn
<1>3. CASE ~(q.bytes >= MAX_BYTES \/ q.age >= HARD_MAX)
  <2>1. PICK late \in 0..LATE : Put(s, [q EXCEPT !.bytes = @ + 1, !.age = @ + 1 + late])
    BY <1>3 DEF writeOne
  <2> DEFINE p == [q EXCEPT !.bytes = @ + 1, !.age = @ + 1 + late]
  <2>2. q.bytes \in Nat /\ q.age \in Nat /\ late \in Nat /\ HARD_MAX \in Nat /\ MAX_BYTES \in Nat
    <3>1. LATE \in Nat /\ HARD_MAX \in Nat /\ MAX_BYTES \in Nat
      BY GatewayAssumption
    <3> QED
      BY <1>1, <3>1, TaskFields
  <2>3. /\ p.bytes = q.bytes + 1 /\ p.age = q.age + 1 + late /\ p.trap = q.trap
        /\ p.events = q.events /\ p.finalized = q.finalized /\ SameStream(p, q)
    BY <1>1 DEF Task, SameStream, SameRequest
  <2>4. p \in Task
    <3>1. q.bytes + 1 \in Nat /\ q.age + 1 + late \in Nat
      BY <2>2
    <3> QED
      BY <1>1, <3>1 DEF Task
  <2>5. Put(s, p)
    BY <2>1
  <2> HIDE DEF p
  <2>6. q.bytes <= q.age /\ q.age < HARD_MAX
    BY <1>1, <1>3, <2>2 DEF StreamFits
  <2>7. StreamFits(p)
    BY <1>1, <2>2, <2>3, <2>6 DEF StreamFits
  <2> QED
    BY <1>1, <2>3, <2>4, <2>5, <2>7, StreamMoves
<1> QED
  BY <1>2, <1>3

LEMMA ChunkGoesOn ==
    ASSUME TypeOK, TaskInv, NEW s \in Slot, sendChunk(s)
    PROVE GoesOn(s)
<1> DEFINE q == req[s]
           p == [q EXCEPT !.bytes = @ + 1]
<1>1. /\ q \in Task /\ q.at = "stream" /\ q.trap = "bomb" /\ ~q.finalized /\ StreamFits(q)
      /\ UNCHANGED memory /\ Put(s, p)
  BY DEF TypeOK, TaskInv, sendChunk, Sound
<1>2. /\ p.trap = q.trap /\ p.events = q.events /\ p.finalized = q.finalized /\ SameStream(p, q)
  BY <1>1 DEF Task, SameStream, SameRequest
<1>3. p \in Task
  <2>1. q.bytes \in Nat
    BY <1>1, TaskFields
  <2>2. q.bytes + 1 \in Nat
    BY <2>1
  <2> QED
    BY <1>1, <2>2 DEF Task
<1> HIDE DEF p
<1>4. StreamFits(p)
  BY <1>1, <1>2 DEF StreamFits
<1> QED
  BY <1>1, <1>2, <1>3, <1>4, StreamMoves

LEMMA EventGoesOn ==
    ASSUME TypeOK, TaskInv, NEW s \in Slot, NEW e, StreamEvent(s, e)
    PROVE GoesOn(s)
<1> DEFINE q == req[s]
           w == [q EXCEPT !.signals = @ \ {e}]
<1>1. q \in Task /\ q.at = "stream" /\ StreamFits(q) /\ UNCHANGED memory /\ finalize(s, w)
  BY DEF TypeOK, TaskInv, StreamEvent, Sound
<1>2. /\ w.trap = q.trap /\ w.events = q.events /\ w.finalized = q.finalized /\ SameStream(w, q)
      /\ w.bytes = q.bytes /\ w.age = q.age
  BY <1>1 DEF Task, SameStream, SameRequest
<1>3. w \in Task
  <2>1. q.signals \ {e} \in SUBSET {"close", "aborted", "req close", "res close", "finish"}
    BY <1>1 DEF Task
  <2> QED
    BY <1>1, <2>1 DEF Task
<1> HIDE DEF w
<1>4. StreamFits(w)
  BY <1>1, <1>2 DEF StreamFits
<1> QED
  BY <1>1, <1>2, <1>3, <1>4, FinalizeGoesOn

\* The end of a request.
LEMMA OverGoesOn ==
    ASSUME TypeOK, TaskInv, NEW s \in Slot, StreamOver(s) \/ Leave(s)
    PROVE GoesOn(s)
<1>1. Put(s, Idle) /\ UNCHANGED memory /\ req[s].at # "idle"
  BY DEF StreamOver, Leave
<1>2. MemoryOK' /\ used' = used /\ attempts' = attempts
  BY <1>1, TypeParts DEF memory, MemoryOK
<1>3. CountFits(Idle, attempts)
  BY IdleIs, CountNone
<1> QED
  BY <1>1, <1>2, <1>3, IdleIs, PutGoesOn

\* A key that was asked of telemetry.
LEMMA CheckTaken ==
    ASSUME TypeOK, TaskInv, NEW s \in Slot, CheckReturns(s)
    PROVE /\ req[s].at = "check"
          /\ \E token \in {"known", "unknown"} :
               /\ [req[s].r EXCEPT !.token = token] \in Request
               /\ Taken(s, Fresh([req[s].r EXCEPT !.token = token], req[s].from, req[s].ip,
                                 req[s].depth))
<1> DEFINE q == req[s]
<1>1. q \in Task /\ Sound(q, used) /\ q.at = "check"
  BY DEF TypeOK, TaskInv, CheckReturns
<1>2. /\ q = Fresh(q.r, q.from, q.ip, q.depth)
      /\ q.r \in Request /\ q.from \in Sender /\ q.ip \in Charged /\ q.depth \in Nat
      /\ q.ip = q.from.address \/ q.ip \in q.from.claims
  BY <1>1, TaskFields DEF Sound
<1>3. PICK token \in {"known", "unknown"} : gatekeeper(s, [q EXCEPT !.r.token = token])
  BY DEF CheckReturns
<1> DEFINE r == [q.r EXCEPT !.token = token]
<1>4. r \in Request
  BY <1>2 DEF Request
<1>5. [q EXCEPT !.r.token = token] = Fresh(r, q.from, q.ip, q.depth)
  <2>1. [q EXCEPT !.r.token = token] = [q EXCEPT !.r = r]
    BY <1>1 DEF Task
  <2> HIDE DEF r
  <2>2. \A a, b, c, d : [Fresh(a, b, c, d) EXCEPT !.r = r] = Fresh(r, b, c, d)
    <3> TAKE a, b, c, d
    <3> DEFINE w == [Idle EXCEPT !.at = "check", !.from = b, !.ip = c, !.depth = d]
    <3>1. Fresh(a, b, c, d) = [w EXCEPT !.r = a] /\ Fresh(r, b, c, d) = [w EXCEPT !.r = r]
      BY DEF Fresh
    <3>2. \A v : [[v EXCEPT !.r = a] EXCEPT !.r = r] = [v EXCEPT !.r = r]
      OBVIOUS
    <3> HIDE DEF w
    <3> QED
      BY <3>1, <3>2
  <2> QED
    BY <1>2, <2>1, <2>2
<1>6. Taken(s, Fresh(r, q.from, q.ip, q.depth))
  BY <1>2, <1>3, <1>4, <1>5, GatekeeperTaken, TypeParts
<1> QED
  BY <1>1, <1>4, <1>6

------------------------------------------------------------------------------
(***************************************************************************)
(* The history of the redirects.                                           *)
(***************************************************************************)

\* The threats that must not end on a page without a report.
Alarming == {"SCANNER", "SSRF", "PATH_TRAVERSAL", "XSS"}

\* What a redirect to a trap takes along.
Own(p) ==
    IF p = "fileViewer" THEN {"PATH_TRAVERSAL"} ELSE IF p = "fetchStatus" THEN {"SSRF"} ELSE {}

\* A request with nothing in it that does not belong to its place.
Plain(r) ==
    /\ r.path \in {"database", "login", "legacySignIn", "fileViewer", "fetchStatus"}
    /\ r.parameters \subseteq Own(r.path) /\ r.credentials = {}
    /\ r.method = "GET" /\ r.tag # "brute"

\* How many redirects may follow, those of the labyrinth not counted.
Rank(r) ==
    IF r.path = "console" /\ r.parameters = {} THEN 0
    ELSE IF Plain(r) THEN 1
    ELSE IF TakenAlong(r) THEN 2
    ELSE 3

\* h redirects led to a request r at this depth, the last n of them silent; met are the
\* threats they were for, and t says whether anything was reported.
ChainFits(r, depth, h, n, met, t) ==
    /\ h + Rank(r) <= 3
    /\ r.path # "archives" => n <= h /\ n <= 2
    /\ r.path = "archives" =>
         /\ depth >= 1
         /\ n <= ((depth - 1) % CHECKPOINT_DEPTH) + 1
         /\ depth > MAX_DEPTH => n = 0
         /\ n > 0 => r.parameters = {}
    /\ t \/ met \cap Alarming = {} \/ "SQLI" \in met \/ TakenAlong(r)

\* The bounds of RedirectsLead, and what the history of a request says of it.
ChainAt(s) ==
    /\ hops[s] <= 3 /\ silent[s] <= CHECKPOINT_DEPTH
    /\ req[s].at # "idle" =>
         ChainFits(req[s].r, req[s].depth, hops[s], silent[s], seen[s], told[s])

ChainInv == \A s \in Slot : ChainAt(s)

\* A request nobody was sent to may be anything.
LEMMA ChainStarts ==
    ASSUME NEW r \in Request, NEW depth \in Nat \ {0}, NEW t
    PROVE ChainFits(r, depth, 0, 0, {}, t)
<1>1. CHECKPOINT_DEPTH \in Nat \ {0} /\ depth - 1 \in Nat
  BY GatewayAssumption
<1>2. (depth - 1) % CHECKPOINT_DEPTH \in Nat
  BY <1>1, Remainder
<1>3. 0 + Rank(r) <= 3
  BY DEF Rank
<1> QED
  BY <1>1, <1>2, <1>3 DEF ChainFits

\* A place that a redirect leads to, of a request found to be this threat.
LEMMA FoundIn ==
    ASSUME NEW r \in Request, threatInfo(r).type \in {"SQLI", "SSRF", "PATH_TRAVERSAL"}
    PROVE /\ ~isAuthFormPath(r.path) => threatInfo(r).type \in r.parameters
          /\ isAuthFormPath(r.path) => threatInfo(r).type \in r.credentials
<1>1. threatInfo(r).type \in getThreatTypes(r)
  BY ThreatInfo, KindsAre
<1> QED
  BY <1>1 DEF getThreatTypes, PathKinds

\* Every redirect but those of the labyrinth takes one off, and the last one of a request
\* that has one left at most is that of a key.
LEMMA Descends ==
    ASSUME NEW q \in Task, q.answer # Page, Leads(q, q.answer), q.threat = threatInfo(q.r),
           q.answer.to # "archives", NEW token \in {q.r.token, "none"}, NEW kept \in Kept(q)
    PROVE /\ Rank(Followed(q, kept, token)) + 1 <= Rank(q.r)
          /\ Rank(q.r) <= 1 => q.threat.type = "HONEY_TOKEN"
<1> DEFINE f == Followed(q, kept, token)
           to == q.answer.to
<1>1. /\ f.path = q.answer.to /\ f.tag = q.answer.tag /\ f.method = "GET" /\ f.credentials = {}
      /\ f.parameters = kept
  BY FollowedIs
<1>2. q.r \in Request
  BY DEF Task
<1> SUFFICES Rank(f) + 1 <= Rank(q.r) /\ (Rank(q.r) <= 1 => q.threat.type = "HONEY_TOKEN")
  OBVIOUS
<1> HIDE DEF f
<1>3. \A p, tag : q.answer = RedirectTo(p, tag) => q.answer.to = p /\ q.answer.tag = tag
  BY DEF RedirectTo
<1>4. q.answer.tag \notin {"file", "url"} => f.parameters = {}
  BY <1>1 DEF Kept
<1>5. q.threat.type \in {"SQLI", "SSRF", "PATH_TRAVERSAL"} =>
        /\ q.r.path \notin {"login", "legacySignIn"} => q.threat.type \in q.r.parameters
        /\ q.r.path \in {"login", "legacySignIn"} => q.threat.type \in q.r.credentials
  BY <1>2, FoundIn DEF isAuthFormPath
<1>6. CASE q.answer = RedirectTo("console", "breach") /\ q.r.path = "legacySignIn"
           /\ (q.r.method = "POST" \/ q.r.tag = "brute")
  <2>1. Rank(f) = 0
    BY <1>1, <1>3, <1>4, <1>6 DEF Rank
  <2>2. Rank(q.r) = 3
    BY <1>6 DEF Rank, Plain, TakenAlong
  <2> QED
    BY <2>1, <2>2
<1>7. CASE /\ q.answer = RedirectTo("legacySignIn", "bypass")
           /\ q.r.path = "login" /\ q.r.method = "POST"
  <2>1. f.path = "legacySignIn" /\ f.tag = "bypass" /\ f.parameters = {}
    BY <1>1, <1>3, <1>4, <1>7
  <2>2. Plain(f)
    BY <1>1, <2>1 DEF Plain
  <2>3. Rank(f) <= 1
    BY <2>2 DEF Rank
  <2>4. Rank(q.r) = 3
    BY <1>7 DEF Rank, Plain, TakenAlong
  <2>5. Rank(f) \in Nat
    BY DEF Rank
  <2> QED
    BY <2>3, <2>4, <2>5
<1>8. CASE q.answer = RedirectTo("login", "none") /\ q.r.path = "signOut"
  <2>1. f.path = "login" /\ f.tag = "none" /\ f.parameters = {}
    BY <1>1, <1>3, <1>4, <1>8
  <2>2. Plain(f)
    BY <1>1, <2>1 DEF Plain
  <2>3. Rank(f) <= 1 /\ Rank(f) \in Nat
    BY <2>2 DEF Rank
  <2>4. Rank(q.r) = 3
    BY <1>8 DEF Rank, Plain, TakenAlong
  <2> QED
    BY <2>3, <2>4
<1>9. CASE /\ q.answer = RedirectTo("database", "none")
           /\ q.r.path # "database" /\ q.threat.type = "SQLI"
  <2>1. f.path = "database" /\ f.tag = "none" /\ f.parameters = {}
    BY <1>1, <1>3, <1>4, <1>9
  <2>2. Plain(f)
    BY <1>1, <2>1 DEF Plain
  <2>3. Rank(f) <= 1 /\ Rank(f) \in Nat
    BY <2>2 DEF Rank
  <2>4. ~Plain(q.r) /\ ~(q.r.path = "console" /\ q.r.parameters = {})
    BY <1>5, <1>9 DEF Plain, Own
  <2>5. Rank(q.r) \in {2, 3}
    BY <2>4 DEF Rank
  <2> QED
    BY <2>3, <2>5
<1>10. CASE \/ /\ q.answer = RedirectTo("fetchStatus", "url")
               /\ q.r.path # "fetchStatus" /\ q.threat.type = "SSRF"
            \/ /\ q.answer = RedirectTo("fileViewer", "file")
               /\ q.r.path # "fileViewer" /\ q.threat.type = "PATH_TRAVERSAL"
  <2>1. \/ f.path = "fetchStatus" /\ f.tag = "url" /\ Example(f.tag) = {"SSRF"}
        \/ f.path = "fileViewer" /\ f.tag = "file" /\ Example(f.tag) = {"PATH_TRAVERSAL"}
    BY <1>1, <1>3, <1>10 DEF Example
  <2>2. ~Plain(q.r) /\ ~(q.r.path = "console" /\ q.r.parameters = {})
    BY <1>5, <1>10 DEF Plain, Own
  <2>3. Rank(q.r) \in {2, 3} /\ (q.r.tag \notin {"file", "url"} => Rank(q.r) = 3)
    BY <2>2 DEF Rank, TakenAlong
  <2>4. TakenAlong(f) /\ f.path # "console"
    BY <2>1 DEF TakenAlong
  <2>5. Rank(f) \in {1, 2}
    BY <2>4 DEF Rank
  <2>6. q.r.tag \in {"file", "url"} => kept = Example(f.tag)
    BY <1>1, <2>1 DEF Kept
  <2>7. q.r.tag \in {"file", "url"} => Plain(f)
    BY <1>1, <2>1, <2>6 DEF Plain, Own
  <2>8. q.r.tag \in {"file", "url"} => Rank(f) = 1
    BY <2>4, <2>7 DEF Rank
  <2> QED
    BY <2>3, <2>5, <2>8
<1>11. CASE /\ q.answer = RedirectTo("console", "ack")
            /\ q.r.path # "console" /\ q.threat.type = "HONEY_TOKEN"
  <2>1. Rank(f) = 0
    BY <1>1, <1>3, <1>4, <1>11 DEF Rank
  <2>2. Rank(q.r) \in {1, 2, 3}
    BY <1>11 DEF Rank
  <2> QED
    BY <1>11, <2>1, <2>2
<1>12. q.answer # RedirectTo("archives", "none")
  BY <1>3
<1> QED
  BY <1>6, <1>7, <1>8, <1>9, <1>10, <1>11, <1>12 DEF Leads

\* What a redirect adds to the history of its request.
Adds(s) ==
    /\ silent'[s] = IF req[s].events = <<>> THEN silent[s] + 1 ELSE 0
    /\ seen'[s] = seen[s] \cup {req[s].threat.type}
    /\ told[s] \/ req[s].events # <<>> => told'[s]

\* One redirect of the labyrinth.
LEMMA LabyrinthChain ==
    ASSUME NEW s, NEW q \in Task, q = req[s], q.r.path = "archives",
           q.answer = RedirectTo("archives", "none"),
           silent[s] \in Nat, ChainFits(q.r, q.depth, hops[s], silent[s], seen[s], told[s]),
           q.threat.type = "none", q.events = <<>> => SilentFits(q, q.answer, used), Adds(s),
           NEW token \in {q.r.token, "none"}, NEW kept \in Kept(q)
    PROVE /\ ChainFits(Followed(q, kept, token), NextDepth(q), 0, silent'[s], seen'[s], told'[s])
          /\ silent'[s] <= CHECKPOINT_DEPTH
<1> DEFINE n == silent[s]
           m == silent'[s]
<1>0. /\ n \in Nat /\ ChainFits(q.r, q.depth, hops[s], n, seen[s], told[s])
      /\ m = (IF q.events = <<>> THEN n + 1 ELSE 0)
      /\ seen'[s] = seen[s] \cup {q.threat.type} /\ (told[s] \/ q.events # <<>> => told'[s])
  BY DEF Adds
<1> HIDE DEF n, m
<1> DEFINE f == Followed(q, kept, token)
           C == CHECKPOINT_DEPTH
           d == q.depth
           e == Deeper(d)
<1>1. q.answer # Page /\ q.answer.to = "archives" /\ q.answer.tag = "none"
  BY <1>0, AnswersAre DEF Path, Tag
<1>2. f.path = "archives" /\ f.parameters = {}
  <2>1. kept = {}
    BY <1>0, <1>1 DEF Kept
  <2>2. f.path = q.answer.to /\ f.parameters = kept
    BY <1>0, <1>1, FollowedIs
  <2> QED
    BY <1>0, <1>1, <2>1, <2>2
<1> HIDE DEF f
<1>3. Rank(f) <= 3 /\ Rank(f) \in Nat
  BY <1>0 DEF Rank
<1>4. /\ C \in Nat \ {0} /\ MAX_DEPTH \in Nat /\ MAX_DEPTH % C = 0
      /\ ENTRY_DEPTH \in 1..(MAX_DEPTH - 1)
  BY <1>0, GatewayAssumption
<1>5. /\ d \in Nat /\ d >= 1 /\ n <= ((d - 1) % C) + 1 /\ (d > MAX_DEPTH => n = 0)
  BY <1>0, TaskFields DEF ChainFits
<1>6. e \in Nat /\ e >= 1 /\ e - 1 \in Nat
  <2>1. e = ENTRY_DEPTH + 1 \/ e = d + 1
    BY DEF Deeper
  <2>2. ENTRY_DEPTH \in Nat /\ d \in Nat
    BY <1>4, <1>5
  <2> HIDE DEF e, d
  <2> QED
    BY <2>1, <2>2
<1>7. (e - 1) % C \in 0..(C - 1)
  BY <1>0, <1>4, <1>6, Remainder
<1>8. m <= ((e - 1) % C) + 1 /\ (e > MAX_DEPTH => m = 0)
  <2>1. CASE q.events # <<>>
    BY <1>0, <1>4, <1>7, <2>1
  <2>2. CASE q.events = <<>>
    <3>1. d # 1 /\ d % C # 0
      BY <1>0, <1>1, <2>2 DEF SilentFits
    <3>2. m = n + 1
      BY <1>0, <2>2
    <3>3. CASE d > MAX_DEPTH
      <4>1. e = ENTRY_DEPTH + 1 /\ n = 0
        BY <1>0, <1>4, <1>5, <3>3 DEF Deeper
      <4> QED
        BY <1>0, <1>4, <1>7, <3>2, <4>1
    <3>4. CASE d < MAX_DEPTH
      <4>1. e = d + 1
        BY <1>0, <1>4, <1>5, <3>4 DEF Deeper
      <4>2. d - 1 \in Nat /\ (d - 1) + 1 = d
        BY <1>0, <1>5
      <4>3. d % C = ((d - 1) % C) + 1
        BY <1>0, <1>4, <3>1, <4>2, NextRemainder
      <4>4. e - 1 = d
        BY <1>0, <1>5, <4>1
      <4>5. (d - 1) % C \in 0..(C - 1)
        BY <1>0, <1>4, <4>2, Remainder
      <4>6. m <= (d % C) + 1
        BY <1>0, <1>5, <3>2, <4>3, <4>5
      <4>7. m <= ((e - 1) % C) + 1
        BY <1>0, <4>4, <4>6
      <4>8. e <= MAX_DEPTH
        BY <1>0, <1>4, <1>5, <3>4, <4>1
      <4> QED
        BY <1>0, <1>4, <1>6, <4>7, <4>8
    <3>5. d # MAX_DEPTH
      BY <1>0, <1>4, <3>1
    <3> QED
      BY <1>0, <1>4, <1>5, <3>3, <3>4, <3>5
  <2> QED
    BY <1>0, <2>1, <2>2
<1>9. m \in Nat /\ m <= C
  BY <1>0, <1>4, <1>7, <1>8
<1>10. seen[s] \cap Alarming = {} \/ "SQLI" \in seen[s] \/ told[s]
  BY <1>0 DEF ChainFits, TakenAlong
<1>11. "none" \notin Alarming
  BY <1>0 DEF Alarming
<1>12. told'[s] \/ seen'[s] \cap Alarming = {} \/ "SQLI" \in seen'[s]
  BY <1>0, <1>10, <1>11
<1>13. NextDepth(q) = e
  BY <1>0, <1>1 DEF NextDepth
<1> HIDE DEF e
<1>14. ChainFits(f, e, 0, m, seen'[s], told'[s])
  BY <1>0, <1>2, <1>3, <1>6, <1>8, <1>9, <1>12 DEF ChainFits
<1> QED
  BY <1>0, <1>9, <1>13, <1>14 DEF f, m

\* A redirect of a trap.
LEMMA TrapChain ==
    ASSUME NEW s, NEW q \in Task, q = req[s], q.answer # Page, q.answer.to # "archives",
           Leads(q, q.answer),
           q.threat = threatInfo(q.r), hops[s] \in Nat,
           silent[s] \in Nat, ChainFits(q.r, q.depth, hops[s], silent[s], seen[s], told[s]),
           q.events = <<>> => SilentFits(q, q.answer, used), Adds(s),
           NEW token \in {q.r.token, "none"}, NEW kept \in Kept(q)
    PROVE /\ ChainFits(Followed(q, kept, token), NextDepth(q), hops[s] + 1,
                       silent'[s], seen'[s], told'[s])
          /\ hops[s] + 1 <= 3 /\ silent'[s] <= 2
<1> DEFINE n == silent[s]
           m == silent'[s]
<1>0. /\ n \in Nat /\ ChainFits(q.r, q.depth, hops[s], n, seen[s], told[s])
      /\ m = (IF q.events = <<>> THEN n + 1 ELSE 0)
      /\ seen'[s] = seen[s] \cup {q.threat.type} /\ (told[s] \/ q.events # <<>> => told'[s])
  BY DEF Adds
<1> HIDE DEF n, m
<1> DEFINE f == Followed(q, kept, token)
<1>1. Rank(f) + 1 <= Rank(q.r) /\ (Rank(q.r) <= 1 => q.threat.type = "HONEY_TOKEN")
  BY <1>0, Descends
<1>2. f.path = q.answer.to /\ f.tag = q.answer.tag
  BY <1>0, FollowedIs
<1> HIDE DEF f
<1>3. Rank(f) \in 0..3 /\ Rank(q.r) \in 0..3
  BY <1>0 DEF Rank
<1>4. (hops[s] + 1) + Rank(f) <= 3 /\ hops[s] + 1 <= 3
  BY <1>0, <1>1, <1>3 DEF ChainFits
<1>5. \A p, tag : q.answer = RedirectTo(p, tag) => q.answer.to = p /\ q.answer.tag = tag
  BY <1>0 DEF RedirectTo
<1>6. m <= hops[s] + 1 /\ m <= 2 /\ m \in Nat
  <2>1. CASE q.events # <<>>
    BY <1>0, <2>1
  <2>2. CASE q.events = <<>>
    <3>1. q.threat.type # "HONEY_TOKEN"
      BY <1>0, <2>2 DEF SilentFits
    <3>2. hops[s] <= 1
      BY <1>0, <1>1, <1>3, <3>1 DEF ChainFits
    <3>3. CASE q.r.path # "archives"
      BY <1>0, <2>2, <3>2, <3>3 DEF ChainFits
    <3>4. CASE q.r.path = "archives"
      <4>1. q.threat.type \in {"SQLI", "SSRF", "PATH_TRAVERSAL"}
        BY <1>0, <1>5, <3>1, <3>4 DEF Leads
      <4>2. q.r \in Request
        BY <1>0 DEF Task
      <4>3. q.threat.type \in q.r.parameters
        BY <1>0, <3>4, <4>1, <4>2, FoundIn DEF isAuthFormPath
      <4>4. n = 0
        BY <1>0, <3>4, <4>3 DEF ChainFits
      <4> QED
        BY <1>0, <2>2, <4>4
    <3> QED
      BY <1>0, <3>3, <3>4
  <2> QED
    BY <1>0, <2>1, <2>2
<1>7. told'[s] \/ seen'[s] \cap Alarming = {} \/ "SQLI" \in seen'[s] \/ TakenAlong(f)
  <2>1. CASE q.events # <<>>
    BY <1>0, <2>1
  <2>2. CASE q.events = <<>> /\ q.threat.type = "SQLI"
    BY <1>0, <2>2
  <2>3. CASE q.threat.type \in {"SSRF", "PATH_TRAVERSAL"}
    BY <1>0, <1>2, <1>5, <2>3 DEF Leads, TakenAlong
  <2>4. CASE q.events = <<>> /\ q.threat.type \notin {"SQLI", "SSRF", "PATH_TRAVERSAL"}
    <3>1. q.threat.type # "HONEY_TOKEN"
      BY <1>0, <2>4 DEF SilentFits
    <3>2. q.threat.type = "none" /\ q.r.path \in {"legacySignIn", "signOut"}
      BY <1>0, <1>5, <2>4, <3>1 DEF Leads
    <3>3. told[s] \/ seen[s] \cap Alarming = {} \/ "SQLI" \in seen[s]
      BY <1>0, <3>2 DEF ChainFits, TakenAlong
    <3> QED
      BY <1>0, <3>2, <3>3 DEF Alarming
  <2> QED
    BY <1>0, <2>1, <2>2, <2>3, <2>4
<1>8. ChainFits(f, NextDepth(q), hops[s] + 1, m, seen'[s], told'[s])
  BY <1>0, <1>2, <1>4, <1>6, <1>7 DEF ChainFits
<1> QED
  BY <1>0, <1>4, <1>6, <1>8 DEF f, m

\* What is handed to a handler touches nothing of the others.
LEMMA TakenOthers ==
    ASSUME req \in [Slot -> Task], NEW s \in Slot, NEW q, Taken(s, q), NEW t \in Slot \ {s}
    PROVE req'[t].at = req[t].at /\ req'[t].r = req[t].r /\ req'[t].depth = req[t].depth
<1>1. CASE req'[t] = req[t]
  BY <1>1
<1>2. CASE req'[t] = [req[t] EXCEPT !.object = GRANT_ON]
  <2>1. req[t] \in Task
    OBVIOUS
  <2> DEFINE p == req[t]
             w == [p EXCEPT !.object = GRANT_ON]
  <2>2. w.at = p.at /\ w.r = p.r /\ w.depth = p.depth
    BY <2>1 DEF Task
  <2> QED
    BY <1>2, <2>2
<1> QED
  BY <1>1, <1>2 DEF Taken

\* A request that goes on and whose history is as it was.
LEMMA ChainRests ==
    ASSUME NEW t \in Slot, ChainAt(t), hops'[t] = hops[t], silent'[t] = silent[t],
           seen'[t] = seen[t], told'[t] = told[t],
           req'[t].at # "idle" =>
             req[t].at # "idle" /\ req'[t].r = req[t].r /\ req'[t].depth = req[t].depth
    PROVE ChainAt(t)'
  BY DEF ChainAt

\* What telemetry finds out about a key is nothing to the history.
LEMMA KeyIsNothing ==
    ASSUME NEW r \in Request, NEW token, NEW depth, NEW h, NEW n, NEW met, NEW t,
           ChainFits(r, depth, h, n, met, t)
    PROVE ChainFits([r EXCEPT !.token = token], depth, h, n, met, t)
<1> DEFINE f == [r EXCEPT !.token = token]
<1>1. /\ f.path = r.path /\ f.parameters = r.parameters /\ f.credentials = r.credentials
      /\ f.method = r.method /\ f.tag = r.tag
  BY DEF Request
<1> HIDE DEF f
<1>2. Plain(f) <=> Plain(r)
  BY <1>1 DEF Plain
<1>3. TakenAlong(f) <=> TakenAlong(r)
  BY <1>1 DEF TakenAlong
<1>4. Rank(f) = Rank(r)
  BY <1>1, <1>2, <1>3 DEF Rank
<1>5. ChainFits(f, depth, h, n, met, t)
  BY <1>1, <1>3, <1>4 DEF ChainFits
<1> QED
  BY <1>5 DEF f

\* The invariant of the history, for each kind of step.
LEMMA ArriveChain ==
    ASSUME TypeOK, ChainInv, NEW s \in Slot, NEW ask \in Asks[s],
           Arrive(s, ask[1], ask[2], ask[3], ask[4])
    PROVE ChainInv'
<1>1. PICK depth \in Nat \ {0}, from \in Sender, ip \in Charged :
         /\ ip = from.address \/ ip \in from.claims
         /\ Taken(s, Fresh(ask[3], from, ip, depth))
  BY ArriveTaken
<1>2. ask[3] \in Request
  BY AskCharged
<1>3. req'[s].r = ask[3] /\ req'[s].depth = depth
  BY <1>1, <1>2, FreshIs DEF Taken
<1>4. req \in [Slot -> Task] /\ HistoryOK
  BY TypeParts
<1>5. /\ hops'[s] = 0 /\ silent'[s] = 0 /\ seen'[s] = {}
      /\ \A t \in Slot \ {s} : /\ hops'[t] = hops[t] /\ silent'[t] = silent[t]
                               /\ seen'[t] = seen[t] /\ told'[t] = told[t]
  BY <1>4 DEF Arrive, HistoryOK
<1>6. ChainFits(ask[3], depth, 0, 0, {}, told'[s])
  BY <1>2, ChainStarts
<1>7. CHECKPOINT_DEPTH \in Nat
  BY GatewayAssumption
<1>8. ChainAt(s)'
  BY <1>3, <1>5, <1>6, <1>7 DEF ChainAt
<1>9. ASSUME NEW t \in Slot \ {s} PROVE ChainAt(t)'
  <2>1. /\ req'[t].at = req[t].at /\ req'[t].r = req[t].r /\ req'[t].depth = req[t].depth
    BY <1>1, <1>4, TakenOthers
  <2>2. ChainAt(t)
    BY DEF ChainInv
  <2> QED
    BY <1>5, <2>1, <2>2, ChainRests
<1> QED
  BY <1>8, <1>9 DEF ChainInv

LEMMA FollowChain ==
    ASSUME TypeOK, TaskInv, ChainInv, NEW s \in Slot, Follow(s)
    PROVE ChainInv'
<1> DEFINE q == req[s]
<1>1. PICK token \in {q.r.token, "none"}, kept \in Kept(q) :
        Taken(s, Fresh(Followed(q, kept, token), q.from, q.ip, NextDepth(q)))
  BY FollowTaken
<1>2. NextDepth(q) \in Nat
  BY FollowTaken
<1>3. req \in [Slot -> Task] /\ HistoryOK /\ q \in Task
  BY TypeParts
<1>4. q.at = "answered" /\ q.answer # Page
  BY DEF Follow
<1>5. Sound(q, used)
  BY DEF TaskInv
<1>6. Open(q) /\ Leads(q, q.answer) /\ AnswerFits(q, used)
  BY <1>3, <1>4, <1>5, StillOpen
<1>7. q.threat = threatInfo(q.r) /\ (q.events = <<>> => SilentFits(q, q.answer, used))
  BY <1>4, <1>6 DEF Open, AnswerFits
<1>8. q.from \in Sender /\ q.ip \in Charged /\ (q.ip = q.from.address \/ q.ip \in q.from.claims)
  BY <1>3, <1>5, TaskFields DEF Sound
<1>9. Followed(q, kept, token) \in Request
  BY <1>3, <1>4, FollowedIs
<1>10. req'[s].r = Followed(q, kept, token) /\ req'[s].depth = NextDepth(q)
  BY <1>1, <1>2, <1>8, <1>9, FreshIs DEF Taken
<1>11. /\ hops'[s] = IF q.answer.to = "archives" THEN 0 ELSE hops[s] + 1
       /\ silent'[s] = IF q.events = <<>> THEN silent[s] + 1 ELSE 0
       /\ seen'[s] = seen[s] \cup {q.threat.type}
       /\ told[s] \/ q.events # <<>> => told'[s]
       /\ \A t \in Slot \ {s} : /\ hops'[t] = hops[t] /\ silent'[t] = silent[t]
                                /\ seen'[t] = seen[t] /\ told'[t] = told[t]
  BY <1>3 DEF Follow, HistoryOK
<1>12. ChainFits(q.r, q.depth, hops[s], silent[s], seen[s], told[s])
  BY <1>4 DEF ChainInv, ChainAt
<1>16. Adds(s)
  BY <1>11 DEF Adds
<1>13. hops[s] \in Nat /\ silent[s] \in Nat /\ CHECKPOINT_DEPTH \in Nat \ {0, 1}
  BY <1>3, GatewayAssumption DEF HistoryOK
<1>17. q = req[s]
  OBVIOUS
<1> HIDE DEF q
<1>14. ChainAt(s)'
  <2>1. CASE q.answer.to = "archives"
    <3>1. /\ q.answer = RedirectTo("archives", "none")
          /\ q.r.path = "archives" /\ q.threat.type = "none"
      BY <1>6, <2>1 DEF Leads, RedirectTo
    <3>2. /\ ChainFits(Followed(q, kept, token), NextDepth(q), 0, silent'[s], seen'[s], told'[s])
          /\ silent'[s] <= CHECKPOINT_DEPTH
      BY <1>3, <1>7, <1>11, <1>12, <1>13, <1>16, <1>17, <3>1, LabyrinthChain
    <3>3. hops'[s] = 0
      BY <1>11, <2>1
    <3> QED
      BY <1>10, <1>11, <3>2, <3>3 DEF ChainAt
  <2>2. CASE q.answer.to # "archives"
    <3>2. /\ ChainFits(Followed(q, kept, token), NextDepth(q), hops[s] + 1, silent'[s], seen'[s],
                       told'[s])
          /\ hops[s] + 1 <= 3 /\ silent'[s] <= 2
      BY <1>3, <1>4, <1>6, <1>7, <1>11, <1>12, <1>13, <1>16, <1>17, <2>2, TrapChain
    <3>3. hops'[s] = hops[s] + 1 /\ silent'[s] <= CHECKPOINT_DEPTH
      BY <1>11, <1>13, <2>2, <3>2
    <3> QED
      BY <1>10, <1>11, <3>2, <3>3 DEF ChainAt
  <2> QED
    BY <2>1, <2>2
<1>15. ASSUME NEW t \in Slot \ {s} PROVE ChainAt(t)'
  <2>1. /\ req'[t].at = req[t].at /\ req'[t].r = req[t].r /\ req'[t].depth = req[t].depth
    BY <1>1, <1>3, TakenOthers
  <2>2. ChainAt(t)
    BY DEF ChainInv
  <2> QED
    BY <1>11, <2>1, <2>2, ChainRests
<1> QED
  BY <1>14, <1>15 DEF ChainInv

LEMMA CheckChain ==
    ASSUME TypeOK, TaskInv, ChainInv, NEW s \in Slot, CheckReturns(s)
    PROVE ChainInv'
<1> DEFINE q == req[s]
<1>1. q.at = "check"
  BY CheckTaken
<1>2. PICK token \in {"known", "unknown"} :
        /\ [q.r EXCEPT !.token = token] \in Request
        /\ Taken(s, Fresh([q.r EXCEPT !.token = token], q.from, q.ip, q.depth))
  BY CheckTaken
<1>3. req \in [Slot -> Task] /\ q \in Task
  BY TypeParts
<1>4. /\ q.r \in Request /\ q.from \in Sender /\ q.ip \in Charged /\ q.depth \in Nat
      /\ q.ip = q.from.address \/ q.ip \in q.from.claims
  BY <1>3, TaskFields DEF TaskInv, Sound
<1>5. req'[s].r = [q.r EXCEPT !.token = token] /\ req'[s].depth = q.depth
  BY <1>2, <1>4, FreshIs DEF Taken
<1>6. hops' = hops /\ silent' = silent /\ seen' = seen /\ told' = told
  BY DEF CheckReturns, chain
<1>7. /\ ChainFits(q.r, q.depth, hops[s], silent[s], seen[s], told[s])
      /\ hops[s] <= 3 /\ silent[s] <= CHECKPOINT_DEPTH
  BY <1>1 DEF ChainInv, ChainAt
<1>8. ChainFits([q.r EXCEPT !.token = token], q.depth, hops[s], silent[s], seen[s], told[s])
  BY <1>4, <1>7, KeyIsNothing
<1>9. ChainAt(s)'
  BY <1>5, <1>6, <1>7, <1>8 DEF ChainAt
<1>10. ASSUME NEW t \in Slot \ {s} PROVE ChainAt(t)'
  <2>1. /\ req'[t].at = req[t].at /\ req'[t].r = req[t].r /\ req'[t].depth = req[t].depth
    BY <1>2, <1>3, TakenOthers
  <2>2. ChainAt(t)
    BY DEF ChainInv
  <2> QED
    BY <1>6, <2>1, <2>2, ChainRests
<1> QED
  BY <1>9, <1>10 DEF ChainInv

LEMMA GoesOnChain ==
    ASSUME ChainInv, NEW s \in Slot, GoesOn(s), UNCHANGED chain
    PROVE ChainInv'
<1> SUFFICES ASSUME NEW t \in Slot PROVE ChainAt(t)'
  BY DEF ChainInv
<1>1. hops' = hops /\ silent' = silent /\ seen' = seen /\ told' = told
  BY DEF chain
<1>2. req'[t].at # "idle" =>
        req[t].at # "idle" /\ req'[t].r = req[t].r /\ req'[t].depth = req[t].depth
  BY DEF GoesOn
<1>3. ChainAt(t)
  BY DEF ChainInv
<1> QED
  BY <1>1, <1>2, <1>3, ChainRests

------------------------------------------------------------------------------
(***************************************************************************)
(* The theorems about the gateway.                                         *)
(***************************************************************************)

\* The inductive invariant.
IInv == TypeOK /\ TaskInv /\ CountInv /\ ChainInv

\* The steps, by what they do to a request.
StepOf(s) ==
    \/ GoesOn(s) /\ UNCHANGED <<restarts, chain>>
    \/ CheckReturns(s)
    \/ Follow(s)
    \/ \E ask \in Asks[s] : Arrive(s, ask[1], ask[2], ask[3], ask[4])

\* Every step of a request is of one of these kinds.
LEMMA StepIs ==
    ASSUME TypeOK, TaskInv, Next
    PROVE \/ \E s \in Slot : StepOf(s)
          \/ \E a \in Charged : Sweep(a)
          \/ Restart
<1>1. ASSUME NEW s \in Slot, UseReturns(s) PROVE StepOf(s)
  BY <1>1, UseGoesOn DEF StepOf, UseReturns
<1>2. ASSUME NEW s \in Slot, ReportReturns(s) PROVE StepOf(s)
  BY <1>2, ReportGoesOn DEF StepOf, ReportReturns
<1>3. ASSUME NEW s \in Slot, WakeSlow(s) PROVE StepOf(s)
  BY <1>3, WakeSlowGoesOn DEF StepOf, WakeSlow
<1>4. ASSUME NEW s \in Slot, Wake(s) PROVE StepOf(s)
  BY <1>4, WakeGoesOn DEF StepOf, Wake
<1>5. ASSUME NEW s \in Slot, writeOne(s) PROVE StepOf(s)
  BY <1>5, WriteGoesOn DEF StepOf, writeOne
<1>6. ASSUME NEW s \in Slot, sendChunk(s) PROVE StepOf(s)
  BY <1>6, ChunkGoesOn DEF StepOf, sendChunk
<1>7. ASSUME NEW s \in Slot, NEW e, StreamEvent(s, e) PROVE StepOf(s)
  BY <1>7, EventGoesOn DEF StepOf, StreamEvent
<1>8. ASSUME NEW s \in Slot, StreamOver(s) \/ Leave(s) PROVE StepOf(s)
  BY <1>8, OverGoesOn DEF StepOf, StreamOver, Leave
<1>9. CASE \E s \in Slot : Serve(s) \/ sendChunk(s) \/ StreamOver(s) \/ Leave(s)
  BY <1>1, <1>2, <1>3, <1>4, <1>5, <1>6, <1>8, <1>9 DEF Serve, StepOf
<1>10. CASE \E s \in Slot : Follow(s) \/ \E ask \in Asks[s] : Arrive(s, ask[1], ask[2], ask[3], ask[4])
  BY <1>10 DEF StepOf
<1>11. CASE \E s \in Slot : \E e \in {"close", "aborted", "req close", "res close", "finish"} :
              StreamEvent(s, e)
  BY <1>7, <1>11
<1> QED
  BY <1>9, <1>10, <1>11 DEF Next

\* The inductive invariant: it holds at the start, and every step keeps it.
LEMMA InvInit ==
    ASSUME Init PROVE IInv
<1>1. \A a \in Charged : 0 \in 0..(GRANT_ON - 1) /\ 0 \in 0..2
  BY GatewayAssumption
<1>2. MemoryOK
  BY <1>1 DEF Init, MemoryOK
<1>3. MaxRestarts \in Nat /\ CHECKPOINT_DEPTH \in Nat
  BY GatewayAssumption
<1>4. HistoryOK
  BY <1>3 DEF Init, HistoryOK
<1>5. req \in [Slot -> Task] /\ \A s \in Slot : req[s] = Idle
  BY IdleIs DEF Init
<1>6. TypeOK
  BY <1>2, <1>4, <1>5, TypeParts
<1>7. TaskInv
  BY <1>5, IdleIs DEF TaskInv
<1>8. ASSUME NEW s \in Slot PROVE ChainAt(s)
  <2>1. req[s].at = "idle"
    BY <1>5, IdleIs
  <2>2. hops[s] = 0 /\ silent[s] = 0
    BY DEF Init
  <2> QED
    BY <1>3, <2>1, <2>2 DEF ChainAt
<1>9. CountInv
  BY <1>5, IdleIs, CountNone DEF CountInv
<1> QED
  BY <1>6, <1>7, <1>8, <1>9 DEF IInv, ChainInv

LEMMA StepInv ==
    ASSUME IInv, NEW s \in Slot, StepOf(s)
    PROVE IInv'
<1>1. TypeOK /\ TaskInv /\ CountInv /\ ChainInv
  BY DEF IInv
<1>2. req \in [Slot -> Task] /\ MemoryOK /\ HistoryOK
  BY <1>1, TypeParts
<1>3. CASE GoesOn(s) /\ UNCHANGED <<restarts, chain>>
  <2>1. HistoryOK'
    BY <1>2, <1>3 DEF HistoryOK, chain
  <2>2. TypeOK'
    BY <1>3, <2>1 DEF GoesOn, TypeOK, MemoryOK, HistoryOK
  <2>3. ASSUME NEW t \in Slot PROVE Sound(req'[t], used')
    BY <1>1, <1>3, SoundGrows DEF GoesOn, TaskInv
  <2>4. TaskInv'
    BY <2>3 DEF TaskInv
  <2>5. ChainInv'
    BY <1>1, <1>3, GoesOnChain
  <2>6. ASSUME NEW t \in Slot PROVE CountFits(req'[t], attempts')
    BY <1>1, <1>3 DEF GoesOn, CountInv
  <2>7. CountInv'
    BY <2>6 DEF CountInv
  <2> QED
    BY <2>2, <2>4, <2>5, <2>7 DEF IInv
<1>4. CASE CheckReturns(s)
  <2>1. PICK q : Taken(s, q)
    BY <1>1, <1>4, CheckTaken
  <2>2. HistoryOK'
    BY <1>2, <1>4 DEF CheckReturns, HistoryOK, chain
  <2>3. TypeOK'
    BY <2>1, <2>2 DEF Taken, TypeOK, MemoryOK, HistoryOK
  <2>4. TaskInv'
    BY <1>1, <1>2, <2>1, TakenTasks
  <2>5. ChainInv'
    BY <1>1, <1>4, CheckChain
  <2>6. CountInv'
    BY <1>1, <2>1, TakenCounts
  <2> QED
    BY <2>3, <2>4, <2>5, <2>6 DEF IInv
<1>5. CASE Follow(s)
  <2>1. PICK q : Taken(s, q)
    BY <1>1, <1>5, FollowTaken
  <2>2. HistoryOK'
    BY <1>1, <1>5, FollowTaken
  <2>3. TypeOK'
    BY <2>1, <2>2 DEF Taken, TypeOK, MemoryOK, HistoryOK
  <2>4. TaskInv'
    BY <1>1, <1>2, <2>1, TakenTasks
  <2>5. ChainInv'
    BY <1>1, <1>5, FollowChain
  <2>6. CountInv'
    BY <1>1, <2>1, TakenCounts
  <2> QED
    BY <2>3, <2>4, <2>5, <2>6 DEF IInv
<1>6. ASSUME NEW ask \in Asks[s], Arrive(s, ask[1], ask[2], ask[3], ask[4]) PROVE IInv'
  <2>1. PICK q : Taken(s, q)
    BY <1>1, <1>6, ArriveTaken
  <2>2. HistoryOK'
    BY <1>1, <1>6, ArriveTaken
  <2>3. TypeOK'
    BY <2>1, <2>2 DEF Taken, TypeOK, MemoryOK, HistoryOK
  <2>4. TaskInv'
    BY <1>1, <1>2, <2>1, TakenTasks
  <2>5. ChainInv'
    BY <1>1, <1>6, ArriveChain
  <2>6. CountInv'
    BY <1>1, <2>1, TakenCounts
  <2> QED
    BY <2>3, <2>4, <2>5, <2>6 DEF IInv
<1> QED
  BY <1>3, <1>4, <1>5, <1>6 DEF StepOf

LEMMA SweepInv ==
    ASSUME IInv, NEW a \in Charged, Sweep(a)
    PROVE IInv'
<1>1. TypeOK /\ TaskInv /\ CountInv /\ ChainInv
  BY DEF IInv
<1>2. req \in [Slot -> Task] /\ MemoryOK /\ HistoryOK
  BY <1>1, TypeParts
<1>3. /\ req' = req /\ used' = used /\ restarts' = restarts
      /\ hops' = hops /\ silent' = silent /\ seen' = seen /\ told' = told
  BY DEF Sweep, chain
<1>4. 0 \in 0..(GRANT_ON - 1) /\ 0 \in 0..2
  BY GatewayAssumption
<1>5. MemoryOK'
  BY <1>2, <1>3, <1>4 DEF Sweep, MemoryOK
<1>6. TypeOK'
  BY <1>1, <1>3, <1>5 DEF TypeOK, MemoryOK
<1>7. TaskInv'
  BY <1>1, <1>3 DEF TaskInv
<1>8. ChainInv'
  BY <1>1, <1>3 DEF ChainInv, ChainAt
<1>9. ASSUME NEW s \in Slot PROVE CountFits(req'[s], attempts')
  <2>1. CountFits(req[s], attempts) /\ req[s].ip \in Charged
    BY <1>1, <1>2, TaskFields DEF CountInv
  <2>2. CASE attempts' = attempts
    BY <1>3, <2>1, <2>2
  <2>3. CASE attempts' = [attempts EXCEPT ![a] = 0] /\ ~Pending(s, a)
    <3>1. CASE req[s].ip = a
      BY <1>3, <2>1, <2>3, <3>1 DEF Pending, CountFits
    <3>2. CASE req[s].ip # a
      <4>1. attempts'[req[s].ip] = attempts[req[s].ip]
        BY <1>2, <2>1, <2>3, <3>2 DEF MemoryOK
      <4> QED
        BY <1>3, <2>1, <4>1 DEF CountFits
    <3> QED
      BY <3>1, <3>2
  <2> QED
    BY <2>2, <2>3 DEF Sweep
<1>10. CountInv'
  BY <1>9 DEF CountInv
<1> QED
  BY <1>6, <1>7, <1>8, <1>10 DEF IInv

LEMMA RestartInv ==
    ASSUME IInv, Restart
    PROVE IInv'
<1>1. TypeOK /\ TaskInv /\ CountInv /\ ChainInv
  BY DEF IInv
<1>2. req \in [Slot -> Task] /\ MemoryOK /\ HistoryOK
  BY <1>1, TypeParts
<1>3. /\ \A s \in Slot : req'[s] = Idle
      /\ req' \in [Slot -> Task]
      /\ hops' = hops /\ silent' = silent /\ seen' = seen /\ told' = told
  BY IdleIs DEF Restart, chain
<1>4. 0 \in 0..(GRANT_ON - 1) /\ 0 \in 0..2 /\ MaxRestarts \in Nat
  BY GatewayAssumption
<1>5. MemoryOK'
  BY <1>4 DEF Restart, MemoryOK
<1>6. restarts' \in 0..MaxRestarts
  BY <1>2, <1>4 DEF Restart, HistoryOK
<1>7. HistoryOK'
  BY <1>2, <1>3, <1>6 DEF HistoryOK
<1>8. TypeOK'
  BY <1>3, <1>5, <1>7 DEF TypeOK, MemoryOK, HistoryOK
<1>9. TaskInv'
  BY <1>3, IdleIs DEF TaskInv
<1>10. ChainInv'
  BY <1>1, <1>3, IdleIs DEF ChainInv, ChainAt
<1>11. CountInv'
  BY <1>3, IdleIs, CountNone DEF CountInv
<1> QED
  BY <1>8, <1>9, <1>10, <1>11 DEF IInv

LEMMA StutterInv ==
    ASSUME IInv, UNCHANGED vars
    PROVE IInv'
<1>1. /\ req' = req /\ attempts' = attempts /\ dumps' = dumps /\ used' = used
      /\ restarts' = restarts
      /\ hops' = hops /\ silent' = silent /\ seen' = seen /\ told' = told
  BY DEF vars, memory, chain
<1> QED
  BY <1>1 DEF IInv, TypeOK, TaskInv, CountInv, ChainInv, ChainAt

LEMMA InvNext ==
    ASSUME IInv, [Next]_vars
    PROVE IInv'
<1>1. CASE Next
  <2>1. TypeOK /\ TaskInv
    BY DEF IInv
  <2> QED
    BY <1>1, <2>1, StepIs, StepInv, SweepInv, RestartInv
<1>2. CASE UNCHANGED vars
  BY <1>2, StutterInv
<1> QED
  BY <1>1, <1>2

\* The strengthening holds throughout.
THEOREM InvHolds == Spec => []IInv
  BY InvInit, InvNext, PTL DEF Spec

\* Gateway.tla: the types of the state.
THEOREM TypeCorrect == Spec => []TypeOK
<1>1. IInv => TypeOK
  BY DEF IInv
<1> QED
  BY <1>1, InvHolds, PTL

\* clientIpCore.js, forwardGatewayClientIp.ts: every request is charged to the client that
\* sent it or to an address that it named where it is believed, never to a proxy, for every set
\* of addresses, of proxies that are trusted, of ways through them and of headers.
THEOREM ChargedToSenderHolds == Spec => []ChargedToSender
<1>1. IInv => ChargedToSender
  BY DEF IInv, TaskInv, Sound, ChargedToSender
<1> QED
  BY <1>1, InvHolds, PTL

\* dataBomb.js, httpTrickle.js: a stream reports once, the bytes it sent, for every cap and
\* every delay of the timers.
THEOREM StreamReportsOnceHolds == Spec => []StreamReportsOnce
<1>1. IInv => StreamReportsOnce
  BY DEF IInv, TaskInv, Sound, StreamFits, StreamReportsOnce
<1> QED
  BY <1>1, InvHolds, PTL

\* decoyReroute.js, infiniteRedirect.js: three redirects of the traps at most, and a report
\* every CHECKPOINT_DEPTH of the labyrinth, for every depth of both.
THEOREM RedirectsLeadHolds == Spec => []RedirectsLead
<1>1. IInv => RedirectsLead
  BY DEF IInv, ChainInv, ChainAt, RedirectsLead
<1> QED
  BY <1>1, InvHolds, PTL

\* decoyReroute.js, decoyController.js: attacks of four kinds are in the log when the client
\* has its page, for every number of clients, addresses and requests.
THEOREM AttackIsLoggedHolds == Spec => []AttackIsLogged
<1>1. IInv => AttackIsLogged
  <2> SUFFICES ASSUME IInv, NEW s \in Slot, SilentPage(s),
                      "SQLI" \notin Found(s),
                      ~(req[s].threat.type = "HONEY_TOKEN" /\ req[s].ip \in used)
               PROVE Found(s) \cap {"SCANNER", "SSRF", "PATH_TRAVERSAL", "XSS"} = {}
    BY DEF AttackIsLogged
  <2> DEFINE q == req[s]
  <2>1. q.at = "answered" /\ q.answer = Page /\ ~told[s] /\ q.events = <<>>
    BY DEF SilentPage
  <2>2. Sound(q, used) /\ ChainAt(s)
    BY DEF IInv, TaskInv, ChainInv
  <2>3. SilentFits(q, Page, used)
    BY <2>1, <2>2 DEF Sound, AnswerFits
  <2>4. q.threat.type \notin Alarming /\ ~TakenAlong(q.r)
    BY <2>3 DEF SilentFits, Alarming
  <2>5. seen[s] \cap Alarming = {}
    BY <2>1, <2>2, <2>4 DEF ChainAt, ChainFits, Found
  <2> QED
    BY <2>4, <2>5 DEF Found, Alarming
<1> QED
  BY <1>1, InvHolds, PTL

\* fakeLogin.js: until the answer of an attempt goes, it promises none that the attempt used up
\* and takes none away that is left, for every number of attempts and however the requests of
\* an address overlap, with grants and with the sweep.
THEOREM CountdownHonestHolds == Spec => []CountdownHonest
<1>1. IInv => CountdownHonest
  <2> SUFFICES ASSUME IInv, NEW s \in Slot, req[s].turn # 0, req[s].at = "report"
               PROVE /\ req[s].left <= GRANT_ON - req[s].turn
                     /\ req[s].left >= GRANT_ON - attempts[req[s].ip] \/ req[s].object # 0
    BY DEF CountdownHonest
  <2> QED
    BY DEF IInv, CountInv, CountFits
<1> QED
  BY <1>1, InvHolds, PTL

------------------------------------------------------------------------------
(***************************************************************************)
(* BanSync.  The proofs rest on one measure: the ticks gone by since the   *)
(* last poll started, Elapsed.  Every poll in flight is that old, so none  *)
(* is left when the next one starts, and what an address was when it was   *)
(* last written can be compared with it.                                   *)
(***************************************************************************)
USE BanAssumption DEF BanAssumption

Elapsed == Period - due

\* What is in flight started when the timer last ran, and is the only one.
PollInv == \A p \in polls : p.age = Elapsed /\ polls = {p}

\* An address steady for longer than a poll is in its answer iff it is banned.
AnswerInv ==
    \A p \in polls : \A ips \in p.answer : \A ip \in Ip :
        steady[ip] > p.age => (ip \in ips <=> ip \in banned)

\* After a successful poll what was steady since it started is enforced; while one is in
\* flight, so is what was steady since the one before.
SetInv ==
    \A ip \in Ip :
        /\ polls = {} /\ steady[ip] > Elapsed => Agrees(ip)
        /\ polls # {} /\ steady[ip] > Period + Elapsed => Agrees(ip)

BanInv == BanTypeOK /\ PollInv /\ AnswerInv /\ SetInv

LEMMA BanInitInv == BanInit => BanInv
  BY DEF BanInit, BanInv, BanTypeOK, PollInv, AnswerInv, SetInv, Elapsed, NewPoll, Poll,
         Window, Agrees, isBlacklisted

\* A write resets the addresses whose flag it may change.
LEMMA WriteInv ==
    ASSUME BanInv, NEW touched \in SUBSET Ip, Write(touched), banned' \in SUBSET Ip,
           \A ip \in Ip \ touched : ip \in banned' <=> ip \in banned
    PROVE BanInv'
<1>1. BanTypeOK'
  BY DEF BanInv, BanTypeOK, Write, Window
<1>2. PollInv'
  BY DEF BanInv, PollInv, Elapsed, Write
<1>3. \A ip \in Ip : steady'[ip] > 0 =>
        steady'[ip] = steady[ip] /\ (ip \in banned' <=> ip \in banned)
  BY DEF BanInv, BanTypeOK, Write
<1>4. AnswerInv'
  BY <1>3 DEF BanInv, AnswerInv, BanTypeOK, Poll, Write
<1>5. SetInv'
  BY <1>3 DEF BanInv, SetInv, BanTypeOK, Elapsed, Agrees, isBlacklisted, Write
<1> QED
  BY <1>1, <1>2, <1>4, <1>5 DEF BanInv

LEMMA TickInv ==
    ASSUME BanInv, Tick
    PROVE BanInv'
<1>1. \A ip \in Ip : steady'[ip] = IF steady[ip] > Window THEN steady[ip] ELSE steady[ip] + 1
  BY DEF Tick
<1>2. BanTypeOK'
  BY DEF BanInv, BanTypeOK, Tick, Window, Poll
<1>3. PollInv'
  BY DEF BanInv, BanTypeOK, PollInv, Elapsed, Tick, Poll
<1>4. AnswerInv'
  BY <1>1 DEF BanInv, AnswerInv, BanTypeOK, Poll, Tick, Window
<1>5. SetInv'
  <2> SUFFICES ASSUME NEW ip \in Ip
               PROVE /\ polls' = {} /\ steady'[ip] > Elapsed' => Agrees(ip)'
                     /\ polls' # {} /\ steady'[ip] > Period + Elapsed' => Agrees(ip)'
    BY DEF SetInv
  <2>1. /\ Elapsed' = Elapsed + 1
        /\ Elapsed \in 0..Period
        /\ Elapsed' \in 0..Period
    BY DEF Elapsed, Tick, BanInv, BanTypeOK
  <2>2. Agrees(ip)' <=> Agrees(ip)
    BY DEF Agrees, isBlacklisted, Tick
  <2>3. steady[ip] \in Nat /\ steady'[ip] \in Nat
    BY <1>1 DEF BanInv, BanTypeOK, Window
  <2>4. CASE polls = {}
    <3>1. polls' = {}
      BY <2>4 DEF Tick
    <3>2. steady'[ip] > Elapsed' => steady[ip] > Elapsed
      BY <1>1, <2>1, <2>3 DEF Window
    <3> QED
      BY <2>2, <2>4, <3>1, <3>2 DEF BanInv, SetInv
  <2>5. CASE polls # {}
    <3>1. polls' # {}
      BY <2>5 DEF Tick
    <3>2. PICK p \in polls : TRUE
      BY <2>5
    <3>3. p.age = Elapsed /\ p.age < Timeout
      BY <3>2 DEF BanInv, PollInv, Tick
    <3>4. steady'[ip] > Period + Elapsed' => steady[ip] > Period + Elapsed
      BY <1>1, <2>1, <2>3, <3>3 DEF Window
    <3> QED
      BY <2>2, <2>5, <3>1, <3>4 DEF BanInv, SetInv
  <2> QED
    BY <2>4, <2>5
<1> QED
  BY <1>2, <1>3, <1>4, <1>5 DEF BanInv

\* No poll is left when the timer runs.
LEMMA StartInv ==
    ASSUME BanInv, StartRefresh
    PROVE BanInv'
<1>1. polls = {}
  BY DEF BanInv, BanTypeOK, PollInv, Elapsed, Poll, StartRefresh
<1>2. BanTypeOK'
  BY DEF BanInv, BanTypeOK, Poll, NewPoll, StartRefresh
<1>3. PollInv'
  BY <1>1 DEF PollInv, Elapsed, NewPoll, StartRefresh
<1>4. AnswerInv'
  BY <1>1 DEF AnswerInv, NewPoll, StartRefresh
<1>5. SetInv'
  BY <1>1 DEF BanInv, BanTypeOK, SetInv, Elapsed, Agrees, isBlacklisted, StartRefresh
<1> QED
  BY <1>2, <1>3, <1>4, <1>5 DEF BanInv

\* Telemetry reads the flags as they are.
LEMMA AnswerPreserves ==
    ASSUME BanInv, NEW p \in polls, GetBannedIps(p)
    PROVE BanInv'
<1>1. BanTypeOK'
  BY DEF BanInv, BanTypeOK, Poll, GetBannedIps
<1>2. PollInv'
  BY DEF BanInv, PollInv, Elapsed, GetBannedIps
<1>3. AnswerInv'
  BY DEF BanInv, AnswerInv, GetBannedIps
<1>4. SetInv'
  BY DEF BanInv, SetInv, Elapsed, Agrees, isBlacklisted, GetBannedIps
<1> QED
  BY <1>1, <1>2, <1>3, <1>4 DEF BanInv

LEMMA RefreshInv ==
    ASSUME BanInv, NEW p \in polls, RefreshBannedSet(p)
    PROVE BanInv'
<1>1. PICK ips \in p.answer : bannedSet' = ips
  BY DEF RefreshBannedSet
<1>2. \A q \in polls : q = p \/ q # p
  OBVIOUS
<1>3. BanTypeOK'
  BY <1>1 DEF BanInv, BanTypeOK, Poll, RefreshBannedSet
<1>4. PollInv' /\ AnswerInv'
  BY DEF BanInv, PollInv, AnswerInv, Elapsed, RefreshBannedSet
<1>5. \A ip \in Ip : steady'[ip] > Elapsed' => Agrees(ip)'
  BY <1>1 DEF BanInv, PollInv, AnswerInv, Elapsed, Agrees, isBlacklisted, RefreshBannedSet
<1>6. /\ \A e \in Int : Period + e > e
      /\ Elapsed' \in Int
  <2>1. \A e \in Int : Period + e > e
    OBVIOUS
  <2>2. due' \in Int /\ Period \in Nat
    BY <1>3 DEF BanTypeOK
  <2>3. Elapsed' = Period - due'
    BY DEF Elapsed
  <2>4. Elapsed' \in Int
    BY <2>2, <2>3
  <2> QED
    BY <2>1, <2>4
<1>7. SetInv'
  BY <1>3, <1>5, <1>6 DEF SetInv, BanTypeOK
<1> QED
  BY <1>3, <1>4, <1>7 DEF BanInv

\* A failure or a restart starts the measure again.
LEMMA ResetInv ==
    ASSUME BanInv, Reboot \/ \E p \in polls : RefreshFails(p)
    PROVE BanInv'
<1>1. \A ip \in Ip : steady'[ip] = 0
  BY DEF Reboot, RefreshFails
<1>2. BanTypeOK'
  BY DEF BanInv, BanTypeOK, Poll, NewPoll, Window, Reboot, RefreshFails
<1>3. PollInv'
  <2>1. CASE Reboot
    <3>1. due' = Period /\ Period \in Nat
      BY <2>1 DEF Reboot
    <3>2. Elapsed' = Period - due'
      BY DEF Elapsed
    <3>3. Elapsed' = 0
      BY <3>1, <3>2
    <3> QED
      BY <2>1, <3>3 DEF PollInv, NewPoll, Reboot
  <2>2. CASE \E p \in polls : RefreshFails(p)
    BY <2>2 DEF BanInv, PollInv, Elapsed, RefreshFails
  <2> QED
    BY <2>1, <2>2
<1>4. AnswerInv' /\ SetInv'
  <2>1. \A p \in polls' : p.age \in Nat
    BY <1>2 DEF BanTypeOK, Poll
  <2>2. due' \in 0..Period
    BY <1>2 DEF BanTypeOK
  <2>3. Elapsed' = Period - due'
    BY DEF Elapsed
  <2> QED
    BY <1>1, <2>1, <2>2, <2>3 DEF AnswerInv, SetInv
<1> QED
  BY <1>2, <1>3, <1>4 DEF BanInv

LEMMA BanNextInv == BanInv /\ [BanNext]_banVars => BanInv'
<1> SUFFICES ASSUME BanInv, [BanNext]_banVars PROVE BanInv'
  OBVIOUS
<1>1. CASE \E ip \in Ip : Ban(ip)
  BY <1>1, WriteInv DEF Ban, BanInv, BanTypeOK
<1>2. CASE \E ip \in Ip : Unban(ip)
  BY <1>2, WriteInv DEF Unban, BanInv, BanTypeOK
<1>3. CASE WipeProfiles
  BY <1>3, WriteInv DEF WipeProfiles, BanInv, BanTypeOK
<1>4. CASE Tick
  BY <1>4, TickInv
<1>5. CASE StartRefresh
  BY <1>5, StartInv
<1>6. CASE \E p \in polls : GetBannedIps(p)
  BY <1>6, AnswerPreserves
<1>7. CASE \E p \in polls : RefreshBannedSet(p)
  BY <1>7, RefreshInv
<1>8. CASE Reboot \/ \E p \in polls : RefreshFails(p)
  BY <1>8, ResetInv
<1>9. CASE UNCHANGED banVars
  BY <1>9 DEF banVars, BanInv, BanTypeOK, PollInv, AnswerInv, SetInv, Elapsed, Agrees, isBlacklisted
<1> QED
  BY <1>1, <1>2, <1>3, <1>4, <1>5, <1>6, <1>7, <1>8, <1>9 DEF BanNext, PollStep

\* The strengthening holds throughout, and with it the types.
THEOREM BanInvHolds == BanSpec => []BanInv
  BY BanInitInv, BanNextInv, PTL DEF BanSpec

\* banService.js: a write that stood for a period and a timeout is enforced, for every
\* number of addresses and every period longer than the timeout.
THEOREM BanWindowHolds == BanSpec => []BanWindow
<1>1. BanInv => BanWindow
  <2> SUFFICES ASSUME BanInv, NEW ip \in Ip, steady[ip] > Window PROVE Agrees(ip)
    BY DEF BanWindow
  <2>1. steady[ip] \in Nat /\ Elapsed \in 0..Period
    BY DEF BanInv, BanTypeOK, Elapsed
  <2>2. CASE polls = {}
    BY <2>1, <2>2 DEF BanInv, SetInv, Window
  <2>3. CASE polls # {}
    <3>1. Elapsed <= Timeout
      BY <2>3 DEF BanInv, BanTypeOK, PollInv, Poll
    <3> QED
      BY <2>1, <2>3, <3>1 DEF BanInv, SetInv, Window
  <2> QED
    BY <2>2, <2>3
<1> QED
  BY <1>1, BanInvHolds, PTL

\* The interval timer never has two refreshes in flight.
THEOREM OnePollHolds == BanSpec => []OnePollAtATime
<1>1. BanInv => OnePollAtATime
  <2> SUFFICES ASSUME BanInv PROVE Cardinality(polls) <= 1
    BY DEF OnePollAtATime
  <2>1. CASE polls = {}
    BY <2>1, FS_EmptySet
  <2>2. ASSUME NEW p \in polls PROVE Cardinality(polls) <= 1
    <3>1. polls = {p}
      BY DEF BanInv, PollInv
    <3>2. Cardinality({p}) = 1
      BY FS_Singleton
    <3> QED
      BY <3>1, <3>2
  <2> QED
    BY <2>1, <2>2
<1> QED
  BY <1>1, BanInvHolds, PTL

\* A late answer is at most Timeout old, so it agrees with every flag older than that.
LEMMA AnswerAgrees ==
    ASSUME BanInv, NEW p \in polls, RefreshBannedSet(p),
           NEW ip \in Ip, steady[ip] > Timeout
    PROVE Agrees(ip)'
<1>1. PICK ips \in p.answer : bannedSet' = ips
  BY DEF RefreshBannedSet
<1>2. p.age \in 0..Timeout /\ steady[ip] \in Nat
  BY DEF BanInv, BanTypeOK, Poll, Window
<1>3. ip \in ips <=> ip \in banned
  BY <1>2 DEF BanInv, AnswerInv
<1> QED
  BY <1>1, <1>3 DEF Agrees, isBlacklisted, RefreshBannedSet

\* banService.js: what is enforced and settled stays enforced until a write or a restart.
THEOREM AgreementLastsHolds == BanSpec => AgreementLasts
<1>1. ASSUME BanInv, [BanNext]_banVars
      PROVE [\A ip \in Ip :
               (steady[ip] > Timeout /\ Agrees(ip) /\ boots' = boots /\ writes' = writes)
                  => Agrees(ip)']_banVars
  <2> SUFFICES ASSUME NEW ip \in Ip, steady[ip] > Timeout, Agrees(ip),
                      boots' = boots, writes' = writes
               PROVE Agrees(ip)'
    OBVIOUS
  <2>1. CASE \E p \in polls : RefreshBannedSet(p)
    BY <2>1, <1>1, AnswerAgrees
  <2>2. CASE UNCHANGED <<banned, bannedSet>>
    BY <2>2 DEF Agrees, isBlacklisted
  <2>3. writes \in Nat /\ boots \in Nat
    BY <1>1 DEF BanInv, BanTypeOK
  <2>4. ~(\E touched : Write(touched)) /\ ~Reboot
    BY <2>3 DEF Write, Reboot
  <2>5. UNCHANGED <<banned, bannedSet>> \/ \E p \in polls : RefreshBannedSet(p)
    BY <1>1, <2>4 DEF BanNext, Ban, Unban, WipeProfiles, Tick, StartRefresh, PollStep,
                      GetBannedIps, RefreshFails, banVars
  <2> QED
    BY <2>1, <2>2, <2>5
<1> QED
  BY <1>1, BanInvHolds, PTL DEF BanSpec, AgreementLasts
==============================================================================
