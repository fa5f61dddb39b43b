---------------------------- MODULE LoginFlowProofs ----------------------------
(***************************************************************************)
(* Proofs about LoginFlow, for every set of accounts, tabs and browsers,   *)
(* whatever the stores hold and both thresholds.                           *)
(***************************************************************************)
EXTENDS LoginFlow, TLAPS

USE LoginAssumption DEF LoginAssumption

------------------------------------------------------------------------------
(***************************************************************************)
(* What cookies and requests claim, given the codes C that were accepted,  *)
(* the accounts P a browser gave a password or brought a cookie for, the   *)
(* secrets V that were verified and the secrets D that were drawn.         *)
(***************************************************************************)
Proper(s, b, P, C, D) ==
    /\ s \in [Cookie -> Value \cup {Keep}]
    /\ s["auth"] \in Session \cup {None, Keep}
    /\ s["admin_auth"] \in Username \cup {None, Keep}
    /\ s["preauth"] \in Preauth \cup {None, Keep}
    /\ s["pre_reg"] \in Prereg \cup {None, Keep}
    /\ s["auth"] \in Session => <<b, s["auth"].id>> \in P \cap C
    /\ s["preauth"] \in Preauth => <<b, s["preauth"].id>> \in P
    /\ s["pre_reg"] \in Prereg => s["pre_reg"].totp \in D

\* A session that an answer brings is an operator's, or the panel's cookie goes.
Apart(s) == s["auth"] \in Session => s["admin_auth"] = None \/ s["auth"].role = "admin"

Claim(r, b, P, C, V, D) ==
    /\ r.at \in {"password", "draw", "enrol", "enable", "code", "reset"} =>
         r.id \in Id /\ r.doc \in Row /\ r.doc.totpSecret \in D \cup {None}
    /\ r.at \in {"register", "create"} => r.doc \in Row /\ r.doc.totpSecret \in D
    /\ r.at \in {"draw", "enrol", "enable", "code"} => <<b, r.id>> \in P
    /\ r.at \in {"enrol", "code"} => r.doc.totpSecret # None
    /\ r.at = "enable" => <<b, r.id>> \in C /\ r.doc.totpSecret \in V
    /\ r.at = "create" => r.doc.totpSecret \in V
    /\ r.at \in {"draw", "register"} => ~r.doc.totpEnabled
    /\ r.at \in {"employee", "exchange", "exchanging"} => r.username \in Username

Sound(r, b, P, C, V, D) ==
    r \in Request /\ Proper(r.set, b, P, C, D) /\ Apart(r.set) /\ Claim(r, b, P, C, V, D)

LEMMA SoundGrows ==
    ASSUME NEW r, NEW b, NEW P, NEW C, NEW V, NEW D, NEW P2, NEW C2, NEW V2, NEW D2,
           P \subseteq P2, C \subseteq C2, V \subseteq V2, D \subseteq D2,
           Sound(r, b, P, C, V, D)
    PROVE  Sound(r, b, P2, C2, V2, D2)
<1>1. Proper(r.set, b, P2, C2, D2)
  BY DEF Sound, Proper
<1>2. Claim(r, b, P2, C2, V2, D2)
  BY DEF Sound, Claim
<1> QED
  BY <1>1, <1>2 DEF Sound

LEMMA ProperGrows ==
    ASSUME NEW s, NEW b, NEW P, NEW C, NEW D, NEW P2, NEW C2, NEW D2,
           P \subseteq P2, C \subseteq C2, D \subseteq D2, Proper(s, b, P, C, D)
    PROVE  Proper(s, b, P2, C2, D2)
BY DEF Proper

LEMMA ValueType ==
    /\ \A x \in Session : x \in Value /\ x # None /\ x # Keep
    /\ \A x \in Username : x \in Value /\ x # None /\ x # Keep
    /\ \A x \in Preauth : x \in Value /\ x # None /\ x # Keep
    /\ \A x \in Prereg : x \in Value /\ x # None /\ x # Keep
    /\ None \in Value /\ None # Keep
    /\ None \notin Session /\ None \notin Preauth /\ None \notin Prereg /\ None \notin Username
    /\ Keep \notin Session /\ Keep \notin Preauth /\ Keep \notin Prereg /\ Keep \notin Username
BY DEF Value

LEMMA CookieNames == Cookie = {"auth", "admin_auth", "preauth", "pre_reg"}
BY DEF Cookie

\* The cookies that the answers of this module set.
LEMMA NothingSet ==
    ASSUME NEW b, NEW P, NEW C, NEW D
    PROVE  /\ Proper(NoCookies, b, P, C, D) /\ Apart(NoCookies)
           /\ Proper(Cleared, b, P, C, D) /\ Apart(Cleared)
           /\ NoCookies \in [Cookie -> Value \cup {Keep}]
           /\ Cleared \in [Cookie -> Value \cup {Keep}]
<1>1. /\ NoCookies \in [Cookie -> Value \cup {Keep}]
      /\ NoCookies["auth"] = Keep /\ NoCookies["admin_auth"] = Keep
      /\ NoCookies["preauth"] = Keep /\ NoCookies["pre_reg"] = Keep
  BY DEF NoCookies, Cookie
<1>2. /\ Cleared \in [Cookie -> Value \cup {Keep}]
      /\ Cleared["auth"] = None /\ Cleared["admin_auth"] = None
      /\ Cleared["preauth"] = None /\ Cleared["pre_reg"] = Keep
  BY <1>1, ValueType DEF Cleared, Cookie
<1> QED
  BY <1>1, <1>2, ValueType DEF Proper, Apart

LEMMA PreauthSet ==
    ASSUME NEW b, NEW P, NEW C, NEW D, NEW i \in Id, <<b, i>> \in P,
           NEW mode \in {"reg", "admin", "slogin", "login"}
    PROVE  /\ Proper([Cleared EXCEPT !["preauth"] = [mode |-> mode, id |-> i]], b, P, C, D)
           /\ Apart([Cleared EXCEPT !["preauth"] = [mode |-> mode, id |-> i]])
           /\ Proper([NoCookies EXCEPT !["preauth"] = [mode |-> mode, id |-> i]], b, P, C, D)
           /\ Apart([NoCookies EXCEPT !["preauth"] = [mode |-> mode, id |-> i]])
<1> DEFINE v == [mode |-> mode, id |-> i]
           s == [Cleared EXCEPT !["preauth"] = v]
           n == [NoCookies EXCEPT !["preauth"] = v]
<1>1. v \in Preauth /\ v.id = i
  BY DEF Preauth
<1>2. v \in Value
  BY <1>1, ValueType
<1> HIDE DEF v
<1>3. /\ Cleared \in [Cookie -> Value \cup {Keep}] /\ NoCookies \in [Cookie -> Value \cup {Keep}]
      /\ Proper(Cleared, b, P, C, D) /\ Proper(NoCookies, b, P, C, D)
      /\ Apart(Cleared) /\ Apart(NoCookies)
  BY NothingSet
<1>4. /\ s \in [Cookie -> Value \cup {Keep}] /\ s["preauth"] = v
      /\ s["auth"] = Cleared["auth"] /\ s["admin_auth"] = Cleared["admin_auth"]
      /\ s["pre_reg"] = Cleared["pre_reg"]
  BY <1>2, <1>3, CookieNames
<1>5. /\ n \in [Cookie -> Value \cup {Keep}] /\ n["preauth"] = v
      /\ n["auth"] = NoCookies["auth"] /\ n["admin_auth"] = NoCookies["admin_auth"]
      /\ n["pre_reg"] = NoCookies["pre_reg"]
  BY <1>2, <1>3, CookieNames
<1> HIDE DEF s, n
<1>6. Proper(s, b, P, C, D) /\ Apart(s)
  BY <1>1, <1>3, <1>4 DEF Proper, Apart
<1>7. Proper(n, b, P, C, D) /\ Apart(n)
  BY <1>1, <1>3, <1>5 DEF Proper, Apart
<1> QED
  BY <1>6, <1>7 DEF s, n, v

LEMMA SessionSet ==
    ASSUME NEW b, NEW P, NEW C, NEW D, NEW i \in Id, <<b, i>> \in P, <<b, i>> \in C,
           NEW d \in Row
    PROVE  /\ Proper(EmployeeCookies(i, d), b, P, C, D) /\ Apart(EmployeeCookies(i, d))
           /\ LET o == [NoCookies EXCEPT !["preauth"] = None,
                          !["auth"] = [id |-> i, username |-> d.username, role |-> "admin"]]
              IN Proper(o, b, P, C, D) /\ Apart(o)
<1> DEFINE v == [id |-> i, username |-> d.username, role |-> d.role]
           w == [id |-> i, username |-> d.username, role |-> "admin"]
           e == [NoCookies EXCEPT !["preauth"] = None, !["admin_auth"] = None, !["auth"] = v]
           o == [NoCookies EXCEPT !["preauth"] = None, !["auth"] = w]
<1>1. v \in Session /\ w \in Session /\ v.id = i /\ w.id = i /\ w.role = "admin"
  BY DEF Session, Row
<1>2. v \in Value /\ w \in Value /\ None \in Value
  BY <1>1, ValueType
<1> HIDE DEF v, w
<1>3. NoCookies \in [Cookie -> Value \cup {Keep}] /\ Proper(NoCookies, b, P, C, D)
  BY NothingSet
<1>4. /\ e \in [Cookie -> Value \cup {Keep}] /\ e["auth"] = v /\ e["preauth"] = None
      /\ e["admin_auth"] = None /\ e["pre_reg"] = NoCookies["pre_reg"]
  BY <1>2, <1>3, CookieNames
<1>5. /\ o \in [Cookie -> Value \cup {Keep}] /\ o["auth"] = w /\ o["preauth"] = None
      /\ o["admin_auth"] = NoCookies["admin_auth"] /\ o["pre_reg"] = NoCookies["pre_reg"]
  BY <1>2, <1>3, CookieNames
<1> HIDE DEF e, o
<1>6. Proper(e, b, P, C, D) /\ Apart(e)
  BY <1>1, <1>3, <1>4, ValueType DEF Proper, Apart
<1>7. Proper(o, b, P, C, D) /\ Apart(o)
  BY <1>1, <1>3, <1>5, ValueType DEF Proper, Apart
<1> QED
  BY <1>6, <1>7 DEF e, o, v, w, EmployeeCookies

LEMMA PanelSet ==
    ASSUME NEW b, NEW P, NEW C, NEW D, NEW n \in Username
    PROVE  LET s == [NoCookies EXCEPT !["admin_auth"] = n]
           IN Proper(s, b, P, C, D) /\ Apart(s)
<1> DEFINE e == [NoCookies EXCEPT !["admin_auth"] = n]
<1>1. NoCookies \in [Cookie -> Value \cup {Keep}] /\ Proper(NoCookies, b, P, C, D)
      /\ NoCookies["auth"] = Keep /\ n \in Value
  BY NothingSet, ValueType DEF NoCookies, Cookie
<1>2. /\ e \in [Cookie -> Value \cup {Keep}] /\ e["auth"] = Keep /\ e["admin_auth"] = n
      /\ e["preauth"] = NoCookies["preauth"] /\ e["pre_reg"] = NoCookies["pre_reg"]
  BY <1>1, CookieNames
<1> HIDE DEF e
<1>3. Proper(e, b, P, C, D) /\ Apart(e)
  BY <1>1, <1>2, ValueType DEF Proper, Apart
<1> QED
  BY <1>3 DEF e

LEMMA PreregSet ==
    ASSUME NEW b, NEW P, NEW C, NEW D, NEW n \in Username, NEW secret \in D, D \subseteq Secret
    PROVE  LET s == [NoCookies EXCEPT !["pre_reg"] = [sub |-> n, totp |-> secret]]
           IN Proper(s, b, P, C, D) /\ Apart(s)
<1> DEFINE v == [sub |-> n, totp |-> secret]
           e == [NoCookies EXCEPT !["pre_reg"] = v]
<1>1. v \in Prereg /\ v.totp \in D
  BY DEF Prereg
<1>2. v \in Value
  BY <1>1, ValueType
<1> HIDE DEF v
<1>3. NoCookies \in [Cookie -> Value \cup {Keep}] /\ Proper(NoCookies, b, P, C, D)
      /\ NoCookies["auth"] = Keep
  BY NothingSet DEF NoCookies, Cookie
<1>4. /\ e \in [Cookie -> Value \cup {Keep}] /\ e["auth"] = Keep /\ e["pre_reg"] = v
      /\ e["preauth"] = NoCookies["preauth"] /\ e["admin_auth"] = NoCookies["admin_auth"]
  BY <1>2, <1>3, CookieNames
<1> HIDE DEF e
<1>5. Proper(e, b, P, C, D) /\ Apart(e)
  BY <1>1, <1>3, <1>4, ValueType DEF Proper, Apart
<1> QED
  BY <1>5 DEF e, v

LEMMA PreregDropped ==
    ASSUME NEW b, NEW P, NEW C, NEW D
    PROVE  LET s == [NoCookies EXCEPT !["pre_reg"] = None]
           IN Proper(s, b, P, C, D) /\ Apart(s)
<1> DEFINE e == [NoCookies EXCEPT !["pre_reg"] = None]
<1>1. NoCookies \in [Cookie -> Value \cup {Keep}] /\ Proper(NoCookies, b, P, C, D)
      /\ NoCookies["auth"] = Keep /\ None \in Value
  BY NothingSet, ValueType DEF NoCookies, Cookie
<1>2. /\ e \in [Cookie -> Value \cup {Keep}] /\ e["auth"] = Keep /\ e["pre_reg"] = None
      /\ e["preauth"] = NoCookies["preauth"] /\ e["admin_auth"] = NoCookies["admin_auth"]
  BY <1>1, CookieNames
<1> HIDE DEF e
<1>3. Proper(e, b, P, C, D) /\ Apart(e)
  BY <1>1, <1>2, ValueType DEF Proper, Apart
<1> QED
  BY <1>3 DEF e

------------------------------------------------------------------------------
(***************************************************************************)
(* Where a request goes.                                                   *)
(***************************************************************************)
LEMMA IdleSound ==
    ASSUME NEW b, NEW P, NEW C, NEW V, NEW D
    PROVE  Sound(Idle, b, P, C, V, D) /\ Idle.at = "idle"
<1>1. NoCookies \in [Cookie -> Value \cup {Keep}]
  BY NothingSet
<1>2. Idle \in Request /\ Idle.at = "idle" /\ Idle.set = NoCookies
  BY <1>1 DEF Idle, Request, Step
<1> QED
  BY <1>2, NothingSet DEF Sound, Claim

LEMMA AnswerSound ==
    ASSUME NEW b, NEW P, NEW C, NEW V, NEW D, NEW s, Proper(s, b, P, C, D), Apart(s),
           NEW at \in {"page", "console"}
    PROVE  /\ Sound([Idle EXCEPT !.at = at, !.set = s], b, P, C, V, D)
           /\ [Idle EXCEPT !.at = at, !.set = s].at = at
<1> DEFINE r == [Idle EXCEPT !.at = at, !.set = s]
<1>1. s \in [Cookie -> Value \cup {Keep}]
  BY DEF Proper
<1>2. r \in Request /\ r.at = at /\ r.set = s
  BY <1>1 DEF Idle, Request, Step
<1> HIDE DEF r
<1>3. Sound(r, b, P, C, V, D)
  BY <1>2 DEF Sound, Claim
<1> QED
  BY <1>2, <1>3 DEF r

LEMMA OperatorSound ==
    ASSUME NEW b, NEW P, NEW C, NEW V, NEW D, NEW i \in Id, <<b, i>> \in P, <<b, i>> \in C,
           NEW d \in Row
    PROVE  LET r == [Idle EXCEPT !.at = "exchange", !.username = d.username,
                       !.set = [NoCookies EXCEPT !["preauth"] = None,
                            !["auth"] = [id |-> i, username |-> d.username, role |-> "admin"]]]
           IN Sound(r, b, P, C, V, D) /\ r.at = "exchange"
<1> DEFINE s == [NoCookies EXCEPT !["preauth"] = None,
                   !["auth"] = [id |-> i, username |-> d.username, role |-> "admin"]]
           r == [Idle EXCEPT !.at = "exchange", !.username = d.username, !.set = s]
<1>1. Proper(s, b, P, C, D) /\ Apart(s)
  BY SessionSet
<1> HIDE DEF s
<1>2. s \in [Cookie -> Value \cup {Keep}]
  BY <1>1 DEF Proper
<1>3. d.username \in Username
  BY DEF Row
<1>4. r \in Request /\ r.at = "exchange" /\ r.set = s /\ r.username \in Username
  BY <1>2, <1>3 DEF Idle, Request, Step
<1> HIDE DEF r
<1>5. Sound(r, b, P, C, V, D)
  BY <1>1, <1>4 DEF Sound, Claim
<1> QED
  BY <1>4, <1>5 DEF r, s

LEMMA NamedSound ==
    ASSUME NEW b, NEW P, NEW C, NEW V, NEW D, NEW n \in Username,
           NEW at \in {"employee", "exchanging"}
    PROVE  /\ Sound([Idle EXCEPT !.at = at, !.username = n], b, P, C, V, D)
           /\ [Idle EXCEPT !.at = at, !.username = n].at = at
<1> DEFINE r == [Idle EXCEPT !.at = at, !.username = n]
<1>1. NoCookies \in [Cookie -> Value \cup {Keep}]
  BY NothingSet
<1>2. r \in Request /\ r.at = at /\ r.set = NoCookies /\ r.username = n
  BY <1>1 DEF Idle, Request, Step
<1> HIDE DEF r
<1>3. Sound(r, b, P, C, V, D)
  BY <1>2, NothingSet DEF Sound, Claim
<1> QED
  BY <1>2, <1>3 DEF r

LEMMA NoCookiesType == NoCookies \in [Cookie -> Value \cup {Keep}]
BY NothingSet

------------------------------------------------------------------------------
(***************************************************************************)
(* The inductive invariant, in parts that depend on few variables each.    *)
(***************************************************************************)
\* Accounts that a browser gave a password for, or came to a code with a cookie never set.
Vouched == passed \cup unissued

ReqInv ==
    /\ req \in [Tab -> Request]
    /\ \A t \in Tab : Sound(req[t], BrowserOf[t], Vouched, coded, proven, drawn)

JarInv ==
    /\ jar \in [Browser -> [Cookie -> Value]]
    /\ late \subseteq Browser
    /\ \A b \in Browser : Proper(jar[b], b, Vouched, coded, drawn)
    /\ EmployeeIsHimselfUnlessLate

AccountInv ==
    /\ row \in [Id -> Row \cup {Unused, Gone}]
    /\ raced \subseteq Id /\ adminActs \in 0..MaxAdminActs
    /\ \A i \in Id : Exists(i) => row[i].totpSecret \in drawn \cup {None}
    /\ UsernamesUnique
    /\ EnabledIsProven

ProofInv ==
    /\ drawn \subseteq Secret /\ proven \subseteq drawn
    /\ passed \subseteq Browser \X Id /\ coded \subseteq Browser \X Id
    /\ unissued \subseteq Browser \X Id

TrapInv ==
    /\ failed \in [Browser -> Counter \cup {None}]
    /\ streak \in [Browser -> Nat]
    /\ \A b \in Browser :
         IF failed[b] = None THEN streak[b] = 0
         ELSE streak[b] = failed[b].count /\ failed[b].count < failed[b].threshold

IInv == ReqInv /\ JarInv /\ AccountInv /\ ProofInv /\ TrapInv

\* What was accepted, verified or drawn stays so.
Grows ==
    /\ Vouched \subseteq Vouched' /\ coded \subseteq coded'
    /\ proven \subseteq proven' /\ drawn \subseteq drawn'

LEMMA ReqStep ==
    ASSUME ReqInv, Grows, NEW t \in Tab, NEW r, req' = [req EXCEPT ![t] = r],
           Sound(r, BrowserOf[t], Vouched', coded', proven', drawn')
    PROVE  ReqInv'
<1>1. r \in Request
  BY DEF Sound
<1>2. req' \in [Tab -> Request] /\ req'[t] = r /\ \A u \in Tab \ {t} : req'[u] = req[u]
  BY <1>1 DEF ReqInv
<1>3. ASSUME NEW u \in Tab
      PROVE  Sound(req'[u], BrowserOf[u], Vouched', coded', proven', drawn')
  <2>1. CASE u = t
    BY <1>2, <2>1
  <2>2. CASE u # t
    <3>1. req'[u] = req[u] /\ Sound(req[u], BrowserOf[u], Vouched, coded, proven, drawn)
      BY <1>2, <2>2 DEF ReqInv
    <3> QED
      BY <3>1, SoundGrows DEF Grows
  <2> QED
    BY <2>1, <2>2
<1> QED
  BY <1>2, <1>3 DEF ReqInv

LEMMA ReqKept == ReqInv /\ Grows /\ UNCHANGED req => ReqInv'
BY SoundGrows DEF ReqInv, Grows

LEMMA JarKept == JarInv /\ Grows /\ UNCHANGED <<jar, late>> => JarInv'
<1> SUFFICES ASSUME JarInv, Grows, UNCHANGED <<jar, late>> PROVE JarInv'
  OBVIOUS
<1>1. UNCHANGED <<jar, late>>
  BY DEF jarVars
<1>2. \A b \in Browser : Proper(jar[b], b, Vouched', coded', drawn')
  BY ProperGrows DEF JarInv, Grows
<1> QED
  BY <1>1, <1>2 DEF JarInv, EmployeeIsHimselfUnlessLate, EmployeeIsHimself, PanelUser

LEMMA AccountsKept ==
    AccountInv /\ Grows /\ UNCHANGED <<row, raced>> /\ adminActs' \in 0..MaxAdminActs
        => AccountInv'
BY DEF AccountInv, Grows, Exists, UsernamesUnique, EnabledIsProven

LEMMA TrapsKept == TrapInv /\ UNCHANGED trapVars => TrapInv'
BY DEF TrapInv, trapVars

LEMMA InitInv == Init => IInv
<1> SUFFICES ASSUME Init PROVE IInv
  OBVIOUS
<1>1. row \in Seeded /\ row \in [Id -> Row \cup {Unused, Gone}]
  BY DEF Init
<1>2. \A i \in Id : Exists(i) => row[i] \in Row
  BY <1>1 DEF Exists
<1>3. \A i \in Id : Exists(i) => row[i].totpSecret \in Secret \cup {None}
  BY <1>2 DEF Row
<1>4. drawn = {row[i].totpSecret : i \in {j \in Id : Exists(j)}} \ {None}
      /\ proven = {row[i].totpSecret : i \in {j \in Id : Exists(j) /\ row[j].totpEnabled}}
  BY DEF Init
<1>5. \A i \in Id : Exists(i) /\ row[i].totpEnabled => row[i].totpSecret # None
  BY <1>1, <1>2
<1>6. passed = {} /\ coded = {} /\ unissued = {} /\ raced = {} /\ late = {} /\ adminActs = 0
  BY DEF Init
<1>7. ProofInv
  BY <1>3, <1>4, <1>5, <1>6 DEF ProofInv
<1>8. AccountInv
  <2>1. UsernamesUnique
    <3> SUFFICES ASSUME NEW i \in Id, NEW j \in Id, i # j, Exists(i), Exists(j),
                        row[i].store = row[j].store
                 PROVE  row[i].username # row[j].username
      BY DEF UsernamesUnique
    <3> QED
      BY <1>1, <1>2
  <2>2. EnabledIsProven
    BY <1>4 DEF EnabledIsProven
  <2>3. \A i \in Id : Exists(i) => row[i].totpSecret \in drawn \cup {None}
    BY <1>4
  <2>4. raced \subseteq Id /\ adminActs \in 0..MaxAdminActs
    BY <1>6
  <2> QED
    BY <1>1, <2>1, <2>2, <2>3, <2>4 DEF AccountInv
<1>9. jar = [b \in Browser |-> [c \in Cookie |-> None]]
  BY DEF Init
<1>10. JarInv
  <2>1. jar \in [Browser -> [Cookie -> Value]]
    BY <1>9, ValueType
  <2>2. ASSUME NEW b \in Browser
        PROVE  jar[b]["auth"] = None /\ Proper(jar[b], b, Vouched, coded, drawn)
    <3>1. jar[b]["auth"] = None /\ jar[b]["admin_auth"] = None /\ jar[b]["preauth"] = None
          /\ jar[b]["pre_reg"] = None
      BY <1>9, CookieNames
    <3> QED
      BY <2>1, <3>1, ValueType DEF Proper
  <2>3. EmployeeIsHimselfUnlessLate
    BY <2>2 DEF EmployeeIsHimselfUnlessLate, EmployeeIsHimself
  <2> QED
    BY <1>6, <2>1, <2>2, <2>3 DEF JarInv
<1>11. ReqInv
  <2>1. \A t \in Tab : req[t] = Idle
    BY DEF Init
  <2>2. req \in [Tab -> Request]
    BY IdleSound DEF Init, Sound
  <2> QED
    BY <2>1, <2>2, IdleSound DEF ReqInv
<1>12. TrapInv
  BY DEF Init, TrapInv
<1> QED
  BY <1>7, <1>8, <1>10, <1>11, <1>12 DEF IInv

------------------------------------------------------------------------------
(***************************************************************************)
(* Answers and cookies.                                                    *)
(***************************************************************************)

\* The cookies of a browser after an answer.
LEMMA CookiesTaken ==
    ASSUME IInv, NEW b \in Browser, NEW s, Proper(s, b, Vouched, coded, drawn), Apart(s),
           NEW cookies, cookies = [c \in Cookie |-> IF s[c] = Keep THEN jar[b][c] ELSE s[c]],
           jar' = [jar EXCEPT ![b] = cookies],
           late' = IF cookies["admin_auth"] = None THEN late \ {b}
                   ELSE IF s["admin_auth"] # Keep /\ cookies["auth"] # None THEN late \cup {b}
                   ELSE late,
           UNCHANGED <<Vouched, coded, drawn>>
    PROVE  JarInv'
<1>1. s \in [Cookie -> Value \cup {Keep}] /\ jar[b] \in [Cookie -> Value]
      /\ jar \in [Browser -> [Cookie -> Value]] /\ late \subseteq Browser
  BY DEF Proper, IInv, JarInv
<1>2. cookies \in [Cookie -> Value]
  BY <1>1
<1>3. \A c \in Cookie : cookies[c] = IF s[c] = Keep THEN jar[b][c] ELSE s[c]
  OBVIOUS
<1>4. Proper(jar[b], b, Vouched, coded, drawn)
  BY DEF IInv, JarInv
<1>5. /\ cookies["auth"] = IF s["auth"] = Keep THEN jar[b]["auth"] ELSE s["auth"]
      /\ cookies["admin_auth"] = IF s["admin_auth"] = Keep THEN jar[b]["admin_auth"] ELSE s["admin_auth"]
      /\ cookies["preauth"] = IF s["preauth"] = Keep THEN jar[b]["preauth"] ELSE s["preauth"]
      /\ cookies["pre_reg"] = IF s["pre_reg"] = Keep THEN jar[b]["pre_reg"] ELSE s["pre_reg"]
  BY <1>3, CookieNames
<1>6. Proper(cookies, b, Vouched, coded, drawn)
  BY <1>2, <1>4, <1>5 DEF Proper
<1>7. jar' \in [Browser -> [Cookie -> Value]] /\ jar'[b] = cookies
      /\ \A c \in Browser \ {b} : jar'[c] = jar[c]
  BY <1>1, <1>2
<1>8. late' \subseteq Browser /\ \A c \in Browser \ {b} : c \in late' <=> c \in late
  BY <1>1
<1>9. \A c \in Browser : Proper(jar'[c], c, Vouched, coded, drawn)
  BY <1>6, <1>7 DEF IInv, JarInv
<1>10. ASSUME b \notin late', cookies["auth"] # None, cookies["auth"].role = "user"
       PROVE  cookies["admin_auth"] = None \/ cookies["admin_auth"] = cookies["auth"].username
  <2>1. cookies["auth"] \in Session
    BY <1>2, <1>6, <1>10, CookieNames DEF Proper
  <2>2. CASE s["auth"] = Keep
    <3>1. cookies["auth"] = jar[b]["auth"]
      BY <1>5, <2>2
    <3>2. CASE s["admin_auth"] = Keep
      <4>1. cookies["admin_auth"] = jar[b]["admin_auth"]
        BY <1>5, <3>2
      <4>2. cookies["admin_auth"] # None => b \notin late
        BY <1>10, <3>2
      <4> QED
        BY <1>10, <3>1, <4>1, <4>2
           DEF IInv, JarInv, EmployeeIsHimselfUnlessLate, EmployeeIsHimself, PanelUser
    <3>3. CASE s["admin_auth"] # Keep
      BY <1>10, <3>3
    <3> QED
      BY <3>2, <3>3
  <2>3. CASE s["auth"] # Keep
    <3>1. cookies["auth"] = s["auth"] /\ s["auth"] \in Session
      BY <1>5, <2>1, <2>3
    <3>2. s["admin_auth"] = None
      BY <1>10, <3>1 DEF Apart
    <3> QED
      BY <1>5, <3>2, ValueType
  <2> QED
    BY <2>2, <2>3
<1>11. EmployeeIsHimselfUnlessLate'
  <2> SUFFICES ASSUME NEW c \in Browser, c \notin late'
               PROVE  EmployeeIsHimself(c)'
    BY DEF EmployeeIsHimselfUnlessLate
  <2>1. CASE c = b
    BY <1>7, <1>10, <2>1 DEF EmployeeIsHimself, PanelUser
  <2>2. CASE c # b
    BY <1>7, <1>8, <2>2
       DEF IInv, JarInv, EmployeeIsHimselfUnlessLate, EmployeeIsHimself, PanelUser
  <2> QED
    BY <2>1, <2>2
<1> QED
  BY <1>7, <1>8, <1>9, <1>11 DEF JarInv

LEMMA GrowsKept == UNCHANGED <<Vouched, coded, proven, drawn>> => Grows
BY DEF Grows

LEMMA StepDeliver ==
    ASSUME IInv, NEW t \in Tab, Deliver(t)
    PROVE  IInv'
<1> DEFINE b == BrowserOf[t]
           a == req[t]
           cookies == [c \in Cookie |-> IF a.set[c] = Keep THEN jar[b][c] ELSE a.set[c]]
<1>1. UNCHANGED <<row, drawn, adminActs, raced, proven, passed, unissued, Vouched, coded,
                  failed, streak>>
  BY DEF Deliver, accountVars, proofVars, trapVars, Vouched
<1>2. Sound(a, b, Vouched, coded, proven, drawn) /\ b \in Browser
  BY DEF IInv, ReqInv
<1>3. JarInv'
  <2>1. Proper(a.set, b, Vouched, coded, drawn) /\ Apart(a.set)
    BY <1>2 DEF Sound
  <2>2. /\ jar' = [jar EXCEPT ![b] = cookies]
        /\ late' = IF cookies["admin_auth"] = None THEN late \ {b}
                   ELSE IF a.set["admin_auth"] # Keep /\ cookies["auth"] # None THEN late \cup {b}
                   ELSE late
    BY DEF Deliver
  <2> HIDE DEF a, b
  <2> QED
    BY <1>1, <1>2, <2>1, <2>2, CookiesTaken
<1>4. ReqInv'
  <2> DEFINE r == IF a.at = "exchange" THEN [Idle EXCEPT !.at = "exchanging", !.username = a.username]
                  ELSE Idle
  <2>1. req' = [req EXCEPT ![t] = r]
    BY DEF Deliver
  <2>2. a.at = "exchange" => a.username \in Username
    BY <1>2 DEF Sound, Claim
  <2>3. Sound(r, b, Vouched, coded, proven, drawn)
    BY <2>2, IdleSound, NamedSound
  <2> HIDE DEF r
  <2> QED
    BY <1>1, <2>1, <2>3, ReqStep, GrowsKept DEF IInv
<1> QED
  BY <1>1, <1>3, <1>4, AccountsKept, TrapsKept, GrowsKept
     DEF IInv, ProofInv, AccountInv, trapVars

LEMMA StepExpire ==
    ASSUME IInv, NEW b \in Browser, NEW c \in {"preauth", "pre_reg"}, Expire(b, c)
    PROVE  IInv'
<1>1. UNCHANGED <<req, late, row, drawn, adminActs, raced, proven, passed, unissued, Vouched,
                  coded, failed, streak>>
  BY DEF Expire, accountVars, proofVars, trapVars, Vouched
<1>2. jar' = [jar EXCEPT ![b] = [jar[b] EXCEPT ![c] = None]]
  BY DEF Expire
<1>3. jar \in [Browser -> [Cookie -> Value]] /\ jar[b] \in [Cookie -> Value]
      /\ Proper(jar[b], b, Vouched, coded, drawn)
  BY DEF IInv, JarInv
<1>4. /\ jar' \in [Browser -> [Cookie -> Value]]
      /\ jar'[b]["auth"] = jar[b]["auth"] /\ jar'[b]["admin_auth"] = jar[b]["admin_auth"]
      /\ jar'[b]["preauth"] \in {jar[b]["preauth"], None}
      /\ jar'[b]["pre_reg"] \in {jar[b]["pre_reg"], None}
      /\ jar'[b] \in [Cookie -> Value]
      /\ \A d \in Browser \ {b} : jar'[d] = jar[d]
  BY <1>2, <1>3, CookieNames, ValueType
<1>5. Proper(jar'[b], b, Vouched, coded, drawn)
  BY <1>3, <1>4, ValueType DEF Proper
<1>6. \A d \in Browser : Proper(jar'[d], d, Vouched, coded, drawn)
  BY <1>4, <1>5 DEF IInv, JarInv
<1>7. \A d \in Browser : jar'[d]["auth"] = jar[d]["auth"] /\ jar'[d]["admin_auth"] = jar[d]["admin_auth"]
  BY <1>4
<1>8. EmployeeIsHimselfUnlessLate'
  BY <1>1, <1>7 DEF IInv, JarInv, EmployeeIsHimselfUnlessLate, EmployeeIsHimself, PanelUser
<1>9. JarInv'
  BY <1>1, <1>4, <1>6, <1>8 DEF IInv, JarInv
<1> QED
  BY <1>1, <1>9, ReqKept, AccountsKept, TrapsKept, GrowsKept
     DEF IInv, ProofInv, AccountInv, trapVars

LEMMA Assemble ==
    ASSUME IInv, Grows, NEW t \in Tab, NEW r, req' = [req EXCEPT ![t] = r],
           Sound(r, BrowserOf[t], Vouched', coded', proven', drawn'),
           ProofInv', AccountInv', TrapInv', UNCHANGED <<jar, late>>
    PROVE  IInv'
BY ReqStep, JarKept DEF IInv

\* A step of a request that saves nothing and proves nothing.
LEMMA OnlyRequest ==
    ASSUME IInv, NEW t \in Tab, NEW r, req' = [req EXCEPT ![t] = r],
           Sound(r, BrowserOf[t], Vouched, coded, proven, drawn),
           UNCHANGED <<accountVars, proofVars, jar, late>>, TrapInv'
    PROVE  IInv'
<1>1. UNCHANGED <<row, drawn, adminActs, raced, proven, passed, unissued, Vouched, coded>>
  BY DEF accountVars, proofVars, Vouched
<1>2. Grows /\ ProofInv'
  BY <1>1 DEF Grows, IInv, ProofInv
<1>3. adminActs' \in 0..MaxAdminActs
  BY <1>1 DEF IInv, AccountInv
<1>4. AccountInv'
  BY <1>1, <1>2, <1>3, AccountsKept DEF IInv
<1> QED
  BY <1>1, <1>2, <1>4, Assemble

LEMMA StepAnswer ==
    ASSUME IInv, NEW t \in Tab,
           Lose(t) \/ logoutUser(t) \/ Logout(t) \/ Exchange(t) \/ WrongCode(t)
    PROVE  IInv'
<1>1. UNCHANGED <<accountVars, proofVars, Vouched, jar, late, trapVars>>
  BY DEF Lose, logoutUser, Logout, Exchange, WrongCode, Vouched, proofVars, jarVars
<1>2. TrapInv'
  BY <1>1, TrapsKept DEF IInv
<1>3. Sound(req[t], BrowserOf[t], Vouched, coded, proven, drawn) /\ drawn \subseteq Secret
  BY DEF IInv, ReqInv, ProofInv
<1>4. CASE Lose(t) \/ WrongCode(t)
  BY <1>1, <1>2, <1>4, IdleSound, OnlyRequest DEF Lose, WrongCode, Done
<1>5. CASE logoutUser(t) \/ Logout(t)
  BY <1>1, <1>2, <1>5, NothingSet, AnswerSound, OnlyRequest DEF logoutUser, Logout, Answer
<1>6. CASE Exchange(t)
  <2> DEFINE n == req[t].username
             s == [NoCookies EXCEPT !["admin_auth"] = n]
  <2>1. req' = [req EXCEPT ![t] = [Idle EXCEPT !.at = "page", !.set = s]]
    BY <1>6 DEF Exchange, Answer
  <2>2. n \in Username
    BY <1>3, <1>6 DEF Exchange, Sound, Claim
  <2>3. Proper(s, BrowserOf[t], Vouched, coded, drawn) /\ Apart(s)
    BY <2>2, PanelSet
  <2> HIDE DEF s
  <2>4. Sound([Idle EXCEPT !.at = "page", !.set = s], BrowserOf[t], Vouched, coded, proven, drawn)
    BY <2>3, AnswerSound
  <2> QED
    BY <1>1, <1>2, <2>1, <2>4, OnlyRequest
<1> QED
  BY <1>4, <1>5, <1>6

------------------------------------------------------------------------------
(***************************************************************************)
(* Wrong passwords.                                                        *)
(***************************************************************************)
LEMMA CountedType ==
    ASSUME TrapInv, NEW b \in Browser, NEW threshold \in MIN_TRIGGER_AFTER..MAX_TRIGGER_AFTER
    PROVE  LET c == Counted(b, threshold)
           IN /\ c.count = streak[b] + 1
              /\ c.threshold \in MIN_TRIGGER_AFTER..MAX_TRIGGER_AFTER
              /\ c.count < c.threshold => c \in Counter
              /\ c.count <= c.threshold
<1> DEFINE c == Counted(b, threshold)
<1>1. CASE failed[b] = None
  <2>1. c = [count |-> 1, threshold |-> threshold] /\ streak[b] = 0
    BY <1>1 DEF Counted, TrapInv
  <2> QED
    BY <2>1 DEF Counter
<1>2. CASE failed[b] # None
  <2> DEFINE f == failed[b]
  <2>1. f \in Counter /\ streak[b] = f.count /\ f.count < f.threshold
    BY <1>2 DEF TrapInv
  <2>2. c = [f EXCEPT !.count = f.count + 1]
    BY <1>2 DEF Counted
  <2> HIDE DEF f, c
  <2>3. c.count = f.count + 1 /\ c.threshold = f.threshold
        /\ f.count \in 1..MAX_TRIGGER_AFTER /\ f.threshold \in MIN_TRIGGER_AFTER..MAX_TRIGGER_AFTER
    BY <2>1, <2>2 DEF Counter
  <2>4. c = [count |-> f.count + 1, threshold |-> f.threshold]
    BY <2>1, <2>2 DEF Counter
  <2>5. c.count < c.threshold => c.count \in 1..MAX_TRIGGER_AFTER
    BY <2>3
  <2>6. c.count < c.threshold => c \in Counter
    BY <2>3, <2>4, <2>5 DEF Counter
  <2> QED
    BY <2>1, <2>3, <2>6 DEF c
<1> QED
  BY <1>1, <1>2

\* A failure counts, or hands over at the threshold.
LEMMA FailLogin ==
    ASSUME IInv, NEW t \in Tab, failLogin(t)
    PROVE  /\ TrapInv'
           /\ \E at \in {"page", "console"} :
                /\ req' = [req EXCEPT ![t] = [Idle EXCEPT !.at = at, !.set = Cleared]]
                /\ at = "console" => streak[BrowserOf[t]] + 1 >= MIN_TRIGGER_AFTER
<1> DEFINE b == BrowserOf[t]
<1>1. PICK threshold \in MIN_TRIGGER_AFTER..MAX_TRIGGER_AFTER :
        LET c == Counted(b, threshold) IN
        IF c.count >= c.threshold
          THEN /\ failed' = [failed EXCEPT ![b] = None]
               /\ streak' = [streak EXCEPT ![b] = 0]
               /\ req' = [req EXCEPT ![t] = [Idle EXCEPT !.at = "console", !.set = Cleared]]
          ELSE /\ failed' = [failed EXCEPT ![b] = c]
               /\ streak' = [streak EXCEPT ![b] = streak[b] + 1]
               /\ req' = [req EXCEPT ![t] = [Idle EXCEPT !.at = "page", !.set = Cleared]]
  BY DEF failLogin, Answer
<1> DEFINE c == Counted(b, threshold)
<1>2. b \in Browser /\ TrapInv /\ streak[b] \in Nat
  BY DEF IInv, TrapInv
<1>3. /\ c.count = streak[b] + 1
      /\ c.threshold \in MIN_TRIGGER_AFTER..MAX_TRIGGER_AFTER
      /\ c.count < c.threshold => c \in Counter
  BY <1>2, CountedType
<1> HIDE DEF c, b
<1>4. CASE c.count >= c.threshold
  <2>1. /\ failed' = [failed EXCEPT ![b] = None] /\ streak' = [streak EXCEPT ![b] = 0]
        /\ req' = [req EXCEPT ![t] = [Idle EXCEPT !.at = "console", !.set = Cleared]]
    BY <1>1, <1>4 DEF c
  <2>2. TrapInv'
    BY <1>2, <2>1 DEF TrapInv
  <2>3. streak[b] + 1 >= MIN_TRIGGER_AFTER
    BY <1>2, <1>3, <1>4
  <2> QED
    BY <2>1, <2>2, <2>3 DEF b
<1>5. CASE ~(c.count >= c.threshold)
  <2>1. /\ failed' = [failed EXCEPT ![b] = c] /\ streak' = [streak EXCEPT ![b] = streak[b] + 1]
        /\ req' = [req EXCEPT ![t] = [Idle EXCEPT !.at = "page", !.set = Cleared]]
    BY <1>1, <1>5 DEF c
  <2>2. c.count < c.threshold /\ c \in Counter /\ c # None
    BY <1>2, <1>3, <1>5
  <2>3. TrapInv'
    BY <1>2, <1>3, <2>1, <2>2 DEF TrapInv
  <2> QED
    BY <2>1, <2>3
<1> QED
  BY <1>4, <1>5

LEMMA StepFail ==
    ASSUME IInv, NEW t \in Tab, failLogin(t), UNCHANGED <<accountVars, proofVars, jar, late>>
    PROVE  IInv'
BY FailLogin, NothingSet, AnswerSound, OnlyRequest

LEMMA StepSweep ==
    ASSUME IInv, NEW b \in Browser, Sweep(b)
    PROVE  IInv'
<1>1. UNCHANGED <<req, row, drawn, adminActs, raced, proven, passed, unissued, Vouched, coded,
                  jar, late>>
  BY DEF Sweep, accountVars, proofVars, Vouched, jarVars
<1>2. TrapInv'
  BY DEF Sweep, IInv, TrapInv
<1> QED
  BY <1>1, <1>2, ReqKept, JarKept, AccountsKept, GrowsKept DEF IInv, ProofInv, AccountInv

------------------------------------------------------------------------------
(***************************************************************************)
(* Documents.                                                              *)
(***************************************************************************)
LEMMA Saved ==
    ASSUME IInv, Grows, NEW t \in Tab, NEW i \in Id, i = req[t].id, Exists(i), NEW d, d \in Row,
           Save(t, d), adminActs' \in 0..MaxAdminActs,
           d.store = row[i].store, d.username = row[i].username,
           d.totpSecret \in drawn' \cup {None},
           TotpOf(row[i]) = TotpOf(req[t].doc) => (d.totpEnabled => d.totpSecret \in proven')
    PROVE  AccountInv'
<1>1. row' = [row EXCEPT ![i] = d]
      /\ raced' = IF TotpOf(row[i]) = TotpOf(req[t].doc) THEN raced \ {i} ELSE raced \cup {i}
  BY DEF Save
<1>2. row \in [Id -> Row \cup {Unused, Gone}] /\ raced \subseteq Id
  BY DEF IInv, AccountInv
<1>3. /\ row' \in [Id -> Row \cup {Unused, Gone}] /\ row'[i] = d
      /\ \A j \in Id \ {i} : row'[j] = row[j]
  BY <1>1, <1>2
<1>4. raced' \subseteq Id /\ \A j \in Id \ {i} : j \in raced => j \in raced'
  BY <1>1, <1>2
<1>5. \A j \in Id : Exists(j)' => row'[j].totpSecret \in drawn' \cup {None}
  BY <1>3 DEF IInv, AccountInv, Exists, Grows
<1>6. UsernamesUnique'
  BY <1>3 DEF IInv, AccountInv, Exists, UsernamesUnique
<1>7. EnabledIsProven'
  BY <1>1, <1>3, <1>4 DEF IInv, AccountInv, Exists, EnabledIsProven, Grows
<1> QED
  BY <1>3, <1>4, <1>5, <1>6, <1>7 DEF AccountInv

LEMMA Inserted ==
    ASSUME IInv, Grows, NEW i \in Id, NEW d, d \in Row, Insert(d, i), UNCHANGED raced,
           adminActs' \in 0..MaxAdminActs,
           d.totpSecret \in drawn', d.totpEnabled => d.totpSecret \in proven'
    PROVE  AccountInv'
<1>1. row[i] = Unused /\ Find(d.store, d.username) = {} /\ row' = [row EXCEPT ![i] = d]
  BY DEF Insert
<1>2. row \in [Id -> Row \cup {Unused, Gone}] /\ raced \subseteq Id
  BY DEF IInv, AccountInv
<1>3. /\ row' \in [Id -> Row \cup {Unused, Gone}] /\ row'[i] = d
      /\ \A j \in Id \ {i} : row'[j] = row[j]
  BY <1>1, <1>2
<1>4. \A j \in Id : Exists(j)' => row'[j].totpSecret \in drawn' \cup {None}
  BY <1>3 DEF IInv, AccountInv, Exists, Grows
<1>5. \A j \in Id : Exists(j) /\ row[j].store = d.store => row[j].username # d.username
  BY <1>1 DEF Find
<1>6. UsernamesUnique'
  BY <1>3, <1>5 DEF IInv, AccountInv, Exists, UsernamesUnique
<1>7. EnabledIsProven'
  BY <1>3 DEF IInv, AccountInv, Exists, EnabledIsProven, Grows
<1> QED
  BY <1>2, <1>3, <1>4, <1>6, <1>7 DEF AccountInv

------------------------------------------------------------------------------
(***************************************************************************)
(* Signing in.                                                             *)
(***************************************************************************)

\* What the invariant says of a document that is there.
LEMMA RowType ==
    ASSUME IInv, NEW i \in Id, Exists(i)
    PROVE  row[i] \in Row /\ row[i].totpSecret \in drawn \cup {None} /\ drawn \subseteq Secret
BY DEF IInv, AccountInv, ProofInv, Exists

LEMMA StepWait ==
    ASSUME IInv, NEW t \in Tab, NEW P, NEW i \in Id, Exists(i),
           NEW at \in {"password", "enrol", "code", "reset"},
           at \in {"enrol", "code"} =>
             row[i].totpSecret # None /\ <<BrowserOf[t], i>> \in P,
           Wait(t, at, i, row[i])
    PROVE  LET r == [Idle EXCEPT !.at = at, !.id = i, !.doc = row[i]]
           IN /\ req' = [req EXCEPT ![t] = r]
              /\ Sound(r, BrowserOf[t], P, coded, proven, drawn)
<1> DEFINE d == row[i]
           r == [Idle EXCEPT !.at = at, !.id = i, !.doc = d]
<1>1. req' = [req EXCEPT ![t] = r]
  BY DEF Wait
<1>2. d \in Row /\ d.totpSecret \in drawn \cup {None} /\ drawn \subseteq Secret
  BY RowType
<1>3. at \in {"enrol", "code"} => d.totpSecret # None
  OBVIOUS
<1> HIDE DEF d
<1>4. at \in Step /\ i \in Id \cup {None} /\ d \in Row
  BY <1>2 DEF Step
<1>5. r \in Request /\ r.at = at /\ r.id = i /\ r.doc = d /\ r.set = NoCookies
  BY <1>4, NoCookiesType DEF Idle, Request
<1> HIDE DEF r
<1>6. Claim(r, BrowserOf[t], P, coded, proven, drawn)
  BY <1>2, <1>3, <1>5 DEF Claim
<1>7. Sound(r, BrowserOf[t], P, coded, proven, drawn)
  BY <1>5, <1>6, NothingSet DEF Sound
<1> QED
  BY <1>1, <1>7 DEF d, r

LEMMA StepLogin ==
    ASSUME IInv, NEW t \in Tab, NEW n \in Username, loginUser(t, n)
    PROVE  IInv'
<1>1. UNCHANGED <<accountVars, proofVars, Vouched, trapVars, jar, late>>
  BY DEF loginUser, Vouched, proofVars, jarVars
<1>2. TrapInv'
  BY <1>1, TrapsKept DEF IInv
<1>3. CASE FindActive("admin_users", n) # {}
  <2>1. PICK i \in FindActive("admin_users", n) : Wait(t, "password", i, row[i])
    BY <1>3 DEF loginUser
  <2>2. i \in Id /\ Exists(i)
    BY DEF FindActive, Find
  <2>3. LET r == [Idle EXCEPT !.at = "password", !.id = i, !.doc = row[i]]
        IN req' = [req EXCEPT ![t] = r] /\ Sound(r, BrowserOf[t], Vouched, coded, proven, drawn)
    BY <2>1, <2>2, StepWait
  <2> QED
    BY <1>1, <1>2, <2>3, OnlyRequest
<1>4. CASE FindActive("admin_users", n) = {}
  <2>1. req' = [req EXCEPT ![t] = [Idle EXCEPT !.at = "employee", !.username = n]]
    BY <1>4 DEF loginUser
  <2> QED
    BY <1>1, <1>2, <2>1, NamedSound, OnlyRequest
<1> QED
  BY <1>3, <1>4

LEMMA StepFindEmployee ==
    ASSUME IInv, NEW t \in Tab, FindEmployee(t)
    PROVE  IInv'
<1> DEFINE found == FindActive("real_employees", req[t].username)
<1>1. UNCHANGED <<accountVars, proofVars, Vouched, jar, late>>
  BY DEF FindEmployee, Vouched, proofVars, jarVars
<1>2. CASE found # {}
  <2>1. PICK i \in found : Wait(t, "password", i, row[i])
    BY <1>2 DEF FindEmployee
  <2>2. UNCHANGED trapVars
    BY <1>2 DEF FindEmployee
  <2>3. TrapInv'
    BY <2>2, TrapsKept DEF IInv
  <2>4. i \in Id /\ Exists(i)
    BY DEF FindActive, Find
  <2>5. LET r == [Idle EXCEPT !.at = "password", !.id = i, !.doc = row[i]]
        IN req' = [req EXCEPT ![t] = r] /\ Sound(r, BrowserOf[t], Vouched, coded, proven, drawn)
    BY <2>1, <2>4, StepWait
  <2> QED
    BY <1>1, <2>3, <2>5, OnlyRequest
<1>3. CASE found = {}
  BY <1>1, <1>3, StepFail DEF FindEmployee
<1> QED
  BY <1>2, <1>3

\* What a request that waits claims.
LEMMA Claims ==
    ASSUME IInv, NEW t \in Tab
    PROVE  Claim(req[t], BrowserOf[t], Vouched, coded, proven, drawn) /\ BrowserOf[t] \in Browser
BY DEF IInv, ReqInv, Sound

LEMMA StepRightPassword ==
    ASSUME IInv, NEW t \in Tab, RightPassword(t)
    PROVE  IInv'
<1> DEFINE b == BrowserOf[t]
           i == req[t].id
           d == req[t].doc
           enrolls == d.store = "real_employees" /\ ~d.totpEnabled
           mode == IF d.store = "real_employees" THEN "login"
                   ELSE IF d.role = "admin" THEN "admin" ELSE "slogin"
           Then(m) == [Cleared EXCEPT !["preauth"] = [mode |-> m, id |-> i]]
<1>1. /\ passed' = passed \cup {<<b, i>>}
      /\ UNCHANGED <<row, drawn, adminActs, raced, proven, coded, unissued, jar, late>>
      /\ failed' = [failed EXCEPT ![b] = None] /\ streak' = [streak EXCEPT ![b] = 0]
  BY DEF RightPassword, recordSuccess, accountVars, jarVars
<1>2. req[t].at = "password"
  BY DEF RightPassword
<1>3. i \in Id /\ d \in Row /\ d.totpSecret \in drawn \cup {None} /\ b \in Browser
  BY <1>2, Claims DEF Claim
<1>4. d.totpEnabled \in BOOLEAN /\ mode \in {"admin", "slogin", "login"}
  BY <1>3 DEF Row
<1>5. \/ Answer(t, Then(mode)) \/ Answer(t, Then("reg")) \/ Answer(t, Cleared)
      \/ Wait(t, "draw", i, d) /\ ~d.totpEnabled
  BY <1>4 DEF RightPassword
<1>6. Grows /\ ProofInv'
  BY <1>1, <1>3 DEF Grows, IInv, ProofInv, Vouched
<1>7. AccountInv'
  BY <1>1, <1>6, AccountsKept DEF IInv, AccountInv
<1>8. TrapInv'
  BY <1>1 DEF IInv, TrapInv
<1>9. <<b, i>> \in Vouched' /\ drawn' \subseteq Secret
  BY <1>1, <1>6 DEF ProofInv, Vouched
<1> HIDE DEF b, i, d, mode
<1>10. CASE Answer(t, Then(mode)) \/ Answer(t, Then("reg")) \/ Answer(t, Cleared)
  <2>1. PICK s : /\ Proper(s, b, Vouched', coded', drawn') /\ Apart(s)
                 /\ Answer(t, s)
    BY <1>3, <1>4, <1>9, <1>10, PreauthSet, NothingSet
  <2>2. Sound([Idle EXCEPT !.at = "page", !.set = s], b, Vouched', coded', proven', drawn')
    BY <2>1, AnswerSound
  <2>3. req' = [req EXCEPT ![t] = [Idle EXCEPT !.at = "page", !.set = s]]
    BY <2>1 DEF Answer
  <2> QED
    BY <1>1, <1>6, <1>7, <1>8, <2>2, <2>3, Assemble DEF b
<1>11. CASE Wait(t, "draw", i, d) /\ ~d.totpEnabled
  <2> DEFINE r == [Idle EXCEPT !.at = "draw", !.id = i, !.doc = d]
  <2>1. req' = [req EXCEPT ![t] = r]
    BY <1>11 DEF Wait
  <2>2. d.totpSecret \in drawn' \cup {None}
    BY <1>1, <1>3
  <2>3. "draw" \in Step /\ i \in Id \cup {None} /\ d \in Row
    BY <1>3 DEF Step
  <2>4. r \in Request /\ r.at = "draw" /\ r.id = i /\ r.doc = d /\ r.set = NoCookies
    BY <2>3, NoCookiesType DEF Idle, Request
  <2> HIDE DEF r
  <2>5. Claim(r, b, Vouched', coded', proven', drawn')
    BY <1>3, <1>9, <1>11, <2>2, <2>4 DEF Claim
  <2>6. Sound(r, b, Vouched', coded', proven', drawn')
    BY <2>4, <2>5, NothingSet DEF Sound
  <2> QED
    BY <1>1, <1>6, <1>7, <1>8, <2>1, <2>6, Assemble DEF b
<1> QED
  BY <1>5, <1>10, <1>11

LEMMA StepDraw ==
    ASSUME IInv, NEW t \in Tab, DrawSecret(t)
    PROVE  IInv'
<1> DEFINE i == req[t].id
<1>1. UNCHANGED <<adminActs, proven, passed, unissued, Vouched, coded, trapVars, jar,
                  late>> /\ req[t].at = "draw"
  BY DEF DrawSecret, Vouched, proofVars, jarVars
<1>2. i \in Id /\ <<BrowserOf[t], i>> \in Vouched /\ ~req[t].doc.totpEnabled
  BY <1>1, Claims DEF Claim
<1>3. TrapInv' /\ adminActs' \in 0..MaxAdminActs
  BY <1>1, TrapsKept DEF IInv, AccountInv
<1> HIDE DEF i
<1>4. CASE Exists(i)
  <2>1. PICK s \in Secret \ drawn :
          /\ Save(t, [row[i] EXCEPT !.totpSecret = s])
          /\ drawn' = drawn \cup {s}
          /\ Answer(t, [Cleared EXCEPT !["preauth"] = [mode |-> "reg", id |-> i]])
    BY <1>4 DEF DrawSecret, i
  <2> DEFINE d == [row[i] EXCEPT !.totpSecret = s]
  <2>2. Grows /\ ProofInv'
    BY <1>1, <2>1 DEF Grows, IInv, ProofInv
  <2>3. row[i] \in Row
    BY <1>2, <1>4, RowType
  <2>4. /\ d \in Row /\ d.store = row[i].store /\ d.username = row[i].username
        /\ d.totpSecret = s /\ d.totpEnabled = row[i].totpEnabled
    BY <2>3 DEF Row
  <2>5. Save(t, d)
    BY <2>1
  <2> HIDE DEF d
  <2>6. AccountInv'
    BY <1>2, <1>3, <1>4, <2>1, <2>2, <2>4, <2>5, Saved DEF TotpOf, i
  <2>7. PICK c : Proper(c, BrowserOf[t], Vouched', coded', drawn') /\ Apart(c) /\ Answer(t, c)
    BY <1>1, <1>2, <2>1, PreauthSet
  <2>8. req' = [req EXCEPT ![t] = [Idle EXCEPT !.at = "page", !.set = c]]
    BY <2>7 DEF Answer
  <2>9. Sound([Idle EXCEPT !.at = "page", !.set = c], BrowserOf[t], Vouched', coded', proven', drawn')
    BY <2>7, AnswerSound
  <2> QED
    BY <1>1, <1>3, <2>2, <2>6, <2>8, <2>9, Assemble
<1>5. CASE ~Exists(i)
  <2>1. Answer(t, Cleared) /\ UNCHANGED <<row, raced, drawn>>
    BY <1>5 DEF DrawSecret, i
  <2>2. UNCHANGED <<accountVars, proofVars, Vouched, jar, late>>
    BY <1>1, <2>1 DEF accountVars, proofVars, Vouched, jarVars
  <2> QED
    BY <1>3, <2>1, <2>2, NothingSet, AnswerSound, OnlyRequest DEF Answer
<1> QED
  BY <1>4, <1>5

------------------------------------------------------------------------------
(***************************************************************************)
(* Enrollment.                                                             *)
(***************************************************************************)
LEMMA EmployeeType ==
    ASSUME NEW n \in Username, NEW s \in Secret
    PROVE  /\ Employee(n, s) \in Row /\ Employee(n, s).totpSecret = s
           /\ ~Employee(n, s).totpEnabled
BY DEF Employee, Row

LEMMA StepCreateUser ==
    ASSUME IInv, NEW t \in Tab, NEW n \in Username, createUser(t, n)
    PROVE  IInv'
<1>1. UNCHANGED <<row, raced, adminActs, proofVars, Vouched, trapVars, jar, late>>
  BY DEF createUser, Vouched, proofVars, jarVars
<1>2. PICK s \in Secret \ drawn : Wait(t, "register", None, Employee(n, s)) /\ drawn' = drawn \cup {s}
  BY DEF createUser
<1> DEFINE d == Employee(n, s)
           r == [Idle EXCEPT !.at = "register", !.id = None, !.doc = d]
<1>3. d \in Row /\ d.totpSecret = s /\ ~d.totpEnabled
  BY EmployeeType
<1>4. req' = [req EXCEPT ![t] = r]
  BY <1>2 DEF Wait
<1> HIDE DEF d
<1>5. r \in Request /\ r.at = "register" /\ r.id = None /\ r.doc = d /\ r.set = NoCookies
  BY <1>3, NoCookiesType DEF Idle, Request, Step
<1> HIDE DEF r
<1>6. Grows /\ ProofInv' /\ TrapInv' /\ adminActs' \in 0..MaxAdminActs
  BY <1>1, <1>2, TrapsKept DEF Grows, IInv, ProofInv, proofVars, AccountInv
<1>7. AccountInv'
  BY <1>1, <1>6, AccountsKept DEF IInv
<1>8. Claim(r, BrowserOf[t], Vouched', coded', proven', drawn')
  BY <1>2, <1>3, <1>5 DEF Claim
<1>9. Sound(r, BrowserOf[t], Vouched', coded', proven', drawn')
  BY <1>5, <1>8, NothingSet DEF Sound
<1> QED
  BY <1>1, <1>4, <1>6, <1>7, <1>9, Assemble

LEMMA StepSaveUser ==
    ASSUME IInv, NEW t \in Tab, SaveUser(t)
    PROVE  IInv'
<1> DEFINE d == req[t].doc
<1>1. req[t].at = "register" /\ UNCHANGED <<raced, drawn, adminActs, proven, coded, unissued,
                                            trapVars, jar, late>>
  BY DEF SaveUser, jarVars
<1>2. d \in Row /\ d.totpSecret \in drawn /\ ~d.totpEnabled /\ BrowserOf[t] \in Browser
  BY <1>1, Claims DEF Claim
<1>3. TrapInv' /\ adminActs' \in 0..MaxAdminActs
  BY <1>1, TrapsKept DEF IInv, AccountInv
<1> HIDE DEF d
<1>4. ASSUME NEW i \in Id, Insert(d, i), passed' = passed \cup {<<BrowserOf[t], i>>},
             Answer(t, [NoCookies EXCEPT !["preauth"] = [mode |-> "reg", id |-> i]])
      PROVE  IInv'
  <2>1. Grows /\ ProofInv'
    BY <1>1, <1>2, <1>4 DEF Grows, IInv, ProofInv, Vouched
  <2>2. AccountInv'
    BY <1>1, <1>2, <1>3, <1>4, <2>1, Inserted
  <2>3. <<BrowserOf[t], i>> \in Vouched'
    BY <1>4 DEF Vouched
  <2>4. PICK c : Proper(c, BrowserOf[t], Vouched', coded', drawn') /\ Apart(c) /\ Answer(t, c)
    BY <1>4, <2>3, PreauthSet
  <2>5. req' = [req EXCEPT ![t] = [Idle EXCEPT !.at = "page", !.set = c]]
    BY <2>4 DEF Answer
  <2>6. Sound([Idle EXCEPT !.at = "page", !.set = c], BrowserOf[t], Vouched', coded', proven', drawn')
    BY <2>4, AnswerSound
  <2> QED
    BY <1>1, <1>3, <2>1, <2>2, <2>5, <2>6, Assemble
<1>5. CASE Done(t) /\ UNCHANGED <<row, passed>>
  BY <1>1, <1>3, <1>5, IdleSound, OnlyRequest DEF Done, accountVars, proofVars
<1> QED
  BY <1>4, <1>5 DEF SaveUser, d

\* What the invariant says of the cookies of a browser.
LEMMA CookiesProper ==
    ASSUME IInv, NEW t \in Tab
    PROVE  /\ BrowserOf[t] \in Browser
           /\ LET pre == jar[BrowserOf[t]]["preauth"]
              IN pre # None => pre \in Preauth /\ pre.id \in Id /\ <<BrowserOf[t], pre.id>> \in Vouched
           /\ LET pre == jar[BrowserOf[t]]["pre_reg"]
              IN pre # None => pre \in Prereg /\ pre.sub \in Username /\ pre.totp \in drawn
<1>1. BrowserOf[t] \in Browser
  OBVIOUS
<1> DEFINE s == jar[BrowserOf[t]]
<1>2. Proper(s, BrowserOf[t], Vouched, coded, drawn) /\ s \in [Cookie -> Value]
  BY <1>1 DEF IInv, JarInv
<1> HIDE DEF s
<1>3. s["preauth"] # Keep /\ s["pre_reg"] # Keep
  BY <1>2, CookieNames
<1>4. s["preauth"] # None => s["preauth"] \in Preauth /\ <<BrowserOf[t], s["preauth"].id>> \in Vouched
  BY <1>2, <1>3 DEF Proper
<1>5. s["pre_reg"] # None => s["pre_reg"] \in Prereg /\ s["pre_reg"].totp \in drawn
  BY <1>2, <1>3 DEF Proper
<1> QED
  BY <1>1, <1>4, <1>5 DEF s, Preauth, Prereg

\* A cookie that no answer has set is noted, and then counts like one.
LEMMA AskCodeVouches ==
    ASSUME IInv, NEW t \in Tab, NEW step, NEW pre \in Presented(BrowserOf[t]), AskCode(t, step, pre),
           UNCHANGED passed
    PROVE  /\ pre.id \in Id /\ <<BrowserOf[t], pre.id>> \in Vouched'
           /\ unissued \subseteq unissued' /\ unissued' \subseteq Browser \X Id
<1> DEFINE b == BrowserOf[t]
<1>1. b \in Browser /\ unissued \subseteq Browser \X Id
  BY DEF IInv, ProofInv
<1>2. pre.id \in Id /\ (pre = jar[b]["preauth"] => <<b, pre.id>> \in Vouched)
  <2>1. CASE pre = jar[b]["preauth"] /\ pre # None
    BY <2>1, CookiesProper
  <2>2. CASE pre \in Unissued /\ pre # jar[b]["preauth"]
    BY <2>2 DEF Preauth
  <2>3. CASE pre = None
    BY <2>3 DEF Presented
  <2> QED
    BY <2>1, <2>2, <2>3 DEF Presented
<1>3. unissued' = IF pre = jar[b]["preauth"] \/ <<b, pre.id>> \in passed THEN unissued
                  ELSE unissued \cup {<<b, pre.id>>}
  BY DEF AskCode
<1> HIDE DEF b
<1> QED
  BY <1>1, <1>2, <1>3 DEF Vouched, b

LEMMA StepVerify ==
    ASSUME IInv, NEW t \in Tab, verifyRegistrationOtp(t) \/ verifyLoginOtp(t)
    PROVE  IInv'
<1>1. UNCHANGED <<proven, passed, coded, row, drawn, adminActs, raced, trapVars, jar, late>>
  BY DEF verifyRegistrationOtp, verifyLoginOtp, accountVars, jarVars
<1>2. PICK pre \in Presented(BrowserOf[t]), at \in {"enrol", "code"} :
        Exists(pre.id) /\ row[pre.id].totpSecret # None /\ AskCode(t, at, pre)
  BY DEF verifyRegistrationOtp, verifyLoginOtp, Admits
<1>3. /\ pre.id \in Id /\ <<BrowserOf[t], pre.id>> \in Vouched'
      /\ unissued \subseteq unissued' /\ unissued' \subseteq Browser \X Id
  BY <1>1, <1>2, AskCodeVouches
<1>4. Grows /\ ProofInv' /\ TrapInv' /\ adminActs' \in 0..MaxAdminActs
  BY <1>1, <1>3, TrapsKept DEF Grows, IInv, ProofInv, AccountInv, Vouched
<1>5. AccountInv'
  BY <1>1, <1>4, AccountsKept DEF IInv
<1>6. Wait(t, at, pre.id, row[pre.id])
  BY <1>2 DEF AskCode
<1> DEFINE r == [Idle EXCEPT !.at = at, !.id = pre.id, !.doc = row[pre.id]]
           P == Vouched'
<1> HIDE DEF P
<1>7. req' = [req EXCEPT ![t] = r] /\ Sound(r, BrowserOf[t], P, coded, proven, drawn)
  <2>1. /\ pre.id \in Id /\ Exists(pre.id) /\ at \in {"password", "enrol", "code", "reset"}
        /\ row[pre.id].totpSecret # None /\ <<BrowserOf[t], pre.id>> \in P
    BY <1>2, <1>3 DEF P
  <2> QED
    BY <1>6, <2>1, StepWait
<1> HIDE DEF r
<1>8. Sound(r, BrowserOf[t], Vouched', coded', proven', drawn')
  BY <1>1, <1>7 DEF P
<1> QED
  BY <1>1, <1>4, <1>5, <1>7, <1>8, Assemble

LEMMA StepEnrollmentCode ==
    ASSUME IInv, NEW t \in Tab, RightEnrollmentCode(t)
    PROVE  IInv'
<1> DEFINE b == BrowserOf[t]
           i == req[t].id
           d == req[t].doc
           r == [Idle EXCEPT !.at = "enable", !.id = i, !.doc = d]
<1>1. /\ req[t].at = "enrol" /\ UNCHANGED <<passed, unissued, Vouched, row, drawn, adminActs,
                                            raced, trapVars, jar, late>>
      /\ proven' = proven \cup {d.totpSecret} /\ coded' = coded \cup {<<b, i>>}
      /\ req' = [req EXCEPT ![t] = r]
  BY DEF RightEnrollmentCode, Wait, accountVars, Vouched, proofVars, jarVars
<1>2. /\ i \in Id /\ d \in Row /\ d.totpSecret \in drawn /\ <<b, i>> \in Vouched
      /\ b \in Browser
  BY <1>1, Claims DEF Claim
<1> HIDE DEF b, i, d
<1>3. r \in Request /\ r.at = "enable" /\ r.id = i /\ r.doc = d /\ r.set = NoCookies
  BY <1>2, NoCookiesType DEF Idle, Request, Step
<1> HIDE DEF r
<1>4. Grows /\ ProofInv' /\ TrapInv' /\ adminActs' \in 0..MaxAdminActs
  BY <1>1, <1>2, TrapsKept DEF Grows, IInv, ProofInv, AccountInv
<1>5. AccountInv'
  BY <1>1, <1>4, AccountsKept DEF IInv
<1>6. Claim(r, b, Vouched', coded', proven', drawn')
  BY <1>1, <1>2, <1>3 DEF Claim
<1>7. Sound(r, b, Vouched', coded', proven', drawn')
  BY <1>3, <1>6, NothingSet DEF Sound
<1> QED
  BY <1>1, <1>4, <1>5, <1>7, Assemble DEF b

LEMMA StepEnable ==
    ASSUME IInv, NEW t \in Tab, EnableTotp(t)
    PROVE  IInv'
<1> DEFINE i == req[t].id
           d == req[t].doc
<1>1. req[t].at = "enable" /\ UNCHANGED <<drawn, adminActs, proofVars, Vouched, trapVars, jar,
                                          late>>
  BY DEF EnableTotp, Vouched, proofVars, jarVars
<1>2. /\ i \in Id /\ d \in Row /\ d.totpSecret \in proven
      /\ <<BrowserOf[t], i>> \in Vouched /\ <<BrowserOf[t], i>> \in coded
  BY <1>1, Claims DEF Claim
<1>3. Grows /\ ProofInv' /\ TrapInv' /\ adminActs' \in 0..MaxAdminActs
  BY <1>1, TrapsKept DEF Grows, IInv, ProofInv, proofVars, AccountInv
<1>4. CASE Exists(i)
  <2>1. Answer(t, EmployeeCookies(i, d))
    BY <1>4 DEF EnableTotp
  <2>2. AccountInv'
    <3>1. CASE UNCHANGED <<row, raced>>
      BY <1>3, <3>1, AccountsKept DEF IInv
    <3>2. CASE Save(t, [row[i] EXCEPT !.totpEnabled = TRUE])
      <4> DEFINE e == [row[i] EXCEPT !.totpEnabled = TRUE]
      <4>1. row[i] \in Row /\ row[i].totpSecret \in drawn \cup {None}
        BY <1>2, <1>4, RowType
      <4>2. /\ e \in Row /\ e.store = row[i].store /\ e.username = row[i].username
            /\ e.totpSecret = row[i].totpSecret
        BY <4>1 DEF Row
      <4>3. Save(t, e)
        BY <3>2
      <4>4. e.totpSecret \in drawn' \cup {None}
        BY <1>1, <4>1, <4>2
      <4>5. TotpOf(row[i]) = TotpOf(d) => e.totpSecret \in proven'
        BY <1>1, <1>2, <4>2 DEF TotpOf, proofVars
      <4> HIDE DEF e
      <4> QED
        BY <1>2, <1>3, <1>4, <4>2, <4>3, <4>4, <4>5, Saved
    <3> QED
      BY <1>4, <3>1, <3>2 DEF EnableTotp
  <2> HIDE DEF i, d
  <2>3. Proper(EmployeeCookies(i, d), BrowserOf[t], Vouched', coded', drawn')
        /\ Apart(EmployeeCookies(i, d))
    BY <1>1, <1>2, SessionSet DEF proofVars
  <2>4. Sound([Idle EXCEPT !.at = "page", !.set = EmployeeCookies(i, d)],
              BrowserOf[t], Vouched', coded', proven', drawn')
    BY <2>3, AnswerSound
  <2> QED
    BY <1>1, <1>3, <2>1, <2>2, <2>4, Assemble DEF Answer
<1>5. CASE ~Exists(i)
  <2>1. Done(t) /\ UNCHANGED <<row, raced>>
    BY <1>5 DEF EnableTotp
  <2> QED
    BY <1>1, <1>3, <2>1, IdleSound, OnlyRequest DEF Done, accountVars
<1> QED
  BY <1>4, <1>5

LEMMA StepRightCode ==
    ASSUME IInv, NEW t \in Tab, RightCode(t)
    PROVE  IInv'
<1> DEFINE b == BrowserOf[t]
           i == req[t].id
           d == req[t].doc
<1>1. /\ req[t].at = "code" /\ UNCHANGED <<passed, unissued, Vouched, row, drawn, adminActs,
                                           raced, trapVars, jar, late>>
      /\ proven' = proven \cup {d.totpSecret} /\ coded' = coded \cup {<<b, i>>}
  BY DEF RightCode, accountVars, Vouched, proofVars, jarVars
<1>2. AnswerOperator(t, i, d) \/ Answer(t, EmployeeCookies(i, d))
  BY DEF RightCode
<1>3. /\ i \in Id /\ d \in Row /\ d.totpSecret \in drawn /\ <<b, i>> \in Vouched
      /\ b \in Browser
  BY <1>1, Claims DEF Claim
<1> HIDE DEF b, i, d
<1>4. Grows /\ ProofInv' /\ TrapInv' /\ adminActs' \in 0..MaxAdminActs
  BY <1>1, <1>3, TrapsKept DEF Grows, IInv, ProofInv, AccountInv
<1>5. AccountInv'
  BY <1>1, <1>4, AccountsKept DEF IInv
<1>6. <<b, i>> \in Vouched' /\ <<b, i>> \in coded'
  BY <1>1, <1>3
<1>7. CASE Answer(t, EmployeeCookies(i, d))
  <2>1. Proper(EmployeeCookies(i, d), b, Vouched', coded', drawn') /\ Apart(EmployeeCookies(i, d))
    BY <1>3, <1>6, SessionSet
  <2>2. Sound([Idle EXCEPT !.at = "page", !.set = EmployeeCookies(i, d)],
              b, Vouched', coded', proven', drawn')
    BY <2>1, AnswerSound
  <2> QED
    BY <1>1, <1>4, <1>5, <1>7, <2>2, Assemble DEF Answer, b
<1>8. CASE AnswerOperator(t, i, d)
  <2> DEFINE r == [Idle EXCEPT !.at = "exchange", !.username = d.username,
                     !.set = [NoCookies EXCEPT !["preauth"] = None,
                          !["auth"] = [id |-> i, username |-> d.username, role |-> "admin"]]]
  <2>1. Sound(r, b, Vouched', coded', proven', drawn')
    BY <1>3, <1>6, OperatorSound
  <2>2. req' = [req EXCEPT ![t] = r]
    BY <1>8 DEF AnswerOperator
  <2> HIDE DEF r
  <2> QED
    BY <1>1, <1>4, <1>5, <2>1, <2>2, Assemble DEF b
<1> QED
  BY <1>2, <1>7, <1>8

------------------------------------------------------------------------------
(***************************************************************************)
(* The panel: registration, and the users.                                 *)
(***************************************************************************)
LEMMA StepRegister ==
    ASSUME IInv, NEW t \in Tab, NEW n \in Username, Register(t, n)
    PROVE  IInv'
<1>1. UNCHANGED <<row, raced, adminActs, proven, passed, unissued, Vouched, coded, trapVars,
                  jar, late>>
  BY DEF Register, Vouched, proofVars, jarVars
<1>2. PICK s \in Secret \ drawn :
        /\ drawn' = drawn \cup {s}
        /\ Answer(t, [NoCookies EXCEPT !["pre_reg"] = [sub |-> n, totp |-> s]])
  BY DEF Register
<1>3. Grows /\ ProofInv' /\ TrapInv' /\ adminActs' \in 0..MaxAdminActs
  BY <1>1, <1>2, TrapsKept DEF Grows, IInv, ProofInv, AccountInv
<1>4. AccountInv'
  BY <1>1, <1>3, AccountsKept DEF IInv
<1>5. s \in drawn' /\ drawn' \subseteq Secret
  BY <1>2, <1>3 DEF ProofInv
<1>6. PICK c : Proper(c, BrowserOf[t], Vouched', coded', drawn') /\ Apart(c) /\ Answer(t, c)
  BY <1>2, <1>5, PreregSet
<1>7. req' = [req EXCEPT ![t] = [Idle EXCEPT !.at = "page", !.set = c]]
  BY <1>6 DEF Answer
<1>8. Sound([Idle EXCEPT !.at = "page", !.set = c], BrowserOf[t], Vouched', coded', proven', drawn')
  BY <1>6, AnswerSound
<1> QED
  BY <1>1, <1>3, <1>4, <1>7, <1>8, Assemble

LEMMA StepVerifyRegistration ==
    ASSUME IInv, NEW t \in Tab, VerifyRegistration(t)
    PROVE  IInv'
<1> DEFINE pre == jar[BrowserOf[t]]["pre_reg"]
           d == [store |-> "admin_users", username |-> pre.sub, role |-> "user",
                 isActive |-> TRUE, totpEnabled |-> TRUE, totpSecret |-> pre.totp]
           r == [Idle EXCEPT !.at = "create", !.id = None, !.doc = d]
<1>1. /\ pre # None /\ UNCHANGED <<passed, unissued, Vouched, coded, row, drawn, adminActs,
                                   raced, trapVars, jar, late>>
      /\ proven' = proven \cup {pre.totp} /\ req' = [req EXCEPT ![t] = r]
  BY DEF VerifyRegistration, Wait, accountVars, Vouched, proofVars, jarVars
<1>2. pre.sub \in Username /\ pre.totp \in drawn /\ pre.totp \in Secret
  BY <1>1, CookiesProper DEF IInv, ProofInv
<1> HIDE DEF pre
<1>3. d \in Row /\ d.totpSecret = pre.totp
  BY <1>2 DEF Row
<1> HIDE DEF d
<1>4. r \in Request /\ r.at = "create" /\ r.id = None /\ r.doc = d /\ r.set = NoCookies
  BY <1>3, NoCookiesType DEF Idle, Request, Step
<1> HIDE DEF r
<1>5. Grows /\ ProofInv' /\ TrapInv' /\ adminActs' \in 0..MaxAdminActs
  BY <1>1, <1>2, TrapsKept DEF Grows, IInv, ProofInv, AccountInv
<1>6. AccountInv'
  BY <1>1, <1>5, AccountsKept DEF IInv
<1>7. Claim(r, BrowserOf[t], Vouched', coded', proven', drawn')
  BY <1>1, <1>2, <1>3, <1>4 DEF Claim
<1>8. Sound(r, BrowserOf[t], Vouched', coded', proven', drawn')
  BY <1>4, <1>7, NothingSet DEF Sound
<1> QED
  BY <1>1, <1>5, <1>6, <1>8, Assemble

LEMMA StepCreateAdmin ==
    ASSUME IInv, NEW t \in Tab, CreateAdminUser(t)
    PROVE  IInv'
<1> DEFINE d == req[t].doc
           c == [NoCookies EXCEPT !["pre_reg"] = None]
<1>1. req[t].at = "create" /\ UNCHANGED <<raced, drawn, adminActs, proofVars, Vouched,
                                          trapVars, jar, late>>
  BY DEF CreateAdminUser, Vouched, proofVars, jarVars
<1>2. d \in Row /\ d.totpSecret \in drawn /\ d.totpSecret \in proven
  BY <1>1, Claims DEF Claim
<1>3. Grows /\ ProofInv' /\ TrapInv' /\ adminActs' \in 0..MaxAdminActs
  BY <1>1, TrapsKept DEF Grows, IInv, ProofInv, proofVars, AccountInv
<1> HIDE DEF d
<1>4. ASSUME NEW i \in Id, Insert(d, i), Answer(t, c)
      PROVE  IInv'
  <2>1. d.totpSecret \in drawn' /\ d.totpSecret \in proven'
    BY <1>2, <1>3 DEF Grows
  <2>2. AccountInv'
    BY <1>1, <1>2, <1>3, <1>4, <2>1, Inserted
  <2>3. Proper(c, BrowserOf[t], Vouched', coded', drawn') /\ Apart(c)
    BY PreregDropped
  <2> HIDE DEF c
  <2>4. Sound([Idle EXCEPT !.at = "page", !.set = c], BrowserOf[t], Vouched', coded', proven', drawn')
    BY <2>3, AnswerSound
  <2> QED
    BY <1>1, <1>3, <1>4, <2>2, <2>4, Assemble DEF Answer
<1>5. CASE Done(t) /\ UNCHANGED row
  BY <1>1, <1>3, <1>5, IdleSound, OnlyRequest DEF Done, accountVars
<1> QED
  BY <1>4, <1>5 DEF CreateAdminUser, d

LEMMA StepReset ==
    ASSUME IInv, NEW t \in Tab, NEW n \in Username, Reset(t, n)
    PROVE  IInv'
<1>1. /\ adminActs < MaxAdminActs /\ adminActs' = adminActs + 1
      /\ UNCHANGED <<row, raced, drawn, proofVars, Vouched, trapVars, jar, late>>
  BY DEF Reset, Vouched, proofVars, jarVars
<1>2. PICK i \in FindActive("real_employees", n) : Wait(t, "reset", i, row[i])
  BY DEF Reset
<1>3. i \in Id /\ Exists(i)
  BY DEF FindActive, Find
<1>4. adminActs \in 0..MaxAdminActs
  BY DEF IInv, AccountInv
<1>5. adminActs' \in 0..MaxAdminActs
  BY <1>1, <1>4
<1>6. Grows /\ ProofInv' /\ TrapInv'
  BY <1>1, TrapsKept DEF Grows, IInv, ProofInv, proofVars
<1>7. AccountInv'
  BY <1>1, <1>5, <1>6, AccountsKept DEF IInv
<1> DEFINE r == [Idle EXCEPT !.at = "reset", !.id = i, !.doc = row[i]]
<1>8. req' = [req EXCEPT ![t] = r] /\ Sound(r, BrowserOf[t], Vouched, coded, proven, drawn)
  BY <1>2, <1>3, StepWait
<1> HIDE DEF r
<1>9. Sound(r, BrowserOf[t], Vouched', coded', proven', drawn')
  BY <1>1, <1>8 DEF proofVars
<1> QED
  BY <1>1, <1>6, <1>7, <1>8, <1>9, Assemble

LEMMA StepSaveReset ==
    ASSUME IInv, NEW t \in Tab, SaveReset(t)
    PROVE  IInv'
<1> DEFINE i == req[t].id
<1>1. req[t].at = "reset" /\ Done(t) /\ UNCHANGED <<adminActs, proven, passed, unissued,
                                                    Vouched, coded, trapVars, jar, late>>
  BY DEF SaveReset, Vouched, proofVars, jarVars
<1>2. i \in Id /\ req[t].doc \in Row
  BY <1>1, Claims DEF Claim
<1>3. TrapInv' /\ adminActs' \in 0..MaxAdminActs
  BY <1>1, TrapsKept DEF IInv, AccountInv
<1> HIDE DEF i
<1>4. CASE Exists(i)
  <2>1. PICK s \in Secret \ drawn :
          /\ Save(t, [row[i] EXCEPT !.totpSecret = s,
                                    !.totpEnabled = row[i].totpEnabled /\ ~req[t].doc.totpEnabled])
          /\ drawn' = drawn \cup {s}
    BY <1>4 DEF SaveReset, i
  <2> DEFINE d == [row[i] EXCEPT !.totpSecret = s,
                                 !.totpEnabled = row[i].totpEnabled /\ ~req[t].doc.totpEnabled]
  <2>2. Grows /\ ProofInv'
    BY <1>1, <2>1 DEF Grows, IInv, ProofInv
  <2>3. row[i] \in Row
    BY <1>2, <1>4, RowType
  <2>4. row[i].totpEnabled \in BOOLEAN /\ req[t].doc.totpEnabled \in BOOLEAN
    BY <1>2, <2>3 DEF Row
  <2> DEFINE e == row[i].totpEnabled /\ ~req[t].doc.totpEnabled
  <2>5. e \in BOOLEAN
    BY <2>4
  <2>6. d = [row[i] EXCEPT !.totpSecret = s, !.totpEnabled = e]
    OBVIOUS
  <2> HIDE DEF e
  <2>7. /\ d \in Row /\ d.store = row[i].store /\ d.username = row[i].username
        /\ d.totpSecret = s /\ d.totpEnabled = e
    BY <2>3, <2>5, <2>6 DEF Row
  <2>8. Save(t, d)
    BY <2>1
  <2> HIDE DEF d
  <2>9. TotpOf(row[i]) = TotpOf(req[t].doc) => ~d.totpEnabled
    BY <2>7 DEF TotpOf, e
  <2>10. d.totpSecret \in drawn' \cup {None}
    BY <2>1, <2>7
  <2>11. AccountInv'
    BY <1>2, <1>3, <1>4, <2>2, <2>7, <2>8, <2>9, <2>10, Saved DEF i
  <2> QED
    BY <1>1, <1>3, <2>2, <2>11, IdleSound, Assemble DEF Done
<1>5. CASE ~Exists(i)
  <2>1. UNCHANGED <<row, raced, drawn>>
    BY <1>5 DEF SaveReset, i
  <2> QED
    BY <1>1, <1>3, <2>1, IdleSound, OnlyRequest DEF Done, accountVars, proofVars
<1> QED
  BY <1>4, <1>5

LEMMA StepAdminister ==
    ASSUME IInv, NEW i \in Id, Administer(i)
    PROVE  IInv'
<1>1. /\ adminActs < MaxAdminActs /\ adminActs' = adminActs + 1 /\ Exists(i)
      /\ UNCHANGED <<req, raced, drawn, proofVars, Vouched, trapVars, jar, late>>
  BY DEF Administer, Vouched, proofVars, jarVars
<1>2. adminActs \in 0..MaxAdminActs /\ row \in [Id -> Row \cup {Unused, Gone}] /\ row[i] \in Row
  BY <1>1, RowType DEF IInv, AccountInv
<1>3. adminActs' \in 0..MaxAdminActs
  BY <1>1, <1>2
<1>4. Grows /\ ProofInv' /\ TrapInv'
  BY <1>1, TrapsKept DEF Grows, IInv, ProofInv, proofVars
<1>5. PICK d : /\ row' = [row EXCEPT ![i] = d]
               /\ \/ d = Gone
                  \/ /\ d \in Row /\ d.store = row[i].store /\ d.username = row[i].username
                     /\ d.totpSecret = row[i].totpSecret /\ d.totpEnabled = row[i].totpEnabled
  <2>1. CASE \E role \in {"admin", "user"} : row' = [row EXCEPT ![i] = [row[i] EXCEPT !.role = role]]
    <3>1. PICK role \in {"admin", "user"} : row' = [row EXCEPT ![i] = [row[i] EXCEPT !.role = role]]
      BY <2>1
    <3> DEFINE d == [row[i] EXCEPT !.role = role]
    <3>2. /\ d \in Row /\ d.store = row[i].store /\ d.username = row[i].username
          /\ d.totpSecret = row[i].totpSecret /\ d.totpEnabled = row[i].totpEnabled
      BY <1>2 DEF Row
    <3> QED
      BY <3>1, <3>2
  <2>2. CASE row' = [row EXCEPT ![i] = [row[i] EXCEPT !.isActive = ~row[i].isActive]]
    <3> DEFINE d == [row[i] EXCEPT !.isActive = ~row[i].isActive]
    <3>1. /\ d \in Row /\ d.store = row[i].store /\ d.username = row[i].username
          /\ d.totpSecret = row[i].totpSecret /\ d.totpEnabled = row[i].totpEnabled
      BY <1>2 DEF Row
    <3> QED
      BY <2>2, <3>1
  <2>3. CASE row' = [row EXCEPT ![i] = Gone]
    BY <2>3
  <2> QED
    BY <2>1, <2>2, <2>3 DEF Administer
<1>6. /\ row' \in [Id -> Row \cup {Unused, Gone}] /\ row'[i] = d
      /\ \A j \in Id \ {i} : row'[j] = row[j]
  BY <1>2, <1>5
<1>7. \A j \in Id : Exists(j)' => /\ Exists(j) /\ row'[j].store = row[j].store
                                /\ row'[j].username = row[j].username
                                /\ row'[j].totpSecret = row[j].totpSecret
                                /\ row'[j].totpEnabled = row[j].totpEnabled
  BY <1>1, <1>5, <1>6 DEF Exists
<1>8. UNCHANGED <<raced, drawn, proven>>
  BY <1>1 DEF proofVars
<1>9. AccountInv'
  <2>1. UsernamesUnique'
    BY <1>7 DEF IInv, AccountInv, UsernamesUnique
  <2>2. EnabledIsProven'
    BY <1>7, <1>8 DEF IInv, AccountInv, EnabledIsProven
  <2>3. \A j \in Id : Exists(j)' => row'[j].totpSecret \in drawn' \cup {None}
    BY <1>7, <1>8 DEF IInv, AccountInv
  <2> QED
    BY <1>3, <1>6, <1>8, <2>1, <2>2, <2>3 DEF IInv, AccountInv
<1> QED
  BY <1>1, <1>4, <1>9, ReqKept, JarKept DEF IInv

------------------------------------------------------------------------------
(***************************************************************************)
(* The theorems.                                                           *)
(***************************************************************************)
LEMMA StepInv == IInv /\ [Next]_vars => IInv'
<1> SUFFICES ASSUME IInv, [Next]_vars PROVE IInv'
  OBVIOUS
<1>1. CASE UNCHANGED vars
  <2>1. UNCHANGED <<req, row, drawn, adminActs, raced, proven, passed, unissued, Vouched,
                    coded, trapVars, jar, late>>
    BY <1>1 DEF vars, accountVars, proofVars, Vouched, jarVars
  <2>2. Grows /\ ProofInv' /\ adminActs' \in 0..MaxAdminActs
    BY <2>1, GrowsKept DEF IInv, ProofInv, AccountInv
  <2> QED
    BY <2>1, <2>2, ReqKept, JarKept, AccountsKept, TrapsKept DEF IInv
<1>2. ASSUME NEW t \in Tab, WrongPassword(t) PROVE IInv'
  BY <1>2, StepFail DEF WrongPassword, jarVars
<1>3. ASSUME NEW t \in Tab,
             \/ Deliver(t) \/ Lose(t) \/ logoutUser(t) \/ Logout(t) \/ Exchange(t)
             \/ FindEmployee(t) \/ RightPassword(t) \/ DrawSecret(t)
      PROVE  IInv'
  BY <1>3, StepDeliver, StepAnswer, StepFindEmployee, StepRightPassword, StepDraw
<1>4. ASSUME NEW t \in Tab,
             \/ SaveUser(t) \/ verifyRegistrationOtp(t) \/ WrongCode(t)
             \/ RightEnrollmentCode(t) \/ EnableTotp(t)
             \/ verifyLoginOtp(t) \/ RightCode(t)
      PROVE  IInv'
  BY <1>4, StepSaveUser, StepVerify, StepAnswer, StepEnrollmentCode, StepEnable, StepRightCode
<1>5. ASSUME NEW t \in Tab, VerifyRegistration(t) \/ CreateAdminUser(t) \/ SaveReset(t)
      PROVE  IInv'
  BY <1>5, StepVerifyRegistration, StepCreateAdmin, StepSaveReset
<1>6. ASSUME NEW t \in Tab, NEW n \in Username,
             loginUser(t, n) \/ createUser(t, n) \/ Register(t, n) \/ Reset(t, n)
      PROVE  IInv'
  BY <1>6, StepLogin, StepCreateUser, StepRegister, StepReset
<1>7. ASSUME NEW b \in Browser, Sweep(b) \/ Expire(b, "preauth") \/ Expire(b, "pre_reg")
      PROVE  IInv'
  BY <1>7, StepSweep, StepExpire
<1>8. ASSUME NEW i \in Id, Administer(i) PROVE IInv'
  BY <1>8, StepAdminister
<1> QED
  BY <1>1, <1>2, <1>3, <1>4, <1>5, <1>6, <1>7, <1>8 DEF Next

LEMMA Invariance == Spec => []IInv
BY InitInv, StepInv, PTL DEF Spec

------------------------------------------------------------------------------
(***************************************************************************)
(* A session, and a request for one, is of an account that is there, is    *)
(* active and has its name and role, unless the users panel overtook it.   *)
(***************************************************************************)
ActiveAs(i, d, rows) ==
    /\ rows[i] \notin {Unused, Gone} /\ rows[i].isActive
    /\ rows[i].username = d.username /\ rows[i].role = d.role

CurrentSession(s, rows) == s \in Session => ActiveAs(s.id, s, rows)

Current(r, rows) ==
    /\ r.at \in {"enrol", "enable", "code"} => ActiveAs(r.id, r.doc, rows)
    /\ CurrentSession(r.set["auth"], rows)

CurrentInv ==
    /\ overtaken \subseteq Tab \cup Browser
    /\ \A t \in Tab \ overtaken : Current(req[t], row)
    /\ \A b \in Browser \ overtaken : CurrentSession(jar[b]["auth"], row)

\* What everybody but the users panel leaves alone in a document.
SameAccounts ==
    \A i \in Id : Exists(i) =>
        /\ row'[i] \notin {Unused, Gone} /\ row'[i].isActive = row[i].isActive
        /\ row'[i].username = row[i].username /\ row'[i].role = row[i].role

LEMMA SessionKept ==
    ASSUME SameAccounts, NEW s, CurrentSession(s, row)
    PROVE  CurrentSession(s, row')
<1> SUFFICES ASSUME s \in Session PROVE ActiveAs(s.id, s, row')
  BY DEF CurrentSession
<1>1. s.id \in Id /\ ActiveAs(s.id, s, row)
  BY DEF Session, CurrentSession
<1> QED
  BY <1>1 DEF SameAccounts, ActiveAs, Exists

LEMMA CurrentKept ==
    ASSUME IInv, SameAccounts, NEW t \in Tab, Current(req[t], row)
    PROVE  Current(req[t], row')
<1>1. req[t].at \in {"enrol", "enable", "code"} => req[t].id \in Id
  BY Claims DEF Claim
<1>2. req[t].at \in {"enrol", "enable", "code"} => ActiveAs(req[t].id, req[t].doc, row')
  BY <1>1 DEF Current, SameAccounts, ActiveAs, Exists
<1> QED
  BY <1>2, SessionKept DEF Current

\* Nothing is claimed of the others, whether or not t is overtaken.
OthersAsBefore(t) ==
    /\ overtaken' \subseteq Tab \cup Browser
    /\ \A u \in (Tab \cup Browser) \ {t} : u \in overtaken => u \in overtaken'

LEMMA CurrentStep ==
    ASSUME IInv, CurrentInv, SameAccounts, NEW t \in Tab, NEW r, req' = [req EXCEPT ![t] = r],
           UNCHANGED jar, OthersAsBefore(t), t \notin overtaken' => Current(r, row')
    PROVE  CurrentInv'
<1>1. req \in [Tab -> Request]
  BY DEF IInv, ReqInv
<1>2. req'[t] = r /\ \A u \in Tab \ {t} : req'[u] = req[u]
  BY <1>1
<1>3. ASSUME NEW u \in Tab \ overtaken'
      PROVE  Current(req'[u], row')
  <2>1. CASE u = t
    BY <1>2, <1>3, <2>1
  <2>2. CASE u # t
    <3>1. u \notin overtaken
      BY <1>3, <2>2 DEF OthersAsBefore
    <3>2. Current(req[u], row)
      BY <1>3, <3>1 DEF CurrentInv
    <3> QED
      BY <1>2, <1>3, <2>2, <3>2, CurrentKept
  <2> QED
    BY <2>1, <2>2
<1>4. ASSUME NEW b \in Browser \ overtaken'
      PROVE  CurrentSession(jar'[b]["auth"], row')
  <2>1. b # t /\ b \notin overtaken
    BY <1>4 DEF OthersAsBefore
  <2> QED
    BY <1>4, <2>1, SessionKept DEF CurrentInv
<1> QED
  BY <1>3, <1>4 DEF CurrentInv, OthersAsBefore

LEMMA RowsKept == UNCHANGED row => SameAccounts
BY DEF SameAccounts, Exists

LEMMA RowsInserted ==
    ASSUME IInv, NEW i \in Id, NEW d, Insert(d, i)
    PROVE  SameAccounts
BY DEF Insert, IInv, AccountInv, SameAccounts, Exists

LEMMA RowsSaved ==
    ASSUME IInv, NEW t \in Tab, NEW i \in Id, i = req[t].id, Exists(i), NEW d, Save(t, d),
           d \in Row, d.isActive = row[i].isActive, d.username = row[i].username,
           d.role = row[i].role
    PROVE  SameAccounts
<1>1. row' = [row EXCEPT ![i] = d]
  BY DEF Save
<1>2. d \notin {Unused, Gone}
  OBVIOUS
<1> QED
  BY <1>1, <1>2 DEF IInv, AccountInv, SameAccounts, Exists

\* A request that neither is for a session nor answered with one.
Plain(r) == r.at \notin {"enrol", "enable", "code"} /\ r.set["auth"] \notin Session
ToPlain(t) == \E r : req' = [req EXCEPT ![t] = r] /\ Plain(r)

LEMMA PlainStep ==
    ASSUME IInv, CurrentInv, SameAccounts, NEW t \in Tab, ToPlain(t), UNCHANGED jar,
           OthersAsBefore(t)
    PROVE  CurrentInv'
<1>1. PICK r : req' = [req EXCEPT ![t] = r] /\ Plain(r)
  BY DEF ToPlain
<1>2. Current(r, row')
  BY <1>1 DEF Plain, Current, CurrentSession
<1> QED
  BY <1>1, <1>2, CurrentStep

LEMMA OvertakenKept ==
    ASSUME CurrentInv, NEW t \in Tab, UNCHANGED overtaken \/ overtaken' = overtaken \ {t}
    PROVE  OthersAsBefore(t)
BY DEF CurrentInv, OthersAsBefore

\* No answer but those of a code brings a session.
LEMMA NoSession ==
    /\ Keep \notin Session /\ None \notin Session
    /\ NoCookies["auth"] = Keep /\ Cleared["auth"] = None
    /\ \A v : /\ [Cleared EXCEPT !["preauth"] = v]["auth"] = None
              /\ [NoCookies EXCEPT !["preauth"] = v]["auth"] = Keep
              /\ [NoCookies EXCEPT !["pre_reg"] = v]["auth"] = Keep
              /\ [NoCookies EXCEPT !["admin_auth"] = v]["auth"] = Keep
<1>1. NoCookies["auth"] = Keep /\ Cleared["auth"] = None
  BY DEF NoCookies, Cleared, Cookie
<1>2. "auth" \in Cookie /\ "auth" # "preauth" /\ "auth" # "pre_reg" /\ "auth" # "admin_auth"
  BY DEF Cookie
<1>3. DOMAIN NoCookies = Cookie /\ DOMAIN Cleared = Cookie
  BY DEF NoCookies, Cleared
<1> QED
  BY <1>1, <1>2, <1>3, ValueType

LEMMA IdlePlain == Plain(Idle)
BY NoSession DEF Idle, Plain

LEMMA DonePlain == ASSUME NEW t \in Tab, Done(t) PROVE ToPlain(t)
BY IdlePlain DEF Done, ToPlain

LEMMA AnswerPlain ==
    ASSUME NEW t \in Tab, NEW c, Answer(t, c), c["auth"] \notin Session
    PROVE  ToPlain(t)
<1> DEFINE r == [Idle EXCEPT !.at = "page", !.set = c]
<1>1. req' = [req EXCEPT ![t] = r]
  BY DEF Answer
<1>2. Plain(r)
  BY DEF Idle, Plain
<1> HIDE DEF r
<1> QED
  BY <1>1, <1>2 DEF ToPlain

LEMMA WaitPlain ==
    ASSUME NEW t \in Tab, NEW at, at \notin {"enrol", "enable", "code"}, NEW i, NEW d,
           Wait(t, at, i, d)
    PROVE  ToPlain(t)
<1> DEFINE r == [Idle EXCEPT !.at = at, !.id = i, !.doc = d]
<1>1. req' = [req EXCEPT ![t] = r]
  BY DEF Wait
<1>2. Plain(r)
  BY NoSession DEF Idle, Plain
<1> HIDE DEF r
<1> QED
  BY <1>1, <1>2 DEF ToPlain

LEMMA FailPlain == ASSUME IInv, NEW t \in Tab, failLogin(t) PROVE ToPlain(t)
<1>1. PICK at \in {"page", "console"} :
        req' = [req EXCEPT ![t] = [Idle EXCEPT !.at = at, !.set = Cleared]]
  BY FailLogin
<1> DEFINE r == [Idle EXCEPT !.at = at, !.set = Cleared]
<1>2. Plain(r)
  BY NoSession DEF Idle, Plain
<1> HIDE DEF r
<1> QED
  BY <1>1, <1>2 DEF ToPlain, r

\* The steps that read or write no document that a session is made from.
LEMMA PlainRequests ==
    ASSUME IInv, CurrentInv, NEW t \in Tab,
           \/ Lose(t) \/ WrongCode(t) \/ logoutUser(t) \/ Logout(t) \/ Exchange(t)
           \/ FindEmployee(t) \/ WrongPassword(t) \/ RightPassword(t) \/ VerifyRegistration(t)
           \/ \E n \in Username : loginUser(t, n) \/ createUser(t, n) \/ Register(t, n) \/ Reset(t, n)
    PROVE  CurrentInv'
<1>1. UNCHANGED <<row, jar>> /\ (UNCHANGED overtaken \/ overtaken' = overtaken \ {t})
  BY DEF Lose, WrongCode, logoutUser, Logout, Exchange, FindEmployee, WrongPassword,
         RightPassword, VerifyRegistration, loginUser, createUser, Register, Reset,
         accountVars, jarVars
<1>2. SameAccounts /\ OthersAsBefore(t)
  BY <1>1, RowsKept, OvertakenKept
<1>3. CASE Lose(t) \/ WrongCode(t)
  BY <1>1, <1>2, <1>3, IdlePlain, DonePlain, PlainStep DEF Lose, WrongCode, ToPlain
<1>4. CASE logoutUser(t) \/ Logout(t) \/ Exchange(t)
  BY <1>1, <1>2, <1>4, NoSession, AnswerPlain, PlainStep DEF logoutUser, Logout, Exchange
<1>5. CASE WrongPassword(t)
  BY <1>1, <1>2, <1>5, FailPlain, PlainStep DEF WrongPassword
<1>6. CASE FindEmployee(t)
  <2>1. failLogin(t) \/ \E i \in Id : Wait(t, "password", i, row[i])
    BY <1>6 DEF FindEmployee, FindActive, Find
  <2>2. ToPlain(t)
    BY <2>1, FailPlain, WaitPlain
  <2> QED
    BY <1>1, <1>2, <2>2, PlainStep
<1>7. CASE RightPassword(t)
  <2>1. req[t].at = "password" /\ req[t].doc.totpEnabled \in BOOLEAN
    BY <1>7, Claims DEF RightPassword, Claim, Row
  <2>2. (\E v : Answer(t, [Cleared EXCEPT !["preauth"] = v])) \/ Answer(t, Cleared)
          \/ Wait(t, "draw", req[t].id, req[t].doc)
    BY <1>7, <2>1 DEF RightPassword
  <2>3. ToPlain(t)
    BY <2>2, NoSession, AnswerPlain, WaitPlain
  <2> QED
    BY <1>1, <1>2, <2>3, PlainStep
<1>8. CASE VerifyRegistration(t)
  <2>1. ToPlain(t)
    BY <1>8, WaitPlain DEF VerifyRegistration
  <2> QED
    BY <1>1, <1>2, <2>1, PlainStep
<1>9. ASSUME NEW n \in Username, loginUser(t, n) PROVE CurrentInv'
  <2> DEFINE r == [Idle EXCEPT !.at = "employee", !.username = n]
  <2>1. (\E i \in Id : Wait(t, "password", i, row[i])) \/ req' = [req EXCEPT ![t] = r]
    BY <1>9 DEF loginUser, FindActive, Find
  <2>2. Plain(r)
    BY NoSession DEF Idle, Plain
  <2> HIDE DEF r
  <2>3. ToPlain(t)
    BY <2>1, <2>2, WaitPlain DEF ToPlain
  <2> QED
    BY <1>1, <1>2, <2>3, PlainStep
<1>10. ASSUME NEW n \in Username, createUser(t, n) \/ Register(t, n) \/ Reset(t, n)
       PROVE  CurrentInv'
  <2>1. (\E d : Wait(t, "register", None, d))
          \/ (\E v : Answer(t, [NoCookies EXCEPT !["pre_reg"] = v]))
          \/ (\E i : Wait(t, "reset", i, row[i]))
    BY <1>10 DEF createUser, Register, Reset
  <2>2. ToPlain(t)
    BY <2>1, NoSession, AnswerPlain, WaitPlain
  <2> QED
    BY <1>1, <1>2, <2>2, PlainStep
<1> QED
  BY <1>3, <1>4, <1>5, <1>6, <1>7, <1>8, <1>9, <1>10

\* The steps that save another part of a document, or insert one.
LEMMA PlainSaves ==
    ASSUME IInv, CurrentInv, NEW t \in Tab,
           DrawSecret(t) \/ SaveUser(t) \/ CreateAdminUser(t) \/ SaveReset(t)
    PROVE  CurrentInv'
<1>1. UNCHANGED <<jar, overtaken>>
  BY DEF DrawSecret, SaveUser, CreateAdminUser, SaveReset, jarVars
<1>2. OthersAsBefore(t)
  BY <1>1, OvertakenKept
<1>3. CASE SaveUser(t) \/ CreateAdminUser(t)
  <2>1. SameAccounts
    BY <1>3, RowsInserted, RowsKept DEF SaveUser, CreateAdminUser
  <2>2. Done(t) \/ \E v : \/ Answer(t, [NoCookies EXCEPT !["preauth"] = v])
                          \/ Answer(t, [NoCookies EXCEPT !["pre_reg"] = v])
    BY <1>3 DEF SaveUser, CreateAdminUser
  <2>3. ToPlain(t)
    BY <2>2, NoSession, AnswerPlain, DonePlain
  <2> QED
    BY <1>1, <1>2, <2>1, <2>3, PlainStep
<1> DEFINE i == req[t].id
<1>4. CASE DrawSecret(t)
  <2>1. i \in Id
    BY <1>4, Claims DEF DrawSecret, Claim
  <2>2. SameAccounts
    <3>1. CASE Exists(i)
      <4>1. PICK s \in Secret : Save(t, [row[i] EXCEPT !.totpSecret = s])
        BY <1>4, <3>1 DEF DrawSecret
      <4> DEFINE d == [row[i] EXCEPT !.totpSecret = s]
      <4>2. row[i] \in Row
        BY <2>1, <3>1, RowType
      <4>3. d \in Row /\ d.isActive = row[i].isActive /\ d.username = row[i].username
            /\ d.role = row[i].role
        BY <4>2 DEF Row
      <4>4. Save(t, d)
        BY <4>1
      <4> HIDE DEF d
      <4> QED
        BY <2>1, <3>1, <4>3, <4>4, RowsSaved
    <3>2. CASE ~Exists(i)
      BY <1>4, <3>2, RowsKept DEF DrawSecret
    <3> QED
      BY <3>1, <3>2
  <2>3. Answer(t, Cleared) \/ \E v : Answer(t, [Cleared EXCEPT !["preauth"] = v])
    BY <1>4 DEF DrawSecret
  <2>4. ToPlain(t)
    BY <2>3, NoSession, AnswerPlain
  <2> QED
    BY <1>1, <1>2, <2>2, <2>4, PlainStep
<1>5. CASE SaveReset(t)
  <2>1. i \in Id /\ req[t].doc \in Row
    BY <1>5, Claims DEF SaveReset, Claim
  <2>2. SameAccounts
    <3>1. CASE Exists(i)
      <4> DEFINE e == row[i].totpEnabled /\ ~req[t].doc.totpEnabled
      <4>1. PICK s \in Secret : Save(t, [row[i] EXCEPT !.totpSecret = s, !.totpEnabled = e])
        BY <1>5, <3>1 DEF SaveReset
      <4> DEFINE d == [row[i] EXCEPT !.totpSecret = s, !.totpEnabled = e]
      <4>2. row[i] \in Row
        BY <2>1, <3>1, RowType
      <4>3. e \in BOOLEAN
        BY <2>1, <4>2 DEF Row
      <4> HIDE DEF e
      <4>4. d \in Row /\ d.isActive = row[i].isActive /\ d.username = row[i].username
            /\ d.role = row[i].role
        BY <4>2, <4>3 DEF Row
      <4>5. Save(t, d)
        BY <4>1
      <4> HIDE DEF d
      <4> QED
        BY <2>1, <3>1, <4>4, <4>5, RowsSaved
    <3>2. CASE ~Exists(i)
      BY <1>5, <3>2, RowsKept DEF SaveReset
    <3> QED
      BY <3>1, <3>2
  <2>3. ToPlain(t)
    BY <1>5, DonePlain DEF SaveReset
  <2> QED
    BY <1>1, <1>2, <2>2, <2>3, PlainStep
<1> QED
  BY <1>3, <1>4, <1>5

\* The request with a code reads the account; a sign-in goes on only if it is active, and an
\* enrollment that does not ask is overtaken from the start.
LEMMA CurrentVerify ==
    ASSUME IInv, CurrentInv, NEW t \in Tab, verifyRegistrationOtp(t) \/ verifyLoginOtp(t)
    PROVE  CurrentInv'
<1>1. UNCHANGED <<row, jar>>
  BY DEF verifyRegistrationOtp, verifyLoginOtp, accountVars, jarVars
<1>2. PICK pre \in Presented(BrowserOf[t]), at \in {"enrol", "code"} :
        /\ Exists(pre.id) /\ Wait(t, at, pre.id, row[pre.id])
        /\ \/ UNCHANGED overtaken /\ row[pre.id].isActive
           \/ overtaken' = overtaken \cup {t}
  BY DEF verifyRegistrationOtp, verifyLoginOtp, Admits, AskCode, jarVars
<1> DEFINE r == [Idle EXCEPT !.at = at, !.id = pre.id, !.doc = row[pre.id]]
<1>3. req' = [req EXCEPT ![t] = r]
  BY <1>2 DEF Wait
<1>4. r.id = pre.id /\ r.doc = row[pre.id] /\ r.set["auth"] \notin Session
  BY NoSession DEF Idle
<1> HIDE DEF r
<1>5. t \notin overtaken' => Current(r, row')
  BY <1>1, <1>2, <1>4 DEF Current, CurrentSession, ActiveAs, Exists
<1>6. OthersAsBefore(t)
  BY <1>2 DEF CurrentInv, OthersAsBefore
<1> QED
  BY <1>1, <1>3, <1>5, <1>6, RowsKept, CurrentStep

\* The session is made from the document as it was read.
LEMMA SessionCurrent ==
    ASSUME NEW i \in Id, NEW d \in Row, ActiveAs(i, d, row), SameAccounts
    PROVE  /\ CurrentSession(EmployeeCookies(i, d)["auth"], row')
           /\ d.role = "admin" =>
                CurrentSession([NoCookies EXCEPT !["preauth"] = None,
                                  !["auth"] = [id |-> i, username |-> d.username,
                                               role |-> "admin"]]["auth"], row')
<1> DEFINE v == [id |-> i, username |-> d.username, role |-> d.role]
           w == [id |-> i, username |-> d.username, role |-> "admin"]
           o == [NoCookies EXCEPT !["preauth"] = None, !["auth"] = w]
<1>1. DOMAIN NoCookies = Cookie /\ "auth" \in Cookie
  BY DEF NoCookies, Cookie
<1>2. EmployeeCookies(i, d)["auth"] = v
  BY <1>1 DEF EmployeeCookies
<1>3. o["auth"] = w
  BY <1>1
<1>4. ActiveAs(i, d, row')
  BY DEF SameAccounts, ActiveAs, Exists
<1>5. CurrentSession(v, row')
  BY <1>4 DEF CurrentSession, ActiveAs
<1>6. d.role = "admin" => CurrentSession(w, row')
  BY <1>4 DEF CurrentSession, ActiveAs
<1> QED
  BY <1>2, <1>3, <1>5, <1>6

LEMMA CurrentCode ==
    ASSUME IInv, CurrentInv, NEW t \in Tab, RightEnrollmentCode(t) \/ EnableTotp(t) \/ RightCode(t)
    PROVE  CurrentInv'
<1> DEFINE i == req[t].id
           d == req[t].doc
<1>1. /\ UNCHANGED jar /\ (UNCHANGED overtaken \/ overtaken' = overtaken \ {t})
      /\ req[t].at \in {"enrol", "enable", "code"}
  BY DEF RightEnrollmentCode, EnableTotp, RightCode, jarVars
<1>2. i \in Id /\ d \in Row /\ OthersAsBefore(t)
  BY <1>1, Claims, OvertakenKept DEF Claim
<1>3. t \notin overtaken => ActiveAs(i, d, row)
  BY <1>1 DEF CurrentInv, Current
<1>4. CASE RightEnrollmentCode(t)
  <2> DEFINE r == [Idle EXCEPT !.at = "enable", !.id = i, !.doc = d]
  <2>1. req' = [req EXCEPT ![t] = r] /\ UNCHANGED <<row, overtaken>>
    BY <1>4 DEF RightEnrollmentCode, Wait, accountVars, jarVars
  <2>2. r.id = i /\ r.doc = d /\ r.set["auth"] \notin Session
    BY NoSession DEF Idle
  <2> HIDE DEF r, i, d
  <2>3. t \notin overtaken' => Current(r, row')
    BY <1>3, <2>1, <2>2 DEF Current, CurrentSession
  <2> QED
    BY <1>1, <1>2, <2>1, <2>3, RowsKept, CurrentStep
<1>5. CASE EnableTotp(t) /\ ~Exists(i)
  <2>1. Done(t) /\ UNCHANGED row
    BY <1>5 DEF EnableTotp
  <2> QED
    BY <1>1, <1>2, <2>1, RowsKept, DonePlain, PlainStep
<1>6. CASE EnableTotp(t) /\ Exists(i)
  <2>1. Answer(t, EmployeeCookies(i, d)) /\ UNCHANGED overtaken
    BY <1>6 DEF EnableTotp
  <2>2. SameAccounts
    <3> DEFINE e == [row[i] EXCEPT !.totpEnabled = TRUE]
    <3>1. UNCHANGED row \/ Save(t, e)
      BY <1>6 DEF EnableTotp
    <3>2. row[i] \in Row
      BY <1>2, <1>6, RowType
    <3>3. e \in Row /\ e.isActive = row[i].isActive /\ e.username = row[i].username
          /\ e.role = row[i].role
      BY <3>2 DEF Row
    <3> HIDE DEF e
    <3> QED
      BY <1>2, <1>6, <3>1, <3>3, RowsKept, RowsSaved
  <2> DEFINE c == EmployeeCookies(i, d)
             r == [Idle EXCEPT !.at = "page", !.set = c]
  <2>3. req' = [req EXCEPT ![t] = r]
    BY <2>1 DEF Answer
  <2>4. t \notin overtaken => CurrentSession(c["auth"], row')
    BY <1>2, <1>3, <2>2, SessionCurrent
  <2> HIDE DEF c
  <2>5. r.at = "page" /\ r.set = c
    BY DEF Idle
  <2> HIDE DEF r
  <2>6. t \notin overtaken' => Current(r, row')
    BY <2>1, <2>4, <2>5 DEF Current
  <2> QED
    BY <1>1, <1>2, <2>2, <2>3, <2>6, CurrentStep
<1>7. CASE RightCode(t)
  <2>1. UNCHANGED <<row, overtaken>>
    BY <1>7 DEF RightCode, accountVars, jarVars
  <2>2. SameAccounts
    BY <2>1, RowsKept
  <2>3. CASE d.role = "admin"
    <3> DEFINE c == [NoCookies EXCEPT !["preauth"] = None,
                       !["auth"] = [id |-> i, username |-> d.username, role |-> "admin"]]
               r == [Idle EXCEPT !.at = "exchange", !.username = d.username, !.set = c]
    <3>1. req' = [req EXCEPT ![t] = r]
      BY <1>7, <2>3 DEF RightCode, AnswerOperator
    <3>2. t \notin overtaken => CurrentSession(c["auth"], row')
      BY <1>2, <1>3, <2>2, <2>3, SessionCurrent
    <3> HIDE DEF c
    <3>3. r.at = "exchange" /\ r.set = c
      BY DEF Idle
    <3> HIDE DEF r
    <3>4. t \notin overtaken' => Current(r, row')
      BY <2>1, <3>2, <3>3 DEF Current
    <3> QED
      BY <1>1, <1>2, <2>2, <3>1, <3>4, CurrentStep
  <2>4. CASE d.role # "admin"
    <3> DEFINE c == EmployeeCookies(i, d)
               r == [Idle EXCEPT !.at = "page", !.set = c]
    <3>1. req' = [req EXCEPT ![t] = r]
      BY <1>7, <2>4 DEF RightCode, Answer
    <3>2. t \notin overtaken => CurrentSession(c["auth"], row')
      BY <1>2, <1>3, <2>2, SessionCurrent
    <3> HIDE DEF c
    <3>3. r.at = "page" /\ r.set = c
      BY DEF Idle
    <3> HIDE DEF r
    <3>4. t \notin overtaken' => Current(r, row')
      BY <2>1, <3>2, <3>3 DEF Current
    <3> QED
      BY <1>1, <1>2, <2>2, <3>1, <3>4, CurrentStep
  <2> QED
    BY <2>3, <2>4
<1> QED
  BY <1>4, <1>5, <1>6, <1>7

\* A session that arrives is as current as the answer was.
LEMMA CurrentDeliver ==
    ASSUME IInv, CurrentInv, NEW t \in Tab, Deliver(t)
    PROVE  CurrentInv'
<1> DEFINE b == BrowserOf[t]
           a == req[t]
           cookies == [c \in Cookie |-> IF a.set[c] = Keep THEN jar[b][c] ELSE a.set[c]]
           r == IF a.at = "exchange" THEN [Idle EXCEPT !.at = "exchanging", !.username = a.username]
                ELSE Idle
<1>1. /\ UNCHANGED row /\ jar' = [jar EXCEPT ![b] = cookies] /\ req' = [req EXCEPT ![t] = r]
      /\ overtaken' = IF a.set["auth"] = Keep THEN overtaken
                      ELSE IF t \in overtaken THEN (overtaken \ {t}) \cup {b}
                      ELSE overtaken \ {b}
  BY DEF Deliver, accountVars
<1>2. /\ b \in Browser /\ b # t /\ overtaken \subseteq Tab \cup Browser
      /\ req \in [Tab -> Request] /\ jar \in [Browser -> [Cookie -> Value]]
  BY DEF IInv, ReqInv, JarInv, CurrentInv
<1>3. cookies["auth"] = IF a.set["auth"] = Keep THEN jar[b]["auth"] ELSE a.set["auth"]
  BY CookieNames
<1>4. Plain(r)
  BY NoSession DEF Idle, Plain
<1> HIDE DEF r, cookies
<1>5. ASSUME NEW u \in Tab \ overtaken'
      PROVE  Current(req'[u], row')
  <2>1. CASE u = t
    BY <1>1, <1>2, <1>4, <2>1 DEF Plain, Current, CurrentSession
  <2>2. CASE u # t
    <3>1. u # b
      BY <1>2, <1>5
    <3>2. u \notin overtaken /\ req'[u] = req[u]
      BY <1>1, <1>2, <1>5, <2>2, <3>1
    <3> QED
      BY <1>1, <1>5, <3>2 DEF CurrentInv
  <2> QED
    BY <2>1, <2>2
<1>6. ASSUME NEW v \in Browser \ overtaken'
      PROVE  CurrentSession(jar'[v]["auth"], row')
  <2>1. CASE v = b
    <3>1. jar'[v]["auth"] = cookies["auth"]
      BY <1>1, <1>2, <2>1
    <3>2. CASE a.set["auth"] = Keep
      BY <1>1, <1>2, <1>3, <1>6, <2>1, <3>1, <3>2 DEF CurrentInv
    <3>3. CASE a.set["auth"] # Keep
      <4>1. t \notin overtaken
        BY <1>1, <1>6, <2>1, <3>3
      <4>2. CurrentSession(a.set["auth"], row)
        BY <4>1 DEF CurrentInv, Current
      <4> QED
        BY <1>1, <1>3, <3>1, <3>3, <4>2
    <3> QED
      BY <3>2, <3>3
  <2>2. CASE v # b
    <3>1. v # t
      BY <1>6
    <3>2. v \notin overtaken /\ jar'[v] = jar[v]
      BY <1>1, <1>2, <1>6, <2>2, <3>1
    <3> QED
      BY <1>1, <1>6, <3>2 DEF CurrentInv
  <2> QED
    BY <2>1, <2>2
<1>7. overtaken' \subseteq Tab \cup Browser
  BY <1>1, <1>2
<1> QED
  BY <1>5, <1>6, <1>7 DEF CurrentInv

\* Whom the users panel changes, of him no session and no request for one is current any more.
LEMMA CurrentAdminister ==
    ASSUME IInv, CurrentInv, NEW i \in Id, Administer(i)
    PROVE  CurrentInv'
<1>1. /\ UNCHANGED <<req, jar>>
      /\ overtaken' = overtaken \cup {t \in Tab : LeadsToSession(t, i)}
                                \cup {b \in Browser : IsSessionOf(jar[b]["auth"], i)}
  BY DEF Administer
<1>2. \A j \in Id \ {i} : row'[j] = row[j]
  BY DEF Administer, IInv, AccountInv
<1>3. ASSUME NEW s, CurrentSession(s, row), ~IsSessionOf(s, i)
      PROVE  CurrentSession(s, row')
  BY <1>2, <1>3, ValueType DEF CurrentSession, IsSessionOf, ActiveAs, Session
<1>4. ASSUME NEW t \in Tab \ overtaken'
      PROVE  Current(req'[t], row')
  <2>1. Current(req[t], row) /\ ~LeadsToSession(t, i)
    BY <1>1, <1>4 DEF CurrentInv
  <2>2. req[t].at \in {"enrol", "enable", "code"} => req[t].id \in Id \ {i}
    BY <1>4, <2>1, Claims DEF Claim, LeadsToSession
  <2>3. CurrentSession(req[t].set["auth"], row')
    BY <1>3, <2>1 DEF Current, LeadsToSession
  <2> QED
    BY <1>1, <1>2, <2>1, <2>2, <2>3 DEF Current, ActiveAs
<1>5. ASSUME NEW b \in Browser \ overtaken'
      PROVE  CurrentSession(jar'[b]["auth"], row')
  BY <1>1, <1>3, <1>5 DEF CurrentInv
<1>6. overtaken' \subseteq Tab \cup Browser
  BY <1>1 DEF CurrentInv
<1> QED
  BY <1>4, <1>5, <1>6 DEF CurrentInv

LEMMA CurrentBrowser ==
    ASSUME IInv, CurrentInv, NEW b \in Browser,
           Sweep(b) \/ Expire(b, "preauth") \/ Expire(b, "pre_reg")
    PROVE  CurrentInv'
<1>1. UNCHANGED <<req, row, overtaken>>
  BY DEF Sweep, Expire, accountVars, jarVars
<1>2. jar \in [Browser -> [Cookie -> Value]]
  BY DEF IInv, JarInv
<1>3. \A c \in Browser : jar'[c]["auth"] = jar[c]["auth"]
  BY <1>2, CookieNames DEF Sweep, Expire, jarVars
<1> QED
  BY <1>1, <1>3 DEF CurrentInv

LEMMA InitCurrent == Init => CurrentInv
<1> SUFFICES ASSUME Init PROVE CurrentInv
  OBVIOUS
<1>1. overtaken = {} /\ \A t \in Tab : req[t] = Idle
  BY DEF Init
<1>2. \A b \in Browser : jar[b]["auth"] = None
  BY CookieNames DEF Init
<1>3. Current(Idle, row) /\ CurrentSession(None, row)
  BY IdlePlain, NoSession DEF Plain, Current, CurrentSession
<1> QED
  BY <1>1, <1>2, <1>3 DEF CurrentInv

LEMMA StaysCurrent == Spec => []CurrentInv
<1>1. IInv /\ CurrentInv /\ [Next]_vars => CurrentInv'
  <2> SUFFICES ASSUME IInv, CurrentInv, [Next]_vars PROVE CurrentInv'
    OBVIOUS
  <2>1. CASE UNCHANGED vars
    BY <2>1 DEF vars, accountVars, jarVars, CurrentInv
  <2>2. CASE Next
    BY <2>2, CurrentDeliver, PlainRequests, PlainSaves, CurrentVerify, CurrentCode,
       CurrentBrowser, CurrentAdminister DEF Next
  <2> QED
    BY <2>1, <2>2
<1> QED
  BY <1>1, InitCurrent, Invariance, PTL DEF Spec

\* Every variable keeps its type, whatever is lost, late or overtaken.
THEOREM TypeCorrect == Spec => []TypeOK
<1>1. IInv /\ CurrentInv => TypeOK
  BY DEF IInv, ReqInv, JarInv, AccountInv, ProofInv, TrapInv, CurrentInv, TypeOK
<1> QED
  BY <1>1, Invariance, StaysCurrent, PTL

\* A name belongs to one account of a store, although the registrations look for it and
\* insert the account later (createUser, register/verify-otp).
THEOREM UsernamesUniqueHolds == Spec => []UsernamesUnique
<1>1. IInv => UsernamesUnique
  BY DEF IInv, AccountInv
<1> QED
  BY <1>1, Invariance, PTL

\* The account of a session is one that a code was accepted for in that browser, after a
\* password or with a cookie that no answer had set, and the session is what the account was
\* when it last changed (loginUser, verifyLoginOtp, verifyRegistrationOtp).
THEOREM SessionIsEarnedHolds == Spec => []SessionIsEarned
<1>1. ASSUME IInv, CurrentInv PROVE SessionIsEarned
  <2> SUFFICES ASSUME NEW b \in Browser, jar[b]["auth"] # None
               PROVE  LET s == jar[b]["auth"] IN
                      /\ <<b, s.id>> \in coded /\ <<b, s.id>> \in passed \cup unissued
                      /\ b \notin overtaken =>
                           /\ Exists(s.id) /\ row[s.id].isActive
                           /\ row[s.id].username = s.username /\ row[s.id].role = s.role
    BY DEF SessionIsEarned
  <2>1. Proper(jar[b], b, Vouched, coded, drawn) /\ jar[b] \in [Cookie -> Value]
    BY <1>1 DEF IInv, JarInv
  <2>2. jar[b]["auth"] # Keep
    BY <2>1, CookieNames
  <2>3. jar[b]["auth"] \in Session
    BY <2>1, <2>2 DEF Proper
  <2>4. <<b, jar[b]["auth"].id>> \in Vouched \cap coded
    BY <2>1, <2>3 DEF Proper
  <2>5. b \notin overtaken => ActiveAs(jar[b]["auth"].id, jar[b]["auth"], row)
    BY <1>1, <2>3 DEF CurrentInv, CurrentSession
  <2> QED
    BY <2>4, <2>5 DEF Vouched, ActiveAs, Exists
<1> QED
  BY <1>1, Invariance, StaysCurrent, PTL

\* An enabled secret was confirmed by a code, unless another request saved in between
\* (save of the gateway's documents, reset-2fa).
THEOREM EnabledIsProvenHolds == Spec => []EnabledIsProven
<1>1. IInv => EnabledIsProven
  BY DEF IInv, AccountInv
<1> QED
  BY <1>1, Invariance, PTL

\* The panel takes an employee for himself, unless an exchange was answered after he had
\* signed in (clearAllAuthCookies, clearAdminAuthCookie).
THEOREM EmployeeIsHimselfHolds == Spec => []EmployeeIsHimselfUnlessLate
<1>1. IInv => EmployeeIsHimselfUnlessLate
  BY DEF IInv, JarInv
<1> QED
  BY <1>1, Invariance, PTL

------------------------------------------------------------------------------
(***************************************************************************)
(* The handoff: only a failed login leads to the console of the traps.     *)
(***************************************************************************)
NoHandoff == \A t \in Tab : req'[t].at = "console" => req[t].at = "console"

LEMMA Elsewhere ==
    ASSUME IInv, NEW t \in Tab, NEW r, req' = [req EXCEPT ![t] = r], r.at # "console"
    PROVE  NoHandoff
BY DEF IInv, ReqInv, NoHandoff

LEMMA IdleAt == Idle.at # "console"
BY DEF Idle

LEMMA DoneElsewhere == ASSUME IInv, NEW t \in Tab, Done(t) PROVE NoHandoff
BY Elsewhere, IdleAt DEF Done

LEMMA AnswerElsewhere == ASSUME IInv, NEW t \in Tab, NEW c, Answer(t, c) PROVE NoHandoff
<1> DEFINE r == [Idle EXCEPT !.at = "page", !.set = c]
<1>1. req' = [req EXCEPT ![t] = r]
  BY DEF Answer
<1>2. r.at # "console"
  BY DEF Idle
<1> HIDE DEF r
<1> QED
  BY <1>1, <1>2, Elsewhere

LEMMA WaitElsewhere ==
    ASSUME IInv, NEW t \in Tab, NEW at, at # "console", NEW i, NEW d, Wait(t, at, i, d)
    PROVE  NoHandoff
<1> DEFINE r == [Idle EXCEPT !.at = at, !.id = i, !.doc = d]
<1>1. req' = [req EXCEPT ![t] = r]
  BY DEF Wait
<1>2. r.at # "console"
  BY DEF Idle
<1> HIDE DEF r
<1> QED
  BY <1>1, <1>2, Elsewhere

LEMMA OperatorElsewhere ==
    ASSUME IInv, NEW t \in Tab, NEW i, NEW d, AnswerOperator(t, i, d)
    PROVE  NoHandoff
<1> DEFINE r == [Idle EXCEPT !.at = "exchange", !.username = d.username,
                   !.set = [NoCookies EXCEPT !["preauth"] = None,
                        !["auth"] = [id |-> i, username |-> d.username, role |-> "admin"]]]
<1>1. req' = [req EXCEPT ![t] = r]
  BY DEF AnswerOperator
<1>2. r.at # "console"
  BY DEF Idle
<1> HIDE DEF r
<1> QED
  BY <1>1, <1>2, Elsewhere

LEMMA OthersElsewhere ==
    ASSUME IInv, NEW t \in Tab,
           \/ Deliver(t) \/ Lose(t) \/ logoutUser(t) \/ Logout(t) \/ Exchange(t)
           \/ RightPassword(t) \/ DrawSecret(t)
           \/ SaveUser(t) \/ verifyRegistrationOtp(t) \/ WrongCode(t)
           \/ RightEnrollmentCode(t) \/ EnableTotp(t)
           \/ verifyLoginOtp(t) \/ RightCode(t)
           \/ VerifyRegistration(t) \/ CreateAdminUser(t) \/ SaveReset(t)
           \/ \E n \in Username : loginUser(t, n) \/ createUser(t, n) \/ Register(t, n) \/ Reset(t, n)
    PROVE  NoHandoff
<1>1. CASE Deliver(t)
  <2> DEFINE r == IF req[t].at = "exchange"
                    THEN [Idle EXCEPT !.at = "exchanging", !.username = req[t].username] ELSE Idle
  <2>1. req' = [req EXCEPT ![t] = r]
    BY <1>1 DEF Deliver
  <2>2. r.at # "console"
    BY DEF Idle
  <2> HIDE DEF r
  <2> QED
    BY <2>1, <2>2, Elsewhere
<1>2. CASE Lose(t) \/ WrongCode(t) \/ SaveReset(t)
  BY <1>2, IdleAt, Elsewhere, DoneElsewhere DEF Lose, WrongCode, SaveReset
<1>3. CASE logoutUser(t) \/ Logout(t) \/ Exchange(t)
  BY <1>3, AnswerElsewhere DEF logoutUser, Logout, Exchange
<1>4. CASE RightPassword(t)
  <2>1. req[t].at = "password" /\ req[t].doc.totpEnabled \in BOOLEAN
    BY <1>4, Claims DEF RightPassword, Claim, Row
  <2>2. (\E c : Answer(t, c)) \/ Wait(t, "draw", req[t].id, req[t].doc)
    BY <1>4, <2>1 DEF RightPassword
  <2> QED
    BY <2>2, AnswerElsewhere, WaitElsewhere
<1>5. CASE DrawSecret(t)
  BY <1>5, AnswerElsewhere DEF DrawSecret
<1>6. CASE SaveUser(t) \/ CreateAdminUser(t)
  BY <1>6, AnswerElsewhere, DoneElsewhere DEF SaveUser, CreateAdminUser
<1>7. CASE verifyRegistrationOtp(t) \/ verifyLoginOtp(t) \/ RightEnrollmentCode(t)
             \/ VerifyRegistration(t)
  BY <1>7, WaitElsewhere
     DEF verifyRegistrationOtp, verifyLoginOtp, AskCode, RightEnrollmentCode, VerifyRegistration
<1>8. CASE EnableTotp(t)
  BY <1>8, AnswerElsewhere, DoneElsewhere DEF EnableTotp
<1>9. CASE RightCode(t)
  BY <1>9, AnswerElsewhere, OperatorElsewhere DEF RightCode
<1>10. ASSUME NEW n \in Username, loginUser(t, n)
       PROVE  NoHandoff
  <2> DEFINE r == [Idle EXCEPT !.at = "employee", !.username = n]
  <2>1. (\E i \in Id : Wait(t, "password", i, row[i])) \/ req' = [req EXCEPT ![t] = r]
    BY <1>10 DEF loginUser, FindActive, Find
  <2>2. r.at # "console"
    BY DEF Idle
  <2> HIDE DEF r
  <2> QED
    BY <2>1, <2>2, WaitElsewhere, Elsewhere
<1>11. ASSUME NEW n \in Username, createUser(t, n) \/ Register(t, n) \/ Reset(t, n)
       PROVE  NoHandoff
  BY <1>11, WaitElsewhere, AnswerElsewhere DEF createUser, Register, Reset
<1> QED
  BY <1>1, <1>2, <1>3, <1>4, <1>5, <1>6, <1>7, <1>8, <1>9, <1>10, <1>11

LEMMA FailedElsewhere ==
    ASSUME IInv, NEW t \in Tab, failLogin(t), NEW u \in Tab,
           req'[u].at = "console", req[u].at # "console"
    PROVE  streak[BrowserOf[u]] + 1 >= MIN_TRIGGER_AFTER
<1>1. PICK at \in {"page", "console"} :
        /\ req' = [req EXCEPT ![t] = [Idle EXCEPT !.at = at, !.set = Cleared]]
        /\ at = "console" => streak[BrowserOf[t]] + 1 >= MIN_TRIGGER_AFTER
  BY FailLogin
<1>2. req \in [Tab -> Request]
  BY DEF IInv, ReqInv
<1>3. u = t
  BY <1>1, <1>2
<1>4. req'[t].at = at
  BY <1>1, <1>2 DEF Idle
<1> QED
  BY <1>1, <1>3, <1>4

LEMMA StepHandoff ==
    ASSUME IInv, [Next]_vars, NEW u \in Tab, req'[u].at = "console", req[u].at # "console"
    PROVE  streak[BrowserOf[u]] + 1 >= MIN_TRIGGER_AFTER
<1>1. ~NoHandoff
  BY DEF NoHandoff
<1>2. ASSUME NEW t \in Tab, WrongPassword(t)
      PROVE  streak[BrowserOf[u]] + 1 >= MIN_TRIGGER_AFTER
  BY <1>2, FailedElsewhere DEF WrongPassword
<1>3. ASSUME NEW t \in Tab, FindEmployee(t)
      PROVE  streak[BrowserOf[u]] + 1 >= MIN_TRIGGER_AFTER
  <2>1. failLogin(t) \/ \E i \in Id : Wait(t, "password", i, row[i])
    BY <1>3 DEF FindEmployee, FindActive, Find
  <2> QED
    BY <1>1, <2>1, FailedElsewhere, WaitElsewhere
<1>4. (\E b \in Browser : Sweep(b) \/ Expire(b, "preauth") \/ Expire(b, "pre_reg"))
        \/ (\E i \in Id : Administer(i)) \/ UNCHANGED vars => NoHandoff
  BY DEF Sweep, Expire, Administer, vars, NoHandoff
<1> QED
  BY <1>1, <1>2, <1>3, <1>4, OthersElsewhere DEF Next

\* Nobody is handed to the traps before MIN_TRIGGER_AFTER wrong passwords in a row, and
\* everybody is by the MAX_TRIGGER_AFTER-th (loginBruteTrap.js), for every two thresholds.
THEOREM HandoffInRangeHolds == Spec => HandoffInRange
<1>1. ASSUME IInv, NEW b \in Browser
      PROVE  streak[b] < MAX_TRIGGER_AFTER
  <2>1. CASE failed[b] = None
    BY <1>1, <2>1 DEF IInv, TrapInv
  <2>2. CASE failed[b] # None
    <3>1. failed[b] \in Counter /\ streak[b] = failed[b].count /\ failed[b].count < failed[b].threshold
      BY <1>1, <2>2 DEF IInv, TrapInv
    <3>2. failed[b].threshold \in MIN_TRIGGER_AFTER..MAX_TRIGGER_AFTER
          /\ failed[b].count \in 1..MAX_TRIGGER_AFTER
      BY <3>1 DEF Counter
    <3> QED
      BY <3>1, <3>2
  <2> QED
    BY <2>1, <2>2
<1> DEFINE Below == \A b \in Browser : streak[b] < MAX_TRIGGER_AFTER
           Late == \A t \in Tab : (req'[t].at = "console" /\ req[t].at # "console")
                                   => streak[BrowserOf[t]] + 1 >= MIN_TRIGGER_AFTER
<1>2. IInv => Below
  BY <1>1
<1>3. IInv /\ [Next]_vars => [Late]_vars
  BY StepHandoff
<1>4. Spec => []Below /\ [][Late]_vars
  <2> HIDE DEF Below, Late
  <2> QED
    BY <1>2, <1>3, Invariance, PTL DEF Spec
<1> QED
  BY <1>4 DEF HandoffInRange
===============================================================================
