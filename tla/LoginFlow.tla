------------------------------ MODULE LoginFlow ------------------------------
(***************************************************************************)
(* Signing in to the portal: a password, then a code, and for a new        *)
(* account the enrollment of the secret the code is made from.             *)
(*                                                                         *)
(*   row      the accounts of both stores, admin_users and real_employees  *)
(*   jar      the cookies of a browser, which its tabs share               *)
(*   req      the request of a tab, between two awaits, or its answer      *)
(*   failed   the gateway's counters of wrong passwords, one per browser   *)
(*            (the key is the trace cookie)                                *)
(*                                                                         *)
(* A request reads a document, waits (for a hash, a comparison, a code to  *)
(* be verified) and saves the document it read.  save() writes the paths   *)
(* it changed and no other.  Cookies change when the answer arrives, which *)
(* it may never do, and answers of two tabs arrive in any order.           *)
(***************************************************************************)
EXTENDS Integers

CONSTANTS
    Id,              \* identifiers of documents
    Username,
    Secret,          \* TOTP secrets; each is drawn once
    Tab, Browser,
    BrowserOf,       \* the browser of a tab
    Seeded,          \* what the stores may hold before
    Unissued,        \* preauth cookies that requests bring although no answer set them
    ALLOW_ADMIN_SELF_REGISTER,
    MIN_TRIGGER_AFTER, MAX_TRIGGER_AFTER,
    Unused,          \* an identifier not given yet
    Gone,            \* the identifier of a deleted document
    None,
    Keep,            \* a cookie that an answer does not mention
    MaxAdminActs     \* bound: writes by the users panel

VARIABLES
    row, jar, req, failed,
    drawn,           \* secrets that were drawn
    adminActs,
    \* History, only to state properties:
    proven,          \* secrets a code was verified for
    passed,          \* <<browser, document>>: a password was accepted, or chosen
    coded,           \* <<browser, document>>: a code was accepted
    unissued,        \* <<browser, document>>: no password, but a code came with a cookie never set
    raced,           \* documents last saved by a request that had read another state of them
    late,            \* browsers where the answer of an exchange came upon a session
    overtaken,       \* tabs and browsers with a session, or a request for one, of an account
                     \* that the users panel changed since the request read it, or that was
                     \* not active when the request enrolled it
    streak           \* wrong passwords since the last right one or handoff, per browser

accountVars == <<row, drawn, adminActs, raced>>
proofVars == <<proven, passed, coded, unissued>>
trapVars == <<failed, streak>>
jarVars == <<jar, late, overtaken>>
vars == <<req, accountVars, proofVars, trapVars, jarVars>>

Row == [store : {"admin_users", "real_employees"}, username : Username,
        role : {"admin", "user"}, isActive : BOOLEAN,
        totpEnabled : BOOLEAN, totpSecret : Secret \cup {None}]

\* auth is the gateway's session, admin_auth the one of the attack monitor; preauth and
\* pre_reg say how far a sign-in or a registration has come.
Cookie == {"auth", "admin_auth", "preauth", "pre_reg"}
Session == [id : Id, username : Username, role : {"admin", "user"}]
Preauth == [mode : {"reg", "admin", "slogin", "login"}, id : Id]
Prereg == [sub : Username, totp : Secret]
Value == Session \cup Username \cup Preauth \cup Prereg \cup {None}

Counter == [count : 1..MAX_TRIGGER_AFTER, threshold : MIN_TRIGGER_AFTER..MAX_TRIGGER_AFTER]

\* Where a request is; the last three are answers under way, by where they lead.
Step == {"idle", "employee", "password", "draw", "register", "create", "enrol", "enable",
         "code", "reset", "exchanging", "page", "console", "exchange"}
Request == [at : Step, username : Username \cup {None}, id : Id \cup {None},
            doc : Row \cup {None}, set : [Cookie -> Value \cup {Keep}]]

ASSUME LoginAssumption ==
    /\ BrowserOf \in [Tab -> Browser] /\ Tab \cap Browser = {}
    /\ Unissued \subseteq Preauth
    /\ Seeded \subseteq [Id -> Row \cup {Unused, Gone}]
    /\ \A db \in Seeded : \A i, j \in Id :
         /\ (db[i] \in Row /\ db[i].totpEnabled) => db[i].totpSecret # None
         /\ (db[i] \in Row /\ db[j] \in Row /\ i # j)
              => db[i].store # db[j].store \/ db[i].username # db[j].username
    /\ ALLOW_ADMIN_SELF_REGISTER \in BOOLEAN
    /\ MIN_TRIGGER_AFTER \in Nat \ {0} /\ MAX_TRIGGER_AFTER \in Nat
    /\ MIN_TRIGGER_AFTER <= MAX_TRIGGER_AFTER
    /\ Unused \notin Row /\ Gone \notin Row /\ Unused # Gone
    /\ None \notin Id \cup Secret \cup Username \cup Session \cup Preauth \cup Prereg
    /\ None \notin Row \cup Counter /\ Keep \notin Value
    /\ MaxAdminActs \in Nat

Exists(i) == row[i] \notin {Unused, Gone}

\* findOne({ username }), and findOne({ username, isActive: true }).
Find(s, n) == {i \in Id : Exists(i) /\ row[i].store = s /\ row[i].username = n}
FindActive(s, n) == {i \in Find(s, n) : row[i].isActive}
------------------------------------------------------------------------------
(***************************************************************************)
(* Requests, answers and cookies.                                          *)
(***************************************************************************)
NoCookies == [c \in Cookie |-> Keep]

\* clearAllAuthCookies of the gateway; pre_reg is not among them.
Cleared == [NoCookies EXCEPT !["auth"] = None, !["admin_auth"] = None, !["preauth"] = None]

Idle == [at |-> "idle", username |-> None, id |-> None, doc |-> None, set |-> NoCookies]

\* A request waits with a document in hand.
Wait(t, step, i, d) ==
    req' = [req EXCEPT ![t] = [Idle EXCEPT !.at = step, !.id = i, !.doc = d]]

\* The answer leaves: a page, and the cookies set.
Answer(t, cookies) == req' = [req EXCEPT ![t] = [Idle EXCEPT !.at = "page", !.set = cookies]]

\* An answer that sets no cookie: nothing is left of the request.
Done(t) == req' = [req EXCEPT ![t] = Idle]

\* finishBlueTeamOperatorLogin: the gateway's session, and a redirect that carries a token
\* for the panel, good for 60 s.  Whoever comes this way has the role admin here.
AnswerOperator(t, i, d) ==
    req' = [req EXCEPT ![t] =
              [Idle EXCEPT !.at = "exchange", !.username = d.username,
                 !.set = [NoCookies EXCEPT !["preauth"] = None,
                            !["auth"] = [id |-> i, username |-> d.username, role |-> "admin"]]]]

\* Mutant: the operator's cookie stays.
EmployeeCookiesBeside(i, d) ==
    [NoCookies EXCEPT !["preauth"] = None,
       !["auth"] = [id |-> i, username |-> d.username, role |-> d.role]]

\* An employee's session: the cookie of the attack monitor is dropped.
EmployeeCookies(i, d) ==
    [NoCookies EXCEPT !["preauth"] = None, !["admin_auth"] = None,
       !["auth"] = [id |-> i, username |-> d.username, role |-> d.role]]

TotpOf(d) == <<d.totpSecret, d.totpEnabled>>

\* save(): the document gets the value d; it is noted if its TOTP state is not the one read.
Save(t, d) ==
    LET i == req[t].id IN
    /\ row' = [row EXCEPT ![i] = d]
    /\ raced' = IF TotpOf(row[i]) = TotpOf(req[t].doc) THEN raced \ {i} ELSE raced \cup {i}

\* Mutant: a cookie that the answer does not mention is replaced too.
DeliverReplacing(t) ==
    /\ req[t].at \in {"page", "console", "exchange"}
    /\ jar' = [jar EXCEPT ![BrowserOf[t]] = req[t].set]
    /\ req' = [req EXCEPT ![t] = Idle]
    /\ UNCHANGED <<late, overtaken, accountVars, proofVars, trapVars>>

\* The answer arrives: the browser takes its cookies and follows the redirect.
Deliver(t) ==
    LET b == BrowserOf[t]
        a == req[t]
        cookies == [c \in Cookie |-> IF a.set[c] = Keep THEN jar[b][c] ELSE a.set[c]]
    IN
    /\ a.at \in {"page", "console", "exchange"}
    /\ jar' = [jar EXCEPT ![b] = cookies]
    /\ req' = [req EXCEPT ![t] = IF a.at = "exchange"
                                   THEN [Idle EXCEPT !.at = "exchanging", !.username = a.username]
                                   ELSE Idle]
    /\ late' = IF cookies["admin_auth"] = None THEN late \ {b}
               ELSE IF a.set["admin_auth"] # Keep /\ cookies["auth"] # None THEN late \cup {b}
               ELSE late
    /\ overtaken' = IF a.set["auth"] = Keep THEN overtaken
                    ELSE IF t \in overtaken THEN (overtaken \ {t}) \cup {b}
                    ELSE overtaken \ {b}
    /\ UNCHANGED <<accountVars, proofVars, trapVars>>

\* The answer is lost, or the tab closed; what was saved stays saved.
Lose(t) ==
    /\ req[t].at \in {"page", "console", "exchange", "exchanging"}
    /\ req' = [req EXCEPT ![t] = Idle]
    /\ overtaken' = overtaken \ {t}
    /\ UNCHANGED <<accountVars, proofVars, trapVars, jar, late>>

\* The ten minutes of a preauth or pre_reg cookie are over.
Expire(b, c) ==
    /\ jar[b][c] # None
    /\ jar' = [jar EXCEPT ![b][c] = None]
    /\ UNCHANGED <<req, late, overtaken, accountVars, proofVars, trapVars>>

\* GET or POST /logout of the gateway.
logoutUser(t) ==
    /\ req[t] = Idle
    /\ Answer(t, Cleared)
    /\ UNCHANGED <<accountVars, proofVars, trapVars, jarVars>>

\* POST /api/admin/logout, which the dashboard sends before it goes to /logout and does not
\* wait for: the same names.
Logout(t) == logoutUser(t)

\* GET /api/admin/exchange: the token is good, and the panel does not ask the database.
Exchange(t) ==
    /\ req[t].at = "exchanging"
    /\ Answer(t, [NoCookies EXCEPT !["admin_auth"] = req[t].username])
    /\ UNCHANGED <<accountVars, proofVars, trapVars, jarVars>>
------------------------------------------------------------------------------
(***************************************************************************)
(* Wrong passwords.                                                        *)
(***************************************************************************)

\* pickThreshold, at the first failure.
Counted(b, threshold) ==
    IF failed[b] = None THEN [count |-> 1, threshold |-> threshold]
    ELSE [failed[b] EXCEPT !.count = failed[b].count + 1]

\* Mutant: the counter outlives the handoff.
failLoginOnAndOn(t) ==
    LET b == BrowserOf[t] IN
    \E threshold \in MIN_TRIGGER_AFTER..MAX_TRIGGER_AFTER :
        LET c == Counted(b, threshold) IN
        IF c.count >= c.threshold
          THEN /\ streak' = [streak EXCEPT ![b] = 0]
               /\ req' = [req EXCEPT ![t] = [Idle EXCEPT !.at = "console", !.set = Cleared]]
               /\ UNCHANGED failed
          ELSE /\ failed' = [failed EXCEPT ![b] = c]
               /\ streak' = [streak EXCEPT ![b] = streak[b] + 1]
               /\ Answer(t, Cleared)

\* failLogin: the login page again, or at the threshold the console of the traps; the
\* counter is then forgotten.  All cookies were cleared when the request began.
failLogin(t) ==
    LET b == BrowserOf[t] IN
    \E threshold \in MIN_TRIGGER_AFTER..MAX_TRIGGER_AFTER :
        LET c == Counted(b, threshold) IN
        IF c.count >= c.threshold
          THEN /\ failed' = [failed EXCEPT ![b] = None]
               /\ streak' = [streak EXCEPT ![b] = 0]
               /\ req' = [req EXCEPT ![t] = [Idle EXCEPT !.at = "console", !.set = Cleared]]
          ELSE /\ failed' = [failed EXCEPT ![b] = c]
               /\ streak' = [streak EXCEPT ![b] = streak[b] + 1]
               /\ Answer(t, Cleared)

\* markLoginSuccess.
recordSuccess(t) ==
    /\ failed' = [failed EXCEPT ![BrowserOf[t]] = None]
    /\ streak' = [streak EXCEPT ![BrowserOf[t]] = 0]

\* The counter is swept an hour after the last failure.
Sweep(b) ==
    /\ failed[b] # None
    /\ failed' = [failed EXCEPT ![b] = None]
    /\ streak' = [streak EXCEPT ![b] = 0]
    /\ UNCHANGED <<req, accountVars, proofVars, jarVars>>
------------------------------------------------------------------------------
(***************************************************************************)
(* Signing in with a password (loginUser).                                 *)
(***************************************************************************)

\* admin_users is asked first.
loginUser(t, n) ==
    /\ req[t] = Idle
    /\ IF FindActive("admin_users", n) # {}
         THEN \E i \in FindActive("admin_users", n) : Wait(t, "password", i, row[i])
         ELSE req' = [req EXCEPT ![t] = [Idle EXCEPT !.at = "employee", !.username = n]]
    /\ UNCHANGED <<accountVars, proofVars, trapVars, jarVars>>

\* real_employees next; an unknown name is a failure like a wrong password.
FindEmployee(t) ==
    LET found == FindActive("real_employees", req[t].username) IN
    /\ req[t].at = "employee"
    /\ IF found # {}
         THEN (\E i \in found : Wait(t, "password", i, row[i])) /\ UNCHANGED trapVars
         ELSE failLogin(t)
    /\ UNCHANGED <<accountVars, proofVars, jarVars>>

WrongPassword(t) ==
    /\ req[t].at = "password"
    /\ failLogin(t)
    /\ UNCHANGED <<accountVars, proofVars, jarVars>>

\* The password was right, for the document as it was read: a code is asked for, or, of an
\* employee who has none yet, enrollment; a secret is drawn unless there is one.
RightPassword(t) ==
    LET i == req[t].id
        d == req[t].doc
        enrolls == d.store = "real_employees" /\ ~d.totpEnabled
        mode == IF d.store = "real_employees" THEN "login"
                ELSE IF d.role = "admin" THEN "admin" ELSE "slogin"
        Then(m) == [Cleared EXCEPT !["preauth"] = [mode |-> m, id |-> i]]
    IN
    /\ req[t].at = "password"
    /\ recordSuccess(t)
    /\ passed' = passed \cup {<<BrowserOf[t], i>>}
    /\ CASE d.totpEnabled -> Answer(t, Then(mode))
         [] enrolls /\ d.totpSecret # None -> Answer(t, Then("reg"))
         [] enrolls /\ d.totpSecret = None -> Wait(t, "draw", i, d)
         [] OTHER -> Answer(t, Cleared)
    /\ UNCHANGED <<proven, coded, unissued, accountVars, jarVars>>

\* The drawn secret is saved, whatever the document holds by now, and shown.
DrawSecret(t) ==
    LET i == req[t].id IN
    /\ req[t].at = "draw"
    /\ IF Exists(i)
         THEN \E s \in Secret \ drawn :
                /\ Save(t, [row[i] EXCEPT !.totpSecret = s])
                /\ drawn' = drawn \cup {s}
                /\ Answer(t, [Cleared EXCEPT !["preauth"] = [mode |-> "reg", id |-> i]])
         ELSE /\ Answer(t, Cleared)
              /\ UNCHANGED <<row, raced, drawn>>
    /\ UNCHANGED <<adminActs, proofVars, trapVars, jarVars>>
------------------------------------------------------------------------------
(***************************************************************************)
(* Enrollment: registration at the gateway, and the code that confirms it. *)
(***************************************************************************)
Employee(n, s) ==
    [store |-> "real_employees", username |-> n, role |-> "user", isActive |-> TRUE,
     totpEnabled |-> FALSE, totpSecret |-> s]

\* createUser: a free name, then the hash; a taken name is answered with 409.
createUser(t, n) ==
    /\ req[t] = Idle
    /\ Find("real_employees", n) = {}
    /\ \E s \in Secret \ drawn :
         /\ Wait(t, "register", None, Employee(n, s))
         /\ drawn' = drawn \cup {s}
    /\ UNCHANGED <<row, raced, adminActs, proofVars, trapVars, jarVars>>

\* Mutant: username is not unique in the schema.
InsertAnyway(d, i) == row[i] = Unused /\ row' = [row EXCEPT ![i] = d]

\* The insert of a document, which the unique index of its store must let pass.
Insert(d, i) ==
    /\ row[i] = Unused
    /\ Find(d.store, d.username) = {}
    /\ row' = [row EXCEPT ![i] = d]

InsertFails(d) == Find(d.store, d.username) # {} \/ (\A i \in Id : row[i] # Unused)

\* newUser.save, and the page with the QR code.
SaveUser(t) ==
    LET d == req[t].doc IN
    /\ req[t].at = "register"
    /\ \/ \E i \in Id :
            /\ Insert(d, i)
            /\ passed' = passed \cup {<<BrowserOf[t], i>>}
            /\ Answer(t, [NoCookies EXCEPT !["preauth"] = [mode |-> "reg", id |-> i]])
       \/ /\ InsertFails(d)
          /\ Done(t)
          /\ UNCHANGED <<row, passed>>
    /\ UNCHANGED <<raced, drawn, adminActs, proven, coded, unissued, trapVars, jarVars>>

\* The preauth cookie is the plain text "mode:id", not signed: a request may bring the one its
\* browser was given, or another.
Presented(b) == ({jar[b]["preauth"]} \ {None}) \cup Unissued

\* The store that is looked in.
StoreOf(mode) == IF mode \in {"admin", "slogin"} THEN "admin_users" ELSE "real_employees"

\* A request with a code begins: it read the document that its cookie names.
AskCode(t, step, pre) ==
    LET b == BrowserOf[t] IN
    /\ Wait(t, step, pre.id, row[pre.id])
    /\ unissued' = IF pre = jar[b]["preauth"] \/ <<b, pre.id>> \in passed THEN unissued
                   ELSE unissued \cup {<<b, pre.id>>}

\* verifyRegistrationOtp: only the mode and the secret are asked for, not isActive.  A request
\* without a six-digit code is shown the QR code again.
verifyRegistrationOtp(t) ==
    /\ req[t] = Idle
    /\ \E pre \in Presented(BrowserOf[t]) :
         /\ pre.mode = "reg"
         /\ Exists(pre.id) /\ row[pre.id].store = StoreOf("reg")
         /\ row[pre.id].totpSecret # None
         /\ AskCode(t, "enrol", pre)
         /\ overtaken' = IF row[pre.id].isActive THEN overtaken ELSE overtaken \cup {t}
    /\ UNCHANGED <<proven, passed, coded, accountVars, trapVars, jar, late>>

\* safeVerifyTotp says no, to either kind of code.
WrongCode(t) ==
    /\ req[t].at \in {"enrol", "code"}
    /\ Done(t)
    /\ overtaken' = overtaken \ {t}
    /\ UNCHANGED <<accountVars, proofVars, trapVars, jar, late>>

\* It says yes; the request goes on to save.
RightEnrollmentCode(t) ==
    /\ req[t].at = "enrol"
    /\ proven' = proven \cup {req[t].doc.totpSecret}
    /\ coded' = coded \cup {<<BrowserOf[t], req[t].id>>}
    /\ Wait(t, "enable", req[t].id, req[t].doc)
    /\ UNCHANGED <<passed, unissued, accountVars, trapVars, jarVars>>

\* totpEnabled is saved, if it was not set when the document was read, and the employee is
\* signed in.
EnableTotp(t) ==
    LET i == req[t].id d == req[t].doc IN
    /\ req[t].at = "enable"
    /\ IF Exists(i)
         THEN /\ Answer(t, EmployeeCookies(i, d))
              /\ IF d.totpEnabled THEN UNCHANGED <<row, raced>>
                 ELSE Save(t, [row[i] EXCEPT !.totpEnabled = TRUE])
              /\ UNCHANGED overtaken
         ELSE Done(t) /\ overtaken' = overtaken \ {t} /\ UNCHANGED <<row, raced>>
    /\ UNCHANGED <<drawn, adminActs, proofVars, trapVars, jar, late>>
------------------------------------------------------------------------------
(***************************************************************************)
(* The code of a sign-in (verifyLoginOtp).                                 *)
(***************************************************************************)

\* Mutant: whether the account is active was asked with the password, and that was enough.
AdmitsInactive(mode, d) ==
    /\ d.totpEnabled
    /\ d.totpSecret # None
    /\ mode = "admin" => d.role = "admin"
    /\ mode = "slogin" => d.role # "admin"

\* Whether a document may go on in a mode.
Admits(mode, d) ==
    /\ d.isActive
    /\ d.totpEnabled
    /\ d.totpSecret # None
    /\ mode = "admin" => d.role = "admin"
    /\ mode = "slogin" => d.role # "admin"

\* The document is read again, by its identifier.
verifyLoginOtp(t) ==
    /\ req[t] = Idle
    /\ \E pre \in Presented(BrowserOf[t]) :
         /\ pre.mode \in {"admin", "slogin", "login"}
         /\ Exists(pre.id) /\ row[pre.id].store = StoreOf(pre.mode)
         /\ Admits(pre.mode, row[pre.id])
         /\ AskCode(t, "code", pre)
    /\ UNCHANGED <<proven, passed, coded, accountVars, trapVars, jarVars>>

\* Admins of either store go on to the panel, everybody else to the portal.
RightCode(t) ==
    LET i == req[t].id d == req[t].doc IN
    /\ req[t].at = "code"
    /\ proven' = proven \cup {d.totpSecret}
    /\ coded' = coded \cup {<<BrowserOf[t], i>>}
    /\ IF d.role = "admin" THEN AnswerOperator(t, i, d) ELSE Answer(t, EmployeeCookies(i, d))
    /\ UNCHANGED <<passed, unissued, accountVars, trapVars, jarVars>>
------------------------------------------------------------------------------
(***************************************************************************)
(* Registration at the panel, which saves nothing before the code.         *)
(***************************************************************************)

\* POST /api/admin/register: hash and secret travel in the cookie.
Register(t, n) ==
    /\ ALLOW_ADMIN_SELF_REGISTER
    /\ req[t] = Idle
    /\ Find("admin_users", n) = {}
    /\ \E s \in Secret \ drawn :
         /\ drawn' = drawn \cup {s}
         /\ Answer(t, [NoCookies EXCEPT !["pre_reg"] = [sub |-> n, totp |-> s]])
    /\ UNCHANGED <<row, raced, adminActs, proofVars, trapVars, jarVars>>

\* POST /api/admin/register/verify-otp, up to the second look at the name.
VerifyRegistration(t) ==
    LET pre == jar[BrowserOf[t]]["pre_reg"] IN
    /\ req[t] = Idle
    /\ pre # None
    /\ Find("admin_users", pre.sub) = {}
    /\ proven' = proven \cup {pre.totp}
    /\ Wait(t, "create", None,
            [store |-> "admin_users", username |-> pre.sub, role |-> "user",
             isActive |-> TRUE, totpEnabled |-> TRUE, totpSecret |-> pre.totp])
    /\ UNCHANGED <<passed, coded, unissued, accountVars, trapVars, jarVars>>

\* AdminUser.create.
CreateAdminUser(t) ==
    /\ req[t].at = "create"
    /\ \/ (\E i \in Id : Insert(req[t].doc, i))
          /\ Answer(t, [NoCookies EXCEPT !["pre_reg"] = None])
       \/ InsertFails(req[t].doc) /\ Done(t) /\ UNCHANGED row
    /\ UNCHANGED <<raced, drawn, adminActs, proofVars, trapVars, jarVars>>
------------------------------------------------------------------------------
(***************************************************************************)
(* The users panel.                                                        *)
(***************************************************************************)

\* POST /api/admin/users/reset-2fa reads the user.
Reset(t, n) ==
    /\ req[t] = Idle
    /\ adminActs < MaxAdminActs
    /\ adminActs' = adminActs + 1
    /\ \E i \in FindActive("real_employees", n) : Wait(t, "reset", i, row[i])
    /\ UNCHANGED <<row, raced, drawn, proofVars, trapVars, jarVars>>

\* Mutant: the user need not enroll again.
SaveResetEnabled(t) ==
    LET i == req[t].id IN
    /\ req[t].at = "reset"
    /\ Done(t)
    /\ Exists(i)
    /\ \E s \in Secret \ drawn :
         /\ Save(t, [row[i] EXCEPT !.totpSecret = s])
         /\ drawn' = drawn \cup {s}
    /\ UNCHANGED <<adminActs, proofVars, trapVars, jarVars>>

\* It saves a new secret, and totpEnabled if that was set in what it read; the QR code goes
\* to the admin.
SaveReset(t) ==
    LET i == req[t].id IN
    /\ req[t].at = "reset"
    /\ Done(t)
    /\ IF Exists(i)
         THEN \E s \in Secret \ drawn :
                /\ Save(t, [row[i] EXCEPT !.totpSecret = s,
                                          !.totpEnabled = row[i].totpEnabled /\ ~req[t].doc.totpEnabled])
                /\ drawn' = drawn \cup {s}
         ELSE UNCHANGED <<row, raced, drawn>>
    /\ UNCHANGED <<adminActs, proofVars, trapVars, jarVars>>

\* A session for account i, or a request that may lead to one.
IsSessionOf(s, i) == s \notin {None, Keep} /\ s.id = i
LeadsToSession(t, i) ==
    \/ req[t].at \in {"enrol", "enable", "code"} /\ req[t].id = i
    \/ IsSessionOf(req[t].set["auth"], i)

\* PATCH, where it changes something, and DELETE of /api/admin/users (module AdminAccess has
\* their checks).
Administer(i) ==
    /\ adminActs < MaxAdminActs
    /\ adminActs' = adminActs + 1
    /\ Exists(i)
    /\ row[i].store = "real_employees"
    /\ \/ \E role \in {"admin", "user"} \ {row[i].role} :
            row' = [row EXCEPT ![i] = [row[i] EXCEPT !.role = role]]
       \/ row' = [row EXCEPT ![i] = [row[i] EXCEPT !.isActive = ~row[i].isActive]]
       \/ row' = [row EXCEPT ![i] = Gone]
    /\ overtaken' = overtaken \cup {t \in Tab : LeadsToSession(t, i)}
                              \cup {b \in Browser : IsSessionOf(jar[b]["auth"], i)}
    /\ UNCHANGED <<req, raced, drawn, proofVars, trapVars, jar, late>>
------------------------------------------------------------------------------
Init ==
    /\ row \in Seeded
    /\ jar = [b \in Browser |-> [c \in Cookie |-> None]]
    /\ req = [t \in Tab |-> Idle]
    /\ failed = [b \in Browser |-> None]
    /\ drawn = {row[i].totpSecret : i \in {j \in Id : Exists(j)}} \ {None}
    /\ proven = {row[i].totpSecret : i \in {j \in Id : Exists(j) /\ row[j].totpEnabled}}
    /\ adminActs = 0
    /\ passed = {} /\ coded = {} /\ unissued = {}
    /\ raced = {} /\ late = {} /\ overtaken = {}
    /\ streak = [b \in Browser |-> 0]

Next ==
    \/ \E t \in Tab :
         \/ Deliver(t) \/ Lose(t) \/ logoutUser(t) \/ Logout(t) \/ Exchange(t)
         \/ FindEmployee(t) \/ WrongPassword(t) \/ RightPassword(t) \/ DrawSecret(t)
         \/ SaveUser(t) \/ verifyRegistrationOtp(t) \/ WrongCode(t)
         \/ RightEnrollmentCode(t) \/ EnableTotp(t)
         \/ verifyLoginOtp(t) \/ RightCode(t)
         \/ VerifyRegistration(t) \/ CreateAdminUser(t) \/ SaveReset(t)
         \/ \E n \in Username : loginUser(t, n) \/ createUser(t, n) \/ Register(t, n) \/ Reset(t, n)
    \/ \E b \in Browser : Sweep(b) \/ Expire(b, "preauth") \/ Expire(b, "pre_reg")
    \/ \E i \in Id : Administer(i)

Spec == Init /\ [][Next]_vars
------------------------------------------------------------------------------
(***************************************************************************)
(* Properties.                                                             *)
(***************************************************************************)
TypeOK ==
    /\ row \in [Id -> Row \cup {Unused, Gone}]
    /\ jar \in [Browser -> [Cookie -> Value]]
    /\ req \in [Tab -> Request]
    /\ failed \in [Browser -> Counter \cup {None}]
    /\ drawn \subseteq Secret /\ proven \subseteq drawn
    /\ adminActs \in 0..MaxAdminActs
    /\ {passed, coded, unissued} \subseteq SUBSET (Browser \X Id)
    /\ raced \subseteq Id /\ late \subseteq Browser /\ overtaken \subseteq Tab \cup Browser
    /\ streak \in [Browser -> Nat]

\* A name belongs to one account of a store, although both registrations look for the name
\* and insert the account an await or ten minutes later (realController.js createUser,
\* register/verify-otp/route.ts).
UsernamesUnique ==
    \A i, j \in Id : (i # j /\ Exists(i) /\ Exists(j) /\ row[i].store = row[j].store)
                        => row[i].username # row[j].username

\* Whoever has a session at the gateway gave, in that browser, a code for that very account,
\* and a password too, unless the code came with a preauth cookie that no answer had set; and
\* the account is there, is active and has the name and the role of the session, however the
\* requests and answers of its tabs overlapped: what the users panel did between the password
\* and the request with the code is in the session or prevents it.  What it does later is not,
\* and enrollment does not ask whether the account is active (realController.js
\* verifyLoginOtp, verifyRegistrationOtp).
SessionIsEarned ==
    \A b \in Browser : LET s == jar[b]["auth"] IN s # None =>
        /\ <<b, s.id>> \in coded /\ <<b, s.id>> \in passed \cup unissued
        /\ b \notin overtaken =>
             /\ Exists(s.id) /\ row[s.id].isActive
             /\ row[s.id].username = s.username /\ row[s.id].role = s.role

\* An account whose second factor is enabled has a secret that a code was verified for:
\* nobody is locked out by a secret that no authenticator holds, unless a save came between
\* another request's read and its save (realController.js save, reset-2fa/route.ts).
EnabledIsProven ==
    \A i \in Id : (Exists(i) /\ row[i].totpEnabled) => row[i].totpSecret \in proven \/ i \in raced

\* A browser is handed to the traps after at least MIN_TRIGGER_AFTER wrong passwords in a row
\* since the last handoff, and at the latest at MAX_TRIGGER_AFTER (loginBruteTrap.js).
HandoffInRange ==
    /\ [](\A b \in Browser : streak[b] < MAX_TRIGGER_AFTER)
    /\ [][\A t \in Tab : (req'[t].at = "console" /\ req[t].at # "console")
                            => streak[BrowserOf[t]] + 1 >= MIN_TRIGGER_AFTER]_vars

\* requireAuth and resolvePortalUsername: whom the panel takes a request for.
PanelUser(b) ==
    IF jar[b]["admin_auth"] # None THEN jar[b]["admin_auth"]
    ELSE IF jar[b]["auth"] # None THEN jar[b]["auth"].username
    ELSE None

EmployeeIsHimself(b) ==
    (jar[b]["auth"] # None /\ jar[b]["auth"].role = "user") => PanelUser(b) = jar[b]["auth"].username

\* An employee who signs in is the one the panel knows too, even after an operator used the
\* browser, unless an exchange still under way was answered after that sign-in
\* (realController.js clearAllAuthCookies, clearAdminAuthCookie).
EmployeeIsHimselfUnlessLate == \A b \in Browser : b \in late \/ EmployeeIsHimself(b)

\* The same without that exception, as the comment of clearAdminAuthCookie has it: "so it
\* cannot override a Safe Zone employee session" (realController.js:100).
EmployeeIsAlwaysHimself == \A b \in Browser : EmployeeIsHimself(b)
==============================================================================
