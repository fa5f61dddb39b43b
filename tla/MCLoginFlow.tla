----------------------------- MODULE MCLoginFlow -----------------------------
(* An operator and an employee who has no secret yet, or an operator who was deactivated   *)
(* and room for two new accounts; two tabs of one browser.                                 *)
EXTENDS LoginFlow, TLC

CONSTANTS i1, i2, i3, ann, bob, s1, s2, s3, t1, t2, b1

MCId == {i1, i2, i3}
MCUsername == {ann, bob}
MCSecret == {s1, s2, s3}
MCTab == {t1, t2}
MCBrowser == {b1}
MCBrowserOf == [t \in MCTab |-> b1]

ann1 == [store |-> "real_employees", username |-> ann, role |-> "user",
         isActive |-> TRUE, totpEnabled |-> FALSE, totpSecret |-> None]
bob2 == [store |-> "admin_users", username |-> bob, role |-> "admin",
         isActive |-> TRUE, totpEnabled |-> TRUE, totpSecret |-> s1]

MCSeeded ==
    {[i \in MCId |-> IF i = j THEN ann1 ELSE IF i = i2 THEN bob2 ELSE Gone] : j \in {i1, i3}}
    \cup {[i \in MCId |-> IF i = i2 THEN [bob2 EXCEPT !.isActive = FALSE] ELSE Unused]}

\* Cookies made out for an employee, at enrollment and at a sign-in.
MCUnissued == {[mode |-> m, id |-> i] : m \in {"reg", "login"}, i \in {i1, i3}}

\* s1 and i2 are in use from the start.
Symmetry == Permutations(MCTab) \cup Permutations({s2, s3}) \cup Permutations({i1, i3})
==============================================================================
