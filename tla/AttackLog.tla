------------------------------ MODULE AttackLog ------------------------------
(***************************************************************************)
(* What the trap-event pipeline promises, without saying how: an attack    *)
(* report is logged, then announced to the dashboards, then acknowledged   *)
(* to the gateway that sent it, in this order and each at most once.  A    *)
(* report may stop after any of the steps (a lost message, a crash, a      *)
(* timeout), it may never skip one.                                        *)
(*                                                                         *)
(* Source of the promise: the comment over processAttack,                  *)
(* src/services/logging-data-extraction/routes/internal.js:57-65.          *)
(***************************************************************************)

CONSTANT Report          \* the attack reports the gateways ever make

VARIABLES
    log,                 \* reports whose AttackEvent was ever persisted
    announced,           \* reports broadcast as a liveAlert
    acknowledged         \* reports the gateway was told are persisted

vars == <<log, announced, acknowledged>>

Init ==
    /\ log = {}
    /\ announced = {}
    /\ acknowledged = {}

\* The authoritative write of the event.
Persist(r) ==
    /\ r \notin log
    /\ log' = log \cup {r}
    /\ UNCHANGED <<announced, acknowledged>>

\* The live alert, which carries the identifier of the saved event.
Announce(r) ==
    /\ r \in log \ announced
    /\ announced' = announced \cup {r}
    /\ UNCHANGED <<log, acknowledged>>

\* The success status the gateway gets.
Acknowledge(r) ==
    /\ r \in announced \ acknowledged
    /\ acknowledged' = acknowledged \cup {r}
    /\ UNCHANGED <<log, announced>>

Next ==
    \E r \in Report : Persist(r) \/ Announce(r) \/ Acknowledge(r)

Spec == Init /\ [][Next]_vars
==============================================================================
