----------------------------- MODULE DashboardFeed -----------------------------
(***************************************************************************)
(* What an analyst sees: one open dashboard, which merges live alerts from *)
(* the socket with events polled from the database.                        *)
(*                                                                         *)
(* Four things write the polled list: refresh (a poll, an alert's timer, a *)
(* forced one after maintenance), the load the page started before it knew *)
(* whose it is (the "warm" load), and the demo mode.  At most one refresh  *)
(* is in flight; one asked for meanwhile is remembered and started by the  *)
(* one in flight when it ends, with ITS options.                           *)
(*                                                                         *)
(* A switch of the demo mode starts a new epoch (refreshGenerationRef) and *)
(* aborts the refreshes of the effect it ends, all but the forced ones,    *)
(* which have no signal; the answers of those become void.  A callback     *)
(* keeps the demo mode of the render it was made in.  Loading and error    *)
(* indicators and the limits of the lists are left out.                    *)
(***************************************************************************)
EXTENDS Integers

CONSTANTS
    Event,           \* attack events
    Mock,            \* the fixtures and alerts of the demo mode
    NoFlight,        \* no refresh in flight
    MaxToggles,      \* bound: switches of the demo mode
    MaxWipes,        \* bound: deletions of all events
    MaxMaintenance   \* bound: maintenance requests of this dashboard

Epoch == 0..MaxToggles

\* When it began, whether it was forced (and so has no signal), what the database said;
\* history: whether the warm load was over when it began.
Flight ==
    [epoch : Epoch, force : BOOLEAN,
     answered : BOOLEAN, snapshot : SUBSET Event, warmOver : BOOLEAN]

ASSUME FeedAssumption ==
    /\ Mock \notin Event
    /\ NoFlight \notin Flight
    /\ MaxToggles \in Nat /\ MaxWipes \in Nat /\ MaxMaintenance \in Nat

VARIABLES
    db,              \* events in the database
    alert,           \* where the live alert of an event is
    warm,            \* the load of the page
    bootstrap,       \* the page had data to hand down
    demoMode, epoch, \* the mode, and how often it was switched
    liveAlerts, attackEvents,  \* the two lists the screen merges
    cleared,         \* events older than clearedAtMs
    flight,          \* the refresh in flight
    pending,         \* refreshPendingRef
    recent,          \* lastRefreshAtRef is less than 3 s old
    alertTimer,      \* refreshAfterAlertRef is set
    maintenance,     \* the mode in which this dashboard's maintenance was started
    wipes, maintenances,
    \* History, only to state properties:
    owed,            \* an alert or maintenance asked for the refresh that is pending
    clean            \* the demo mode was entered with nothing outstanding

dbVars == <<db, alert, wipes>>
pageVars == <<warm, bootstrap>>
modeVars == <<demoMode, epoch, clean>>
screenVars == <<liveAlerts, attackEvents, cleared>>
refreshVars == <<flight, pending, recent, owed>>
maintenanceVars == <<maintenance, maintenances>>
vars == <<dbVars, pageVars, modeVars, screenVars, refreshVars, alertTimer, maintenanceVars>>

Warm == [state : {"asked", "read", "over"}, snapshot : SUBSET Event]
WarmOver == [state |-> "over", snapshot |-> {}]

TypeOK ==
    /\ db \subseteq Event
    /\ alert \in [Event -> {"none", "due", "wire", "over"}]
    /\ warm \in Warm
    /\ bootstrap \in BOOLEAN
    /\ demoMode \in BOOLEAN
    /\ epoch \in Epoch
    /\ liveAlerts \subseteq Event \cup {Mock}
    /\ attackEvents \subseteq Event \cup {Mock}
    /\ cleared \subseteq Event \cup {Mock}
    /\ flight \in Flight \cup {NoFlight}
    /\ pending \in BOOLEAN
    /\ recent \in BOOLEAN
    /\ alertTimer \in BOOLEAN
    /\ maintenance \in {"none", "live", "demo"}
    /\ wipes \in 0..MaxWipes
    /\ maintenances \in 0..MaxMaintenance
    /\ owed \in BOOLEAN
    /\ clean \in BOOLEAN

\* Mutant: every fetch carries the generation of the first render.
FetchFirst(force, ep, throttled) ==
    IF throttled THEN NoFlight
    ELSE [epoch |-> 0, force |-> force, answered |-> FALSE, snapshot |-> {},
          warmOver |-> warm = WarmOver]

\* The refresh that begins: unless it is throttled, a fetch.
Fetch(force, ep, throttled) ==
    IF throttled THEN NoFlight
    ELSE [epoch |-> ep, force |-> force, answered |-> FALSE, snapshot |-> {},
          warmOver |-> warm = WarmOver]

\* The page is shown with what the cache of the session held, or it refreshes at once.
Init ==
    /\ db = {}
    /\ alert = [e \in Event |-> "none"]
    /\ warm = [state |-> "asked", snapshot |-> {}]
    /\ bootstrap \in BOOLEAN
    /\ demoMode = FALSE
    /\ epoch = 0
    /\ liveAlerts = {} /\ attackEvents = {} /\ cleared = {}
    /\ flight = IF bootstrap THEN NoFlight ELSE Fetch(FALSE, 0, FALSE)
    /\ pending = FALSE
    /\ recent = TRUE
    /\ alertTimer = FALSE
    /\ maintenance = "none"
    /\ wipes = 0 /\ maintenances = 0
    /\ owed = FALSE
    /\ clean = FALSE
------------------------------------------------------------------------------
(***************************************************************************)
(* Telemetry and the database.                                             *)
(***************************************************************************)

\* An event is saved, and its alert is due.
Save(e) ==
    /\ alert[e] = "none"
    /\ db' = db \cup {e}
    /\ alert' = [alert EXCEPT ![e] = "due"]
    /\ UNCHANGED <<wipes, pageVars, modeVars, screenVars, refreshVars, alertTimer,
                   maintenanceVars>>

\* It is sent to the sockets that are connected, or never: ours may not be, and telemetry
\* may have died.
EmitLiveAlert(e) ==
    /\ alert[e] = "due"
    /\ \E to \in IF demoMode THEN {"over"} ELSE {"wire", "over"} :
         alert' = [alert EXCEPT ![e] = to]
    /\ UNCHANGED <<db, wipes, pageVars, modeVars, screenVars, refreshVars, alertTimer,
                   maintenanceVars>>

\* Somebody's maintenance deletes the events.
Wipe ==
    /\ wipes < MaxWipes
    /\ wipes' = wipes + 1
    /\ db' = {}
    /\ UNCHANGED <<alert, pageVars, modeVars, screenVars, refreshVars, alertTimer,
                   maintenanceVars>>
------------------------------------------------------------------------------
(***************************************************************************)
(* refresh.                                                                *)
(***************************************************************************)

\* refresh is called: coalesced if one is in flight, dropped if the last began less than
\* 3 s ago (wasRecent), unless it is forced.
Refresh(force, wasRecent, ep) ==
    IF flight # NoFlight
      THEN /\ pending' = TRUE
           /\ recent' = (wasRecent /\ ~force)
           /\ owed' = (owed \/ ~recent')
           /\ UNCHANGED flight
      ELSE /\ flight' = Fetch(force, ep, wasRecent /\ ~force)
           /\ recent' = TRUE
           /\ UNCHANGED <<pending, owed>>

\* The interval timer, or the tab becomes visible.
Poll ==
    /\ ~demoMode
    /\ Refresh(FALSE, recent, epoch)
    /\ UNCHANGED <<dbVars, pageVars, modeVars, screenVars, alertTimer, maintenanceVars>>

ThreeSecondsPass ==
    /\ recent
    /\ recent' = FALSE
    /\ UNCHANGED <<dbVars, pageVars, modeVars, screenVars, flight, pending, owed, alertTimer,
                   maintenanceVars>>

\* The dashboard route reads the database.
FetchDashboardData ==
    /\ flight # NoFlight
    /\ ~flight.answered
    /\ flight' = [flight EXCEPT !.answered = TRUE, !.snapshot = db]
    /\ UNCHANGED <<dbVars, pageVars, modeVars, screenVars, pending, recent, owed, alertTimer,
                   maintenanceVars>>

\* Mutant: the 3 s run from the end of the refresh, and hold for the remembered one.
FinallyThrottled(f) ==
    /\ flight' = IF pending THEN Fetch(f.force, epoch, ~f.force) ELSE NoFlight
    /\ recent' = TRUE
    /\ pending' = FALSE
    /\ owed' = FALSE
    /\ cleared' = IF pending /\ f.force THEN {} ELSE cleared

\* The finally block: the refresh that was remembered begins, called by the code of the
\* one that ends, whatever the mode is by now.
Finally(f) ==
    /\ flight' = IF pending THEN Fetch(f.force, epoch, recent /\ ~f.force) ELSE NoFlight
    /\ recent' = (recent \/ pending)
    /\ pending' = FALSE
    /\ owed' = FALSE
    /\ cleared' = IF pending /\ f.force THEN {} ELSE cleared

\* Mutant: a polled list replaces the alerts too.
ApplyAlone(events) ==
    /\ attackEvents' = events
    /\ liveAlerts' = IF demoMode THEN liveAlerts ELSE {}

\* The polled list is replaced, and alerts it contains are dropped from the live one.
Apply(events) ==
    /\ attackEvents' = events
    /\ liveAlerts' = IF demoMode THEN liveAlerts ELSE liveAlerts \ events

\* Mutant: an answer is applied whatever happened since it was asked for.
RefreshSucceedsAlways ==
    /\ flight # NoFlight
    /\ flight.answered
    /\ Apply(flight.snapshot)
    /\ Finally(flight)
    /\ UNCHANGED <<dbVars, pageVars, modeVars, alertTimer, maintenanceVars>>

\* The answer arrives.  If the mode was switched since the call, it is void.
RefreshSucceeds ==
    /\ flight # NoFlight
    /\ flight.answered
    /\ IF flight.epoch # epoch
         THEN UNCHANGED <<attackEvents, liveAlerts>>
         ELSE Apply(flight.snapshot)
    /\ Finally(flight)
    /\ UNCHANGED <<dbVars, pageVars, modeVars, alertTimer, maintenanceVars>>

\* A network error, an error status, success: false.
RefreshFails ==
    /\ flight # NoFlight
    /\ Finally(flight)
    /\ UNCHANGED <<dbVars, pageVars, modeVars, attackEvents, liveAlerts, alertTimer,
                   maintenanceVars>>
------------------------------------------------------------------------------
(***************************************************************************)
(* Live alerts.                                                            *)
(***************************************************************************)

\* The socket delivers an alert; 300 ms later a refresh is to follow it.
LiveAlert(e) ==
    /\ alert[e] = "wire"
    /\ alert' = [alert EXCEPT ![e] = "over"]
    /\ liveAlerts' = liveAlerts \cup {e}
    /\ alertTimer' = TRUE
    /\ UNCHANGED <<db, wipes, pageVars, modeVars, attackEvents, cleared, refreshVars,
                   maintenanceVars>>

\* The connection breaks: the alert is lost.
LiveAlertLost(e) ==
    /\ alert[e] = "wire"
    /\ alert' = [alert EXCEPT ![e] = "over"]
    /\ UNCHANGED <<db, wipes, pageVars, modeVars, screenVars, refreshVars, alertTimer,
                   maintenanceVars>>

\* The timer of the alerts: it bypasses the throttle.
RefreshAfterAlert ==
    /\ alertTimer
    /\ alertTimer' = FALSE
    /\ Refresh(FALSE, FALSE, epoch)
    /\ UNCHANGED <<dbVars, pageVars, modeVars, screenVars, maintenanceVars>>
------------------------------------------------------------------------------
(***************************************************************************)
(* The page, the demo mode and maintenance.                                *)
(***************************************************************************)

\* The dashboard route reads the database for the page's own load.
WarmRead ==
    /\ warm.state = "asked"
    /\ warm' = [state |-> "read", snapshot |-> db]
    /\ UNCHANGED <<dbVars, bootstrap, modeVars, screenVars, refreshVars, alertTimer,
                   maintenanceVars>>

\* setBootstrap: the effect applies it in either mode.
ApplyBootstrap ==
    /\ warm.state = "read"
    /\ warm' = WarmOver
    /\ bootstrap' = TRUE
    /\ Apply(warm.snapshot)
    /\ UNCHANGED <<dbVars, modeVars, cleared, refreshVars, alertTimer, maintenanceVars>>

WarmFails ==
    /\ warm.state # "over"
    /\ warm' = WarmOver
    /\ UNCHANGED <<dbVars, bootstrap, modeVars, screenVars, refreshVars, alertTimer,
                   maintenanceVars>>

\* Mutant: a generation for the button, one for the old effect and one for the new.
ToggleThrice ==
    /\ epoch < MaxToggles
    /\ epoch' = epoch + 3
    /\ demoMode' = ~demoMode
    /\ alert' = [e \in Event |-> IF alert[e] = "wire" THEN "over" ELSE alert[e]]
    /\ alertTimer' = FALSE
    /\ liveAlerts' = {}
    /\ UNCHANGED <<db, wipes, pageVars, cleared, maintenanceVars>>

\* setDemoMode and the effects that follow: the socket and the timer are gone.
Toggle ==
    /\ epoch < MaxToggles
    /\ epoch' = epoch + 1
    /\ demoMode' = ~demoMode
    /\ alert' = [e \in Event |-> IF alert[e] = "wire" THEN "over" ELSE alert[e]]
    /\ alertTimer' = FALSE
    /\ liveAlerts' = {}
    /\ UNCHANGED <<db, wipes, pageVars, cleared, maintenanceVars>>

\* A refresh with a signal is over before the next event of the page: it rejects, the one
\* remembered begins with the same signal and rejects as well.
AbortFlight ==
    /\ owed' = FALSE
    /\ IF flight # NoFlight /\ ~flight.force
         THEN /\ flight' = NoFlight
              /\ pending' = FALSE
              /\ recent' = (recent \/ pending)
         ELSE UNCHANGED <<flight, pending, recent>>

EnterDemo ==
    /\ ~demoMode
    /\ Toggle
    /\ attackEvents' = {Mock}
    /\ AbortFlight
    /\ clean' = (warm = WarmOver /\ maintenance # "live" /\ ~pending')

\* The fixtures stay on the screen until a refresh succeeds.
LeaveDemo ==
    /\ demoMode
    /\ Toggle
    /\ clean' = FALSE
    /\ IF bootstrap
         THEN recent' = TRUE /\ UNCHANGED <<flight, pending, owed>>
         ELSE Refresh(FALSE, recent, epoch')
    /\ UNCHANGED attackEvents

DemoAlert ==
    /\ demoMode
    /\ liveAlerts' = liveAlerts \cup {Mock}
    /\ UNCHANGED <<dbVars, pageVars, modeVars, attackEvents, cleared, refreshVars,
                   alertTimer, maintenanceVars>>

\* runAction: the POST leaves.  (What it deletes is Wipe.)
StartMaintenance ==
    /\ maintenance = "none"
    /\ maintenances < MaxMaintenance
    /\ maintenances' = maintenances + 1
    /\ maintenance' = IF demoMode THEN "demo" ELSE "live"
    /\ UNCHANGED <<dbVars, pageVars, modeVars, screenVars, refreshVars, alertTimer>>

\* It succeeded: clearScreen, and the refresh of the render the request was made in, which
\* shows everything again, unless that render was one of the demo mode.  Events in the
\* making (late) may be stamped before the clock of the browser.
EndMaintenance ==
    /\ maintenance # "none"
    /\ maintenance' = "none"
    /\ liveAlerts' = {}
    /\ IF maintenance = "live"
         THEN /\ cleared' = {}
              /\ Refresh(TRUE, recent, epoch)
         ELSE /\ \E late \in SUBSET {e \in Event : alert[e] = "none"} :
                   cleared' = {Mock} \cup {e \in Event : alert[e] # "none"} \cup late
              /\ UNCHANGED refreshVars
    /\ UNCHANGED <<dbVars, pageVars, modeVars, attackEvents, alertTimer, maintenances>>

\* It failed, or is said to have.
MaintenanceFails ==
    /\ maintenance # "none"
    /\ maintenance' = "none"
    /\ UNCHANGED <<dbVars, pageVars, modeVars, screenVars, refreshVars, alertTimer,
                   maintenances>>
------------------------------------------------------------------------------
Next ==
    \/ \E e \in Event : Save(e) \/ EmitLiveAlert(e) \/ LiveAlert(e) \/ LiveAlertLost(e)
    \/ Wipe
    \/ Poll \/ ThreeSecondsPass
    \/ FetchDashboardData \/ RefreshSucceeds \/ RefreshFails
    \/ RefreshAfterAlert
    \/ WarmRead \/ ApplyBootstrap \/ WarmFails
    \/ EnterDemo \/ LeaveDemo \/ DemoAlert
    \/ StartMaintenance \/ EndMaintenance \/ MaintenanceFails

\* The timers of a visible tab run and a fetch ends.  That the route answers again and
\* again, and the answer arrives, is an assumption about the network.
Fairness ==
    /\ WF_vars(Poll) /\ WF_vars(ThreeSecondsPass)
    /\ WF_vars(RefreshFails)
    /\ SF_vars(FetchDashboardData) /\ SF_vars(RefreshSucceeds)

Spec == Init /\ [][Next]_vars /\ Fairness
------------------------------------------------------------------------------
(***************************************************************************)
(* Properties.                                                             *)
(***************************************************************************)
Shown == (liveAlerts \cup attackEvents) \ cleared

\* An event on the screen that is still in the database stays on the screen, whichever of
\* polls, alerts and deletions overlap: alerts are dropped only for a polled event, and no
\* answer is older than the list it replaces.  Switching the mode and maintenance change
\* the screen on purpose; the page's own load, which may overlap a refresh, by accident.
ShownStaysShown ==
    [][\A e \in Shown \cap db \cap db' :
         (/\ epoch' = epoch
          /\ maintenance' = maintenance
          /\ warm'.state = warm.state
          /\ flight # NoFlight => flight.warmOver)
            => e \in Shown']_vars

\* A refresh that an alert or maintenance asked for while another was in flight begins
\* when that one ends, however it ends, unless the mode is switched ("Bypass the 3s
\* coalesce window so polled attackEvents catch up quickly.", SocketContext.tsx).
OwedIsPaid ==
    [][(owed /\ ~pending' /\ epoch' = epoch)
         => flight' # NoFlight /\ ~flight'.answered]_vars

\* A demo mode that was entered with no load, maintenance or remembered refresh
\* outstanding shows only fixtures, whatever fetch was in flight (SocketContext.tsx).
CleanDemoIsMock ==
    demoMode /\ clean => (liveAlerts \cup attackEvents) \cap Event = {}

\* When nothing changes any more, a dashboard in live mode comes to list exactly what is
\* in the database, fixtures gone (SocketContext.tsx).
FeedConverges == <>[](demoMode \/ attackEvents = db)

\* NOT true of the code, see the README: "Toggle demo mode (mock data vs real DB)"
\* (TopBar.tsx).
DemoIsMock == demoMode => (liveAlerts \cup attackEvents) \cap Event = {}
==============================================================================
