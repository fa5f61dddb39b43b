-------------------------- MODULE DashboardFeedProofs --------------------------
(***************************************************************************)
(* Proofs about DashboardFeed.  The argument is about the refresh in       *)
(* flight: its answer holds every event of the list it will replace that   *)
(* is still in the database, or it is void.                                *)
(***************************************************************************)
EXTENDS DashboardFeed, TLAPS

USE FeedAssumption DEF FeedAssumption, Epoch

Saved == {e \in Event : alert[e] # "none"}

\* Nobody has seen an event that is not saved yet, so saving it changes no comparison of
\* a list with the database.
SavedInv ==
    /\ db \subseteq Saved
    /\ warm.snapshot \subseteq Saved
    /\ attackEvents \cap Event \subseteq Saved
    /\ flight # NoFlight => flight.snapshot \subseteq Saved

\* In the demo mode no alert is on its way and only forced refreshes survive.
DeafInv ==
    demoMode =>
        /\ ~alertTimer
        /\ \A e \in Event : alert[e] # "wire"
        /\ flight # NoFlight => flight.force

\* What the answer in flight may replace.
FlightInv ==
    flight # NoFlight =>
        /\ flight.epoch <= epoch
        /\ flight.warmOver => warm = WarmOver
        /\ (flight.answered /\ flight.epoch = epoch /\ flight.warmOver)
              => attackEvents \cap db \subseteq flight.snapshot

\* A refresh that is owed is pending, and nothing will throttle it.
OwedInv == owed => flight # NoFlight /\ pending /\ (~recent \/ flight.force)

CleanInv ==
    demoMode /\ clean =>
        /\ warm = WarmOver /\ maintenance # "live" /\ ~pending
        /\ flight # NoFlight => flight.epoch # epoch
        /\ (liveAlerts \cup attackEvents) \cap Event = {}

IInv == TypeOK /\ SavedInv /\ DeafInv /\ FlightInv /\ OwedInv /\ CleanInv

\* A fetch that has begun has no answer yet.
Begun(force, ep) ==
    flight' # NoFlight =>
        /\ flight'.epoch = ep /\ flight'.force = force
        /\ ~flight'.answered /\ flight'.snapshot = {}
        /\ flight'.warmOver => warm = WarmOver

LEMMA FetchType ==
    ASSUME NEW force \in BOOLEAN, NEW ep \in Epoch, NEW throttled \in BOOLEAN
    PROVE /\ Fetch(force, ep, throttled) \in Flight \cup {NoFlight}
          /\ throttled <=> Fetch(force, ep, throttled) = NoFlight
          /\ ~throttled => Fetch(force, ep, throttled) =
                [epoch |-> ep, force |-> force, answered |-> FALSE, snapshot |-> {},
                 warmOver |-> warm = WarmOver]
<1>1. [epoch |-> ep, force |-> force, answered |-> FALSE, snapshot |-> {},
       warmOver |-> warm = WarmOver] \in Flight
  BY DEF Flight
<1> QED
  BY <1>1 DEF Fetch

\* A call of refresh changes the refresh in flight only by starting one, and what is owed
\* stays owed.
LEMMA RefreshBegins ==
    ASSUME TypeOK, OwedInv,
           NEW force \in BOOLEAN, NEW wasRecent \in BOOLEAN, NEW ep \in Epoch,
           Refresh(force, wasRecent, ep), wasRecent => recent
    PROVE /\ flight' \in Flight \cup {NoFlight}
          /\ pending' \in BOOLEAN /\ recent' \in BOOLEAN /\ owed' \in BOOLEAN
          /\ flight' = flight \/ Begun(force, ep)
          /\ flight # NoFlight => flight' = flight
          /\ flight = NoFlight => pending' = pending
          /\ owed /\ ~pending' => FALSE
          /\ OwedInv'
<1> DEFINE throttled == wasRecent /\ ~force
<1>1. throttled \in BOOLEAN
  OBVIOUS
<1>2. CASE flight # NoFlight
  BY <1>2 DEF Refresh, TypeOK, OwedInv
<1>3. CASE flight = NoFlight
  BY <1>1, <1>3, FetchType DEF Refresh, TypeOK, OwedInv, Begun
<1> QED
  BY <1>2, <1>3

\* The end of a refresh pays what is owed.
LEMMA FinallyBegins ==
    ASSUME TypeOK, OwedInv, flight # NoFlight, Finally(flight)
    PROVE /\ flight' \in Flight \cup {NoFlight}
          /\ pending' = FALSE /\ recent' \in BOOLEAN /\ owed' = FALSE
          /\ cleared' = {} \/ cleared' = cleared
          /\ Begun(flight.force, epoch)
          /\ ~pending => flight' = NoFlight
          /\ owed => flight' # NoFlight
<1>1. flight.force \in BOOLEAN /\ epoch \in Epoch
  BY DEF TypeOK, Flight
<1> DEFINE throttled == recent /\ ~flight.force
<1>2. throttled \in BOOLEAN
  BY DEF TypeOK, Flight
<1>3. CASE pending
  <2>1. /\ flight' = Fetch(flight.force, epoch, throttled)
        /\ recent' = TRUE /\ owed' = FALSE /\ pending' = FALSE
        /\ cleared' = {} \/ cleared' = cleared
    BY <1>3 DEF Finally
  <2>2. owed => ~throttled
    BY DEF OwedInv
  <2> HIDE DEF throttled
  <2>3. flight' \in Flight \cup {NoFlight} /\ (owed => flight' # NoFlight)
    BY <1>1, <1>2, <2>1, <2>2, FetchType
  <2>4. Begun(flight.force, epoch)
    BY <1>1, <1>2, <2>1, FetchType DEF Begun
  <2> QED
    BY <1>3, <2>1, <2>3, <2>4
<1>4. CASE ~pending
  BY <1>1, <1>4 DEF Finally, TypeOK, OwedInv, Begun
<1> QED
  BY <1>3, <1>4

LEMMA InitInv == Init => IInv
<1> SUFFICES ASSUME Init PROVE IInv
  OBVIOUS
<1>1. /\ flight \in Flight \cup {NoFlight}
      /\ flight # NoFlight =>
            /\ flight.epoch = 0 /\ ~flight.answered /\ flight.snapshot = {}
            /\ ~flight.warmOver
  <2>1. warm # WarmOver
    BY DEF Init, WarmOver
  <2>2. 0 \in Epoch
    OBVIOUS
  <2>3. CASE ~bootstrap
    <3>1. flight = [epoch |-> 0, force |-> FALSE, answered |-> FALSE, snapshot |-> {},
                    warmOver |-> warm = WarmOver]
      BY <2>3 DEF Init, Fetch
    <3>2. flight \in Flight
      BY <2>2, <3>1 DEF Flight
    <3> QED
      BY <2>1, <3>1, <3>2
  <2>4. CASE bootstrap
    BY <2>4 DEF Init
  <2> QED
    BY <2>3, <2>4
<1>2. alert \in [Event -> {"none", "due", "wire", "over"}] /\ warm \in Warm
  BY DEF Init, Warm
<1>3. TypeOK
  <2>1. epoch \in Epoch /\ wipes \in 0..MaxWipes /\ maintenances \in 0..MaxMaintenance
    BY DEF Init
  <2>2. /\ demoMode \in BOOLEAN /\ bootstrap \in BOOLEAN /\ pending \in BOOLEAN
        /\ recent \in BOOLEAN /\ alertTimer \in BOOLEAN /\ owed \in BOOLEAN /\ clean \in BOOLEAN
    BY DEF Init
  <2>3. db = {} /\ liveAlerts = {} /\ attackEvents = {} /\ cleared = {} /\ maintenance = "none"
    BY DEF Init
  <2> QED
    BY <1>1, <1>2, <2>1, <2>2, <2>3 DEF TypeOK
<1>4. SavedInv /\ DeafInv
  BY <1>1 DEF Init, SavedInv, DeafInv
<1>5. FlightInv
  <2>1. attackEvents = {} /\ epoch = 0
    BY DEF Init
  <2> QED
    BY <1>1, <2>1 DEF FlightInv
<1>6. OwedInv /\ CleanInv
  BY DEF Init, OwedInv, CleanInv
<1> QED
  BY <1>3, <1>4, <1>5, <1>6 DEF IInv

LEMMA FlightTyped ==
    ASSUME TypeOK, flight # NoFlight
    PROVE /\ flight.epoch \in 0..MaxToggles /\ flight.force \in BOOLEAN
          /\ flight.answered \in BOOLEAN /\ flight.snapshot \subseteq Event
          /\ flight.warmOver \in BOOLEAN
  BY DEF TypeOK, Flight

\* One lemma per action, one step per part of the invariant.

LEMMA SaveInv ==
    ASSUME IInv, NEW e \in Event, Save(e)
    PROVE IInv'
<1> USE DEF Save, dbVars, pageVars, modeVars, screenVars, refreshVars, maintenanceVars, IInv
<1>1. Saved' = Saved \cup {e} /\ e \notin Saved
  BY DEF TypeOK, Saved
<1>2. flight' = flight /\ attackEvents' = attackEvents /\ warm' = warm
  OBVIOUS
<1>3. TypeOK'
  BY DEF TypeOK
<1>4. SavedInv'
  BY <1>1, <1>2 DEF SavedInv, Saved
<1>5. DeafInv'
  BY DEF DeafInv
<1>6. FlightInv'
  <2>1. attackEvents \cap db' = attackEvents \cap db
    BY <1>1 DEF SavedInv
  <2> QED
    BY <2>1 DEF FlightInv
<1>7. OwedInv'
  BY DEF OwedInv
<1>8. CleanInv'
  BY DEF CleanInv
<1> QED
  BY <1>3, <1>4, <1>5, <1>6, <1>7, <1>8

LEMMA EmitLiveAlertInv ==
    ASSUME IInv, NEW e \in Event, EmitLiveAlert(e)
    PROVE IInv'
<1> USE DEF EmitLiveAlert, dbVars, pageVars, modeVars, screenVars, refreshVars,
        maintenanceVars, IInv
<1>1. TypeOK'
  BY DEF TypeOK
<1>2. SavedInv' /\ DeafInv'
  BY DEF SavedInv, DeafInv, Saved
<1>3. FlightInv' /\ OwedInv' /\ CleanInv'
  BY DEF FlightInv, OwedInv, CleanInv
<1> QED
  BY <1>1, <1>2, <1>3

LEMMA LiveAlertInv ==
    ASSUME IInv, NEW e \in Event, LiveAlert(e)
    PROVE IInv'
<1> USE DEF LiveAlert, dbVars, pageVars, modeVars, screenVars, refreshVars, maintenanceVars,
        IInv
<1>1. TypeOK'
  BY DEF TypeOK
<1>2. SavedInv' /\ DeafInv'
  BY DEF SavedInv, DeafInv, Saved
<1>3. FlightInv' /\ OwedInv' /\ CleanInv'
  BY DEF FlightInv, OwedInv, CleanInv, DeafInv
<1> QED
  BY <1>1, <1>2, <1>3

LEMMA LiveAlertLostInv ==
    ASSUME IInv, NEW e \in Event, LiveAlertLost(e)
    PROVE IInv'
<1> USE DEF LiveAlertLost, dbVars, pageVars, modeVars, screenVars, refreshVars,
        maintenanceVars, IInv
<1>1. TypeOK'
  BY DEF TypeOK
<1>2. SavedInv' /\ DeafInv'
  BY DEF SavedInv, DeafInv, Saved
<1>3. FlightInv' /\ OwedInv' /\ CleanInv'
  BY DEF FlightInv, OwedInv, CleanInv
<1> QED
  BY <1>1, <1>2, <1>3

LEMMA WipeInv ==
    ASSUME IInv, Wipe
    PROVE IInv'
<1> USE DEF Wipe, dbVars, pageVars, modeVars, screenVars, refreshVars, maintenanceVars, IInv
<1>1. TypeOK'
  BY DEF TypeOK
<1>2. SavedInv' /\ DeafInv'
  BY DEF SavedInv, DeafInv, Saved
<1>3. FlightInv' /\ OwedInv' /\ CleanInv'
  BY DEF FlightInv, OwedInv, CleanInv
<1> QED
  BY <1>1, <1>2, <1>3

LEMMA ThreeSecondsPassInv ==
    ASSUME IInv, ThreeSecondsPass
    PROVE IInv'
<1> USE DEF ThreeSecondsPass, dbVars, pageVars, modeVars, screenVars, refreshVars,
        maintenanceVars, IInv
<1>1. TypeOK'
  BY DEF TypeOK
<1>2. SavedInv' /\ DeafInv'
  BY DEF SavedInv, DeafInv, Saved
<1>3. FlightInv' /\ OwedInv' /\ CleanInv'
  BY DEF FlightInv, OwedInv, CleanInv
<1> QED
  BY <1>1, <1>2, <1>3

LEMMA WarmReadInv ==
    ASSUME IInv, WarmRead
    PROVE IInv'
<1> USE DEF WarmRead, WarmOver, dbVars, pageVars, modeVars, screenVars, refreshVars,
        maintenanceVars, IInv
<1>1. TypeOK'
  BY DEF TypeOK, Flight, Warm, WarmOver
<1>2. SavedInv' /\ DeafInv'
  BY DEF SavedInv, DeafInv, Saved
<1>3. FlightInv' /\ OwedInv' /\ CleanInv'
  BY DEF FlightInv, OwedInv, CleanInv
<1> QED
  BY <1>1, <1>2, <1>3

LEMMA ApplyBootstrapInv ==
    ASSUME IInv, ApplyBootstrap
    PROVE IInv'
<1> USE DEF ApplyBootstrap, Apply, WarmOver, dbVars, pageVars, modeVars, screenVars,
        refreshVars, maintenanceVars, IInv
<1>1. TypeOK'
  BY DEF TypeOK, Flight, Warm, WarmOver
<1>2. SavedInv' /\ DeafInv'
  BY DEF SavedInv, DeafInv, Saved
<1>3. FlightInv' /\ OwedInv' /\ CleanInv'
  BY DEF FlightInv, OwedInv, CleanInv
<1> QED
  BY <1>1, <1>2, <1>3

LEMMA WarmFailsInv ==
    ASSUME IInv, WarmFails
    PROVE IInv'
<1> USE DEF WarmFails, WarmOver, dbVars, pageVars, modeVars, screenVars, refreshVars,
        maintenanceVars, IInv
<1>1. TypeOK'
  BY DEF TypeOK, Flight, Warm, WarmOver
<1>2. SavedInv' /\ DeafInv'
  BY DEF SavedInv, DeafInv, Saved
<1>3. FlightInv' /\ OwedInv' /\ CleanInv'
  BY DEF FlightInv, OwedInv, CleanInv
<1> QED
  BY <1>1, <1>2, <1>3

LEMMA DemoAlertInv ==
    ASSUME IInv, DemoAlert
    PROVE IInv'
<1> USE DEF DemoAlert, dbVars, pageVars, modeVars, screenVars, refreshVars, maintenanceVars,
        IInv
<1>1. TypeOK'
  BY DEF TypeOK
<1>2. SavedInv' /\ DeafInv'
  BY DEF SavedInv, DeafInv, Saved
<1>3. FlightInv' /\ OwedInv' /\ CleanInv'
  BY DEF FlightInv, OwedInv, CleanInv
<1> QED
  BY <1>1, <1>2, <1>3

LEMMA StartMaintenanceInv ==
    ASSUME IInv, StartMaintenance
    PROVE IInv'
<1> USE DEF StartMaintenance, dbVars, pageVars, modeVars, screenVars, refreshVars,
        maintenanceVars, IInv
<1>1. TypeOK'
  BY DEF TypeOK
<1>2. SavedInv' /\ DeafInv'
  BY DEF SavedInv, DeafInv, Saved
<1>3. FlightInv' /\ OwedInv' /\ CleanInv'
  BY DEF FlightInv, OwedInv, CleanInv
<1> QED
  BY <1>1, <1>2, <1>3

LEMMA MaintenanceFailsInv ==
    ASSUME IInv, MaintenanceFails
    PROVE IInv'
<1> USE DEF MaintenanceFails, dbVars, pageVars, modeVars, screenVars, refreshVars,
        maintenanceVars, IInv
<1>1. TypeOK'
  BY DEF TypeOK
<1>2. SavedInv' /\ DeafInv'
  BY DEF SavedInv, DeafInv, Saved
<1>3. FlightInv' /\ OwedInv' /\ CleanInv'
  BY DEF FlightInv, OwedInv, CleanInv
<1> QED
  BY <1>1, <1>2, <1>3

LEMMA FetchDashboardDataInv ==
    ASSUME IInv, FetchDashboardData
    PROVE IInv'
<1> USE DEF FetchDashboardData, dbVars, pageVars, modeVars, screenVars, refreshVars,
        maintenanceVars, IInv
<1>1. flight' \in Flight /\ flight' # NoFlight
  <2>1. flight \in Flight /\ db \subseteq Event
    BY DEF TypeOK
  <2>2. [flight EXCEPT !.answered = TRUE, !.snapshot = db] \in Flight
    BY <2>1 DEF Flight
  <2> QED
    BY <2>2
<1>2. /\ flight'.epoch = flight.epoch /\ flight'.force = flight.force
      /\ flight'.warmOver = flight.warmOver /\ flight'.snapshot = db
  BY DEF TypeOK, Flight
<1>3. TypeOK'
  BY <1>1, <1>2 DEF TypeOK, Flight, Warm, WarmOver
<1>4. SavedInv'
  BY <1>1, <1>2 DEF SavedInv, Saved
<1>5. DeafInv'
  BY <1>1, <1>2 DEF DeafInv
<1>6. FlightInv'
  BY <1>1, <1>2 DEF FlightInv
<1>7. OwedInv'
  BY <1>1, <1>2 DEF OwedInv
<1>8. CleanInv'
  BY <1>1, <1>2 DEF CleanInv
<1> QED
  BY <1>3, <1>4, <1>5, <1>6, <1>7, <1>8

LEMMA PollInv ==
    ASSUME IInv, Poll
    PROVE IInv'
<1> USE DEF Poll, dbVars, pageVars, modeVars, screenVars, refreshVars, maintenanceVars, IInv
<1>1. epoch \in Epoch /\ recent \in BOOLEAN
  BY DEF TypeOK
<1>2. /\ flight' \in Flight \cup {NoFlight}
      /\ pending' \in BOOLEAN /\ recent' \in BOOLEAN /\ owed' \in BOOLEAN
      /\ flight' = flight \/ Begun(FALSE, epoch)
      /\ OwedInv'
  BY <1>1, RefreshBegins
<1>3. TypeOK'
  BY <1>2 DEF TypeOK
<1>4. SavedInv'
  BY <1>2 DEF SavedInv, Saved, Begun
<1>5. DeafInv'
  BY <1>2 DEF DeafInv
<1>6. FlightInv'
  BY <1>1, <1>2 DEF FlightInv, Begun
<1>7. OwedInv'
  BY <1>2 DEF OwedInv
<1>8. CleanInv'
  BY <1>2 DEF CleanInv
<1> QED
  BY <1>3, <1>4, <1>5, <1>6, <1>7, <1>8

LEMMA RefreshAfterAlertInv ==
    ASSUME IInv, RefreshAfterAlert
    PROVE IInv'
<1> USE DEF RefreshAfterAlert, dbVars, pageVars, modeVars, screenVars, refreshVars,
        maintenanceVars, IInv
<1>1. epoch \in Epoch /\ ~demoMode
  BY DEF TypeOK, DeafInv
<1>2. /\ flight' \in Flight \cup {NoFlight}
      /\ pending' \in BOOLEAN /\ recent' \in BOOLEAN /\ owed' \in BOOLEAN
      /\ flight' = flight \/ Begun(FALSE, epoch)
      /\ OwedInv'
  BY <1>1, RefreshBegins
<1>3. TypeOK'
  BY <1>2 DEF TypeOK
<1>4. SavedInv'
  BY <1>2 DEF SavedInv, Saved, Begun
<1>5. DeafInv'
  BY <1>1 DEF DeafInv
<1>6. FlightInv'
  BY <1>1, <1>2 DEF FlightInv, Begun
<1>7. OwedInv'
  BY <1>2 DEF OwedInv
<1>8. CleanInv'
  BY <1>1 DEF CleanInv
<1> QED
  BY <1>3, <1>4, <1>5, <1>6, <1>7, <1>8

LEMMA RefreshSucceedsInv ==
    ASSUME IInv, RefreshSucceeds
    PROVE IInv'
<1> USE DEF RefreshSucceeds, Apply, dbVars, pageVars, modeVars, screenVars, refreshVars,
        maintenanceVars, IInv
<1>1. flight # NoFlight /\ Finally(flight)
  OBVIOUS
<1>2. /\ flight' \in Flight \cup {NoFlight}
      /\ pending' = FALSE /\ recent' \in BOOLEAN /\ owed' = FALSE
      /\ cleared' = {} \/ cleared' = cleared
      /\ Begun(flight.force, epoch)
      /\ ~pending => flight' = NoFlight
  BY <1>1, FinallyBegins
<1>3. flight.snapshot \subseteq Event /\ flight.epoch \in Nat /\ epoch \in Nat
  BY <1>1, FlightTyped DEF TypeOK
<1>4. TypeOK'
  BY <1>2, <1>3 DEF TypeOK
<1>5. SavedInv'
  BY <1>1, <1>2, <1>3 DEF SavedInv, Saved, Begun
<1>6. DeafInv'
  BY <1>1, <1>2 DEF DeafInv, Begun
<1>7. FlightInv'
  BY <1>2, <1>3 DEF FlightInv, Begun
<1>8. OwedInv'
  BY <1>2 DEF OwedInv
<1>9. CleanInv'
  BY <1>1, <1>2, <1>3 DEF CleanInv
<1> QED
  BY <1>4, <1>5, <1>6, <1>7, <1>8, <1>9

LEMMA RefreshFailsInv ==
    ASSUME IInv, RefreshFails
    PROVE IInv'
<1> USE DEF RefreshFails, dbVars, pageVars, modeVars, screenVars, refreshVars, maintenanceVars,
        IInv
<1>1. flight # NoFlight /\ Finally(flight)
  OBVIOUS
<1>2. /\ flight' \in Flight \cup {NoFlight}
      /\ pending' = FALSE /\ recent' \in BOOLEAN /\ owed' = FALSE
      /\ cleared' = {} \/ cleared' = cleared
      /\ Begun(flight.force, epoch)
      /\ ~pending => flight' = NoFlight
  BY <1>1, FinallyBegins
<1>3. flight.snapshot \subseteq Event /\ flight.epoch \in Nat /\ epoch \in Nat
  BY <1>1, FlightTyped DEF TypeOK
<1>4. TypeOK'
  BY <1>2, <1>3 DEF TypeOK
<1>5. SavedInv'
  BY <1>1, <1>2, <1>3 DEF SavedInv, Saved, Begun
<1>6. DeafInv'
  BY <1>1, <1>2 DEF DeafInv, Begun
<1>7. FlightInv'
  BY <1>2, <1>3 DEF FlightInv, Begun
<1>8. OwedInv'
  BY <1>2 DEF OwedInv
<1>9. CleanInv'
  BY <1>1, <1>2, <1>3 DEF CleanInv
<1> QED
  BY <1>4, <1>5, <1>6, <1>7, <1>8, <1>9

LEMMA EnterDemoInv ==
    ASSUME IInv, EnterDemo
    PROVE IInv'
<1> USE DEF EnterDemo, Toggle, AbortFlight, dbVars, pageVars, modeVars, screenVars,
        refreshVars, maintenanceVars, IInv
<1>1. epoch \in Nat /\ epoch' = epoch + 1 /\ epoch' \in Epoch
  BY DEF TypeOK
<1>2. \A e \in Event : alert'[e] # "wire" /\ (alert'[e] = "none" <=> alert[e] = "none")
  BY DEF TypeOK
<1>3. flight # NoFlight => flight.epoch \in Nat /\ flight.epoch <= epoch
  BY FlightTyped DEF FlightInv
<1>4. TypeOK'
  BY <1>1 DEF TypeOK
<1>5. SavedInv'
  BY <1>2 DEF SavedInv, Saved
<1>6. DeafInv'
  BY <1>2 DEF DeafInv
<1>7. FlightInv'
  BY <1>1, <1>3 DEF FlightInv
<1>8. OwedInv'
  BY DEF OwedInv
<1>9. CleanInv'
  <2>1. demoMode' /\ clean' => warm' = WarmOver /\ maintenance' # "live" /\ ~pending'
    OBVIOUS
  <2>2. flight' # NoFlight => flight'.epoch # epoch'
    BY <1>1, <1>3
  <2>3. (liveAlerts' \cup attackEvents') \cap Event = {}
    OBVIOUS
  <2> QED
    BY <2>1, <2>2, <2>3 DEF CleanInv
<1> QED
  BY <1>4, <1>5, <1>6, <1>7, <1>8, <1>9

LEMMA LeaveDemoInv ==
    ASSUME IInv, LeaveDemo
    PROVE IInv'
<1> USE DEF LeaveDemo, Toggle, dbVars, pageVars, modeVars, screenVars, refreshVars,
        maintenanceVars, IInv
<1>1. epoch \in Nat /\ epoch' = epoch + 1 /\ epoch' \in Epoch
  BY DEF TypeOK
<1>2. \A e \in Event : alert'[e] = "none" <=> alert[e] = "none"
  BY DEF TypeOK
<1>3. flight # NoFlight => flight.force /\ flight.epoch \in Nat /\ flight.epoch <= epoch
  BY FlightTyped DEF FlightInv, DeafInv
<1>4. /\ flight' \in Flight \cup {NoFlight}
      /\ pending' \in BOOLEAN /\ recent' \in BOOLEAN /\ owed' \in BOOLEAN
      /\ flight' = flight \/ Begun(FALSE, epoch')
      /\ OwedInv'
  <2>1. CASE bootstrap
    BY <1>3, <2>1 DEF TypeOK, OwedInv
  <2>2. CASE ~bootstrap
    <3>1. Refresh(FALSE, recent, epoch') /\ recent \in BOOLEAN
      BY <2>2 DEF TypeOK
    <3> QED
      BY <1>1, <3>1, RefreshBegins
  <2> QED
    BY <2>1, <2>2
<1>5. TypeOK'
  BY <1>1, <1>4 DEF TypeOK
<1>6. SavedInv'
  BY <1>2, <1>4 DEF SavedInv, Saved, Begun
<1>7. DeafInv'
  BY DEF DeafInv
<1>8. FlightInv'
  BY <1>1, <1>3, <1>4 DEF FlightInv, Begun
<1>9. OwedInv'
  BY <1>4 DEF OwedInv
<1>10. CleanInv'
  BY DEF CleanInv
<1> QED
  BY <1>5, <1>6, <1>7, <1>8, <1>9, <1>10

LEMMA EndMaintenanceInv ==
    ASSUME IInv, EndMaintenance
    PROVE IInv'
<1> USE DEF EndMaintenance, dbVars, pageVars, modeVars, screenVars, refreshVars,
        maintenanceVars, IInv
<1>1. /\ flight' \in Flight \cup {NoFlight}
      /\ pending' \in BOOLEAN /\ recent' \in BOOLEAN /\ owed' \in BOOLEAN
      /\ flight' = flight \/ Begun(TRUE, epoch)
      /\ OwedInv'
  <2>1. CASE maintenance = "live"
    <3>1. Refresh(TRUE, recent, epoch) /\ recent \in BOOLEAN /\ epoch \in Epoch
      BY <2>1 DEF TypeOK
    <3> QED
      BY <3>1, RefreshBegins
  <2>2. CASE maintenance # "live"
    BY <2>2 DEF TypeOK, OwedInv
  <2> QED
    BY <2>1, <2>2
<1>2. epoch \in Nat
  BY DEF TypeOK
<1>3. cleared' \subseteq Event \cup {Mock}
  <2>1. CASE maintenance = "live"
    BY <2>1
  <2>2. CASE maintenance # "live"
    <3>1. PICK late \in SUBSET {e \in Event : alert[e] = "none"} :
            cleared' = {Mock} \cup {e \in Event : alert[e] # "none"} \cup late
      BY <2>2
    <3> QED
      BY <3>1
  <2> QED
    BY <2>1, <2>2
<1>4. TypeOK'
  BY <1>1, <1>2, <1>3 DEF TypeOK
<1>5. SavedInv'
  BY <1>1 DEF SavedInv, Saved, Begun
<1>6. DeafInv'
  BY <1>1 DEF DeafInv, Begun
<1>7. FlightInv'
  BY <1>1, <1>2 DEF FlightInv, Begun
<1>8. OwedInv'
  BY <1>1 DEF OwedInv
<1>9. CleanInv'
  BY DEF CleanInv
<1> QED
  BY <1>4, <1>5, <1>6, <1>7, <1>8, <1>9

LEMMA StepInv == IInv /\ [Next]_vars => IInv'
<1>1. IInv /\ UNCHANGED vars => IInv'
  BY DEF IInv, TypeOK, SavedInv, DeafInv, FlightInv, OwedInv, CleanInv, Saved, vars, dbVars,
          pageVars, modeVars, screenVars, refreshVars, maintenanceVars
<1> QED
  BY <1>1, SaveInv, EmitLiveAlertInv, LiveAlertInv, LiveAlertLostInv, WipeInv, PollInv,
          ThreeSecondsPassInv, FetchDashboardDataInv, RefreshSucceedsInv, RefreshFailsInv,
          RefreshAfterAlertInv, WarmReadInv, ApplyBootstrapInv, WarmFailsInv, EnterDemoInv,
          LeaveDemoInv, DemoAlertInv, StartMaintenanceInv, EndMaintenanceInv,
          MaintenanceFailsInv DEF Next

\* Every variable keeps its type.
THEOREM TypeCorrect == Spec => []TypeOK
<1>1. IInv => TypeOK
  BY DEF IInv
<1> QED
  BY InitInv, StepInv, <1>1, PTL DEF Spec

\* The demo mode shows only fixtures if nothing but a fetch was outstanding when it was
\* entered: the epoch of that fetch is over.
THEOREM CleanDemoIsMockHolds == Spec => []CleanDemoIsMock
<1>1. IInv => CleanDemoIsMock
  BY DEF IInv, CleanInv, CleanDemoIsMock
<1> QED
  BY InitInv, StepInv, <1>1, PTL DEF Spec

Paid == (owed /\ ~pending' /\ epoch' = epoch) => flight' # NoFlight /\ ~flight'.answered

Kept ==
    \A e \in Shown \cap db \cap db' :
        (/\ epoch' = epoch
         /\ maintenance' = maintenance
         /\ warm'.state = warm.state
         /\ flight # NoFlight => flight.warmOver)
           => e \in Shown'

LEMMA StepPays == IInv /\ [Next]_vars => Paid
<1> SUFFICES ASSUME IInv, [Next]_vars PROVE Paid
  OBVIOUS
<1> USE DEF IInv
<1>1. CASE RefreshSucceeds \/ RefreshFails
  <2>1. flight # NoFlight /\ Finally(flight)
    BY <1>1 DEF RefreshSucceeds, RefreshFails
  <2> QED
    BY <2>1, FinallyBegins DEF Paid, Begun
<1>2. ASSUME pending' = pending \/ pending' = TRUE PROVE Paid
  BY <1>2 DEF Paid, OwedInv
<1>3. CASE EnterDemo \/ LeaveDemo
  <2>1. epoch' = epoch + 1
    BY <1>3 DEF EnterDemo, LeaveDemo, Toggle
  <2>2. epoch + 1 # epoch
    BY DEF TypeOK
  <2> QED
    BY <2>1, <2>2 DEF Paid
<1>4. ASSUME NEW force, NEW wasRecent, Refresh(force, wasRecent, epoch) PROVE Paid
  BY <1>2, <1>4 DEF Refresh
<1>5. CASE EndMaintenance
  BY <1>2, <1>4, <1>5 DEF EndMaintenance, refreshVars
<1>6. CASE Poll \/ RefreshAfterAlert
  BY <1>4, <1>6 DEF Poll, RefreshAfterAlert
<1> QED
  BY <1>1, <1>2, <1>3, <1>5, <1>6
     DEF Next, Save, EmitLiveAlert, LiveAlert, LiveAlertLost, Wipe, ThreeSecondsPass,
         FetchDashboardData, WarmRead, ApplyBootstrap, WarmFails, DemoAlert, StartMaintenance,
         MaintenanceFails, vars, refreshVars

\* What an alert or maintenance asked for begins when the refresh before it ends: nothing
\* can throttle it.
THEOREM OwedIsPaidHolds == Spec => OwedIsPaid
<1>1. IInv /\ [Next]_vars => [Paid]_vars
  BY StepPays
<1> QED
  BY InitInv, StepInv, <1>1, PTL DEF Spec, OwedIsPaid, Paid

LEMMA StepKeeps == IInv /\ [Next]_vars => Kept
<1> SUFFICES ASSUME IInv, [Next]_vars PROVE Kept
  OBVIOUS
<1> USE DEF IInv
<1> SUFFICES ASSUME NEW e \in Shown \cap db \cap db',
                    epoch' = epoch, maintenance' = maintenance, warm'.state = warm.state,
                    flight # NoFlight => flight.warmOver
             PROVE  e \in Shown'
  BY DEF Kept
<1>1. e \in Event /\ e # Mock
  BY DEF TypeOK
<1>2. CASE UNCHANGED screenVars
  BY <1>2 DEF Shown, screenVars
<1>3. CASE \E a \in Event : LiveAlert(a)
  BY <1>3 DEF LiveAlert, Shown
<1>4. CASE RefreshFails
  BY <1>4, FinallyBegins DEF RefreshFails, Shown
<1>5. CASE RefreshSucceeds
  <2>1. cleared' = {} \/ cleared' = cleared
    BY <1>5, FinallyBegins DEF RefreshSucceeds
  <2>2. e \in liveAlerts \cup attackEvents => e \in liveAlerts' \cup attackEvents'
    BY <1>5 DEF RefreshSucceeds, Apply, FlightInv
  <2> QED
    BY <2>1, <2>2 DEF Shown
<1>6. CASE DemoAlert
  BY <1>6 DEF DemoAlert, Shown
<1>7. ~ApplyBootstrap
  BY DEF ApplyBootstrap, WarmOver
<1>8. ~EnterDemo /\ ~LeaveDemo
  <2>1. EnterDemo \/ LeaveDemo => epoch' = epoch + 1
    BY DEF EnterDemo, LeaveDemo, Toggle
  <2>2. epoch + 1 # epoch
    BY DEF TypeOK
  <2> QED
    BY <2>1, <2>2
<1>9. ~EndMaintenance
  BY DEF EndMaintenance
<1> QED
  BY <1>2, <1>3, <1>4, <1>5, <1>6, <1>7, <1>8, <1>9
     DEF Next, Save, EmitLiveAlert, LiveAlertLost, Wipe, Poll, ThreeSecondsPass,
         FetchDashboardData, RefreshAfterAlert, WarmRead, WarmFails, StartMaintenance,
         MaintenanceFails, vars

\* An event on the screen that is still in the database stays on the screen: an answer
\* that may be applied has every polled event that was not deleted since.
THEOREM ShownStaysShownHolds == Spec => ShownStaysShown
<1>1. IInv /\ [Next]_vars => [Kept]_vars
  BY StepKeeps
<1> QED
  BY InitInv, StepInv, <1>1, PTL DEF Spec, ShownStaysShown, Kept
==============================================================================
