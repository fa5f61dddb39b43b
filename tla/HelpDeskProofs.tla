---------------------------- MODULE HelpDeskProofs ----------------------------
(***************************************************************************)
(* Proofs about HelpDesk, for every set of numbers, texts, forms and calls *)
(* and whatever the driver and the database do.                            *)
(***************************************************************************)
EXTENDS HelpDesk, TLAPS

USE HelpDeskAssumption, ConnectionAssumption DEF HelpDeskAssumption, ConnectionAssumption

LEMMA BlankType == Blank \in FormState /\ Blank.at = "idle"
BY DEF Blank, FormState

LEMMA CreatingType ==
    ASSUME NEW text \in Text
    PROVE  [Blank EXCEPT !.at = "creating", !.text = text] \in FormState
BY DEF Blank, FormState

LEMMA FormAtType ==
    ASSUME NEW q \in FormState, NEW n \in Number, NEW at \in {"reporting", "thanked"}
    PROVE  /\ [q EXCEPT !.number = n, !.at = at] \in FormState
           /\ [q EXCEPT !.at = at] \in FormState
BY DEF FormState

LEMMA NewTicketType ==
    ASSUME NEW text \in Text
    PROVE  /\ NewTicket(text) \in Ticket
           /\ NewTicket(text).text = text
           /\ NewTicket(text).isSuspicious = analyzeTicket(text)
<1>1. text \in TextType
  OBVIOUS
<1>2. normalizeSource(text.source) \in Source
  BY DEF normalizeSource, Source
<1>3. analyzeTicket(text) \in BOOLEAN
  BY <1>1 DEF analyzeTicket, TextType
<1> QED
  BY <1>2, <1>3 DEF NewTicket, Ticket

LEMMA StatusType ==
    ASSUME NEW k \in Ticket, NEW status \in Status
    PROVE  /\ [k EXCEPT !.status = status] \in Ticket
           /\ [k EXCEPT !.status = status].text = k.text
           /\ [k EXCEPT !.status = status].isSuspicious = k.isSuspicious
BY DEF Ticket

LEMMA RowsType ==
    ASSUME TypeOK
    PROVE  /\ NoRows \in Rows
           /\ \A f \in Filter : listTickets(f) \in Rows
BY DEF NoRows, Rows, listTickets, TypeOK

LEMMA QuietType == Quiet \in CallState /\ Failed \in CallState
<1>1. NoRows \in Rows
  BY DEF NoRows, Rows
<1> QED
  BY <1>1 DEF Quiet, Failed, CallState

LEMMA InitType == Init => TypeOK
BY BlankType, QuietType DEF Init, TypeOK, InitConnections, ConnectionType, Rows, NoRows

\* Every step of the connections keeps their types.
LEMMA GetConnType ==
    ASSUME ConnectionType, NEW h \in Handle, getConn(h), UNCHANGED dbVars
    PROVE  ConnectionType'
BY DEF ConnectionType, getConn, createConnection, dbVars, connVars

LEMMA DriverType == ConnectionType /\ Driver => ConnectionType'
<1> SUFFICES ASSUME ConnectionType, Driver PROVE ConnectionType'
  OBVIOUS
<1> USE DEF ConnectionType, connVars, dbVars
<1>1. ASSUME NEW h \in Handle, Attempt(h) PROVE ConnectionType'
  BY <1>1 DEF Attempt
<1>2. ASSUME NEW h \in Handle, Notice(h) PROVE ConnectionType'
  <2>1. UNCHANGED <<first, dbUp, outages>>
    BY <1>2 DEF Notice
  <2>2. conn' = [conn EXCEPT ![h] = IF dbUp THEN "connected" ELSE "disconnected"]
    BY <1>2 DEF Notice
  <2> QED
    BY <2>1, <2>2
<1>3. CASE Outage
  <2>1. UNCHANGED <<conn, first>> /\ dbUp' = FALSE
    BY <1>3 DEF Outage
  <2>2. outages' = outages + 1 /\ outages < MaxOutages
    BY <1>3 DEF Outage
  <2>3. outages' \in 0..MaxOutages
    BY <2>2
  <2> QED
    BY <2>1, <2>3
<1>4. CASE Recovery
  BY <1>4 DEF Recovery
<1> QED
  BY <1>1, <1>2, <1>3, <1>4 DEF Driver

------------------------------------------------------------------------------
(***************************************************************************)
(* The invariants: a number that a form was given is its own, and a row,   *)
(* shown or under way, is the ticket unless it was written since.          *)
(***************************************************************************)
FormInv ==
    \A f \in Form :
        /\ form[f].at = "creating" => form[f].text \in Text
        /\ form[f].at \in {"reporting", "thanked"} =>
             /\ form[f].number \in Number
             /\ ticket[form[f].number] # NoTicket
             /\ ticket[form[f].number].text = form[f].text
        /\ form[f].at = "thanked" =>
             (ticket[form[f].number].isSuspicious => form[f].number \in tried)

ShownInv ==
    \A n \in Number : shown[n] # NotShown =>
        /\ ticket[n] # NoTicket
        /\ n \notin behind => shown[n] = ticket[n]

AnswerInv ==
    \A c \in Call, n \in Number : (call[c].at = "answered" /\ call[c].rows[n] # NotShown) =>
        /\ ticket[n] # NoTicket
        /\ n \notin call[c].old => call[c].rows[n] = ticket[n]

UpdateInv ==
    \A c \in Call : (call[c].of = "update" /\ call[c].at \in {"waiting", "connected", "answered"}) =>
        call[c].number \in Number /\ ticket[call[c].number] # NoTicket

IInv == TypeOK /\ FormInv /\ ShownInv /\ AnswerInv /\ UpdateInv

LEMMA InitInv == Init => IInv
<1> SUFFICES ASSUME Init PROVE IInv
  OBVIOUS
<1>1. \A n \in Number : shown[n] = NotShown
  BY DEF Init, NoRows
<1>2. \A c \in Call : call[c].at = "idle" /\ call[c].of = "none"
  BY DEF Init, Quiet
<1>3. \A f \in Form : form[f].at = "idle"
  BY BlankType DEF Init
<1> QED
  BY <1>1, <1>2, <1>3, InitType DEF IInv, FormInv, ShownInv, AnswerInv, UpdateInv

\* A status that is set takes no ticket away and leaves what forms and rows rely on.
LEMMA StatusSet ==
    ASSUME TypeOK, NEW n \in Number, NEW status \in Status, ticket[n] # NoTicket,
           SetStatus(n, status)
    PROVE  /\ ticket' \in [Number -> Ticket \cup {NoTicket}]
           /\ ticket'[n] \in Ticket
           /\ \A k \in Number : ticket[k] # NoTicket =>
                /\ ticket'[k] # NoTicket
                /\ ticket'[k].text = ticket[k].text
                /\ ticket'[k].isSuspicious = ticket[k].isSuspicious
           /\ \A k \in Number \ {n} : ticket'[k] = ticket[k]
<1>1. ticket[n] \in Ticket
  BY DEF TypeOK
<1>2. [ticket[n] EXCEPT !.status = status] \in Ticket
  BY <1>1, StatusType
<1>3. ticket' = [ticket EXCEPT ![n] = [ticket[n] EXCEPT !.status = status]]
  BY DEF SetStatus
<1>4. ticket'[n] = [ticket[n] EXCEPT !.status = status]
  BY <1>3 DEF TypeOK
<1>5. \A k \in Number \ {n} : ticket'[k] = ticket[k]
  BY <1>3 DEF TypeOK
<1>6. ticket'[n].text = ticket[n].text /\ ticket'[n].isSuspicious = ticket[n].isSuspicious
  BY <1>1, <1>4, StatusType
<1> QED
  BY <1>1, <1>2, <1>3, <1>4, <1>5, <1>6 DEF TypeOK

\* What a form was given stays its own whatever is done to statuses.
LEMMA FormsKept ==
    ASSUME FormInv, UNCHANGED <<form, tried>>,
           \A k \in Number : ticket[k] # NoTicket =>
                /\ ticket'[k] # NoTicket
                /\ ticket'[k].text = ticket[k].text
                /\ ticket'[k].isSuspicious = ticket[k].isSuspicious
    PROVE  FormInv'
BY DEF FormInv

------------------------------------------------------------------------------
(***************************************************************************)
(* The contact page.                                                       *)
(***************************************************************************)
LEMMA StepSubmit ==
    ASSUME IInv, NEW f \in Form, submitContact(f)
    PROVE  IInv'
<1> USE DEF connectionVars, panelVars
<1>1. PICK text \in Text :
        form' = [form EXCEPT ![f] = [Blank EXCEPT !.at = "creating", !.text = text]]
  BY DEF submitContact
<1>2. /\ UNCHANGED <<connVars, dbVars, ticket, shown, call, tried, behind>>
  BY DEF submitContact
<1>3. TypeOK'
  BY <1>1, <1>2, CreatingType
     DEF IInv, TypeOK, ConnectionType, connVars, dbVars
<1>4. form'[f].at = "creating" /\ form'[f].text = text
  BY <1>1 DEF IInv, TypeOK, Blank
<1>5. \A g \in Form \ {f} : form'[g] = form[g]
  BY <1>1 DEF IInv, TypeOK
<1>6. FormInv'
  BY <1>2, <1>4, <1>5 DEF IInv, FormInv
<1> QED
  BY <1>2, <1>3, <1>6 DEF IInv, ShownInv, AnswerInv, UpdateInv

LEMMA StepCreate ==
    ASSUME IInv, NEW f \in Form, createTicket(f)
    PROVE  IInv'
<1> DEFINE text == form[f].text
<1>1. form[f].at = "creating" /\ text \in Text /\ form[f] \in FormState
  BY DEF IInv, FormInv, TypeOK, createTicket
<1>2. UNCHANGED <<connVars, dbVars, shown, call, tried, behind>>
  BY DEF createTicket, connectionVars, panelVars
<1>3. CASE form' = [form EXCEPT ![f] = Blank] /\ UNCHANGED ticket
  <2>1. TypeOK'
    BY <1>2, <1>3, BlankType DEF IInv, TypeOK, ConnectionType, connVars, dbVars
  <2>2. form'[f].at = "idle" /\ \A g \in Form \ {f} : form'[g] = form[g]
    BY <1>3, BlankType DEF IInv, TypeOK
  <2>3. FormInv'
    BY <1>2, <1>3, <2>2 DEF IInv, FormInv
  <2> QED
    BY <1>2, <1>3, <2>1, <2>3 DEF IInv, ShownInv, AnswerInv, UpdateInv
<1>4. ASSUME NEW n \in Number, ticket[n] = NoTicket,
             ticket' = [ticket EXCEPT ![n] = NewTicket(text)],
             \/ form' = [form EXCEPT ![f] = [form[f] EXCEPT !.number = n,
                   !.at = IF analyzeTicket(text) THEN "reporting" ELSE "thanked"]]
             \/ form' = [form EXCEPT ![f] = Blank]
      PROVE  IInv'
  <2> DEFINE at == IF analyzeTicket(text) THEN "reporting" ELSE "thanked"
             q == [form[f] EXCEPT !.number = n, !.at = at]
  <2>1. at \in {"reporting", "thanked"}
    OBVIOUS
  <2>2. /\ q \in FormState /\ q.number = n /\ q.at = at /\ q.text = text
    <3> HIDE DEF at
    <3>1. q \in FormState
      BY <1>1, <2>1, FormAtType
    <3> QED
      BY <1>1, <3>1 DEF FormState
  <2> HIDE DEF q
  <2>3. form' = [form EXCEPT ![f] = q] \/ form' = [form EXCEPT ![f] = Blank]
    BY <1>4 DEF q
  <2>4. /\ NewTicket(text) \in Ticket /\ NewTicket(text).text = text
        /\ NewTicket(text).isSuspicious = analyzeTicket(text)
    BY <1>1, NewTicketType
  <2>5. /\ ticket'[n] = NewTicket(text) /\ ticket'[n] # NoTicket
        /\ \A k \in Number \ {n} : ticket'[k] = ticket[k]
    BY <1>4, <2>4 DEF IInv, TypeOK
  <2>6. TypeOK'
    <3>1. ticket' \in [Number -> Ticket \cup {NoTicket}]
      BY <1>4, <2>4 DEF IInv, TypeOK
    <3>2. form' \in [Form -> FormState]
      BY <2>2, <2>3, BlankType DEF IInv, TypeOK
    <3> QED
      BY <1>2, <3>1, <3>2 DEF IInv, TypeOK, ConnectionType, connVars, dbVars
  <2>7. \A g \in Form \ {f} : form'[g] = form[g]
    BY <2>3 DEF IInv, TypeOK
  <2>8. form'[f] = q \/ form'[f] = Blank
    BY <2>3 DEF IInv, TypeOK
  <2>9. FormInv'
    <3>1. ASSUME NEW g \in Form \ {f}
          PROVE  /\ form'[g].at = "creating" => form'[g].text \in Text
                 /\ form'[g].at \in {"reporting", "thanked"} =>
                      /\ form'[g].number \in Number
                      /\ ticket'[form'[g].number] # NoTicket
                      /\ ticket'[form'[g].number].text = form'[g].text
                 /\ form'[g].at = "thanked" =>
                      (ticket'[form'[g].number].isSuspicious => form'[g].number \in tried')
      BY <1>2, <1>4, <2>5, <2>7 DEF IInv, FormInv
    <3>2. /\ form'[f].at = "creating" => form'[f].text \in Text
          /\ form'[f].at \in {"reporting", "thanked"} =>
               /\ form'[f].number \in Number
               /\ ticket'[form'[f].number] # NoTicket
               /\ ticket'[form'[f].number].text = form'[f].text
          /\ form'[f].at = "thanked" =>
               (ticket'[form'[f].number].isSuspicious => form'[f].number \in tried')
      <4>1. CASE form'[f] = Blank
        BY <4>1, BlankType
      <4>2. CASE form'[f] = q
        BY <4>2, <2>2, <2>4, <2>5
      <4> QED
        BY <4>1, <4>2, <2>8
    <3> QED
      BY <3>1, <3>2 DEF FormInv
  <2>10. ShownInv' /\ AnswerInv' /\ UpdateInv'
    BY <1>2, <1>4, <2>5 DEF IInv, ShownInv, AnswerInv, UpdateInv, TypeOK, CallState
  <2> QED
    BY <2>6, <2>9, <2>10 DEF IInv
<1> QED
  BY <1>3, <1>4 DEF createTicket

LEMMA StepReport ==
    ASSUME IInv, NEW f \in Form, ReportEnds(f)
    PROVE  IInv'
<1> DEFINE q == [form[f] EXCEPT !.at = "thanked"]
<1>1. /\ form[f].at = "reporting" /\ form[f] \in FormState
      /\ form[f].number \in Number
      /\ ticket[form[f].number] # NoTicket
      /\ ticket[form[f].number].text = form[f].text
  BY DEF IInv, FormInv, TypeOK, ReportEnds
<1>2. UNCHANGED <<connVars, dbVars, ticket, shown, call, behind>>
  BY DEF ReportEnds, connectionVars, panelVars
<1>3. q \in FormState /\ q.number = form[f].number /\ q.text = form[f].text /\ q.at = "thanked"
  <2>1. q \in FormState
    BY <1>1, FormAtType
  <2> QED
    BY <1>1, <2>1 DEF FormState
<1>4. form' = [form EXCEPT ![f] = q] /\ tried' = tried \cup {form[f].number}
  BY DEF ReportEnds
<1> HIDE DEF q
<1>5. TypeOK'
  BY <1>1, <1>2, <1>3, <1>4 DEF IInv, TypeOK, ConnectionType, connVars, dbVars
<1>6. form'[f] = q /\ \A g \in Form \ {f} : form'[g] = form[g]
  BY <1>4 DEF IInv, TypeOK
<1>7. FormInv'
  BY <1>1, <1>2, <1>3, <1>4, <1>6 DEF IInv, FormInv
<1> QED
  BY <1>2, <1>5, <1>7 DEF IInv, ShownInv, AnswerInv, UpdateInv

------------------------------------------------------------------------------
(***************************************************************************)
(* The page of the gateway and the panel.                                  *)
(***************************************************************************)
LEMMA StepGatewayStatus ==
    ASSUME IInv, updateHrTicketStatus
    PROVE  IInv'
<1>1. PICK n \in Number, status \in Status :
        /\ ticket[n] # NoTicket
        /\ SetStatus(n, status)
        /\ Written(n)
  BY DEF updateHrTicketStatus
<1>2. UNCHANGED <<connVars, dbVars, form, shown, tried>>
  BY DEF updateHrTicketStatus, connectionVars
<1>3. /\ ticket' \in [Number -> Ticket \cup {NoTicket}]
      /\ \A k \in Number : ticket[k] # NoTicket =>
           /\ ticket'[k] # NoTicket
           /\ ticket'[k].text = ticket[k].text
           /\ ticket'[k].isSuspicious = ticket[k].isSuspicious
      /\ \A k \in Number \ {n} : ticket'[k] = ticket[k]
  BY <1>1, StatusSet DEF IInv
<1>4. FormInv'
  BY <1>2, <1>3, FormsKept DEF IInv
<1>5. /\ behind' = IF shown[n] # NotShown THEN behind \cup {n} ELSE behind
      /\ call' = [c \in Call |-> IF call[c].at = "answered" /\ call[c].rows[n] # NotShown
                                 THEN [call[c] EXCEPT !.old = call[c].old \cup {n}]
                                 ELSE call[c]]
  BY <1>1 DEF Written
<1>6. \A c \in Call :
        /\ call'[c] \in CallState
        /\ call'[c].at = call[c].at /\ call'[c].of = call[c].of
        /\ call'[c].number = call[c].number /\ call'[c].rows = call[c].rows
        /\ call'[c].old = IF call[c].at = "answered" /\ call[c].rows[n] # NotShown
                          THEN call[c].old \cup {n} ELSE call[c].old
  BY <1>5 DEF IInv, TypeOK, CallState
<1>7. TypeOK'
  BY <1>2, <1>3, <1>5, <1>6 DEF IInv, TypeOK, ConnectionType, connVars, dbVars
<1>8. ShownInv'
  BY <1>2, <1>3, <1>5 DEF IInv, ShownInv
<1>9. AnswerInv'
  <2> SUFFICES ASSUME NEW d \in Call, NEW k \in Number,
                      call'[d].at = "answered", call'[d].rows[k] # NotShown
               PROVE  /\ ticket'[k] # NoTicket
                      /\ k \notin call'[d].old => call'[d].rows[k] = ticket'[k]
    BY DEF AnswerInv
  <2>1. call[d].at = "answered" /\ call[d].rows[k] # NotShown
    BY <1>6
  <2>2. ticket[k] # NoTicket /\ (k \notin call[d].old => call[d].rows[k] = ticket[k])
    BY <2>1 DEF IInv, AnswerInv
  <2>3. CASE k = n
    BY <1>3, <1>6, <2>1, <2>2, <2>3
  <2>4. CASE k # n
    BY <1>3, <1>6, <2>1, <2>2, <2>4
  <2> QED
    BY <2>3, <2>4
<1>10. UpdateInv'
  BY <1>3, <1>6 DEF IInv, UpdateInv
<1> QED
  BY <1>4, <1>7, <1>8, <1>9, <1>10 DEF IInv

\* A call that changes alone and is not answered by it.
LEMMA CallMoves ==
    ASSUME IInv, NEW c \in Call, NEW q \in CallState, q.at # "answered",
           (q.of = "update" /\ q.at # "idle") =>
               q.number \in Number /\ ticket[q.number] # NoTicket,
           call' = [call EXCEPT ![c] = q],
           UNCHANGED <<ticket, form, shown, tried, behind>>,
           ConnectionType'
    PROVE  IInv'
<1>1. call'[c] = q /\ \A d \in Call \ {c} : call'[d] = call[d]
  BY DEF IInv, TypeOK
<1>2. TypeOK'
  BY DEF IInv, TypeOK
<1>3. FormInv' /\ ShownInv'
  BY DEF IInv, FormInv, ShownInv
<1>4. AnswerInv' /\ UpdateInv'
  BY <1>1 DEF IInv, AnswerInv, UpdateInv
<1> QED
  BY <1>2, <1>3, <1>4 DEF IInv

LEMMA SafezoneHandle == "safezone" \in Handle
OBVIOUS

LEMMA StepLoad ==
    ASSUME IInv, NEW c \in Call, loadTickets(c)
    PROVE  IInv'
<1>1. PICK f \in Filter :
        call' = [call EXCEPT ![c] = [Quiet EXCEPT !.at = "waiting", !.of = "load", !.filter = f]]
  BY DEF loadTickets, Send
<1> DEFINE q == [Quiet EXCEPT !.at = "waiting", !.of = "load", !.filter = f]
<1>2. q \in CallState /\ q.at = "waiting" /\ q.of = "load"
  BY QuietType DEF Quiet, CallState
<1>3. ConnectionType'
  BY SafezoneHandle, GetConnType DEF loadTickets, IInv, TypeOK
<1>4. UNCHANGED <<ticket, form, shown, tried, behind>>
  BY DEF loadTickets
<1>5. call' = [call EXCEPT ![c] = q]
  BY <1>1
<1> HIDE DEF q
<1> QED
  BY <1>2, <1>3, <1>4, <1>5, CallMoves

LEMMA StepUpdate ==
    ASSUME IInv, NEW c \in Call, updateStatus(c)
    PROVE  IInv'
<1>1. PICK n \in Number, status \in Status :
        /\ shown[n] # NotShown
        /\ call' = [call EXCEPT ![c] = [Quiet EXCEPT !.at = "waiting", !.of = "update",
                                          !.number = n, !.status = status]]
  BY DEF updateStatus, Send
<1> DEFINE q == [Quiet EXCEPT !.at = "waiting", !.of = "update", !.number = n,
                              !.status = status]
<1>2. q \in CallState /\ q.at = "waiting" /\ q.number = n
  BY QuietType DEF Quiet, CallState
<1>3. ConnectionType'
  BY SafezoneHandle, GetConnType DEF updateStatus, IInv, TypeOK
<1>4. UNCHANGED <<ticket, form, shown, tried, behind>>
  BY DEF updateStatus
<1>5. call' = [call EXCEPT ![c] = q]
  BY <1>1
<1>6. ticket[n] # NoTicket
  BY <1>1 DEF IInv, ShownInv
<1> HIDE DEF q
<1> QED
  BY <1>2, <1>3, <1>4, <1>5, <1>6, CallMoves

LEMMA StepConnected ==
    ASSUME IInv, NEW c \in Call, Connected(c)
    PROVE  IInv'
<1> DEFINE q == [call[c] EXCEPT !.at = "connected"]
<1>1. call[c] \in CallState /\ call[c].at = "waiting"
  BY DEF Connected, IInv, TypeOK
<1>2. q \in CallState /\ q.at = "connected" /\ q.of = call[c].of /\ q.number = call[c].number
  BY <1>1 DEF CallState
<1>3. call' = [call EXCEPT ![c] = q] \/ call' = [call EXCEPT ![c] = Failed]
  BY DEF Connected
<1>4. UNCHANGED <<connVars, dbVars, ticket, form, shown, tried, behind>>
  BY DEF Connected, connectionVars
<1>5. ConnectionType'
  BY <1>4 DEF IInv, TypeOK, ConnectionType, connVars, dbVars
<1>6. Failed.at = "failed" /\ Failed.of = "none"
  BY DEF Failed, Quiet
<1>7. (q.of = "update" /\ q.at # "idle") => q.number \in Number /\ ticket[q.number] # NoTicket
  BY <1>1, <1>2 DEF IInv, UpdateInv
<1> HIDE DEF q
<1> QED
  BY <1>2, <1>3, <1>4, <1>5, <1>6, <1>7, QuietType, CallMoves

LEMMA StepFails ==
    ASSUME IInv, NEW c \in Call, Fails(c) \/ ShowError(c)
    PROVE  IInv'
<1>1. /\ Failed.at = "failed" /\ Failed.of = "none"
      /\ Quiet.at = "idle" /\ Quiet.of = "none"
  BY DEF Failed, Quiet
<1>2. call' = [call EXCEPT ![c] = Failed] \/ call' = [call EXCEPT ![c] = Quiet]
  BY DEF Fails, ShowError
<1>3. UNCHANGED <<connVars, dbVars, ticket, form, shown, tried, behind>>
  BY DEF Fails, ShowError, connectionVars
<1>4. ConnectionType'
  BY <1>3 DEF IInv, TypeOK, ConnectionType, connVars, dbVars
<1> QED
  BY <1>1, <1>2, <1>3, <1>4, QuietType, CallMoves

LEMMA StepGET ==
    ASSUME IInv, NEW c \in Call, GET(c)
    PROVE  IInv'
<1> DEFINE rows == listTickets(call[c].filter)
           q == [Quiet EXCEPT !.at = "answered", !.of = "load", !.rows = rows]
<1>1. call[c].filter \in Filter
  BY DEF IInv, TypeOK, CallState
<1>2. /\ rows \in Rows
      /\ \A n \in Number : rows[n] # NotShown => ticket[n] # NoTicket /\ rows[n] = ticket[n]
  BY <1>1, RowsType DEF IInv, listTickets
<1>3. UNCHANGED <<connVars, dbVars, ticket, form, shown, tried, behind>>
  BY DEF GET, connectionVars
<1>4. call' = [call EXCEPT ![c] = q]
  BY DEF GET
<1> HIDE DEF rows
<1>5. q \in CallState /\ q.at = "answered" /\ q.of = "load" /\ q.rows = rows /\ q.old = {}
  BY <1>2, QuietType DEF Quiet, CallState
<1> HIDE DEF q
<1>6. call'[c] = q /\ \A d \in Call \ {c} : call'[d] = call[d]
  BY <1>4 DEF IInv, TypeOK
<1>7. TypeOK'
  BY <1>3, <1>4, <1>5 DEF IInv, TypeOK, ConnectionType, connVars, dbVars
<1>8. FormInv' /\ ShownInv'
  BY <1>3 DEF IInv, FormInv, ShownInv
<1>9. AnswerInv' /\ UpdateInv'
  BY <1>2, <1>3, <1>5, <1>6 DEF IInv, AnswerInv, UpdateInv
<1> QED
  BY <1>7, <1>8, <1>9 DEF IInv

LEMMA StepPATCH ==
    ASSUME IInv, NEW c \in Call, PATCH(c)
    PROVE  IInv'
<1> DEFINE n == call[c].number
           q == [Quiet EXCEPT !.at = "answered", !.of = "update", !.number = n,
                              !.rows = Updated(n)]
<1>1. n \in Number /\ ticket[n] # NoTicket /\ call[c].status \in Status
  BY DEF IInv, TypeOK, CallState, UpdateInv, PATCH
<1>2. /\ SetStatus(n, call[c].status)
      /\ behind' = IF ticket' # ticket THEN behind \cup {n} ELSE behind
      /\ call' = [d \in Call |->
           IF d = c THEN q
           ELSE IF ticket' # ticket /\ call[d].at = "answered" /\ call[d].rows[n] # NotShown
                THEN [call[d] EXCEPT !.old = call[d].old \cup {n}] ELSE call[d]]
  BY DEF PATCH
<1>3. UNCHANGED <<connVars, dbVars, form, shown, tried>>
  BY DEF PATCH, connectionVars
<1>4. /\ ticket' \in [Number -> Ticket \cup {NoTicket}]
      /\ ticket'[n] \in Ticket
      /\ \A k \in Number : ticket[k] # NoTicket =>
           /\ ticket'[k] # NoTicket
           /\ ticket'[k].text = ticket[k].text
           /\ ticket'[k].isSuspicious = ticket[k].isSuspicious
      /\ \A k \in Number \ {n} : ticket'[k] = ticket[k]
  BY <1>1, <1>2, StatusSet DEF IInv
<1>5. FormInv'
  BY <1>3, <1>4, FormsKept DEF IInv
<1> HIDE DEF n
<1>6. /\ Updated(n) \in Rows
      /\ Updated(n)[n] = ticket'[n]
      /\ \A k \in Number \ {n} : Updated(n)[k] = NotShown
  BY <1>1, <1>4 DEF Updated, NoRows, Rows
<1> HIDE DEF q
<1>7. q \in CallState /\ q.of = "update" /\ q.number = n /\ q.rows = Updated(n) /\ q.old = {}
  BY <1>1, <1>6, QuietType DEF q, Quiet, CallState
<1>8. ASSUME NEW d \in Call \ {c}
      PROVE  /\ call'[d] \in CallState
             /\ call'[d].at = call[d].at /\ call'[d].of = call[d].of
             /\ call'[d].number = call[d].number /\ call'[d].rows = call[d].rows
             /\ call'[d].old = IF ticket' # ticket /\ call[d].at = "answered" /\ call[d].rows[n] # NotShown
                               THEN call[d].old \cup {n} ELSE call[d].old
  BY <1>1, <1>2 DEF IInv, TypeOK, CallState
<1>9. call'[c] = q
  BY <1>2
<1>10. TypeOK'
  <2>1. call' \in [Call -> CallState]
    BY <1>2, <1>7, <1>8, <1>9
  <2>2. behind' \subseteq Number
    BY <1>1, <1>2 DEF IInv, TypeOK
  <2> QED
    BY <1>3, <1>4, <2>1, <2>2 DEF IInv, TypeOK, ConnectionType, connVars, dbVars
<1>11. ShownInv'
  BY <1>2, <1>3, <1>4 DEF IInv, ShownInv
<1>12. AnswerInv'
  <2> SUFFICES ASSUME NEW d \in Call, NEW k \in Number,
                      call'[d].at = "answered", call'[d].rows[k] # NotShown
               PROVE  /\ ticket'[k] # NoTicket
                      /\ k \notin call'[d].old => call'[d].rows[k] = ticket'[k]
    BY DEF AnswerInv
  <2>1. CASE d = c
    <3>1. k = n
      BY <1>6, <1>7, <1>9, <2>1
    <3>2. call'[d].rows[k] = ticket'[k]
      BY <1>6, <1>7, <1>9, <2>1, <3>1
    <3> QED
      BY <1>4, <3>1, <3>2
  <2>2. CASE d # c
    <3>1. call[d].at = "answered" /\ call[d].rows[k] # NotShown
      BY <1>8, <2>2
    <3>2. ticket[k] # NoTicket /\ (k \notin call[d].old => call[d].rows[k] = ticket[k])
      BY <3>1 DEF IInv, AnswerInv
    <3>3. CASE k = n /\ ticket' # ticket
      BY <1>4, <1>8, <2>2, <3>1, <3>2, <3>3
    <3>4. CASE k # n \/ ticket' = ticket
      BY <1>4, <1>8, <2>2, <3>1, <3>2, <3>4
    <3> QED
      BY <3>3, <3>4
  <2> QED
    BY <2>1, <2>2
<1>13. UpdateInv'
  <2> SUFFICES ASSUME NEW d \in Call, call'[d].of = "update",
                      call'[d].at \in {"waiting", "connected", "answered"}
               PROVE  call'[d].number \in Number /\ ticket'[call'[d].number] # NoTicket
    BY DEF UpdateInv
  <2>1. CASE d = c
    BY <1>1, <1>4, <1>7, <1>9, <2>1
  <2>2. CASE d # c
    <3>1. call[d].number \in Number /\ ticket[call[d].number] # NoTicket
      BY <1>8, <2>2 DEF IInv, UpdateInv
    <3> QED
      BY <1>4, <1>8, <2>2, <3>1
  <2> QED
    BY <2>1, <2>2
<1> QED
  BY <1>5, <1>10, <1>11, <1>12, <1>13 DEF IInv

LEMMA StepShowLoad ==
    ASSUME IInv, NEW c \in Call, ShowLoad(c)
    PROVE  IInv'
<1>1. /\ shown' = call[c].rows /\ behind' = call[c].old /\ call[c].at = "answered"
      /\ call' = [call EXCEPT ![c] = Quiet]
      /\ UNCHANGED <<connVars, dbVars, ticket, form, tried>>
  BY DEF ShowLoad, connectionVars
<1>2. call[c].rows \in Rows /\ call[c].old \subseteq Number
  BY DEF IInv, TypeOK, CallState
<1>3. TypeOK'
  BY <1>1, <1>2, QuietType DEF IInv, TypeOK, ConnectionType, connVars, dbVars
<1>4. /\ call'[c].at = "idle" /\ call'[c].of = "none"
      /\ \A d \in Call \ {c} : call'[d] = call[d]
  BY <1>1 DEF IInv, TypeOK, Quiet
<1>5. FormInv'
  BY <1>1 DEF IInv, FormInv
<1>6. ShownInv'
  BY <1>1 DEF IInv, ShownInv, AnswerInv
<1>7. AnswerInv' /\ UpdateInv'
  BY <1>1, <1>4 DEF IInv, AnswerInv, UpdateInv
<1> QED
  BY <1>3, <1>5, <1>6, <1>7 DEF IInv

LEMMA StepShowUpdate ==
    ASSUME IInv, NEW c \in Call, ShowUpdate(c)
    PROVE  IInv'
<1> DEFINE n == call[c].number
<1>1. /\ call[c].at = "answered" /\ call[c].of = "update"
      /\ shown' = [shown EXCEPT ![n] = IF shown[n] = NotShown THEN NotShown ELSE call[c].rows[n]]
      /\ behind' = (behind \ {n}) \cup (IF shown[n] = NotShown THEN {} ELSE call[c].old)
      /\ call' = [call EXCEPT ![c] = Quiet]
      /\ UNCHANGED <<connVars, dbVars, ticket, form, tried>>
  BY DEF ShowUpdate, connectionVars
<1>2. /\ call[c].rows \in [Number -> Ticket \cup {NotShown}]
      /\ call[c].old \subseteq Number /\ n \in Number
      /\ shown \in [Number -> Ticket \cup {NotShown}]
  BY <1>1 DEF IInv, TypeOK, CallState, UpdateInv, Rows
<1> HIDE DEF n
<1>3. TypeOK'
  <2>1. shown' \in Rows
    BY <1>1, <1>2 DEF Rows
  <2>2. behind' \subseteq Number
    BY <1>1, <1>2 DEF IInv, TypeOK
  <2> QED
    BY <1>1, <2>1, <2>2, QuietType DEF IInv, TypeOK, ConnectionType, connVars, dbVars
<1>4. /\ call'[c].at = "idle" /\ call'[c].of = "none"
      /\ \A d \in Call \ {c} : call'[d] = call[d]
  BY <1>1 DEF IInv, TypeOK, Quiet
<1>5. FormInv'
  BY <1>1 DEF IInv, FormInv
<1>6. ShownInv'
  <2>1. /\ shown'[n] = IF shown[n] = NotShown THEN NotShown ELSE call[c].rows[n]
        /\ \A k \in Number \ {n} : shown'[k] = shown[k]
    BY <1>1, <1>2
  <2>2. ASSUME NEW k \in Number, shown'[k] # NotShown
        PROVE  ticket[k] # NoTicket /\ (k \notin behind' => shown'[k] = ticket[k])
    <3>1. CASE k = n
      BY <1>1, <1>2, <2>1, <2>2, <3>1 DEF IInv, AnswerInv
    <3>2. CASE k # n
      BY <1>1, <2>1, <2>2, <3>2 DEF IInv, ShownInv
    <3> QED
      BY <3>1, <3>2
  <2> QED
    BY <1>1, <2>2 DEF ShownInv
<1>7. AnswerInv' /\ UpdateInv'
  BY <1>1, <1>4 DEF IInv, AnswerInv, UpdateInv
<1> QED
  BY <1>3, <1>5, <1>6, <1>7 DEF IInv

LEMMA StepDriver ==
    ASSUME IInv, Driver, UNCHANGED deskVars
    PROVE  IInv'
<1>1. ConnectionType'
  BY DriverType DEF IInv, TypeOK
<1> QED
  BY <1>1 DEF IInv, TypeOK, FormInv, ShownInv, AnswerInv, UpdateInv, deskVars

LEMMA StepInv == IInv /\ [Next]_vars => IInv'
<1> SUFFICES ASSUME IInv, [Next]_vars PROVE IInv'
  OBVIOUS
<1>1. CASE UNCHANGED vars
  BY <1>1 DEF vars, connectionVars, connVars, dbVars, deskVars, IInv, TypeOK, ConnectionType,
              FormInv, ShownInv, AnswerInv, UpdateInv
<1>2. ASSUME NEW c \in Call, Serve(c) PROVE IInv'
  BY <1>2, StepConnected, StepFails, StepGET, StepPATCH, StepShowLoad, StepShowUpdate DEF Serve
<1> QED
  BY <1>1, <1>2, StepSubmit, StepCreate, StepReport, StepGatewayStatus, StepLoad, StepUpdate,
     StepDriver DEF Next

LEMMA Invariant == Spec => []IInv
  BY InitInv, StepInv, PTL DEF Spec

------------------------------------------------------------------------------
\* Every variable keeps its type for any number of numbers, forms and calls.
THEOREM TypeCorrect == Spec => []TypeOK
<1>1. IInv => TypeOK
  BY DEF IInv
<1> QED
  BY <1>1, Invariant, PTL

\* Who was thanked has a ticket of his own, and a report of it was tried if it is suspicious,
\* whatever numbers are drawn, whoever submits after him and whichever saves fail (realController.js
\* submitContact, ticketService.js createTicket).
THEOREM ThankedIsKeptHolds == Spec => []ThankedIsKept
<1>1. IInv => ThankedIsKept
  BY DEF IInv, FormInv, ThankedIsKept
<1> QED
  BY <1>1, Invariant, PTL

\* A row is the ticket, unless that was written since the row's answer was read: for any
\* number of overlapping loads and updates and answers in any order.
THEOREM PanelUpToDateHolds == Spec => []PanelUpToDate
<1>1. IInv => PanelUpToDate
  BY DEF IInv, ShownInv, PanelUpToDate
<1> QED
  BY <1>1, Invariant, PTL
==============================================================================
