------------------------------ MODULE HelpDesk ------------------------------
(***************************************************************************)
(* Tickets: they are written through the contact page of the gateway,      *)
(* watched for attempts at fraud, and worked off in two places, a page of  *)
(* the gateway and the tickets panel, which write the same documents.      *)
(*                                                                         *)
(*   ticket    the tickets, by number; the collection's index keeps the    *)
(*             numbers apart                                               *)
(*   form      what a submitter's request of the contact page has come to  *)
(*   shown     the rows that the panel shows, each with a status           *)
(*   call      the panel's calls of its API: loads of the list, which may  *)
(*             overlap, and updates of a ticket                            *)
(*                                                                         *)
(* A behaviour is the life of one process of the panel.                    *)
(***************************************************************************)
EXTENDS Connections, FiniteSets

CONSTANTS
    Number, Text, Form, Call,
    Status,          \* "open" and those that a ticket is given later
    Filter,          \* what the list may be narrowed to
    NoNumber, NoText, NoTicket, NotShown

VARIABLES
    ticket, form, shown, call,
    \* History, only to state properties:
    tried,           \* tickets whose report was tried, whether or not it arrived
    behind           \* rows shown that the database has changed since they were read

deskVars == <<ticket, form, shown, call, tried, behind>>
panelVars == <<shown, call>>
vars == <<connectionVars, deskVars>>

Source == {"profile_edit", "contact", "dashboard"}

\* patterns: which of the suspicious patterns the text has; probe: it is short, and only
\* somebody's test.
TextType == [patterns : BOOLEAN, probe : BOOLEAN, source : Source \cup {"other"},
             authenticated : BOOLEAN]
Ticket == [text : Text, status : Status, source : Source, isSuspicious : BOOLEAN]
FormState == [at : {"idle", "creating", "reporting", "thanked"}, text : Text \cup {NoText},
              number : Number \cup {NoNumber}]

Rows == [Number -> Ticket \cup {NotShown}]
\* A load asks with a filter, an update with a number and a status; rows are the answer.
CallState == [at : {"idle", "waiting", "connected", "answered", "failed"},
              of : {"none", "load", "update"}, filter : Filter, number : Number \cup {NoNumber},
              status : Status, rows : Rows, old : SUBSET Number]

ASSUME HelpDeskAssumption ==
    /\ Text \subseteq TextType
    /\ "open" \in Status
    /\ "all" \in Filter /\ Filter \subseteq {"all", "suspicious", "open"}
    /\ "safezone" \in Configured
    /\ NoNumber \notin Number /\ NoText \notin Text
    /\ NoTicket \notin Ticket /\ NotShown \notin Ticket

Blank == [at |-> "idle", text |-> NoText, number |-> NoNumber]
NoRows == [n \in Number |-> NotShown]
Quiet == [at |-> "idle", of |-> "none", filter |-> "all", number |-> NoNumber,
          status |-> "open", rows |-> NoRows, old |-> {}]

Failed == [Quiet EXCEPT !.at = "failed"]

TypeOK ==
    /\ ConnectionType
    /\ ticket \in [Number -> Ticket \cup {NoTicket}]
    /\ form \in [Form -> FormState]
    /\ shown \in Rows
    /\ call \in [Call -> CallState]
    /\ tried \subseteq Number /\ behind \subseteq Number

Init ==
    /\ InitConnections
    /\ ticket = [n \in Number |-> NoTicket]
    /\ form = [f \in Form |-> Blank]
    /\ shown = NoRows
    /\ call = [c \in Call |-> Quiet]
    /\ tried = {} /\ behind = {}

-----------------------------------------------------------------------------
(* The contact page. *)

normalizeSource(source) == IF source \in Source THEN source ELSE "contact"

analyzeTicket(text) ==
    \/ text.patterns
    \/ normalizeSource(text.source) = "profile_edit" /\ ~text.authenticated
    \/ text.probe

\* What generateTicketId draws may have been drawn before.
NewTicket(text) ==
    [text |-> text, status |-> "open", source |-> normalizeSource(text.source),
     isSuspicious |-> analyzeTicket(text)]

\* An answer that is read, but not yet shown, grows old when the database changes.
Written(n) ==
    /\ behind' = IF shown[n] # NotShown THEN behind \cup {n} ELSE behind
    /\ call' = [c \in Call |-> IF call[c].at = "answered" /\ call[c].rows[n] # NotShown
                               THEN [call[c] EXCEPT !.old = call[c].old \cup {n}]
                               ELSE call[c]]

\* A text with a subject and a message; without, the page is shown again.
submitContact(f) ==
    /\ form[f].at \in {"idle", "thanked"}
    /\ \E text \in Text : form' = [form EXCEPT ![f] = [Blank EXCEPT !.at = "creating", !.text = text]]
    /\ UNCHANGED <<connectionVars, ticket, panelVars, tried, behind>>

\* Mutant: numbers are not kept apart, and the last ticket of a number is the one that is kept.
createTicketReplacing(f) ==
    /\ form[f].at = "creating"
    /\ \E n \in Number :
         \/ /\ dbUp
            /\ ticket' = [ticket EXCEPT ![n] = NewTicket(form[f].text)]
            /\ \/ form' = [form EXCEPT ![f] = [form[f] EXCEPT !.number = n,
                      !.at = IF analyzeTicket(form[f].text) THEN "reporting" ELSE "thanked"]]
               \/ form' = [form EXCEPT ![f] = Blank]
         \/ /\ ~dbUp
            /\ form' = [form EXCEPT ![f] = Blank]
            /\ UNCHANGED ticket
    /\ UNCHANGED <<connectionVars, panelVars, tried, behind>>

\* create: the number is free, or the index refuses it and the submitter is asked to try
\* again, as he is when the database fails, whether or not it had saved the ticket.
createTicket(f) ==
    /\ form[f].at = "creating"
    /\ \E n \in Number :
         \/ /\ dbUp /\ ticket[n] = NoTicket
            /\ ticket' = [ticket EXCEPT ![n] = NewTicket(form[f].text)]
            /\ \/ form' = [form EXCEPT ![f] = [form[f] EXCEPT !.number = n,
                      !.at = IF analyzeTicket(form[f].text) THEN "reporting" ELSE "thanked"]]
               \/ form' = [form EXCEPT ![f] = Blank]
         \/ /\ ticket[n] # NoTicket \/ ~dbUp
            /\ form' = [form EXCEPT ![f] = Blank]
            /\ UNCHANGED ticket
    /\ UNCHANGED <<connectionVars, panelVars, tried, behind>>

\* The report is awaited; that it failed is caught by reportAttack and changes nothing.
ReportEnds(f) ==
    /\ form[f].at = "reporting"
    /\ tried' = tried \cup {form[f].number}
    /\ form' = [form EXCEPT ![f] = [form[f] EXCEPT !.at = "thanked"]]
    /\ UNCHANGED <<connectionVars, ticket, panelVars, behind>>

-----------------------------------------------------------------------------
(* The page of the gateway. *)

listTickets(f) ==
    [n \in Number |->
        IF /\ ticket[n] # NoTicket
           /\ f = "suspicious" => ticket[n].isSuspicious
           /\ f = "open" => ticket[n].status = "open"
        THEN ticket[n] ELSE NotShown]

\* findOneAndUpdate with $set: the last one to write wins.
SetStatus(n, status) == ticket' = [ticket EXCEPT ![n] = [ticket[n] EXCEPT !.status = status]]

\* An operator saves a row of the page, which may show an old status.
updateHrTicketStatus ==
    /\ dbUp
    /\ \E n \in Number, status \in Status :
         /\ ticket[n] # NoTicket
         /\ SetStatus(n, status) /\ ticket' # ticket
         /\ Written(n)
    /\ UNCHANGED <<connectionVars, form, shown, tried>>

-----------------------------------------------------------------------------
(* The panel. *)

Send(c, q) == call[c] = Quiet /\ call' = [call EXCEPT ![c] = q]

\* The list is loaded when the page is opened, when the filter changes and on demand.
loadTickets(c) ==
    /\ \E f \in Filter : Send(c, [Quiet EXCEPT !.at = "waiting", !.of = "load", !.filter = f])
    /\ getConn("safezone")
    /\ UNCHANGED <<dbVars, ticket, form, shown, tried, behind>>

\* The button of the status that a row shows is disabled, and those of the row whose update
\* was sent last.
updateStatus(c) ==
    /\ \E n \in Number, status \in Status :
         /\ shown[n] # NotShown /\ shown[n].status # status
         /\ Send(c, [Quiet EXCEPT !.at = "waiting", !.of = "update", !.number = n,
                                  !.status = status])
    /\ getConn("safezone")
    /\ UNCHANGED <<dbVars, ticket, form, shown, tried, behind>>

\* getSafezoneModels returns or throws.
Connected(c) ==
    /\ call[c].at = "waiting"
    /\ \/ /\ isHanded("safezone") /\ call' = [call EXCEPT ![c] = [call[c] EXCEPT !.at = "connected"]]
       \/ /\ isRefused("safezone") /\ call' = [call EXCEPT ![c] = Failed]
    /\ UNCHANGED <<connectionVars, ticket, form, shown, tried, behind>>

\* Nothing is buffered: a connection that is not ready is an error.
Fails(c) ==
    /\ call[c].at = "connected" /\ ~(dbUp /\ isReady("safezone"))
    /\ call' = [call EXCEPT ![c] = Failed]
    /\ UNCHANGED <<connectionVars, ticket, form, shown, tried, behind>>

GET(c) ==
    /\ call[c].at = "connected" /\ call[c].of = "load"
    /\ dbUp /\ isReady("safezone")
    /\ call' = [call EXCEPT ![c] = [Quiet EXCEPT !.at = "answered", !.of = "load",
                                             !.rows = listTickets(call[c].filter)]]
    /\ UNCHANGED <<connectionVars, ticket, form, shown, tried, behind>>

\* Mutant: findOneAndUpdate without new: true.
UpdatedBefore(n) == [NoRows EXCEPT ![n] = ticket[n]]

\* The document as it is after the update; no ticket is ever deleted.
Updated(n) == [NoRows EXCEPT ![n] = ticket'[n]]

PATCH(c) ==
    /\ call[c].at = "connected" /\ call[c].of = "update"
    /\ dbUp /\ isReady("safezone")
    /\ LET n == call[c].number IN
         /\ SetStatus(n, call[c].status)
         /\ behind' = IF ticket' # ticket THEN behind \cup {n} ELSE behind
         /\ call' = [d \in Call |->
              IF d = c THEN [Quiet EXCEPT !.at = "answered", !.of = "update", !.number = n,
                                         !.rows = Updated(n)]
              ELSE IF ticket' # ticket /\ call[d].at = "answered" /\ call[d].rows[n] # NotShown
                   THEN [call[d] EXCEPT !.old = call[d].old \cup {n}] ELSE call[d]]
    /\ UNCHANGED <<connectionVars, form, shown, tried>>

\* A load replaces the list, whatever filter is chosen by now; an update, its own row,
\* if that is there.
ShowLoad(c) ==
    /\ call[c].at = "answered" /\ call[c].of = "load"
    /\ shown' = call[c].rows
    /\ behind' = call[c].old
    /\ call' = [call EXCEPT ![c] = Quiet]
    /\ UNCHANGED <<connectionVars, ticket, form, tried>>

ShowUpdate(c) ==
    /\ call[c].at = "answered" /\ call[c].of = "update"
    /\ LET n == call[c].number IN
         /\ shown' = [shown EXCEPT ![n] = IF shown[n] = NotShown THEN NotShown ELSE call[c].rows[n]]
         /\ behind' = (behind \ {n}) \cup (IF shown[n] = NotShown THEN {} ELSE call[c].old)
    /\ call' = [call EXCEPT ![c] = Quiet]
    /\ UNCHANGED <<connectionVars, ticket, form, tried>>

ShowError(c) ==
    /\ call[c].at = "failed"
    /\ call' = [call EXCEPT ![c] = Quiet]
    /\ UNCHANGED <<connectionVars, ticket, form, shown, tried, behind>>

-----------------------------------------------------------------------------
Serve(c) == Connected(c) \/ Fails(c) \/ GET(c) \/ PATCH(c) \/ ShowLoad(c) \/ ShowUpdate(c) \/ ShowError(c)

Driver == (\E h \in Handle : Attempt(h) \/ Notice(h)) \/ Outage \/ Recovery

Next ==
    \/ \E f \in Form : submitContact(f) \/ createTicket(f) \/ ReportEnds(f)
    \/ updateHrTicketStatus
    \/ \E c \in Call : loadTickets(c) \/ updateStatus(c) \/ Serve(c)
    \/ Driver /\ UNCHANGED deskVars

\* The timeouts of the driver end its attempts; the panel's server and the browser go on.
Spec ==
    /\ Init /\ [][Next]_vars
    /\ \A c \in Call : WF_vars(Serve(c))
    /\ \A h \in Handle : WF_vars(Attempt(h) /\ UNCHANGED deskVars)

-----------------------------------------------------------------------------
(* Properties. *)

\* Who was thanked for a ticket was given the number of his own ticket, and it stays his
\* whatever the others submit after him, although numbers may be drawn twice; a report of a
\* suspicious one was tried by then, which is not to say that it arrived (realController.js
\* submitContact, ticketService.js createTicket, the index of HrTicket.js).
ThankedIsKept == \A f \in Form : form[f].at = "thanked" =>
    /\ ticket[form[f].number] # NoTicket
    /\ ticket[form[f].number].text = form[f].text
    /\ ticket[form[f].number].isSuspicious => form[f].number \in tried

\* A row shows the ticket as the database has it, unless the ticket has been written since
\* the answer that the row comes from was read: with two writers, overlapping calls and
\* answers in any order, nothing else makes the panel wrong.
PanelUpToDate == \A n \in Number :
    shown[n] # NotShown /\ n \notin behind => shown[n] = ticket[n]

\* The panel never loads for ever: every call ends, also when the database is gone.
CallsEnd == \A c \in Call : call[c].at # "idle" ~> call[c].at = "idle"
==============================================================================
