----------------------------- MODULE MCHelpDesk -----------------------------
(* One ticket number that two submitters contend for with texts of either kind, one of them
   also after the other was thanked, and two calls of the panel, so that a load and an
   update overlap. *)
EXTENDS HelpDesk

CONSTANTS n1, f1, f2, c1, c2, nonumber, notext, noticket, notshown

Plain == [patterns |-> FALSE, probe |-> FALSE, source |-> "other", authenticated |-> TRUE]
MCNumber == {n1}
MCForm == {f1, f2}
MCCall == {c1, c2}
MCText == {Plain, [Plain EXCEPT !.source = "profile_edit", !.authenticated = FALSE]}
==============================================================================
