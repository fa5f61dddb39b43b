---------------------------- MODULE MCDashboardFeed ----------------------------
(***************************************************************************)
(* One dashboard that may switch to the demo mode and back, with one       *)
(* deletion and one maintenance request.  One event: lists are compared    *)
(* as sets, and events do not interact.                                    *)
(***************************************************************************)
EXTENDS DashboardFeed
==============================================================================
