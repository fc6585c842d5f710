---------------------------- MODULE MCDashboards ----------------------------
(* Dashboards with the values that TLC checks it for: dashboards.cfg gives  *)
(* the other constants.                                                     *)
EXTENDS Dashboards, TLC

CONSTANTS w1, w2      \* widgets of DashboardAuthoring

\* Five commands: two accept one proposal, the others change one widget.
Sent == {[id |-> "k1", kind |-> "ACCEPT_PROPOSAL", target |-> "p", form |-> 0],
         [id |-> "k2", kind |-> "ACCEPT_PROPOSAL", target |-> "p", form |-> 0],
         [id |-> "k3", kind |-> "REMOVE_WIDGET", target |-> w1, form |-> 0],
         [id |-> "k4", kind |-> "RESTORE_WIDGET", target |-> w1, form |-> 0],
         [id |-> "k5", kind |-> "CONFIGURE_PRESENTATION", target |-> w1, form |-> 2]}

TwoDatasets == <<"d1", "d2">>

\* How events are grouped, and which of them ask for a notification, matters to their own scenarios
\* alone.
OneGrouping ==
    /\ Start
    /\ scenario \notin {"prompt", "late"} => group = <<1, 1>>
    /\ scenario /= "notifications" => actionable = {}

Checked == OneGrouping /\ [][Step]_everything
=============================================================================
