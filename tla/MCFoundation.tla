---------------------------- MODULE MCFoundation ----------------------------
(* Foundation with the values that TLC checks it for: foundation.cfg gives  *)
(* the other constants.                                                     *)
EXTENDS Foundation, TLC

\* An upload of two parts, the second of which a client may get wrong.
Parts == <<{"good"}, {"good", "bad"}>>

\* Two payments of one order, a cancellation that comes under the id of the second, and the payment
\* of another order of the scope.
Webhooks == {[order |-> "o1", kind |-> "PAID", id |-> "r1"],
             [order |-> "o1", kind |-> "PAID", id |-> "r2"],
             [order |-> "o1", kind |-> "CANCELLED", id |-> "r2"],
             [order |-> "o2", kind |-> "PAID", id |-> "r3"]}

\* Where a reservation belongs matters to its own scenario alone.
OneHome ==
    /\ Start
    /\ scenario /= "usage" => home = [r \in UsageReservations |-> <<"w">>]

Checked == OneHome /\ [][Step]_everything
=============================================================================
