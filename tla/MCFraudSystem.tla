---------------------------- MODULE MCFraudSystem ----------------------------
(* Two operators and one event, whose record may fail again each time it   *)
(* was reprocessed; the payload of one of its rows cannot be read.  The    *)
(* liveness properties rule out a symmetry of the requests.                *)
EXTENDS FraudSystem

CONSTANTS e1

RowEvents == [d \in Rows |-> e1]
=============================================================================
