-------------------------- MODULE MCEmailDelivery --------------------------
(* EmailDelivery for the model checker: its sets are sets of model values.   *)
EXTENDS EmailDelivery

CONSTANTS m1, m2, r1, r2, c1

TwoMeetings == {m1, m2}
TwoRequests == {r1, r2}
OneCandidate == [m \in TwoMeetings |-> c1]
=============================================================================
