----------------------------- MODULE MCAccounts -----------------------------
(* Accounts for the model checker: its sets are sets of model values.        *)
EXTENDS Accounts

CONSTANTS a1, u1, u2, o1, c1, row1, row2, e1, e2, r1, r2

OneAddress == {a1}
TwoUsers == {u1, u2}
OneOrganization == {o1}
OneClient == {c1}
TwoRows == {row1, row2}
TwoEmails == {e1, e2}
TwoRequests == {r1, r2}
=============================================================================
