--------------------------- MODULE MCInvitations ---------------------------
(* Invitations for the model checker: its sets are sets of model values.     *)
EXTENDS Invitations, TLC

CONSTANTS r1, r2, o1, o2, e1, e2

TwoRequests == {r1, r2}
TwoOrganizations == {o1, o2}
TwoAddresses == {e1, e2}

(* Only equality is asked of these values. *)
Symmetry ==
  Permutations(Requests) \cup Permutations(Organizations) \cup Permutations(Addresses)
=============================================================================
