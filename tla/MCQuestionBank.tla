---------------------------- MODULE MCQuestionBank ----------------------------
(* QuestionBank for the model checker: its sets are sets of model values.    *)
EXTENDS QuestionBank

CONSTANTS o1, o2, q1, q2, l1, r1, r2

TwoOrganizations == {o1, o2}
TwoQuestions == {q1, q2}
OneLabel == {l1}
TwoRequests == {r1, r2}

(* Only equality is asked of these values. *)
Symmetry ==
  Permutations(Organizations) \cup Permutations(Questions) \cup Permutations(Requests)
===============================================================================
