--------------------------- MODULE MCAssessments ---------------------------
(* Assessments for the model checker: its sets are sets of model values.     *)
EXTENDS Assessments, TLC

CONSTANTS r1, r2, v1, a1, c1, c2, q1, q2, q3, t1, t2

OneRequest == {r1}
TwoRequests == {r1, r2}
OneVisitor == {v1}
Nobody == {}
OneAssessment == {a1}
TwoCandidates == {c1, c2}
TwoQuestions == {q1, q2}
ThreeQuestions == {q1, q2, q3}
OneTitle == {t1}
TwoTitles == {t1, t2}

(* Only equality is asked of these values. *)
Symmetry ==
  Permutations(TwoCandidates) \cup Permutations(TwoQuestions) \cup Permutations(TwoRequests)
=============================================================================
