------------------------- MODULE FeedbackRefinement -------------------------
(* FeedbackAnalysis implements the second half of FeedbackRequests: the      *)
(* message arrives with its row, is delivered, resolved and acknowledged.    *)
EXTENDS FeedbackAnalysis

Requests == INSTANCE FeedbackRequests WITH
  rows <- {f \in Feedbacks : row[f] # "none"},
  preparing <- {f \in Feedbacks : row[f] = "preparing"},
  due <- {},
  issued <- unsent,
  out <- unacked,
  done <- acked,
  stopped <- restarted

(* Whatever the consumer, the cleanup, the recruiter and the crashes do, a   *)
(* message is delivered in its turn, out at most once at a time and never    *)
(* again after its acknowledgement, and only the consumer that holds it and  *)
(* the cleanup end the preparation of a feedback.                            *)
ImplementsRequests == Requests!Spec
=============================================================================
