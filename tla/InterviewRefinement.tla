------------------------ MODULE InterviewRefinement ------------------------
(* Interview implements the first half of FeedbackRequests: it inserts the   *)
(* feedback, requests its analysis and publishes the message; nobody in it   *)
(* consumes.                                                                 *)
EXTENDS Interview

(* A message is due while the handler that inserted the row updates the      *)
(* meeting (internalEndAssessmentMeeting, lines 1085 to 1096).               *)
Requests == INSTANCE FeedbackRequests WITH
  rows <- 1..feedbacks,
  preparing <- {feedback} \ {0},
  due <- {frame[h].feedback : h \in {k \in Handlers : At(k, "complete")}},
  issued <- unsent,
  queue <- tasks,
  out <- <<>>,
  done <- {},
  stopped <- calls["crash"] > 0

(* Whatever turns, cleanups, recreations and crashes come in between, the    *)
(* ending of a meeting is seen from the queue as one insert, one request and *)
(* one message; nothing is requested twice, and only a crash loses a request.*)
ImplementsRequests == Requests!Spec
=============================================================================
