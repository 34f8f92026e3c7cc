------------------------- MODULE MCFeedbackAnalysis -------------------------
(* An instance of FeedbackAnalysis: two feedbacks share the consumer.        *)
EXTENDS FeedbackRefinement

TwoQuestions == 1..2
=============================================================================
