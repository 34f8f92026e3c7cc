---------------------------- MODULE MCInterview ----------------------------
(* Instances of Interview: how often each operation is called in a run.      *)
EXTENDS InterviewRefinement

Calls(join, leave, recording, resend, recreate, cleanup, crash) ==
  [op \in Operations |->
     CASE op = "join" -> join [] op = "leave" -> leave
       [] op = "recording" -> recording [] op = "resend" -> resend
       [] op = "recreate" -> recreate [] op = "cleanup" -> cleanup
       [] op = "crash" -> crash]

\* a candidate who may leave, come back and upload a recording
OneCandidate == Calls(2, 1, 1, 0, 0, 1, 0)
\* every operation, crashes included
Everything == Calls(1, 1, 1, 1, 1, 1, 1)
\* a candidate who leaves during a turn
Leaving == Calls(1, 1, 0, 0, 0, 0, 0)
\* a meeting that is recreated
Recreated == Calls(2, 0, 0, 0, 1, 0, 0)

Interchangeable == Permutations(Handlers)
=============================================================================
