-------------------------- MODULE FeedbackAnalysis --------------------------
(* What happens to a feedback once its meeting has ended: the analysis of    *)
(* the meeting by the consumer of the analyze-assessment queue, and the cron *)
(* job that discards a feedback nobody finished.                             *)
(*                                                                           *)
(* The queue delivers one message at a time (prefetch 1) and delivers it     *)
(* again after a restart unless it was acknowledged.  An exception in the    *)
(* consumer is an unhandled rejection: the process restarts.  Every handler  *)
(* is split where it awaits the database or the language model.  Scores are  *)
(* left out, but for the division by the number of questions.                *)
EXTENDS Integers, SequencesExt

CONSTANTS
  Feedbacks,   \* feedback rows that meetings may come to have
  Questions,   \* questions of a meeting, in the order they are asked
  Recreatable, \* feedbacks whose meeting the recruiter may recreate
  MaxCrashes   \* crashes and malformed answers of the model in a behaviour

ASSUME QuestionsAreNumbered == Questions \subseteq Nat /\ Questions # {}
ASSUME RecreationAssumption == Recreatable \subseteq Feedbacks
ASSUME CrashesAssumption == MaxCrashes \in Nat

VARIABLES
  row,        \* the feedback row: its status, "none" before, "deleted" after
  old,        \* feedbacks created more than two hours ago
  meeting,    \* status of the feedback's meeting
  questions,  \* status of the meeting's question rows
  talk,       \* questions asked in the stored conversation
  recreation, \* how far the recruiter got in recreating the meeting
  queue,      \* messages ready for delivery
  unacked,    \* the message delivered and not acknowledged, if any
  unsent,     \* messages issued and not awaited
  acked,      \* messages acknowledged (history)
  worker,     \* the consumer and what it holds across its awaits
  cron,       \* the cleanup job: rows it found, row deleted and not yet marked
  crashes,    \* crashes so far, at most MaxCrashes
  restarted   \* whether the process ever restarted (history)

rows == <<row, old, meeting, questions, talk, recreation>>
broker == <<queue, unacked, unsent, acked>>
process == <<worker, cron, crashes, restarted>>
vars == <<rows, broker, process>>

FeedbackStatus == {"preparing", "ready", "error"}
QuestionStatus == {"pending", "asked", "analyzed", "error", "deleted"}
IdleWorker == [pc |-> "idle", todo |-> {}, verdict |-> "ready"]
IdleCron == [todo |-> {}, gone |-> {}]

TypeOK ==
  /\ row \in [Feedbacks -> FeedbackStatus \cup {"none", "deleted"}]
  /\ old \in SUBSET Feedbacks
  /\ meeting \in [Feedbacks -> {"pending", "joined", "completed", "error"}]
  /\ questions \in [Feedbacks -> [Questions -> QuestionStatus]]
  /\ talk \in [Feedbacks -> SUBSET Questions]
  /\ recreation \in [Feedbacks -> {"none", "wiped", "purged"}]
  /\ queue \in Seq(Feedbacks)
  /\ unacked \in Seq(Feedbacks) /\ Len(unacked) <= 1
  /\ unsent \in SUBSET Feedbacks
  /\ acked \in SUBSET Feedbacks
  /\ worker \in [pc : {"idle", "load", "next", "save", "judge", "finish", "ack"},
                 todo : SUBSET Questions, verdict : {"analyzed", "ready", "error"}]
  /\ cron \in [todo : SUBSET Feedbacks, gone : SUBSET Feedbacks]
  /\ crashes \in 0..MaxCrashes
  /\ restarted \in BOOLEAN

Init ==
  /\ row = [f \in Feedbacks |-> "none"]
  /\ old = {}
  /\ meeting = [f \in Feedbacks |-> "joined"]
  /\ questions = [f \in Feedbacks |-> [q \in Questions |-> "pending"]]
  /\ talk = [f \in Feedbacks |-> {}]
  /\ recreation = [f \in Feedbacks |-> "none"]
  /\ queue = <<>>
  /\ unacked = <<>>
  /\ unsent = {}
  /\ acked = {}
  /\ worker = IdleWorker
  /\ cron = IdleCron
  /\ crashes = 0
  /\ restarted = FALSE

-----------------------------------------------------------------------------
(* The meeting, as module Interview describes it in detail *)

(* The interviewer retrieved every question there was.  A question is        *)
(* missing from the conversation when a completion failed after it was       *)
(* marked; it is still pending when a second join added it meanwhile.        *)
EndMeeting(f) ==
  /\ row[f] = "none"
  /\ row' = [row EXCEPT ![f] = "preparing"]
  /\ meeting' = [meeting EXCEPT ![f] = "completed"]
  /\ \E asked \in SUBSET Questions \ {{}} :
       /\ \E spoken \in SUBSET asked \ {{}} : talk' = [talk EXCEPT ![f] = spoken]
       /\ questions' = [questions EXCEPT ![f] =
            [q \in Questions |-> IF q \in asked THEN "asked" ELSE "pending"]]
  /\ unsent' = unsent \cup {f}
  /\ UNCHANGED <<old, recreation, queue, unacked, acked, process>>

sendToQueue(f) ==
  /\ f \in unsent
  /\ unsent' = unsent \ {f}
  /\ queue' = Append(queue, f)
  /\ UNCHANGED <<rows, unacked, acked, process>>

(* recreateAssessmentMeeting: the conversation is emptied, the meeting goes  *)
(* back to `pending`, then the question rows are deleted; the feedback stays.*)
Recreate(f) ==
  /\ f \in Recreatable
  /\ row[f] # "none" /\ recreation[f] = "none"
  /\ recreation' = [recreation EXCEPT ![f] = "wiped"]
  /\ talk' = [talk EXCEPT ![f] = {}]
  /\ meeting' = [meeting EXCEPT ![f] = "pending"]
  /\ UNCHANGED <<row, old, questions, broker, process>>

DeleteMeetingQuestions(f) ==
  /\ recreation[f] = "wiped"
  /\ recreation' = [recreation EXCEPT ![f] = "purged"]
  /\ questions' = [questions EXCEPT ![f] = [q \in Questions |-> "deleted"]]
  /\ UNCHANGED <<row, old, meeting, talk, broker, process>>

(* joinAssessmentMeeting of the recreated meeting: new question rows.        *)
JoinAgain(f) ==
  /\ recreation[f] = "purged" /\ meeting[f] = "pending"
  /\ meeting' = [meeting EXCEPT ![f] = "joined"]
  /\ questions' = [questions EXCEPT ![f] = [q \in Questions |-> "pending"]]
  /\ UNCHANGED <<row, old, talk, recreation, broker, process>>

-----------------------------------------------------------------------------
(* The process *)

(* All handlers are lost; the broker delivers what was not acknowledged      *)
(* again, before anything else.                                              *)
Restart ==
  /\ worker' = IdleWorker
  /\ cron' = IdleCron
  /\ restarted' = TRUE
  /\ queue' = unacked \o queue
  /\ unacked' = <<>>
  /\ unsent' = {}
  /\ UNCHANGED <<rows, acked>>

Crash ==
  /\ crashes < MaxCrashes
  /\ crashes' = crashes + 1
  /\ Restart

-----------------------------------------------------------------------------
(* analyzeAssessment *)

At(pc) == worker.pc = pc
Goto(pc) == worker' = [worker EXCEPT !.pc = pc]
Current == Head(unacked)
Stored == {q \in Questions : questions[Current][q] # "deleted"}
FirstOf(S) == CHOOSE q \in S : \A p \in S : q <= p

\* Mutant: no prefetch limit.
DeliverMore ==
  /\ At("idle") /\ queue # <<>>
  /\ unacked' = Append(unacked, Head(queue))
  /\ queue' = Tail(queue)
  /\ Goto("load")
  /\ UNCHANGED <<rows, unsent, acked, cron, crashes, restarted>>

Deliver ==
  /\ At("idle") /\ unacked = <<>> /\ queue # <<>>
  /\ unacked' = <<Head(queue)>>
  /\ queue' = Tail(queue)
  /\ Goto("load")
  /\ UNCHANGED <<rows, unsent, acked, cron, crashes, restarted>>

(* Without its row the handler returns and does not acknowledge.  It does so *)
(* without a conversation as well, and takes a question entry without a text *)
(* as an error: a feedback row has a conversation, and a question its text.  *)
LoadFeedback ==
  /\ At("load")
  /\ IF row[Current] = "deleted"
     THEN worker' = IdleWorker
     ELSE worker' = [worker EXCEPT !.pc = "next", !.todo = talk[Current]]
  /\ UNCHANGED <<rows, broker, cron, crashes, restarted>>

(* The call is retried, and returns null once its retries are used up; it    *)
(* never throws.                                                             *)
createChatCompletionsWithBackoff == {"text", "null"}

(* A question row that is gone is passed over.  For the others the model is  *)
(* asked, with retries: an analysis, or no answer at all.                    *)
AnalyzeQuestion ==
  /\ At("next") /\ worker.todo # {}
  /\ LET q == FirstOf(worker.todo)
     IN IF q \notin Stored
        THEN worker' = [worker EXCEPT !.todo = @ \ {q}]
        ELSE \E answer \in createChatCompletionsWithBackoff :
               worker' = [worker EXCEPT !.pc = "save",
                            !.verdict = IF answer = "null" THEN "error" ELSE "analyzed"]
  /\ UNCHANGED <<rows, broker, cron, crashes, restarted>>

(* The answer of the model is no JSON: JSON.parse throws.                    *)
ParseFailure ==
  /\ At("next") /\ worker.todo \cap Stored # {}
  /\ crashes < MaxCrashes
  /\ crashes' = crashes + 1
  /\ Restart

(* Saving a row deleted meanwhile inserts it without its meeting.            *)
SaveQuestion ==
  /\ At("save")
  /\ LET q == FirstOf(worker.todo)
     IN /\ questions' = [questions EXCEPT ![Current][q] =
                           IF @ = "deleted" THEN @ ELSE worker.verdict]
        /\ worker' = [worker EXCEPT !.pc = "next", !.todo = @ \ {q}]
  /\ UNCHANGED <<row, old, meeting, talk, recreation, broker, cron, crashes, restarted>>

-----------------------------------------------------------------------------
(* finalizeFeedback *)

ReloadFeedback ==
  /\ At("next") /\ worker.todo = {}
  /\ Goto(IF row[Current] = "deleted" THEN "ack" ELSE "judge")
  /\ UNCHANGED <<rows, broker, cron, crashes, restarted>>

\* Mutant: an error counts only if every question has one.
HadOnlyErrors == \A q \in Stored : questions[Current][q] = "error"

HadError == \E q \in Stored : questions[Current][q] = "error"
AllNotAnalyzed == \E q \in Stored : questions[Current][q] = "pending"

\* Mutant: after an error the handler acknowledges and saves nothing.
JudgeAndForget ==
  /\ At("judge")
  /\ Stored # {}
  /\ IF HadError \/ AllNotAnalyzed
     THEN Goto("ack")
     ELSE worker' = [worker EXCEPT !.pc = "finish", !.verdict = "ready"]
  /\ UNCHANGED <<rows, broker, cron, crashes, restarted>>

\* Mutant: with questions not analysed the handler returns early.
JudgeAndReturn ==
  /\ At("judge")
  /\ Stored # {}
  /\ CASE HadError -> worker' = [worker EXCEPT !.pc = "finish", !.verdict = "error"]
       [] ~HadError /\ AllNotAnalyzed -> worker' = IdleWorker
       [] OTHER -> worker' = [worker EXCEPT !.pc = "finish", !.verdict = "ready"]
  /\ UNCHANGED <<rows, broker, cron, crashes, restarted>>

JudgeFeedback ==
  /\ At("judge")
  /\ Stored # {}
  /\ CASE HadError -> worker' = [worker EXCEPT !.pc = "finish", !.verdict = "error"]
       [] ~HadError /\ AllNotAnalyzed -> Goto("ack")
       [] OTHER -> worker' = [worker EXCEPT !.pc = "finish", !.verdict = "ready"]
  /\ UNCHANGED <<rows, broker, cron, crashes, restarted>>

(* The sum of no scores divided by their number is NaN, which the database   *)
(* driver writes as a column name: the save throws.                          *)
AverageOfNothing ==
  /\ At("judge")
  /\ Stored = {}
  /\ Restart
  /\ UNCHANGED crashes

(* save(feedback) inserts the row again if the cleanup deleted it meanwhile. *)
SaveFeedback ==
  /\ At("finish")
  /\ row' = [row EXCEPT ![Current] = worker.verdict]
  /\ Goto("ack")
  /\ UNCHANGED <<old, meeting, questions, talk, recreation, broker, cron, crashes, restarted>>

Ack ==
  /\ At("ack")
  /\ acked' = acked \cup {Current}
  /\ unacked' = <<>>
  /\ worker' = IdleWorker
  /\ UNCHANGED <<rows, queue, unsent, cron, crashes, restarted>>

-----------------------------------------------------------------------------
(* handleFeedbackCleanup *)

Age(f) ==
  /\ row[f] = "preparing" /\ f \notin old
  /\ old' = old \cup {f}
  /\ UNCHANGED <<row, meeting, questions, talk, recreation, broker, process>>

\* Mutant: the cleanup looks for failed feedbacks.
ExpiredErrors == {f \in old : row[f] = "error"}

Expired == {f \in old : row[f] = "preparing"}

FindExpired ==
  /\ cron = IdleCron /\ Expired # {}
  /\ cron' = [IdleCron EXCEPT !.todo = Expired]
  /\ UNCHANGED <<rows, broker, worker, crashes, restarted>>

(* The rows found are deleted by id, whatever became of them since.          *)
DeleteFeedback(f) ==
  /\ f \in cron.todo /\ cron.gone = {}
  /\ row' = [row EXCEPT ![f] = "deleted"]
  /\ cron' = [todo |-> cron.todo \ {f}, gone |-> {f}]
  /\ UNCHANGED <<old, meeting, questions, talk, recreation, broker, worker, crashes, restarted>>

MarkMeeting(f) ==
  /\ f \in cron.gone
  /\ meeting' = [meeting EXCEPT ![f] = "error"]
  /\ cron' = [cron EXCEPT !.gone = {}]
  /\ UNCHANGED <<row, old, questions, talk, recreation, broker, worker, crashes, restarted>>

-----------------------------------------------------------------------------
(* getAssessmentMeetingFeedback: the questions because of which the recruiter *)
(* is told that the generation of the feedback has failed.                   *)
Obstacles(f) == {q \in Questions : questions[f][q] \notin {"analyzed", "deleted"}}

-----------------------------------------------------------------------------
Work ==
  \/ Deliver \/ LoadFeedback \/ AnalyzeQuestion \/ SaveQuestion
  \/ ReloadFeedback \/ JudgeFeedback \/ AverageOfNothing \/ SaveFeedback \/ Ack

CleanUp ==
  FindExpired \/ \E f \in Feedbacks : DeleteFeedback(f) \/ MarkMeeting(f)

Next ==
  \/ \E f \in Feedbacks : EndMeeting(f) \/ sendToQueue(f) \/ Age(f)
  \/ \E f \in Feedbacks : Recreate(f) \/ DeleteMeetingQuestions(f) \/ JoinAgain(f)
  \/ Work \/ CleanUp
  \/ Crash \/ ParseFailure

Spec == Init /\ [][Next]_vars

(* The consumer goes on whenever it can, the cron job runs every two hours,  *)
(* what was sent reaches the broker, and time passes.  Nothing makes the     *)
(* language model answer well, the recruiter act or the process crash.       *)
FairSpec ==
  /\ Spec
  /\ WF_vars(Work)
  /\ WF_vars(CleanUp)
  /\ \A f \in Feedbacks : WF_vars(sendToQueue(f)) /\ WF_vars(Age(f))

-----------------------------------------------------------------------------
(* Properties *)

(* A message is acknowledged only once its feedback is resolved.  What stays *)
(* `preparing` after that no message will ever resolve: it happens only when *)
(* questions were pending, or when the meeting was recreated.                  *)
AckedIsResolved ==
  \A f \in acked : row[f] = "preparing" =>
    \/ \E q \in Questions : questions[f][q] = "pending"
    \/ recreation[f] # "none"

(* A feedback that was announced as ready can be read, once its message is   *)
(* done with: across retries, crashes, second deliveries and cleanups no     *)
(* question of the stored conversation is left out or in error.  What makes  *)
(* the service refuse it is a question marked as asked that never was: the   *)
(* consumer takes it for analysed.                                           *)
ReadyIsReadable ==
  \A f \in Feedbacks :
    row[f] = "ready" /\ recreation[f] = "none" /\ ~(\E i \in DOMAIN queue : queue[i] = f)
      /\ ~(\E i \in DOMAIN unacked : unacked[i] = f)
    => Obstacles(f) \subseteq {q \in Questions \ talk[f] : questions[f][q] = "asked"}

(* The consumer is blocked (a message is out, nobody works on it, and        *)
(* prefetch 1 keeps the others back) only by a message whose feedback was    *)
(* deleted: no other path through the handler forgets to acknowledge.        *)
BlockedOnlyByDeletion ==
  At("idle") /\ unacked # <<>> => row[Current] = "deleted"

(* No feedback stays `preparing` for good: the consumer or, at the latest,   *)
(* the cleanup after two hours takes it out of that state.  It takes a       *)
(* recreated meeting to prevent it: while it has no questions the consumer   *)
(* throws on its message after each restart, and the cleanup may not come up.*)
PreparingEnds ==
  \A f \in Feedbacks :
    row[f] = "preparing"
      ~> row[f] # "preparing" \/ \E g \in Feedbacks : recreation[g] # "none"
=============================================================================
