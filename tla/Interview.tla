----------------------------- MODULE Interview -----------------------------
(* The life of one assessment meeting: the candidate joins, talks to the     *)
(* interviewer turn by turn, leaves and uploads the recording; the recruiter *)
(* recreates the meeting or resends its email; a cron job discards a stuck   *)
(* feedback.  Every handler is split where it awaits: between two of its     *)
(* steps the event loop runs any other handler.  There is no transaction and *)
(* no lock, a handler goes on with what it read before its await.            *)
(*                                                                           *)
(* Rows of the database are the shared state.  What a language model answers *)
(* is a nondeterministic choice.  Texts, passwords, times, notifications and *)
(* the statistics of the question bank are left out: no handler below reads  *)
(* them to decide anything.                                                  *)
EXTENDS Integers, SequencesExt

CONSTANTS
  Handlers,      \* how many handlers may be in flight at once
  NumQuestions,  \* questions of the published assessment
  Paced,         \* the client sends nothing before `loading: false`
  Bound,         \* how often each operation of Operations is called
  MaxTalk,       \* entries of a conversation beyond which no turn starts
  MaxSaves       \* unawaited saves under way beyond which no turn starts

Operations == {"join", "leave", "recording", "resend", "recreate", "cleanup", "crash"}

ASSUME HandlersAssumption == Handlers # {}
ASSUME QuestionsAssumption == NumQuestions \in Nat \ {0}
ASSUME PacedAssumption == Paced \in BOOLEAN
ASSUME BoundAssumption == 
  Bound \in [Operations -> Nat] /\ MaxTalk \in Nat /\ MaxSaves \in Nat

VARIABLES
  meeting,        \* the meeting row: its status and its conversation (0: null)
  conversations,  \* conversation rows; a meeting refers to one by its index
  questions,      \* meeting question rows, in order of createdAt
  feedback,       \* the meeting's feedback row (0: none); the column is unique
  feedbacks,      \* feedback rows inserted so far; a row's id is its rank
  tasks,          \* messages of the analyze-assessment queue, oldest first
  saves,          \* saves of question rows issued and not awaited
  unsent,         \* analyze messages issued and not awaited
  frame,          \* what each handler in flight holds across its awaits
  calls           \* operations called so far, per kind

store == <<meeting, conversations, questions, feedback, feedbacks, tasks>>
pending == <<saves, unsent>>
vars == <<store, pending, frame, calls>>

MeetingStatus == {"pending", "completed", "error", "joined", "left"}
(* The question row an entry asks, and the one it follows up (0: none).  The  *)
(* code stores the id of the former; of the latter it stores only the text,  *)
(* so `follows` is read by properties and by no action.                      *)
Entry == [role : {"user", "assistant"}, asks : Nat, follows : Nat]
Row == [order : 1..NumQuestions, status : {"pending", "asked"},
        followups : Nat, of : {"meeting", "nobody", "deleted"}]
Save == [row : Nat, status : {"pending", "asked"}, followups : Nat]

TurnPCs == {"greet", "listen", "first", "open", "last", "followup", "count",
            "next", "ask", "bye", "end", "complete", "rewrite"}
CandidatePCs == TurnPCs \cup {"insert", "leaving", "recording"}
PCs == CandidatePCs \cup {"idle", "resend", "wipe", "reopen", "purge", "drop", "fail"}

Frame == [pc : PCs, status : MeetingStatus, conv : Nat, talk : Seq(Entry),
          save : Save, skip : BOOLEAN, left : 0..NumQuestions, feedback : Nat]

NoSave == [row |-> 0, status |-> "pending", followups |-> 0]
Idle == [pc |-> "idle", status |-> "pending", conv |-> 0, talk |-> <<>>,
         save |-> NoSave, skip |-> FALSE, left |-> 0, feedback |-> 0]

TypeOK ==
  /\ meeting \in [status : MeetingStatus, conv : 0..Len(conversations)]
  /\ conversations \in Seq(Seq(Entry))
  /\ questions \in Seq(Row)
  /\ feedback \in Nat
  /\ feedbacks \in Nat
  /\ tasks \in Seq(Nat)
  /\ saves \in Seq(Save)
  /\ unsent \in SUBSET Nat
  /\ frame \in [Handlers -> Frame]
  /\ calls \in [Operations -> Nat]

(* A meeting as createAssessmentMeeting inserts it. *)
Init ==
  /\ meeting = [status |-> "pending", conv |-> 0]
  /\ conversations = <<>>
  /\ questions = <<>>
  /\ feedback = 0
  /\ feedbacks = 0
  /\ tasks = <<>>
  /\ saves = <<>>
  /\ unsent = {}
  /\ frame = [h \in Handlers |-> Idle]
  /\ calls = [op \in Operations |-> 0]

-----------------------------------------------------------------------------
(* Handlers *)

At(h, pc) == frame[h].pc = pc
Goto(h, pc) == frame' = [frame EXCEPT ![h].pc = pc]
Return(h) == frame' = [frame EXCEPT ![h] = Idle]
Start(h, f) == At(h, "idle") /\ frame' = [frame EXCEPT ![h] = f]

Call(op) ==
  /\ calls[op] < Bound[op]
  /\ calls' = [calls EXCEPT ![op] = @ + 1]

(* A paced client waits for the end of its previous request; by then (the    *)
(* reply has been synthesised and played) the saves it left behind are done. *)
CandidateMayCall ==
  Paced => /\ saves = <<>>
           /\ \A h \in Handlers : frame[h].pc \notin CandidatePCs

(* Statuses in which the meeting takes no further request of the candidate.  *)
Closed == {"completed", "error"}

-----------------------------------------------------------------------------
(* Rows *)

SetStatus(status) == meeting' = [meeting EXCEPT !.status = status]

addConversationEntry(talk, role, question) ==
  Append(talk, [role |-> role, asks |-> question, follows |-> 0])

addFollowUp(talk, question) ==
  Append(talk, [role |-> "assistant", asks |-> 0, follows |-> question])

(* The whole JSON column is overwritten. *)
updateConversation(conv, talk) ==
  conversations' = [conversations EXCEPT ![conv] = talk]

(* save(entity) writes every column the entity holds.  A row deleted in the  *)
(* meantime is inserted again, without the relation to its meeting.          *)
SaveQuestion(s) ==
  questions' = [questions EXCEPT ![s.row] =
    [order |-> @.order, status |-> s.status, followups |-> s.followups,
     of |-> IF @.of = "deleted" THEN "nobody" ELSE @.of]]

PendingQuestions ==
  {q \in DOMAIN questions : questions[q].of = "meeting" /\ questions[q].status = "pending"}

\* Mutant: createdAt ascending.
InTopOldest(q) == \A p \in PendingQuestions : q <= p

(* order: { createdAt: 'DESC' }, first row *)
InTop(q) == \A p \in PendingQuestions : p <= q

AskedAt(talk) == {i \in DOMAIN talk : talk[i].asks # 0}

LastAsked(talk, i) == i \in AskedAt(talk) /\ \A j \in AskedAt(talk) : j <= i

Stored(q) == q \in DOMAIN questions /\ questions[q].of # "deleted"

-----------------------------------------------------------------------------
(* joinAssessmentMeeting: read, insert one question row per assessment       *)
(* question (order DESC), insert a conversation, save the meeting it read.   *)

Join(h) ==
  /\ CandidateMayCall
  /\ meeting.status \notin Closed
  /\ Start(h, [Idle EXCEPT !.pc = "insert", !.left = NumQuestions])
  /\ Call("join")
  /\ UNCHANGED <<store, pending>>

\* Mutant: the rows are numbered from zero.
InsertFromZero(h) ==
  /\ At(h, "insert") /\ frame[h].left > 0
  /\ questions' = Append(questions, [order |-> frame[h].left - 1, status |-> "pending",
                                     followups |-> 0, of |-> "meeting"])
  /\ frame' = [frame EXCEPT ![h].left = @ - 1]
  /\ UNCHANGED <<meeting, conversations, feedback, feedbacks, tasks, pending, calls>>

InsertMeetingQuestion(h) ==
  /\ At(h, "insert") /\ frame[h].left > 0
  /\ questions' = Append(questions, [order |-> frame[h].left, status |-> "pending",
                                     followups |-> 0, of |-> "meeting"])
  /\ frame' = [frame EXCEPT ![h].left = @ - 1]
  /\ UNCHANGED <<meeting, conversations, feedback, feedbacks, tasks, pending, calls>>

(* The new conversation row is out of reach until the meeting refers to it.  *)
Enter(h) ==
  /\ At(h, "insert") /\ frame[h].left = 0
  /\ conversations' = Append(conversations, <<>>)
  /\ meeting' = [status |-> "joined", conv |-> Len(conversations) + 1]
  /\ Return(h)
  /\ UNCHANGED <<questions, feedback, feedbacks, tasks, pending, calls>>

-----------------------------------------------------------------------------
(* internalLeaveAssessmentMeeting: read, then update. *)

Leave(h) ==
  /\ CandidateMayCall
  /\ meeting.status \notin Closed
  /\ Start(h, [Idle EXCEPT !.pc = "leaving"])
  /\ Call("leave")
  /\ UNCHANGED <<store, pending>>

MarkLeft(h) ==
  /\ At(h, "leaving")
  /\ SetStatus("left")
  /\ Return(h)
  /\ UNCHANGED <<conversations, questions, feedback, feedbacks, tasks, pending, calls>>

-----------------------------------------------------------------------------
(* uploadMeetingVideo and resendAssessmentEmail: read the meeting, change a  *)
(* column of it (the recording, the password), save the whole row.           *)

EndRecording(h) ==
  /\ CandidateMayCall
  /\ Start(h, [Idle EXCEPT !.pc = "recording", !.status = meeting.status])
  /\ Call("recording")
  /\ UNCHANGED <<store, pending>>

ResendEmail(h) ==
  /\ meeting.status = "pending"
  /\ Start(h, [Idle EXCEPT !.pc = "resend", !.status = meeting.status])
  /\ Call("resend")
  /\ UNCHANGED <<store, pending>>

SaveMeeting(h) ==
  /\ frame[h].pc \in {"recording", "resend"}
  /\ SetStatus(frame[h].status)
  /\ Return(h)
  /\ UNCHANGED <<conversations, questions, feedback, feedbacks, tasks, pending, calls>>

-----------------------------------------------------------------------------
(* recreateAssessmentMeeting of a meeting that was joined at least once      *)
(* (before that its conversation is null, and reading its id throws).        *)

Recreate(h) ==
  /\ meeting.conv # 0
  /\ Start(h, [Idle EXCEPT !.pc = "wipe", !.conv = meeting.conv])
  /\ Call("recreate")
  /\ UNCHANGED <<store, pending>>

WipeConversation(h) ==
  /\ At(h, "wipe")
  /\ updateConversation(frame[h].conv, <<>>)
  /\ Goto(h, "reopen")
  /\ UNCHANGED <<meeting, questions, feedback, feedbacks, tasks, pending, calls>>

Reopen(h) ==
  /\ At(h, "reopen")
  /\ SetStatus("pending")
  /\ Goto(h, "purge")
  /\ UNCHANGED <<conversations, questions, feedback, feedbacks, tasks, pending, calls>>

DeleteMeetingQuestions(h) ==
  /\ At(h, "purge")
  /\ questions' = [q \in DOMAIN questions |->
                     [questions[q] EXCEPT !.of = IF @ = "meeting" THEN "deleted" ELSE @]]
  /\ Return(h)
  /\ UNCHANGED <<meeting, conversations, feedback, feedbacks, tasks, pending, calls>>

-----------------------------------------------------------------------------
(* handleFeedbackCleanup: a feedback still `preparing` after two hours is    *)
(* deleted and its meeting put to `error`.  How far its analysis has come is *)
(* not part of this module: any feedback may turn out to be that old.        *)

CleanUp(h) ==
  /\ feedback # 0
  /\ Start(h, [Idle EXCEPT !.pc = "drop", !.feedback = feedback])
  /\ Call("cleanup")
  /\ UNCHANGED <<store, pending>>

DropFeedback(h) ==
  /\ At(h, "drop")
  /\ feedback' = IF feedback = frame[h].feedback THEN 0 ELSE feedback
  /\ Goto(h, "fail")
  /\ UNCHANGED <<meeting, conversations, questions, feedbacks, tasks, pending, calls>>

MarkError(h) ==
  /\ At(h, "fail")
  /\ SetStatus("error")
  /\ Return(h)
  /\ UNCHANGED <<conversations, questions, feedback, feedbacks, tasks, pending, calls>>

-----------------------------------------------------------------------------
(* conductAssessmentMeeting, one turn of the talk *)

(* The handler works on its own copy of the conversation; round 1 (an empty  *)
(* conversation) is the greeting.                                            *)
SubmitAnswer(h) ==
  /\ CandidateMayCall
  /\ meeting.status \notin Closed
  /\ meeting.conv # 0
  /\ Len(saves) < MaxSaves
  /\ LET talk == conversations[meeting.conv]
     IN /\ Len(talk) < MaxTalk
        /\ Start(h, [Idle EXCEPT !.pc = IF talk = <<>> THEN "greet" ELSE "listen",
                                 !.conv = meeting.conv, !.talk = talk])
  /\ UNCHANGED <<store, pending, calls>>

sendGreetingMessage(h) ==
  /\ At(h, "greet")
  /\ updateConversation(frame[h].conv, addConversationEntry(frame[h].talk, "assistant", 0))
  /\ Return(h)
  /\ UNCHANGED <<meeting, questions, feedback, feedbacks, tasks, pending, calls>>

\* Mutant: the answer is not added to the conversation.
HearUnrecorded(h) ==
  /\ At(h, "listen")
  /\ IF Len(frame[h].talk) = 1
     THEN Goto(h, "first")
     ELSE \/ frame' = [frame EXCEPT ![h].pc = "next", ![h].skip = TRUE]
          \/ Goto(h, "last")
  /\ UNCHANGED <<store, pending, calls>>

(* The answer is transcribed and classified.  Round 2 asks the first         *)
(* question; later the candidate may want to skip ("NEXT").                  *)
Hear(h) ==
  /\ At(h, "listen")
  /\ LET heard == [frame[h] EXCEPT !.talk = addConversationEntry(@, "user", 0)]
     IN IF Len(frame[h].talk) = 1
        THEN frame' = [frame EXCEPT ![h] = [heard EXCEPT !.pc = "first"]]
        ELSE \/ frame' = [frame EXCEPT ![h] = [heard EXCEPT !.pc = "next", !.skip = TRUE]]
             \/ frame' = [frame EXCEPT ![h] = [heard EXCEPT !.pc = "last"]]
  /\ UNCHANGED <<store, pending, calls>>

(* Nothing was heard, a completion failed, the last question is not to be    *)
(* found, or (from round 3 on) the candidate's own question was answered     *)
(* aloud: the turn ends and the exchange is not stored.  In "open" the       *)
(* question to ask has been marked already.                                  *)
GiveUp(h) ==
  /\ frame[h].pc \in {"listen", "open", "last"}
  /\ Return(h)
  /\ UNCHANGED <<store, pending, calls>>

\* Mutant: a second follow-up is allowed.
ReviewAnswerTwice(h) ==
  /\ At(h, "last")
  /\ \E i \in DOMAIN frame[h].talk :
       LET last == frame[h].talk[i].asks
           row == questions[last]
       IN /\ LastAsked(frame[h].talk, i)
          /\ Stored(last)
          /\ \/ /\ row.followups <= 1
                /\ frame' = [frame EXCEPT
                     ![h].pc = "followup",
                     ![h].save = [row |-> last, status |-> row.status,
                                  followups |-> row.followups + 1]]
             \/ Goto(h, "next")
  /\ UNCHANGED <<store, pending, calls>>

(* getLastQuestionInfo, getMeetingQuestion and the verdict on the answer:    *)
(* a follow-up if there was none and the answer falls short, else on.        *)
ReviewAnswer(h) ==
  /\ At(h, "last")
  /\ \E i \in DOMAIN frame[h].talk :
       LET last == frame[h].talk[i].asks
           row == questions[last]
       IN /\ LastAsked(frame[h].talk, i)
          /\ Stored(last)
          /\ \/ /\ row.followups < 1
                /\ frame' = [frame EXCEPT
                     ![h].pc = "followup",
                     ![h].save = [row |-> last, status |-> row.status,
                                  followups |-> row.followups + 1]]
             \/ Goto(h, "next")
  /\ UNCHANGED <<store, pending, calls>>

AskFollowUp(h) ==
  /\ At(h, "followup")
  /\ updateConversation(frame[h].conv, addFollowUp(frame[h].talk, frame[h].save.row))
  /\ Goto(h, "count")
  /\ UNCHANGED <<meeting, questions, feedback, feedbacks, tasks, pending, calls>>

CountFollowUp(h) ==
  /\ At(h, "count")
  /\ SaveQuestion(frame[h].save)
  /\ Return(h)
  /\ UNCHANGED <<meeting, conversations, feedback, feedbacks, tasks, pending, calls>>

(* The question on top is marked `asked`; the save is not awaited.           *)
internalRetrieveQuestion(h, pc) ==
  \E q \in PendingQuestions :
    LET save == [row |-> q, status |-> "asked", followups |-> questions[q].followups]
    IN /\ InTop(q)
       /\ saves' = Append(saves, save)
       /\ frame' = [frame EXCEPT ![h].pc = pc, ![h].save = save]
       /\ UNCHANGED unsent

(* With no question left round 2 dereferences null and throws; a later round *)
(* says goodbye.                                                             *)
RetrieveQuestion(h) ==
  /\ \/ At(h, "first") /\ internalRetrieveQuestion(h, "open")
     \/ At(h, "next") /\ internalRetrieveQuestion(h, "ask")
     \/ At(h, "first") /\ PendingQuestions = {} /\ Return(h) /\ UNCHANGED pending
     \/ At(h, "next") /\ PendingQuestions = {} /\ Goto(h, "bye") /\ UNCHANGED pending
  /\ UNCHANGED <<store, calls>>

\* Mutant: the new entry replaces the conversation.
AskQuestionAlone(h) ==
  /\ frame[h].pc \in {"open", "ask"}
  /\ updateConversation(frame[h].conv,
       addConversationEntry(<<>>, "assistant", frame[h].save.row))
  /\ Return(h)
  /\ UNCHANGED <<meeting, questions, feedback, feedbacks, tasks, pending, calls>>

AskQuestion(h) ==
  /\ frame[h].pc \in {"open", "ask"}
  /\ updateConversation(frame[h].conv,
       addConversationEntry(frame[h].talk, "assistant", frame[h].save.row))
  /\ Return(h)
  /\ UNCHANGED <<meeting, questions, feedback, feedbacks, tasks, pending, calls>>

\* Mutant: the meeting is completed before its feedback is inserted.
SayGoodbyeAndComplete(h) ==
  /\ At(h, "bye")
  /\ LET talk == addConversationEntry(frame[h].talk, "assistant", 0)
     IN /\ updateConversation(frame[h].conv, talk)
        /\ frame' = [frame EXCEPT ![h].pc = "end", ![h].talk = talk]
  /\ SetStatus("completed")
  /\ UNCHANGED <<questions, feedback, feedbacks, tasks, pending, calls>>

SayGoodbye(h) ==
  /\ At(h, "bye")
  /\ LET talk == addConversationEntry(frame[h].talk, "assistant", 0)
     IN /\ updateConversation(frame[h].conv, talk)
        /\ frame' = [frame EXCEPT ![h].pc = "end", ![h].talk = talk]
  /\ UNCHANGED <<meeting, questions, feedback, feedbacks, tasks, pending, calls>>

-----------------------------------------------------------------------------
(* internalEndAssessmentMeeting *)

(* A second feedback of the meeting violates the unique column: the insert   *)
(* throws and the turn ends here.                                            *)
CreateFeedback(h) ==
  /\ At(h, "end")
  /\ IF feedback # 0
     THEN Return(h) /\ UNCHANGED <<feedback, feedbacks>>
     ELSE /\ feedbacks' = feedbacks + 1
          /\ feedback' = feedbacks + 1
          /\ frame' = [frame EXCEPT ![h].pc = "complete", ![h].feedback = feedbacks + 1]
  /\ UNCHANGED <<meeting, conversations, questions, tasks, pending, calls>>

\* Mutant: the analysis is not requested.
CompleteSilently(h) ==
  /\ At(h, "complete")
  /\ SetStatus("completed")
  /\ IF frame[h].skip THEN Return(h) ELSE Goto(h, "rewrite")
  /\ UNCHANGED <<conversations, questions, feedback, feedbacks, tasks, pending, calls>>

\* Mutant: the update of the status is forgotten.
CompleteNothing(h) ==
  /\ At(h, "complete")
  /\ unsent' = unsent \cup {frame[h].feedback}
  /\ IF frame[h].skip THEN Return(h) ELSE Goto(h, "rewrite")
  /\ UNCHANGED <<meeting, conversations, questions, feedback, feedbacks, tasks, saves, calls>>

(* After the update the analysis is requested without awaiting the broker;   *)
(* unless the candidate skipped, sendFinalResponse stores its copy again.    *)
Complete(h) ==
  /\ At(h, "complete")
  /\ SetStatus("completed")
  /\ unsent' = unsent \cup {frame[h].feedback}
  /\ IF frame[h].skip THEN Return(h) ELSE Goto(h, "rewrite")
  /\ UNCHANGED <<conversations, questions, feedback, feedbacks, tasks, saves, calls>>

StoreTalkAgain(h) ==
  /\ At(h, "rewrite")
  /\ updateConversation(frame[h].conv, frame[h].talk)
  /\ Return(h)
  /\ UNCHANGED <<meeting, questions, feedback, feedbacks, tasks, pending, calls>>

-----------------------------------------------------------------------------
(* What was issued and not awaited lands later, in any order. *)

LandSave ==
  /\ \E i \in DOMAIN saves :
       SaveQuestion(saves[i]) /\ saves' = RemoveAt(saves, i)
  /\ UNCHANGED <<meeting, conversations, feedback, feedbacks, tasks, unsent, frame, calls>>

sendToQueue ==
  /\ \E f \in unsent :
       tasks' = Append(tasks, f) /\ unsent' = unsent \ {f}
  /\ UNCHANGED <<meeting, conversations, questions, feedback, feedbacks, saves, frame, calls>>

(* The process stops and restarts: rows and queue stay, all else is lost.    *)
Crash ==
  /\ Call("crash")
  /\ frame' = [h \in Handlers |-> Idle]
  /\ saves' = <<>>
  /\ unsent' = {}
  /\ UNCHANGED store

-----------------------------------------------------------------------------
Request(h) ==
  \/ Join(h) \/ Leave(h) \/ SubmitAnswer(h) \/ EndRecording(h)
  \/ ResendEmail(h) \/ Recreate(h) \/ CleanUp(h)

Advance(h) ==
  \/ InsertMeetingQuestion(h) \/ Enter(h) \/ MarkLeft(h) \/ SaveMeeting(h)
  \/ WipeConversation(h) \/ Reopen(h) \/ DeleteMeetingQuestions(h)
  \/ DropFeedback(h) \/ MarkError(h)
  \/ sendGreetingMessage(h) \/ Hear(h) \/ GiveUp(h) \/ ReviewAnswer(h)
  \/ AskFollowUp(h) \/ CountFollowUp(h) \/ RetrieveQuestion(h) \/ AskQuestion(h)
  \/ SayGoodbye(h) \/ CreateFeedback(h) \/ Complete(h) \/ StoreTalkAgain(h)

Next ==
  \/ \E h \in Handlers : Request(h) \/ Advance(h)
  \/ LandSave
  \/ sendToQueue
  \/ Crash

Spec == Init /\ [][Next]_vars

(* Every awaited call settles, so a handler in flight goes on; what was      *)
(* issued lands.  Nothing makes the candidate or the recruiter call.         *)
FairSpec ==
  /\ Spec
  /\ \A h \in Handlers : WF_vars(Advance(h))
  /\ WF_vars(LandSave)
  /\ WF_vars(sendToQueue)

-----------------------------------------------------------------------------
(* Properties *)

(* Every feedback row has had its analysis requested (line 1094), is about   *)
(* to by the handler that inserted it, or a crash came in between: a         *)
(* feedback does not stay `preparing` because nobody asked for its analysis. *)
FeedbackIsRequested ==
  feedback # 0 =>
    \/ feedback \in unsent
    \/ \E i \in DOMAIN tasks : tasks[i] = feedback
    \/ \E h \in Handlers : At(h, "complete") /\ frame[h].feedback = feedback
    \/ calls["crash"] > 0

(* However many turns end the meeting at once, each feedback is analysed on  *)
(* one request only, made after its row was inserted.                        *)
OneTaskPerFeedback ==
  /\ \A i, j \in DOMAIN tasks : i # j => tasks[i] # tasks[j]
  /\ \A i \in DOMAIN tasks : tasks[i] \in 1..feedbacks /\ tasks[i] \notin unsent

(* A meeting is shown `completed` only with a feedback row to look at, until *)
(* the cleanup deletes it: internalEndAssessmentMeeting inserts the row      *)
(* before it updates the meeting, and nothing else may complete a meeting.   *)
CompletedHasFeedback ==
  meeting.status = "completed" => feedback # 0 \/ calls["cleanup"] > 0

(* Stored conversations are whole exchanges: the interviewer opens, the two  *)
(* alternate, the interviewer speaks last.  getCurrentRound counts entries,  *)
(* so half an exchange would shift every later round.                        *)
Alternates(talk) ==
  /\ talk # <<>> => Len(talk) % 2 = 1
  /\ \A i \in DOMAIN talk : talk[i].role = (IF i % 2 = 1 THEN "assistant" ELSE "user")

WholeExchanges == \A c \in DOMAIN conversations : Alternates(conversations[c])

(* The questions of one conversation come in the order the recruiter gave    *)
(* them, none twice; those left over from an earlier join come last.  Two    *)
(* reversals (insert DESC, retrieve DESC) and an unawaited save must agree.  *)
InOrder(a, b) ==
  /\ a > b
  /\ \/ questions[a].order < questions[b].order
     \/ \E q \in (b + 1)..a : questions[q].order = NumQuestions

AskedInOrder ==
  \A c \in DOMAIN conversations :
    LET talk == conversations[c]
    IN \A i, j \in AskedAt(talk) : i < j => InOrder(talk[i].asks, talk[j].asks)

(* No question of a conversation is followed up twice, however many turns,   *)
(* leaves and rejoins lie between: the counter a follow-up is decided by     *)
(* (timesFollowupAsked < 1) is read from the row before the follow-up is     *)
(* stored and saved after it, and the unawaited save that marks the row      *)
(* `asked` writes the counter as well.                                       *)
FollowsAt(talk) == {i \in DOMAIN talk : talk[i].follows # 0}

OneFollowUpPerQuestion ==
  \A c \in DOMAIN conversations :
    LET talk == conversations[c]
    IN \A i, j \in FollowsAt(talk) : talk[i].follows = talk[j].follows => i = j

(* A stored conversation is only extended, unless the meeting is recreated:  *)
(* no turn overwrites what another turn has stored.                          *)
TalkOnlyGrows ==
  [][\A c \in DOMAIN conversations :
       \/ IsPrefix(conversations[c], conversations'[c])
       \/ \E h \in Handlers : WipeConversation(h)]_vars

(* "Assessment is already completed!" (line 597): a completed meeting is     *)
(* reopened by the recruiter or failed by the cleanup, and by nobody else.   *)
CompletedIsFinal ==
  [][meeting.status = "completed" /\ meeting'.status # "completed" =>
       \E h \in Handlers : Reopen(h) \/ MarkError(h)]_vars

(* "I will analyze our meeting and report my findings to the recruiting      *)
(* team" (line 883): after the goodbye the meeting is completed.             *)
GoodbyeCompletes ==
  \A h \in Handlers : At(h, "end") ~> meeting.status = "completed"
=============================================================================
