-------------------------- MODULE InterviewProofs --------------------------
(* Theorems about Interview, for every number of handlers and questions, and *)
(* every bound on the calls; those about the order of the questions and      *)
(* about their follow-ups assume a client that waits for each reply (Paced). *)
EXTENDS InterviewRefinement, SequenceTheorems, TLAPS

-----------------------------------------------------------------------------
(* Lemmas: what the operators the actions share do to the types *)

LEMMA IdleIsFrame == Idle \in Frame
<1>1. <<>> \in Seq(Entry)
  OBVIOUS
<1>2. QED
  BY <1>1, QuestionsAssumption DEF Idle, Frame, NoSave, Save, PCs, MeetingStatus

LEMMA GotoFrame ==
  ASSUME frame \in [Handlers -> Frame], NEW h \in Handlers, NEW pc \in PCs, Goto(h, pc)
  PROVE  frame' \in [Handlers -> Frame]
BY DEF Goto, Frame

LEMMA ReturnFrame ==
  ASSUME frame \in [Handlers -> Frame], NEW h \in Handlers, Return(h)
  PROVE  frame' \in [Handlers -> Frame]
BY IdleIsFrame DEF Return

LEMMA StartFrame ==
  ASSUME frame \in [Handlers -> Frame], NEW h \in Handlers, NEW f \in Frame, Start(h, f)
  PROVE  frame' \in [Handlers -> Frame]
BY DEF Start

LEMMA CallCounted ==
  ASSUME calls \in [Operations -> Nat], NEW op \in Operations, Call(op)
  PROVE  calls' \in [Operations -> Nat]
BY DEF Call

LEMMA TalkInFrame ==
  ASSUME frame \in [Handlers -> Frame], NEW h \in Handlers,
         NEW pc \in PCs, NEW talk \in Seq(Entry)
  PROVE  /\ [frame EXCEPT ![h] = [frame[h] EXCEPT !.talk = talk, !.pc = pc]]
               \in [Handlers -> Frame]
         /\ [frame EXCEPT ![h] = [frame[h] EXCEPT !.talk = talk, !.pc = pc, !.skip = TRUE]]
               \in [Handlers -> Frame]
         /\ [frame EXCEPT ![h].pc = pc, ![h].talk = talk] \in [Handlers -> Frame]
BY DEF Frame

LEMMA SaveInFrame ==
  ASSUME frame \in [Handlers -> Frame], NEW h \in Handlers, NEW pc \in PCs, NEW save \in Save
  PROVE  [frame EXCEPT ![h].pc = pc, ![h].save = save] \in [Handlers -> Frame]
BY DEF Frame

LEMMA FeedbackInFrame ==
  ASSUME frame \in [Handlers -> Frame], NEW h \in Handlers, NEW pc \in PCs, NEW f \in Nat
  PROVE  [frame EXCEPT ![h].pc = pc, ![h].feedback = f] \in [Handlers -> Frame]
BY DEF Frame

LEMMA FunctionIsSeq ==
  ASSUME NEW S, NEW n \in Nat, NEW s \in [1..n -> S]
  PROVE  s \in Seq(S) /\ Len(s) = n
<1>1. s \in Seq(S) /\ DOMAIN s = 1..n
  OBVIOUS
<1>2. QED
  BY <1>1, LenProperties

LEMMA EntryAdded ==
  ASSUME NEW talk \in Seq(Entry), NEW role \in {"user", "assistant"}, NEW q \in Nat
  PROVE  addConversationEntry(talk, role, q) \in Seq(Entry)
<1>1. [role |-> role, asks |-> q, follows |-> 0] \in Entry
  BY DEF Entry
<1>2. QED
  BY <1>1 DEF addConversationEntry

(* What a follow-up adds differs from any other remark of the interviewer in *)
(* the question it is about, and in nothing else.                            *)
LEMMA FollowUpAdded ==
  ASSUME NEW talk \in Seq(Entry), NEW q \in Nat
  PROVE  LET s == addFollowUp(talk, q)
             r == addConversationEntry(talk, "assistant", 0)
         IN /\ s \in Seq(Entry)
            /\ DOMAIN s = DOMAIN r /\ Len(s) = Len(r)
            /\ \A i \in DOMAIN s : s[i].role = r[i].role /\ s[i].asks = r[i].asks
<1> DEFINE e == [role |-> "assistant", asks |-> 0, follows |-> q]
           n == [role |-> "assistant", asks |-> 0, follows |-> 0]
<1>1. /\ e \in Entry /\ n \in Entry /\ Len(talk) \in Nat
      /\ e.role = n.role /\ e.asks = n.asks
  BY DEF Entry
<1>2. addFollowUp(talk, q) = Append(talk, e) /\ addConversationEntry(talk, "assistant", 0) = Append(talk, n)
  BY DEF addFollowUp, addConversationEntry
<1> HIDE DEF e, n
<1>3. /\ Append(talk, e) \in Seq(Entry)
      /\ Len(Append(talk, e)) = Len(talk) + 1 /\ Len(Append(talk, n)) = Len(talk) + 1
      /\ DOMAIN Append(talk, e) = 1..(Len(talk) + 1)
      /\ DOMAIN Append(talk, n) = 1..(Len(talk) + 1)
      /\ Append(talk, e)[Len(talk) + 1] = e /\ Append(talk, n)[Len(talk) + 1] = n
      /\ \A i \in 1..Len(talk) : Append(talk, e)[i] = talk[i] /\ Append(talk, n)[i] = talk[i]
  BY <1>1
<1>4. \A i \in 1..(Len(talk) + 1) : i = Len(talk) + 1 \/ i \in 1..Len(talk)
  BY <1>1
<1>5. QED
  BY <1>1, <1>2, <1>3, <1>4

(* An update of a conversation row leaves as many rows as there were, so the *)
(* meeting's reference stays in range.                                       *)
LEMMA ConversationUpdated ==
  ASSUME conversations \in Seq(Seq(Entry)), NEW conv \in Nat, NEW talk \in Seq(Entry),
         updateConversation(conv, talk)
  PROVE  conversations' \in Seq(Seq(Entry)) /\ Len(conversations') = Len(conversations)
<1>1. conversations \in [1..Len(conversations) -> Seq(Entry)] /\ Len(conversations) \in Nat
  BY LenProperties
<1>2. conversations' \in [1..Len(conversations) -> Seq(Entry)]
  BY <1>1 DEF updateConversation
<1>3. QED
  BY <1>1, <1>2, FunctionIsSeq

LEMMA QuestionSaved ==
  ASSUME questions \in Seq(Row), NEW s \in Save, SaveQuestion(s)
  PROVE  questions' \in Seq(Row)
<1>1. questions \in [1..Len(questions) -> Row] /\ Len(questions) \in Nat
  BY LenProperties
<1>2. \A q \in 1..Len(questions) :
        [order |-> questions[q].order, status |-> s.status, followups |-> s.followups,
         of |-> IF questions[q].of = "deleted" THEN "nobody" ELSE questions[q].of] \in Row
  BY <1>1 DEF Row, Save
<1>3. questions' \in [1..Len(questions) -> Row]
  BY <1>1, <1>2 DEF SaveQuestion
<1>4. QED
  BY <1>1, <1>3

LEMMA SaveRemoved ==
  ASSUME saves \in Seq(Save), NEW i \in DOMAIN saves
  PROVE  RemoveAt(saves, i) \in Seq(Save)
BY DEF RemoveAt

-----------------------------------------------------------------------------
(* Type correctness *)

LEMMA TypeInit == Init => TypeOK
BY IdleIsFrame DEF Init, TypeOK, MeetingStatus

LEMMA TypeRequest ==
  ASSUME TypeOK, NEW h \in Handlers, Request(h)
  PROVE  TypeOK'
<1> USE DEF TypeOK, store, pending
<1>1. CASE Join(h)
  <2>1. [Idle EXCEPT !.pc = "insert", !.left = NumQuestions] \in Frame
    <3>1. NumQuestions \in 0..NumQuestions /\ "insert" \in PCs
      BY QuestionsAssumption DEF PCs, CandidatePCs
    <3>2. QED
      BY <3>1, IdleIsFrame DEF Frame
  <2>2. QED
    BY <1>1, <2>1, StartFrame, CallCounted DEF Join, Operations
<1>2. CASE Leave(h)
  <2>1. [Idle EXCEPT !.pc = "leaving"] \in Frame
    BY IdleIsFrame DEF Frame, PCs, CandidatePCs
  <2>2. QED
    BY <1>2, <2>1, StartFrame, CallCounted DEF Leave, Operations
<1>3. CASE SubmitAnswer(h)
  <2> DEFINE talk == conversations[meeting.conv]
             f == [Idle EXCEPT !.pc = IF talk = <<>> THEN "greet" ELSE "listen",
                               !.conv = meeting.conv, !.talk = talk]
  <2>1. talk \in Seq(Entry)
    BY <1>3 DEF SubmitAnswer
  <2>2. f \in Frame
    <3>1. "greet" \in PCs /\ "listen" \in PCs /\ meeting.conv \in Nat
      BY DEF PCs, CandidatePCs, TurnPCs
    <3> HIDE DEF talk
    <3>2. QED
      BY <2>1, <3>1, IdleIsFrame DEF Frame
  <2>3. Start(h, f)
    BY <1>3 DEF SubmitAnswer
  <2> HIDE DEF f
  <2>4. frame' \in [Handlers -> Frame]
    BY <2>2, <2>3, StartFrame
  <2>5. QED
    BY <1>3, <2>4 DEF SubmitAnswer
<1>4. CASE EndRecording(h)
  <2>1. [Idle EXCEPT !.pc = "recording", !.status = meeting.status] \in Frame
    BY IdleIsFrame DEF Frame, PCs, CandidatePCs
  <2>2. QED
    BY <1>4, <2>1, StartFrame, CallCounted DEF EndRecording, Operations
<1>5. CASE ResendEmail(h)
  <2>1. [Idle EXCEPT !.pc = "resend", !.status = meeting.status] \in Frame
    BY IdleIsFrame DEF Frame, PCs
  <2>2. QED
    BY <1>5, <2>1, StartFrame, CallCounted DEF ResendEmail, Operations
<1>6. CASE Recreate(h)
  <2>1. [Idle EXCEPT !.pc = "wipe", !.conv = meeting.conv] \in Frame
    <3>1. meeting.conv \in Nat /\ "wipe" \in PCs
      BY DEF PCs
    <3>2. QED
      BY <3>1, IdleIsFrame DEF Frame
  <2>2. QED
    BY <1>6, <2>1, StartFrame, CallCounted DEF Recreate, Operations
<1>7. CASE CleanUp(h)
  <2>1. [Idle EXCEPT !.pc = "drop", !.feedback = feedback] \in Frame
    BY IdleIsFrame DEF Frame, PCs
  <2>2. QED
    BY <1>7, <2>1, StartFrame, CallCounted DEF CleanUp, Operations
<1>8. QED
  BY <1>1, <1>2, <1>3, <1>4, <1>5, <1>6, <1>7 DEF Request

(* What the lemmas above give an action that moves one handler on. *)
LEMMA PCsNamed ==
  /\ {"insert", "reopen", "purge", "fail", "first", "next", "last",
      "followup", "count", "open", "ask", "bye", "end", "complete", "rewrite"} \subseteq PCs
BY DEF PCs, CandidatePCs, TurnPCs

LEMMA TypeMeetingSteps ==
  ASSUME TypeOK, NEW h \in Handlers,
         \/ InsertMeetingQuestion(h) \/ Enter(h) \/ MarkLeft(h) \/ SaveMeeting(h)
         \/ WipeConversation(h) \/ Reopen(h) \/ DeleteMeetingQuestions(h)
         \/ DropFeedback(h) \/ MarkError(h)
  PROVE  TypeOK'
<1> USE DEF TypeOK, store, pending
<1>1. CASE InsertMeetingQuestion(h)
  <2>1. frame[h].left - 1 \in 0..NumQuestions
    BY <1>1, QuestionsAssumption DEF InsertMeetingQuestion, Frame
  <2>2. frame' \in [Handlers -> Frame]
    BY <1>1, <2>1 DEF InsertMeetingQuestion, Frame
  <2>3. [order |-> frame[h].left, status |-> "pending", followups |-> 0, of |-> "meeting"] \in Row
    BY <1>1, QuestionsAssumption DEF InsertMeetingQuestion, Frame, Row
  <2>4. questions' \in Seq(Row)
    BY <1>1, <2>3, AppendProperties DEF InsertMeetingQuestion
  <2>5. QED
    BY <1>1, <2>2, <2>4 DEF InsertMeetingQuestion
<1>2. CASE Enter(h)
  <2>1. frame' \in [Handlers -> Frame]
    BY <1>2, ReturnFrame DEF Enter
  <2>2. /\ conversations' \in Seq(Seq(Entry))
        /\ Len(conversations') = Len(conversations) + 1
    BY <1>2, AppendProperties, EmptySeq DEF Enter
  <2>3. meeting' \in [status : MeetingStatus, conv : 0..Len(conversations')]
    BY <1>2, <2>2, LenProperties DEF Enter, MeetingStatus
  <2>4. QED
    BY <1>2, <2>1, <2>2, <2>3 DEF Enter
<1>3. CASE MarkLeft(h)
  BY <1>3, ReturnFrame DEF MarkLeft, SetStatus, MeetingStatus
<1>4. CASE SaveMeeting(h)
  <2>1. frame[h].status \in MeetingStatus
    BY DEF Frame
  <2>2. QED
    BY <1>4, <2>1, ReturnFrame DEF SaveMeeting, SetStatus
<1>5. CASE WipeConversation(h)
  <2>1. frame[h].conv \in Nat /\ <<>> \in Seq(Entry)
    BY DEF Frame
  <2>2. conversations' \in Seq(Seq(Entry)) /\ Len(conversations') = Len(conversations)
    BY <1>5, <2>1, ConversationUpdated DEF WipeConversation
  <2>3. QED
    BY <1>5, <2>2, GotoFrame, PCsNamed DEF WipeConversation
<1>6. CASE Reopen(h)
  BY <1>6, GotoFrame, PCsNamed DEF Reopen, SetStatus, MeetingStatus
<1>7. CASE DeleteMeetingQuestions(h)
  <2>1. questions \in [1..Len(questions) -> Row] /\ Len(questions) \in Nat
    BY LenProperties
  <2>2. questions' \in [1..Len(questions) -> Row]
    BY <1>7, <2>1 DEF DeleteMeetingQuestions, Row
  <2>3. questions' \in Seq(Row)
    BY <2>1, <2>2, FunctionIsSeq
  <2>4. QED
    BY <1>7, <2>3, ReturnFrame DEF DeleteMeetingQuestions
<1>8. CASE DropFeedback(h)
  BY <1>8, GotoFrame, PCsNamed DEF DropFeedback
<1>9. CASE MarkError(h)
  BY <1>9, ReturnFrame DEF MarkError, SetStatus, MeetingStatus
<1>10. QED
  BY <1>1, <1>2, <1>3, <1>4, <1>5, <1>6, <1>7, <1>8, <1>9

LEMMA TypeTurnSteps ==
  ASSUME TypeOK, NEW h \in Handlers,
         \/ sendGreetingMessage(h) \/ Hear(h) \/ GiveUp(h) \/ ReviewAnswer(h)
         \/ AskFollowUp(h) \/ CountFollowUp(h) \/ RetrieveQuestion(h) \/ AskQuestion(h)
         \/ SayGoodbye(h) \/ CreateFeedback(h) \/ Complete(h) \/ StoreTalkAgain(h)
  PROVE  TypeOK'
<1> USE DEF TypeOK, store, pending
<1>0. /\ frame[h] \in Frame /\ frame[h].talk \in Seq(Entry)
      /\ frame[h].conv \in Nat /\ frame[h].save \in Save /\ frame[h].save.row \in Nat
      /\ frame[h].feedback \in Nat
  BY DEF Frame, Save
<1>t. addConversationEntry(frame[h].talk, "assistant", 0) \in Seq(Entry)
  BY <1>0, EntryAdded
<1>1. CASE sendGreetingMessage(h)
  BY <1>1, <1>0, <1>t, ConversationUpdated, ReturnFrame DEF sendGreetingMessage
<1>2. CASE Hear(h)
  <2>1. addConversationEntry(frame[h].talk, "user", 0) \in Seq(Entry)
    BY <1>0, EntryAdded
  <2>2. frame' \in [Handlers -> Frame]
    <3> DEFINE talk == addConversationEntry(frame[h].talk, "user", 0)
    <3>1. \/ frame' = [frame EXCEPT ![h] = [frame[h] EXCEPT !.talk = talk, !.pc = "first"]]
          \/ frame' = [frame EXCEPT ![h] =
                         [frame[h] EXCEPT !.talk = talk, !.pc = "next", !.skip = TRUE]]
          \/ frame' = [frame EXCEPT ![h] = [frame[h] EXCEPT !.talk = talk, !.pc = "last"]]
      BY <1>2 DEF Hear
    <3> HIDE DEF talk
    <3>2. talk \in Seq(Entry) 
      BY <2>1 DEF talk
    <3>3. "first" \in PCs /\ "next" \in PCs /\ "last" \in PCs
      BY PCsNamed
    <3>4. ASSUME NEW pc \in PCs
          PROVE  /\ [frame EXCEPT ![h] = [frame[h] EXCEPT !.talk = talk, !.pc = pc]]
                       \in [Handlers -> Frame]
                 /\ [frame EXCEPT ![h] = [frame[h] EXCEPT !.talk = talk, !.pc = pc, !.skip = TRUE]]
                       \in [Handlers -> Frame]
      BY <3>2, TalkInFrame
    <3>5. QED
      BY <3>1, <3>3, <3>4
  <2>3. QED
    BY <1>2, <2>2 DEF Hear
<1>3. CASE GiveUp(h)
  BY <1>3, ReturnFrame DEF GiveUp
<1>4. CASE ReviewAnswer(h)
  <2>1. PICK i \in DOMAIN frame[h].talk :
          /\ Stored(frame[h].talk[i].asks)
          /\ \/ frame' = [frame EXCEPT
                  ![h].pc = "followup",
                  ![h].save = [row |-> frame[h].talk[i].asks,
                               status |-> questions[frame[h].talk[i].asks].status,
                               followups |-> questions[frame[h].talk[i].asks].followups + 1]]
             \/ Goto(h, "next")
    BY <1>4 DEF ReviewAnswer
  <2>2. questions[frame[h].talk[i].asks] \in Row
    BY <2>1 DEF Stored
  <2>3. frame[h].talk[i].asks \in Nat
    <3>1. frame[h].talk[i] \in Entry
      BY <1>0
    <3>2. QED
      BY <3>1 DEF Entry
  <2>4. [row |-> frame[h].talk[i].asks,
         status |-> questions[frame[h].talk[i].asks].status,
         followups |-> questions[frame[h].talk[i].asks].followups + 1] \in Save
    BY <2>2, <2>3 DEF Save, Row
  <2>5. frame' \in [Handlers -> Frame]
    <3>1. CASE Goto(h, "next")
      BY <3>1, GotoFrame, PCsNamed
    <3>2. CASE ~Goto(h, "next")
      <4>1. "followup" \in PCs
        BY PCsNamed
      <4>2. [frame EXCEPT
               ![h].pc = "followup",
               ![h].save = [row |-> frame[h].talk[i].asks,
                            status |-> questions[frame[h].talk[i].asks].status,
                            followups |-> questions[frame[h].talk[i].asks].followups + 1]]
              \in [Handlers -> Frame]
        BY <2>4, <4>1, SaveInFrame
      <4>3. QED
        BY <2>1, <3>2, <4>2
    <3>3. QED
      BY <3>1, <3>2
  <2>6. QED
    BY <1>4, <2>5 DEF ReviewAnswer
<1>5. CASE AskFollowUp(h)
  BY <1>5, <1>0, FollowUpAdded, ConversationUpdated, GotoFrame, PCsNamed DEF AskFollowUp
<1>6. CASE CountFollowUp(h)
  BY <1>6, <1>0, QuestionSaved, ReturnFrame DEF CountFollowUp
<1>7. CASE RetrieveQuestion(h)
  <2>1. ASSUME NEW pc \in PCs, internalRetrieveQuestion(h, pc)
        PROVE  /\ frame' \in [Handlers -> Frame]
               /\ saves' \in Seq(Save)
               /\ unsent' = unsent
    <3>1. PICK q \in PendingQuestions :
            LET save == [row |-> q, status |-> "asked", followups |-> questions[q].followups]
            IN /\ saves' = Append(saves, save)
               /\ frame' = [frame EXCEPT ![h].pc = pc, ![h].save = save]
      BY <2>1 DEF internalRetrieveQuestion
    <3>2. q \in Nat /\ questions[q].followups \in Nat
      <4>1. q \in DOMAIN questions /\ questions[q] \in Row /\ Len(questions) \in Nat
        BY DEF PendingQuestions
      <4>2. QED
        BY <4>1 DEF Row
    <3>3. [row |-> q, status |-> "asked", followups |-> questions[q].followups] \in Save
      BY <3>2 DEF Save
    <3>4. QED
      BY <2>1, <3>1, <3>3, SaveInFrame, AppendProperties DEF internalRetrieveQuestion
  <2>2. frame' \in [Handlers -> Frame] /\ saves' \in Seq(Save) /\ unsent' = unsent
    BY <1>7, <2>1, PCsNamed, ReturnFrame, GotoFrame DEF RetrieveQuestion
  <2>3. QED
    BY <1>7, <2>2 DEF RetrieveQuestion
<1>8. CASE AskQuestion(h)
  BY <1>8, <1>0, EntryAdded, ConversationUpdated, ReturnFrame DEF AskQuestion
<1>9. CASE SayGoodbye(h)
  <2>1. frame' \in [Handlers -> Frame]
    BY <1>9, <1>0, <1>t, PCsNamed DEF SayGoodbye, Frame
  <2>2. conversations' \in Seq(Seq(Entry)) /\ Len(conversations') = Len(conversations)
    BY <1>9, <1>0, <1>t, ConversationUpdated DEF SayGoodbye
  <2>3. QED
    BY <1>9, <2>1, <2>2 DEF SayGoodbye
<1>10. CASE CreateFeedback(h)
  <2>1. feedbacks + 1 \in Nat
    OBVIOUS
  <2>2. frame' \in [Handlers -> Frame]
    <3>1. "complete" \in PCs
      BY PCsNamed
    <3>2. [frame EXCEPT ![h].pc = "complete", ![h].feedback = feedbacks + 1]
            \in [Handlers -> Frame]
      BY <2>1, <3>1, FeedbackInFrame
    <3>3. QED
      BY <1>10, <3>2, ReturnFrame DEF CreateFeedback
  <2>3. QED
    BY <1>10, <2>1, <2>2 DEF CreateFeedback
<1>11. CASE Complete(h)
  BY <1>0, <1>11, ReturnFrame, GotoFrame, PCsNamed DEF Complete, SetStatus, MeetingStatus
<1>12. CASE StoreTalkAgain(h)
  BY <1>12, <1>0, ConversationUpdated, ReturnFrame DEF StoreTalkAgain
<1>13. QED
  BY <1>1, <1>2, <1>3, <1>4, <1>5, <1>6, <1>7, <1>8, <1>9, <1>10, <1>11, <1>12

LEMMA TypeBackground == TypeOK /\ (LandSave \/ sendToQueue \/ Crash) => TypeOK'
<1> SUFFICES ASSUME TypeOK, LandSave \/ sendToQueue \/ Crash
             PROVE  TypeOK'
  OBVIOUS
<1> USE DEF TypeOK, store
<1>1. CASE LandSave
  <2>1. PICK i \in DOMAIN saves : SaveQuestion(saves[i]) /\ saves' = RemoveAt(saves, i)
    BY <1>1 DEF LandSave
  <2>2. questions' \in Seq(Row)
    BY <2>1, QuestionSaved
  <2>3. QED
    BY <1>1, <2>1, <2>2, SaveRemoved DEF LandSave
<1>2. CASE sendToQueue
  BY <1>2 DEF sendToQueue
<1>3. CASE Crash
  BY <1>3, IdleIsFrame, CallCounted DEF Crash, Operations
<1>4. QED
  BY <1>1, <1>2, <1>3

LEMMA TypeNext == TypeOK /\ [Next]_vars => TypeOK'
<1> SUFFICES ASSUME TypeOK, [Next]_vars
             PROVE  TypeOK'
  OBVIOUS
<1>1. ASSUME NEW h \in Handlers, Advance(h)
      PROVE  TypeOK'
  BY <1>1, TypeMeetingSteps, TypeTurnSteps DEF Advance
<1>2. CASE UNCHANGED vars
  BY <1>2 DEF TypeOK, vars, store, pending
<1>3. QED
  BY <1>1, <1>2, TypeRequest, TypeBackground DEF Next

(* Every variable keeps its type, and the meeting refers to a conversation   *)
(* row that exists.                                                          *)
THEOREM TypeCorrect == Spec => []TypeOK
BY TypeInit, TypeNext, PTL DEF Spec

-----------------------------------------------------------------------------
(* Each feedback is requested, and once *)

(* The inductive invariant: a feedback that exists is on exactly one of      *)
(* three ways, held by the handler that inserted it, issued, or in the queue.*)
Held(h, f) == At(h, "complete") /\ frame[h].feedback = f
Queued(f) == \E i \in DOMAIN tasks : tasks[i] = f

RequestInv ==
  /\ FeedbackIsRequested
  /\ OneTaskPerFeedback
  /\ \A f \in unsent : f \in 1..feedbacks
  /\ \A h \in Handlers : At(h, "complete") =>
       /\ frame[h].feedback \in 1..feedbacks
       /\ frame[h].feedback \notin unsent
       /\ ~Queued(frame[h].feedback)
  /\ \A g, h \in Handlers : At(g, "complete") /\ Held(h, frame[g].feedback) => g = h

(* A step that has no part in the ending of the meeting. *)
StepsAside ==
  /\ UNCHANGED <<tasks, unsent, feedbacks>>
  /\ feedback' \in {feedback, 0}
  /\ calls'["crash"] = calls["crash"]
  /\ \A g \in Handlers : At(g, "complete") \/ At(g, "complete")' => frame'[g] = frame[g]

(* All it takes of the frames: no other handler moves, and this one neither  *)
(* comes to nor leaves the point between the insert and the update.          *)
OnlyMoves(h) ==
  /\ \A g \in Handlers : g # h => frame'[g] = frame[g]
  /\ ~At(h, "complete") /\ ~At(h, "complete")'

LEMMA OnlyMovesAside ==
  ASSUME NEW h \in Handlers, OnlyMoves(h),
         UNCHANGED <<tasks, unsent, feedbacks, calls>>, feedback' \in {feedback, 0}
  PROVE  StepsAside
BY DEF OnlyMoves, StepsAside, At

LEMMA ReturnMoves ==
  ASSUME frame \in [Handlers -> Frame], NEW h \in Handlers, Return(h), ~At(h, "complete")
  PROVE  OnlyMoves(h)
BY DEF Return, OnlyMoves, At, Idle

LEMMA GotoMoves ==
  ASSUME frame \in [Handlers -> Frame], NEW h \in Handlers, NEW pc \in PCs, Goto(h, pc),
         ~At(h, "complete"), pc # "complete"
  PROVE  OnlyMoves(h)
BY DEF Goto, OnlyMoves, At, Frame

LEMMA RequestStepsAside ==
  ASSUME TypeOK, NEW h \in Handlers, Request(h)
  PROVE  StepsAside
<1> USE DEF TypeOK, StepsAside, store, pending, Idle, At
<1>c. ASSUME NEW op \in Operations \ {"crash"}, Call(op)
      PROVE  calls'["crash"] = calls["crash"]
  BY <1>c DEF Call, Operations
<1>1. CASE Join(h)
  BY <1>1, <1>c DEF Join, Start, Operations
<1>2. CASE Leave(h)
  BY <1>2, <1>c DEF Leave, Start, Operations
<1>3. CASE SubmitAnswer(h)
  BY <1>3 DEF SubmitAnswer, Start
<1>4. CASE EndRecording(h)
  BY <1>4, <1>c DEF EndRecording, Start, Operations
<1>5. CASE ResendEmail(h)
  BY <1>5, <1>c DEF ResendEmail, Start, Operations
<1>6. CASE Recreate(h)
  BY <1>6, <1>c DEF Recreate, Start, Operations
<1>7. CASE CleanUp(h)
  BY <1>7, <1>c DEF CleanUp, Start, Operations
<1>8. QED
  BY <1>1, <1>2, <1>3, <1>4, <1>5, <1>6, <1>7 DEF Request

(* Every step of a handler but the two that end the meeting.                 *)
LEMMA MeetingStepsAside ==
  ASSUME TypeOK, NEW h \in Handlers,
         \/ InsertMeetingQuestion(h) \/ Enter(h) \/ MarkLeft(h) \/ SaveMeeting(h)
         \/ WipeConversation(h) \/ Reopen(h) \/ DeleteMeetingQuestions(h)
         \/ DropFeedback(h) \/ MarkError(h)
  PROVE  StepsAside
<1>t. frame \in [Handlers -> Frame]
  BY DEF TypeOK
<1>1. OnlyMoves(h)
  <2>1. CASE InsertMeetingQuestion(h)
    BY <1>t, <2>1 DEF InsertMeetingQuestion, OnlyMoves, At, Frame
  <2>2. CASE Enter(h)
    BY <1>t, <2>2, ReturnMoves DEF Enter, At
  <2>3. CASE MarkLeft(h)
    BY <1>t, <2>3, ReturnMoves DEF MarkLeft, At
  <2>4. CASE SaveMeeting(h)
    BY <1>t, <2>4, ReturnMoves DEF SaveMeeting, At
  <2>5. CASE WipeConversation(h)
    BY <1>t, <2>5, GotoMoves, PCsNamed DEF WipeConversation, At
  <2>6. CASE Reopen(h)
    BY <1>t, <2>6, GotoMoves, PCsNamed DEF Reopen, At
  <2>7. CASE DeleteMeetingQuestions(h)
    BY <1>t, <2>7, ReturnMoves DEF DeleteMeetingQuestions, At
  <2>8. CASE DropFeedback(h)
    BY <1>t, <2>8, GotoMoves, PCsNamed DEF DropFeedback, At
  <2>9. CASE MarkError(h)
    BY <1>t, <2>9, ReturnMoves DEF MarkError, At
  <2>10. QED
    BY <2>1, <2>2, <2>3, <2>4, <2>5, <2>6, <2>7, <2>8, <2>9
<1>2. UNCHANGED <<tasks, unsent, feedbacks, calls>> /\ feedback' \in {feedback, 0}
  BY DEF InsertMeetingQuestion, Enter, MarkLeft, SaveMeeting, WipeConversation, Reopen,
         DeleteMeetingQuestions, DropFeedback, MarkError, pending
<1>3. QED
  BY <1>1, <1>2, OnlyMovesAside

LEMMA TurnStepsAside ==
  ASSUME TypeOK, NEW h \in Handlers,
         \/ sendGreetingMessage(h) \/ Hear(h) \/ GiveUp(h) \/ ReviewAnswer(h)
         \/ AskFollowUp(h) \/ CountFollowUp(h) \/ RetrieveQuestion(h) \/ AskQuestion(h)
         \/ SayGoodbye(h) \/ StoreTalkAgain(h)
  PROVE  StepsAside
<1>t. frame \in [Handlers -> Frame]
  BY DEF TypeOK
<1>1. OnlyMoves(h)
  <2>1. CASE sendGreetingMessage(h)
    BY <1>t, <2>1, ReturnMoves DEF sendGreetingMessage, At
  <2>2. CASE Hear(h)
    <3>1. \E t : \/ frame' = [frame EXCEPT ![h] = [frame[h] EXCEPT !.talk = t, !.pc = "first"]]
                 \/ frame' = [frame EXCEPT ![h] =
                                [frame[h] EXCEPT !.talk = t, !.pc = "next", !.skip = TRUE]]
                 \/ frame' = [frame EXCEPT ![h] = [frame[h] EXCEPT !.talk = t, !.pc = "last"]]
      BY <2>2 DEF Hear
    <3>s. ~At(h, "complete")
      BY <2>2 DEF Hear, At
    <3>2. QED
      BY <1>t, <3>s, <3>1 DEF OnlyMoves, At, Frame
  <2>3. CASE GiveUp(h)
    BY <1>t, <2>3, ReturnMoves DEF GiveUp, At
  <2>4. CASE ReviewAnswer(h)
    <3>1. CASE Goto(h, "next")
      BY <1>t, <2>4, <3>1, GotoMoves, PCsNamed DEF ReviewAnswer, At
    <3>2. CASE ~Goto(h, "next")
      <4>1. PICK s : frame' = [frame EXCEPT ![h].pc = "followup", ![h].save = s]
        BY <2>4, <3>2 DEF ReviewAnswer
      <4>2. QED
        BY <1>t, <2>4, <4>1 DEF ReviewAnswer, OnlyMoves, At, Frame
    <3>3. QED
      BY <3>1, <3>2
  <2>5. CASE AskFollowUp(h)
    BY <1>t, <2>5, GotoMoves, PCsNamed DEF AskFollowUp, At
  <2>6. CASE CountFollowUp(h)
    BY <1>t, <2>6, ReturnMoves DEF CountFollowUp, At
  <2>7. CASE RetrieveQuestion(h)
    <3>1. ASSUME NEW pc \in {"open", "ask"}, internalRetrieveQuestion(h, pc), ~At(h, "complete")
          PROVE  OnlyMoves(h)
      <4>1. PICK s : frame' = [frame EXCEPT ![h].pc = pc, ![h].save = s]
        BY <3>1 DEF internalRetrieveQuestion
      <4>2. QED
        BY <1>t, <3>1, <4>1 DEF OnlyMoves, At, Frame
    <3>2. QED
      BY <1>t, <2>7, <3>1, ReturnMoves, GotoMoves, PCsNamed DEF RetrieveQuestion, At
  <2>8. CASE AskQuestion(h)
    BY <1>t, <2>8, ReturnMoves DEF AskQuestion, At
  <2>9. CASE SayGoodbye(h)
    BY <1>t, <2>9 DEF SayGoodbye, OnlyMoves, At, Frame
  <2>10. CASE StoreTalkAgain(h)
    BY <1>t, <2>10, ReturnMoves DEF StoreTalkAgain, At
  <2>11. QED
    BY <2>1, <2>2, <2>3, <2>4, <2>5, <2>6, <2>7, <2>8, <2>9, <2>10
<1>2. UNCHANGED <<tasks, unsent, feedbacks, calls>> /\ feedback' = feedback
  BY DEF sendGreetingMessage, Hear, GiveUp, ReviewAnswer, AskFollowUp, CountFollowUp,
         RetrieveQuestion, internalRetrieveQuestion, AskQuestion, SayGoodbye, StoreTalkAgain,
         store, pending
<1>3. QED
  BY <1>1, <1>2, OnlyMovesAside

LEMMA RequestKept == TypeOK /\ RequestInv /\ StepsAside => RequestInv'
<1> SUFFICES ASSUME TypeOK, RequestInv, StepsAside
             PROVE  RequestInv'
  OBVIOUS
<1> USE DEF StepsAside, RequestInv, Held, Queued, At
<1>1. \A h \in Handlers : At(h, "complete")' => At(h, "complete") /\ frame'[h] = frame[h]
  OBVIOUS
<1>2. FeedbackIsRequested'
  BY DEF FeedbackIsRequested
<1>3. OneTaskPerFeedback'
  BY DEF OneTaskPerFeedback
<1>4. QED
  BY <1>1, <1>2, <1>3

LEMMA RequestCreate ==
  ASSUME TypeOK, RequestInv, NEW h \in Handlers, CreateFeedback(h)
  PROVE  RequestInv'
<1>t. frame \in [Handlers -> Frame]
  BY DEF TypeOK
<1>1. CASE feedback # 0
  <2>1. OnlyMoves(h)
    BY <1>1, <1>t, ReturnMoves DEF CreateFeedback, At
  <2>2. StepsAside
    BY <1>1, <2>1, OnlyMovesAside DEF CreateFeedback, pending
  <2>3. QED
    BY <2>2, RequestKept
<1>2. CASE feedback = 0
  <2> DEFINE f == feedbacks + 1
  <2>1. feedback' = f /\ feedbacks' = f /\ tasks' = tasks /\ unsent' = unsent /\ calls' = calls
    BY <1>2 DEF CreateFeedback, pending
  <2>2. /\ frame'[h].pc = "complete" /\ frame'[h].feedback = f
        /\ \A g \in Handlers : g # h => frame'[g] = frame[g]
    <3>1. frame' = [frame EXCEPT ![h].pc = "complete", ![h].feedback = f]
      BY <1>2 DEF CreateFeedback
    <3>2. QED
      BY <1>t, <3>1 DEF Frame
  <2>3. f \in Nat /\ f \notin 1..feedbacks /\ f \in 1..feedbacks' /\ 1..feedbacks \subseteq 1..feedbacks'
    BY <2>1 DEF TypeOK
  <2> HIDE DEF f
  <2>4. f \notin unsent /\ ~Queued(f)
    BY <2>3 DEF RequestInv, OneTaskPerFeedback, Queued
  <2>5. FeedbackIsRequested'
    BY <2>1, <2>2 DEF FeedbackIsRequested, At
  <2>6. OneTaskPerFeedback'
    BY <2>1, <2>3 DEF RequestInv, OneTaskPerFeedback
  <2>7. \A g \in unsent' : g \in 1..feedbacks'
    BY <2>1, <2>3 DEF RequestInv
  <2>8. \A g \in Handlers : At(g, "complete")' =>
           \/ g = h /\ frame'[g].feedback = f
           \/ g # h /\ At(g, "complete") /\ frame'[g] = frame[g]
    BY <2>2 DEF At
  <2>9. ASSUME NEW g \in Handlers, At(g, "complete")'
        PROVE  /\ frame'[g].feedback \in 1..feedbacks'
               /\ frame'[g].feedback \notin unsent'
               /\ ~Queued(frame[g].feedback)'
    <3>1. CASE g = h
      BY <2>1, <2>3, <2>4, <2>8, <2>9, <3>1 DEF Queued
    <3>2. CASE g # h
      <4>1. /\ frame[g].feedback \in 1..feedbacks
            /\ frame[g].feedback \notin unsent
            /\ ~Queued(frame[g].feedback)
        BY <2>8, <2>9, <3>2 DEF RequestInv
      <4>2. QED
        BY <2>1, <2>3, <2>8, <2>9, <3>2, <4>1 DEF Queued
    <3>3. QED
      BY <3>1, <3>2
  <2>10. ASSUME NEW g \in Handlers, NEW k \in Handlers,
                At(g, "complete")', At(k, "complete")', frame'[k].feedback = frame'[g].feedback
         PROVE  g = k
    BY <2>3, <2>8, <2>10 DEF RequestInv, Held
  <2>11. QED
    BY <2>5, <2>6, <2>7, <2>9, <2>10 DEF RequestInv, Held
<1>3. QED
  BY <1>1, <1>2

LEMMA RequestComplete ==
  ASSUME TypeOK, RequestInv, NEW h \in Handlers, Complete(h)
  PROVE  RequestInv'
<1> DEFINE f == frame[h].feedback
<1>1. /\ unsent' = unsent \cup {f} /\ At(h, "complete")
      /\ UNCHANGED <<tasks, feedback, feedbacks, calls>>
  BY DEF Complete
<1>2. /\ ~At(h, "complete")'
      /\ \A g \in Handlers : g # h => frame'[g] = frame[g]
  BY DEF TypeOK, Complete, Return, Goto, Idle, Frame, At
<1>3. f \in 1..feedbacks /\ ~Queued(f)
  BY <1>1 DEF RequestInv
<1>4. \A g \in Handlers : g # h /\ At(g, "complete") => frame[g].feedback # f
  BY <1>1 DEF RequestInv, Held
<1> HIDE DEF f
<1>5. FeedbackIsRequested'
  BY <1>1, <1>2 DEF RequestInv, FeedbackIsRequested, At, f
<1>6. OneTaskPerFeedback'
  BY <1>1, <1>3 DEF RequestInv, OneTaskPerFeedback, Queued
<1>7. QED
  BY <1>1, <1>2, <1>3, <1>4, <1>5, <1>6 DEF RequestInv, Held, Queued, At

LEMMA RequestSend ==
  ASSUME TypeOK, RequestInv, sendToQueue
  PROVE  RequestInv'
<1>1. PICK f \in unsent : tasks' = Append(tasks, f) /\ unsent' = unsent \ {f}
  BY DEF sendToQueue
<1>2. UNCHANGED <<feedback, feedbacks, frame, calls>>
  BY DEF sendToQueue
<1>3. f \in Nat /\ f \in 1..feedbacks /\ tasks \in Seq(Nat)
  BY <1>1 DEF TypeOK, RequestInv
<1>4. /\ DOMAIN tasks = 1..Len(tasks) /\ Len(tasks) \in Nat
      /\ DOMAIN tasks' = 1..(Len(tasks) + 1)
      /\ tasks'[Len(tasks) + 1] = f
      /\ \A i \in DOMAIN tasks : tasks'[i] = tasks[i]
  BY <1>1, <1>3, AppendProperties, LenProperties
<1>5. \A g : Queued(g)' <=> Queued(g) \/ g = f
  BY <1>4 DEF Queued
<1>6. FeedbackIsRequested'
  BY <1>1, <1>2, <1>5 DEF RequestInv, FeedbackIsRequested, Queued, At
<1>7. OneTaskPerFeedback'
  <2>1. \A i \in DOMAIN tasks : tasks[i] # f
    BY <1>1 DEF RequestInv, OneTaskPerFeedback
  <2>2. QED
    BY <1>1, <1>2, <1>3, <1>4, <2>1 DEF RequestInv, OneTaskPerFeedback
<1>8. \A h \in Handlers : At(h, "complete") => frame[h].feedback # f
  BY <1>1 DEF RequestInv
<1>9. QED
  BY <1>1, <1>2, <1>5, <1>6, <1>7, <1>8 DEF RequestInv, Held, At

LEMMA RequestCrash ==
  ASSUME TypeOK, RequestInv, Crash
  PROVE  RequestInv'
<1>1. calls'["crash"] > 0
  BY DEF Crash, Call, TypeOK, Operations
<1>2. UNCHANGED <<tasks, feedback, feedbacks>> /\ unsent' = {}
  BY DEF Crash, store
<1>3. \A h \in Handlers : ~At(h, "complete")'
  BY DEF Crash, At, Idle
<1>4. QED
  BY <1>1, <1>2, <1>3 DEF RequestInv, FeedbackIsRequested, OneTaskPerFeedback

LEMMA RequestInit == Init => RequestInv
BY DEF Init, RequestInv, FeedbackIsRequested, OneTaskPerFeedback, At, Idle

LEMMA RequestNext == TypeOK /\ RequestInv /\ [Next]_vars => RequestInv'
<1> SUFFICES ASSUME TypeOK, RequestInv, [Next]_vars
             PROVE  RequestInv'
  OBVIOUS
<1>1. ASSUME NEW h \in Handlers, Request(h) \/ Advance(h)
      PROVE  RequestInv'
  <2>1. CASE CreateFeedback(h)
    BY <2>1, RequestCreate
  <2>2. CASE Complete(h)
    BY <2>2, RequestComplete
  <2>3. CASE ~CreateFeedback(h) /\ ~Complete(h)
    BY <1>1, <2>3, RequestStepsAside, MeetingStepsAside, TurnStepsAside, RequestKept DEF Advance
  <2>4. QED
    BY <2>1, <2>2, <2>3
<1>2. CASE LandSave \/ UNCHANGED vars
  <2>1. StepsAside
    BY <1>2 DEF LandSave, vars, store, pending, StepsAside
  <2>2. QED
    BY <2>1, RequestKept
<1>3. QED
  BY <1>1, <1>2, RequestSend, RequestCrash DEF Next

(* However the handlers, crashes and repeated turns interleave, a feedback   *)
(* row is never left without a request for its analysis                      *)
(* (internalEndAssessmentMeeting) unless the process crashed.                *)
THEOREM FeedbackRequested == Spec => []FeedbackIsRequested
<1>1. RequestInv => FeedbackIsRequested
  BY DEF RequestInv
<1>2. QED
  BY <1>1, TypeInit, TypeNext, RequestInit, RequestNext, PTL DEF Spec

(* However many turns end the meeting at once, no feedback is in the queue   *)
(* twice, or in the queue and still to be sent.                              *)
THEOREM RequestedOnce == Spec => []OneTaskPerFeedback
<1>1. RequestInv => OneTaskPerFeedback
  BY DEF RequestInv
<1>2. QED
  BY <1>1, TypeInit, TypeNext, RequestInit, RequestNext, PTL DEF Spec

-----------------------------------------------------------------------------
(* A completed meeting has a feedback *)

Covered == feedback # 0 \/ calls["cleanup"] > 0

(* A handler between its read of the meeting and its save carries the status *)
(* it read, and may bring a completed one back; and the feedback a handler   *)
(* has inserted must not vanish before its update but by a cleanup.          *)
CompletedInv ==
  /\ CompletedHasFeedback
  /\ \A h \in Handlers :
       /\ frame[h].pc \in {"recording", "resend"} /\ frame[h].status = "completed" => Covered
       /\ At(h, "complete") => Covered
       /\ At(h, "drop") => calls["cleanup"] > 0

Carriers == {"recording", "resend", "complete", "drop"}

(* A step after which this handler carries nothing of the above. *)
Settles(h) ==
  /\ \A g \in Handlers : g # h => frame'[g] = frame[g]
  /\ frame'[h].pc \notin Carriers

LEMMA ReturnSettles ==
  ASSUME frame \in [Handlers -> Frame], NEW h \in Handlers, Return(h)
  PROVE  Settles(h)
BY DEF Return, Settles, Carriers, Idle

LEMMA GotoSettles ==
  ASSUME frame \in [Handlers -> Frame], NEW h \in Handlers, NEW pc \in PCs, Goto(h, pc),
         pc \notin Carriers
  PROVE  Settles(h)
BY DEF Goto, Settles, Frame

LEMMA SettledKept ==
  ASSUME CompletedInv, NEW h \in Handlers, Settles(h), Covered => Covered',
         calls["cleanup"] > 0 => calls'["cleanup"] > 0,
         meeting'.status = "completed" => Covered
  PROVE  CompletedInv'
<1>1. ASSUME NEW g \in Handlers
      PROVE  /\ (frame[g].pc \in {"recording", "resend"} /\ frame[g].status = "completed" => Covered)'
             /\ (At(g, "complete") => Covered)'
             /\ (At(g, "drop") => calls["cleanup"] > 0)'
  BY DEF CompletedInv, Settles, Carriers, At
<1>2. CompletedHasFeedback'
  BY DEF CompletedHasFeedback, Covered
<1>3. QED
  BY <1>1, <1>2 DEF CompletedInv

LEMMA CalledKept ==
  ASSUME TypeOK, NEW op \in Operations, Call(op)
  PROVE  /\ calls["cleanup"] > 0 => calls'["cleanup"] > 0
         /\ op = "cleanup" => calls'["cleanup"] > 0
BY DEF TypeOK, Call, Operations

LEMMA CompletedRequest ==
  ASSUME TypeOK, CompletedInv, NEW h \in Handlers, Request(h)
  PROVE  CompletedInv'
<1>t. frame \in [Handlers -> Frame]
  BY DEF TypeOK
<1>m. meeting' = meeting /\ feedback' = feedback
  BY DEF Request, Join, Leave, SubmitAnswer, EndRecording, ResendEmail, Recreate, CleanUp, store
<1>c. calls["cleanup"] > 0 => calls'["cleanup"] > 0
  BY CalledKept DEF Request, Join, Leave, SubmitAnswer, EndRecording, ResendEmail, Recreate,
     CleanUp, Operations
<1>k. Covered => Covered'
  BY <1>m, <1>c DEF Covered
<1>o. \A g \in Handlers : g # h => frame'[g] = frame[g]
  BY <1>t DEF Request, Join, Leave, SubmitAnswer, EndRecording, ResendEmail, Recreate, CleanUp,
     Start
<1>p. meeting'.status = "completed" => Covered
  BY <1>m DEF CompletedInv, CompletedHasFeedback, Covered
<1>h. CompletedHasFeedback'
  BY <1>m, <1>c DEF CompletedInv, CompletedHasFeedback
<1>1. CASE Join(h) \/ Leave(h) \/ SubmitAnswer(h) \/ Recreate(h)
  <2>1. frame'[h].pc \notin Carriers
    <3>1. CASE SubmitAnswer(h)
      <4>1. PICK c, t : frame' = [frame EXCEPT ![h] =
              [Idle EXCEPT !.pc = IF t = <<>> THEN "greet" ELSE "listen", !.conv = c, !.talk = t]]
        BY <3>1 DEF SubmitAnswer, Start
      <4>2. QED
        BY <1>t, <4>1 DEF Idle, Carriers
    <3>2. CASE Join(h) \/ Leave(h) \/ Recreate(h)
      BY <3>2, <1>t DEF Join, Leave, Recreate, Start, Idle, Carriers
    <3>3. QED
      BY <1>1, <3>1, <3>2
  <2>2. QED
    BY <2>1, <1>o, <1>c, <1>k, <1>p, SettledKept DEF Settles
<1>2. CASE EndRecording(h) \/ ResendEmail(h)
  <2>1. frame'[h].pc \in {"recording", "resend"} /\ frame'[h].status = meeting.status
    BY <1>2, <1>t DEF EndRecording, ResendEmail, Start, Idle
  <2>2. QED
    BY <2>1, <1>m, <1>o, <1>c, <1>k, <1>p, <1>h DEF CompletedInv, At
<1>3. CASE CleanUp(h)
  <2>1. frame'[h].pc = "drop"
    BY <1>3, <1>t DEF CleanUp, Start, Idle
  <2>2. calls'["cleanup"] > 0
    BY <1>3, CalledKept DEF CleanUp, Operations
  <2>3. QED
    BY <2>1, <2>2, <1>o, <1>k, <1>h DEF CompletedInv, At
<1>4. QED
  BY <1>1, <1>2, <1>3 DEF Request

LEMMA CompletedAdvance ==
  ASSUME TypeOK, CompletedInv, NEW h \in Handlers, Advance(h)
  PROVE  CompletedInv'
<1>t. frame \in [Handlers -> Frame] /\ meeting \in [status : MeetingStatus, conv : 0..Len(conversations)]
  BY DEF TypeOK
<1>p. meeting.status = "completed" => Covered
  BY DEF CompletedInv, CompletedHasFeedback, Covered
<1>c. calls' = calls
  BY DEF Advance, InsertMeetingQuestion, Enter, MarkLeft, SaveMeeting, WipeConversation, Reopen,
     DeleteMeetingQuestions, DropFeedback, MarkError, sendGreetingMessage, Hear, GiveUp,
     ReviewAnswer, AskFollowUp, CountFollowUp, RetrieveQuestion, AskQuestion, SayGoodbye,
     CreateFeedback, Complete, StoreTalkAgain
<1>a. ASSUME Settles(h), Covered => feedback' = feedback,
             meeting'.status = "completed" => Covered
      PROVE  CompletedInv'
  BY <1>a, <1>c, SettledKept DEF Covered
<1>1. CASE Enter(h) \/ MarkLeft(h) \/ MarkError(h)
  BY <1>1, <1>t, <1>a, ReturnSettles DEF Enter, MarkLeft, MarkError, SetStatus
<1>2. CASE SaveMeeting(h)
  <2>1. meeting'.status = frame[h].status
    BY <1>2, <1>t DEF SaveMeeting, SetStatus
  <2>2. meeting'.status = "completed" => Covered
    BY <1>2, <2>1 DEF SaveMeeting, CompletedInv
  <2>3. QED
    BY <1>2, <1>t, <2>2, <1>a, ReturnSettles DEF SaveMeeting
<1>3. CASE Reopen(h)
  <2>1. Settles(h)
    BY <1>3, <1>t, GotoSettles, PCsNamed DEF Reopen, Carriers
  <2>2. QED
    BY <1>3, <1>t, <2>1, <1>a DEF Reopen, SetStatus
<1>4. CASE DropFeedback(h)
  <2>1. Settles(h)
    BY <1>4, <1>t, GotoSettles, PCsNamed DEF DropFeedback, Carriers
  <2>2. calls["cleanup"] > 0
    BY <1>4 DEF DropFeedback, CompletedInv
  <2>3. QED
    BY <1>4, <2>1, <2>2, <1>c, <1>p, SettledKept DEF DropFeedback, Covered
<1>5. CASE CreateFeedback(h)
  <2>1. CASE feedback # 0
    BY <1>5, <2>1, <1>t, <1>p, <1>a, ReturnSettles DEF CreateFeedback
  <2>2. CASE feedback = 0
    <3>1. feedback' # 0
      BY <1>5, <2>2 DEF CreateFeedback, TypeOK
    <3>2. Covered'
      BY <3>1 DEF Covered
    <3>3. \A g \in Handlers :
            IF g = h THEN frame'[g].pc = "complete" ELSE frame'[g] = frame[g]
      <4>1. frame' = [frame EXCEPT ![h].pc = "complete", ![h].feedback = feedbacks + 1]
        BY <1>5, <2>2 DEF CreateFeedback
      <4>2. QED
        BY <4>1, <1>t DEF Frame
    <3>4. \A g \in Handlers : At(g, "drop")' => calls'["cleanup"] > 0
      BY <1>c, <3>3 DEF CompletedInv, At
    <3>5. CompletedHasFeedback'
      BY <3>1 DEF CompletedHasFeedback
    <3>6. QED
      BY <3>2, <3>4, <3>5 DEF CompletedInv
  <2>3. QED
    BY <2>1, <2>2
<1>6. CASE Complete(h)
  <2>1. Settles(h)
    <3>1. "rewrite" \in PCs /\ "rewrite" \notin Carriers
      BY PCsNamed DEF Carriers
    <3>2. Return(h) \/ Goto(h, "rewrite")
      BY <1>6 DEF Complete
    <3>3. QED
      BY <1>t, <3>1, <3>2, ReturnSettles, GotoSettles
  <2>2. Covered
    BY <1>6 DEF Complete, CompletedInv
  <2>3. QED
    BY <1>6, <2>1, <2>2, <1>a DEF Complete
<1>7. CASE ~(\/ Enter(h) \/ MarkLeft(h) \/ MarkError(h) \/ SaveMeeting(h) \/ Reopen(h)
             \/ DropFeedback(h) \/ CreateFeedback(h) \/ Complete(h))
  <2>1. meeting' = meeting /\ feedback' = feedback
    BY <1>7 DEF Advance, InsertMeetingQuestion, WipeConversation, DeleteMeetingQuestions,
       sendGreetingMessage, Hear, GiveUp, ReviewAnswer, AskFollowUp, CountFollowUp,
       RetrieveQuestion, AskQuestion, SayGoodbye, StoreTalkAgain, store
  <2>2. Settles(h)
    <3>g. ASSUME NEW pc \in {"reopen", "purge", "count", "next", "bye"}, Goto(h, pc)
          PROVE  Settles(h)
      BY <1>t, <3>g, GotoSettles, PCsNamed DEF Carriers
    <3>1. CASE InsertMeetingQuestion(h)
      BY <1>t, <3>1 DEF InsertMeetingQuestion, At, Settles, Carriers, Frame
    <3>2. CASE WipeConversation(h) \/ AskFollowUp(h)
      BY <3>2, <3>g DEF WipeConversation, AskFollowUp
    <3>3. CASE \/ DeleteMeetingQuestions(h) \/ sendGreetingMessage(h) \/ GiveUp(h)
               \/ CountFollowUp(h) \/ AskQuestion(h) \/ StoreTalkAgain(h)
      BY <1>t, <3>3, ReturnSettles DEF DeleteMeetingQuestions, sendGreetingMessage, GiveUp,
         CountFollowUp, AskQuestion, StoreTalkAgain
    <3>4. CASE Hear(h)
      <4>1. \E t : \/ frame' = [frame EXCEPT ![h] = [frame[h] EXCEPT !.talk = t, !.pc = "first"]]
                   \/ frame' = [frame EXCEPT ![h] =
                                  [frame[h] EXCEPT !.talk = t, !.pc = "next", !.skip = TRUE]]
                   \/ frame' = [frame EXCEPT ![h] = [frame[h] EXCEPT !.talk = t, !.pc = "last"]]
        BY <3>4 DEF Hear
      <4>2. frame'[h].pc \in {"first", "next", "last"}
        BY <1>t, <4>1 DEF Frame
      <4>3. QED
        BY <1>t, <4>1, <4>2 DEF Settles, Carriers
    <3>5. CASE ReviewAnswer(h)
      <4>1. CASE Goto(h, "next")
        BY <4>1, <3>g
      <4>2. CASE ~Goto(h, "next")
        <5>1. PICK s : frame' = [frame EXCEPT ![h].pc = "followup", ![h].save = s]
          BY <3>5, <4>2 DEF ReviewAnswer
        <5>2. QED
          BY <1>t, <5>1 DEF Settles, Carriers, Frame
      <4>3. QED
        BY <4>1, <4>2
    <3>6. CASE RetrieveQuestion(h)
      <4>1. ASSUME NEW pc \in {"open", "ask"}, internalRetrieveQuestion(h, pc)
            PROVE  Settles(h)
        <5>1. PICK s : frame' = [frame EXCEPT ![h].pc = pc, ![h].save = s]
          BY <4>1 DEF internalRetrieveQuestion
        <5>2. QED
          BY <1>t, <4>1, <5>1 DEF Settles, Carriers, Frame
      <4>2. QED
        BY <1>t, <3>6, <4>1, <3>g, ReturnSettles DEF RetrieveQuestion
    <3>7. CASE SayGoodbye(h)
      BY <1>t, <3>7 DEF SayGoodbye, Settles, Carriers, Frame
    <3>8. QED
      BY <1>7, <3>1, <3>2, <3>3, <3>4, <3>5, <3>6, <3>7 DEF Advance
  <2>3. QED
    BY <2>1, <2>2, <1>a, <1>p
<1>8. QED
  BY <1>1, <1>2, <1>3, <1>4, <1>5, <1>6, <1>7

LEMMA CompletedNext == TypeOK /\ CompletedInv /\ [Next]_vars => CompletedInv'
<1> SUFFICES ASSUME TypeOK, CompletedInv, [Next]_vars
             PROVE  CompletedInv'
  OBVIOUS
<1>1. CASE LandSave \/ sendToQueue \/ UNCHANGED vars
  <2>1. UNCHANGED <<meeting, feedback, frame, calls>>
    BY <1>1 DEF LandSave, sendToQueue, vars, store
  <2>2. QED
    BY <2>1 DEF CompletedInv, CompletedHasFeedback, Covered, At
<1>2. CASE Crash
  <2>1. /\ meeting' = meeting /\ feedback' = feedback
        /\ calls["cleanup"] > 0 => calls'["cleanup"] > 0
    BY <1>2, CalledKept DEF Crash, store, Operations
  <2>2. \A h \in Handlers : frame'[h].pc = "idle"
    BY <1>2 DEF Crash, Idle
  <2>3. QED
    BY <2>1, <2>2 DEF CompletedInv, CompletedHasFeedback, At
<1>3. QED
  BY <1>1, <1>2, CompletedRequest, CompletedAdvance DEF Next

LEMMA CompletedInit == Init => CompletedInv
BY DEF Init, CompletedInv, CompletedHasFeedback, At, Idle

(* A meeting is `completed` only with a feedback row behind it, or after the *)
(* cleanup deleted one, even when uploadMeetingVideo or                      *)
(* resendAssessmentEmail save back the meeting they read earlier.            *)
THEOREM CompletedIsBacked == Spec => []CompletedHasFeedback
<1>1. CompletedInv => CompletedHasFeedback
  BY DEF CompletedInv
<1>2. QED
  BY <1>1, TypeInit, TypeNext, CompletedInit, CompletedNext, PTL DEF Spec

-----------------------------------------------------------------------------
(* Conversations are whole exchanges *)

InTurn(talk) ==
  \A i \in DOMAIN talk : talk[i].role = (IF i % 2 = 1 THEN "assistant" ELSE "user")
Answered(talk) == Len(talk) % 2 = 0 /\ InTurn(talk)

LEMMA EmptyAlternates == Alternates(<<>>) /\ Answered(<<>>)
BY DEF Alternates, Answered, InTurn

LEMMA EntryAppended ==
  ASSUME NEW talk \in Seq(Entry), NEW role \in {"user", "assistant"}, NEW q \in Nat
  PROVE  LET s == addConversationEntry(talk, role, q)
         IN /\ Len(s) = Len(talk) + 1 /\ Len(talk) \in Nat
            /\ DOMAIN s = DOMAIN talk \cup {Len(talk) + 1}
            /\ s[Len(talk) + 1].role = role
            /\ \A i \in DOMAIN talk : s[i] = talk[i]
BY DEF addConversationEntry

(* The candidate answers what the interviewer said last. *)
LEMMA AnswerAdded ==
  ASSUME NEW talk \in Seq(Entry), talk # <<>>, Alternates(talk)
  PROVE  Answered(addConversationEntry(talk, "user", 0))
<1> DEFINE s == addConversationEntry(talk, "user", 0)
<1>1. /\ Len(s) = Len(talk) + 1 /\ Len(talk) \in Nat
      /\ DOMAIN s = DOMAIN talk \cup {Len(talk) + 1}
      /\ s[Len(talk) + 1].role = "user"
      /\ \A i \in DOMAIN talk : s[i] = talk[i]
  BY EntryAppended
<1>2. Len(talk) % 2 = 1 /\ InTurn(talk)
  BY DEF Alternates, InTurn
<1> HIDE DEF s
<1>3. (Len(talk) + 1) % 2 = 0
  BY <1>1, <1>2
<1>4. InTurn(s)
  BY <1>1, <1>2, <1>3 DEF InTurn
<1>5. QED
  BY <1>1, <1>3, <1>4 DEF Answered, s

LEMMA QuestionAdded ==
  ASSUME NEW talk \in Seq(Entry), Answered(talk), NEW q \in Nat
  PROVE  Alternates(addConversationEntry(talk, "assistant", q))
<1> DEFINE s == addConversationEntry(talk, "assistant", q)
<1>1. /\ Len(s) = Len(talk) + 1 /\ Len(talk) \in Nat
      /\ DOMAIN s = DOMAIN talk \cup {Len(talk) + 1}
      /\ s[Len(talk) + 1].role = "assistant"
      /\ \A i \in DOMAIN talk : s[i] = talk[i]
  BY EntryAppended
<1>2. Len(talk) % 2 = 0 /\ InTurn(talk)
  BY DEF Answered
<1> HIDE DEF s
<1>3. (Len(talk) + 1) % 2 = 1
  BY <1>1, <1>2
<1>4. InTurn(s)
  BY <1>1, <1>2, <1>3 DEF InTurn
<1>5. QED
  BY <1>1, <1>3, <1>4 DEF Alternates, InTurn, s

LEMMA FollowUpAlternates ==
  ASSUME NEW talk \in Seq(Entry), Answered(talk), NEW q \in Nat
  PROVE  Alternates(addFollowUp(talk, q))
<1> DEFINE s == addFollowUp(talk, q)
           r == addConversationEntry(talk, "assistant", 0)
<1>1. Alternates(r) /\ Len(r) = Len(talk) + 1 /\ Len(talk) \in Nat
  BY QuestionAdded, EntryAppended
<1>2. /\ s \in Seq(Entry) /\ DOMAIN s = DOMAIN r /\ Len(s) = Len(r)
      /\ \A i \in DOMAIN s : s[i].role = r[i].role
  BY FollowUpAdded
<1> HIDE DEF s, r
<1>3. r # <<>>
  BY <1>1
<1>4. QED
  BY <1>1, <1>2, <1>3 DEF Alternates, s

(* The copy a handler works on: as stored until the answer is added, half an *)
(* exchange more until the reply is, and then what it stores (again).        *)
TalkInv(f) ==
  /\ f.pc = "greet" => f.talk = <<>>
  /\ f.pc = "listen" => f.talk # <<>> /\ Alternates(f.talk)
  /\ f.pc \in {"first", "open", "last", "followup", "next", "ask", "bye"} => Answered(f.talk)
  /\ f.pc \in {"end", "complete", "rewrite"} => Alternates(f.talk)

ExchangeInv == WholeExchanges /\ \A h \in Handlers : TalkInv(frame[h])

Talking == {"greet", "listen", "first", "open", "last", "followup", "next", "ask", "bye",
            "end", "complete", "rewrite"}

LEMMA TalkStored ==
  ASSUME WholeExchanges, NEW conv, NEW talk, Alternates(talk), updateConversation(conv, talk)
  PROVE  WholeExchanges'
BY DEF WholeExchanges, updateConversation

LEMMA OneTalk ==
  ASSUME ExchangeInv, NEW h \in Handlers, TalkInv(frame'[h]), WholeExchanges',
         \A g \in Handlers : g # h => frame'[g] = frame[g]
  PROVE  ExchangeInv'
<1>1. \A g \in Handlers : TalkInv(frame'[g])
  BY DEF ExchangeInv
<1>2. \A g \in Handlers : TalkInv(frame[g])'
  BY <1>1 DEF TalkInv
<1>3. QED
  BY <1>2 DEF ExchangeInv

LEMMA ReturnTalk ==
  ASSUME TypeOK, ExchangeInv, NEW h \in Handlers, Return(h), WholeExchanges'
  PROVE  ExchangeInv'
<1>1. frame'[h].pc = "idle" /\ \A g \in Handlers : g # h => frame'[g] = frame[g]
  BY DEF TypeOK, Return, Idle
<1>2. TalkInv(frame'[h])
  BY <1>1 DEF TalkInv
<1>3. QED
  BY <1>1, <1>2, OneTalk

LEMMA GotoTalk ==
  ASSUME TypeOK, ExchangeInv, NEW h \in Handlers, NEW pc, Goto(h, pc), WholeExchanges',
         \/ pc \notin Talking
         \/ pc \in {"followup", "next", "bye"} /\ frame[h].pc \in {"last", "next"}
         \/ pc = "rewrite" /\ At(h, "complete")
  PROVE  ExchangeInv'
<1>1. /\ frame'[h].pc = pc /\ frame'[h].talk = frame[h].talk
      /\ \A g \in Handlers : g # h => frame'[g] = frame[g]
  BY DEF TypeOK, Goto, Frame
<1>2. TalkInv(frame[h])
  BY DEF ExchangeInv
<1>3. TalkInv(frame'[h])
  BY <1>1, <1>2 DEF TalkInv, Talking, At
<1>4. QED
  BY <1>1, <1>3, OneTalk

LEMMA ExchangeRequest ==
  ASSUME TypeOK, ExchangeInv, NEW h \in Handlers, Request(h)
  PROVE  ExchangeInv'
<1>t. frame \in [Handlers -> Frame]
  BY DEF TypeOK
<1>o. \A g \in Handlers : g # h => frame'[g] = frame[g]
  BY <1>t DEF Request, Join, Leave, SubmitAnswer, EndRecording, ResendEmail, Recreate, CleanUp,
     Start
<1>c. conversations' = conversations
  BY DEF Request, Join, Leave, SubmitAnswer, EndRecording, ResendEmail, Recreate, CleanUp, store
<1>w. WholeExchanges'
  BY <1>c DEF ExchangeInv, WholeExchanges
<1>1. CASE SubmitAnswer(h)
  <2> DEFINE talk == conversations[meeting.conv]
  <2>1. talk \in Seq(Entry) /\ Alternates(talk)
    <3>1. meeting.conv \in DOMAIN conversations
      BY <1>1 DEF SubmitAnswer, TypeOK
    <3>2. QED
      BY <3>1 DEF TypeOK, ExchangeInv, WholeExchanges
  <2> DEFINE pc == IF talk = <<>> THEN "greet" ELSE "listen"
             f == [Idle EXCEPT !.pc = pc, !.conv = meeting.conv, !.talk = talk]
  <2>2. frame'[h] = f
    BY <1>t, <1>1 DEF SubmitAnswer, Start
  <2>p. f.pc = pc /\ f.talk = talk
    BY DEF Idle
  <2> HIDE DEF talk, f
  <2>3. /\ frame'[h].pc = (IF talk = <<>> THEN "greet" ELSE "listen")
        /\ frame'[h].talk = talk
    BY <2>2, <2>p
  <2>4. TalkInv(frame'[h])
    BY <2>1, <2>3 DEF TalkInv
  <2>5. QED
    BY <1>o, <1>w, <2>4, OneTalk
<1>2. CASE ~SubmitAnswer(h)
  <2>1. frame'[h].pc \in {"insert", "leaving", "recording", "resend", "wipe", "drop"}
    BY <1>t, <1>2, IdleIsFrame
    DEF Request, Join, Leave, EndRecording, ResendEmail, Recreate, CleanUp, Start, Frame
  <2>2. TalkInv(frame'[h])
    BY <2>1 DEF TalkInv
  <2>3. QED
    BY <1>o, <1>w, <2>2, OneTalk
<1>3. QED
  BY <1>1, <1>2

(* Steps outside the talk: they move no handler into it, and if they touch a *)
(* conversation they add or leave an empty one.                              *)
LEMMA ExchangeMeeting ==
  ASSUME TypeOK, ExchangeInv, NEW h \in Handlers,
         \/ InsertMeetingQuestion(h) \/ Enter(h) \/ MarkLeft(h) \/ SaveMeeting(h)
         \/ WipeConversation(h) \/ Reopen(h) \/ DeleteMeetingQuestions(h)
         \/ DropFeedback(h) \/ MarkError(h) \/ CreateFeedback(h) \/ Complete(h)
  PROVE  ExchangeInv'
<1>w. WholeExchanges
  BY DEF ExchangeInv
<1>s. conversations' = conversations => WholeExchanges'
  BY <1>w DEF WholeExchanges
<1>1. CASE InsertMeetingQuestion(h)
  <2>1. /\ frame'[h].pc = "insert" /\ conversations' = conversations
        /\ \A g \in Handlers : g # h => frame'[g] = frame[g]
    BY <1>1 DEF InsertMeetingQuestion, TypeOK, Frame, At
  <2>2. TalkInv(frame'[h])
    BY <2>1 DEF TalkInv
  <2>3. QED
    BY <1>s, <2>1, <2>2, OneTalk
<1>2. CASE Enter(h)
  <2>1. conversations \in Seq(Seq(Entry)) /\ conversations' = Append(conversations, <<>>)
    BY <1>2 DEF Enter, TypeOK
  <2>2. /\ DOMAIN conversations' = DOMAIN conversations \cup {Len(conversations) + 1}
        /\ conversations'[Len(conversations) + 1] = <<>>
        /\ \A i \in DOMAIN conversations : conversations'[i] = conversations[i]
    BY <2>1
  <2>3. WholeExchanges'
    BY <1>w, <2>2, EmptyAlternates DEF WholeExchanges
  <2>4. QED
    BY <1>2, <2>3, ReturnTalk DEF Enter
<1>3. CASE WipeConversation(h)
  <2>1. WholeExchanges'
    BY <1>3, <1>w, EmptyAlternates, TalkStored DEF WipeConversation
  <2>2. QED
    BY <1>3, <2>1, GotoTalk DEF WipeConversation, Talking
<1>4. CASE MarkLeft(h) \/ SaveMeeting(h) \/ DeleteMeetingQuestions(h) \/ MarkError(h)
  BY <1>4, <1>s, ReturnTalk DEF MarkLeft, SaveMeeting, DeleteMeetingQuestions, MarkError
<1>5. CASE Reopen(h) \/ DropFeedback(h)
  BY <1>5, <1>s, GotoTalk DEF Reopen, DropFeedback, Talking
<1>6. CASE CreateFeedback(h)
  <2>1. conversations' = conversations
    BY <1>6 DEF CreateFeedback
  <2>2. CASE feedback # 0
    BY <1>6, <1>s, <2>1, <2>2, ReturnTalk DEF CreateFeedback
  <2>3. CASE feedback = 0
    <3>1. frame' = [frame EXCEPT ![h].pc = "complete", ![h].feedback = feedbacks + 1]
      BY <1>6, <2>3 DEF CreateFeedback
    <3>2. /\ frame'[h].pc = "complete" /\ frame'[h].talk = frame[h].talk
          /\ \A g \in Handlers : g # h => frame'[g] = frame[g]
      BY <3>1 DEF TypeOK, Frame
    <3>3. Alternates(frame[h].talk)
      BY <1>6 DEF CreateFeedback, At, ExchangeInv, TalkInv
    <3>4. TalkInv(frame'[h])
      BY <3>2, <3>3 DEF TalkInv
    <3>5. QED
      BY <1>s, <2>1, <3>2, <3>4, OneTalk
  <2>4. QED
    BY <2>2, <2>3
<1>7. CASE Complete(h)
  <2>1. conversations' = conversations /\ At(h, "complete") /\ (Return(h) \/ Goto(h, "rewrite"))
    BY <1>7 DEF Complete
  <2>2. QED
    BY <1>s, <2>1, ReturnTalk, GotoTalk
<1>8. QED
  BY <1>1, <1>2, <1>3, <1>4, <1>5, <1>6, <1>7

LEMMA ExchangeTurn ==
  ASSUME TypeOK, ExchangeInv, NEW h \in Handlers,
         \/ sendGreetingMessage(h) \/ Hear(h) \/ GiveUp(h) \/ ReviewAnswer(h)
         \/ AskFollowUp(h) \/ CountFollowUp(h) \/ RetrieveQuestion(h) \/ AskQuestion(h)
         \/ SayGoodbye(h) \/ StoreTalkAgain(h)
  PROVE  ExchangeInv'
<1>w. WholeExchanges /\ TalkInv(frame[h])
  BY DEF ExchangeInv
<1>s. conversations' = conversations => WholeExchanges'
  BY <1>w DEF WholeExchanges
<1>t. /\ frame \in [Handlers -> Frame]
      /\ frame[h] \in Frame /\ frame[h].talk \in Seq(Entry) /\ frame[h].save.row \in Nat
  BY DEF TypeOK, Frame, Save
<1>q. \A q \in Nat : Answered(frame[h].talk) =>
        Alternates(addConversationEntry(frame[h].talk, "assistant", q))
  BY <1>t, QuestionAdded
<1>1. CASE sendGreetingMessage(h)
  <2>1. Answered(frame[h].talk)
    BY <1>1, <1>w, EmptyAlternates DEF sendGreetingMessage, At, TalkInv
  <2>2. WholeExchanges'
    BY <1>1, <1>w, <1>q, <2>1, TalkStored DEF sendGreetingMessage
  <2>3. QED
    BY <1>1, <2>2, ReturnTalk DEF sendGreetingMessage
<1>2. CASE Hear(h)
  <2> DEFINE said == addConversationEntry(frame[h].talk, "user", 0)
             heard == [frame[h] EXCEPT !.talk = said]
  <2>1. Answered(said)
    BY <1>2, <1>w, <1>t, AnswerAdded DEF Hear, At, TalkInv
  <2>2. \/ frame' = [frame EXCEPT ![h] = [heard EXCEPT !.pc = "first"]]
        \/ frame' = [frame EXCEPT ![h] = [heard EXCEPT !.pc = "next", !.skip = TRUE]]
        \/ frame' = [frame EXCEPT ![h] = [heard EXCEPT !.pc = "last"]]
    BY <1>2 DEF Hear
  <2> HIDE DEF said
  <2>3. /\ frame'[h].pc \in {"first", "next", "last"} /\ frame'[h].talk = said
        /\ \A g \in Handlers : g # h => frame'[g] = frame[g]
    BY <1>t, <2>2 DEF Frame
  <2>4. TalkInv(frame'[h])
    BY <2>1, <2>3 DEF TalkInv
  <2>5. conversations' = conversations
    BY <1>2 DEF Hear, store
  <2>6. QED
    BY <1>s, <2>3, <2>4, <2>5, OneTalk
<1>3. CASE GiveUp(h)
  BY <1>3, <1>s, ReturnTalk DEF GiveUp, store
<1>4. CASE ReviewAnswer(h)
  <2>1. conversations' = conversations /\ frame[h].pc = "last"
    BY <1>4 DEF ReviewAnswer, store, At
  <2>2. PICK last, row :
          \/ frame' = [frame EXCEPT
               ![h].pc = "followup",
               ![h].save = [row |-> last, status |-> row.status, followups |-> row.followups + 1]]
          \/ Goto(h, "next")
    BY <1>4 DEF ReviewAnswer
  <2>3. CASE Goto(h, "next")
    BY <1>s, <2>1, <2>3, GotoTalk
  <2>4. CASE frame' = [frame EXCEPT
               ![h].pc = "followup",
               ![h].save = [row |-> last, status |-> row.status, followups |-> row.followups + 1]]
    <3>1. /\ frame'[h].pc = "followup" /\ frame'[h].talk = frame[h].talk
          /\ \A g \in Handlers : g # h => frame'[g] = frame[g]
      BY <1>t, <2>4 DEF Frame
    <3>2. TalkInv(frame'[h])
      BY <1>w, <2>1, <3>1 DEF TalkInv
    <3>3. QED
      BY <1>s, <2>1, <3>1, <3>2, OneTalk
  <2>5. QED
    BY <2>2, <2>3, <2>4
<1>5. CASE AskFollowUp(h)
  <2>1. Answered(frame[h].talk)
    BY <1>5, <1>w DEF AskFollowUp, At, TalkInv
  <2>2. WholeExchanges'
    BY <1>5, <1>w, <1>t, <2>1, FollowUpAlternates, TalkStored DEF AskFollowUp
  <2>3. QED
    BY <1>5, <2>2, GotoTalk DEF AskFollowUp, Talking
<1>6. CASE CountFollowUp(h)
  BY <1>6, <1>s, ReturnTalk DEF CountFollowUp
<1>7. CASE RetrieveQuestion(h)
  <2>1. conversations' = conversations
    BY <1>7 DEF RetrieveQuestion, store
  <2>2. CASE Return(h)
    BY <1>s, <2>1, <2>2, ReturnTalk
  <2>3. CASE At(h, "next") /\ Goto(h, "bye")
    BY <1>s, <2>1, <2>3, GotoTalk DEF At
  <2>4. CASE \/ At(h, "first") /\ internalRetrieveQuestion(h, "open")
             \/ At(h, "next") /\ internalRetrieveQuestion(h, "ask")
    <3>a. PICK pc \in {"open", "ask"} : internalRetrieveQuestion(h, pc)
      BY <2>4
    <3>b. PICK q \in PendingQuestions :
            frame' = [frame EXCEPT
              ![h].pc = pc,
              ![h].save = [row |-> q, status |-> "asked", followups |-> questions[q].followups]]
      BY <3>a, Zenon DEF internalRetrieveQuestion
    <3>1. \E save : frame' = [frame EXCEPT ![h].pc = pc, ![h].save = save]
      BY <3>b, Zenon
    <3>2. /\ frame'[h].pc \in {"open", "ask"} /\ frame'[h].talk = frame[h].talk
          /\ \A g \in Handlers : g # h => frame'[g] = frame[g]
      BY <1>t, <3>1 DEF Frame
    <3>3. Answered(frame[h].talk)
      BY <1>w, <2>4 DEF At, TalkInv
    <3>4. TalkInv(frame'[h])
      BY <3>2, <3>3 DEF TalkInv
    <3>5. QED
      BY <1>s, <2>1, <3>2, <3>4, OneTalk
  <2>5. QED
    BY <1>7, <2>2, <2>3, <2>4 DEF RetrieveQuestion
<1>8. CASE AskQuestion(h)
  <2>1. Answered(frame[h].talk)
    BY <1>8, <1>w DEF AskQuestion, TalkInv
  <2>2. Alternates(addConversationEntry(frame[h].talk, "assistant", frame[h].save.row))
    BY <1>q, <1>t, <2>1
  <2>3. WholeExchanges'
    BY <1>8, <1>w, <2>2, TalkStored DEF AskQuestion
  <2>4. QED
    BY <1>8, <2>3, ReturnTalk DEF AskQuestion
<1>9. CASE SayGoodbye(h)
  <2> DEFINE said == addConversationEntry(frame[h].talk, "assistant", 0)
  <2>1. Alternates(said)
    BY <1>9, <1>w, <1>q DEF SayGoodbye, At, TalkInv
  <2>2. /\ updateConversation(frame[h].conv, said)
        /\ frame' = [frame EXCEPT ![h].pc = "end", ![h].talk = said]
    BY <1>9 DEF SayGoodbye
  <2> HIDE DEF said
  <2>3. /\ frame'[h].pc = "end" /\ frame'[h].talk = said
        /\ \A g \in Handlers : g # h => frame'[g] = frame[g]
    BY <1>t, <2>2 DEF Frame
  <2>4. TalkInv(frame'[h])
    BY <2>1, <2>3 DEF TalkInv
  <2>5. WholeExchanges'
    BY <1>w, <2>1, <2>2, TalkStored
  <2>6. QED
    BY <2>3, <2>4, <2>5, OneTalk
<1>10. CASE StoreTalkAgain(h)
  <2>1. WholeExchanges'
    BY <1>10, <1>w, TalkStored DEF StoreTalkAgain, At, TalkInv
  <2>2. QED
    BY <1>10, <2>1, ReturnTalk DEF StoreTalkAgain
<1>11. QED
  BY <1>1, <1>2, <1>3, <1>4, <1>5, <1>6, <1>7, <1>8, <1>9, <1>10

LEMMA ExchangeNext == TypeOK /\ ExchangeInv /\ [Next]_vars => ExchangeInv'
<1> SUFFICES ASSUME TypeOK, ExchangeInv, [Next]_vars
             PROVE  ExchangeInv'
  OBVIOUS
<1>1. ASSUME NEW h \in Handlers, Request(h)
      PROVE  ExchangeInv'
  BY <1>1, ExchangeRequest
<1>2. ASSUME NEW h \in Handlers, Advance(h)
      PROVE  ExchangeInv'
  BY <1>2, ExchangeMeeting, ExchangeTurn DEF Advance
<1>3. CASE LandSave \/ sendToQueue \/ UNCHANGED vars
  <2>1. conversations' = conversations /\ frame' = frame
    BY <1>3 DEF LandSave, sendToQueue, vars, store
  <2>2. QED
    BY <2>1 DEF ExchangeInv, WholeExchanges, TalkInv
<1>4. CASE Crash
  <2>1. conversations' = conversations /\ \A h \in Handlers : frame'[h].pc = "idle"
    BY <1>4 DEF Crash, store, Idle
  <2>2. QED
    BY <2>1 DEF ExchangeInv, WholeExchanges, TalkInv
<1>5. QED
  BY <1>1, <1>2, <1>3, <1>4 DEF Next

LEMMA ExchangeInit == Init => ExchangeInv
<1> SUFFICES ASSUME Init PROVE ExchangeInv
  OBVIOUS
<1>1. conversations = <<>> /\ \A h \in Handlers : frame[h].pc = "idle"
  BY DEF Init, Idle
<1>2. QED
  BY <1>1 DEF ExchangeInv, WholeExchanges, TalkInv

(* However many turns of a meeting overlap and wherever the process stops,   *)
(* every stored conversation consists of whole exchanges: a turn overwrites  *)
(* the column with its own copy, and its copy gets an answer and a reply or  *)
(* is not stored.                                                            *)
THEOREM ExchangesAreWhole == Spec => []WholeExchanges
<1>1. ExchangeInv => WholeExchanges
  BY DEF ExchangeInv
<1>2. QED
  BY <1>1, TypeInit, TypeNext, ExchangeInit, ExchangeNext, PTL DEF Spec

-----------------------------------------------------------------------------
(* A client that waits for each reply *)

(* What the pace of the client gives: one handler at most works for the      *)
(* candidate.                                                                *)
Alone == \A g, h \in Handlers :
  frame[g].pc \in CandidatePCs /\ frame[h].pc \in CandidatePCs => g = h

LEMMA PrefixIs ==
  ASSUME NEW s \in Seq(Entry), NEW t \in Seq(Entry)
  PROVE  IsPrefix(s, t) <=> Len(s) <= Len(t) /\ \A i \in 1..Len(s) : s[i] = t[i]
<1>1. Len(s) \in Nat /\ Len(t) \in Nat
  OBVIOUS
<1>2. /\ \A i \in 1..Len(s) : s[i] \in Entry
      /\ Len(s) <= Len(t) => \A i \in 1..Len(s) : t[i] \in Entry
  OBVIOUS
<1>3. /\ SubSeq(s, 1, Len(s)) \in Seq(Entry) /\ Len(SubSeq(s, 1, Len(s))) = Len(s)
      /\ \A i \in 1..Len(s) : SubSeq(s, 1, Len(s))[i] = s[i]
  BY <1>1, <1>2
<1>4. CASE Len(s) <= Len(t)
  <2>1. /\ SubSeq(t, 1, Len(s)) \in Seq(Entry) /\ Len(SubSeq(t, 1, Len(s))) = Len(s)
        /\ \A i \in 1..Len(s) : SubSeq(t, 1, Len(s))[i] = t[i]
    BY <1>1, <1>2, <1>4
  <2>2. SubSeq(s, 1, Len(s)) = SubSeq(t, 1, Len(s)) <=> \A i \in 1..Len(s) : s[i] = t[i]
    BY <1>3, <2>1, SeqEqual
  <2>3. QED
    BY <1>4, <2>2 DEF IsPrefix
<1>5. QED
  BY <1>4 DEF IsPrefix

LEMMA PrefixOrder ==
  /\ \A s \in Seq(Entry) : IsPrefix(s, s) /\ IsPrefix(<<>>, s)
  /\ \A s, t, u \in Seq(Entry) : IsPrefix(s, t) /\ IsPrefix(t, u) => IsPrefix(s, u)
<1>1. ASSUME NEW s \in Seq(Entry)
      PROVE  IsPrefix(s, s) /\ IsPrefix(<<>>, s)
  <2>1. <<>> \in Seq(Entry) /\ Len(<<>>) = 0 /\ Len(s) \in Nat
    OBVIOUS
  <2>2. IsPrefix(s, s)
    BY <2>1, PrefixIs
  <2>3. IsPrefix(<<>>, s)
    <3>1. Len(<<>>) <= Len(s) /\ \A i \in 1..Len(<<>>) : <<>>[i] = s[i]
      BY <2>1
    <3>2. IsPrefix(<<>>, s) <=> Len(<<>>) <= Len(s) /\ \A i \in 1..Len(<<>>) : <<>>[i] = s[i]
      BY <2>1, PrefixIs
    <3>3. QED
      BY <3>1, <3>2
  <2>4. QED
    BY <2>2, <2>3
<1>2. ASSUME NEW s \in Seq(Entry), NEW t \in Seq(Entry), NEW u \in Seq(Entry),
             IsPrefix(s, t), IsPrefix(t, u)
      PROVE  IsPrefix(s, u)
  <2>1. Len(s) <= Len(t) /\ \A i \in 1..Len(s) : s[i] = t[i]
    BY <1>2, PrefixIs
  <2>2. Len(t) <= Len(u) /\ \A i \in 1..Len(t) : t[i] = u[i]
    BY <1>2, PrefixIs
  <2>3. Len(s) <= Len(u) /\ \A i \in 1..Len(s) : s[i] = u[i]
    BY <2>1, <2>2
  <2>4. QED
    BY <2>3, PrefixIs
<1>3. QED
  BY <1>1, <1>2

LEMMA EntryExtends ==
  ASSUME NEW talk \in Seq(Entry), NEW role \in {"user", "assistant"}, NEW q \in Nat
  PROVE  IsPrefix(talk, addConversationEntry(talk, role, q))
<1> DEFINE s == addConversationEntry(talk, role, q)
<1>1. s \in Seq(Entry)
  BY EntryAdded
<1>2. /\ Len(s) = Len(talk) + 1 /\ Len(talk) \in Nat
      /\ \A i \in DOMAIN talk : s[i] = talk[i]
  BY EntryAppended
<1> HIDE DEF s
<1>3. QED
  BY <1>1, <1>2, PrefixIs DEF s

LEMMA FollowUpExtends ==
  ASSUME NEW talk \in Seq(Entry), NEW q \in Nat
  PROVE  IsPrefix(talk, addFollowUp(talk, q))
<1> DEFINE s == addFollowUp(talk, q)
           e == [role |-> "assistant", asks |-> 0, follows |-> q]
<1>1. s \in Seq(Entry) /\ e \in Entry
  BY FollowUpAdded DEF Entry
<1>2. s = Append(talk, e)
  BY DEF addFollowUp
<1> HIDE DEF s, e
<1>3. Len(talk) <= Len(s) /\ \A i \in 1..Len(talk) : s[i] = talk[i]
  BY <1>1, <1>2
<1>4. QED
  BY <1>1, <1>3, PrefixIs DEF s

-----------------------------------------------------------------------------
(* What the steps do to the frames *)

LEMMA ReturnIs ==
  ASSUME frame \in [Handlers -> Frame], NEW h \in Handlers, Return(h)
  PROVE  frame'[h].pc = "idle" /\ \A g \in Handlers : g # h => frame'[g] = frame[g]
BY DEF Return, Idle

LEMMA GotoIs ==
  ASSUME frame \in [Handlers -> Frame], NEW h \in Handlers, NEW pc, Goto(h, pc)
  PROVE  /\ frame'[h] = [frame[h] EXCEPT !.pc = pc] /\ frame'[h].pc = pc
         /\ frame'[h].status = frame[h].status /\ frame'[h].conv = frame[h].conv
         /\ frame'[h].talk = frame[h].talk /\ frame'[h].save = frame[h].save
         /\ frame'[h].left = frame[h].left
         /\ \A g \in Handlers : g # h => frame'[g] = frame[g]
<1>1. frame' = [frame EXCEPT ![h].pc = pc] /\ frame[h] \in Frame
  BY DEF Goto
<1>2. QED
  BY <1>1 DEF Frame

(* A step of the talk keeps its conversation; what it adds to its copy is an *)
(* answer or the goodbye.                                                    *)
Follows(h) ==
  /\ frame'[h].conv = frame[h].conv
  /\ \/ frame'[h].talk = frame[h].talk
     \/ At(h, "listen") /\ frame'[h].talk = addConversationEntry(frame[h].talk, "user", 0)
     \/ At(h, "bye") /\ frame'[h].talk = addConversationEntry(frame[h].talk, "assistant", 0)

Steps(h) ==
  /\ \A g \in Handlers : g # h => frame'[g] = frame[g]
  /\ frame'[h].pc \in CandidatePCs => frame[h].pc \in CandidatePCs
  /\ frame'[h].pc \in TurnPCs => frame[h].pc \in TurnPCs /\ Follows(h)

LEMMA ReturnSteps ==
  ASSUME frame \in [Handlers -> Frame], NEW h \in Handlers, Return(h)
  PROVE  Steps(h)
<1>1. "idle" \notin CandidatePCs /\ "idle" \notin TurnPCs
  BY DEF CandidatePCs, TurnPCs
<1>2. QED
  BY <1>1, ReturnIs DEF Steps

LEMMA GotoSteps ==
  ASSUME frame \in [Handlers -> Frame], NEW h \in Handlers, NEW pc, Goto(h, pc),
         pc \in TurnPCs => frame[h].pc \in TurnPCs, pc \notin CandidatePCs \ TurnPCs
  PROVE  Steps(h)
BY GotoIs DEF Steps, Follows, CandidatePCs

LEMMA MeetingStepsSteps ==
  ASSUME TypeOK, NEW h \in Handlers,
         \/ InsertMeetingQuestion(h) \/ Enter(h) \/ MarkLeft(h) \/ SaveMeeting(h)
         \/ WipeConversation(h) \/ Reopen(h) \/ DeleteMeetingQuestions(h)
         \/ DropFeedback(h) \/ MarkError(h)
  PROVE  Steps(h)
<1>t. frame \in [Handlers -> Frame]
  BY DEF TypeOK
<1>1. CASE InsertMeetingQuestion(h)
  <2>1. /\ frame'[h].pc = "insert" /\ frame[h].pc = "insert"
        /\ \A g \in Handlers : g # h => frame'[g] = frame[g]
    BY <1>1, <1>t DEF InsertMeetingQuestion, At, Frame
  <2>2. "insert" \notin TurnPCs
    BY DEF TurnPCs
  <2>3. QED
    BY <2>1, <2>2 DEF Steps
<1>2. CASE Enter(h) \/ MarkLeft(h) \/ SaveMeeting(h) \/ DeleteMeetingQuestions(h) \/ MarkError(h)
  BY <1>2, <1>t, ReturnSteps DEF Enter, MarkLeft, SaveMeeting, DeleteMeetingQuestions, MarkError
<1>3. CASE WipeConversation(h) \/ Reopen(h) \/ DropFeedback(h)
  <2>1. \E pc \in {"reopen", "purge", "fail"} : Goto(h, pc)
    BY <1>3 DEF WipeConversation, Reopen, DropFeedback
  <2>2. \A pc \in {"reopen", "purge", "fail"} : pc \notin CandidatePCs /\ pc \notin TurnPCs
    BY DEF CandidatePCs, TurnPCs
  <2>3. QED
    BY <1>t, <2>1, <2>2, GotoSteps
<1>4. QED
  BY <1>1, <1>2, <1>3

LEMMA TurnStepsSteps ==
  ASSUME TypeOK, NEW h \in Handlers,
         \/ sendGreetingMessage(h) \/ Hear(h) \/ GiveUp(h) \/ ReviewAnswer(h)
         \/ AskFollowUp(h) \/ CountFollowUp(h) \/ RetrieveQuestion(h) \/ AskQuestion(h)
         \/ SayGoodbye(h) \/ CreateFeedback(h) \/ Complete(h) \/ StoreTalkAgain(h)
  PROVE  Steps(h) /\ frame[h].pc \in TurnPCs
<1>t. frame \in [Handlers -> Frame]
  BY DEF TypeOK
<1>0. frame[h].pc \in TurnPCs
  BY DEF TurnPCs, At, sendGreetingMessage, Hear, GiveUp, ReviewAnswer, AskFollowUp, CountFollowUp,
     RetrieveQuestion, AskQuestion, SayGoodbye, CreateFeedback, Complete, StoreTalkAgain
<1> SUFFICES Steps(h)
  BY <1>0
<1>c. TurnPCs \subseteq CandidatePCs
  BY DEF CandidatePCs
<1>r. CASE Return(h)
  BY <1>r, <1>0, <1>t, ReturnSteps
<1>g. ASSUME NEW pc \in TurnPCs, Goto(h, pc)
      PROVE  Steps(h)
  BY <1>g, <1>0, <1>t, GotoSteps
<1>m. ASSUME \A g \in Handlers : g # h => frame'[g] = frame[g], Follows(h)
      PROVE  Steps(h)
  BY <1>m, <1>0, <1>c DEF Steps
<1>1. CASE Hear(h)
  <2> DEFINE said == addConversationEntry(frame[h].talk, "user", 0)
             heard == [frame[h] EXCEPT !.talk = said]
  <2>1. \/ frame' = [frame EXCEPT ![h] = [heard EXCEPT !.pc = "first"]]
        \/ frame' = [frame EXCEPT ![h] = [heard EXCEPT !.pc = "next", !.skip = TRUE]]
        \/ frame' = [frame EXCEPT ![h] = [heard EXCEPT !.pc = "last"]]
    BY <1>1 DEF Hear
  <2>a. At(h, "listen")
    BY <1>1 DEF Hear
  <2> HIDE DEF said
  <2>2. /\ frame'[h].talk = said /\ frame'[h].conv = frame[h].conv
        /\ \A g \in Handlers : g # h => frame'[g] = frame[g]
    BY <1>t, <2>1 DEF Frame
  <2>3. QED
    BY <1>m, <2>2, <2>a DEF Follows, said
<1>2. CASE ReviewAnswer(h)
  <2>1. PICK last, row :
          \/ frame' = [frame EXCEPT
               ![h].pc = "followup",
               ![h].save = [row |-> last, status |-> row.status, followups |-> row.followups + 1]]
          \/ Goto(h, "next")
    BY <1>2 DEF ReviewAnswer
  <2>2. CASE Goto(h, "next")
    BY <1>g, <2>2 DEF TurnPCs
  <2>3. CASE ~Goto(h, "next")
    <3>1. /\ frame'[h].talk = frame[h].talk /\ frame'[h].conv = frame[h].conv
          /\ \A g \in Handlers : g # h => frame'[g] = frame[g]
      BY <1>t, <2>1, <2>3 DEF Frame
    <3>2. QED
      BY <1>m, <3>1 DEF Follows
  <2>4. QED
    BY <2>2, <2>3
<1>3. CASE RetrieveQuestion(h)
  <2>1. CASE \E pc : internalRetrieveQuestion(h, pc)
    <3>1. PICK pc : internalRetrieveQuestion(h, pc)
      BY <2>1
    <3>2. \E save : frame' = [frame EXCEPT ![h].pc = pc, ![h].save = save]
      BY <3>1, Zenon DEF internalRetrieveQuestion
    <3>3. /\ frame'[h].talk = frame[h].talk /\ frame'[h].conv = frame[h].conv
          /\ \A g \in Handlers : g # h => frame'[g] = frame[g]
      BY <1>t, <3>2 DEF Frame
    <3>4. QED
      BY <1>m, <3>3 DEF Follows
  <2>2. CASE Return(h) \/ Goto(h, "bye")
    BY <1>r, <1>g, <2>2 DEF TurnPCs
  <2>3. QED
    BY <1>3, <2>1, <2>2 DEF RetrieveQuestion
<1>4. CASE SayGoodbye(h)
  <2> DEFINE said == addConversationEntry(frame[h].talk, "assistant", 0)
  <2>1. frame' = [frame EXCEPT ![h].pc = "end", ![h].talk = said] /\ At(h, "bye")
    BY <1>4 DEF SayGoodbye
  <2> HIDE DEF said
  <2>2. /\ frame'[h].talk = said /\ frame'[h].conv = frame[h].conv
        /\ \A g \in Handlers : g # h => frame'[g] = frame[g]
    BY <1>t, <2>1 DEF Frame
  <2>3. QED
    BY <1>m, <2>1, <2>2 DEF Follows, said
<1>5. CASE CreateFeedback(h)
  <2>1. CASE feedback = 0
    <3>1. frame' = [frame EXCEPT ![h].pc = "complete", ![h].feedback = feedbacks + 1]
      BY <1>5, <2>1 DEF CreateFeedback
    <3>2. /\ frame'[h].talk = frame[h].talk /\ frame'[h].conv = frame[h].conv
          /\ \A g \in Handlers : g # h => frame'[g] = frame[g]
      BY <1>t, <3>1 DEF Frame
    <3>3. QED
      BY <1>m, <3>2 DEF Follows
  <2>2. CASE feedback # 0
    BY <1>5, <1>r, <2>2 DEF CreateFeedback
  <2>3. QED
    BY <2>1, <2>2
<1>6. CASE AskFollowUp(h) \/ Complete(h)
  <2>1. Return(h) \/ Goto(h, "count") \/ Goto(h, "rewrite")
    BY <1>6 DEF AskFollowUp, Complete
  <2>2. QED
    BY <1>r, <1>g, <2>1 DEF TurnPCs
<1>7. CASE sendGreetingMessage(h) \/ GiveUp(h) \/ CountFollowUp(h) \/ AskQuestion(h) \/ StoreTalkAgain(h)
  BY <1>7, <1>r DEF sendGreetingMessage, GiveUp, CountFollowUp, AskQuestion, StoreTalkAgain
<1>8. QED
  BY <1>0, <1>1, <1>2, <1>3, <1>4, <1>5, <1>6, <1>7

LEMMA RequestSteps ==
  ASSUME TypeOK, NEW h \in Handlers, Request(h)
  PROVE  /\ \A g \in Handlers : g # h => frame'[g] = frame[g]
         /\ frame[h].pc = "idle" /\ UNCHANGED <<conversations, meeting, questions, saves>>
         /\ \/ frame'[h].pc \in {"resend", "wipe", "drop"}
            \/ frame'[h].pc \in {"insert", "leaving", "recording"} /\ CandidateMayCall
            \/ SubmitAnswer(h)
<1>t. frame \in [Handlers -> Frame]
  BY DEF TypeOK
<1>1. \A g \in Handlers : g # h => frame'[g] = frame[g]
  BY <1>t DEF Request, Join, Leave, SubmitAnswer, EndRecording, ResendEmail, Recreate, CleanUp,
     Start
<1>2. frame[h].pc = "idle" /\ UNCHANGED <<conversations, meeting, questions, saves>>
  BY DEF Request, Join, Leave, SubmitAnswer, EndRecording, ResendEmail, Recreate, CleanUp,
     Start, At, store, pending
<1>3. CASE ~SubmitAnswer(h)
  <2>1. CASE Join(h) \/ Leave(h) \/ EndRecording(h)
    <3>1. frame'[h].pc \in {"insert", "leaving", "recording"}
      BY <1>t, <2>1, IdleIsFrame DEF Join, Leave, EndRecording, Start, Frame
    <3>2. CandidateMayCall
      BY <2>1 DEF Join, Leave, EndRecording
    <3>3. QED
      BY <1>1, <1>2, <3>1, <3>2
  <2>2. CASE ResendEmail(h) \/ Recreate(h) \/ CleanUp(h)
    <3>1. frame'[h].pc \in {"resend", "wipe", "drop"}
      BY <1>t, <2>2, IdleIsFrame DEF ResendEmail, Recreate, CleanUp, Start, Frame
    <3>2. QED
      BY <1>1, <1>2, <3>1
  <2>3. QED
    BY <1>3, <2>1, <2>2 DEF Request
<1>4. QED
  BY <1>1, <1>2, <1>3

(* A turn begins with the conversation the meeting refers to. *)
LEMMA SubmitSteps ==
  ASSUME TypeOK, NEW h \in Handlers, SubmitAnswer(h)
  PROVE  LET talk == conversations[meeting.conv]
         IN /\ meeting.conv \in DOMAIN conversations /\ talk \in Seq(Entry)
            /\ frame'[h].pc = (IF talk = <<>> THEN "greet" ELSE "listen")
            /\ frame'[h].talk = talk /\ frame'[h].conv = meeting.conv
            /\ CandidateMayCall /\ meeting.status \notin Closed
<1> DEFINE talk == conversations[meeting.conv]
<1>1. meeting.conv \in DOMAIN conversations /\ talk \in Seq(Entry)
  BY DEF SubmitAnswer, TypeOK
<1> DEFINE pc == IF talk = <<>> THEN "greet" ELSE "listen"
           f == [Idle EXCEPT !.pc = pc, !.conv = meeting.conv, !.talk = talk]
<1>2. frame'[h] = f
  BY DEF TypeOK, SubmitAnswer, Start
<1>3. f.pc = pc /\ f.talk = talk /\ f.conv = meeting.conv
  BY DEF Idle
<1>4. CandidateMayCall /\ meeting.status \notin Closed
  BY DEF SubmitAnswer
<1> HIDE DEF f, talk
<1>5. QED
  BY <1>1, <1>2, <1>3, <1>4 DEF talk

(* What a step may write into a conversation: an extension of its copy. *)
Stores(h) ==
  /\ frame[h].pc \in TurnPCs \ {"count"}
  /\ \E talk \in Seq(Entry) :
       /\ updateConversation(frame[h].conv, talk)
       /\ IsPrefix(frame[h].talk, talk)
       /\ frame'[h].pc \in TurnPCs \ {"count"} => frame'[h].talk = talk

LEMMA AdvanceStores ==
  ASSUME TypeOK, NEW h \in Handlers, Advance(h)
  PROVE  \/ UNCHANGED conversations
         \/ Enter(h) \/ WipeConversation(h)
         \/ Stores(h)
<1>t. /\ frame \in [Handlers -> Frame] /\ frame[h] \in Frame
      /\ frame[h].talk \in Seq(Entry) /\ frame[h].save.row \in Nat
  BY DEF TypeOK, Frame, Save
<1>a. \A q \in Nat :
        LET talk == addConversationEntry(frame[h].talk, "assistant", q)
        IN talk \in Seq(Entry) /\ IsPrefix(frame[h].talk, talk)
  BY <1>t, EntryAdded, EntryExtends
<1>i. "idle" \notin TurnPCs
  BY DEF TurnPCs
<1>1. CASE sendGreetingMessage(h) \/ AskQuestion(h)
  <2>1. PICK q \in Nat :
          /\ updateConversation(frame[h].conv, addConversationEntry(frame[h].talk, "assistant", q))
          /\ Return(h) /\ frame[h].pc \in {"greet", "open", "ask"}
    BY <1>1, <1>t DEF sendGreetingMessage, AskQuestion, At
  <2>2. frame'[h].pc = "idle" /\ frame[h].pc \in TurnPCs \ {"count"}
    BY <1>t, <2>1, ReturnIs DEF TurnPCs
  <2>3. QED
    BY <1>a, <1>i, <2>1, <2>2 DEF Stores
<1>2. CASE AskFollowUp(h)
  <2> DEFINE talk == addFollowUp(frame[h].talk, frame[h].save.row)
  <2>1. /\ updateConversation(frame[h].conv, talk)
        /\ Goto(h, "count") /\ frame[h].pc = "followup"
    BY <1>2 DEF AskFollowUp, At
  <2>2. frame'[h].pc = "count" /\ frame[h].pc \in TurnPCs \ {"count"}
    BY <1>t, <2>1, GotoIs DEF TurnPCs
  <2>3. talk \in Seq(Entry) /\ IsPrefix(frame[h].talk, talk)
    BY <1>t, FollowUpAdded, FollowUpExtends
  <2>4. QED
    BY <2>1, <2>2, <2>3 DEF Stores
<1>3. CASE SayGoodbye(h)
  <2> DEFINE talk == addConversationEntry(frame[h].talk, "assistant", 0)
  <2>1. /\ updateConversation(frame[h].conv, talk) /\ frame[h].pc = "bye"
        /\ frame' = [frame EXCEPT ![h].pc = "end", ![h].talk = talk]
    BY <1>3 DEF SayGoodbye, At
  <2>2. talk \in Seq(Entry) /\ IsPrefix(frame[h].talk, talk)
    BY <1>a
  <2> HIDE DEF talk
  <2>3. frame'[h].talk = talk /\ frame[h].pc \in TurnPCs \ {"count"}
    BY <1>t, <2>1 DEF Frame, TurnPCs
  <2>4. QED
    BY <2>1, <2>2, <2>3 DEF Stores
<1>4. CASE StoreTalkAgain(h)
  <2>1. /\ updateConversation(frame[h].conv, frame[h].talk) /\ Return(h)
        /\ frame[h].pc = "rewrite"
    BY <1>4 DEF StoreTalkAgain, At
  <2>2. frame'[h].pc = "idle" /\ frame[h].pc \in TurnPCs \ {"count"}
    BY <1>t, <2>1, ReturnIs DEF TurnPCs
  <2>3. QED
    BY <1>i, <1>t, <2>1, <2>2, PrefixOrder DEF Stores
<1>5. CASE ~(sendGreetingMessage(h) \/ AskQuestion(h) \/ AskFollowUp(h) \/ SayGoodbye(h)
             \/ StoreTalkAgain(h) \/ Enter(h) \/ WipeConversation(h))
  BY <1>5 DEF Advance, InsertMeetingQuestion, MarkLeft, SaveMeeting, Reopen,
     DeleteMeetingQuestions, DropFeedback, MarkError, Hear, GiveUp, ReviewAnswer, CountFollowUp,
     RetrieveQuestion, CreateFeedback, Complete, store
<1>6. QED
  BY <1>1, <1>2, <1>3, <1>4, <1>5

(* The copy of a turn is that of the meeting's conversation, which nobody    *)
(* else changes but to empty it.                                             *)
Copied(f) ==
  f.pc \in TurnPCs =>
    /\ f.conv = meeting.conv /\ f.conv \in DOMAIN conversations
    /\ f.pc # "count" => IsPrefix(conversations[f.conv], f.talk)

GrowInv == Alone /\ \A h \in Handlers : Copied(frame[h])

LEMMA NobodyElse ==
  ASSUME Alone, NEW h \in Handlers, frame[h].pc \in CandidatePCs,
         NEW g \in Handlers, g # h
  PROVE  frame[g].pc \notin CandidatePCs /\ frame[g].pc \notin TurnPCs
BY DEF Alone, CandidatePCs

LEMMA AloneNext == Paced /\ TypeOK /\ Alone /\ [Next]_vars => Alone'
<1> SUFFICES ASSUME Paced, TypeOK, Alone, [Next]_vars
             PROVE  Alone'
  OBVIOUS
<1>1. ASSUME NEW h \in Handlers, Request(h)
      PROVE  Alone'
  <2>1. \A g \in Handlers : g # h => frame'[g] = frame[g]
    BY <1>1, RequestSteps
  <2>2. CASE frame'[h].pc \in {"resend", "wipe", "drop"}
    <3>1. frame'[h].pc \notin CandidatePCs
      BY <2>2 DEF CandidatePCs, TurnPCs
    <3>2. QED
      BY <2>1, <3>1 DEF Alone
  <2>3. CASE CandidateMayCall
    <3>1. \A g \in Handlers : frame[g].pc \notin CandidatePCs
      BY <2>3 DEF CandidateMayCall
    <3>2. QED
      BY <2>1, <3>1 DEF Alone
  <2>4. QED
    BY <1>1, <2>2, <2>3, RequestSteps, SubmitSteps
<1>2. ASSUME NEW h \in Handlers, Advance(h)
      PROVE  Alone'
  <2>1. Steps(h)
    BY <1>2, MeetingStepsSteps, TurnStepsSteps DEF Advance
  <2>2. QED
    BY <2>1 DEF Steps, Alone
<1>3. CASE LandSave \/ sendToQueue \/ UNCHANGED vars
  <2>1. frame' = frame
    BY <1>3 DEF LandSave, sendToQueue, vars
  <2>2. QED
    BY <2>1 DEF Alone
<1>4. CASE Crash
  <2>1. \A h \in Handlers : frame'[h].pc = "idle"
    BY <1>4 DEF Crash, Idle
  <2>2. QED
    BY <2>1 DEF Alone, CandidatePCs, TurnPCs
<1>5. QED
  BY <1>1, <1>2, <1>3, <1>4 DEF Next

LEMMA StatusOnly ==
  ASSUME TypeOK, NEW status, SetStatus(status)
  PROVE  meeting'.conv = meeting.conv
BY DEF TypeOK, SetStatus

(* No step but the entry gives the meeting another conversation. *)
LEMMA SameConversation ==
  ASSUME TypeOK, NEW h \in Handlers, Advance(h), ~Enter(h)
  PROVE  meeting'.conv = meeting.conv
<1>1. CASE meeting' = meeting
  BY <1>1
<1>2. CASE \E status : SetStatus(status)
  BY <1>2, StatusOnly
<1>3. QED
  BY <1>1, <1>2 DEF Advance, InsertMeetingQuestion, MarkLeft, SaveMeeting, WipeConversation, Reopen,
     DeleteMeetingQuestions, DropFeedback, MarkError, sendGreetingMessage, Hear, GiveUp,
     ReviewAnswer, AskFollowUp, CountFollowUp, RetrieveQuestion, AskQuestion, SayGoodbye,
     CreateFeedback, Complete, StoreTalkAgain, store

LEMMA CopiedRequest ==
  ASSUME TypeOK, GrowInv, NEW h \in Handlers, Request(h), NEW g \in Handlers
  PROVE  Copied(frame[g])'
<1>1. /\ \A k \in Handlers : k # h => frame'[k] = frame[k]
      /\ UNCHANGED <<conversations, meeting>>
  BY RequestSteps
<1>2. CASE g # h
  BY <1>1, <1>2 DEF GrowInv, Copied
<1>3. CASE g = h /\ SubmitAnswer(h)
  <2>1. /\ frame'[h].conv = meeting.conv /\ meeting.conv \in DOMAIN conversations
        /\ frame'[h].talk = conversations[meeting.conv] 
        /\ conversations[meeting.conv] \in Seq(Entry)
    BY <1>3, SubmitSteps
  <2>2. IsPrefix(conversations[meeting.conv], frame'[h].talk)
    BY <2>1, PrefixOrder
  <2>3. QED
    BY <1>1, <1>3, <2>1, <2>2 DEF Copied
<1>4. CASE g = h /\ ~SubmitAnswer(h)
  <2>1. frame'[h].pc \in {"resend", "wipe", "drop", "insert", "leaving", "recording"}
    BY <1>4, RequestSteps
  <2>2. frame'[h].pc \notin TurnPCs
    BY <2>1 DEF TurnPCs
  <2>3. QED
    BY <1>4, <2>2 DEF Copied
<1>5. QED
  BY <1>2, <1>3, <1>4

LEMMA CopiedAdvance ==
  ASSUME TypeOK, GrowInv, NEW h \in Handlers, Advance(h), NEW g \in Handlers
  PROVE  Copied(frame[g])'
<1>s. Steps(h)
  BY MeetingStepsSteps, TurnStepsSteps DEF Advance
<1>t. /\ frame \in [Handlers -> Frame] /\ \A k \in Handlers : frame[k].talk \in Seq(Entry)
      /\ conversations \in Seq(Seq(Entry))
      /\ \A k \in Handlers : Copied(frame[k])
  BY DEF TypeOK, Frame, GrowInv
<1>a. Alone
  BY DEF GrowInv
<1>p. /\ \A s \in Seq(Entry) : IsPrefix(s, s) /\ IsPrefix(<<>>, s)
      /\ \A s, t, u \in Seq(Entry) : IsPrefix(s, t) /\ IsPrefix(t, u) => IsPrefix(s, u)
  BY PrefixOrder
<1> SUFFICES ASSUME frame'[g].pc \in TurnPCs
             PROVE  Copied(frame[g])'
  BY DEF Copied
<1>k. /\ frame[g].pc \in TurnPCs /\ frame'[g].conv = frame[g].conv
      /\ frame[g].conv = meeting.conv /\ frame[g].conv \in DOMAIN conversations
  BY <1>s, <1>t DEF Steps, Follows, Copied
<1>1. CASE UNCHANGED conversations
  <2>1. ~Enter(h)
    <3>1. Enter(h) => conversations' # conversations
      BY <1>t DEF Enter
    <3>2. QED
      BY <1>1, <3>1
  <2>2. meeting'.conv = meeting.conv
    BY <2>1, SameConversation
  <2>3. ASSUME frame'[g].pc # "count"
        PROVE  IsPrefix(conversations[frame[g].conv], frame'[g].talk)
    <3>1. CASE g # h
      BY <1>s, <1>t, <1>k, <2>3, <3>1 DEF Steps, Copied
    <3>2. CASE g = h
      <4>1. frame[h].pc # "count"
        <5>1. CASE frame[h].pc = "count"
          <6>1. CountFollowUp(h)
            BY <5>1 DEF Advance, At, InsertMeetingQuestion, Enter, MarkLeft, SaveMeeting,
               WipeConversation, Reopen, DeleteMeetingQuestions, DropFeedback, MarkError,
               sendGreetingMessage, Hear, GiveUp, ReviewAnswer, AskFollowUp,
               RetrieveQuestion, AskQuestion, SayGoodbye, CreateFeedback, Complete, StoreTalkAgain
          <6>2. frame'[h].pc = "idle"
            BY <1>t, <6>1, ReturnIs DEF CountFollowUp
          <6>3. QED
            BY <3>2, <6>2 DEF TurnPCs
        <5>2. QED
          BY <5>1
      <4>2. IsPrefix(conversations[frame[h].conv], frame[h].talk)
        BY <1>t, <1>k, <3>2, <4>1 DEF Copied
      <4>3. conversations[frame[h].conv] \in Seq(Entry) /\ frame[h].talk \in Seq(Entry)
        BY <1>t, <1>k, <3>2
      <4>4. /\ addConversationEntry(frame[h].talk, "user", 0) \in Seq(Entry)
            /\ IsPrefix(frame[h].talk, addConversationEntry(frame[h].talk, "user", 0))
            /\ addConversationEntry(frame[h].talk, "assistant", 0) \in Seq(Entry)
            /\ IsPrefix(frame[h].talk, addConversationEntry(frame[h].talk, "assistant", 0))
        BY <4>3, EntryAdded, EntryExtends
      <4>5. frame'[h].talk \in Seq(Entry) /\ IsPrefix(frame[h].talk, frame'[h].talk)
        BY <1>s, <1>p, <3>2, <4>3, <4>4 DEF Steps, Follows
      <4>6. QED
        BY <1>p, <3>2, <4>2, <4>3, <4>5
    <3>3. QED
      BY <3>1, <3>2
  <2>4. QED
    BY <1>1, <1>k, <2>2, <2>3 DEF Copied
<1>2. CASE Enter(h)
  <2>1. frame[h].pc \in CandidatePCs /\ frame[h].pc \notin TurnPCs
    BY <1>2 DEF Enter, At, CandidatePCs, TurnPCs
  <2>2. g # h
    BY <1>k, <2>1
  <2>3. QED
    BY <1>a, <1>k, <2>1, <2>2, NobodyElse
<1>3. CASE WipeConversation(h)
  <2>1. meeting' = meeting /\ conversations' = [conversations EXCEPT ![frame[h].conv] = <<>>]
    BY <1>3 DEF WipeConversation, updateConversation
  <2>2. g # h
    BY <1>3, <1>k DEF WipeConversation, At, TurnPCs
  <2>3. frame'[g] = frame[g]
    BY <1>s, <2>2 DEF Steps
  <2>4. /\ frame[g].conv \in DOMAIN conversations'
        /\ conversations'[frame[g].conv] \in {<<>>, conversations[frame[g].conv]}
    BY <1>k, <2>1
  <2>5. QED
    BY <1>k, <1>p, <1>t, <2>1, <2>3, <2>4 DEF Copied
<1>4. CASE Stores(h)
  <2>1. g = h
    BY <1>a, <1>k, <1>4, NobodyElse DEF Stores, CandidatePCs
  <2>2. PICK talk \in Seq(Entry) :
          /\ conversations' = [conversations EXCEPT ![frame[h].conv] = talk]
          /\ frame'[h].pc \in TurnPCs \ {"count"} => frame'[h].talk = talk
    BY <1>4 DEF Stores, updateConversation
  <2>3. conversations'[frame[h].conv] = talk /\ DOMAIN conversations' = DOMAIN conversations
    BY <1>k, <2>1, <2>2
  <2>4. meeting'.conv = meeting.conv
    <3>1. ~Enter(h)
      BY <1>4 DEF Enter, Stores, At, TurnPCs
    <3>2. QED
      BY <3>1, SameConversation
  <2>5. QED
    BY <1>k, <1>p, <2>1, <2>2, <2>3, <2>4 DEF Copied
<1>5. QED
  BY <1>1, <1>2, <1>3, <1>4, AdvanceStores

LEMMA GrowNext == Paced /\ TypeOK /\ GrowInv /\ [Next]_vars => GrowInv'
<1> SUFFICES ASSUME Paced, TypeOK, GrowInv, [Next]_vars, NEW g \in Handlers
             PROVE  Copied(frame[g])'
  BY AloneNext DEF GrowInv
<1>1. CASE LandSave \/ sendToQueue \/ UNCHANGED vars
  <2>1. frame' = frame /\ meeting' = meeting /\ conversations' = conversations
    BY <1>1 DEF LandSave, sendToQueue, vars, store
  <2>2. QED
    BY <2>1 DEF GrowInv, Copied
<1>2. CASE Crash
  <2>1. frame'[g].pc = "idle"
    BY <1>2 DEF Crash, Idle
  <2>2. QED
    BY <2>1 DEF Copied, TurnPCs
<1>3. QED
  BY <1>1, <1>2, CopiedRequest, CopiedAdvance DEF Next

LEMMA GrowInit == Init => GrowInv
<1> SUFFICES ASSUME Init PROVE GrowInv
  OBVIOUS
<1>1. \A h \in Handlers : frame[h].pc = "idle"
  BY DEF Init, Idle
<1>2. "idle" \notin CandidatePCs /\ "idle" \notin TurnPCs
  BY DEF CandidatePCs, TurnPCs
<1>3. QED
  BY <1>1, <1>2 DEF GrowInv, Alone, Copied

TalkGrows ==
  \A c \in DOMAIN conversations :
    \/ IsPrefix(conversations[c], conversations'[c])
    \/ \E h \in Handlers : WipeConversation(h)

LEMMA GrowStep == TypeOK /\ GrowInv /\ [Next]_vars => [TalkGrows]_vars
<1> SUFFICES ASSUME TypeOK, GrowInv, [Next]_vars, NEW c \in DOMAIN conversations,
                    \A h \in Handlers : ~WipeConversation(h)
             PROVE  IsPrefix(conversations[c], conversations'[c])
  BY DEF TalkGrows
<1>p. /\ \A s \in Seq(Entry) : IsPrefix(s, s)
      /\ \A s, t, u \in Seq(Entry) : IsPrefix(s, t) /\ IsPrefix(t, u) => IsPrefix(s, u)
  BY PrefixOrder
<1>t. conversations \in Seq(Seq(Entry)) /\ conversations[c] \in Seq(Entry)
  BY DEF TypeOK
<1>1. CASE UNCHANGED conversations
  BY <1>1, <1>p, <1>t
<1>2. ASSUME NEW h \in Handlers, Enter(h)
      PROVE  IsPrefix(conversations[c], conversations'[c])
  <2>1. conversations'[c] = conversations[c]
    BY <1>2, <1>t DEF Enter
  <2>2. QED
    BY <2>1, <1>p, <1>t
<1>3. ASSUME NEW h \in Handlers, Stores(h)
      PROVE  IsPrefix(conversations[c], conversations'[c])
  <2>1. PICK talk \in Seq(Entry) :
          /\ conversations' = [conversations EXCEPT ![frame[h].conv] = talk]
          /\ IsPrefix(frame[h].talk, talk)
    BY <1>3 DEF Stores, updateConversation
  <2>2. CASE c # frame[h].conv
    BY <1>p, <1>t, <2>1, <2>2
  <2>3. CASE c = frame[h].conv
    <3>1. IsPrefix(conversations[c], frame[h].talk) /\ frame[h].talk \in Seq(Entry)
      BY <1>3, <2>3 DEF Stores, GrowInv, Copied, TypeOK, Frame
    <3>2. conversations'[c] = talk
      BY <2>1, <2>3
    <3>3. QED
      BY <1>p, <1>t, <2>1, <3>1, <3>2
  <2>4. QED
    BY <2>2, <2>3
<1>4. CASE LandSave \/ sendToQueue \/ Crash \/ UNCHANGED vars
  BY <1>1, <1>4 DEF LandSave, sendToQueue, Crash, vars, store
<1>5. QED
  BY <1>1, <1>2, <1>3, <1>4, AdvanceStores, RequestSteps DEF Next

(* When the client waits for each reply, no turn overwrites what another has *)
(* stored: a turn extends the conversation it read, and nobody but a         *)
(* recreation touches that conversation in the meantime.                     *)
THEOREM TalkIsKept ==
  ASSUME Paced
  PROVE  Spec => TalkOnlyGrows
<1>1. TypeOK /\ GrowInv /\ [Next]_vars =>
        [\A c \in DOMAIN conversations :
           \/ IsPrefix(conversations[c], conversations'[c])
           \/ \E h \in Handlers : WipeConversation(h)]_vars
  BY GrowStep DEF TalkGrows
<1>2. TypeOK /\ GrowInv /\ [Next]_vars => GrowInv'
  BY GrowNext
<1>3. QED
  BY <1>1, <1>2, TypeInit, TypeNext, GrowInit, PTL DEF Spec, TalkOnlyGrows

-----------------------------------------------------------------------------
(* The order of the questions *)

(* A row is taken when it is not on offer any more, or about to be marked.   *)
Marked(a) == a \notin PendingQuestions \/ \E i \in DOMAIN saves : saves[i].row = a
Taken(q) == \A a \in DOMAIN questions : a >= q => Marked(a)

Asks(talk) == {talk[i].asks : i \in AskedAt(talk)}
Falls(talk) == \A i, j \in AskedAt(talk) : i < j => talk[i].asks > talk[j].asks
Used(talk) == Falls(talk) /\ \A q \in Asks(talk) : q \in DOMAIN questions
Settled(talk) == \A q \in Asks(talk) : Taken(q)

NoInsert == \A h \in Handlers : frame[h].pc # "insert"

RowsInOrder == \A a, b \in DOMAIN questions : b < a => InOrder(a, b)
SavesAsked == \A i \in DOMAIN saves : saves[i].status = "asked" /\ saves[i].row \in DOMAIN questions
TalksUsed == \A c \in DOMAIN conversations : Used(conversations[c])
CurrentSettled == NoInsert /\ meeting.conv # 0 => Settled(conversations[meeting.conv])

(* The rows of a join come one below the other; whoever works for the        *)
(* candidate finds the saves of earlier turns landed; a turn takes the       *)
(* question on top, so everything above it is taken, and all it has asked    *)
(* so far is above it.                                                       *)
Ordered(f) ==
  /\ f.pc \in CandidatePCs \ {"open", "ask"} => saves = <<>>
  /\ f.pc = "insert" =>
       \/ f.left = NumQuestions
       \/ questions # <<>> /\ questions[Len(questions)].order = f.left + 1
  /\ f.pc \in TurnPCs => Used(f.talk) /\ Settled(f.talk)
  /\ f.pc \in {"open", "ask"} =>
       /\ f.save.row \in DOMAIN questions /\ Taken(f.save.row)
       /\ \A q \in Asks(f.talk) : q > f.save.row
  /\ f.pc \in {"followup", "count"} =>
       /\ f.save.row \in DOMAIN questions
       /\ f.save.status = "asked" \/ questions[f.save.row].of # "meeting"

OrderInv ==
  /\ RowsInOrder
  /\ SavesAsked
  /\ TalksUsed
  /\ CurrentSettled
  /\ \A h \in Handlers : Ordered(frame[h])

(* A step that takes no row off the table and puts none back on offer. *)
KeepsRows ==
  /\ DOMAIN questions' = DOMAIN questions
  /\ \A a \in DOMAIN questions :
       /\ questions'[a].order = questions[a].order
       /\ questions[a].of # "meeting" => questions'[a].of # "meeting"
       /\ Marked(a) => Marked(a)'

LEMMA AsksAdded ==
  ASSUME NEW talk \in Seq(Entry), NEW role \in {"user", "assistant"}, NEW q \in Nat
  PROVE  LET s == addConversationEntry(talk, role, q)
         IN /\ AskedAt(talk) \subseteq 1..Len(talk) /\ Len(talk) \in Nat
            /\ q = 0 => /\ AskedAt(s) = AskedAt(talk)
                        /\ Asks(s) = Asks(talk) /\ (Falls(talk) => Falls(s))
            /\ q # 0 => /\ AskedAt(s) = AskedAt(talk) \cup {Len(talk) + 1}
                        /\ Asks(s) = Asks(talk) \cup {q}
                        /\ Falls(talk) /\ (\A p \in Asks(talk) : p > q) => Falls(s)
<1> DEFINE s == addConversationEntry(talk, role, q)
<1>0. Len(talk) \in Nat /\ DOMAIN talk = 1..Len(talk)
  OBVIOUS
<1>1. /\ Len(talk) \in Nat /\ DOMAIN talk = 1..Len(talk)
      /\ DOMAIN s = DOMAIN talk \cup {Len(talk) + 1}
      /\ \A i \in DOMAIN talk : s[i] = talk[i]
  BY <1>0, EntryAppended
<1>2. s[Len(talk) + 1].asks = q
  BY DEF addConversationEntry
<1> HIDE DEF s
<1>3. AskedAt(talk) \subseteq 1..Len(talk) /\ Len(talk) + 1 \notin DOMAIN talk
  BY <1>1 DEF AskedAt
<1>4. CASE q = 0
  <2>1. AskedAt(s) = AskedAt(talk)
    BY <1>1, <1>2, <1>4 DEF AskedAt
  <2>2. \A i \in AskedAt(talk) : s[i] = talk[i]
    BY <1>1 DEF AskedAt
  <2>3. Asks(s) = Asks(talk) /\ (Falls(talk) => Falls(s))
    BY <2>1, <2>2 DEF Asks, Falls
  <2>4. QED
    BY <1>1, <1>3, <1>4, <2>1, <2>3 DEF s
<1>5. CASE q # 0
  <2>1. AskedAt(s) = AskedAt(talk) \cup {Len(talk) + 1}
    BY <1>1, <1>2, <1>5 DEF AskedAt
  <2>2. \A i \in AskedAt(talk) : s[i] = talk[i]
    BY <1>1 DEF AskedAt
  <2>3. Asks(s) = Asks(talk) \cup {q}
    BY <1>2, <2>1, <2>2 DEF Asks
  <2>4. ASSUME Falls(talk), \A p \in Asks(talk) : p > q
        PROVE  Falls(s)
    <3>1. ASSUME NEW i \in AskedAt(s), NEW j \in AskedAt(s), i < j
          PROVE  s[i].asks > s[j].asks
      <4>1. i \in AskedAt(talk)
        BY <1>1, <1>3, <2>1, <3>1
      <4>2. CASE j = Len(talk) + 1
        BY <1>2, <2>2, <2>4, <4>1, <4>2 DEF Asks
      <4>3. CASE j \in AskedAt(talk)
        BY <2>2, <2>4, <3>1, <4>1, <4>3 DEF Falls
      <4>4. QED
        BY <2>1, <4>2, <4>3
    <3>2. QED
      BY <3>1 DEF Falls
  <2>5. QED
    BY <1>1, <1>3, <1>5, <2>1, <2>3, <2>4 DEF s
<1>6. QED
  BY <1>4, <1>5

LEMMA NothingAsked == Asks(<<>>) = {} /\ Falls(<<>>)
BY DEF Asks, Falls, AskedAt

(* The order asked is the order of the rows. *)
LEMMA OrderSuffices == TypeOK /\ OrderInv => AskedInOrder
<1> SUFFICES ASSUME TypeOK, OrderInv, NEW c \in DOMAIN conversations,
                    NEW i \in AskedAt(conversations[c]), NEW j \in AskedAt(conversations[c]), i < j
             PROVE  InOrder(conversations[c][i].asks, conversations[c][j].asks)
  BY DEF AskedInOrder
<1>1. /\ conversations[c][i].asks > conversations[c][j].asks
      /\ conversations[c][i].asks \in DOMAIN questions
      /\ conversations[c][j].asks \in DOMAIN questions
  BY DEF OrderInv, TalksUsed, Used, Falls, Asks
<1>2. QED
  BY <1>1 DEF OrderInv, RowsInOrder, TypeOK

-----------------------------------------------------------------------------
(* What keeps the rows keeps the order *)

LEMMA TakenKept ==
  ASSUME KeepsRows, NEW q
  PROVE  Taken(q) => Taken(q)'
BY DEF KeepsRows, Taken

LEMMA TalkKept ==
  ASSUME KeepsRows, NEW talk
  PROVE  (Used(talk) => Used(talk)') /\ (Settled(talk) => Settled(talk)')
<1>1. Used(talk) => Used(talk)'
  BY DEF KeepsRows, Used
<1>2. Settled(talk) => Settled(talk)'
  BY TakenKept DEF Settled
<1>3. QED
  BY <1>1, <1>2

LEMMA RowsKept ==
  ASSUME TypeOK, TypeOK', RowsInOrder, KeepsRows
  PROVE  RowsInOrder'
<1>1. \A a \in DOMAIN questions : questions'[a].order = questions[a].order
  BY DEF KeepsRows
<1>2. DOMAIN questions' = DOMAIN questions /\ DOMAIN questions = 1..Len(questions)
      /\ Len(questions) \in Nat
  BY DEF KeepsRows, TypeOK
<1>3. ASSUME NEW a \in DOMAIN questions, NEW b \in DOMAIN questions, b < a
      PROVE  InOrder(a, b)'
  <2>1. InOrder(a, b)
    BY <1>3 DEF RowsInOrder
  <2>2. \A q \in (b + 1)..a : q \in DOMAIN questions
    BY <1>2
  <2>3. QED
    BY <1>1, <2>1, <2>2 DEF InOrder
<1>4. QED
  BY <1>2, <1>3 DEF RowsInOrder

LEMMA OrderedKept ==
  ASSUME TypeOK, KeepsRows, saves = <<>> => saves' = <<>>, NEW f, f.pc # "insert", Ordered(f)
  PROVE  Ordered(f)'
<1>1. Used(f.talk) => Used(f.talk)'
  BY TalkKept
<1>2. Settled(f.talk) => Settled(f.talk)'
  BY TalkKept
<1>3. Taken(f.save.row) => Taken(f.save.row)'
  BY TakenKept
<1>4. f.save.row \in DOMAIN questions =>
        /\ f.save.row \in DOMAIN questions'
        /\ questions[f.save.row].of # "meeting" => questions'[f.save.row].of # "meeting"
  BY DEF KeepsRows
<1>5. QED
  BY <1>1, <1>2, <1>3, <1>4 DEF Ordered

LEMMA InsertKept ==
  ASSUME TypeOK, KeepsRows, saves = <<>> => saves' = <<>>, NEW f, f.pc = "insert", Ordered(f)
  PROVE  Ordered(f)'
<1>1. /\ DOMAIN questions = 1..Len(questions) /\ Len(questions) \in Nat
      /\ questions # <<>> => Len(questions) \in DOMAIN questions
  BY DEF TypeOK
<1>2. f.pc \in CandidatePCs \ {"open", "ask"} /\ f.pc \notin TurnPCs
  BY DEF CandidatePCs, TurnPCs
<1>3. saves' = <<>>
  BY <1>2 DEF Ordered
<1>4. QED
  BY <1>1, <1>2, <1>3 DEF Ordered, KeepsRows

LEMMA StillKeeps ==
  ASSUME UNCHANGED <<questions, saves>>
  PROVE  KeepsRows
BY DEF KeepsRows, Marked, PendingQuestions

LEMMA Removed ==
  ASSUME saves \in Seq(Save), NEW i \in DOMAIN saves
  PROVE  LET s == RemoveAt(saves, i)
         IN /\ \A k \in DOMAIN s : \E j \in DOMAIN saves : s[k] = saves[j]
            /\ \A j \in DOMAIN saves : j # i => \E k \in DOMAIN s : s[k] = saves[j]
<1> DEFINE s == RemoveAt(saves, i)
           n == Len(saves)
<1>1. n \in Nat /\ i \in 1..n /\ DOMAIN saves = 1..n
  OBVIOUS
<1>2. /\ SubSeq(saves, 1, i - 1) \in Seq(Save) /\ Len(SubSeq(saves, 1, i - 1)) = i - 1
      /\ \A k \in 1..(i - 1) : SubSeq(saves, 1, i - 1)[k] = saves[k]
  BY <1>1
<1>3. /\ SubSeq(saves, i + 1, n) \in Seq(Save) /\ Len(SubSeq(saves, i + 1, n)) = n - i
      /\ \A k \in 1..(n - i) : SubSeq(saves, i + 1, n)[k] = saves[k + i]
  BY <1>1
<1>4. /\ DOMAIN s = 1..(n - 1)
      /\ \A k \in 1..(n - 1) : s[k] = saves[IF k < i THEN k ELSE k + 1]
  <2> DEFINE a == SubSeq(saves, 1, i - 1)
             b == SubSeq(saves, i + 1, n)
  <2>1. s = a \o b
    BY DEF RemoveAt
  <2>2. /\ a \in Seq(Save) /\ b \in Seq(Save) /\ Len(a) = i - 1 /\ Len(b) = n - i
        /\ \A k \in 1..(i - 1) : a[k] = saves[k]
        /\ \A k \in 1..(n - i) : b[k] = saves[k + i]
    BY <1>2, <1>3
  <2> HIDE DEF a, b, s
  <2>3. /\ Len(s) = n - 1 /\ s \in Seq(Save)
        /\ \A k \in 1..(n - 1) : s[k] = IF k <= i - 1 THEN a[k] ELSE b[k - (i - 1)]
    <3>1. /\ a \o b \in Seq(Save) /\ Len(a \o b) = Len(a) + Len(b)
          /\ \A k \in 1..(Len(a) + Len(b)) :
               (a \o b)[k] = IF k <= Len(a) THEN a[k] ELSE b[k - Len(a)]
      BY <2>2, ConcatProperties
    <3>2. Len(a) + Len(b) = n - 1
      BY <1>1, <2>2
    <3>3. QED
      BY <2>1, <2>2, <3>1, <3>2
  <2>4. ASSUME NEW k \in 1..(n - 1)
        PROVE  s[k] = saves[IF k < i THEN k ELSE k + 1]
    <3>1. CASE k < i
      BY <1>1, <2>2, <2>3, <3>1
    <3>2. CASE ~(k < i)
      <4>1. k - (i - 1) \in 1..(n - i) /\ (k - (i - 1)) + i = k + 1
        BY <1>1, <3>2
      <4>2. b[k - (i - 1)] = saves[k + 1]
        BY <2>2, <4>1
      <4>3. s[k] = b[k - (i - 1)]
        BY <1>1, <2>3, <3>2
      <4>4. QED
        BY <3>2, <4>2, <4>3
    <3>3. QED
      BY <3>1, <3>2
  <2>5. QED
    BY <1>1, <2>3, <2>4
<1> HIDE DEF s
<1>5. ASSUME NEW k \in DOMAIN s
      PROVE  \E j \in DOMAIN saves : s[k] = saves[j]
  <2>1. (IF k < i THEN k ELSE k + 1) \in DOMAIN saves
    BY <1>1, <1>4, <1>5
  <2>2. QED
    BY <1>4, <1>5, <2>1
<1>6. ASSUME NEW j \in DOMAIN saves, j # i
      PROVE  \E k \in DOMAIN s : s[k] = saves[j]
  <2> DEFINE k == IF j < i THEN j ELSE j - 1
  <2>1. k \in 1..(n - 1) /\ (IF k < i THEN k ELSE k + 1) = j
    BY <1>1, <1>6
  <2>2. s[k] = saves[j]
    BY <1>4, <2>1
  <2>3. QED
    BY <1>4, <2>1, <2>2
<1>7. QED
  BY <1>5, <1>6 DEF s

(* A save that lands takes its row off offer, if it was not. *)
LEMMA LandKeeps ==
  ASSUME TypeOK, SavesAsked, LandSave
  PROVE  KeepsRows /\ SavesAsked' /\ saves # <<>>
<1>1. PICK i \in DOMAIN saves : SaveQuestion(saves[i]) /\ saves' = RemoveAt(saves, i)
  BY DEF LandSave
<1>t. saves \in Seq(Save) /\ questions \in Seq(Row)
  BY DEF TypeOK
<1> DEFINE r == saves[i].row
<1>2. /\ r \in DOMAIN questions /\ saves[i].status = "asked"
  BY DEF SavesAsked
<1>3. /\ DOMAIN questions' = DOMAIN questions
      /\ \A a \in DOMAIN questions : a # r => questions'[a] = questions[a]
      /\ questions'[r].status = "asked" /\ questions'[r].order = questions[r].order
      /\ questions'[r].of = (IF questions[r].of = "deleted" THEN "nobody" ELSE questions[r].of)
  BY <1>1, <1>2, <1>t DEF SaveQuestion
<1>4. /\ \A k \in DOMAIN saves' : \E j \in DOMAIN saves : saves'[k] = saves[j]
      /\ \A j \in DOMAIN saves : j # i => \E k \in DOMAIN saves' : saves'[k] = saves[j]
  BY <1>1, <1>t, Removed
<1>5. SavesAsked'
  BY <1>3, <1>4 DEF SavesAsked
<1>6. ASSUME NEW a \in DOMAIN questions, Marked(a)
      PROVE  Marked(a)'
  <2>1. CASE a = r
    <3>1. questions'[a].status # "pending"
      BY <1>3, <2>1
    <3>2. QED
      BY <3>1 DEF Marked, PendingQuestions
  <2>2. CASE a # r /\ a \notin PendingQuestions
    <3>1. questions'[a] = questions[a]
      BY <1>3, <2>2
    <3>2. QED
      BY <1>3, <2>2, <3>1 DEF Marked, PendingQuestions
  <2>3. CASE a # r /\ a \in PendingQuestions
    <3>1. PICK j \in DOMAIN saves : saves[j].row = a
      BY <1>6, <2>3 DEF Marked
    <3>2. PICK k \in DOMAIN saves' : saves'[k] = saves[j]
      BY <1>4, <2>3, <3>1
    <3>3. QED
      BY <3>1, <3>2 DEF Marked
  <2>4. QED
    BY <2>1, <2>2, <2>3
<1>7. KeepsRows
  BY <1>3, <1>6 DEF KeepsRows
<1>8. QED
  BY <1>5, <1>7, <1>t

LEMMA CountKeeps ==
  ASSUME TypeOK, OrderInv, NEW h \in Handlers, CountFollowUp(h)
  PROVE  KeepsRows
<1> DEFINE s == frame[h].save
<1>1. /\ SaveQuestion(s) /\ saves' = saves /\ s.row \in DOMAIN questions
      /\ s.status = "asked" \/ questions[s.row].of # "meeting"
  BY DEF CountFollowUp, At, OrderInv, Ordered, pending
<1>t. questions \in Seq(Row)
  BY DEF TypeOK
<1>3. /\ DOMAIN questions' = DOMAIN questions
      /\ \A a \in DOMAIN questions : a # s.row => questions'[a] = questions[a]
      /\ questions'[s.row].status = s.status
      /\ questions'[s.row].order = questions[s.row].order
      /\ questions'[s.row].of =
           (IF questions[s.row].of = "deleted" THEN "nobody" ELSE questions[s.row].of)
  BY <1>1, <1>t DEF SaveQuestion
<1> HIDE DEF s
<1>4. ASSUME NEW a \in DOMAIN questions, Marked(a)
      PROVE  Marked(a)'
  <2>1. CASE a = s.row
    <3>1. a \notin PendingQuestions'
      BY <1>1, <1>3, <2>1 DEF PendingQuestions
    <3>2. QED
      BY <3>1 DEF Marked
  <2>2. CASE a # s.row
    <3>1. questions'[a] = questions[a]
      BY <1>3, <2>2
    <3>2. QED
      BY <1>1, <1>3, <1>4, <3>1 DEF Marked, PendingQuestions
  <2>3. QED
    BY <2>1, <2>2
<1>5. QED
  BY <1>3, <1>4 DEF KeepsRows

LEMMA PurgeKeeps ==
  ASSUME TypeOK, NEW h \in Handlers, DeleteMeetingQuestions(h)
  PROVE  KeepsRows /\ saves' = saves
<1>t. questions \in Seq(Row)
  BY DEF TypeOK
<1>q. questions' = [q \in DOMAIN questions |->
                      [questions[q] EXCEPT !.of = IF @ = "meeting" THEN "deleted" ELSE @]]
  BY DEF DeleteMeetingQuestions
<1>r. \A q \in DOMAIN questions : questions[q] \in Row
  BY <1>t
<1>1. /\ DOMAIN questions' = DOMAIN questions /\ saves' = saves
      /\ \A q \in DOMAIN questions :
           /\ questions'[q].order = questions[q].order
           /\ questions'[q].of # "meeting"
  <2>1. saves' = saves
    BY DEF DeleteMeetingQuestions, pending
  <2>2. QED
    BY <1>q, <1>r, <2>1 DEF Row
<1>2. \A q \in DOMAIN questions : Marked(q)'
  BY <1>1 DEF Marked, PendingQuestions
<1>3. QED
  BY <1>1, <1>2 DEF KeepsRows

LEMMA OneOrdered ==
  ASSUME Alone, NEW h \in Handlers, frame[h].pc \in CandidatePCs,
         \A g \in Handlers : g # h => frame'[g] = frame[g], Ordered(frame[h])'
  PROVE  \A g \in Handlers : Ordered(frame[g])'
<1>1. {"open", "ask", "insert", "followup", "count"} \cup TurnPCs \subseteq CandidatePCs
  BY DEF CandidatePCs, TurnPCs
<1>2. ASSUME NEW g \in Handlers, g # h
      PROVE  Ordered(frame[g])'
  <2>1. frame'[g].pc \notin CandidatePCs
    BY <1>2, NobodyElse
  <2>2. QED
    BY <1>1, <2>1 DEF Ordered
<1>3. QED
  BY <1>2

LEMMA OthersOrdered ==
  ASSUME TypeOK, OrderInv, KeepsRows, saves = <<>> => saves' = <<>>, NEW h \in Handlers,
         \A g \in Handlers : g # h => frame'[g] = frame[g], frame'[h].pc \notin CandidatePCs
  PROVE  \A g \in Handlers : Ordered(frame[g])'
<1>1. {"open", "ask", "insert", "followup", "count"} \cup TurnPCs \subseteq CandidatePCs
  BY DEF CandidatePCs, TurnPCs
<1>2. Ordered(frame[h])'
  BY <1>1 DEF Ordered
<1>3. ASSUME NEW g \in Handlers, g # h
      PROVE  Ordered(frame[g])'
  <2>1. PICK f : f = frame[g]
    OBVIOUS
  <2>2. Ordered(f)
    BY <2>1 DEF OrderInv
  <2>3. Ordered(f)'
    BY <2>2, OrderedKept, InsertKept
  <2>4. frame'[g] = f
    BY <1>3, <2>1
  <2>5. QED
    BY <2>3, <2>4 DEF Ordered
<1>4. QED
  BY <1>2, <1>3

LEMMA TalkStays ==
  ASSUME OrderInv, KeepsRows, UNCHANGED conversations, meeting'.conv = meeting.conv,
         NoInsert' => NoInsert, TypeOK
  PROVE  TalksUsed' /\ CurrentSettled'
<1>1. ASSUME NEW c \in DOMAIN conversations
      PROVE  Used(conversations[c])'
  <2>1. PICK t : t = conversations[c]
    OBVIOUS
  <2>2. Used(t)'
    BY <2>1, TalkKept DEF OrderInv, TalksUsed
  <2>3. conversations'[c] = t
    BY <2>1
  <2>4. QED
    BY <2>2, <2>3 DEF Used
<1>2. CurrentSettled'
  <2>1. SUFFICES ASSUME NoInsert', meeting'.conv # 0
                 PROVE  Settled(conversations[meeting.conv])'
    BY DEF CurrentSettled
  <2>2. PICK t : t = conversations[meeting.conv]
    OBVIOUS
  <2>3. Settled(t)
    BY <2>1, <2>2 DEF OrderInv, CurrentSettled
  <2>4. Settled(t)'
    BY <2>3, TalkKept
  <2>5. conversations'[meeting'.conv] = t
    BY <2>2
  <2>6. QED
    BY <2>4, <2>5 DEF Settled
<1>3. QED
  BY <1>1, <1>2 DEF TalksUsed

LEMMA TalkChanges ==
  ASSUME OrderInv, KeepsRows, TypeOK, meeting'.conv = meeting.conv, NoInsert' => NoInsert,
         NEW k, NEW t, updateConversation(k, t), Used(t), Settled(t)
  PROVE  TalksUsed' /\ CurrentSettled'
<1>0. /\ conversations' = [conversations EXCEPT ![k] = t]
      /\ DOMAIN conversations' = DOMAIN conversations
      /\ meeting.conv # 0 => meeting.conv \in DOMAIN conversations
  BY DEF updateConversation, TypeOK
<1>t. Used(t)' /\ Settled(t)'
  BY TalkKept
<1>1. ASSUME NEW c \in DOMAIN conversations
      PROVE  Used(conversations[c])'
  <2>1. PICK u : u = conversations[c]
    OBVIOUS
  <2>2. Used(u)'
    BY <2>1, TalkKept DEF OrderInv, TalksUsed
  <2>3. conversations'[c] \in {t, u}
    BY <1>0, <2>1
  <2>4. QED
    BY <1>t, <2>2, <2>3 DEF Used
<1>2. CurrentSettled'
  <2>1. SUFFICES ASSUME NoInsert', meeting'.conv # 0
                 PROVE  Settled(conversations[meeting.conv])'
    BY DEF CurrentSettled
  <2>2. PICK u : u = conversations[meeting.conv]
    OBVIOUS
  <2>3. Settled(u)
    BY <2>1, <2>2 DEF OrderInv, CurrentSettled
  <2>4. Settled(u)'
    BY <2>3, TalkKept
  <2>5. conversations'[meeting'.conv] \in {t, u}
    BY <1>0, <2>1, <2>2
  <2>6. QED
    BY <1>t, <2>4, <2>5 DEF Settled
<1>3. QED
  BY <1>0, <1>1, <1>2 DEF TalksUsed

LEMMA NoInsertBack ==
  ASSUME NEW h \in Handlers, \A g \in Handlers : g # h => frame'[g] = frame[g],
         frame[h].pc = "insert" => frame'[h].pc = "insert"
  PROVE  NoInsert' => NoInsert
BY DEF NoInsert

(* A step that keeps the rows and the conversations as they are and ends its *)
(* handler, or moves one that does not work for the candidate.               *)
LEMMA OrderQuits ==
  ASSUME TypeOK, TypeOK', OrderInv, KeepsRows, saves = <<>> => saves' = <<>>, SavesAsked',
         NEW h \in Handlers, \A g \in Handlers : g # h => frame'[g] = frame[g],
         frame'[h].pc \notin CandidatePCs, TalksUsed' /\ CurrentSettled'
  PROVE  OrderInv'
BY OthersOrdered, RowsKept DEF OrderInv

LEMMA OrderRequest ==
  ASSUME TypeOK, TypeOK', Paced, OrderInv, GrowInv, NEW h \in Handlers, Request(h)
  PROVE  OrderInv'
<1>t. frame \in [Handlers -> Frame]
  BY DEF TypeOK
<1>1. /\ \A g \in Handlers : g # h => frame'[g] = frame[g]
      /\ frame[h].pc = "idle" /\ UNCHANGED <<conversations, meeting, questions, saves>>
  BY RequestSteps
<1>2. KeepsRows
  BY <1>1, StillKeeps
<1>3. RowsInOrder' /\ SavesAsked'
  BY <1>1, <1>2, RowsKept DEF OrderInv, SavesAsked
<1>4. TalksUsed' /\ CurrentSettled'
  BY <1>1, <1>2, NoInsertBack, TalkStays
<1>i. /\ {"open", "ask", "followup", "count"} \cup TurnPCs \subseteq CandidatePCs
      /\ {"insert", "leaving", "recording"} \cap (TurnPCs \cup {"open", "ask", "followup", "count"}) = {}
      /\ "insert" \in CandidatePCs
  BY DEF CandidatePCs, TurnPCs
<1>5. CASE frame'[h].pc \in {"resend", "wipe", "drop"}
  <2>1. frame'[h].pc \notin CandidatePCs
    BY <1>5 DEF CandidatePCs, TurnPCs
  <2>2. QED
    BY <1>1, <1>2, <1>3, <1>4, <2>1, OrderQuits
<1>6. ASSUME CandidateMayCall, Ordered(frame[h])'
      PROVE  OrderInv'
  <2>1. \A g \in Handlers : frame[g].pc \notin CandidatePCs
    BY <1>6 DEF CandidateMayCall
  <2>2. ASSUME NEW g \in Handlers, g # h
        PROVE  Ordered(frame[g])'
    <3>1. frame'[g].pc \notin CandidatePCs
      BY <1>1, <2>1, <2>2
    <3>2. QED
      BY <1>i, <3>1 DEF Ordered
  <2>3. QED
    BY <1>3, <1>4, <1>6, <2>2 DEF OrderInv
<1>7. CASE CandidateMayCall /\ frame'[h].pc \in {"insert", "leaving", "recording"}
  <2>1. saves' = <<>>
    BY <1>1, <1>7 DEF CandidateMayCall
  <2>2. frame'[h].pc = "insert" => frame'[h].left = NumQuestions
    <3>1. CASE Join(h)
      BY <3>1, IdleIsFrame DEF Join, Start, TypeOK, Frame
    <3>2. CASE ~Join(h)
      <4>1. frame'[h].pc # "insert"
        <5>1. CASE SubmitAnswer(h)
          BY <5>1, SubmitSteps
        <5>2. CASE ~SubmitAnswer(h)
          <6>1. CASE Leave(h) \/ EndRecording(h)
            <7>1. frame'[h].pc \in {"leaving", "recording"}
              BY <1>t, <6>1, IdleIsFrame DEF Leave, EndRecording, Start, Frame
            <7>2. QED
              BY <7>1
          <6>2. CASE ResendEmail(h) \/ Recreate(h) \/ CleanUp(h)
            <7>1. frame'[h].pc \in {"resend", "wipe", "drop"}
              BY <1>t, <6>2, IdleIsFrame DEF ResendEmail, Recreate, CleanUp, Start, Frame
            <7>2. QED
              BY <7>1
          <6>3. QED
            BY <3>2, <5>2, <6>1, <6>2 DEF Request
        <5>3. QED
          BY <5>1, <5>2
      <4>2. QED
        BY <4>1
    <3>3. QED
      BY <3>1, <3>2
  <2>3. Ordered(frame[h])'
    BY <1>i, <1>7, <2>1, <2>2 DEF Ordered
  <2>4. QED
    BY <1>6, <1>7, <2>3
<1>8. CASE SubmitAnswer(h)
  <2>1. /\ meeting.conv \in DOMAIN conversations
        /\ frame'[h].pc \in {"greet", "listen"} /\ frame'[h].talk = conversations[meeting.conv]
        /\ CandidateMayCall
    BY <1>8, SubmitSteps
  <2>2. saves' = <<>> /\ NoInsert
    BY <1>1, <1>i, <2>1 DEF CandidateMayCall, NoInsert
  <2>3. PICK t : t = conversations[meeting.conv]
    OBVIOUS
  <2>4. Used(t) /\ Settled(t)
    <3>1. meeting.conv # 0
      BY <1>8 DEF SubmitAnswer
    <3>2. QED
      BY <2>1, <2>2, <2>3, <3>1 DEF OrderInv, TalksUsed, CurrentSettled
  <2>5. Used(t)' /\ Settled(t)'
    BY <1>2, <2>4, TalkKept
  <2>6. Used(frame[h].talk)' /\ Settled(frame[h].talk)'
    <3>1. frame'[h].talk = t
      BY <2>1, <2>3
    <3>2. QED
      BY <2>5, <3>1 DEF Used, Settled
  <2>7. Ordered(frame[h])'
    BY <2>1, <2>2, <2>6 DEF Ordered
  <2>8. QED
    BY <1>6, <2>1, <2>7
<1>9. QED
  BY <1>5, <1>7, <1>8, RequestSteps

(* A join adds a row below the last one, or the first of its own.            *)
LEMMA OrderInsert ==
  ASSUME TypeOK, TypeOK', OrderInv, GrowInv, NEW h \in Handlers, InsertMeetingQuestion(h)
  PROVE  OrderInv'
<1>m. PICK m, l : m = Len(questions) /\ l = frame[h].left
  OBVIOUS
<1> DEFINE n == m + 1
<1>t. /\ questions \in Seq(Row) /\ frame \in [Handlers -> Frame] /\ l \in 0..NumQuestions
      /\ m \in Nat /\ l \in Nat /\ NumQuestions \in Nat
      /\ \A b \in DOMAIN questions : questions[b].order \in 1..NumQuestions
      /\ Alone
  <2>1. \A b \in DOMAIN questions : questions[b] \in Row
    BY DEF TypeOK
  <2>2. QED
    BY <1>m, <2>1, QuestionsAssumption DEF TypeOK, Frame, Row, GrowInv
<1>1. /\ frame[h].pc = "insert" /\ l > 0 /\ frame'[h].pc = "insert" /\ frame'[h].left = l - 1
      /\ \A g \in Handlers : g # h => frame'[g] = frame[g]
      /\ saves' = saves /\ conversations' = conversations /\ meeting' = meeting
  BY <1>m, <1>t DEF InsertMeetingQuestion, At, Frame, pending
<1>2. /\ DOMAIN questions' = DOMAIN questions \cup {n} /\ DOMAIN questions = 1..m
      /\ questions'[n].order = l /\ Len(questions') = n
      /\ \A b \in DOMAIN questions : questions'[b] = questions[b]
  BY <1>m, <1>t DEF InsertMeetingQuestion
<1>i. "insert" \in CandidatePCs \ {"open", "ask"} /\ "insert" \notin TurnPCs
  BY DEF CandidatePCs, TurnPCs
<1>o. Ordered(frame[h])
  BY DEF OrderInv
<1>3. saves = <<>>
  BY <1>1, <1>i, <1>o DEF Ordered
<1>4. \/ l = NumQuestions
      \/ questions # <<>> /\ questions[m].order = l + 1
  BY <1>1, <1>m, <1>o DEF Ordered
<1>5. RowsInOrder'
  <2>1. ASSUME NEW a \in DOMAIN questions, NEW b \in DOMAIN questions, b < a
        PROVE  InOrder(a, b)'
    <3>1. InOrder(a, b) /\ \A q \in (b + 1)..a : q \in DOMAIN questions
      BY <1>t, <2>1 DEF OrderInv, RowsInOrder
    <3>2. QED
      BY <1>2, <2>1, <3>1 DEF InOrder
  <2>2. ASSUME NEW b \in DOMAIN questions
        PROVE  InOrder(n, b)'
    <3>1. n > b /\ n \in (b + 1)..n
      BY <1>t, <1>2, <2>2
    <3>2. CASE l = NumQuestions
      BY <1>2, <3>1, <3>2 DEF InOrder
    <3>3. CASE questions # <<>> /\ questions[m].order = l + 1
      <4>1. m \in DOMAIN questions /\ questions[m].order = l + 1 /\ b <= m
        BY <1>t, <1>2, <1>m, <2>2, <3>3
      <4>2. CASE b = m
        <5>1. questions'[n].order < questions'[b].order
          BY <1>2, <1>t, <4>1, <4>2
        <5>2. QED
          BY <3>1, <5>1 DEF InOrder
      <4>3. CASE b < m
        <5>1. InOrder(m, b)
          BY <4>1, <4>3 DEF OrderInv, RowsInOrder
        <5>2. CASE questions[m].order < questions[b].order
          <6>1. questions[b].order \in Nat /\ l \in Nat
            BY <1>t
          <6>2. questions'[n].order < questions'[b].order
            BY <1>2, <4>1, <5>2, <6>1
          <6>3. QED
            BY <3>1, <6>2 DEF InOrder
        <5>3. CASE \E q \in (b + 1)..m : questions[q].order = NumQuestions
          <6>1. PICK q \in (b + 1)..m : questions[q].order = NumQuestions
            BY <5>3
          <6>2. q \in (b + 1)..n /\ questions'[q].order = NumQuestions
            BY <1>2, <1>t, <6>1
          <6>3. QED
            BY <3>1, <6>2 DEF InOrder
        <5>4. QED
          BY <5>1, <5>2, <5>3 DEF InOrder
      <4>4. QED
        BY <1>t, <4>1, <4>2, <4>3
    <3>4. QED
      BY <1>4, <3>2, <3>3
  <2>3. QED
    BY <1>2, <1>t, <2>1, <2>2 DEF RowsInOrder
<1>6. SavesAsked'
  BY <1>1, <1>3 DEF SavesAsked
<1>7. TalksUsed'
  <2>1. ASSUME NEW c \in DOMAIN conversations
        PROVE  Used(conversations[c])'
    BY <1>1, <1>2, <2>1 DEF OrderInv, TalksUsed, Used
  <2>2. QED
    BY <1>1, <2>1 DEF TalksUsed
<1>8. CurrentSettled'
  BY <1>1 DEF CurrentSettled, NoInsert
<1>9. Ordered(frame[h])'
  <2>1. questions' # <<>> /\ questions'[Len(questions')].order = frame'[h].left + 1
    <3>1. l \in Nat
      BY <1>t
    <3>2. frame'[h].left + 1 = l
      BY <1>1, <3>1
    <3>3. QED
      BY <1>2, <3>2
  <2>2. QED
    BY <1>1, <1>3, <1>i, <2>1 DEF Ordered
<1>10. QED
  BY <1>1, <1>5, <1>6, <1>7, <1>8, <1>9, <1>i, <1>t, OneOrdered DEF OrderInv

(* The conversation a join enters is empty. *)
LEMMA OrderEnter ==
  ASSUME TypeOK, TypeOK', OrderInv, NEW h \in Handlers, Enter(h)
  PROVE  OrderInv'
<1>1. /\ UNCHANGED <<questions, saves>> /\ Steps(h) /\ frame'[h].pc = "idle"
      /\ conversations' = Append(conversations, <<>>) /\ meeting'.conv = Len(conversations) + 1
      /\ conversations \in Seq(Seq(Entry))
  BY MeetingStepsSteps, ReturnIs DEF Enter, TypeOK, pending
<1>2. KeepsRows /\ SavesAsked'
  BY <1>1, StillKeeps DEF OrderInv, SavesAsked
<1>3. /\ DOMAIN conversations' = DOMAIN conversations \cup {Len(conversations) + 1}
      /\ conversations'[Len(conversations) + 1] = <<>>
      /\ \A i \in DOMAIN conversations : conversations'[i] = conversations[i]
  BY <1>1
<1>4. TalksUsed'
  <2>1. ASSUME NEW c \in DOMAIN conversations', conversations'[c] = <<>>
        PROVE  Used(conversations[c])'
    BY <2>1, NothingAsked DEF Used
  <2>2. ASSUME NEW c \in DOMAIN conversations
        PROVE  Used(conversations[c])'
    BY <1>1, <1>3, <2>2 DEF OrderInv, TalksUsed, Used
  <2>3. QED
    BY <1>3, <2>1, <2>2 DEF TalksUsed
<1>5. CurrentSettled'
  <2>1. conversations'[meeting'.conv] = <<>>
    BY <1>1, <1>3
  <2>2. QED
    BY <2>1, NothingAsked DEF CurrentSettled, Settled
<1>6. frame'[h].pc \notin CandidatePCs
  BY <1>1 DEF CandidatePCs, TurnPCs
<1>7. QED
  BY <1>1, <1>2, <1>4, <1>5, <1>6, OrderQuits DEF Steps

(* Steps that end a handler or move one that does not work for the candidate.*)
LEMMA OrderMeeting ==
  ASSUME TypeOK, TypeOK', OrderInv, GrowInv, NEW h \in Handlers,
         \/ MarkLeft(h) \/ SaveMeeting(h) \/ WipeConversation(h) \/ Reopen(h)
         \/ DeleteMeetingQuestions(h) \/ DropFeedback(h) \/ MarkError(h)
  PROVE  OrderInv'
<1>s. Steps(h)
  BY MeetingStepsSteps
<1>t. frame \in [Handlers -> Frame]
  BY DEF TypeOK
<1>c. meeting'.conv = meeting.conv
  <2>1. Advance(h)
    BY DEF Advance
  <2>2. ~Enter(h)
    BY DEF At, Enter, MarkLeft, SaveMeeting, WipeConversation, Reopen, DeleteMeetingQuestions,
       DropFeedback, MarkError
  <2>3. QED
    BY <2>1, <2>2, SameConversation
<1>p. frame[h].pc # "insert"
  BY DEF MarkLeft, SaveMeeting, WipeConversation, Reopen, DeleteMeetingQuestions, DropFeedback,
     MarkError, At
<1>n. NoInsert' => NoInsert
  BY <1>p, <1>s, NoInsertBack DEF Steps
<1>f. frame'[h].pc \notin CandidatePCs
  <2>1. Return(h) \/ \E pc \in {"reopen", "purge", "fail"} : Goto(h, pc)
    BY DEF MarkLeft, SaveMeeting, WipeConversation, Reopen, DeleteMeetingQuestions, DropFeedback,
       MarkError
  <2>2. frame'[h].pc \in {"idle", "reopen", "purge", "fail"}
    BY <1>t, <2>1, ReturnIs, GotoIs
  <2>3. QED
    BY <2>2 DEF CandidatePCs, TurnPCs
<1>1. KeepsRows /\ saves' = saves
  BY PurgeKeeps, StillKeeps DEF MarkLeft, SaveMeeting, WipeConversation, Reopen, DropFeedback,
     MarkError, pending
<1>2. SavesAsked'
  BY <1>1 DEF OrderInv, SavesAsked, KeepsRows
<1>3. TalksUsed' /\ CurrentSettled'
  <2>1. CASE WipeConversation(h)
    <3>1. updateConversation(frame[h].conv, <<>>)
      BY <2>1 DEF WipeConversation
    <3>2. Used(<<>>) /\ Settled(<<>>)
      BY NothingAsked DEF Used, Settled
    <3>3. \A k : updateConversation(k, <<>>) => TalksUsed' /\ CurrentSettled'
      BY <1>1, <1>c, <1>n, <3>2, TalkChanges
    <3>4. QED
      BY <3>1, <3>3
  <2>2. CASE ~WipeConversation(h)
    <3>1. conversations' = conversations
      BY <2>2 DEF MarkLeft, SaveMeeting, Reopen, DeleteMeetingQuestions, DropFeedback, MarkError
    <3>2. QED
      BY <1>1, <1>c, <1>n, <3>1, TalkStays
  <2>3. QED
    BY <2>1, <2>2
<1>4. QED
  BY <1>1, <1>2, <1>3, <1>f, <1>s, OrderQuits DEF Steps

LEMMA AddedUsed ==
  ASSUME NEW t \in Seq(Entry), Used(t), Settled(t), NEW role \in {"user", "assistant"}
  PROVE  /\ Used(addConversationEntry(t, role, 0)) /\ Settled(addConversationEntry(t, role, 0))
         /\ Asks(addConversationEntry(t, role, 0)) = Asks(t)
<1> DEFINE s == addConversationEntry(t, role, 0)
<1>1. Asks(s) = Asks(t) /\ (Falls(t) => Falls(s))
  BY AsksAdded
<1> HIDE DEF s
<1>2. Used(s) /\ Settled(s)
  BY <1>1 DEF Used, Settled
<1>3. QED
  BY <1>1, <1>2 DEF s

LEMMA FollowUpUsed ==
  ASSUME NEW t \in Seq(Entry), Used(t), Settled(t), NEW q \in Nat
  PROVE  Used(addFollowUp(t, q)) /\ Settled(addFollowUp(t, q))
<1> DEFINE s == addFollowUp(t, q)
           r == addConversationEntry(t, "assistant", 0)
<1>1. Used(r) /\ Settled(r)
  BY AddedUsed
<1>2. DOMAIN s = DOMAIN r /\ \A i \in DOMAIN s : s[i].asks = r[i].asks
  BY FollowUpAdded
<1> HIDE DEF s, r
<1>3. AskedAt(s) = AskedAt(r) /\ \A i \in AskedAt(s) : s[i].asks = r[i].asks
  BY <1>2 DEF AskedAt
<1>4. Asks(s) = Asks(r) /\ (Falls(r) => Falls(s))
  BY <1>3 DEF Asks, Falls
<1>5. QED
  BY <1>1, <1>4 DEF Used, Settled, s

LEMMA AskedUsed ==
  ASSUME TypeOK, NEW t \in Seq(Entry), Used(t), Settled(t), NEW q \in DOMAIN questions, Taken(q),
         \A p \in Asks(t) : p > q
  PROVE  /\ Used(addConversationEntry(t, "assistant", q))
         /\ Settled(addConversationEntry(t, "assistant", q))
<1> DEFINE s == addConversationEntry(t, "assistant", q)
<1>1. q \in Nat /\ q # 0
  BY DEF TypeOK
<1>2. Asks(s) = Asks(t) \cup {q} /\ Falls(s)
  BY <1>1, AsksAdded DEF Used
<1> HIDE DEF s
<1>3. Used(s) /\ Settled(s)
  BY <1>2 DEF Used, Settled
<1>4. QED
  BY <1>3 DEF s

LEMMA OrderMoves ==
  ASSUME TypeOK, TypeOK', OrderInv, GrowInv, KeepsRows, SavesAsked', NEW h \in Handlers,
         Steps(h), frame[h].pc \in TurnPCs, TalksUsed' /\ CurrentSettled', Ordered(frame[h])'
  PROVE  OrderInv'
<1>1. frame[h].pc \in CandidatePCs /\ Alone
  BY DEF CandidatePCs, GrowInv
<1>2. QED
  BY <1>1, OneOrdered, RowsKept DEF OrderInv, Steps

(* What a turn that does not end finds in its frame, and what it may leave.  *)
LEMMA TurnFrame ==
  ASSUME TypeOK, OrderInv, NEW h \in Handlers, frame[h].pc \in TurnPCs
  PROVE  /\ frame \in [Handlers -> Frame] /\ frame[h] \in Frame
         /\ frame[h].talk \in Seq(Entry) /\ frame[h].conv \in Nat /\ frame[h].save.row \in Nat
         /\ Used(frame[h].talk) /\ Settled(frame[h].talk)
         /\ frame[h].pc \notin {"open", "ask"} => saves = <<>>
         /\ frame[h].pc # "insert"
<1>1. /\ frame \in [Handlers -> Frame] /\ frame[h] \in Frame
      /\ frame[h].talk \in Seq(Entry) /\ frame[h].conv \in Nat /\ frame[h].save.row \in Nat
  BY DEF TypeOK, Frame, Save
<1>2. Ordered(frame[h]) /\ frame[h].pc \in CandidatePCs /\ frame[h].pc # "insert"
  BY DEF OrderInv, CandidatePCs, TurnPCs
<1>3. QED
  BY <1>1, <1>2 DEF Ordered

LEMMA OrderedMove ==
  ASSUME NEW h \in Handlers, NEW u, KeepsRows, saves' = <<>>, Used(u), Settled(u),
         frame'[h].talk = u, frame'[h].pc \in TurnPCs \ {"open", "ask", "followup", "count"}
  PROVE  Ordered(frame[h])'
<1>1. Used(u)' /\ Settled(u)'
  BY TalkKept
<1>2. Used(frame[h].talk)' /\ Settled(frame[h].talk)'
  BY <1>1 DEF Used, Settled
<1>3. "insert" \notin TurnPCs
  BY DEF TurnPCs
<1>4. QED
  BY <1>2, <1>3 DEF Ordered

(* Turns that end. *)
LEMMA OrderEnds ==
  ASSUME TypeOK, TypeOK', OrderInv, GrowInv, NEW h \in Handlers,
         \/ sendGreetingMessage(h) \/ GiveUp(h) \/ CountFollowUp(h) \/ AskQuestion(h)
         \/ StoreTalkAgain(h)
  PROVE  OrderInv'
<1>s. Steps(h) /\ frame[h].pc \in TurnPCs
  BY TurnStepsSteps
<1>t. /\ frame \in [Handlers -> Frame] /\ frame[h].talk \in Seq(Entry)
      /\ Used(frame[h].talk) /\ Settled(frame[h].talk) /\ frame[h].pc # "insert"
  BY <1>s, TurnFrame
<1>n. NoInsert' => NoInsert
  BY <1>s, <1>t, NoInsertBack DEF Steps
<1>c. meeting'.conv = meeting.conv
  BY DEF sendGreetingMessage, GiveUp, CountFollowUp, AskQuestion, StoreTalkAgain, store
<1>f. frame'[h].pc \notin CandidatePCs
  <2>1. Return(h)
    BY DEF sendGreetingMessage, GiveUp, CountFollowUp, AskQuestion, StoreTalkAgain
  <2>2. frame'[h].pc = "idle"
    BY <1>t, <2>1, ReturnIs
  <2>3. QED
    BY <2>2 DEF CandidatePCs, TurnPCs
<1>1. KeepsRows /\ saves' = saves
  BY CountKeeps, StillKeeps
  DEF sendGreetingMessage, GiveUp, CountFollowUp, AskQuestion, StoreTalkAgain, pending, store
<1>2. SavesAsked'
  BY <1>1 DEF OrderInv, SavesAsked, KeepsRows
<1>w. ASSUME NEW u, updateConversation(frame[h].conv, u), Used(u), Settled(u)
      PROVE  TalksUsed' /\ CurrentSettled'
  <2>1. \A k : updateConversation(k, u) => TalksUsed' /\ CurrentSettled'
    BY <1>1, <1>c, <1>n, <1>w, TalkChanges
  <2>2. QED
    BY <1>w, <2>1
<1>3. TalksUsed' /\ CurrentSettled'
  <2>1. CASE sendGreetingMessage(h) \/ StoreTalkAgain(h)
    <3>1. PICK u : /\ updateConversation(frame[h].conv, u)
                   /\ u \in {frame[h].talk, addConversationEntry(frame[h].talk, "assistant", 0)}
      BY <2>1 DEF sendGreetingMessage, StoreTalkAgain
    <3>2. Used(u) /\ Settled(u)
      BY <1>t, <3>1, AddedUsed
    <3>3. QED
      BY <1>w, <3>1, <3>2
  <2>2. CASE AskQuestion(h)
    <3>1. PICK u : /\ updateConversation(frame[h].conv, u)
                   /\ u = addConversationEntry(frame[h].talk, "assistant", frame[h].save.row)
      BY <2>2 DEF AskQuestion
    <3>2. /\ frame[h].save.row \in DOMAIN questions /\ Taken(frame[h].save.row)
          /\ \A q \in Asks(frame[h].talk) : q > frame[h].save.row
      BY <2>2 DEF AskQuestion, OrderInv, Ordered
    <3>3. Used(u) /\ Settled(u)
      BY <1>t, <3>1, <3>2, AskedUsed
    <3>4. QED
      BY <1>w, <3>1, <3>3
  <2>3. CASE GiveUp(h) \/ CountFollowUp(h)
    <3>1. conversations' = conversations
      BY <2>3 DEF GiveUp, CountFollowUp, store
    <3>2. QED
      BY <1>1, <1>c, <1>n, <3>1, TalkStays
  <2>4. QED
    BY <2>1, <2>2, <2>3
<1>4. QED
  BY <1>1, <1>2, <1>3, <1>f, <1>s, OrderQuits DEF Steps

LEMMA OrderHear ==
  ASSUME TypeOK, TypeOK', OrderInv, GrowInv, NEW h \in Handlers, Hear(h)
  PROVE  OrderInv'
<1>s. Steps(h) /\ frame[h].pc = "listen" /\ "listen" \in TurnPCs
  BY TurnStepsSteps DEF Hear, At, TurnPCs
<1>t. /\ frame \in [Handlers -> Frame] /\ frame[h].talk \in Seq(Entry)
      /\ Used(frame[h].talk) /\ Settled(frame[h].talk) /\ saves = <<>>
  BY <1>s, TurnFrame
<1>u. PICK u : u = addConversationEntry(frame[h].talk, "user", 0)
  OBVIOUS
<1>1. /\ UNCHANGED <<questions, saves, conversations, meeting>>
      /\ frame'[h].talk = u /\ frame'[h].pc \in {"first", "next", "last"}
  <2> DEFINE heard == [frame[h] EXCEPT !.talk = u]
  <2>1. \/ frame' = [frame EXCEPT ![h] = [heard EXCEPT !.pc = "first"]]
        \/ frame' = [frame EXCEPT ![h] = [heard EXCEPT !.pc = "next", !.skip = TRUE]]
        \/ frame' = [frame EXCEPT ![h] = [heard EXCEPT !.pc = "last"]]
    BY <1>u DEF Hear
  <2>2. frame'[h].talk = u /\ frame'[h].pc \in {"first", "next", "last"}
    BY <1>t, <2>1 DEF Frame
  <2>3. QED
    BY <2>2 DEF Hear, store, pending
<1>2. Used(u) /\ Settled(u)
  BY <1>t, <1>u, AddedUsed
<1>3. KeepsRows /\ SavesAsked'
  BY <1>1, StillKeeps DEF OrderInv, SavesAsked
<1>4. frame'[h].pc \in TurnPCs \ {"open", "ask", "followup", "count"}
  BY <1>1 DEF TurnPCs
<1>5. Ordered(frame[h])'
  BY <1>1, <1>2, <1>3, <1>4, <1>t, OrderedMove
<1>6. TalksUsed' /\ CurrentSettled'
  <2>1. NoInsert' => NoInsert
    BY <1>s, NoInsertBack DEF Steps
  <2>2. QED
    BY <1>1, <1>3, <2>1, TalkStays
<1>7. QED
  BY <1>3, <1>5, <1>6, <1>s, OrderMoves

(* The saves of earlier turns have landed, so the row of the last question   *)
(* does not read `pending` unless it has left the meeting.                   *)
LEMMA OrderReview ==
  ASSUME TypeOK, TypeOK', OrderInv, GrowInv, NEW h \in Handlers, ReviewAnswer(h)
  PROVE  OrderInv'
<1>s. Steps(h) /\ frame[h].pc = "last" /\ "last" \in TurnPCs
  BY TurnStepsSteps DEF ReviewAnswer, At, TurnPCs
<1>t. /\ frame \in [Handlers -> Frame] /\ frame[h] \in Frame /\ frame[h].talk \in Seq(Entry)
      /\ Used(frame[h].talk) /\ Settled(frame[h].talk) /\ saves = <<>>
  BY <1>s, TurnFrame
<1>u. PICK u : u = frame[h].talk
  OBVIOUS
<1>1. UNCHANGED <<questions, saves, conversations, meeting>>
  BY DEF ReviewAnswer, store, pending
<1>2. PICK i \in DOMAIN frame[h].talk :
        LET last == frame[h].talk[i].asks
            row == questions[last]
        IN /\ LastAsked(frame[h].talk, i)
           /\ Stored(last)
           /\ \/ /\ row.followups < 1
                 /\ frame' = [frame EXCEPT
                      ![h].pc = "followup",
                      ![h].save = [row |-> last, status |-> row.status,
                                   followups |-> row.followups + 1]]
              \/ Goto(h, "next")
  BY DEF ReviewAnswer
<1>3. KeepsRows /\ SavesAsked'
  BY <1>1, StillKeeps DEF OrderInv, SavesAsked
<1>4. TalksUsed' /\ CurrentSettled'
  <2>1. NoInsert' => NoInsert
    BY <1>s, NoInsertBack DEF Steps
  <2>2. QED
    BY <1>1, <1>3, <2>1, TalkStays
<1>5. Ordered(frame[h])'
  <2>1. CASE Goto(h, "next")
    <3>1. frame'[h].talk = u /\ frame'[h].pc = "next"
      BY <1>t, <1>u, <2>1, GotoIs
    <3>2. frame'[h].pc \in TurnPCs \ {"open", "ask", "followup", "count"}
      BY <3>1 DEF TurnPCs
    <3>3. QED
      BY <1>1, <1>3, <1>t, <1>u, <3>1, <3>2, OrderedMove
  <2>2. CASE ~Goto(h, "next")
    <3>1. PICK q : q = frame[h].talk[i].asks
      OBVIOUS
    <3>2. /\ frame'[h].pc = "followup" /\ frame'[h].talk = u
          /\ frame'[h].save.row = q /\ frame'[h].save.status = questions[q].status
      BY <1>t, <1>u, <1>2, <2>2, <3>1 DEF Frame
    <3>3. q \in Asks(frame[h].talk) /\ q \in DOMAIN questions
      BY <1>2, <3>1 DEF Asks, LastAsked, Stored
    <3>4. Marked(q)
      <4>1. q >= q
        BY <3>3 DEF TypeOK
      <4>2. QED
        BY <1>t, <3>3, <4>1 DEF Settled, Taken
    <3>5. questions[q].status = "asked" \/ questions[q].of # "meeting"
      <4>1. q \notin PendingQuestions
        BY <1>t, <3>4 DEF Marked
      <4>2. questions[q] \in Row
        BY <3>3 DEF TypeOK
      <4>3. QED
        BY <3>3, <4>1, <4>2 DEF PendingQuestions, Row
    <3>6. Used(u)' /\ Settled(u)'
      BY <1>3, <1>t, <1>u, TalkKept
    <3>7. Used(frame[h].talk)' /\ Settled(frame[h].talk)'
      BY <3>2, <3>6 DEF Used, Settled
    <3>8. QED
      BY <1>1, <1>t, <3>2, <3>3, <3>5, <3>7 DEF Ordered
  <2>3. QED
    BY <2>1, <2>2
<1>6. QED
  BY <1>3, <1>4, <1>5, <1>s, OrderMoves

(* A reply that asks nothing: a follow-up, or the goodbye. *)
LEMMA OrderReply ==
  ASSUME TypeOK, TypeOK', OrderInv, GrowInv, NEW h \in Handlers, AskFollowUp(h) \/ SayGoodbye(h)
  PROVE  OrderInv'
<1>s. Steps(h) /\ frame[h].pc \in TurnPCs /\ frame[h].pc \in {"followup", "bye"}
  BY TurnStepsSteps DEF AskFollowUp, SayGoodbye, At
<1>t. /\ frame \in [Handlers -> Frame] /\ frame[h] \in Frame /\ frame[h].talk \in Seq(Entry)
      /\ Used(frame[h].talk) /\ Settled(frame[h].talk) /\ saves = <<>>
      /\ frame[h].save.row \in Nat
  BY <1>s, TurnFrame
<1>u. PICK u : u = IF AskFollowUp(h) THEN addFollowUp(frame[h].talk, frame[h].save.row)
                   ELSE addConversationEntry(frame[h].talk, "assistant", 0)
  OBVIOUS
<1>1. /\ UNCHANGED <<questions, saves, meeting>>
      /\ updateConversation(frame[h].conv, u)
  BY <1>u DEF AskFollowUp, SayGoodbye, pending
<1>2. Used(u) /\ Settled(u)
  BY <1>t, <1>u, AddedUsed, FollowUpUsed
<1>3. KeepsRows /\ SavesAsked'
  BY <1>1, StillKeeps DEF OrderInv, SavesAsked
<1>4. TalksUsed' /\ CurrentSettled'
  <2>1. NoInsert' => NoInsert
    BY <1>s, NoInsertBack DEF Steps
  <2>2. \A k : updateConversation(k, u) => TalksUsed' /\ CurrentSettled'
    BY <1>1, <1>2, <1>3, <2>1, TalkChanges
  <2>3. QED
    BY <1>1, <2>2
<1>5. Ordered(frame[h])'
  <2>1. CASE SayGoodbye(h)
    <3>1. frame' = [frame EXCEPT ![h].pc = "end", ![h].talk = u]
      BY <1>u, <2>1 DEF SayGoodbye, AskFollowUp, At
    <3>2. frame'[h].talk = u /\ frame'[h].pc = "end"
      BY <1>t, <3>1 DEF Frame
    <3>3. frame'[h].pc \in TurnPCs \ {"open", "ask", "followup", "count"}
      BY <3>2 DEF TurnPCs
    <3>4. QED
      BY <1>1, <1>2, <1>3, <1>t, <3>2, <3>3, OrderedMove
  <2>2. CASE AskFollowUp(h)
    <3>1. /\ frame[h].pc = "followup" /\ frame'[h].pc = "count"
          /\ frame'[h].talk = frame[h].talk /\ frame'[h].save = frame[h].save
      BY <1>t, <2>2, GotoIs DEF AskFollowUp, At
    <3>2. /\ frame[h].save.row \in DOMAIN questions
          /\ frame[h].save.status = "asked" \/ questions[frame[h].save.row].of # "meeting"
      BY <3>1 DEF OrderInv, Ordered
    <3>3. PICK v : v = frame[h].talk
      OBVIOUS
    <3>4. Used(v)' /\ Settled(v)'
      BY <1>3, <1>t, <3>3, TalkKept
    <3>5. Used(frame[h].talk)' /\ Settled(frame[h].talk)'
      BY <3>1, <3>3, <3>4 DEF Used, Settled
    <3>6. QED
      BY <1>1, <1>t, <3>1, <3>2, <3>5 DEF Ordered
  <2>3. QED
    BY <2>1, <2>2
<1>6. QED
  BY <1>3, <1>4, <1>5, <1>s, OrderMoves

(* The ending, once the goodbye is said. *)
LEMMA OrderEnding ==
  ASSUME TypeOK, TypeOK', OrderInv, GrowInv, NEW h \in Handlers, CreateFeedback(h) \/ Complete(h)
  PROVE  OrderInv'
<1>s. Steps(h) /\ frame[h].pc \in TurnPCs /\ frame[h].pc \in {"end", "complete"}
  BY TurnStepsSteps DEF CreateFeedback, Complete, At
<1>t. /\ frame \in [Handlers -> Frame] /\ frame[h] \in Frame /\ frame[h].talk \in Seq(Entry)
      /\ Used(frame[h].talk) /\ Settled(frame[h].talk) /\ saves = <<>>
  BY <1>s, TurnFrame
<1>1. UNCHANGED <<questions, saves, conversations>> /\ meeting'.conv = meeting.conv
  BY StatusOnly DEF CreateFeedback, Complete, pending
<1>3. KeepsRows /\ SavesAsked'
  BY <1>1, StillKeeps DEF OrderInv, SavesAsked
<1>4. TalksUsed' /\ CurrentSettled'
  <2>1. NoInsert' => NoInsert
    BY <1>s, NoInsertBack DEF Steps
  <2>2. QED
    BY <1>1, <1>3, <2>1, TalkStays
<1>5. CASE Return(h)
  <2>1. frame'[h].pc = "idle"
    BY <1>t, <1>5, ReturnIs
  <2>2. frame'[h].pc \notin CandidatePCs
    BY <2>1 DEF CandidatePCs, TurnPCs
  <2>3. QED
    BY <1>1, <1>3, <1>4, <1>s, <2>2, OrderQuits DEF Steps
<1>6. CASE ~Return(h)
  <2>1. /\ frame'[h].pc \in {"complete", "rewrite"}
        /\ frame'[h].talk = frame[h].talk
    <3>1. CASE CreateFeedback(h)
      <4>1. frame' = [frame EXCEPT ![h].pc = "complete", ![h].feedback = feedbacks + 1]
        BY <1>6, <3>1 DEF CreateFeedback
      <4>2. QED
        BY <1>t, <4>1 DEF Frame
    <3>2. CASE Complete(h)
      <4>1. Goto(h, "rewrite")
        BY <1>6, <3>2 DEF Complete
      <4>2. QED
        BY <1>t, <4>1, GotoIs
    <3>3. QED
      BY <3>1, <3>2
  <2>2. frame'[h].pc \in TurnPCs \ {"open", "ask", "followup", "count"}
    BY <2>1 DEF TurnPCs
  <2>3. PICK u : u = frame[h].talk
    OBVIOUS
  <2>4. Ordered(frame[h])'
    BY <1>1, <1>3, <1>t, <2>1, <2>2, <2>3, OrderedMove
  <2>5. QED
    BY <1>3, <1>4, <1>s, <2>4, OrderMoves
<1>7. QED
  BY <1>5, <1>6

(* The question on top is below all that was asked before. *)
LEMMA OrderRetrieve ==
  ASSUME TypeOK, TypeOK', OrderInv, GrowInv, NEW h \in Handlers, RetrieveQuestion(h)
  PROVE  OrderInv'
<1>s. Steps(h) /\ frame[h].pc \in TurnPCs /\ frame[h].pc \in {"first", "next"}
  BY TurnStepsSteps DEF RetrieveQuestion, At
<1>t. /\ frame \in [Handlers -> Frame] /\ frame[h] \in Frame /\ frame[h].talk \in Seq(Entry)
      /\ Used(frame[h].talk) /\ Settled(frame[h].talk) /\ saves = <<>>
  BY <1>s, TurnFrame
<1>1. UNCHANGED <<questions, conversations, meeting>>
  BY DEF RetrieveQuestion, store
<1>n. NoInsert' => NoInsert
  BY <1>s, NoInsertBack DEF Steps
<1>u. PICK u : u = frame[h].talk
  OBVIOUS
<1>2. CASE saves' = saves /\ (Return(h) \/ Goto(h, "bye"))
  <2>1. KeepsRows /\ SavesAsked'
    BY <1>1, <1>2, StillKeeps DEF OrderInv, SavesAsked
  <2>2. TalksUsed' /\ CurrentSettled'
    BY <1>1, <1>n, <2>1, TalkStays
  <2>3. CASE Return(h)
    <3>1. frame'[h].pc = "idle"
      BY <1>t, <2>3, ReturnIs
    <3>2. frame'[h].pc \notin CandidatePCs
      BY <3>1 DEF CandidatePCs, TurnPCs
    <3>3. QED
      BY <1>2, <1>s, <2>1, <2>2, <3>2, OrderQuits DEF Steps
  <2>4. CASE Goto(h, "bye")
    <3>1. frame'[h].talk = u /\ frame'[h].pc = "bye"
      BY <1>t, <1>u, <2>4, GotoIs
    <3>2. frame'[h].pc \in TurnPCs \ {"open", "ask", "followup", "count"}
      BY <3>1 DEF TurnPCs
    <3>3. Ordered(frame[h])'
      BY <1>2, <1>t, <1>u, <2>1, <3>1, <3>2, OrderedMove
    <3>4. QED
      BY <1>s, <2>1, <2>2, <3>3, OrderMoves
  <2>5. QED
    BY <1>2, <2>3, <2>4
<1>3. ASSUME NEW pc \in {"open", "ask"}, internalRetrieveQuestion(h, pc)
      PROVE  OrderInv'
  <2>1. PICK q \in PendingQuestions :
          LET save == [row |-> q, status |-> "asked", followups |-> questions[q].followups]
          IN /\ InTop(q)
             /\ saves' = Append(saves, save)
             /\ frame' = [frame EXCEPT ![h].pc = pc, ![h].save = save]
    BY <1>3 DEF internalRetrieveQuestion
  <2> DEFINE save == [row |-> q, status |-> "asked", followups |-> questions[q].followups]
  <2>2. saves' = <<save>> /\ save.row = q /\ save.status = "asked"
    BY <1>t, <2>1
  <2>3. frame' = [frame EXCEPT ![h].pc = pc, ![h].save = save]
    BY <2>1
  <2> HIDE DEF save
  <2>4. frame'[h].pc = pc /\ frame'[h].talk = u /\ frame'[h].save.row = q
    BY <1>t, <1>u, <2>2, <2>3 DEF Frame
  <2>5. q \in DOMAIN questions /\ DOMAIN saves' = {1} /\ saves'[1] = save
    <3>1. q \in DOMAIN questions
      BY <2>1 DEF PendingQuestions
    <3>2. DOMAIN saves' = 1..1 /\ saves'[1] = save
      BY <2>2
    <3>3. QED
      BY <3>1, <3>2
  <2>6. \A a \in DOMAIN questions : Marked(a) => Marked(a)'
    BY <1>1, <1>t DEF Marked, PendingQuestions
  <2>7. KeepsRows
    BY <1>1, <2>6 DEF KeepsRows
  <2>8. SavesAsked'
    BY <1>1, <2>2, <2>5 DEF SavesAsked
  <2>9. TalksUsed' /\ CurrentSettled'
    BY <1>1, <1>n, <2>7, TalkStays
  <2>10. Taken(q)'
    <3>1. ASSUME NEW a \in DOMAIN questions, a >= q
          PROVE  Marked(a)'
      <4>1. CASE a = q
        BY <2>2, <2>5, <4>1 DEF Marked
      <4>2. CASE a # q
        <5>1. a \notin PendingQuestions
          BY <2>1, <2>5, <3>1, <4>2 DEF InTop, TypeOK
        <5>2. QED
          BY <1>1, <5>1 DEF Marked, PendingQuestions
      <4>3. QED
        BY <4>1, <4>2
    <3>2. QED
      BY <1>1, <3>1 DEF Taken
  <2>11. \A p \in Asks(u) : p > q
    <3>1. ~Marked(q)
      BY <1>t, <2>1 DEF Marked
    <3>2. ASSUME NEW p \in Asks(u)
          PROVE  p > q
      <4>1. p \in DOMAIN questions /\ Taken(p)
        BY <1>t, <1>u DEF Used, Settled
      <4>2. ~(q >= p)
        BY <2>5, <3>1, <4>1 DEF Taken
      <4>3. QED
        BY <2>5, <4>1, <4>2 DEF TypeOK
    <3>3. QED
      BY <3>2
  <2>12. Used(u)' /\ Settled(u)'
    BY <1>t, <1>u, <2>7, TalkKept
  <2>13. Used(frame[h].talk)' /\ Settled(frame[h].talk)'
    BY <2>4, <2>12 DEF Used, Settled
  <2>14. /\ frame'[h].save.row \in DOMAIN questions' /\ Taken(frame[h].save.row)'
         /\ \A p \in Asks(frame'[h].talk) : p > frame'[h].save.row
    BY <1>1, <2>4, <2>5, <2>10, <2>11 DEF Taken
  <2>15. pc \notin {"insert", "followup", "count"}
    BY <1>3
  <2>16. Ordered(frame[h])'
    BY <1>3, <2>4, <2>13, <2>14, <2>15 DEF Ordered
  <2>17. QED
    BY <1>s, <2>7, <2>8, <2>9, <2>16, OrderMoves
<1>4. QED
  BY <1>2, <1>3 DEF RetrieveQuestion, pending

LEMMA OrderNext ==
  Paced /\ TypeOK /\ TypeOK' /\ GrowInv /\ OrderInv /\ [Next]_vars /\ ~Crash => OrderInv'
<1> SUFFICES ASSUME Paced, TypeOK, TypeOK', GrowInv, OrderInv, [Next]_vars, ~Crash
             PROVE  OrderInv'
  OBVIOUS
<1>1. ASSUME NEW h \in Handlers, Request(h)
      PROVE  OrderInv'
  BY <1>1, OrderRequest
<1>2. ASSUME NEW h \in Handlers, Advance(h)
      PROVE  OrderInv'
  BY <1>2, OrderInsert, OrderEnter, OrderMeeting, OrderEnds, OrderHear, OrderReview, OrderReply,
     OrderEnding, OrderRetrieve DEF Advance
<1>3. CASE LandSave
  <2>1. KeepsRows /\ SavesAsked' /\ saves # <<>>
    BY <1>3, LandKeeps DEF OrderInv
  <2>2. UNCHANGED <<frame, conversations, meeting>>
    BY <1>3 DEF LandSave
  <2>3. TalksUsed' /\ CurrentSettled'
    <3>1. NoInsert' => NoInsert
      BY <2>2 DEF NoInsert
    <3>2. QED
      BY <2>1, <2>2, <3>1, TalkStays
  <2>4. ASSUME NEW g \in Handlers
        PROVE  Ordered(frame[g])'
    <3>1. PICK f : f = frame[g]
      OBVIOUS
    <3>2. Ordered(f)'
      BY <2>1, <3>1, OrderedKept, InsertKept DEF OrderInv
    <3>3. QED
      BY <2>2, <3>1, <3>2 DEF Ordered
  <2>5. QED
    BY <2>1, <2>3, <2>4, RowsKept DEF OrderInv
<1>4. CASE sendToQueue \/ UNCHANGED vars
  <2>1. UNCHANGED <<frame, conversations, meeting, questions, saves>>
    BY <1>4 DEF sendToQueue, vars, store, pending
  <2>2. KeepsRows /\ SavesAsked'
    BY <2>1, StillKeeps DEF OrderInv, SavesAsked
  <2>3. TalksUsed' /\ CurrentSettled'
    <3>1. NoInsert' => NoInsert
      BY <2>1 DEF NoInsert
    <3>2. QED
      BY <2>1, <2>2, <3>1, TalkStays
  <2>4. ASSUME NEW g \in Handlers
        PROVE  Ordered(frame[g])'
    <3>1. PICK f : f = frame[g]
      OBVIOUS
    <3>2. Ordered(f)'
      BY <2>1, <2>2, <3>1, OrderedKept, InsertKept DEF OrderInv
    <3>3. QED
      BY <2>1, <3>1, <3>2 DEF Ordered
  <2>5. QED
    BY <2>2, <2>3, <2>4, RowsKept DEF OrderInv
<1>5. QED
  BY <1>1, <1>2, <1>3, <1>4 DEF Next

LEMMA OrderInit == Init => OrderInv
<1> SUFFICES ASSUME Init PROVE OrderInv
  OBVIOUS
<1>1. /\ questions = <<>> /\ conversations = <<>> /\ saves = <<>> /\ meeting.conv = 0
      /\ \A h \in Handlers : frame[h].pc = "idle"
  BY DEF Init, Idle
<1>2. "idle" \notin CandidatePCs /\ "idle" \notin TurnPCs
  BY DEF CandidatePCs, TurnPCs
<1>3. QED
  BY <1>1, <1>2 DEF OrderInv, RowsInOrder, SavesAsked, TalksUsed, CurrentSettled, Ordered

(* A crash is counted, so where none is counted none came before. *)
Uncrashed == calls["crash"] = 0

LEMMA CrashCounted == TypeOK /\ [Next]_vars /\ Uncrashed' => Uncrashed /\ ~Crash
<1> SUFFICES ASSUME TypeOK, [Next]_vars, Uncrashed'
             PROVE  Uncrashed /\ ~Crash
  OBVIOUS
<1>1. calls["crash"] \in Nat
  BY DEF TypeOK, Operations
<1>2. ASSUME NEW op \in Operations, Call(op)
      PROVE  op # "crash" /\ calls'["crash"] = calls["crash"]
  BY <1>1, <1>2 DEF Uncrashed, TypeOK, Call, Operations
<1>3. ~Crash
  BY <1>2 DEF Crash, Operations
<1>4. calls'["crash"] = calls["crash"]
  <2>1. CASE \E h \in Handlers : Request(h)
    BY <1>2, <2>1 DEF Request, Join, Leave, SubmitAnswer, EndRecording, ResendEmail, Recreate,
       CleanUp, Operations
  <2>2. CASE calls' = calls
    BY <2>2
  <2>3. QED
    BY <1>3, <2>1, <2>2 DEF Next, Advance, InsertMeetingQuestion, Enter, MarkLeft, SaveMeeting,
       WipeConversation, Reopen, DeleteMeetingQuestions, DropFeedback, MarkError,
       sendGreetingMessage, Hear, GiveUp, ReviewAnswer, AskFollowUp, CountFollowUp,
       RetrieveQuestion, AskQuestion, SayGoodbye, CreateFeedback, Complete, StoreTalkAgain,
       LandSave, sendToQueue, vars
<1>5. QED
  BY <1>3, <1>4 DEF Uncrashed

(* When the client waits for each reply, the questions of a conversation     *)
(* come in the recruiter's order, none twice, however often the candidate    *)
(* leaves and rejoins and whatever the recruiter and the cron job do in      *)
(* between.  Only a crash may take a question back, with the save nobody     *)
(* awaited.                                                                  *)
THEOREM QuestionsInOrder ==
  ASSUME Paced
  PROVE  Spec => [](calls["crash"] = 0 => AskedInOrder)
<1>1. Init => TypeOK /\ GrowInv /\ (Uncrashed => OrderInv)
  BY TypeInit, GrowInit, OrderInit
<1>2. TypeOK /\ GrowInv /\ (Uncrashed => OrderInv) /\ [Next]_vars =>
        (TypeOK /\ GrowInv /\ (Uncrashed => OrderInv))'
  BY TypeNext, GrowNext, CrashCounted, OrderNext
<1>3. TypeOK /\ (Uncrashed => OrderInv) => (calls["crash"] = 0 => AskedInOrder)
  BY OrderSuffices DEF Uncrashed
<1>4. QED
  BY <1>1, <1>2, <1>3, PTL DEF Spec

-----------------------------------------------------------------------------
(* No second follow-up *)

(* A row is counted when its counter says it was followed up; a talk is noted *)
(* when it follows up no question twice, and none that is not counted.       *)
Counted(q) == q \in DOMAIN questions /\ questions[q].followups >= 1
Probed(talk) == {talk[i].follows : i \in FollowsAt(talk)}
Once(talk) == \A i, j \in FollowsAt(talk) : talk[i].follows = talk[j].follows => i = j
Noted(talk) == Once(talk) /\ \A q \in Probed(talk) : Counted(q)

(* Between the reply and its count one stored follow-up is not counted yet.  *)
ToCount(q) == \E h \in Handlers : At(h, "count") /\ frame[h].save.row = q
Pursued(talk) == Once(talk) /\ \A q \in Probed(talk) : Counted(q) \/ ToCount(q)

SavesCount == \A i \in DOMAIN saves : questions[saves[i].row].followups = saves[i].followups

Followed(f) ==
  /\ f.pc \in TurnPCs \ {"count"} => Noted(f.talk)
  /\ f.pc \in {"followup", "count"} => f.save.followups >= 1
  /\ f.pc = "followup" => f.save.row \notin Probed(f.talk)

FollowInv ==
  /\ SavesCount
  /\ \A c \in DOMAIN conversations : Pursued(conversations[c])
  /\ \A h \in Handlers : Followed(frame[h])

(* No count is taken back. *)
KeepsCounts == \A q \in DOMAIN questions : Counted(q) => Counted(q)'

LEMMA RemarkFollows ==
  ASSUME NEW talk \in Seq(Entry), NEW role \in {"user", "assistant"}, NEW q \in Nat
  PROVE  LET s == addConversationEntry(talk, role, q)
         IN Noted(talk) => Noted(s)
<1> DEFINE s == addConversationEntry(talk, role, q)
<1>0. Len(talk) \in Nat /\ DOMAIN talk = 1..Len(talk)
  OBVIOUS
<1>1. /\ Len(talk) \in Nat /\ DOMAIN talk = 1..Len(talk)
      /\ DOMAIN s = DOMAIN talk \cup {Len(talk) + 1}
      /\ \A i \in DOMAIN talk : s[i] = talk[i]
  BY <1>0, EntryAppended
<1>2. s[Len(talk) + 1].follows = 0
  BY DEF addConversationEntry
<1> HIDE DEF s
<1>3. FollowsAt(s) = FollowsAt(talk) /\ \A i \in FollowsAt(talk) : s[i] = talk[i]
  BY <1>1, <1>2 DEF FollowsAt
<1>4. Once(talk) => Once(s)
  BY <1>3 DEF Once
<1>5. Probed(s) = Probed(talk)
  BY <1>3 DEF Probed
<1>6. QED
  BY <1>4, <1>5 DEF Noted, s

LEMMA FollowUpFollows ==
  ASSUME NEW talk \in Seq(Entry), NEW q \in Nat, Once(talk), q \notin Probed(talk)
  PROVE  LET s == addFollowUp(talk, q)
         IN Once(s) /\ Probed(s) \subseteq Probed(talk) \cup {q}
<1> DEFINE s == addFollowUp(talk, q)
           e == [role |-> "assistant", asks |-> 0, follows |-> q]
<1>1. s = Append(talk, e) /\ e.follows = q
  BY DEF addFollowUp
<1> HIDE DEF s, e
<1>2. /\ Len(talk) \in Nat /\ DOMAIN talk = 1..Len(talk)
      /\ DOMAIN s = DOMAIN talk \cup {Len(talk) + 1}
      /\ \A i \in DOMAIN talk : s[i] = talk[i]
      /\ s[Len(talk) + 1].follows = q
  BY <1>1
<1>3. /\ FollowsAt(s) \subseteq FollowsAt(talk) \cup {Len(talk) + 1}
      /\ \A i \in FollowsAt(talk) : s[i] = talk[i]
  BY <1>2 DEF FollowsAt
<1>4. ASSUME NEW i \in FollowsAt(s), NEW j \in FollowsAt(s), s[i].follows = s[j].follows
      PROVE  i = j
  <2>1. CASE i \in FollowsAt(talk) /\ j \in FollowsAt(talk)
    BY <1>3, <1>4, <2>1 DEF Once
  <2>2. CASE i \in FollowsAt(talk) /\ j = Len(talk) + 1
    BY <1>2, <1>3, <1>4, <2>2 DEF Probed
  <2>3. CASE j \in FollowsAt(talk) /\ i = Len(talk) + 1
    BY <1>2, <1>3, <1>4, <2>3 DEF Probed
  <2>4. QED
    BY <1>3, <2>1, <2>2, <2>3
<1>5. Probed(s) \subseteq Probed(talk) \cup {q}
  BY <1>2, <1>3 DEF Probed
<1>6. QED
  BY <1>4, <1>5 DEF Once, s

LEMMA NothingFollowed == Noted(<<>>) /\ Noted(<<>>)'
BY DEF Noted, Once, Probed, FollowsAt

LEMMA NotedKept ==
  ASSUME KeepsCounts, NEW talk, Noted(talk)
  PROVE  Noted(talk)' /\ Pursued(talk)'
<1>1. \A q \in Probed(talk) : Counted(q)'
  BY DEF Noted, KeepsCounts, Counted
<1>2. QED
  BY <1>1 DEF Noted, Pursued, Once, Probed

LEMMA FollowedKept ==
  ASSUME KeepsCounts, NEW f, Followed(f)
  PROVE  Followed(f)'
<1>1. Noted(f.talk) => Noted(f.talk)'
  BY NotedKept
<1>2. QED
  BY <1>1 DEF Followed

LEMMA NotTurnFollowed ==
  ASSUME NEW h \in Handlers, frame'[h].pc \notin TurnPCs
  PROVE  Followed(frame[h])'
BY DEF Followed, TurnPCs

(* What is left of a step of one handler: its own frame, and the talk it     *)
(* stores.                                                                   *)
LEMMA FollowStep ==
  ASSUME FollowInv, KeepsCounts, SavesCount', NEW h \in Handlers,
         \A g \in Handlers : g # h => frame'[g] = frame[g],
         \A q : frame[h].pc = "count" /\ frame[h].save.row = q => Counted(q)',
         Followed(frame[h])',
         \A c \in DOMAIN conversations' :
           \/ c \in DOMAIN conversations /\ conversations'[c] = conversations[c]
           \/ Pursued(conversations[c])'
  PROVE  FollowInv'
<1>1. ASSUME NEW q, Counted(q) \/ ToCount(q)
      PROVE  Counted(q)' \/ ToCount(q)'
  <2>1. CASE Counted(q)
    BY <2>1 DEF KeepsCounts, Counted
  <2>2. CASE ToCount(q)
    <3>1. PICK g \in Handlers : frame[g].pc = "count" /\ frame[g].save.row = q
      BY <2>2 DEF ToCount, At
    <3>2. CASE g = h
      BY <3>1, <3>2
    <3>3. CASE g # h
      <4>1. frame'[g].pc = "count" /\ frame'[g].save.row = q
        BY <3>1, <3>3
      <4>2. QED
        BY <4>1 DEF ToCount, At
    <3>4. QED
      BY <3>2, <3>3
  <2>3. QED
    BY <1>1, <2>1, <2>2
<1>2. ASSUME NEW c \in DOMAIN conversations'
      PROVE  Pursued(conversations[c])'
  <2>1. CASE c \in DOMAIN conversations /\ conversations'[c] = conversations[c]
    <3>1. PICK t : t = conversations[c]
      OBVIOUS
    <3>2. Pursued(t)
      BY <2>1, <3>1 DEF FollowInv
    <3>3. Pursued(t)'
      BY <1>1, <3>2 DEF Pursued, Once, Probed
    <3>4. QED
      BY <2>1, <3>1, <3>3 DEF Pursued
  <2>2. QED
    BY <1>2, <2>1
<1>3. ASSUME NEW g \in Handlers
      PROVE  Followed(frame[g])'
  <2>1. CASE g = h
    BY <2>1
  <2>2. CASE g # h
    <3>1. PICK f : f = frame[g]
      OBVIOUS
    <3>2. Followed(f)'
      BY <3>1, FollowedKept DEF FollowInv
    <3>3. QED
      BY <2>2, <3>1, <3>2 DEF Followed
  <2>3. QED
    BY <2>1, <2>2
<1>4. QED
  BY <1>2, <1>3 DEF FollowInv

LEMMA TalkWritten ==
  ASSUME NEW k, NEW u, updateConversation(k, u), Pursued(u)'
  PROVE  \A c \in DOMAIN conversations' :
           \/ c \in DOMAIN conversations /\ conversations'[c] = conversations[c]
           \/ Pursued(conversations[c])'
<1>1. \A c \in DOMAIN conversations' :
        /\ c \in DOMAIN conversations
        /\ conversations'[c] = conversations[c] \/ conversations'[c] = u
  BY DEF updateConversation
<1>2. QED
  BY <1>1 DEF Pursued

LEMMA SameCounts ==
  ASSUME FollowInv, UNCHANGED questions
  PROVE  KeepsCounts /\ (UNCHANGED saves => SavesCount')
BY DEF KeepsCounts, Counted, FollowInv, SavesCount

(* Steps of the meeting, outside the talk. *)
LEMMA FollowMeeting ==
  ASSUME TypeOK, OrderInv, FollowInv, NEW h \in Handlers,
         \/ InsertMeetingQuestion(h) \/ Enter(h) \/ MarkLeft(h) \/ SaveMeeting(h)
         \/ WipeConversation(h) \/ Reopen(h) \/ DeleteMeetingQuestions(h)
         \/ DropFeedback(h) \/ MarkError(h)
  PROVE  FollowInv'
<1>s. Steps(h)
  BY MeetingStepsSteps
<1>q. questions \in Seq(Row) /\ conversations \in Seq(Seq(Entry)) /\ frame \in [Handlers -> Frame]
  BY DEF TypeOK
<1>1. frame[h].pc \notin TurnPCs /\ saves' = saves
  BY DEF InsertMeetingQuestion, Enter, MarkLeft, SaveMeeting, WipeConversation, Reopen,
     DeleteMeetingQuestions, DropFeedback, MarkError, At, TurnPCs, pending
<1>2. /\ DOMAIN questions \subseteq DOMAIN questions'
      /\ \A q \in DOMAIN questions : questions'[q].followups = questions[q].followups
  <2>1. CASE InsertMeetingQuestion(h)
    BY <1>q, <2>1 DEF InsertMeetingQuestion
  <2>2. CASE DeleteMeetingQuestions(h)
    <3>1. questions' = [q \in DOMAIN questions |->
                          [questions[q] EXCEPT !.of = IF @ = "meeting" THEN "deleted" ELSE @]]
      BY <2>2 DEF DeleteMeetingQuestions
    <3>2. \A q \in DOMAIN questions : questions[q] \in Row
      BY <1>q
    <3>3. QED
      BY <3>1, <3>2 DEF Row
  <2>3. CASE UNCHANGED questions
    BY <2>3
  <2>4. QED
    BY <2>1, <2>2, <2>3 DEF Enter, MarkLeft, SaveMeeting, WipeConversation, Reopen, DropFeedback,
       MarkError
<1>3. KeepsCounts
  BY <1>2 DEF KeepsCounts, Counted
<1>4. SavesCount'
  BY <1>1, <1>2 DEF FollowInv, SavesCount, OrderInv, SavesAsked
<1>5. frame'[h].pc \notin TurnPCs
  <2>1. CASE Return(h) \/ \E pc \in {"reopen", "purge", "fail"} : Goto(h, pc)
    <3>1. frame'[h].pc \in {"idle", "reopen", "purge", "fail"}
      BY <1>q, <2>1, ReturnIs, GotoIs
    <3>2. QED
      BY <3>1 DEF TurnPCs
  <2>2. CASE InsertMeetingQuestion(h)
    <3>1. frame'[h].pc = "insert"
      BY <1>q, <2>2 DEF InsertMeetingQuestion, At, Frame
    <3>2. QED
      BY <3>1 DEF TurnPCs
  <2>3. QED
    BY <2>1, <2>2 DEF Enter, MarkLeft, SaveMeeting, WipeConversation, Reopen,
       DeleteMeetingQuestions, DropFeedback, MarkError
<1>6. \A c \in DOMAIN conversations' :
        \/ c \in DOMAIN conversations /\ conversations'[c] = conversations[c]
        \/ Pursued(conversations[c])'
  <2>1. Pursued(<<>>)'
    BY NothingFollowed DEF Noted, Pursued
  <2>2. CASE WipeConversation(h)
    <3>1. updateConversation(frame[h].conv, <<>>)
      BY <2>2 DEF WipeConversation
    <3>2. QED
      BY <2>1, <3>1, TalkWritten
  <2>3. CASE Enter(h)
    <3>1. conversations' = Append(conversations, <<>>)
      BY <2>3 DEF Enter
    <3>2. \A c \in DOMAIN conversations' :
            \/ c \in DOMAIN conversations /\ conversations'[c] = conversations[c]
            \/ conversations'[c] = <<>>
      BY <1>q, <3>1
    <3>3. QED
      BY <2>1, <3>2 DEF Pursued
  <2>4. CASE UNCHANGED conversations
    BY <2>4
  <2>5. QED
    BY <2>2, <2>3, <2>4 DEF InsertMeetingQuestion, MarkLeft, SaveMeeting, Reopen,
       DeleteMeetingQuestions, DropFeedback, MarkError
<1>7. frame[h].pc # "count"
  BY <1>1 DEF TurnPCs
<1>8. QED
  BY <1>3, <1>4, <1>5, <1>6, <1>7, <1>s, NotTurnFollowed, FollowStep DEF Steps

(* What a turn has at hand. *)
LEMMA TurnFollowed ==
  ASSUME TypeOK, OrderInv, FollowInv, NEW h \in Handlers, frame[h].pc \in TurnPCs
  PROVE  /\ frame \in [Handlers -> Frame] /\ frame[h] \in Frame
         /\ frame[h].talk \in Seq(Entry) /\ frame[h].save.row \in Nat
         /\ Followed(frame[h])
         /\ frame[h].pc # "count" => Noted(frame[h].talk)
         /\ frame[h].pc \in {"followup", "count"} =>
              frame[h].save.row \in DOMAIN questions /\ frame[h].save.followups >= 1
<1>1. Followed(frame[h]) /\ Ordered(frame[h])
  BY DEF OrderInv, FollowInv
<1>2. QED
  BY <1>1, TurnFrame DEF Followed, Ordered

(* Turns that end. *)
LEMMA FollowEnds ==
  ASSUME TypeOK, OrderInv, FollowInv, NEW h \in Handlers,
         \/ sendGreetingMessage(h) \/ GiveUp(h) \/ AskQuestion(h) \/ StoreTalkAgain(h)
  PROVE  FollowInv'
<1>s. Steps(h) /\ frame[h].pc \in TurnPCs /\ frame[h].pc # "count"
  BY TurnStepsSteps DEF sendGreetingMessage, GiveUp, AskQuestion, StoreTalkAgain, At
<1>t. /\ frame \in [Handlers -> Frame] /\ frame[h].talk \in Seq(Entry)
      /\ frame[h].save.row \in Nat /\ Noted(frame[h].talk)
  BY <1>s, TurnFollowed
<1>1. UNCHANGED <<questions, saves>> /\ Return(h)
  BY DEF sendGreetingMessage, GiveUp, AskQuestion, StoreTalkAgain, pending, store
<1>2. KeepsCounts /\ SavesCount'
  BY <1>1, SameCounts
<1>3. frame'[h].pc \notin TurnPCs
  <2>1. frame'[h].pc = "idle"
    BY <1>1, <1>t, ReturnIs
  <2>2. QED
    BY <2>1 DEF TurnPCs
<1>4. CASE GiveUp(h)
  <2>1. conversations' = conversations
    BY <1>4 DEF GiveUp, store
  <2>2. QED
    BY <1>2, <1>3, <1>s, <2>1, NotTurnFollowed, FollowStep DEF Steps
<1>5. CASE ~GiveUp(h)
  <2>1. PICK u : /\ updateConversation(frame[h].conv, u)
                 /\ u = IF StoreTalkAgain(h) THEN frame[h].talk
                        ELSE addConversationEntry(frame[h].talk, "assistant",
                               IF AskQuestion(h) THEN frame[h].save.row ELSE 0)
    BY <1>5 DEF sendGreetingMessage, AskQuestion, StoreTalkAgain, At
  <2>2. Noted(u)
    BY <1>t, <2>1, RemarkFollows
  <2>3. \A k : updateConversation(k, u) =>
          \A c \in DOMAIN conversations' :
            \/ c \in DOMAIN conversations /\ conversations'[c] = conversations[c]
            \/ Pursued(conversations[c])'
    BY <1>2, <2>2, NotedKept, TalkWritten
  <2>4. QED
    BY <1>2, <1>3, <1>s, <2>1, <2>3, NotTurnFollowed, FollowStep DEF Steps
<1>6. QED
  BY <1>4, <1>5

(* Steps that go on with a noted talk and do not come to a follow-up.        *)
LEMMA FollowMoves ==
  ASSUME TypeOK, OrderInv, FollowInv, NEW h \in Handlers,
         Steps(h), frame[h].pc \in TurnPCs \ {"count"}, KeepsCounts, SavesCount',
         NEW u, Noted(u), frame'[h].talk = u, frame'[h].pc \notin {"followup", "count"},
         UNCHANGED conversations \/ updateConversation(frame[h].conv, u)
  PROVE  FollowInv'
<1>1. Noted(u)' /\ Pursued(u)'
  BY NotedKept
<1>2. Followed(frame[h])'
  BY <1>1 DEF Followed, Noted
<1>3. \A k : updateConversation(k, u) =>
        \A c \in DOMAIN conversations' :
          \/ c \in DOMAIN conversations /\ conversations'[c] = conversations[c]
          \/ Pursued(conversations[c])'
  BY <1>1, TalkWritten
<1>4. \A c \in DOMAIN conversations' :
        \/ c \in DOMAIN conversations /\ conversations'[c] = conversations[c]
        \/ Pursued(conversations[c])'
  BY <1>3
<1>5. QED
  BY <1>2, <1>4, FollowStep DEF Steps

LEMMA FollowHear ==
  ASSUME TypeOK, OrderInv, FollowInv, NEW h \in Handlers, Hear(h)
  PROVE  FollowInv'
<1>s. Steps(h) /\ frame[h].pc \in TurnPCs /\ frame[h].pc # "count"
  BY TurnStepsSteps DEF Hear, At
<1>t. /\ frame \in [Handlers -> Frame] /\ frame[h] \in Frame /\ frame[h].talk \in Seq(Entry)
      /\ Noted(frame[h].talk)
  BY <1>s, TurnFollowed
<1>u. PICK u : u = addConversationEntry(frame[h].talk, "user", 0)
  OBVIOUS
<1>1. frame'[h].talk = u /\ frame'[h].pc \in {"first", "next", "last"}
  <2> DEFINE heard == [frame[h] EXCEPT !.talk = u]
  <2>1. \/ frame' = [frame EXCEPT ![h] = [heard EXCEPT !.pc = "first"]]
        \/ frame' = [frame EXCEPT ![h] = [heard EXCEPT !.pc = "next", !.skip = TRUE]]
        \/ frame' = [frame EXCEPT ![h] = [heard EXCEPT !.pc = "last"]]
    BY <1>u DEF Hear
  <2>2. QED
    BY <1>t, <2>1 DEF Frame
<1>2. Noted(u)
  BY <1>t, <1>u, RemarkFollows
<1>3. UNCHANGED <<questions, saves, conversations>>
  BY DEF Hear, store, pending
<1>4. KeepsCounts /\ SavesCount'
  BY <1>3, SameCounts
<1>5. QED
  BY <1>1, <1>2, <1>3, <1>4, <1>s, FollowMoves

(* Only a row that counts none is followed up, and a noted talk does not     *)
(* follow up such a row.                                                     *)
LEMMA FollowReview ==
  ASSUME TypeOK, OrderInv, FollowInv, NEW h \in Handlers, ReviewAnswer(h)
  PROVE  FollowInv'
<1>s. Steps(h) /\ frame[h].pc \in TurnPCs /\ frame[h].pc # "count"
  BY TurnStepsSteps DEF ReviewAnswer, At
<1>t. /\ frame \in [Handlers -> Frame] /\ frame[h] \in Frame /\ frame[h].talk \in Seq(Entry)
      /\ Noted(frame[h].talk)
  BY <1>s, TurnFollowed
<1>u. PICK u : u = frame[h].talk
  OBVIOUS
<1>1. UNCHANGED <<questions, saves, conversations>>
  BY DEF ReviewAnswer, store, pending
<1>2. KeepsCounts /\ SavesCount'
  BY <1>1, SameCounts
<1>3. CASE Goto(h, "next")
  <2>1. frame'[h].talk = u /\ frame'[h].pc = "next"
    BY <1>t, <1>u, <1>3, GotoIs
  <2>2. QED
    BY <1>1, <1>2, <1>s, <1>t, <1>u, <2>1, FollowMoves
<1>4. CASE ~Goto(h, "next")
  <2>1. PICK q : /\ Stored(q) /\ questions[q].followups < 1
                 /\ frame' = [frame EXCEPT
                      ![h].pc = "followup",
                      ![h].save = [row |-> q, status |-> questions[q].status,
                                   followups |-> questions[q].followups + 1]]
    BY <1>4 DEF ReviewAnswer
  <2>2. /\ frame'[h].pc = "followup" /\ frame'[h].talk = u /\ frame'[h].save.row = q
        /\ frame'[h].save.followups = questions[q].followups + 1
    BY <1>t, <1>u, <2>1 DEF Frame
  <2>3. questions[q].followups \in Nat
    <3>1. questions[q] \in Row
      BY <2>1 DEF Stored, TypeOK
    <3>2. QED
      BY <3>1 DEF Row
  <2>4. frame'[h].save.followups >= 1
    BY <2>2, <2>3
  <2>5. q \notin Probed(u)
    <3>1. ~Counted(q)
      BY <2>1, <2>3 DEF Counted
    <3>2. QED
      BY <1>t, <1>u, <3>1 DEF Noted
  <2>6. Noted(u)'
    BY <1>2, <1>t, <1>u, NotedKept
  <2>7. Followed(frame[h])'
    BY <2>2, <2>4, <2>5, <2>6 DEF Followed, Noted, Probed
  <2>8. QED
    BY <1>1, <1>2, <1>s, <2>7, FollowStep DEF Steps
<1>5. QED
  BY <1>3, <1>4

(* The reply is stored before the follow-up is counted. *)
LEMMA FollowAsk ==
  ASSUME TypeOK, OrderInv, FollowInv, NEW h \in Handlers, AskFollowUp(h)
  PROVE  FollowInv'
<1>s. Steps(h) /\ frame[h].pc \in TurnPCs /\ frame[h].pc = "followup"
  BY TurnStepsSteps DEF AskFollowUp, At
<1>t. /\ frame \in [Handlers -> Frame] /\ frame[h].talk \in Seq(Entry)
      /\ frame[h].save.row \in Nat /\ Noted(frame[h].talk) /\ Followed(frame[h])
  BY <1>s, TurnFollowed
<1>u. PICK u, q : u = addFollowUp(frame[h].talk, q) /\ q = frame[h].save.row
  OBVIOUS
<1>1. UNCHANGED <<questions, saves>> /\ updateConversation(frame[h].conv, u)
  BY <1>u DEF AskFollowUp, pending
<1>2. KeepsCounts /\ SavesCount'
  BY <1>1, SameCounts
<1>3. Once(u) /\ Probed(u) \subseteq Probed(frame[h].talk) \cup {q}
  BY <1>s, <1>t, <1>u, FollowUpFollows DEF Followed, Noted
<1>4. /\ frame'[h].pc = "count" /\ frame'[h].save = frame[h].save
  BY <1>t, GotoIs DEF AskFollowUp
<1>5. ToCount(q)'
  BY <1>4, <1>u DEF ToCount, At
<1>6. \A p \in Probed(u) : Counted(p)' \/ ToCount(p)'
  <2>1. \A p \in Probed(frame[h].talk) : Counted(p)'
    BY <1>2, <1>t DEF Noted, KeepsCounts, Counted
  <2>2. QED
    BY <1>3, <1>5, <2>1
<1>7. Pursued(u)'
  BY <1>3, <1>6 DEF Pursued, Once, Probed
<1>8. \A c \in DOMAIN conversations' :
        \/ c \in DOMAIN conversations /\ conversations'[c] = conversations[c]
        \/ Pursued(conversations[c])'
  <2>1. \A k : updateConversation(k, u) =>
          \A c \in DOMAIN conversations' :
            \/ c \in DOMAIN conversations /\ conversations'[c] = conversations[c]
            \/ Pursued(conversations[c])'
    BY <1>7, TalkWritten
  <2>2. QED
    BY <1>1, <2>1
<1>9. Followed(frame[h])'
  BY <1>4, <1>s, <1>t DEF Followed, TurnPCs
<1>10. QED
  BY <1>2, <1>8, <1>9, <1>s, FollowStep DEF Steps

(* No save of the row is under way when its follow-up is counted.            *)
LEMMA FollowCount ==
  ASSUME TypeOK, OrderInv, FollowInv, NEW h \in Handlers, CountFollowUp(h)
  PROVE  FollowInv'
<1>s. Steps(h) /\ frame[h].pc \in TurnPCs /\ frame[h].pc = "count"
  BY TurnStepsSteps DEF CountFollowUp, At
<1>t. /\ frame \in [Handlers -> Frame] /\ questions \in Seq(Row)
      /\ frame[h].save.row \in DOMAIN questions /\ frame[h].save.followups >= 1
      /\ saves = <<>>
  BY <1>s, TurnFollowed, TurnFrame DEF TypeOK
<1>1. SaveQuestion(frame[h].save) /\ UNCHANGED <<saves, conversations>> /\ Return(h)
  BY DEF CountFollowUp, pending
<1>2. /\ DOMAIN questions' = DOMAIN questions
      /\ \A q \in DOMAIN questions : q # frame[h].save.row => questions'[q] = questions[q]
      /\ questions'[frame[h].save.row].followups = frame[h].save.followups
  BY <1>1, <1>t DEF SaveQuestion
<1>3. KeepsCounts /\ \A q : frame[h].save.row = q => Counted(q)'
  <2>1. ASSUME NEW q, frame[h].save.row = q
        PROVE  Counted(q)'
    BY <1>2, <1>t, <2>1 DEF Counted
  <2>2. ASSUME NEW q \in DOMAIN questions, Counted(q)
        PROVE  Counted(q)'
    BY <1>2, <1>t, <2>2 DEF Counted
  <2>3. QED
    BY <2>1, <2>2 DEF KeepsCounts
<1>4. SavesCount'
  BY <1>1, <1>t DEF SavesCount
<1>5. frame'[h].pc \notin TurnPCs
  <2>1. frame'[h].pc = "idle"
    BY <1>1, <1>t, ReturnIs
  <2>2. QED
    BY <2>1 DEF TurnPCs
<1>6. QED
  BY <1>1, <1>3, <1>4, <1>5, <1>s, NotTurnFollowed, FollowStep DEF Steps

LEMMA FollowRetrieve ==
  ASSUME TypeOK, OrderInv, FollowInv, NEW h \in Handlers, RetrieveQuestion(h)
  PROVE  FollowInv'
<1>s. Steps(h) /\ frame[h].pc \in TurnPCs /\ frame[h].pc \in {"first", "next"}
  BY TurnStepsSteps DEF RetrieveQuestion, At
<1>t. /\ frame \in [Handlers -> Frame] /\ frame[h] \in Frame /\ frame[h].talk \in Seq(Entry)
      /\ Noted(frame[h].talk) /\ saves = <<>>
  BY <1>s, TurnFollowed, TurnFrame
<1>u. PICK u : u = frame[h].talk
  OBVIOUS
<1>1. UNCHANGED <<questions, conversations>>
  BY DEF RetrieveQuestion, store
<1>2. CASE saves' = saves /\ (Return(h) \/ Goto(h, "bye"))
  <2>1. KeepsCounts /\ SavesCount'
    BY <1>1, <1>2, SameCounts
  <2>2. CASE Return(h)
    <3>1. frame'[h].pc = "idle"
      BY <1>t, <2>2, ReturnIs
    <3>2. frame'[h].pc \notin TurnPCs
      BY <3>1 DEF TurnPCs
    <3>3. QED
      BY <1>1, <1>s, <2>1, <3>2, NotTurnFollowed, FollowStep DEF Steps
  <2>3. CASE Goto(h, "bye")
    <3>1. frame'[h].talk = u /\ frame'[h].pc = "bye"
      BY <1>t, <1>u, <2>3, GotoIs
    <3>2. QED
      BY <1>1, <1>s, <1>t, <1>u, <2>1, <3>1, FollowMoves
  <2>4. QED
    BY <1>2, <2>2, <2>3
<1>3. ASSUME NEW pc \in {"open", "ask"}, internalRetrieveQuestion(h, pc)
      PROVE  FollowInv'
  <2>1. PICK q \in PendingQuestions :
          LET save == [row |-> q, status |-> "asked", followups |-> questions[q].followups]
          IN /\ saves' = Append(saves, save)
             /\ frame' = [frame EXCEPT ![h].pc = pc, ![h].save = save]
    BY <1>3 DEF internalRetrieveQuestion
  <2> DEFINE save == [row |-> q, status |-> "asked", followups |-> questions[q].followups]
  <2>2. saves' = <<save>> /\ save.row = q /\ save.followups = questions[q].followups
    BY <1>t, <2>1
  <2>3. frame' = [frame EXCEPT ![h].pc = pc, ![h].save = save]
    BY <2>1
  <2> HIDE DEF save
  <2>4. frame'[h].pc = pc /\ frame'[h].talk = u
    BY <1>t, <1>u, <2>3 DEF Frame
  <2>5. \A i \in DOMAIN saves' : saves'[i] = save
    BY <2>2
  <2>6. KeepsCounts
    BY <1>1, SameCounts
  <2>7. SavesCount'
    BY <1>1, <2>2, <2>5 DEF SavesCount
  <2>8. QED
    BY <1>1, <1>3, <1>s, <1>t, <1>u, <2>4, <2>6, <2>7, FollowMoves
<1>4. QED
  BY <1>2, <1>3 DEF RetrieveQuestion, pending

(* The goodbye and the ending. *)
LEMMA FollowEnding ==
  ASSUME TypeOK, OrderInv, FollowInv, NEW h \in Handlers,
         SayGoodbye(h) \/ CreateFeedback(h) \/ Complete(h)
  PROVE  FollowInv'
<1>s. Steps(h) /\ frame[h].pc \in TurnPCs /\ frame[h].pc # "count"
  BY TurnStepsSteps DEF SayGoodbye, CreateFeedback, Complete, At
<1>t. /\ frame \in [Handlers -> Frame] /\ frame[h] \in Frame /\ frame[h].talk \in Seq(Entry)
      /\ Noted(frame[h].talk)
  BY <1>s, TurnFollowed
<1>1. UNCHANGED <<questions, saves>>
  BY DEF SayGoodbye, CreateFeedback, Complete, pending
<1>2. KeepsCounts /\ SavesCount'
  BY <1>1, SameCounts
<1>3. CASE SayGoodbye(h)
  <2>1. PICK u : u = addConversationEntry(frame[h].talk, "assistant", 0)
    OBVIOUS
  <2>2. /\ frame' = [frame EXCEPT ![h].pc = "end", ![h].talk = u]
        /\ updateConversation(frame[h].conv, u)
    BY <1>3, <2>1 DEF SayGoodbye
  <2>3. frame'[h].talk = u /\ frame'[h].pc = "end"
    BY <1>t, <2>2 DEF Frame
  <2>4. Noted(u)
    BY <1>t, <2>1, RemarkFollows
  <2>5. QED
    BY <1>2, <1>s, <2>2, <2>3, <2>4, FollowMoves
<1>4. CASE (CreateFeedback(h) \/ Complete(h)) /\ Return(h)
  <2>1. UNCHANGED conversations
    BY <1>4 DEF CreateFeedback, Complete
  <2>2. frame'[h].pc = "idle"
    BY <1>t, <1>4, ReturnIs
  <2>3. frame'[h].pc \notin TurnPCs
    BY <2>2 DEF TurnPCs
  <2>4. QED
    BY <1>2, <1>s, <2>1, <2>3, NotTurnFollowed, FollowStep DEF Steps
<1>5. CASE (CreateFeedback(h) \/ Complete(h)) /\ ~Return(h)
  <2>1. UNCHANGED conversations
    BY <1>5 DEF CreateFeedback, Complete
  <2>2. PICK u : u = frame[h].talk
    OBVIOUS
  <2>3. \/ frame' = [frame EXCEPT ![h].pc = "complete", ![h].feedback = feedbacks + 1]
        \/ Goto(h, "rewrite")
    BY <1>5 DEF CreateFeedback, Complete
  <2>4. frame'[h].pc \in {"complete", "rewrite"} /\ frame'[h].talk = u
    <3>1. CASE Goto(h, "rewrite")
      BY <1>t, <2>2, <3>1, GotoIs
    <3>2. CASE frame' = [frame EXCEPT ![h].pc = "complete", ![h].feedback = feedbacks + 1]
      BY <1>t, <2>2, <3>2 DEF Frame
    <3>3. QED
      BY <2>3, <3>1, <3>2
  <2>5. QED
    BY <1>2, <1>s, <1>t, <2>1, <2>2, <2>4, FollowMoves
<1>6. QED
  BY <1>3, <1>4, <1>5

(* A turn starts when no other works for the candidate, so all that the      *)
(* conversation follows up is counted.                                       *)
LEMMA FollowRequest ==
  ASSUME Paced, TypeOK, OrderInv, FollowInv, NEW h \in Handlers, Request(h)
  PROVE  FollowInv'
<1>1. /\ \A g \in Handlers : g # h => frame'[g] = frame[g]
      /\ frame[h].pc = "idle" /\ UNCHANGED <<conversations, questions, saves>>
  BY RequestSteps
<1>2. KeepsCounts /\ SavesCount'
  BY <1>1, SameCounts
<1>3. CASE SubmitAnswer(h)
  <2>1. PICK talk : talk = conversations[meeting.conv]
    OBVIOUS
  <2>2. /\ meeting.conv \in DOMAIN conversations /\ CandidateMayCall
        /\ frame'[h].pc \in {"greet", "listen"} /\ frame'[h].talk = talk
    BY <1>3, <2>1, SubmitSteps
  <2>3. Noted(talk)
    <3>1. Pursued(talk)
      BY <2>1, <2>2 DEF FollowInv
    <3>2. \A q : ~ToCount(q)
      BY <2>2 DEF CandidateMayCall, ToCount, At, CandidatePCs, TurnPCs
    <3>3. QED
      BY <3>1, <3>2 DEF Pursued, Noted
  <2>4. Noted(talk)'
    BY <1>2, <2>3, NotedKept
  <2>5. Followed(frame[h])'
    BY <2>2, <2>4 DEF Followed, Noted
  <2>6. QED
    BY <1>1, <1>2, <2>5, FollowStep
<1>4. CASE ~SubmitAnswer(h)
  <2>1. frame'[h].pc \in {"resend", "wipe", "drop", "insert", "leaving", "recording"}
    BY <1>4, RequestSteps
  <2>2. frame'[h].pc \notin TurnPCs
    BY <2>1 DEF TurnPCs
  <2>3. QED
    BY <1>1, <1>2, <2>2, NotTurnFollowed, FollowStep
<1>5. QED
  BY <1>3, <1>4

(* The save of a question that lands late counts what the row counts. *)
LEMMA FollowLand ==
  ASSUME TypeOK, OrderInv, FollowInv, LandSave
  PROVE  FollowInv'
<1>1. PICK i \in DOMAIN saves : SaveQuestion(saves[i]) /\ saves' = RemoveAt(saves, i)
  BY DEF LandSave
<1>2. UNCHANGED <<conversations, frame>>
  BY DEF LandSave
<1>3. saves[i].row \in DOMAIN questions /\ questions[saves[i].row].followups = saves[i].followups
  BY DEF OrderInv, SavesAsked, FollowInv, SavesCount
<1>4. /\ DOMAIN questions' = DOMAIN questions
      /\ \A q \in DOMAIN questions : questions'[q].followups = questions[q].followups
  BY <1>1, <1>3 DEF SaveQuestion
<1>5. \A q : Counted(q)' <=> Counted(q)
  BY <1>4 DEF Counted
<1>6. SavesCount'
  <2>1. \A k \in DOMAIN saves' : \E j \in DOMAIN saves : saves'[k] = saves[j]
    BY <1>1, Removed DEF TypeOK
  <2>2. QED
    BY <1>4, <2>1 DEF FollowInv, SavesCount, OrderInv, SavesAsked
<1>7. QED
  BY <1>2, <1>5, <1>6 DEF FollowInv, Pursued, ToCount, At, Followed, Noted

LEMMA FollowNext ==
  Paced /\ TypeOK /\ OrderInv /\ FollowInv /\ [Next]_vars /\ ~Crash => FollowInv'
<1> SUFFICES ASSUME Paced, TypeOK, OrderInv, FollowInv, [Next]_vars, ~Crash
             PROVE  FollowInv'
  OBVIOUS
<1>1. ASSUME NEW h \in Handlers, Advance(h)
      PROVE  FollowInv'
  BY <1>1, FollowMeeting, FollowEnds, FollowHear, FollowReview, FollowAsk, FollowCount,
     FollowRetrieve, FollowEnding DEF Advance
<1>2. CASE sendToQueue \/ UNCHANGED vars
  <2>1. UNCHANGED <<frame, conversations, questions, saves>>
    BY <1>2 DEF sendToQueue, vars, store, pending
  <2>2. QED
    BY <2>1 DEF FollowInv, SavesCount, Pursued, Once, Probed, Counted, ToCount, At, Followed, Noted
<1>3. QED
  BY <1>1, <1>2, FollowRequest, FollowLand DEF Next

LEMMA FollowInit == Init => FollowInv
<1> SUFFICES ASSUME Init PROVE FollowInv
  OBVIOUS
<1>1. conversations = <<>> /\ saves = <<>> /\ \A h \in Handlers : frame[h].pc = "idle"
  BY DEF Init, Idle
<1>2. QED
  BY <1>1 DEF FollowInv, SavesCount, Followed, TurnPCs

(* When the client waits for each reply, no question of a conversation is    *)
(* followed up twice, whatever leaves, rejoins, resends, recreations and     *)
(* cleanups come between.  A crash between the reply and its count lets the  *)
(* follow-up be asked again, so it holds until the first crash.              *)
THEOREM FollowUpsAreLimited ==
  ASSUME Paced
  PROVE  Spec => [](calls["crash"] = 0 => OneFollowUpPerQuestion)
<1>1. Init => TypeOK /\ GrowInv /\ (Uncrashed => OrderInv /\ FollowInv)
  BY TypeInit, GrowInit, OrderInit, FollowInit
<1>2. TypeOK /\ GrowInv /\ (Uncrashed => OrderInv /\ FollowInv) /\ [Next]_vars =>
        (TypeOK /\ GrowInv /\ (Uncrashed => OrderInv /\ FollowInv))'
  BY TypeNext, GrowNext, CrashCounted, OrderNext, FollowNext
<1>3. (Uncrashed => FollowInv) => (calls["crash"] = 0 => OneFollowUpPerQuestion)
  BY DEF Uncrashed, FollowInv, Pursued, Once, OneFollowUpPerQuestion
<1>4. QED
  BY <1>1, <1>2, <1>3, PTL DEF Spec

-----------------------------------------------------------------------------
(* The ending of a meeting, as Interview describes it, implements            *)
(* FeedbackRequests.                                                         *)

(* What the mapping shows of the handlers and of the row. *)
Due == {frame[h].feedback : h \in {k \in Handlers : At(k, "complete")}}
Preparing == {feedback} \ {0}

LEMMA DueIs ==
  ASSUME NEW f
  PROVE  /\ f \in Due <=> \E h \in Handlers : Held(h, f)
         /\ f \in Due' <=> \E h \in Handlers : Held(h, f)'
BY DEF Due, Held, At

LEMMA InitRefines == Init => Requests!Init
BY DEF Init, Requests!Init, At, Idle, Operations

(* A step aside changes nothing but the feedback row, which it may delete.   *)
LEMMA AsideRefines ==
  ASSUME TypeOK, StepsAside
  PROVE  [Requests!Next]_(Requests!vars)
<1>1. UNCHANGED <<tasks, unsent, feedbacks>> /\ calls'["crash"] = calls["crash"]
  BY DEF StepsAside
<1>2. Due' = Due
  BY DEF StepsAside, Due, At
<1>3. CASE feedback' = feedback
  BY <1>1, <1>2, <1>3 DEF Requests!vars, Due
<1>4. CASE feedback' # feedback
  <2>1. feedback' = 0 /\ feedback # 0
    BY <1>4 DEF StepsAside
  <2>2. feedback \in Preparing /\ Preparing' = Preparing \ {feedback}
    BY <2>1 DEF Preparing
  <2>3. Requests!Discard
    BY <1>1, <1>2, <2>2 DEF Requests!Discard, Due, Preparing
  <2>4. QED
    BY <2>3 DEF Requests!Next
<1>5. QED
  BY <1>3, <1>4

LEMMA CreateRefines ==
  ASSUME TypeOK, RequestInv, NEW h \in Handlers, CreateFeedback(h)
  PROVE  [Requests!Next]_(Requests!vars)
<1>t. frame \in [Handlers -> Frame]
  BY DEF TypeOK
<1>1. CASE feedback # 0
  <2>1. OnlyMoves(h)
    BY <1>1, <1>t, ReturnMoves DEF CreateFeedback, At
  <2>2. StepsAside
    BY <1>1, <2>1, OnlyMovesAside DEF CreateFeedback, pending
  <2>3. QED
    BY <2>2, AsideRefines
<1>2. CASE feedback = 0
  <2> DEFINE f == feedbacks + 1
  <2>1. feedback' = f /\ feedbacks' = f /\ tasks' = tasks /\ unsent' = unsent /\ calls' = calls
    BY <1>2 DEF CreateFeedback, pending
  <2>2. /\ frame'[h].pc = "complete" /\ frame'[h].feedback = f
        /\ \A g \in Handlers : g # h => frame'[g] = frame[g]
    <3>1. frame' = [frame EXCEPT ![h].pc = "complete", ![h].feedback = f]
      BY <1>2 DEF CreateFeedback
    <3>2. QED
      BY <1>t, <3>1 DEF Frame
  <2>3. f \in Nat /\ f # 0 /\ 1..feedbacks' = 1..feedbacks \cup {f} /\ f \notin 1..feedbacks
    BY <2>1 DEF TypeOK
  <2> HIDE DEF f
  <2>4. ~At(h, "complete")
    BY DEF CreateFeedback, At
  <2>5. \A g : g \in Due' <=> g \in Due \/ g = f
    BY <2>2, <2>4, DueIs DEF Held, At
  <2>6. Preparing' = Preparing \cup {f}
    BY <1>2, <2>1, <2>3 DEF Preparing
  <2>7. Requests!Insert
    <3>1. Due' = Due \cup {f}
      BY <2>5
    <3>2. f \in 1..feedbacks' \ 1..feedbacks
      BY <2>3
    <3>3. QED
      BY <2>1, <2>3, <2>6, <3>1, <3>2 DEF Requests!Insert, Due, Preparing
  <2>8. QED
    BY <2>7 DEF Requests!Next
<1>3. QED
  BY <1>1, <1>2

(* No other handler holds the same feedback, so it is due no more.           *)
LEMMA CompleteRefines ==
  ASSUME TypeOK, RequestInv, NEW h \in Handlers, Complete(h)
  PROVE  [Requests!Next]_(Requests!vars)
<1> DEFINE f == frame[h].feedback
<1>1. /\ unsent' = unsent \cup {f} /\ At(h, "complete")
      /\ UNCHANGED <<tasks, feedback, feedbacks, calls>>
  BY DEF Complete
<1>2. /\ ~At(h, "complete")'
      /\ \A g \in Handlers : g # h => frame'[g] = frame[g]
  BY DEF TypeOK, Complete, Return, Goto, Idle, Frame, At
<1>3. \A g \in Handlers : g # h => ~Held(g, f)
  BY <1>1 DEF RequestInv
<1>4. Held(h, f)
  BY <1>1 DEF Held
<1> HIDE DEF f
<1>5. f \in Due
  BY <1>4, DueIs
<1>6. \A g : g \in Due' <=> g \in Due /\ g # f
  <2>1. ASSUME NEW g, g \in Due'
        PROVE  g \in Due /\ g # f
    <3>1. PICK k \in Handlers : Held(k, g)'
      BY <2>1, DueIs
    <3>2. k # h /\ Held(k, g)
      BY <1>2, <3>1 DEF Held, At
    <3>3. QED
      BY <1>3, <3>2, DueIs
  <2>2. ASSUME NEW g, g \in Due, g # f
        PROVE  g \in Due'
    <3>1. PICK k \in Handlers : Held(k, g)
      BY <2>2, DueIs
    <3>2. k # h
      BY <1>4, <2>2, <3>1 DEF Held
    <3>3. Held(k, g)'
      BY <1>2, <3>1, <3>2 DEF Held, At
    <3>4. QED
      BY <3>3, DueIs
  <2>3. QED
    BY <2>1, <2>2
<1>7. Requests!Request
  <2>1. Due' = Due \ {f}
    BY <1>6
  <2>2. QED
    BY <1>1, <1>5, <2>1 DEF Requests!Request, Due
<1>8. QED
  BY <1>7 DEF Requests!Next

LEMMA SendRefines ==
  ASSUME sendToQueue
  PROVE  [Requests!Next]_(Requests!vars)
<1>1. UNCHANGED <<feedback, feedbacks, frame, calls>>
  BY DEF sendToQueue
<1>2. Due' = Due
  BY <1>1 DEF Due, At
<1>3. Requests!Publish
  BY <1>1, <1>2 DEF sendToQueue, Requests!Publish, Due
<1>4. QED
  BY <1>3 DEF Requests!Next

LEMMA CrashRefines ==
  ASSUME TypeOK, Crash
  PROVE  [Requests!Next]_(Requests!vars)
<1>1. UNCHANGED <<tasks, feedback, feedbacks>> /\ unsent' = {}
  BY DEF Crash, store
<1>2. calls'["crash"] > 0
  BY DEF Crash, Call, TypeOK, Operations
<1>3. Due' = {}
  BY DEF Crash, Due, At, Idle
<1>4. tasks' = <<>> \o tasks
  BY <1>1, ConcatEmptySeq DEF TypeOK
<1>5. Requests!Stop
  BY <1>1, <1>2, <1>3, <1>4 DEF Requests!Stop, Due
<1>6. QED
  BY <1>5 DEF Requests!Next

LEMMA NextRefines ==
  TypeOK /\ RequestInv /\ [Next]_vars => [Requests!Next]_(Requests!vars)
<1> SUFFICES ASSUME TypeOK, RequestInv, [Next]_vars
             PROVE  [Requests!Next]_(Requests!vars)
  OBVIOUS
<1>1. ASSUME NEW h \in Handlers, Request(h) \/ Advance(h)
      PROVE  [Requests!Next]_(Requests!vars)
  <2>1. CASE CreateFeedback(h)
    BY <2>1, CreateRefines
  <2>2. CASE Complete(h)
    BY <2>2, CompleteRefines
  <2>3. CASE ~CreateFeedback(h) /\ ~Complete(h)
    BY <1>1, <2>3, RequestStepsAside, MeetingStepsAside, TurnStepsAside, AsideRefines DEF Advance
  <2>4. QED
    BY <2>1, <2>2, <2>3
<1>2. CASE LandSave \/ UNCHANGED vars
  <2>1. StepsAside
    BY <1>2 DEF LandSave, vars, store, pending, StepsAside
  <2>2. QED
    BY <2>1, AsideRefines
<1>3. QED
  BY <1>1, <1>2, SendRefines, CrashRefines DEF Next

(* Seen from the queue, the ending of a meeting (internalEndAssessmentMeeting*)
(* and sendToQueue) only ever inserts a row, makes its message due, issues   *)
(* and publishes it, once; a cleanup deletes the row, a crash loses what was *)
(* not published, and all other steps of the meeting are invisible.          *)
THEOREM InterviewImplementsRequests == Spec => ImplementsRequests
<1>1. QED
  BY InitRefines, TypeInit, TypeNext, RequestInit, RequestNext, NextRefines, PTL
  DEF Spec, ImplementsRequests, Requests!Spec

LEMMA RequestHolds == Spec => [](TypeOK /\ RequestInv)
BY TypeInit, TypeNext, RequestInit, RequestNext, PTL DEF Spec

LEMMA DueIsElsewhere ==
  ASSUME RequestInv, NEW f \in Due
  PROVE  f \notin unsent /\ ~Queued(f)
<1>1. PICK h \in Handlers : Held(h, f)
  BY DueIs
<1>2. QED
  BY <1>1 DEF RequestInv, Held

(* The request of an analysis is in one place: with the handler that         *)
(* inserted the row, issued, or in the queue, and there once, whatever the   *)
(* turns that end the meeting together (internalEndAssessmentMeeting).       *)
THEOREM RequestInOnePlace == Spec => []Requests!OnePlace
<1>1. RequestInv => Requests!OnePlace
  <2>1. SUFFICES ASSUME RequestInv PROVE Requests!OnePlace
    OBVIOUS
  <2>2. Due \cap unsent = {}
    BY <2>1, DueIsElsewhere
  <2>3. \A f : f \in Requests!Elements(tasks) <=> Queued(f)
    BY DEF Requests!Elements, Queued
  <2>4. (Due \cup unsent) \cap Requests!Elements(tasks) = {}
    <3>1. \A f \in unsent : ~Queued(f)
      BY <2>1 DEF RequestInv, OneTaskPerFeedback, Queued
    <3>2. QED
      BY <2>1, <2>3, <3>1, DueIsElsewhere
  <2>5. \A i, j \in DOMAIN tasks : i # j => tasks[i] # tasks[j]
    BY <2>1 DEF RequestInv, OneTaskPerFeedback
  <2>6. Requests!Elements(<<>>) = {}
    BY DEF Requests!Elements
  <2>7. QED
    BY <2>2, <2>4, <2>5, <2>6 DEF Requests!OnePlace, Due
<1>2. QED
  BY <1>1, RequestHolds, PTL

(* Unless the process crashed, a feedback in preparation has its request     *)
(* with a handler, issued or in the queue (internalEndAssessmentMeeting,     *)
(* sendToQueue).                                                             *)
THEOREM RequestNeverForgotten == Spec => []Requests!NoneForgotten
<1>1. TypeOK /\ RequestInv => Requests!NoneForgotten
  <2>1. SUFFICES ASSUME TypeOK, RequestInv, ~(calls["crash"] > 0), feedback # 0
                 PROVE  feedback \in Due \cup unsent \cup Requests!Elements(tasks)
    BY DEF Requests!NoneForgotten, Due
  <2>2. CASE feedback \in unsent
    BY <2>2
  <2>3. CASE Queued(feedback)
    BY <2>3 DEF Requests!Elements, Queued
  <2>4. CASE \E h \in Handlers : Held(h, feedback)
    BY <2>4, DueIs
  <2>5. QED
    BY <2>1, <2>2, <2>3, <2>4 DEF RequestInv, FeedbackIsRequested, Held, Queued
<1>2. QED
  BY <1>1, RequestHolds, PTL
=============================================================================
