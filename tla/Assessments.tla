---------------------------- MODULE Assessments ----------------------------
(* How an organization prepares its assessments: create, update, assign      *)
(* questions, assign candidates, publish, recreate a meeting; and the        *)
(* candidate's join, which copies the questions.  Each handler is            *)
(* split at its awaits.  TypeORM's save writes every column of the entity    *)
(* that differs from the row, so a handler that saves what it read earlier   *)
(* writes the old values back.                                               *)
(*                                                                           *)
(* Descriptions, notes, dates, passwords and emails are left out.  The rest  *)
(* of a meeting's life is the module Interview.                              *)
EXTENDS Integers, SequencesExt

CONSTANTS
  Assessments, Candidates, Questions, Titles,
  None,                    \* no assessment, no title
  Requests,                \* the requests that may be in flight at once
  Visitors,                \* the joins that may be in flight at once
  QuestionsPerAssessment,  \* the organization's tier
  MeetingsPerMonth,        \* Tier.assessmentsPerMonth, which counts meetings
  OneAtATime,              \* recruiters never work on one assessment at once
  MaxMeetings,             \* meetings beyond which no request starts
  MaxRecreated,            \* candidates that one request recreates a meeting for
  MaxFailures              \* requests that fail between two awaits

ASSUME NoneAssumption == None \notin Assessments \cup Titles
ASSUME TierAssumption == QuestionsPerAssessment \in Nat /\ MeetingsPerMonth \in Nat
ASSUME FiniteAssumption == IsFiniteSet(Candidates) /\ IsFiniteSet(Questions)
ASSUME BoundsAssumption == MaxMeetings \in Nat /\ MaxRecreated \in Nat /\ MaxFailures \in Nat
ASSUME OneAtATimeAssumption == OneAtATime \in BOOLEAN

VARIABLES
  assessment,  \* assessment rows, with the candidates of the join table
  steps,       \* per assessment, its question rows in order of insertion
  meetings,    \* meeting rows in order of insertion
  announced,   \* assessments whose publication was notified
  copies,      \* the question rows of meetings
  frame,       \* what each request in flight holds across its awaits
  visit,       \* what each join in flight holds across its awaits
  failures,    \* requests failed so far
  raced        \* meetings joined while a request recreated them (history)

vars == <<assessment, steps, meetings, announced, copies, frame, visit, failures, raced>>
rows == <<assessment, steps, meetings>>
joins == <<copies, visit, raced>>

AssessmentStatus == {"draft", "published"}
Assessment == [status : AssessmentStatus \cup {"none"}, title : Titles \cup {None},
               candidates : SUBSET Candidates]
Step == [question : Questions, order : Nat \ {0}]
Meeting == [assessment : Assessments, candidate : Candidates,
            status : {"pending", "joined"}, talk : BOOLEAN]
Copy == [meeting : Nat, question : Questions]

Null == [status |-> "none", title |-> None, candidates |-> {}]
Idle == [pc |-> "idle", on |-> None, row |-> Null, left |-> <<>>, chosen |-> <<>>,
         meeting |-> 0]
Away == [pc |-> "away", meeting |-> 0, left |-> {}]

PCs == {"idle", "insert", "save", "delete", "step", "load", "assign", "check",
        "publish", "meeting", "find", "new", "add", "reopen", "purge"}
Frame == [pc : PCs, on : Assessments \cup {None}, row : Assessment,
          left : Seq(Candidates), chosen : Seq(Step), meeting : Nat]
Visit == [pc : {"away", "read", "copy"}, meeting : Nat, left : SUBSET Questions]

TypeOK ==
  /\ assessment \in [Assessments -> Assessment]
  /\ steps \in [Assessments -> Seq(Step)]
  /\ meetings \in Seq(Meeting)
  /\ announced \subseteq Assessments
  /\ copies \subseteq Copy
  /\ frame \in [Requests -> Frame]
  /\ visit \in [Visitors -> Visit]
  /\ failures \in 0..MaxFailures
  /\ raced \subseteq Nat

Init ==
  /\ assessment = [a \in Assessments |-> Null]
  /\ steps = [a \in Assessments |-> <<>>]
  /\ meetings = <<>>
  /\ announced = {}
  /\ copies = {}
  /\ frame = [r \in Requests |-> Idle]
  /\ visit = [v \in Visitors |-> Away]
  /\ failures = 0
  /\ raced = {}

-----------------------------------------------------------------------------
(* Requests *)

At(r, pc, a) == frame[r].pc = pc /\ frame[r].on = a
Goto(r, pc) == frame' = [frame EXCEPT ![r].pc = pc]
Return(r) == frame' = [frame EXCEPT ![r] = Idle]

(* A request on assessment a arrives; it holds what f says. *)
Start(r, a, f) ==
  /\ frame[r] = Idle
  /\ Len(meetings) <= MaxMeetings
  /\ OneAtATime => \A q \in Requests : frame[q].on # a
  /\ frame' = [frame EXCEPT ![r] = [f EXCEPT !.on = a]]

Exists(a) == assessment[a].status # "none"
Draft(a) == assessment[a].status = "draft"

(* Repository.save of an entity loaded without its candidates.  *)
SaveColumns(a, row) ==
  assessment' = [assessment EXCEPT ![a] = [row EXCEPT !.candidates = assessment[a].candidates]]

(* Repository.save of an entity loaded with its candidates: the join table   *)
(* is made equal to the entity's list.                                       *)
SaveWithCandidates(a, row) == assessment' = [assessment EXCEPT ![a] = row]

-----------------------------------------------------------------------------
(* POST /assessments *)

Create(r, a, title) ==
  /\ ~ Exists(a)
  /\ \A q \in Requests : frame[q].on # a   \* the id is generated by the insert
  /\ \A b \in Assessments : assessment[b].title # title
  /\ Start(r, a, [Idle EXCEPT !.pc = "insert",
                           !.row = [Null EXCEPT !.status = "draft", !.title = title]])
  /\ UNCHANGED <<rows, announced, joins, failures>>

InsertAssessment(r, a) ==
  /\ At(r, "insert", a)
  /\ SaveWithCandidates(a, frame[r].row)
  /\ Return(r)
  /\ UNCHANGED <<steps, meetings, announced, joins, failures>>

\* Mutant: a published assessment may be updated.
UpdateAlways(r, a, title) ==
  /\ Exists(a)
  /\ Start(r, a, [Idle EXCEPT !.pc = "save", !.row = [assessment[a] EXCEPT !.title = title]])
  /\ UNCHANGED <<rows, announced, joins, failures>>

(* PATCH /assessments/:id; the new title may be the old one, but no other    *)
(* row is looked at.                                                         *)
UpdateAssessment(r, a, title) ==
  /\ Draft(a)
  /\ Start(r, a, [Idle EXCEPT !.pc = "save", !.row = [assessment[a] EXCEPT !.title = title]])
  /\ UNCHANGED <<rows, announced, joins, failures>>

SaveAssessment(r, a) ==
  /\ At(r, "save", a)
  /\ SaveColumns(a, frame[r].row)
  /\ Return(r)
  /\ UNCHANGED <<steps, meetings, announced, joins, failures>>

-----------------------------------------------------------------------------
(* POST /assessments/assign-questions: a list of at least two different      *)
(* questions, within the tier, of consecutive orders (here from 1).          *)

AssignQuestions(r, a, list) ==
  /\ Draft(a)
  /\ Len(list) \in 2..QuestionsPerAssessment
  /\ Start(r, a, [Idle EXCEPT !.pc = "delete",
                  !.chosen = [i \in DOMAIN list |-> [question |-> list[i], order |-> i]]])
  /\ UNCHANGED <<rows, announced, joins, failures>>

DeleteSteps(r, a) ==
  /\ At(r, "delete", a)
  /\ steps' = [steps EXCEPT ![a] = <<>>]
  /\ Goto(r, "step")
  /\ UNCHANGED <<assessment, meetings, announced, joins, failures>>

\* Mutant: the orders are counted from zero.
InsertStepFromZero(r, a) ==
  /\ At(r, "step", a)
  /\ steps' = [steps EXCEPT ![a] = Append(@, [Head(frame[r].chosen) EXCEPT !.order = @ - 1])]
  /\ IF Len(frame[r].chosen) = 1
     THEN Return(r)
     ELSE frame' = [frame EXCEPT ![r].chosen = Tail(@)]
  /\ UNCHANGED <<assessment, meetings, announced, joins, failures>>

InsertStep(r, a) ==
  /\ At(r, "step", a)
  /\ steps' = [steps EXCEPT ![a] = Append(@, Head(frame[r].chosen))]
  /\ IF Len(frame[r].chosen) = 1
     THEN Return(r)
     ELSE frame' = [frame EXCEPT ![r].chosen = Tail(@)]
  /\ UNCHANGED <<assessment, meetings, announced, joins, failures>>

-----------------------------------------------------------------------------
(* POST /assessments/assign-candidates.  The quota is compared with the      *)
(* meetings that exist, before the assessment is read.                       *)

AssignCandidates(r, a, chosen) ==
  /\ Exists(a)
  /\ chosen # {}
  /\ Len(meetings) + Cardinality(chosen) <= MeetingsPerMonth
  /\ Start(r, a, [Idle EXCEPT !.pc = "load", !.row = [Null EXCEPT !.candidates = chosen]])
  /\ UNCHANGED <<rows, announced, joins, failures>>

(* A published assessment is refused.  *)
LoadAssessment(r, a) ==
  /\ At(r, "load", a)
  /\ IF Draft(a)
     THEN frame' = [frame EXCEPT ![r].pc = "assign",
                      ![r].row = [assessment[a] EXCEPT !.candidates = frame[r].row.candidates]]
     ELSE Return(r)
  /\ UNCHANGED <<rows, announced, joins, failures>>

SaveCandidates(r, a) ==
  /\ At(r, "assign", a)
  /\ SaveWithCandidates(a, frame[r].row)
  /\ Return(r)
  /\ UNCHANGED <<steps, meetings, announced, joins, failures>>

-----------------------------------------------------------------------------
(* POST /assessments/:id/publish *)

InsertMeeting(a, candidate) ==
  meetings' = Append(meetings, [assessment |-> a, candidate |-> candidate,
                                status |-> "pending", talk |-> FALSE])

\* Mutant: a published assessment is not refused.
PublishAgain(r, a) ==
  /\ Exists(a)
  /\ \E order \in SetToSeqs(assessment[a].candidates) :
       Start(r, a, [Idle EXCEPT !.pc = "check", !.row = assessment[a], !.left = order])
  /\ UNCHANGED <<rows, announced, joins, failures>>

(* The candidates come in the order in which the database returns them. *)
Publish(r, a) ==
  /\ Draft(a)
  /\ \E order \in SetToSeqs(assessment[a].candidates) :
       Start(r, a, [Idle EXCEPT !.pc = "check", !.row = assessment[a], !.left = order])
  /\ UNCHANGED <<rows, announced, joins, failures>>

CheckQuestions(r, a) ==
  /\ At(r, "check", a)
  /\ IF steps[a] # <<>> /\ frame[r].left # <<>> THEN Goto(r, "publish") ELSE Return(r)
  /\ UNCHANGED <<rows, announced, joins, failures>>

SavePublished(r, a) ==
  /\ At(r, "publish", a)
  /\ SaveWithCandidates(a, [frame[r].row EXCEPT !.status = "published"])
  /\ Goto(r, "meeting")
  /\ UNCHANGED <<steps, meetings, announced, joins, failures>>

\* Mutant: publish returns from within its loop.
createFirstMeeting(r, a) ==
  /\ At(r, "meeting", a)
  /\ InsertMeeting(a, Head(frame[r].left))
  /\ Return(r)
  /\ announced' = announced \cup {a}
  /\ UNCHANGED <<assessment, steps, joins, failures>>

(* After the last candidate the publication is notified. *)
createAssessmentMeeting(r, a) ==
  /\ At(r, "meeting", a)
  /\ InsertMeeting(a, Head(frame[r].left))
  /\ IF Len(frame[r].left) = 1
     THEN Return(r) /\ announced' = announced \cup {a}
     ELSE frame' = [frame EXCEPT ![r].left = Tail(@)] /\ UNCHANGED announced
  /\ UNCHANGED <<assessment, steps, joins, failures>>

-----------------------------------------------------------------------------
(* POST /assessments/recreate-meeting, for a list of candidates that nobody  *)
(* checks for repetitions or against the quota.                              *)

NextCandidate(r) ==
  IF Len(frame[r].left) = 1
  THEN Return(r)
  ELSE frame' = [frame EXCEPT ![r].pc = "find", ![r].left = Tail(@), ![r].meeting = 0]

RecreateMeetings(r, a, list) ==
  /\ assessment[a].status = "published"
  /\ list # <<>>
  /\ Start(r, a, [Idle EXCEPT !.pc = "find", !.row = assessment[a], !.left = list])
  /\ UNCHANGED <<rows, announced, joins, failures>>

MeetingsOf(a, candidate) ==
  {m \in DOMAIN meetings : meetings[m].assessment = a /\ meetings[m].candidate = candidate}

FindMeeting(r, a) ==
  /\ At(r, "find", a)
  /\ MeetingsOf(a, Head(frame[r].left)) = {}
  /\ Goto(r, "new")
  /\ UNCHANGED <<rows, announced, joins, failures>>

(* The meeting found has a conversation, which is emptied (Interview has     *)
(* it).  A join under way meets a recreation.                                *)
ResetMeeting(r, a) ==
  /\ At(r, "find", a)
  /\ \E m \in MeetingsOf(a, Head(frame[r].left)) :
       /\ meetings[m].talk
       /\ frame' = [frame EXCEPT ![r].pc = "reopen", ![r].meeting = m]
       /\ raced' = raced \cup {n \in {m} : \E v \in Visitors : visit[v].meeting = n}
  /\ UNCHANGED <<rows, announced, copies, visit, failures>>

\* Mutant: the status stays what it was.
ReopenNothing(r, a) ==
  /\ At(r, "reopen", a)
  /\ Goto(r, "purge")
  /\ UNCHANGED <<rows, announced, joins, failures>>

(* It is pending again ...  *)
ReopenMeeting(r, a) ==
  /\ At(r, "reopen", a)
  /\ meetings' = [meetings EXCEPT ![frame[r].meeting].status = "pending"]
  /\ Goto(r, "purge")
  /\ UNCHANGED <<assessment, steps, announced, joins, failures>>

(* ... and its questions are deleted. *)
DeleteMeetingQuestions(r, a) ==
  /\ At(r, "purge", a)
  /\ copies' = {row \in copies : row.meeting # frame[r].meeting}
  /\ NextCandidate(r)
  /\ UNCHANGED <<rows, announced, visit, failures, raced>>

(* The meeting found was never joined and has no conversation: the handler   *)
(* throws, and the candidates left are not looked at.                        *)
ResetUnjoined(r, a) ==
  /\ At(r, "find", a)
  /\ \E m \in MeetingsOf(a, Head(frame[r].left)) : ~ meetings[m].talk
  /\ Return(r)
  /\ UNCHANGED <<rows, announced, joins, failures>>

InsertNewMeeting(r, a) ==
  /\ At(r, "new", a)
  /\ InsertMeeting(a, Head(frame[r].left))
  /\ frame' = [frame EXCEPT ![r].pc = "add",
                  ![r].row.candidates = @ \cup {Head(frame[r].left)}]
  /\ UNCHANGED <<assessment, steps, announced, joins, failures>>

AddCandidate(r, a) ==
  /\ At(r, "add", a)
  /\ SaveWithCandidates(a, frame[r].row)
  /\ NextCandidate(r)
  /\ UNCHANGED <<steps, meetings, announced, joins, failures>>

-----------------------------------------------------------------------------
(* POST /assessments/:id/join, by a candidate or again by the same: any      *)
(* number of times, whatever is prepared beside it (Interview has the        *)
(* meetings it refuses, and the conversation).                               *)

Recreating(r) == frame[r].pc \in {"reopen", "purge"}

Join(v, m) ==
  /\ visit[v] = Away
  /\ visit' = [visit EXCEPT ![v] = [pc |-> "read", meeting |-> m, left |-> {}]]
  /\ raced' = raced \cup {n \in {m} : \E r \in Requests : Recreating(r) /\ frame[r].meeting = n}
  /\ UNCHANGED <<rows, announced, copies, frame, failures>>

(* The questions that the assessment of meeting m has now. *)
QuestionsFor(m) == {step.question : step \in ToSet(steps[meetings[m].assessment])}

FindQuestions(v) ==
  /\ visit[v].pc = "read"
  /\ visit' = [visit EXCEPT ![v].pc = "copy", ![v].left = QuestionsFor(visit[v].meeting)]
  /\ UNCHANGED <<rows, announced, copies, frame, failures, raced>>

(* One row after the other; the order they are asked in is Interview's.  A   *)
(* row that an earlier join added is added again, which is not counted.      *)
CopyQuestion(v, q) ==
  /\ q \in visit[v].left
  /\ copies' = copies \cup {[meeting |-> visit[v].meeting, question |-> q]}
  /\ visit' = [visit EXCEPT ![v].left = @ \ {q}]
  /\ UNCHANGED <<rows, announced, frame, failures, raced>>

(* Then the meeting is saved as joined, with a conversation. *)
Enter(v) ==
  /\ visit[v].pc = "copy"
  /\ visit[v].left = {}
  /\ meetings' = [meetings EXCEPT ![visit[v].meeting].status = "joined",
                                  ![visit[v].meeting].talk = TRUE]
  /\ visit' = [visit EXCEPT ![v] = Away]
  /\ UNCHANGED <<assessment, steps, announced, copies, frame, failures, raced>>

(* A call of the join fails. *)
Abandon(v) ==
  /\ visit[v] # Away
  /\ visit' = [visit EXCEPT ![v] = Away]
  /\ UNCHANGED <<rows, announced, copies, frame, failures, raced>>

(* A call of the database fails, or the process stops: the request ends      *)
(* where it is.                                                              *)
Fail(r) ==
  /\ frame[r] # Idle
  /\ failures < MaxFailures
  /\ failures' = failures + 1
  /\ Return(r)
  /\ UNCHANGED <<rows, announced, joins>>

Arrive(r, a) ==
  \/ \E title \in Titles : Create(r, a, title) \/ UpdateAssessment(r, a, title)
  \/ \E list \in SetToAllKPermutations(Questions) : AssignQuestions(r, a, list)
  \/ \E chosen \in SUBSET Candidates : AssignCandidates(r, a, chosen)
  \/ Publish(r, a)
  \/ \E list \in BoundedSeq(Candidates, MaxRecreated) : RecreateMeetings(r, a, list)

Continue(r, a) ==
  \/ InsertAssessment(r, a)
  \/ SaveAssessment(r, a)
  \/ DeleteSteps(r, a)
  \/ InsertStep(r, a)
  \/ LoadAssessment(r, a)
  \/ SaveCandidates(r, a)
  \/ CheckQuestions(r, a)
  \/ SavePublished(r, a)
  \/ createAssessmentMeeting(r, a)
  \/ FindMeeting(r, a)
  \/ ResetMeeting(r, a)
  \/ ReopenMeeting(r, a)
  \/ DeleteMeetingQuestions(r, a)
  \/ ResetUnjoined(r, a)
  \/ InsertNewMeeting(r, a)
  \/ AddCandidate(r, a)

joinAssessmentMeeting(v) ==
  \/ \E m \in DOMAIN meetings : Join(v, m)
  \/ FindQuestions(v)
  \/ \E q \in Questions : CopyQuestion(v, q)
  \/ Enter(v)
  \/ Abandon(v)

Next ==
  \/ \E r \in Requests, a \in Assessments : Arrive(r, a) \/ Continue(r, a)
  \/ \E v \in Visitors : joinAssessmentMeeting(v)
  \/ \E r \in Requests : Fail(r)

Spec == Init /\ [][Next]_vars

(* The event loop resumes every request whose call came back. *)
FairSpec ==
  Spec /\ \A r \in Requests : WF_vars(\E a \in Assessments : Continue(r, a))

-----------------------------------------------------------------------------
(* Properties *)

(* publish and recreateAssessmentMeeting never give a candidate two meetings *)
(* of one assessment: a link of an earlier email opens the only meeting.     *)
(* When the recruiter is told "Candidates will receive an email", each       *)
(* candidate of the assessment has that one.                                 *)
OneMeetingPerCandidate ==
  \A a \in Assessments, c \in Candidates :
    /\ Cardinality(MeetingsOf(a, c)) <= 1
    /\ a \in announced /\ c \in assessment[a].candidates => MeetingsOf(a, c) # {}

(* What is published stays so: its title and questions are settled and no    *)
(* candidate is taken off (each handler refuses a published assessment, on   *)
(* the status it read before its awaits).                                    *)
PublishedIsSettled ==
  [][\A a \in Assessments : assessment[a].status = "published" =>
       /\ assessment'[a].status = "published"
       /\ assessment'[a].title = assessment[a].title
       /\ assessment[a].candidates \subseteq assessment'[a].candidates
       /\ steps'[a] = steps[a]]_vars

(* The questions that meeting m has got. *)
Asked(m) == {row.question : row \in {c \in copies : c.meeting = m}}

(* A meeting that was joined has all the questions of its assessment and no  *)
(* others, through joins and recreations that stop halfway and are repeated: *)
(* candidates of one assessment are asked the same.  Only a join that a      *)
(* recreation of the meeting overlapped may have its rows deleted.           *)
JoinedHasQuestions ==
  \A m \in DOMAIN meetings \ raced :
    meetings[m].status = "joined" => Asked(m) = QuestionsFor(m)

(* Unless a request fails, every candidate of a published assessment gets a  *)
(* meeting.                                                                  *)
PublishedHaveMeetings ==
  \A a \in Assessments, c \in Candidates :
    (assessment[a].status = "published" /\ c \in assessment[a].candidates)
      ~> MeetingsOf(a, c) # {} \/ failures > 0

=============================================================================
