-------------------------- MODULE AssessmentsProofs --------------------------
(* Theorems about Assessments, for every set of assessments and requests,    *)
(* any tier and any number of failures.  What is settled by the status of an *)
(* assessment needs that recruiters do not work on it at once (OneAtATime):  *)
(* a handler relies on the status it read before its awaits.                 *)
EXTENDS Assessments, FiniteSetTheorems, SequenceTheorems, TLAPS

-----------------------------------------------------------------------------
(* The inductive invariant *)

(* A request in flight is on an assessment, and a loop over candidates or    *)
(* questions has one to go on with.                                          *)
RequestTyped(f) ==
  /\ f.pc = "idle" => f = Idle
  /\ f.pc # "idle" => f.on \in Assessments
  /\ f.pc \in {"delete", "step"} => f.chosen # <<>>
  /\ f.pc \in {"publish", "meeting", "find", "new", "add", "reopen", "purge"}
       => f.left # <<>>

(* A join in flight is of a meeting. *)
VisitsTyped == \A v \in Visitors : visit[v].pc # "away" => visit[v].meeting \in DOMAIN meetings

TypeInv == TypeOK /\ (\A r \in Requests : RequestTyped(frame[r])) /\ VisitsTyped

(* One request on an assessment. *)
Alone == \A r, q \in Requests : frame[r].on = frame[q].on /\ frame[r].on # None => r = q

Published(a) == assessment[a].status = "published"

(* A candidate was given a meeting of the assessment. *)
Met(a, c) == \E m \in DOMAIN meetings : meetings[m].assessment = a /\ meetings[m].candidate = c

Each(left) == \A i, j \in DOMAIN left : left[i] = left[j] => i = j

(* What a request relies on from its steps before the await: the status it   *)
(* read is still there, a row it saves differs from the one stored only in   *)
(* what the request is about, and the candidates publish has left are those  *)
(* without a meeting.                                                        *)
Work(f) ==
  LET a == f.on
  IN  /\ f.pc = "insert" => ~Exists(a) /\ f.row.status = "draft"
      /\ f.pc \in {"save", "assign"} => Draft(a) /\ f.row.status = "draft"
      /\ f.pc \in {"delete", "step"} => Draft(a)
      /\ f.pc \in {"check", "publish"} =>
           /\ Draft(a) /\ f.row = assessment[a]
           /\ Each(f.left) /\ ToSet(f.left) = f.row.candidates
      /\ f.pc = "meeting" =>
           /\ Published(a) /\ a \notin announced
           /\ Each(f.left)
           /\ \A c \in ToSet(f.left) : ~Met(a, c)
           /\ \A c \in assessment[a].candidates : Met(a, c) \/ c \in ToSet(f.left)
      /\ f.pc \in {"find", "new", "reopen", "purge"} => Published(a) /\ f.row = assessment[a]
      /\ f.pc = "new" => ~Met(a, Head(f.left))
      /\ f.pc = "add" =>
           /\ Published(a) /\ Met(a, Head(f.left))
           /\ f.row = [assessment[a] EXCEPT !.candidates = @ \cup {Head(f.left)}]

(* Only published assessments have meetings, one for each candidate.         *)
RowsInv ==
  /\ \A m \in DOMAIN meetings :
       /\ Published(meetings[m].assessment)
       /\ \A n \in DOMAIN meetings :
            /\ meetings[m].assessment = meetings[n].assessment
            /\ meetings[m].candidate = meetings[n].candidate
            => m = n
  /\ \A a \in announced : Published(a) /\ \A c \in assessment[a].candidates : Met(a, c)

Inv == TypeInv /\ Alone /\ (\A r \in Requests : Work(frame[r])) /\ RowsInv
-----------------------------------------------------------------------------
(* Sequences *)

LEMMA EachMember ==
  ASSUME NEW S, NEW s \in Seq(S)
  PROVE  ToSet(s) \subseteq S /\ \A i \in DOMAIN s : s[i] \in ToSet(s)
BY DEF ToSet

(* What a loop over a list does next and has left. *)
LEMMA HeadAndTail ==
  ASSUME NEW S, NEW s \in Seq(S), s # <<>>
  PROVE  /\ Head(s) \in S /\ Len(s) \in Nat /\ Head(s) \in ToSet(s)
         /\ Len(s) = 1 => ToSet(s) = {Head(s)}
         /\ Len(s) # 1 => /\ Tail(s) \in Seq(S) /\ Tail(s) # <<>>
                          /\ ToSet(s) = {Head(s)} \cup ToSet(Tail(s))
                          /\ Each(s) => Each(Tail(s)) /\ Head(s) \notin ToSet(Tail(s))
<1>1. /\ Len(s) \in Nat /\ Len(s) >= 1 /\ DOMAIN s = 1..Len(s) /\ Head(s) = s[1]
      /\ \A i \in 1..Len(s) : s[i] \in S
  OBVIOUS
<1>2. /\ Tail(s) \in Seq(S) /\ Len(Tail(s)) = Len(s) - 1 /\ DOMAIN Tail(s) = 1..(Len(s) - 1)
      /\ \A i \in 1..(Len(s) - 1) : Tail(s)[i] = s[i + 1]
  BY HeadTailProperties, LenProperties
<1>3. Head(s) \in S /\ Head(s) \in ToSet(s)
  BY <1>1 DEF ToSet
<1>4. ASSUME Len(s) = 1
      PROVE  ToSet(s) = {Head(s)}
  BY <1>1, <1>4 DEF ToSet
<1>5. ASSUME Len(s) # 1
      PROVE  Tail(s) # <<>> /\ ToSet(s) = {Head(s)} \cup ToSet(Tail(s))
  <2>1. Tail(s) # <<>>
    <3>1. Len(Tail(s)) # Len(<<>>)
      BY <1>1, <1>2, <1>5
    <3>2. QED
      BY <3>1
  <2>2. ASSUME NEW x \in ToSet(s)
        PROVE  x \in {Head(s)} \cup ToSet(Tail(s))
    <3>1. PICK i \in 1..Len(s) : x = s[i]
      BY <1>1, <2>2 DEF ToSet
    <3>2. CASE i = 1
      BY <1>1, <3>1, <3>2
    <3>3. CASE i # 1
      <4>1. i - 1 \in DOMAIN Tail(s) /\ Tail(s)[i - 1] = x
        BY <1>1, <1>2, <3>1, <3>3
      <4>2. QED
        BY <4>1 DEF ToSet
    <3>4. QED
      BY <3>2, <3>3
  <2>3. ASSUME NEW x \in ToSet(Tail(s))
        PROVE  x \in ToSet(s)
    <3>1. PICK i \in 1..(Len(s) - 1) : x = Tail(s)[i]
      BY <1>2, <2>3 DEF ToSet
    <3>2. i + 1 \in DOMAIN s /\ s[i + 1] = x
      BY <1>1, <1>2, <3>1
    <3>3. QED
      BY <3>2 DEF ToSet
  <2>4. QED
    BY <1>3, <2>1, <2>2, <2>3
<1>6. ASSUME Each(s)
      PROVE  Each(Tail(s)) /\ Head(s) \notin ToSet(Tail(s))
  <2>1. \A i, j \in 1..Len(s) : s[i] = s[j] => i = j
    BY <1>1, <1>6 DEF Each
  <2>2. Each(Tail(s))
    BY <1>1, <1>2, <2>1 DEF Each
  <2>3. \A i \in DOMAIN Tail(s) : Tail(s)[i] # Head(s)
    BY <1>1, <1>2, <2>1
  <2>4. QED
    BY <2>2, <2>3 DEF ToSet
<1>7. QED
  BY <1>1, <1>2, <1>3, <1>4, <1>5, <1>6

(* The candidates of an assessment, in an order of the database. *)
LEMMA OrderedCandidates ==
  ASSUME NEW S \in SUBSET Candidates, NEW order \in SetToSeqs(S)
  PROVE  order \in Seq(Candidates) /\ Each(order) /\ ToSet(order) = S
<1> DEFINE D == 1..Cardinality(S)
<1>1. IsFiniteSet(S) /\ Cardinality(S) \in Nat
  BY FiniteAssumption, FS_Subset, FS_CardinalityType
<1>2. order \in [D -> S] /\ \A i, j \in D : i # j => order[i] # order[j]
  BY DEF SetToSeqs
<1>3. order \in Seq(Candidates)
  BY <1>1, <1>2
<1>4. Each(order)
  BY <1>2 DEF Each
<1>5. ToSet(order) = S
  <2>1. order \in Injection(D, S)
    BY <1>2 DEF Injection, IsInjective
  <2>2. IsFiniteSet(D) /\ Cardinality(D) = Cardinality(S)
    BY <1>1, FS_Interval
  <2>3. order \in Surjection(D, S)
    BY <1>1, <2>1, <2>2, FS_Injection
  <2>4. QED
    BY <1>2, <2>3 DEF Surjection, ToSet
<1>6. QED
  BY <1>3, <1>4, <1>5

LEMMA ListedQuestions ==
  ASSUME NEW list \in SetToAllKPermutations(Questions)
  PROVE  list \in Seq(Questions)
<1>1. PICK S \in SUBSET Questions : list \in SetToSeqs(S)
  BY DEF SetToAllKPermutations
<1>2. Cardinality(S) \in Nat
  BY FiniteAssumption, FS_Subset, FS_CardinalityType
<1>3. QED
  BY <1>1, <1>2 DEF SetToSeqs

LEMMA ListedCandidates ==
  ASSUME NEW list \in BoundedSeq(Candidates, MaxRecreated)
  PROVE  list \in Seq(Candidates)
BY BoundsAssumption DEF BoundedSeq, SeqOf

(* A meeting is inserted: the others stay what they are. *)
LEMMA MeetingAppended ==
  ASSUME NEW S, NEW s \in Seq(S), NEW x \in S
  PROVE  /\ Append(s, x) \in Seq(S)
         /\ DOMAIN Append(s, x) = DOMAIN s \cup {Len(s) + 1}
         /\ Len(s) + 1 \notin DOMAIN s
         /\ \A i \in DOMAIN s : Append(s, x)[i] = s[i]
         /\ Append(s, x)[Len(s) + 1] = x
         /\ Append(s, x) # <<>>
OBVIOUS

-----------------------------------------------------------------------------
(* Frames *)

LEMMA NullIsAssessment == Null \in Assessment
BY DEF Null, Assessment, AssessmentStatus

LEMMA IdleIsFrame ==
  /\ Idle \in Frame /\ RequestTyped(Idle)
  /\ Idle.pc = "idle" /\ Idle.on = None /\ Idle.row = Null
  /\ Idle.left = <<>> /\ Idle.chosen = <<>> /\ Idle.meeting = 0
<1>1. /\ Idle.pc = "idle" /\ Idle.on = None /\ Idle.row = Null
      /\ Idle.left = <<>> /\ Idle.chosen = <<>> /\ Idle.meeting = 0
  BY DEF Idle
<1>2. Idle \in Frame
  BY NullIsAssessment DEF Idle, Frame, PCs
<1>3. QED
  BY <1>1, <1>2 DEF RequestTyped

LEMMA GotoFrame ==
  ASSUME frame \in [Requests -> Frame], NEW r \in Requests, NEW pc \in PCs, Goto(r, pc)
  PROVE  /\ frame' \in [Requests -> Frame]
         /\ \A q \in Requests : q # r => frame'[q] = frame[q]
         /\ frame'[r].pc = pc /\ frame'[r].on = frame[r].on /\ frame'[r].row = frame[r].row
         /\ frame'[r].left = frame[r].left /\ frame'[r].chosen = frame[r].chosen
         /\ frame'[r].meeting = frame[r].meeting
BY DEF Goto, Frame

LEMMA ReturnFrame ==
  ASSUME frame \in [Requests -> Frame], NEW r \in Requests, Return(r)
  PROVE  /\ frame' \in [Requests -> Frame] /\ frame'[r] = Idle
         /\ \A q \in Requests : q # r => frame'[q] = frame[q]
BY IdleIsFrame DEF Return

LEMMA StartFrame ==
  ASSUME frame \in [Requests -> Frame], NEW r \in Requests, NEW a \in Assessments,
         NEW f \in Frame, Start(r, a, f)
  PROVE  /\ frame' \in [Requests -> Frame]
         /\ \A q \in Requests : q # r => frame'[q] = frame[q]
         /\ frame'[r].pc = f.pc /\ frame'[r].on = a /\ frame'[r].row = f.row
         /\ frame'[r].left = f.left /\ frame'[r].chosen = f.chosen
         /\ OneAtATime => \A q \in Requests : frame[q].on # a
BY DEF Start, Frame

(* What a request holds when it begins. *)
LEMMA WithRow ==
  ASSUME NEW pc \in PCs, NEW row \in Assessment
  PROVE  LET f == [Idle EXCEPT !.pc = pc, !.row = row]
         IN  f \in Frame /\ f.pc = pc /\ f.row = row
BY IdleIsFrame DEF Frame

LEMMA WithQuestions ==
  ASSUME NEW pc \in PCs, NEW chosen \in Seq(Step)
  PROVE  LET f == [Idle EXCEPT !.pc = pc, !.chosen = chosen]
         IN  f \in Frame /\ f.pc = pc /\ f.chosen = chosen
BY IdleIsFrame DEF Frame

(* What each of the requests has made sure of before its first await.        *)
Begins(a, f) ==
  /\ f.pc \in {"insert", "save", "delete", "load", "check", "find"}
  /\ f.pc = "insert" => ~Exists(a) /\ f.row.status = "draft"
  /\ f.pc = "save" => Draft(a) /\ f.row.status = "draft"
  /\ f.pc = "delete" => Draft(a) /\ f.chosen # <<>>
  /\ f.pc = "check" =>
       /\ Draft(a) /\ f.row = assessment[a]
       /\ Each(f.left) /\ ToSet(f.left) = f.row.candidates
  /\ f.pc = "find" => Published(a) /\ f.row = assessment[a] /\ f.left # <<>>

LEMMA CreateBegins ==
  ASSUME NEW r \in Requests, NEW a \in Assessments, NEW title \in Titles, Create(r, a, title)
  PROVE  \E f \in Frame : Start(r, a, f) /\ Begins(a, f)
<1> DEFINE row == [Null EXCEPT !.status = "draft", !.title = title]
           f == [Idle EXCEPT !.pc = "insert", !.row = row]
<1>1. row \in Assessment /\ row.status = "draft"
  BY NullIsAssessment DEF Null, Assessment, AssessmentStatus
<1>2. ~Exists(a) /\ Start(r, a, f)
  BY DEF Create
<1> HIDE DEF row
<1>3. f \in Frame /\ f.pc = "insert" /\ f.row = row
  BY <1>1, WithRow DEF PCs
<1> HIDE DEF f
<1>4. QED
  BY <1>1, <1>2, <1>3 DEF Begins

LEMMA UpdateBegins ==
  ASSUME TypeOK, NEW r \in Requests, NEW a \in Assessments, NEW title \in Titles,
         UpdateAssessment(r, a, title)
  PROVE  \E f \in Frame : Start(r, a, f) /\ Begins(a, f)
<1> DEFINE row == [assessment[a] EXCEPT !.title = title]
           f == [Idle EXCEPT !.pc = "save", !.row = row]
<1>1. Draft(a) /\ Start(r, a, f)
  BY DEF UpdateAssessment
<1>2. row \in Assessment /\ row.status = "draft"
  BY <1>1 DEF TypeOK, Assessment, Draft
<1> HIDE DEF row
<1>3. f \in Frame /\ f.pc = "save" /\ f.row = row
  BY <1>2, WithRow DEF PCs
<1> HIDE DEF f
<1>4. QED
  BY <1>1, <1>2, <1>3 DEF Begins

LEMMA AssignQuestionsBegins ==
  ASSUME NEW r \in Requests, NEW a \in Assessments,
         NEW list \in SetToAllKPermutations(Questions), AssignQuestions(r, a, list)
  PROVE  \E f \in Frame : Start(r, a, f) /\ Begins(a, f)
<1> DEFINE chosen == [i \in DOMAIN list |-> [question |-> list[i], order |-> i]]
           f == [Idle EXCEPT !.pc = "delete", !.chosen = chosen]
<1>1. Draft(a) /\ Start(r, a, f) /\ Len(list) \in 2..QuestionsPerAssessment
  BY DEF AssignQuestions
<1>2. /\ list \in Seq(Questions) /\ Len(list) \in Nat /\ DOMAIN list = 1..Len(list)
      /\ \A i \in 1..Len(list) : list[i] \in Questions
  BY ListedQuestions
<1>3. \A i \in 1..Len(list) : [question |-> list[i], order |-> i] \in Step
  BY <1>2 DEF Step
<1>4. chosen \in [1..Len(list) -> Step] /\ Len(list) >= 2
  BY <1>1, <1>2, <1>3, TierAssumption
<1>5. chosen \in Seq(Step) /\ chosen # <<>>
  <2> HIDE DEF chosen
  <2>1. chosen \in Seq(Step) /\ 1 \in DOMAIN chosen
    BY <1>2, <1>4
  <2>2. QED
    BY <2>1
<1> HIDE DEF chosen
<1>6. f \in Frame /\ f.pc = "delete" /\ f.chosen = chosen
  BY <1>5, WithQuestions DEF PCs
<1> HIDE DEF f
<1>7. QED
  BY <1>1, <1>5, <1>6 DEF Begins

LEMMA AssignCandidatesBegins ==
  ASSUME NEW r \in Requests, NEW a \in Assessments, NEW chosen \in SUBSET Candidates,
         AssignCandidates(r, a, chosen)
  PROVE  \E f \in Frame : Start(r, a, f) /\ Begins(a, f)
<1> DEFINE row == [Null EXCEPT !.candidates = chosen]
           f == [Idle EXCEPT !.pc = "load", !.row = row]
<1>1. row \in Assessment
  BY NullIsAssessment DEF Assessment
<1>2. Start(r, a, f)
  BY DEF AssignCandidates
<1> HIDE DEF row
<1>3. f \in Frame /\ f.pc = "load" /\ f.row = row
  BY <1>1, WithRow DEF PCs
<1> HIDE DEF f
<1>4. QED
  BY <1>2, <1>3 DEF Begins

LEMMA PublishBegins ==
  ASSUME TypeOK, NEW r \in Requests, NEW a \in Assessments, Publish(r, a)
  PROVE  \E f \in Frame : Start(r, a, f) /\ Begins(a, f)
<1> DEFINE row == assessment[a]
<1>1. row \in Assessment /\ row.candidates \in SUBSET Candidates
  BY DEF TypeOK, Assessment
<1>2. Draft(a) /\ \E order \in SetToSeqs(row.candidates) :
        Start(r, a, [Idle EXCEPT !.pc = "check", !.row = row, !.left = order])
  BY DEF Publish
<1> HIDE DEF row
<1>3. ASSUME NEW order \in SetToSeqs(row.candidates),
             Start(r, a, [Idle EXCEPT !.pc = "check", !.row = row, !.left = order])
      PROVE  \E f \in Frame : Start(r, a, f) /\ Begins(a, f)
  <2> DEFINE f == [Idle EXCEPT !.pc = "check", !.row = row, !.left = order]
  <2>1. order \in Seq(Candidates) /\ Each(order) /\ ToSet(order) = row.candidates
    BY <1>1, OrderedCandidates
  <2>2. f \in Frame /\ f.pc = "check" /\ f.row = row /\ f.left = order
    BY <1>1, <2>1, IdleIsFrame DEF Frame, PCs
  <2>3. Start(r, a, f)
    BY <1>3
  <2> HIDE DEF f
  <2>4. QED
    BY <1>2, <2>1, <2>2, <2>3 DEF Begins, row
<1>4. QED
  BY <1>2, <1>3

LEMMA RecreateBegins ==
  ASSUME TypeOK, NEW r \in Requests, NEW a \in Assessments,
         NEW list \in BoundedSeq(Candidates, MaxRecreated), RecreateMeetings(r, a, list)
  PROVE  \E f \in Frame : Start(r, a, f) /\ Begins(a, f)
<1> DEFINE row == assessment[a]
           f == [Idle EXCEPT !.pc = "find", !.row = row, !.left = list]
<1>1. row \in Assessment /\ list \in Seq(Candidates)
  BY ListedCandidates DEF TypeOK
<1>2. Published(a) /\ list # <<>> /\ Start(r, a, f)
  BY DEF RecreateMeetings, Published
<1> HIDE DEF row
<1>3. f \in Frame /\ f.pc = "find" /\ f.row = row /\ f.left = list
  BY <1>1, IdleIsFrame DEF Frame, PCs
<1> HIDE DEF f
<1>4. QED
  BY <1>2, <1>3 DEF Begins, row

LEMMA Beginnings ==
  ASSUME TypeOK, NEW r \in Requests, NEW a \in Assessments, Arrive(r, a)
  PROVE  /\ UNCHANGED <<assessment, steps, meetings, announced, joins, failures>>
         /\ \E f \in Frame : Start(r, a, f) /\ Begins(a, f)
<1>1. CASE \E title \in Titles : Create(r, a, title)
  BY <1>1, CreateBegins DEF Create, rows
<1>2. CASE \E title \in Titles : UpdateAssessment(r, a, title)
  BY <1>2, UpdateBegins DEF UpdateAssessment, rows
<1>3. CASE \E list \in SetToAllKPermutations(Questions) : AssignQuestions(r, a, list)
  BY <1>3, AssignQuestionsBegins DEF AssignQuestions, rows
<1>4. CASE \E chosen \in SUBSET Candidates : AssignCandidates(r, a, chosen)
  BY <1>4, AssignCandidatesBegins DEF AssignCandidates, rows
<1>5. CASE Publish(r, a)
  BY <1>5, PublishBegins DEF Publish, rows
<1>6. CASE \E list \in BoundedSeq(Candidates, MaxRecreated) : RecreateMeetings(r, a, list)
  BY <1>6, RecreateBegins DEF RecreateMeetings, rows
<1>7. QED
  BY <1>1, <1>2, <1>3, <1>4, <1>5, <1>6 DEF Arrive

-----------------------------------------------------------------------------
(* How a request goes on *)

LEMMA FrameFields ==
  ASSUME frame \in [Requests -> Frame], NEW r \in Requests
  PROVE  /\ frame[r].pc \in PCs /\ frame[r].row \in Assessment
         /\ frame[r].left \in Seq(Candidates) /\ frame[r].chosen \in Seq(Step)
         /\ frame[r].meeting \in Nat
BY DEF Frame

LEMMA ChosenFrame ==
  ASSUME frame \in [Requests -> Frame], NEW r \in Requests, Tail(frame[r].chosen) \in Seq(Step),
         frame' = [frame EXCEPT ![r].chosen = Tail(@)]
  PROVE  /\ frame' \in [Requests -> Frame]
         /\ \A q \in Requests : q # r => frame'[q] = frame[q]
         /\ frame'[r].pc = frame[r].pc /\ frame'[r].on = frame[r].on
         /\ frame'[r].chosen = Tail(frame[r].chosen)
BY DEF Frame

LEMMA LeftFrame ==
  ASSUME frame \in [Requests -> Frame], NEW r \in Requests,
         Tail(frame[r].left) \in Seq(Candidates),
         frame' = [frame EXCEPT ![r].left = Tail(@)]
  PROVE  /\ frame' \in [Requests -> Frame]
         /\ \A q \in Requests : q # r => frame'[q] = frame[q]
         /\ frame'[r].pc = frame[r].pc /\ frame'[r].on = frame[r].on
         /\ frame'[r].row = frame[r].row /\ frame'[r].left = Tail(frame[r].left)
BY DEF Frame

LEMMA FindFrame ==
  ASSUME frame \in [Requests -> Frame], NEW r \in Requests,
         Tail(frame[r].left) \in Seq(Candidates),
         frame' = [frame EXCEPT ![r].pc = "find", ![r].left = Tail(@), ![r].meeting = 0]
  PROVE  /\ frame' \in [Requests -> Frame]
         /\ \A q \in Requests : q # r => frame'[q] = frame[q]
         /\ frame'[r].pc = "find" /\ frame'[r].on = frame[r].on
         /\ frame'[r].row = frame[r].row /\ frame'[r].left = Tail(frame[r].left)
BY DEF Frame, PCs

LEMMA ReopenFrame ==
  ASSUME frame \in [Requests -> Frame], NEW r \in Requests, NEW m \in Nat,
         frame' = [frame EXCEPT ![r].pc = "reopen", ![r].meeting = m]
  PROVE  /\ frame' \in [Requests -> Frame]
         /\ \A q \in Requests : q # r => frame'[q] = frame[q]
         /\ frame'[r].pc = "reopen" /\ frame'[r].on = frame[r].on
         /\ frame'[r].row = frame[r].row /\ frame'[r].left = frame[r].left
         /\ frame'[r].meeting = m
BY DEF Frame, PCs

LEMMA LoadFrame ==
  ASSUME frame \in [Requests -> Frame], NEW r \in Requests, NEW row \in Assessment,
         frame' = [frame EXCEPT ![r].pc = "assign", ![r].row = row]
  PROVE  /\ frame' \in [Requests -> Frame]
         /\ \A q \in Requests : q # r => frame'[q] = frame[q]
         /\ frame'[r].pc = "assign" /\ frame'[r].on = frame[r].on /\ frame'[r].row = row
BY DEF Frame, PCs

LEMMA NewFrame ==
  ASSUME frame \in [Requests -> Frame], NEW r \in Requests, NEW c \in Candidates,
         frame' = [frame EXCEPT ![r].pc = "add", ![r].row.candidates = @ \cup {c}]
  PROVE  /\ frame' \in [Requests -> Frame]
         /\ \A q \in Requests : q # r => frame'[q] = frame[q]
         /\ frame'[r].pc = "add" /\ frame'[r].on = frame[r].on
         /\ frame'[r].row = [frame[r].row EXCEPT !.candidates = @ \cup {c}]
         /\ frame'[r].left = frame[r].left
<1> DEFINE row == [frame[r].row EXCEPT !.candidates = @ \cup {c}]
<1>1. frame[r] \in Frame /\ frame[r].row \in Assessment
  BY DEF Frame
<1>2. row \in Assessment
  BY <1>1 DEF Assessment
<1>3. frame' = [frame EXCEPT ![r] = [@ EXCEPT !.pc = "add", !.row = row]]
  OBVIOUS
<1> HIDE DEF row
<1>4. LET f == [frame[r] EXCEPT !.pc = "add", !.row = row]
      IN  /\ f \in Frame /\ f.pc = "add" /\ f.on = frame[r].on
          /\ f.row = row /\ f.left = frame[r].left
  BY <1>1, <1>2 DEF Frame, PCs
<1>5. QED
  BY <1>3, <1>4 DEF row

LEMMA NextCandidateFrame ==
  ASSUME frame \in [Requests -> Frame], NEW r \in Requests, frame[r].left # <<>>,
         NextCandidate(r)
  PROVE  /\ frame' \in [Requests -> Frame]
         /\ \A q \in Requests : q # r => frame'[q] = frame[q]
         /\ \/ frame'[r] = Idle
            \/ /\ frame'[r].pc = "find" /\ frame'[r].on = frame[r].on
               /\ frame'[r].row = frame[r].row
               /\ frame'[r].left = Tail(frame[r].left) /\ frame'[r].left # <<>>
<1>1. frame[r].left \in Seq(Candidates)
  BY FrameFields
<1>2. CASE Len(frame[r].left) = 1
  <2>1. Return(r)
    BY <1>2 DEF NextCandidate
  <2>2. QED
    BY <2>1, ReturnFrame
<1>3. CASE Len(frame[r].left) # 1
  <2>1. Tail(frame[r].left) \in Seq(Candidates) /\ Tail(frame[r].left) # <<>>
    BY <1>1, <1>3, HeadAndTail
  <2>2. frame' = [frame EXCEPT ![r].pc = "find", ![r].left = Tail(@), ![r].meeting = 0]
    BY <1>3 DEF NextCandidate
  <2>3. QED
    BY <2>1, <2>2, FindFrame
<1>4. QED
  BY <1>2, <1>3

-----------------------------------------------------------------------------
(* How a step changes the meetings. *)

LEMMA InsertedMeeting ==
  ASSUME TypeOK, NEW a \in Assessments, NEW c \in Candidates, InsertMeeting(a, c)
  PROVE  /\ meetings' \in Seq(Meeting)
         /\ LET k == Len(meetings) + 1
            IN  /\ k \notin DOMAIN meetings /\ DOMAIN meetings' = DOMAIN meetings \cup {k}
                /\ meetings'[k].assessment = a /\ meetings'[k].candidate = c
                /\ meetings'[k].status = "pending"
         /\ \A m \in DOMAIN meetings : meetings'[m] = meetings[m]
<1> DEFINE x == [assessment |-> a, candidate |-> c, status |-> "pending", talk |-> FALSE]
<1>1. x \in Meeting /\ x.assessment = a /\ x.candidate = c /\ x.status = "pending"
  BY DEF Meeting
<1>2. meetings' = Append(meetings, x) /\ meetings \in Seq(Meeting)
  BY DEF InsertMeeting, TypeOK
<1> HIDE DEF x
<1>3. QED
  BY <1>1, <1>2, MeetingAppended

LEMMA UpdatedMeeting ==
  ASSUME meetings \in Seq(Meeting), NEW m \in DOMAIN meetings, NEW x \in Meeting,
         meetings' = [meetings EXCEPT ![m] = x]
  PROVE  /\ meetings' \in Seq(Meeting) /\ DOMAIN meetings' = DOMAIN meetings
         /\ meetings'[m] = x
         /\ \A n \in DOMAIN meetings : n # m => meetings'[n] = meetings[n]
<1>1. DOMAIN meetings = 1..Len(meetings)
  OBVIOUS
<1>2. QED
  BY <1>1, ExceptSeq

LEMMA AskedAreQuestions ==
  ASSUME TypeOK, NEW m \in DOMAIN meetings
  PROVE  QuestionsFor(m) \subseteq Questions
<1>1. meetings[m] \in Meeting
  BY DEF TypeOK
<1>2. PICK list \in Seq(Step) : list = steps[meetings[m].assessment]
  BY <1>1 DEF TypeOK, Meeting
<1>3. ToSet(list) \subseteq Step
  BY <1>2, EachMember
<1>4. QED
  BY <1>2, <1>3 DEF QuestionsFor, Step

(* A meeting is reopened, or entered. *)
LEMMA ReopenedMeeting ==
  ASSUME TypeOK, NEW k \in Nat, meetings' = [meetings EXCEPT ![k].status = "pending"]
  PROVE  /\ meetings' \in Seq(Meeting) /\ DOMAIN meetings' = DOMAIN meetings
         /\ \A n \in DOMAIN meetings :
              /\ meetings'[n].assessment = meetings[n].assessment
              /\ meetings'[n].candidate = meetings[n].candidate
              /\ n # k => meetings'[n] = meetings[n]
              /\ n = k => meetings'[n].status = "pending"
<1>1. meetings \in Seq(Meeting)
  BY DEF TypeOK
<1>2. CASE k \in DOMAIN meetings
  <2> DEFINE x == [meetings[k] EXCEPT !.status = "pending"]
  <2>1. meetings[k] \in Meeting
    BY <1>1, <1>2
  <2>2. meetings' = [meetings EXCEPT ![k] = x]
    OBVIOUS
  <2>3. x \in Meeting /\ x.assessment = meetings[k].assessment
        /\ x.candidate = meetings[k].candidate /\ x.status = "pending"
    BY <2>1 DEF Meeting
  <2> HIDE DEF x
  <2>4. QED
    BY <1>1, <1>2, <2>2, <2>3, UpdatedMeeting
<1>3. CASE k \notin DOMAIN meetings
  <2>1. meetings' = meetings
    <3>1. meetings = [n \in 1..Len(meetings) |-> meetings[n]] /\ DOMAIN meetings = 1..Len(meetings)
      BY <1>1
    <3>2. meetings' = [n \in 1..Len(meetings) |-> meetings[n]]
      BY <1>3, <3>1
    <3>3. QED
      BY <3>1, <3>2
  <2>2. QED
    BY <1>1, <1>3, <2>1
<1>4. QED
  BY <1>2, <1>3

LEMMA EnteredMeeting ==
  ASSUME TypeOK, NEW k \in DOMAIN meetings,
         meetings' = [meetings EXCEPT ![k].status = "joined", ![k].talk = TRUE]
  PROVE  /\ meetings' \in Seq(Meeting) /\ DOMAIN meetings' = DOMAIN meetings
         /\ \A n \in DOMAIN meetings :
              /\ meetings'[n].assessment = meetings[n].assessment
              /\ meetings'[n].candidate = meetings[n].candidate
              /\ n # k => meetings'[n] = meetings[n]
<1> DEFINE x == [meetings[k] EXCEPT !.status = "joined", !.talk = TRUE]
<1>1. meetings \in Seq(Meeting) /\ meetings[k] \in Meeting
  BY DEF TypeOK
<1>2. meetings' = [meetings EXCEPT ![k] = x]
  OBVIOUS
<1>3. x \in Meeting /\ x.assessment = meetings[k].assessment /\ x.candidate = meetings[k].candidate
  BY <1>1 DEF Meeting
<1> HIDE DEF x
<1>4. QED
  BY <1>1, <1>2, <1>3, UpdatedMeeting

-----------------------------------------------------------------------------
(* Type correctness *)

LEMMA OthersTyped ==
  ASSUME TypeInv, NEW r \in Requests, \A q \in Requests : q # r => frame'[q] = frame[q],
         RequestTyped(frame[r])'
  PROVE  \A q \in Requests : RequestTyped(frame[q])'
BY DEF TypeInv, RequestTyped

(* A step that returns, and one that only goes on. *)
LEMMA ReturnTyped ==
  ASSUME TypeInv, NEW r \in Requests, Return(r)
  PROVE  frame' \in [Requests -> Frame] /\ \A q \in Requests : RequestTyped(frame[q])'
<1>1. /\ frame' \in [Requests -> Frame] /\ frame'[r] = Idle
      /\ \A q \in Requests : q # r => frame'[q] = frame[q]
  BY ReturnFrame DEF TypeInv, TypeOK
<1>2. RequestTyped(frame[r])'
  BY <1>1, IdleIsFrame
<1>3. QED
  BY <1>1, <1>2, OthersTyped

LEMMA GotoTyped ==
  ASSUME TypeInv, NEW r \in Requests, NEW pc \in PCs \ {"idle"}, Goto(r, pc),
         frame[r].pc # "idle",
         pc \in {"delete", "step"} => frame[r].chosen # <<>>,
         pc \in {"publish", "meeting", "find", "new", "add", "reopen", "purge"} => frame[r].left # <<>>
  PROVE  frame' \in [Requests -> Frame] /\ \A q \in Requests : RequestTyped(frame[q])'
<1>1. /\ frame' \in [Requests -> Frame]
      /\ \A q \in Requests : q # r => frame'[q] = frame[q]
      /\ frame'[r].pc = pc /\ frame'[r].on = frame[r].on
      /\ frame'[r].left = frame[r].left /\ frame'[r].chosen = frame[r].chosen
  BY GotoFrame DEF TypeInv, TypeOK
<1>2. frame[r].on \in Assessments
  BY DEF TypeInv, RequestTyped
<1>3. RequestTyped(frame[r])'
  BY <1>1, <1>2 DEF RequestTyped
<1>4. QED
  BY <1>1, <1>3, OthersTyped

LEMMA TypeArrive ==
  ASSUME TypeInv, NEW r \in Requests, NEW a \in Assessments, Arrive(r, a)
  PROVE  TypeInv'
<1>1. PICK f \in Frame : Start(r, a, f) /\ Begins(a, f)
  BY Beginnings DEF TypeInv
<1>2. UNCHANGED <<assessment, steps, meetings, announced, joins, failures>>
  BY Beginnings DEF TypeInv
<1>3. /\ frame' \in [Requests -> Frame]
      /\ \A q \in Requests : q # r => frame'[q] = frame[q]
      /\ frame'[r].pc = f.pc /\ frame'[r].on = a
      /\ frame'[r].left = f.left /\ frame'[r].chosen = f.chosen
  BY <1>1, StartFrame DEF TypeInv, TypeOK
<1>4. RequestTyped(frame[r])'
  BY <1>1, <1>3 DEF Begins, RequestTyped
<1>5. QED
  BY <1>2, <1>3, <1>4, OthersTyped DEF TypeInv, TypeOK, VisitsTyped, joins

(* The steps that write the assessment's row. *)
LEMMA TypeRow ==
  ASSUME TypeInv, NEW r \in Requests, NEW a \in Assessments,
         \/ InsertAssessment(r, a) \/ SaveAssessment(r, a) \/ SaveCandidates(r, a)
         \/ SavePublished(r, a) \/ AddCandidate(r, a)
  PROVE  TypeInv'
<1>1. /\ frame[r].pc \in PCs /\ frame[r].row \in Assessment /\ RequestTyped(frame[r])
      /\ assessment[a] \in Assessment /\ assessment \in [Assessments -> Assessment]
  BY FrameFields DEF TypeInv, TypeOK
<1>2. PICK row \in Assessment : assessment' = [assessment EXCEPT ![a] = row]
  <2>1. CASE InsertAssessment(r, a) \/ SaveCandidates(r, a) \/ AddCandidate(r, a)
    BY <1>1, <2>1 DEF InsertAssessment, SaveCandidates, AddCandidate, SaveWithCandidates
  <2>2. CASE SaveAssessment(r, a)
    <3>1. [frame[r].row EXCEPT !.candidates = assessment[a].candidates] \in Assessment
      BY <1>1 DEF Assessment
    <3>2. QED
      BY <2>2, <3>1 DEF SaveAssessment, SaveColumns
  <2>3. CASE SavePublished(r, a)
    <3>1. [frame[r].row EXCEPT !.status = "published"] \in Assessment
      BY <1>1 DEF Assessment, AssessmentStatus
    <3>2. QED
      BY <2>3, <3>1 DEF SavePublished, SaveWithCandidates
  <2>4. QED
    BY <2>1, <2>2, <2>3
<1>3. assessment' \in [Assessments -> Assessment]
  BY <1>1, <1>2
<1>4. frame' \in [Requests -> Frame] /\ \A q \in Requests : RequestTyped(frame[q])'
  <2>1. CASE InsertAssessment(r, a) \/ SaveAssessment(r, a) \/ SaveCandidates(r, a)
    BY <2>1, ReturnTyped DEF InsertAssessment, SaveAssessment, SaveCandidates
  <2>2. CASE SavePublished(r, a)
    <3>1. Goto(r, "meeting") /\ frame[r].pc = "publish"
      BY <2>2 DEF SavePublished, At
    <3>2. frame[r].left # <<>>
      BY <1>1, <3>1 DEF RequestTyped
    <3>3. QED
      BY <3>1, <3>2, GotoTyped DEF PCs
  <2>3. CASE AddCandidate(r, a)
    <3>1. NextCandidate(r) /\ frame[r].pc = "add" /\ frame[r].on = a
      BY <2>3 DEF AddCandidate, At
    <3>2. frame[r].left # <<>> /\ frame \in [Requests -> Frame]
      BY <1>1, <3>1 DEF RequestTyped, TypeInv, TypeOK
    <3>3. /\ frame' \in [Requests -> Frame]
          /\ \A q \in Requests : q # r => frame'[q] = frame[q]
          /\ \/ frame'[r] = Idle
             \/ frame'[r].pc = "find" /\ frame'[r].on = frame[r].on /\ frame'[r].left # <<>>
      BY <3>1, <3>2, NextCandidateFrame
    <3>4. RequestTyped(frame[r])'
      BY <3>1, <3>3, IdleIsFrame DEF RequestTyped
    <3>5. QED
      BY <3>3, <3>4, OthersTyped
  <2>4. QED
    BY <2>1, <2>2, <2>3
<1>5. UNCHANGED <<steps, meetings, announced, joins, failures>>
  BY DEF InsertAssessment, SaveAssessment, SaveCandidates, SavePublished, AddCandidate
<1>6. QED
  BY <1>3, <1>4, <1>5 DEF TypeInv, TypeOK, VisitsTyped, joins

(* The steps that write the questions. *)
LEMMA TypeSteps ==
  ASSUME TypeInv, NEW r \in Requests, NEW a \in Assessments,
         DeleteSteps(r, a) \/ InsertStep(r, a)
  PROVE  TypeInv'
<1>1. /\ frame \in [Requests -> Frame] /\ RequestTyped(frame[r])
      /\ frame[r].chosen \in Seq(Step)
      /\ steps \in [Assessments -> Seq(Step)] /\ steps[a] \in Seq(Step)
  BY FrameFields DEF TypeInv, TypeOK
<1>2. frame[r].pc \in {"delete", "step"} /\ frame[r].chosen # <<>> /\ frame[r].on \in Assessments
  BY <1>1 DEF DeleteSteps, InsertStep, At, RequestTyped
<1>3. CASE DeleteSteps(r, a)
  <2>1. steps' = [steps EXCEPT ![a] = <<>>] /\ Goto(r, "step")
    BY <1>3 DEF DeleteSteps
  <2>2. steps' \in [Assessments -> Seq(Step)]
    BY <1>1, <2>1
  <2>3. frame' \in [Requests -> Frame] /\ \A q \in Requests : RequestTyped(frame[q])'
    BY <1>2, <2>1, GotoTyped DEF PCs
  <2>4. UNCHANGED <<assessment, meetings, announced, joins, failures>>
    BY <1>3 DEF DeleteSteps
  <2>5. QED
    BY <2>2, <2>3, <2>4 DEF TypeInv, TypeOK, VisitsTyped, joins
<1>4. CASE InsertStep(r, a)
  <2>1. Head(frame[r].chosen) \in Step
    BY <1>1, <1>2, HeadAndTail
  <2>2. steps' = [steps EXCEPT ![a] = Append(steps[a], Head(frame[r].chosen))]
    BY <1>4 DEF InsertStep
  <2>3. steps' \in [Assessments -> Seq(Step)]
    BY <1>1, <2>1, <2>2
  <2>4. frame' \in [Requests -> Frame] /\ \A q \in Requests : RequestTyped(frame[q])'
    <3>1. CASE Len(frame[r].chosen) = 1
      BY <1>4, <3>1, ReturnTyped DEF InsertStep
    <3>2. CASE Len(frame[r].chosen) # 1
      <4>1. Tail(frame[r].chosen) \in Seq(Step) /\ Tail(frame[r].chosen) # <<>>
        BY <1>1, <1>2, <3>2, HeadAndTail
      <4>2. frame' = [frame EXCEPT ![r].chosen = Tail(@)]
        BY <1>4, <3>2 DEF InsertStep
      <4>3. /\ frame' \in [Requests -> Frame]
            /\ \A q \in Requests : q # r => frame'[q] = frame[q]
            /\ frame'[r].pc = frame[r].pc /\ frame'[r].on = frame[r].on
            /\ frame'[r].chosen = Tail(frame[r].chosen)
        BY <1>1, <4>1, <4>2, ChosenFrame
      <4>4. RequestTyped(frame[r])'
        BY <1>2, <4>1, <4>3 DEF RequestTyped
      <4>5. QED
        BY <4>3, <4>4, OthersTyped
    <3>3. QED
      BY <3>1, <3>2
  <2>5. UNCHANGED <<assessment, meetings, announced, joins, failures>>
    BY <1>4 DEF InsertStep
  <2>6. QED
    BY <2>3, <2>4, <2>5 DEF TypeInv, TypeOK, VisitsTyped, joins
<1>5. QED
  BY <1>3, <1>4

(* The steps that give candidates their meetings. *)
LEMMA TypeMeetings ==
  ASSUME TypeInv, NEW r \in Requests, NEW a \in Assessments,
         createAssessmentMeeting(r, a) \/ InsertNewMeeting(r, a)
  PROVE  TypeInv'
<1>1. /\ frame \in [Requests -> Frame] /\ RequestTyped(frame[r])
      /\ frame[r].left \in Seq(Candidates) /\ TypeOK
  BY FrameFields DEF TypeInv, TypeOK
<1>2. /\ frame[r].pc \in {"meeting", "new"} /\ frame[r].on \in Assessments
      /\ frame[r].left # <<>>
  BY <1>1 DEF createAssessmentMeeting, InsertNewMeeting, At, RequestTyped
<1>3. Head(frame[r].left) \in Candidates
  BY <1>1, <1>2, HeadAndTail
<1>4. meetings' \in Seq(Meeting) /\ DOMAIN meetings \subseteq DOMAIN meetings'
  BY <1>1, <1>3, InsertedMeeting DEF createAssessmentMeeting, InsertNewMeeting
<1>5. frame' \in [Requests -> Frame] /\ \A q \in Requests : RequestTyped(frame[q])'
  <2>1. CASE createAssessmentMeeting(r, a)
    <3>1. CASE Len(frame[r].left) = 1
      BY <2>1, <3>1, ReturnTyped DEF createAssessmentMeeting
    <3>2. CASE Len(frame[r].left) # 1
      <4>1. Tail(frame[r].left) \in Seq(Candidates) /\ Tail(frame[r].left) # <<>>
        BY <1>1, <1>2, <3>2, HeadAndTail
      <4>2. frame' = [frame EXCEPT ![r].left = Tail(@)] /\ frame[r].pc = "meeting"
        BY <2>1, <3>2 DEF createAssessmentMeeting, At
      <4>3. /\ frame' \in [Requests -> Frame]
            /\ \A q \in Requests : q # r => frame'[q] = frame[q]
            /\ frame'[r].pc = frame[r].pc /\ frame'[r].on = frame[r].on
            /\ frame'[r].left = Tail(frame[r].left)
        BY <1>1, <4>1, <4>2, LeftFrame
      <4>4. RequestTyped(frame[r])'
        BY <1>2, <4>1, <4>2, <4>3 DEF RequestTyped
      <4>5. QED
        BY <4>3, <4>4, OthersTyped
    <3>3. QED
      BY <3>1, <3>2
  <2>2. CASE InsertNewMeeting(r, a)
    <3>1. frame' = [frame EXCEPT ![r].pc = "add",
                       ![r].row.candidates = @ \cup {Head(frame[r].left)}]
      BY <2>2 DEF InsertNewMeeting
    <3>2. /\ frame' \in [Requests -> Frame]
          /\ \A q \in Requests : q # r => frame'[q] = frame[q]
          /\ frame'[r].pc = "add" /\ frame'[r].on = frame[r].on
          /\ frame'[r].left = frame[r].left
      BY <1>1, <1>3, <3>1, NewFrame
    <3>3. RequestTyped(frame[r])'
      BY <1>2, <3>2 DEF RequestTyped
    <3>4. QED
      BY <3>2, <3>3, OthersTyped
  <2>3. QED
    BY <2>1, <2>2
<1>6. announced' \subseteq Assessments
  BY <1>1 DEF TypeOK, createAssessmentMeeting, InsertNewMeeting
<1>7. UNCHANGED <<assessment, steps, joins, failures>>
  BY DEF createAssessmentMeeting, InsertNewMeeting
<1>8. QED
  BY <1>4, <1>5, <1>6, <1>7 DEF TypeInv, TypeOK, VisitsTyped, joins

(* The steps that recreate a meeting. *)
LEMMA TypeRecreate ==
  ASSUME TypeInv, NEW r \in Requests, NEW a \in Assessments,
         ResetMeeting(r, a) \/ ReopenMeeting(r, a) \/ DeleteMeetingQuestions(r, a)
  PROVE  TypeInv'
<1>1. /\ frame \in [Requests -> Frame] /\ RequestTyped(frame[r])
      /\ frame[r].left \in Seq(Candidates) /\ frame[r].meeting \in Nat /\ TypeOK
  BY FrameFields DEF TypeInv, TypeOK
<1>2. /\ frame[r].pc \in {"find", "reopen", "purge"} /\ frame[r].on \in Assessments
      /\ frame[r].left # <<>>
  BY <1>1 DEF ResetMeeting, ReopenMeeting, DeleteMeetingQuestions, At, RequestTyped
<1>3. UNCHANGED <<assessment, steps, announced, visit, failures>>
  BY DEF ResetMeeting, ReopenMeeting, DeleteMeetingQuestions, rows, joins
<1>4. CASE ResetMeeting(r, a)
  <2>1. PICK m \in DOMAIN meetings :
          /\ frame' = [frame EXCEPT ![r].pc = "reopen", ![r].meeting = m]
          /\ raced' \subseteq raced \cup {m}
    BY <1>4, Zenon DEF ResetMeeting, MeetingsOf
  <2>2. m \in Nat
    BY <1>1 DEF TypeOK
  <2>3. /\ frame' \in [Requests -> Frame]
        /\ \A q \in Requests : q # r => frame'[q] = frame[q]
        /\ frame'[r].pc = "reopen" /\ frame'[r].on = frame[r].on
        /\ frame'[r].left = frame[r].left
    BY <1>1, <2>1, <2>2, ReopenFrame
  <2>4. RequestTyped(frame[r])'
    BY <1>2, <2>3 DEF RequestTyped
  <2>5. UNCHANGED <<meetings, copies>> /\ raced' \subseteq Nat
    BY <1>1, <1>4, <2>1, <2>2 DEF ResetMeeting, TypeOK, rows
  <2>6. QED
    BY <1>3, <2>3, <2>4, <2>5, OthersTyped DEF TypeInv, TypeOK, VisitsTyped
<1>5. CASE ReopenMeeting(r, a)
  <2>1. meetings' \in Seq(Meeting) /\ DOMAIN meetings' = DOMAIN meetings
    BY <1>1, <1>5, ReopenedMeeting DEF ReopenMeeting
  <2>2. frame' \in [Requests -> Frame] /\ \A q \in Requests : RequestTyped(frame[q])'
    BY <1>2, <1>5, GotoTyped DEF ReopenMeeting, PCs
  <2>3. UNCHANGED <<copies, raced>>
    BY <1>5 DEF ReopenMeeting, joins
  <2>4. QED
    BY <1>3, <2>1, <2>2, <2>3 DEF TypeInv, TypeOK, VisitsTyped
<1>6. CASE DeleteMeetingQuestions(r, a)
  <2>1. NextCandidate(r) /\ UNCHANGED <<meetings, raced>> /\ copies' \subseteq copies
    BY <1>6 DEF DeleteMeetingQuestions, rows
  <2>2. /\ frame' \in [Requests -> Frame]
        /\ \A q \in Requests : q # r => frame'[q] = frame[q]
        /\ \/ frame'[r] = Idle
           \/ frame'[r].pc = "find" /\ frame'[r].on = frame[r].on /\ frame'[r].left # <<>>
    BY <1>1, <1>2, <2>1, NextCandidateFrame
  <2>3. RequestTyped(frame[r])'
    BY <1>2, <2>2, IdleIsFrame DEF RequestTyped
  <2>4. QED
    BY <1>3, <2>1, <2>2, <2>3, OthersTyped DEF TypeInv, TypeOK, VisitsTyped
<1>7. QED
  BY <1>4, <1>5, <1>6

(* The steps that only read. *)
LEMMA TypeReads ==
  ASSUME TypeInv, NEW r \in Requests, NEW a \in Assessments,
         \/ LoadAssessment(r, a) \/ CheckQuestions(r, a)
         \/ FindMeeting(r, a) \/ ResetUnjoined(r, a)
  PROVE  TypeInv'
<1>1. /\ frame \in [Requests -> Frame] /\ RequestTyped(frame[r])
      /\ frame[r].row \in Assessment /\ assessment[a] \in Assessment
  BY FrameFields DEF TypeInv, TypeOK
<1>2. frame[r].pc \in {"load", "check", "find"} /\ frame[r].on \in Assessments
  BY <1>1 DEF LoadAssessment, CheckQuestions, FindMeeting, ResetUnjoined, At, RequestTyped
<1>3. frame' \in [Requests -> Frame] /\ \A q \in Requests : RequestTyped(frame[q])'
  <2>1. CASE Return(r)
    BY <2>1, ReturnTyped
  <2>2. CASE CheckQuestions(r, a) /\ ~ Return(r)
    <3>1. Goto(r, "publish") /\ frame[r].left # <<>>
      BY <2>2 DEF CheckQuestions
    <3>2. QED
      BY <1>2, <3>1, GotoTyped DEF PCs
  <2>3. CASE FindMeeting(r, a)
    <3>1. Goto(r, "new") /\ frame[r].pc = "find"
      BY <2>3 DEF FindMeeting, At
    <3>2. frame[r].left # <<>>
      BY <1>1, <3>1 DEF RequestTyped
    <3>3. QED
      BY <1>2, <3>1, <3>2, GotoTyped DEF PCs
  <2>4. CASE LoadAssessment(r, a) /\ ~ Return(r)
    <3> DEFINE row == [assessment[a] EXCEPT !.candidates = frame[r].row.candidates]
    <3>1. row \in Assessment
      BY <1>1 DEF Assessment
    <3>2. frame' = [frame EXCEPT ![r].pc = "assign", ![r].row = row]
      BY <2>4 DEF LoadAssessment
    <3> HIDE DEF row
    <3>3. /\ frame' \in [Requests -> Frame]
          /\ \A q \in Requests : q # r => frame'[q] = frame[q]
          /\ frame'[r].pc = "assign" /\ frame'[r].on = frame[r].on
      BY <1>1, <3>1, <3>2, LoadFrame
    <3>4. RequestTyped(frame[r])'
      BY <1>2, <3>3 DEF RequestTyped
    <3>5. QED
      BY <3>3, <3>4, OthersTyped
  <2>5. QED
    BY <2>1, <2>2, <2>3, <2>4 DEF ResetUnjoined
<1>4. UNCHANGED <<assessment, steps, meetings, announced, joins, failures>>
  BY DEF LoadAssessment, CheckQuestions, FindMeeting, ResetUnjoined, rows
<1>5. QED
  BY <1>3, <1>4 DEF TypeInv, TypeOK, VisitsTyped, joins

(* The steps of a join. *)
LEMMA TypeJoin ==
  ASSUME TypeInv, NEW v \in Visitors, joinAssessmentMeeting(v)
  PROVE  TypeInv'
<1>1. TypeOK /\ VisitsTyped /\ visit \in [Visitors -> Visit] /\ visit[v] \in Visit
  BY DEF TypeInv, TypeOK
<1>2. /\ visit[v].pc \in {"away", "read", "copy"}
      /\ visit[v].meeting \in Nat /\ visit[v].left \in SUBSET Questions
  BY <1>1 DEF Visit
<1>3. UNCHANGED <<assessment, steps, announced, frame, failures>>
  BY DEF joinAssessmentMeeting, Join, FindQuestions, CopyQuestion, Enter, Abandon, rows
<1>4. PICK g \in Visit : /\ visit' = [visit EXCEPT ![v] = g]
                         /\ g.pc # "away" => g.meeting \in DOMAIN meetings
  <2>1. CASE \E m \in DOMAIN meetings : Join(v, m)
    <3>1. PICK m \in DOMAIN meetings : Join(v, m)
      BY <2>1
    <3>2. m \in Nat
      BY <1>1 DEF TypeOK
    <3> DEFINE g == [pc |-> "read", meeting |-> m, left |-> {}]
    <3>3. g \in Visit /\ g.meeting = m /\ visit' = [visit EXCEPT ![v] = g]
      BY <3>1, <3>2 DEF Join, Visit
    <3> HIDE DEF g
    <3>4. QED
      BY <3>3
  <2>2. CASE FindQuestions(v)
    <3>1. visit[v].meeting \in DOMAIN meetings
      BY <1>1, <2>2 DEF FindQuestions, VisitsTyped
    <3>2. QuestionsFor(visit[v].meeting) \subseteq Questions
      BY <1>1, <3>1, AskedAreQuestions
    <3> DEFINE g == [visit[v] EXCEPT !.pc = "copy", !.left = QuestionsFor(visit[v].meeting)]
    <3>3. visit' = [visit EXCEPT ![v] = g]
      BY <2>2 DEF FindQuestions
    <3>4. g \in Visit /\ g.meeting = visit[v].meeting
      BY <1>1, <3>2 DEF Visit
    <3> HIDE DEF g
    <3>5. QED
      BY <3>1, <3>3, <3>4
  <2>3. CASE \E q \in Questions : CopyQuestion(v, q)
    <3>1. PICK q \in Questions : CopyQuestion(v, q)
      BY <2>3
    <3> DEFINE g == [visit[v] EXCEPT !.left = @ \ {q}]
    <3>2. visit' = [visit EXCEPT ![v] = g]
      BY <3>1 DEF CopyQuestion
    <3>3. g \in Visit /\ g.meeting = visit[v].meeting /\ g.pc = visit[v].pc
      BY <1>1, <1>2 DEF Visit
    <3> HIDE DEF g
    <3>4. QED
      BY <1>1, <3>2, <3>3 DEF VisitsTyped
  <2>4. CASE Enter(v) \/ Abandon(v)
    <3>1. Away \in Visit /\ Away.pc = "away"
      BY DEF Away, Visit
    <3>2. QED
      BY <2>4, <3>1 DEF Enter, Abandon
  <2>5. QED
    BY <2>1, <2>2, <2>3, <2>4 DEF joinAssessmentMeeting
<1>5. visit' \in [Visitors -> Visit]
  BY <1>1, <1>4
<1>6. meetings' \in Seq(Meeting) /\ DOMAIN meetings' = DOMAIN meetings
  <2>1. CASE Enter(v)
    <3>1. visit[v].meeting \in DOMAIN meetings
      BY <1>1, <2>1 DEF Enter, VisitsTyped
    <3>2. QED
      BY <1>1, <2>1, <3>1, EnteredMeeting DEF Enter
  <2>2. CASE ~ Enter(v)
    <3>1. meetings' = meetings
      BY <2>2 DEF joinAssessmentMeeting, Join, FindQuestions, CopyQuestion, Abandon, rows
    <3>2. QED
      BY <1>1, <3>1 DEF TypeOK
  <2>3. QED
    BY <2>1, <2>2
<1>7. VisitsTyped'
  BY <1>1, <1>4, <1>6 DEF VisitsTyped
<1>8. copies' \subseteq Copy
  <2>1. CASE \E q \in Questions : CopyQuestion(v, q)
    <3>1. PICK q \in Questions : copies' = copies \cup {[meeting |-> visit[v].meeting, question |-> q]}
      BY <2>1 DEF CopyQuestion
    <3>2. [meeting |-> visit[v].meeting, question |-> q] \in Copy
      BY <1>2 DEF Copy
    <3>3. QED
      BY <1>1, <3>1, <3>2 DEF TypeOK
  <2>2. CASE ~ \E q \in Questions : CopyQuestion(v, q)
    <3>1. copies' = copies
      BY <2>2 DEF joinAssessmentMeeting, Join, FindQuestions, Enter, Abandon
    <3>2. QED
      BY <1>1, <3>1 DEF TypeOK
  <2>3. QED
    BY <2>1, <2>2
<1>9. raced' \subseteq Nat
  <2>1. raced' \subseteq raced \cup DOMAIN meetings
    BY DEF joinAssessmentMeeting, Join, FindQuestions, CopyQuestion, Enter, Abandon
  <2>2. DOMAIN meetings \subseteq Nat
    BY <1>1 DEF TypeOK
  <2>3. QED
    BY <1>1, <2>1, <2>2 DEF TypeOK
<1>10. QED
  BY <1>3, <1>5, <1>6, <1>7, <1>8, <1>9 DEF TypeInv, TypeOK, RequestTyped

LEMMA TypeInit == Init => TypeInv
<1> SUFFICES ASSUME Init PROVE TypeInv
  OBVIOUS
<1>1. frame \in [Requests -> Frame] /\ \A r \in Requests : RequestTyped(frame[r])
  BY IdleIsFrame DEF Init
<1>2. /\ assessment \in [Assessments -> Assessment] /\ steps \in [Assessments -> Seq(Step)]
      /\ meetings \in Seq(Meeting) /\ announced \subseteq Assessments
  BY NullIsAssessment DEF Init
<1>3. failures \in 0..MaxFailures
  BY BoundsAssumption DEF Init
<1>4. visit \in [Visitors -> Visit] /\ VisitsTyped /\ copies \subseteq Copy /\ raced \subseteq Nat
  BY DEF Init, Away, Visit, VisitsTyped
<1>5. QED
  BY <1>1, <1>2, <1>3, <1>4 DEF TypeInv, TypeOK

LEMMA TypeNext == TypeInv /\ [Next]_vars => TypeInv'
<1> SUFFICES ASSUME TypeInv, [Next]_vars PROVE TypeInv'
  OBVIOUS
<1>1. ASSUME NEW r \in Requests, NEW a \in Assessments, Arrive(r, a)
      PROVE  TypeInv'
  BY <1>1, TypeArrive
<1>2. ASSUME NEW r \in Requests, NEW a \in Assessments, Continue(r, a)
      PROVE  TypeInv'
  BY <1>2, TypeRow, TypeSteps, TypeMeetings, TypeRecreate, TypeReads DEF Continue
<1>3. ASSUME NEW v \in Visitors, joinAssessmentMeeting(v)
      PROVE  TypeInv'
  BY <1>3, TypeJoin
<1>4. ASSUME NEW r \in Requests, Fail(r)
      PROVE  TypeInv'
  <2>1. frame' \in [Requests -> Frame] /\ \A q \in Requests : RequestTyped(frame[q])'
    BY <1>4, ReturnTyped DEF Fail
  <2>2. failures' \in 0..MaxFailures
    BY <1>4, BoundsAssumption DEF Fail, TypeInv, TypeOK
  <2>3. UNCHANGED <<assessment, steps, meetings, announced, joins>>
    BY <1>4 DEF Fail, rows
  <2>4. QED
    BY <2>1, <2>2, <2>3 DEF TypeInv, TypeOK, VisitsTyped, joins
<1>5. CASE UNCHANGED vars
  BY <1>5 DEF vars, TypeInv, TypeOK, RequestTyped, VisitsTyped
<1>6. QED
  BY <1>1, <1>2, <1>3, <1>4, <1>5 DEF Next

(* Every row, and everything a request holds across its awaits, is of its    *)
(* type, however requests overlap: no loop runs past the end of its list.    *)
THEOREM TypeCorrect == Spec => []TypeOK
<1>1. TypeInv => TypeOK
  BY DEF TypeInv
<1>2. QED
  BY <1>1, TypeInit, TypeNext, PTL DEF Spec

-----------------------------------------------------------------------------
(* What is settled by the status *)

(* What a step may do to a published assessment. *)
Settled(a) ==
  Published(a) =>
    /\ Published(a)' /\ assessment'[a].title = assessment[a].title
    /\ assessment[a].candidates \subseteq assessment'[a].candidates
    /\ steps'[a] = steps[a]

(* A step on one assessment concerns nothing of another. *)
Elsewhere(a) ==
  \A b \in Assessments \ {a} :
    /\ assessment'[b] = assessment[b] /\ steps'[b] = steps[b]
    /\ (b \in announced' <=> b \in announced)
    /\ \A c : Met(b, c)' <=> Met(b, c)

(* What each action is shown to keep. *)
Kept ==
  /\ Alone' /\ (\A q \in Requests : Work(frame[q])') /\ RowsInv'
  /\ \A b \in Assessments : Settled(b)

(* A request on an assessment is the only one, so the others rely on nothing *)
(* its step changes.                                                         *)
LEMMA OthersWork ==
  ASSUME Inv, NEW r \in Requests, NEW a \in Assessments, Elsewhere(a),
         frame[r].on = a \/ \A q \in Requests : frame[q].on # a,
         \A q \in Requests : q # r => frame'[q] = frame[q],
         frame'[r].on \in {a, None}, Work(frame[r])'
  PROVE  Alone' /\ \A q \in Requests : Work(frame[q])'
<1>1. a # None
  BY NoneAssumption
<1>2. \A q \in Requests : q # r => frame[q].on # a
  BY <1>1 DEF Inv, Alone
<1>3. Alone'
  BY <1>2 DEF Inv, Alone
<1>4. ASSUME NEW q \in Requests, q # r
      PROVE  Work(frame[q])'
  <2>1. frame'[q] = frame[q] /\ Work(frame[q]) /\ RequestTyped(frame[q])
    BY <1>4 DEF Inv, TypeInv
  <2>2. CASE frame[q].pc = "idle"
    BY <2>1, <2>2 DEF Work
  <2>3. CASE frame[q].pc # "idle"
    <3>1. PICK b \in Assessments \ {a} : frame[q].on = b
      BY <1>2, <1>4, <2>1, <2>3 DEF RequestTyped
    <3>2. /\ assessment'[b] = assessment[b] /\ (b \in announced' <=> b \in announced)
          /\ \A c : Met(b, c)' <=> Met(b, c)
      BY DEF Elsewhere
    <3>3. PICK f : f = frame[q]
      OBVIOUS
    <3>4. Work(f)'
      <4>1. Work(f) /\ f.on = b
        BY <2>1, <3>1, <3>3
      <4>2. QED
        BY <3>2, <4>1 DEF Work, Exists, Draft, Published
    <3>5. QED
      BY <2>1, <3>3, <3>4
  <2>4. QED
    BY <2>2, <2>3
<1>5. QED
  BY <1>3, <1>4

(* Only the assessment's row is written. *)
LEMMA RowWritten ==
  ASSUME Inv, NEW a \in Assessments, UNCHANGED <<steps, meetings, announced>>,
         \A b \in Assessments \ {a} : assessment'[b] = assessment[b],
         Settled(a), a \in announced => \A c \in assessment'[a].candidates : Met(a, c)
  PROVE  /\ RowsInv' /\ Elsewhere(a) /\ \A b \in Assessments : Settled(b)
         /\ \A b, c : Met(b, c)' <=> Met(b, c)
<1>1. \A b, c : Met(b, c)' <=> Met(b, c)
  BY DEF Met
<1>2. \A b \in Assessments : Published(b) => Published(b)'
  BY DEF Settled, Published
<1>3. meetings \in Seq(Meeting) /\ announced \subseteq Assessments /\ RowsInv
  BY DEF Inv, TypeInv, TypeOK
<1>4. \A m \in DOMAIN meetings : meetings[m].assessment \in Assessments
  <2>1. \A m \in DOMAIN meetings : meetings[m] \in Meeting
    BY <1>3
  <2>2. QED
    BY <2>1 DEF Meeting
<1>5. ASSUME NEW b \in announced
      PROVE  \A c \in assessment'[b].candidates : Met(b, c)
  BY <1>3, <1>5 DEF RowsInv
<1>6. RowsInv'
  BY <1>1, <1>2, <1>3, <1>4, <1>5 DEF RowsInv
<1>7. Elsewhere(a) /\ \A b \in Assessments : Settled(b)
  BY <1>1 DEF Elsewhere, Settled, Published
<1>8. QED
  BY <1>1, <1>6, <1>7

(* Nothing but frames is written. *)
LEMMA NothingWritten ==
  ASSUME Inv, NEW a \in Assessments, UNCHANGED <<assessment, steps, meetings, announced>>
  PROVE  /\ RowsInv' /\ Elsewhere(a) /\ \A b \in Assessments : Settled(b)
         /\ \A b, c : Met(b, c)' <=> Met(b, c)
<1>1. Settled(a)
  BY DEF Settled, Published
<1>2. a \in announced => \A c \in assessment'[a].candidates : Met(a, c)
  BY DEF Inv, RowsInv
<1>3. QED
  BY <1>1, <1>2, RowWritten

(* A candidate without a meeting gets one. *)
LEMMA MeetingGiven ==
  ASSUME Inv, NEW a \in Assessments, NEW c \in Candidates, InsertMeeting(a, c),
         UNCHANGED <<assessment, steps>>, Published(a), ~Met(a, c),
         \/ announced' = announced
         \/ /\ announced' = announced \cup {a}
            /\ \A d \in assessment[a].candidates : Met(a, d) \/ d = c
  PROVE  /\ RowsInv' /\ Elsewhere(a) /\ \A b \in Assessments : Settled(b)
         /\ \A b, d : Met(b, d)' <=> Met(b, d) \/ (b = a /\ d = c)
<1>1. PICK k : /\ k \notin DOMAIN meetings /\ DOMAIN meetings' = DOMAIN meetings \cup {k}
               /\ meetings'[k].assessment = a /\ meetings'[k].candidate = c
               /\ meetings'[k].status = "pending"
  <2>1. TypeOK
    BY DEF Inv, TypeInv
  <2>2. QED
    BY <2>1, InsertedMeeting, Zenon
<1>2. \A m \in DOMAIN meetings : meetings'[m] = meetings[m]
  BY InsertedMeeting DEF Inv, TypeInv
<1>3. \A b, d : Met(b, d)' <=> Met(b, d) \/ (b = a /\ d = c)
  BY <1>1, <1>2 DEF Met
<1>4. \A b : Published(b)' <=> Published(b)
  BY DEF Published
<1>5. RowsInv
  BY DEF Inv
<1>6. ASSUME NEW m \in DOMAIN meetings'
      PROVE  /\ Published(meetings'[m].assessment)
             /\ \A n \in DOMAIN meetings' :
                  /\ meetings'[m].assessment = meetings'[n].assessment
                  /\ meetings'[m].candidate = meetings'[n].candidate
                  => m = n
  <2>1. \A n \in DOMAIN meetings :
          ~(meetings[n].assessment = a /\ meetings[n].candidate = c)
    BY DEF Met
  <2>2. CASE m = k
    BY <1>1, <1>2, <2>1, <2>2
  <2>3. CASE m \in DOMAIN meetings
    BY <1>1, <1>2, <1>5, <2>1, <2>3 DEF RowsInv
  <2>4. QED
    BY <1>1, <1>6, <2>2, <2>3
<1>7. ASSUME NEW b \in announced'
      PROVE  Published(b) /\ \A d \in assessment[b].candidates : Met(b, d)'
  <2>1. CASE b \in announced
    BY <1>3, <1>5, <2>1 DEF RowsInv
  <2>2. CASE b \notin announced
    BY <1>3, <1>7, <2>2
  <2>3. QED
    BY <2>1, <2>2
<1>8. RowsInv'
  BY <1>4, <1>6, <1>7 DEF RowsInv
<1>9. Elsewhere(a) /\ \A b \in Assessments : Settled(b)
  <2>1. Elsewhere(a)
    BY <1>3 DEF Elsewhere
  <2>2. \A b \in Assessments : Settled(b)
    BY DEF Settled, Published
  <2>3. QED
    BY <2>1, <2>2
<1>10. QED
  BY <1>3, <1>8, <1>9

(* A meeting is joined or reopened. *)
LEMMA MeetingsUpdated ==
  ASSUME Inv, NEW a \in Assessments, UNCHANGED <<assessment, steps, announced>>,
         DOMAIN meetings' = DOMAIN meetings,
         \A m \in DOMAIN meetings :
           /\ meetings'[m].assessment = meetings[m].assessment
           /\ meetings'[m].candidate = meetings[m].candidate
  PROVE  /\ RowsInv' /\ Elsewhere(a) /\ \A b \in Assessments : Settled(b)
         /\ \A b, c : Met(b, c)' <=> Met(b, c)
<1>1. \A b, c : Met(b, c)' <=> Met(b, c)
  BY DEF Met
<1>2. \A b : Published(b)' <=> Published(b)
  BY DEF Published
<1>3. RowsInv
  BY DEF Inv
<1>4. RowsInv'
  BY <1>1, <1>2, <1>3 DEF RowsInv
<1>5. Elsewhere(a) /\ \A b \in Assessments : Settled(b)
  <2>1. Elsewhere(a)
    BY <1>1 DEF Elsewhere
  <2>2. \A b \in Assessments : Settled(b)
    BY DEF Settled, Published
  <2>3. QED
    BY <2>1, <2>2
<1>6. QED
  BY <1>1, <1>4, <1>5

LEMMA KeptBy ==
  ASSUME Inv, NEW r \in Requests, NEW a \in Assessments,
         RowsInv', Elsewhere(a), \A b \in Assessments : Settled(b),
         frame[r].on = a \/ \A q \in Requests : frame[q].on # a,
         \A q \in Requests : q # r => frame'[q] = frame[q],
         NEW f, frame'[r] = f, f.on \in {a, None}, Work(f)'
  PROVE  Kept
<1>1. Work(frame[r])'
  OBVIOUS
<1>2. frame'[r].on \in {a, None}
  OBVIOUS
<1>3. Alone' /\ \A q \in Requests : Work(frame[q])'
  BY <1>1, <1>2, OthersWork
<1>4. QED
  BY <1>3 DEF Kept

LEMMA IdleWorks == Idle.on = None /\ Work(Idle)'
BY IdleIsFrame DEF Work

(* A step that returns. *)
LEMMA ReturnKept ==
  ASSUME Inv, NEW r \in Requests, NEW a \in Assessments, Return(r), frame[r].on = a,
         RowsInv', Elsewhere(a), \A b \in Assessments : Settled(b)
  PROVE  Kept
<1>1. frame'[r] = Idle /\ \A q \in Requests : q # r => frame'[q] = frame[q]
  BY ReturnFrame DEF Inv, TypeInv, TypeOK
<1>2. QED
  BY <1>1, IdleWorks, KeptBy

(* A step of no request. *)
LEMMA SameFrames ==
  ASSUME Inv, UNCHANGED <<assessment, announced, frame>>, RowsInv',
         \A b \in Assessments : Settled(b), \A b, c : Met(b, c)' <=> Met(b, c)
  PROVE  Kept
<1>1. ASSUME NEW q \in Requests
      PROVE  Work(frame[q])'
  <2>1. PICK f : f = frame[q]
    OBVIOUS
  <2>2. Work(f)
    BY <2>1 DEF Inv
  <2>3. Work(f)'
    BY <2>2 DEF Work, Exists, Draft, Published
  <2>4. QED
    BY <2>1, <2>3
<1>2. Alone'
  BY DEF Inv, Alone
<1>3. QED
  BY <1>1, <1>2 DEF Kept

(* What a request on the assessment knows of it. *)
LEMMA Current ==
  ASSUME Inv, NEW r \in Requests, NEW pc \in PCs \ {"idle"}, NEW a, At(r, pc, a)
  PROVE  /\ frame \in [Requests -> Frame] /\ frame[r].pc = pc /\ frame[r].on = a
         /\ a \in Assessments /\ frame[r].row \in Assessment
         /\ assessment \in [Assessments -> Assessment] /\ steps \in [Assessments -> Seq(Step)]
         /\ frame[r].left \in Seq(Candidates) /\ frame[r].chosen \in Seq(Step)
         /\ RequestTyped(frame[r]) /\ Work(frame[r])
<1>1. frame[r].pc = pc /\ frame[r].on = a
  BY DEF At
<1>2. /\ frame \in [Requests -> Frame] /\ RequestTyped(frame[r]) /\ Work(frame[r])
      /\ assessment \in [Assessments -> Assessment] /\ steps \in [Assessments -> Seq(Step)]
  BY DEF Inv, TypeInv, TypeOK
<1>3. QED
  BY <1>1, <1>2, FrameFields DEF RequestTyped

LEMMA KeepArrive ==
  ASSUME OneAtATime, Inv, NEW r \in Requests, NEW a \in Assessments, Arrive(r, a)
  PROVE  Kept
<1>1. TypeOK
  BY DEF Inv, TypeInv
<1>2. PICK f \in Frame : Start(r, a, f) /\ Begins(a, f)
  BY <1>1, Beginnings
<1>3. UNCHANGED <<assessment, steps, meetings, announced>>
  BY <1>1, Beginnings
<1>4. /\ \A q \in Requests : q # r => frame'[q] = frame[q]
      /\ frame'[r].pc = f.pc /\ frame'[r].on = a /\ frame'[r].row = f.row
      /\ frame'[r].left = f.left /\ frame'[r].chosen = f.chosen
      /\ \A q \in Requests : frame[q].on # a
  BY <1>1, <1>2, StartFrame DEF TypeOK
<1>5. PICK g : g = frame'[r]
  OBVIOUS
<1>6. Work(g)'
  <2>1. g.pc = f.pc /\ g.on = a /\ g.row = f.row /\ g.left = f.left
    BY <1>4, <1>5
  <2>2. QED
    BY <1>2, <1>3, <2>1 DEF Begins, Work, Exists, Draft, Published
<1>7. RowsInv' /\ Elsewhere(a) /\ \A b \in Assessments : Settled(b)
  BY <1>3, NothingWritten
<1>8. QED
  BY <1>4, <1>5, <1>6, <1>7, KeptBy

(* The row of an assessment that is not published is written. *)
LEMMA UnpublishedRow ==
  ASSUME Inv, NEW a \in Assessments, ~Published(a), NEW row,
         assessment' = [assessment EXCEPT ![a] = row], UNCHANGED <<steps, meetings, announced>>
  PROVE  /\ RowsInv' /\ Elsewhere(a) /\ \A b \in Assessments : Settled(b)
         /\ \A b, c : Met(b, c)' <=> Met(b, c)
<1>1. \A b \in Assessments \ {a} : assessment'[b] = assessment[b]
  BY DEF Inv, TypeInv, TypeOK
<1>2. Settled(a)
  BY DEF Settled
<1>3. a \notin announced
  BY DEF Inv, RowsInv
<1>4. QED
  BY <1>1, <1>2, <1>3, RowWritten

LEMMA KeepRow ==
  ASSUME Inv, NEW r \in Requests, NEW a \in Assessments,
         InsertAssessment(r, a) \/ SaveAssessment(r, a) \/ SaveCandidates(r, a)
  PROVE  Kept
<1>1. PICK pc \in {"insert", "save", "assign"} : At(r, pc, a)
  BY DEF InsertAssessment, SaveAssessment, SaveCandidates
<1>2. frame[r].pc = pc /\ frame[r].on = a /\ Work(frame[r])
  BY <1>1, Current DEF PCs
<1>3. ~Published(a)
  BY <1>2 DEF Work, Exists, Draft, Published
<1>4. \E row : assessment' = [assessment EXCEPT ![a] = row]
  BY DEF InsertAssessment, SaveAssessment, SaveCandidates, SaveWithCandidates, SaveColumns
<1>5. Return(r) /\ UNCHANGED <<steps, meetings, announced>>
  BY DEF InsertAssessment, SaveAssessment, SaveCandidates
<1>6. RowsInv' /\ Elsewhere(a) /\ \A b \in Assessments : Settled(b)
  BY <1>3, <1>4, <1>5, UnpublishedRow
<1>7. QED
  BY <1>2, <1>5, <1>6, ReturnKept

LEMMA KeepSavePublished ==
  ASSUME Inv, NEW r \in Requests, NEW a \in Assessments, SavePublished(r, a)
  PROVE  Kept
<1>1. At(r, "publish", a)
  BY DEF SavePublished
<1>2. /\ frame \in [Requests -> Frame] /\ frame[r].pc = "publish" /\ frame[r].on = a
      /\ frame[r].row \in Assessment /\ assessment \in [Assessments -> Assessment]
      /\ Work(frame[r])
  BY <1>1, Current DEF PCs
<1>3. /\ Draft(a) /\ frame[r].row = assessment[a]
      /\ Each(frame[r].left) /\ ToSet(frame[r].left) = assessment[a].candidates
  BY <1>2 DEF Work
<1>4. ~Published(a) /\ a \notin announced /\ \A c : ~Met(a, c)
  BY <1>3 DEF Inv, RowsInv, Met, Draft, Published
<1> DEFINE row == [frame[r].row EXCEPT !.status = "published"]
<1>5. row.status = "published" /\ row.candidates = assessment[a].candidates
  BY <1>2, <1>3 DEF Assessment
<1>6. assessment' = [assessment EXCEPT ![a] = row]
  BY DEF SavePublished, SaveWithCandidates
<1> HIDE DEF row
<1>7. Goto(r, "meeting") /\ UNCHANGED <<steps, meetings, announced>>
  BY DEF SavePublished
<1>8. /\ RowsInv' /\ Elsewhere(a) /\ \A b \in Assessments : Settled(b)
      /\ \A b, c : Met(b, c)' <=> Met(b, c)
  BY <1>4, <1>6, <1>7, UnpublishedRow
<1>9. /\ \A q \in Requests : q # r => frame'[q] = frame[q]
      /\ frame'[r].pc = "meeting" /\ frame'[r].on = a /\ frame'[r].left = frame[r].left
  BY <1>2, <1>7, GotoFrame DEF PCs
<1>10. PICK g : g = frame'[r]
  OBVIOUS
<1>11. Work(g)'
  <2>1. g.pc = "meeting" /\ g.on = a /\ g.left = frame[r].left
    BY <1>9, <1>10
  <2>2. assessment'[a].status = "published" /\ assessment'[a].candidates = assessment[a].candidates
    BY <1>2, <1>5, <1>6
  <2>3. QED
    BY <1>3, <1>4, <1>7, <1>8, <2>1, <2>2 DEF Work, Published
<1>12. QED
  BY <1>2, <1>8, <1>9, <1>10, <1>11, KeptBy

(* The next candidate of a meeting to recreate.  *)
LEMMA NextKept ==
  ASSUME Inv, NEW r \in Requests, NEW a \in Assessments, NextCandidate(r), frame[r].on = a,
         frame[r].left # <<>>, RowsInv', Elsewhere(a), \A b \in Assessments : Settled(b),
         Published(a)', frame[r].row = assessment'[a]
  PROVE  Kept
<1>1. /\ \A q \in Requests : q # r => frame'[q] = frame[q]
      /\ \/ frame'[r] = Idle
         \/ frame'[r].pc = "find" /\ frame'[r].on = a /\ frame'[r].row = assessment'[a]
  BY NextCandidateFrame DEF Inv, TypeInv, TypeOK
<1>2. PICK g : g = frame'[r]
  OBVIOUS
<1>3. g.on \in {a, None} /\ Work(g)'
  <2>1. CASE g = Idle
    BY <2>1, IdleWorks
  <2>2. CASE g.pc = "find" /\ g.on = a /\ g.row = assessment'[a]
    BY <2>2 DEF Work
  <2>3. QED
    BY <1>1, <1>2, <2>1, <2>2
<1>4. QED
  BY <1>1, <1>2, <1>3, KeptBy

LEMMA KeepAddCandidate ==
  ASSUME Inv, NEW r \in Requests, NEW a \in Assessments, AddCandidate(r, a)
  PROVE  Kept
<1>1. At(r, "add", a)
  BY DEF AddCandidate
<1>2. /\ frame[r].pc = "add" /\ frame[r].on = a
      /\ assessment \in [Assessments -> Assessment] /\ frame[r].left \in Seq(Candidates)
      /\ RequestTyped(frame[r]) /\ Work(frame[r])
  BY <1>1, Current DEF PCs
<1> DEFINE row == frame[r].row
           c == Head(frame[r].left)
<1>3. /\ Published(a) /\ Met(a, c) /\ row = [assessment[a] EXCEPT !.candidates = @ \cup {c}]
      /\ frame[r].left # <<>>
  BY <1>2 DEF Work, RequestTyped
<1>4. /\ row.status = "published" /\ row.title = assessment[a].title
      /\ row.candidates = assessment[a].candidates \cup {c}
  BY <1>2, <1>3 DEF Assessment, Published
<1>5. /\ assessment' = [assessment EXCEPT ![a] = row] /\ NextCandidate(r)
      /\ UNCHANGED <<steps, meetings, announced>>
  BY DEF AddCandidate, SaveWithCandidates
<1> HIDE DEF row, c
<1>6. assessment'[a] = row /\ \A b \in Assessments \ {a} : assessment'[b] = assessment[b]
  BY <1>2, <1>5
<1>7. Settled(a) /\ Published(a)'
  BY <1>4, <1>5, <1>6 DEF Settled, Published
<1>8. a \in announced => \A d \in assessment'[a].candidates : Met(a, d)
  BY <1>3, <1>4, <1>6 DEF Inv, RowsInv
<1>9. RowsInv' /\ Elsewhere(a) /\ \A b \in Assessments : Settled(b)
  BY <1>5, <1>6, <1>7, <1>8, RowWritten
<1>10. QED
  BY <1>2, <1>3, <1>5, <1>6, <1>7, <1>9, NextKept DEF row

(* The questions of a draft are written; it has no meetings yet. *)
LEMMA KeepSteps ==
  ASSUME Inv, NEW r \in Requests, NEW a \in Assessments, DeleteSteps(r, a) \/ InsertStep(r, a)
  PROVE  Kept
<1>1. PICK pc \in {"delete", "step"} : At(r, pc, a)
  BY DEF DeleteSteps, InsertStep
<1>2. /\ frame \in [Requests -> Frame] /\ frame[r].pc = pc /\ frame[r].on = a
      /\ steps \in [Assessments -> Seq(Step)] /\ frame[r].chosen \in Seq(Step)
      /\ RequestTyped(frame[r]) /\ Work(frame[r])
  BY <1>1, Current DEF PCs
<1>3. Draft(a) /\ frame[r].chosen # <<>>
  BY <1>2 DEF Work, RequestTyped
<1>4. UNCHANGED <<assessment, meetings, announced>>
  BY DEF DeleteSteps, InsertStep
<1>5. \A b \in Assessments \ {a} : steps'[b] = steps[b]
  BY <1>2 DEF DeleteSteps, InsertStep
<1>6. \A b, c : Met(b, c)' <=> Met(b, c)
  BY <1>4 DEF Met
<1>7. \A b : Published(b)' <=> Published(b)
  BY <1>4 DEF Published
<1>8. RowsInv'
  <2>1. \A m \in DOMAIN meetings : meetings[m].assessment \in Assessments \ {a}
    <3>1. \A m \in DOMAIN meetings : meetings[m] \in Meeting
      BY DEF Inv, TypeInv, TypeOK
    <3>2. QED
      BY <1>3, <3>1 DEF Inv, RowsInv, Meeting, Draft, Published
  <2>2. QED
    BY <1>4, <1>5, <1>6, <1>7, <2>1 DEF Inv, RowsInv
<1>9. Elsewhere(a)
  BY <1>4, <1>5, <1>6 DEF Elsewhere
<1>10. \A b \in Assessments : Settled(b)
  BY <1>3, <1>4, <1>5 DEF Settled, Draft, Published
<1>11. CASE Return(r)
  BY <1>2, <1>8, <1>9, <1>10, <1>11, ReturnKept
<1>12. CASE ~ Return(r)
  <2>1. /\ \A q \in Requests : q # r => frame'[q] = frame[q]
        /\ frame'[r].pc = "step" /\ frame'[r].on = a
    <3>1. CASE DeleteSteps(r, a)
      BY <1>2, <3>1, GotoFrame DEF DeleteSteps, PCs
    <3>2. CASE InsertStep(r, a)
      <4>1. frame' = [frame EXCEPT ![r].chosen = Tail(@)] /\ Len(frame[r].chosen) # 1
        BY <1>12, <3>2 DEF InsertStep
      <4>2. Tail(frame[r].chosen) \in Seq(Step)
        BY <1>2, <1>3, <4>1, HeadAndTail
      <4>3. frame[r].pc = "step"
        BY <3>2 DEF InsertStep, At
      <4>4. QED
        BY <1>2, <4>1, <4>2, <4>3, ChosenFrame
    <3>3. QED
      BY <3>1, <3>2
  <2>2. PICK g : g = frame'[r]
    OBVIOUS
  <2>3. Work(g)'
    BY <1>3, <1>4, <2>1, <2>2 DEF Work, Draft
  <2>4. QED
    BY <1>2, <1>8, <1>9, <1>10, <2>1, <2>2, <2>3, KeptBy
<1>13. QED
  BY <1>11, <1>12

LEMMA KeepMeeting ==
  ASSUME Inv, NEW r \in Requests, NEW a \in Assessments, createAssessmentMeeting(r, a)
  PROVE  Kept
<1>1. At(r, "meeting", a)
  BY DEF createAssessmentMeeting
<1> DEFINE left == frame[r].left
           c == Head(left)
<1>2. /\ frame \in [Requests -> Frame] /\ frame[r].pc = "meeting" /\ frame[r].on = a
      /\ left \in Seq(Candidates) /\ RequestTyped(frame[r]) /\ Work(frame[r])
  BY <1>1, Current DEF PCs
<1>3. /\ left # <<>> /\ Published(a) /\ a \notin announced /\ Each(left)
      /\ \A d \in ToSet(left) : ~Met(a, d)
      /\ \A d \in assessment[a].candidates : Met(a, d) \/ d \in ToSet(left)
  BY <1>2 DEF Work, RequestTyped
<1>4. /\ c \in Candidates /\ c \in ToSet(left) /\ ~Met(a, c)
      /\ Len(left) = 1 => ToSet(left) = {c}
      /\ Len(left) # 1 => /\ Tail(left) \in Seq(Candidates)
                          /\ ToSet(left) = {c} \cup ToSet(Tail(left))
                          /\ Each(Tail(left)) /\ c \notin ToSet(Tail(left))
  BY <1>2, <1>3, HeadAndTail
<1>5. InsertMeeting(a, c) /\ UNCHANGED <<assessment, steps>>
  BY DEF createAssessmentMeeting
<1>6. CASE Len(left) = 1
  <2>1. Return(r) /\ announced' = announced \cup {a}
    BY <1>6 DEF createAssessmentMeeting
  <2>2. \A d \in assessment[a].candidates : Met(a, d) \/ d = c
    BY <1>3, <1>4, <1>6
  <2> HIDE DEF left, c
  <2>3. RowsInv' /\ Elsewhere(a) /\ \A b \in Assessments : Settled(b)
    BY <1>3, <1>4, <1>5, <2>1, <2>2, MeetingGiven
  <2>4. QED
    BY <1>2, <2>1, <2>3, ReturnKept
<1>7. CASE Len(left) # 1
  <2>1. frame' = [frame EXCEPT ![r].left = Tail(@)] /\ UNCHANGED announced
    BY <1>7 DEF createAssessmentMeeting
  <2>2. /\ \A q \in Requests : q # r => frame'[q] = frame[q]
        /\ frame'[r].pc = "meeting" /\ frame'[r].on = a /\ frame'[r].left = Tail(left)
    BY <1>2, <1>4, <1>7, <2>1, LeftFrame
  <2>3. PICK g : g = frame'[r]
    OBVIOUS
  <2>4. PICK k : k = c
    OBVIOUS
  <2>5. /\ RowsInv' /\ Elsewhere(a) /\ \A b \in Assessments : Settled(b)
        /\ \A b, d : Met(b, d)' <=> Met(b, d) \/ (b = a /\ d = k)
    <3> HIDE DEF c
    <3>1. k \in Candidates /\ InsertMeeting(a, k) /\ ~Met(a, k)
      BY <1>4, <1>5, <2>4
    <3>2. QED
      BY <1>3, <1>5, <2>1, <3>1, MeetingGiven
  <2>6. Work(g)'
    <3>1. g.pc = "meeting" /\ g.on = a /\ g.left = Tail(left)
      BY <2>2, <2>3
    <3>2. /\ Each(g.left) /\ k \notin ToSet(g.left) /\ ToSet(left) = {k} \cup ToSet(g.left)
      BY <1>4, <1>7, <2>4, <3>1
    <3>3. /\ \A d \in ToSet(g.left) : ~Met(a, d)'
          /\ \A d \in assessment[a].candidates : Met(a, d)' \/ d \in ToSet(g.left)
      BY <1>3, <2>5, <3>2
    <3>4. QED
      BY <1>3, <1>5, <2>1, <3>1, <3>2, <3>3 DEF Work, Published
  <2>7. QED
    BY <1>2, <2>2, <2>3, <2>5, <2>6, KeptBy
<1>8. QED
  BY <1>6, <1>7

LEMMA KeepNewMeeting ==
  ASSUME Inv, NEW r \in Requests, NEW a \in Assessments, InsertNewMeeting(r, a)
  PROVE  Kept
<1>1. At(r, "new", a)
  BY DEF InsertNewMeeting
<1>2. /\ frame \in [Requests -> Frame] /\ frame[r].pc = "new" /\ frame[r].on = a
      /\ frame[r].left \in Seq(Candidates) /\ RequestTyped(frame[r]) /\ Work(frame[r])
  BY <1>1, Current DEF PCs
<1>3. PICK c : c = Head(frame[r].left)
  OBVIOUS
<1>4. /\ frame[r].left # <<>> /\ Published(a) /\ frame[r].row = assessment[a] /\ ~Met(a, c)
  BY <1>2, <1>3 DEF Work, RequestTyped
<1>5. c \in Candidates
  BY <1>2, <1>3, <1>4, HeadAndTail
<1>6. /\ InsertMeeting(a, c) /\ UNCHANGED <<assessment, steps, announced>>
      /\ frame' = [frame EXCEPT ![r].pc = "add", ![r].row.candidates = @ \cup {c}]
  BY <1>3 DEF InsertNewMeeting
<1>7. /\ RowsInv' /\ Elsewhere(a) /\ \A b \in Assessments : Settled(b)
      /\ \A b, d : Met(b, d)' <=> Met(b, d) \/ (b = a /\ d = c)
  BY <1>4, <1>5, <1>6, MeetingGiven
<1>8. /\ \A q \in Requests : q # r => frame'[q] = frame[q]
      /\ frame'[r].pc = "add" /\ frame'[r].on = a
      /\ frame'[r].row = [assessment[a] EXCEPT !.candidates = @ \cup {c}]
      /\ frame'[r].left = frame[r].left
  <2>1. /\ \A q \in Requests : q # r => frame'[q] = frame[q]
        /\ frame'[r].pc = "add" /\ frame'[r].on = frame[r].on
        /\ frame'[r].row = [frame[r].row EXCEPT !.candidates = @ \cup {c}]
        /\ frame'[r].left = frame[r].left
    BY <1>2, <1>5, <1>6, NewFrame, Zenon
  <2>2. QED
    BY <1>2, <1>4, <2>1
<1>9. PICK g : g = frame'[r]
  OBVIOUS
<1>10. Work(g)'
  <2>1. /\ g.pc = "add" /\ g.on = a /\ Head(g.left) = c
        /\ g.row = [assessment[a] EXCEPT !.candidates = @ \cup {c}]
    BY <1>3, <1>8, <1>9
  <2>2. Met(a, c)' /\ Published(a)'
    BY <1>4, <1>6, <1>7 DEF Published
  <2>3. Met(a, Head(g.left))'
    BY <2>1, <2>2
  <2>4. QED
    BY <1>6, <2>1, <2>2, <2>3 DEF Work
<1>11. QED
  BY <1>2, <1>7, <1>8, <1>9, <1>10, KeptBy

LEMMA KeepReset ==
  ASSUME Inv, NEW r \in Requests, NEW a \in Assessments, ResetMeeting(r, a)
  PROVE  Kept
<1>1. At(r, "find", a) /\ UNCHANGED <<assessment, steps, meetings, announced>>
  BY DEF ResetMeeting, rows
<1>2. frame \in [Requests -> Frame] /\ frame[r].pc = "find" /\ frame[r].on = a /\ Work(frame[r])
  BY <1>1, Current DEF PCs
<1>3. PICK m \in DOMAIN meetings : frame' = [frame EXCEPT ![r].pc = "reopen", ![r].meeting = m]
  BY Zenon DEF ResetMeeting, MeetingsOf
<1>4. m \in Nat
  BY DEF Inv, TypeInv, TypeOK
<1>5. /\ \A q \in Requests : q # r => frame'[q] = frame[q]
      /\ frame'[r].pc = "reopen" /\ frame'[r].on = a /\ frame'[r].row = frame[r].row
  BY <1>2, <1>3, <1>4, ReopenFrame
<1>6. RowsInv' /\ Elsewhere(a) /\ \A b \in Assessments : Settled(b)
  BY <1>1, NothingWritten
<1>7. PICK g : g = frame'[r]
  OBVIOUS
<1>8. Work(g)'
  BY <1>1, <1>2, <1>5, <1>7 DEF Work, Published
<1>9. QED
  BY <1>2, <1>5, <1>6, <1>7, <1>8, KeptBy

LEMMA KeepReopen ==
  ASSUME Inv, NEW r \in Requests, NEW a \in Assessments, ReopenMeeting(r, a)
  PROVE  Kept
<1>1. /\ At(r, "reopen", a) /\ Goto(r, "purge") /\ UNCHANGED <<assessment, steps, announced>>
      /\ meetings' = [meetings EXCEPT ![frame[r].meeting].status = "pending"]
  BY DEF ReopenMeeting
<1>2. frame \in [Requests -> Frame] /\ frame[r].pc = "reopen" /\ frame[r].on = a /\ Work(frame[r])
  BY <1>1, Current DEF PCs
<1>3. TypeOK /\ frame[r].meeting \in Nat
  BY <1>2, FrameFields DEF Inv, TypeInv
<1>4. RowsInv' /\ Elsewhere(a) /\ \A b \in Assessments : Settled(b)
  BY <1>1, <1>3, ReopenedMeeting, MeetingsUpdated
<1>5. /\ \A q \in Requests : q # r => frame'[q] = frame[q]
      /\ frame'[r].pc = "purge" /\ frame'[r].on = a /\ frame'[r].row = frame[r].row
  BY <1>1, <1>2, GotoFrame DEF PCs
<1>6. PICK g : g = frame'[r]
  OBVIOUS
<1>7. Work(g)'
  BY <1>1, <1>2, <1>5, <1>6 DEF Work, Published
<1>8. QED
  BY <1>2, <1>4, <1>5, <1>6, <1>7, KeptBy

LEMMA KeepPurge ==
  ASSUME Inv, NEW r \in Requests, NEW a \in Assessments, DeleteMeetingQuestions(r, a)
  PROVE  Kept
<1>1. /\ At(r, "purge", a) /\ NextCandidate(r)
      /\ UNCHANGED <<assessment, steps, meetings, announced>>
  BY DEF DeleteMeetingQuestions, rows
<1>2. /\ frame[r].pc = "purge" /\ frame[r].on = a
      /\ RequestTyped(frame[r]) /\ Work(frame[r])
  BY <1>1, Current DEF PCs
<1>3. frame[r].left # <<>> /\ Published(a) /\ frame[r].row = assessment[a]
  BY <1>2 DEF Work, RequestTyped
<1>4. RowsInv' /\ Elsewhere(a) /\ \A b \in Assessments : Settled(b)
  BY <1>1, NothingWritten
<1>5. Published(a)' /\ frame[r].row = assessment'[a]
  BY <1>1, <1>3 DEF Published
<1>6. QED
  BY <1>1, <1>2, <1>3, <1>4, <1>5, NextKept

LEMMA KeepReads ==
  ASSUME Inv, NEW r \in Requests, NEW a \in Assessments,
         \/ LoadAssessment(r, a) \/ CheckQuestions(r, a)
         \/ FindMeeting(r, a) \/ ResetUnjoined(r, a)
  PROVE  Kept
<1>1. PICK pc \in {"load", "check", "find"} : At(r, pc, a)
  BY DEF LoadAssessment, CheckQuestions, FindMeeting, ResetUnjoined
<1>2. /\ frame \in [Requests -> Frame] /\ frame[r].pc = pc /\ frame[r].on = a
      /\ frame[r].row \in Assessment /\ assessment \in [Assessments -> Assessment]
      /\ RequestTyped(frame[r]) /\ Work(frame[r])
  BY <1>1, Current DEF PCs
<1>3. UNCHANGED <<assessment, steps, meetings, announced>>
  BY DEF LoadAssessment, CheckQuestions, FindMeeting, ResetUnjoined, rows
<1>4. /\ RowsInv' /\ Elsewhere(a) /\ \A b \in Assessments : Settled(b)
      /\ \A b, c : Met(b, c)' <=> Met(b, c)
  BY <1>3, NothingWritten
<1>5. CASE Return(r)
  BY <1>2, <1>4, <1>5, ReturnKept
<1>6. CASE CheckQuestions(r, a) /\ ~ Return(r)
  <2>1. Goto(r, "publish") /\ frame[r].pc = "check"
    BY <1>6 DEF CheckQuestions, At
  <2>2. /\ \A q \in Requests : q # r => frame'[q] = frame[q]
        /\ frame'[r].pc = "publish" /\ frame'[r].on = a /\ frame'[r].row = frame[r].row
        /\ frame'[r].left = frame[r].left
    BY <1>2, <2>1, GotoFrame DEF PCs
  <2>3. PICK g : g = frame'[r]
    OBVIOUS
  <2>4. Work(g)'
    BY <1>2, <1>3, <2>1, <2>2, <2>3 DEF Work, Draft
  <2>5. QED
    BY <1>2, <1>4, <2>2, <2>3, <2>4, KeptBy
<1>7. CASE FindMeeting(r, a)
  <2>1. Goto(r, "new") /\ frame[r].pc = "find"
    BY <1>7 DEF FindMeeting, At
  <2>2. PICK c : c = Head(frame[r].left)
    OBVIOUS
  <2>3. ~ Met(a, c)
    BY <1>7, <2>2 DEF FindMeeting, MeetingsOf, Met
  <2>4. /\ \A q \in Requests : q # r => frame'[q] = frame[q]
        /\ frame'[r].pc = "new" /\ frame'[r].on = a /\ frame'[r].row = frame[r].row
        /\ frame'[r].left = frame[r].left
    BY <1>2, <2>1, GotoFrame DEF PCs
  <2>5. PICK g : g = frame'[r]
    OBVIOUS
  <2>6. Work(g)'
    <3>1. g.pc = "new" /\ g.on = a /\ g.row = assessment[a] /\ Published(a)
      BY <1>2, <2>1, <2>4, <2>5 DEF Work
    <3>2. ~ Met(a, Head(g.left))'
      <4>1. Head(g.left) = c
        BY <2>2, <2>4, <2>5
      <4>2. ~ Met(a, c)'
        BY <1>4, <2>3
      <4>3. QED
        BY <4>1, <4>2
    <3>3. QED
      BY <1>3, <3>1, <3>2 DEF Work, Published
  <2>7. QED
    BY <1>2, <1>4, <2>4, <2>5, <2>6, KeptBy
<1>8. CASE LoadAssessment(r, a) /\ ~ Return(r)
  <2> DEFINE row == [assessment[a] EXCEPT !.candidates = frame[r].row.candidates]
  <2>1. Draft(a) /\ frame' = [frame EXCEPT ![r].pc = "assign", ![r].row = row]
    BY <1>8 DEF LoadAssessment
  <2>2. row \in Assessment /\ row.status = "draft"
    BY <1>2, <2>1 DEF Assessment, Draft
  <2> HIDE DEF row
  <2>3. /\ \A q \in Requests : q # r => frame'[q] = frame[q]
        /\ frame'[r].pc = "assign" /\ frame'[r].on = a /\ frame'[r].row = row
    BY <1>2, <2>1, <2>2, LoadFrame
  <2>4. PICK g : g = frame'[r]
    OBVIOUS
  <2>5. Work(g)'
    BY <1>3, <2>1, <2>2, <2>3, <2>4 DEF Work, Draft
  <2>6. QED
    BY <1>2, <1>4, <2>3, <2>4, <2>5, KeptBy
<1>9. QED
  BY <1>5, <1>6, <1>7, <1>8 DEF ResetUnjoined

LEMMA KeepJoin ==
  ASSUME Inv, NEW v \in Visitors, joinAssessmentMeeting(v)
  PROVE  Kept
<1>1. TypeOK /\ VisitsTyped
  BY DEF Inv, TypeInv
<1>2. UNCHANGED <<assessment, steps, announced, frame>>
  BY DEF joinAssessmentMeeting, Join, FindQuestions, CopyQuestion, Enter, Abandon, rows
<1>3. /\ DOMAIN meetings' = DOMAIN meetings
      /\ \A n \in DOMAIN meetings :
           /\ meetings'[n].assessment = meetings[n].assessment
           /\ meetings'[n].candidate = meetings[n].candidate
  <2>1. CASE Enter(v)
    <3>1. visit[v].meeting \in DOMAIN meetings
      BY <1>1, <2>1 DEF Enter, VisitsTyped
    <3>2. QED
      BY <1>1, <2>1, <3>1, EnteredMeeting DEF Enter
  <2>2. CASE ~ Enter(v)
    BY <2>2 DEF joinAssessmentMeeting, Join, FindQuestions, CopyQuestion, Abandon, rows
  <2>3. QED
    BY <2>1, <2>2
<1>4. /\ RowsInv' /\ \A b \in Assessments : Settled(b)
      /\ \A b, c : Met(b, c)' <=> Met(b, c)
  <2>1. CASE Assessments = {}
    <3>1. \A m \in DOMAIN meetings : meetings[m] \in Meeting
      BY <1>1 DEF TypeOK
    <3>2. DOMAIN meetings = {} /\ announced = {}
      BY <1>1, <2>1, <3>1 DEF TypeOK, Meeting
    <3>3. QED
      BY <1>2, <1>3, <2>1, <3>2 DEF RowsInv, Met
  <2>2. CASE Assessments # {}
    BY <1>2, <1>3, <2>2, MeetingsUpdated
  <2>3. QED
    BY <2>1, <2>2
<1>5. QED
  BY <1>2, <1>4, SameFrames

LEMMA KeepFail ==
  ASSUME Inv, NEW r \in Requests, Fail(r)
  PROVE  Kept
<1>1. Return(r) /\ UNCHANGED <<assessment, steps, meetings, announced>> /\ frame[r] # Idle
  BY DEF Fail, rows
<1>2. PICK a \in Assessments : frame[r].on = a
  BY <1>1 DEF Inv, TypeInv, RequestTyped
<1>3. RowsInv' /\ Elsewhere(a) /\ \A b \in Assessments : Settled(b)
  BY <1>1, NothingWritten
<1>4. QED
  BY <1>1, <1>2, <1>3, ReturnKept

LEMMA KeepStutter ==
  ASSUME Inv, UNCHANGED vars
  PROVE  Kept
<1>1. UNCHANGED <<assessment, steps, meetings, announced, frame>>
  BY DEF vars
<1>2. RowsInv' /\ \A b, c : Met(b, c)' <=> Met(b, c)
  BY <1>1 DEF Inv, RowsInv, Met, Published
<1>3. \A b \in Assessments : Settled(b)
  BY <1>1 DEF Settled, Published
<1>4. QED
  BY <1>1, <1>2, <1>3, SameFrames

LEMMA KeepNext ==
  ASSUME OneAtATime, Inv, [Next]_vars
  PROVE  Kept
<1>1. ASSUME NEW r \in Requests, NEW a \in Assessments, Arrive(r, a)
      PROVE  Kept
  BY <1>1, KeepArrive
<1>2. ASSUME NEW r \in Requests, NEW a \in Assessments, Continue(r, a)
      PROVE  Kept
  BY <1>2, KeepRow, KeepSteps, KeepReads, KeepSavePublished, KeepMeeting, KeepReset,
     KeepReopen, KeepPurge, KeepNewMeeting, KeepAddCandidate DEF Continue
<1>3. ASSUME NEW v \in Visitors, joinAssessmentMeeting(v)
      PROVE  Kept
  BY <1>3, KeepJoin
<1>4. ASSUME NEW r \in Requests, Fail(r)
      PROVE  Kept
  BY <1>4, KeepFail
<1>5. CASE UNCHANGED vars
  BY <1>5, KeepStutter
<1>6. QED
  BY <1>1, <1>2, <1>3, <1>4, <1>5 DEF Next

LEMMA InvInit == Init => Inv
<1> SUFFICES ASSUME Init PROVE Inv
  OBVIOUS
<1>1. \A r \in Requests : frame[r] = Idle
  BY DEF Init
<1>2. Alone /\ \A r \in Requests : Work(frame[r])
  BY <1>1, IdleIsFrame DEF Alone, Work
<1>3. meetings = <<>> /\ announced = {}
  BY DEF Init
<1>4. RowsInv
  BY <1>3 DEF RowsInv
<1>5. QED
  BY <1>2, <1>4, TypeInit DEF Inv

LEMMA InvNext ==
  ASSUME OneAtATime
  PROVE  Inv /\ [Next]_vars => Inv'
<1> SUFFICES ASSUME Inv, [Next]_vars PROVE Inv'
  OBVIOUS
<1>1. TypeInv'
  BY TypeNext DEF Inv
<1>2. QED
  BY <1>1, KeepNext DEF Kept, Inv

(* If recruiters do not work on one assessment at once, publish and          *)
(* recreateAssessmentMeeting give no candidate a second meeting, and when    *)
(* the publication is notified each candidate has one, whichever requests    *)
(* failed in between.                                                        *)
THEOREM OneMeetingEach ==
  ASSUME OneAtATime
  PROVE  Spec => []OneMeetingPerCandidate
<1>1. Inv => OneMeetingPerCandidate
  <2> SUFFICES ASSUME Inv, NEW a \in Assessments, NEW c \in Candidates
               PROVE  /\ Cardinality(MeetingsOf(a, c)) <= 1
                      /\ a \in announced /\ c \in assessment[a].candidates
                           => MeetingsOf(a, c) # {}
    BY DEF OneMeetingPerCandidate
  <2>1. \A m, n \in MeetingsOf(a, c) : m = n
    BY DEF Inv, RowsInv, MeetingsOf
  <2>2. CASE MeetingsOf(a, c) = {}
    BY <2>2, FS_EmptySet DEF Inv, RowsInv, MeetingsOf, Met
  <2>3. CASE MeetingsOf(a, c) # {}
    <3>1. PICK m : MeetingsOf(a, c) = {m}
      BY <2>1, <2>3
    <3>2. Cardinality(MeetingsOf(a, c)) = 1
      BY <3>1, FS_Singleton
    <3>3. QED
      BY <2>3, <3>2
  <2>4. QED
    BY <2>2, <2>3
<1>2. QED
  BY <1>1, InvInit, InvNext, PTL DEF Spec

-----------------------------------------------------------------------------
(* What a joined meeting asks *)

(* A meeting has no question that its assessment has not. *)
CopiesInv ==
  \A row \in copies :
    row.meeting \in DOMAIN meetings /\ row.question \in QuestionsFor(row.meeting)

(* A join that no recreation met has each question ahead of it or stored. *)
VisitInv(g) ==
  /\ g.pc # "copy" => g.left = {}
  /\ g.pc = "copy" =>
       /\ g.left \subseteq QuestionsFor(g.meeting)
       /\ g.meeting \in raced \/ QuestionsFor(g.meeting) \subseteq g.left \cup Asked(g.meeting)

(* A join and a recreation of one meeting have met; where none did, the      *)
(* questions are deleted of a pending meeting.                               *)
RecreatingInv(f) ==
  f.pc \in {"reopen", "purge"} =>
    /\ f.meeting \in DOMAIN meetings
    /\ f.meeting \in raced \/
         /\ \A v \in Visitors : visit[v].pc # "away" => visit[v].meeting # f.meeting
         /\ f.pc = "purge" => meetings[f.meeting].status = "pending"

JoinedInv ==
  \A m \in DOMAIN meetings \ raced :
    meetings[m].status = "joined" => QuestionsFor(m) \subseteq Asked(m)

JoinInv ==
  /\ CopiesInv /\ JoinedInv
  /\ \A v \in Visitors : VisitInv(visit[v])
  /\ \A r \in Requests : RecreatingInv(frame[r])

LEMMA QuestionsStay ==
  ASSUME Inv, \A b \in Assessments : Settled(b),
         \A m \in DOMAIN meetings :
           m \in DOMAIN meetings' /\ meetings'[m].assessment = meetings[m].assessment
  PROVE  \A m \in DOMAIN meetings : QuestionsFor(m)' = QuestionsFor(m)
<1> SUFFICES ASSUME NEW m \in DOMAIN meetings PROVE QuestionsFor(m)' = QuestionsFor(m)
  OBVIOUS
<1>1. PICK a \in Assessments : a = meetings[m].assessment
  <2>1. meetings[m] \in Meeting
    BY DEF Inv, TypeInv, TypeOK
  <2>2. QED
    BY <2>1 DEF Meeting
<1>2. Published(a)
  BY <1>1 DEF Inv, RowsInv
<1>3. steps'[a] = steps[a] /\ meetings'[m].assessment = a
  BY <1>1, <1>2 DEF Settled
<1>4. QED
  BY <1>1, <1>3 DEF QuestionsFor

(* A step of a request that recreates no meeting. *)
LEMMA BesideJoins ==
  ASSUME Inv, JoinInv, \A b \in Assessments : Settled(b), UNCHANGED joins,
         \A m \in DOMAIN meetings : m \in DOMAIN meetings' /\ meetings'[m] = meetings[m],
         \A m \in DOMAIN meetings' : m \notin DOMAIN meetings => meetings'[m].status = "pending",
         \A q \in Requests : frame'[q].pc \in {"reopen", "purge"} => frame'[q] = frame[q]
  PROVE  JoinInv'
<1>1. \A m \in DOMAIN meetings : QuestionsFor(m)' = QuestionsFor(m)
  BY QuestionsStay
<1>2. UNCHANGED <<copies, visit, raced>> /\ \A m : Asked(m)' = Asked(m)
  BY DEF joins, Asked
<1>3. CopiesInv'
  BY <1>1, <1>2 DEF JoinInv, CopiesInv
<1>4. JoinedInv'
  BY <1>1, <1>2 DEF JoinInv, JoinedInv
<1>5. ASSUME NEW v \in Visitors
      PROVE  VisitInv(visit[v])'
  <2>1. visit[v].pc # "away" => visit[v].meeting \in DOMAIN meetings
    BY DEF Inv, TypeInv, VisitsTyped
  <2>2. VisitInv(visit[v])
    BY DEF JoinInv
  <2>3. QED
    BY <1>1, <1>2, <2>1, <2>2 DEF VisitInv
<1>6. ASSUME NEW q \in Requests
      PROVE  RecreatingInv(frame[q])'
  <2>1. RecreatingInv(frame[q])
    BY DEF JoinInv
  <2>2. QED
    BY <1>2, <2>1 DEF RecreatingInv
<1>7. QED
  BY <1>3, <1>4, <1>5, <1>6 DEF JoinInv

(* No frame turns to recreating a meeting in the steps of other handlers. *)
LEMMA BesideArrive ==
  ASSUME TypeOK, NEW r \in Requests, NEW a \in Assessments, Arrive(r, a)
  PROVE  \A q \in Requests : frame'[q].pc \in {"reopen", "purge"} => frame'[q] = frame[q]
<1>1. PICK f \in Frame : Start(r, a, f) /\ Begins(a, f)
  BY Beginnings
<1>2. frame'[r].pc = f.pc /\ \A q \in Requests : q # r => frame'[q] = frame[q]
  BY <1>1, StartFrame DEF TypeOK
<1>3. f.pc \notin {"reopen", "purge"}
  BY <1>1 DEF Begins
<1>4. QED
  BY <1>2, <1>3

LEMMA BesideReturn ==
  ASSUME TypeOK, NEW r \in Requests, Return(r)
  PROVE  \A q \in Requests : frame'[q].pc \in {"reopen", "purge"} => frame'[q] = frame[q]
<1>1. frame'[r] = Idle /\ \A q \in Requests : q # r => frame'[q] = frame[q]
  BY ReturnFrame DEF TypeOK
<1>2. QED
  BY <1>1, IdleIsFrame

LEMMA BesideGoto ==
  ASSUME TypeOK, NEW r \in Requests, NEW pc \in PCs \ {"reopen", "purge"}, Goto(r, pc)
  PROVE  \A q \in Requests : frame'[q].pc \in {"reopen", "purge"} => frame'[q] = frame[q]
<1>1. frame'[r].pc = pc /\ \A q \in Requests : q # r => frame'[q] = frame[q]
  BY GotoFrame DEF TypeOK
<1>2. QED
  BY <1>1

LEMMA BesideContinue ==
  ASSUME TypeInv, NEW r \in Requests, NEW a \in Assessments, Continue(r, a),
         ~ ResetMeeting(r, a), ~ ReopenMeeting(r, a), ~ DeleteMeetingQuestions(r, a)
  PROVE  \A q \in Requests : frame'[q].pc \in {"reopen", "purge"} => frame'[q] = frame[q]
<1>1. TypeOK /\ frame \in [Requests -> Frame] /\ frame[r] \in Frame /\ RequestTyped(frame[r])
  BY DEF TypeInv, TypeOK
<1>2. CASE InsertAssessment(r, a) \/ SaveAssessment(r, a) \/ SaveCandidates(r, a) \/ ResetUnjoined(r, a)
  BY <1>1, <1>2, BesideReturn DEF InsertAssessment, SaveAssessment, SaveCandidates, ResetUnjoined
<1>3. CASE DeleteSteps(r, a) \/ SavePublished(r, a) \/ FindMeeting(r, a)
  BY <1>1, <1>3, BesideGoto DEF DeleteSteps, SavePublished, FindMeeting, PCs
<1>4. CASE CheckQuestions(r, a)
  BY <1>1, <1>4, BesideGoto, BesideReturn DEF CheckQuestions, PCs
<1>5. CASE LoadAssessment(r, a)
  <2>1. \/ Return(r)
        \/ frame' = [frame EXCEPT ![r].pc = "assign",
                        ![r].row = [assessment[a] EXCEPT !.candidates = frame[r].row.candidates]]
    BY <1>5 DEF LoadAssessment
  <2>2. QED
    BY <1>1, <2>1, BesideReturn DEF Frame
<1>6. CASE InsertStep(r, a)
  <2>1. frame[r].pc = "step" /\ (Return(r) \/ frame' = [frame EXCEPT ![r].chosen = Tail(@)])
    BY <1>6 DEF InsertStep, At
  <2>2. QED
    BY <1>1, <2>1, BesideReturn DEF Frame
<1>7. CASE createAssessmentMeeting(r, a)
  <2>1. frame[r].pc = "meeting" /\ (Return(r) \/ frame' = [frame EXCEPT ![r].left = Tail(@)])
    BY <1>7 DEF createAssessmentMeeting, At
  <2>2. QED
    BY <1>1, <2>1, BesideReturn DEF Frame
<1>8. CASE InsertNewMeeting(r, a)
  <2>1. frame' = [frame EXCEPT ![r].pc = "add",
                     ![r].row.candidates = @ \cup {Head(frame[r].left)}]
    BY <1>8 DEF InsertNewMeeting
  <2>2. frame'[r].pc = "add" /\ \A q \in Requests : q # r => frame'[q] = frame[q]
    BY <1>1, <2>1 DEF Frame
  <2>3. QED
    BY <2>2
<1>9. CASE AddCandidate(r, a)
  <2>1. frame[r].pc = "add" /\ NextCandidate(r)
    BY <1>9 DEF AddCandidate, At
  <2>2. frame[r].left # <<>>
    BY <1>1, <2>1 DEF RequestTyped
  <2>3. /\ \A q \in Requests : q # r => frame'[q] = frame[q]
        /\ frame'[r] = Idle \/ frame'[r].pc = "find"
    BY <1>1, <2>1, <2>2, NextCandidateFrame
  <2>4. QED
    BY <2>3, IdleIsFrame
<1>10. QED
  BY <1>2, <1>3, <1>4, <1>5, <1>6, <1>7, <1>8, <1>9 DEF Continue

LEMMA BesideRequests ==
  ASSUME Inv, JoinInv, \A b \in Assessments : Settled(b), NEW r \in Requests, NEW a \in Assessments,
         \/ Arrive(r, a)
         \/ /\ Continue(r, a)
            /\ ~ ResetMeeting(r, a) /\ ~ ReopenMeeting(r, a) /\ ~ DeleteMeetingQuestions(r, a)
  PROVE  JoinInv'
<1>1. TypeInv /\ TypeOK
  BY DEF Inv, TypeInv
<1>2. \A q \in Requests : frame'[q].pc \in {"reopen", "purge"} => frame'[q] = frame[q]
  BY <1>1, BesideArrive, BesideContinue
<1>3. UNCHANGED joins
  <2>1. CASE Arrive(r, a)
    BY <1>1, <2>1, Beginnings
  <2>2. CASE ~ Arrive(r, a)
    BY <2>2 DEF Continue, InsertAssessment, SaveAssessment, DeleteSteps, InsertStep, LoadAssessment,
         SaveCandidates, CheckQuestions, SavePublished, createAssessmentMeeting, FindMeeting,
         ResetUnjoined, InsertNewMeeting, AddCandidate
  <2>3. QED
    BY <2>1, <2>2
<1>4. /\ \A m \in DOMAIN meetings : m \in DOMAIN meetings' /\ meetings'[m] = meetings[m]
      /\ \A m \in DOMAIN meetings' : m \notin DOMAIN meetings => meetings'[m].status = "pending"
  <2>1. CASE \E c \in Candidates : InsertMeeting(a, c)
    BY <1>1, <2>1, InsertedMeeting
  <2>2. CASE meetings' = meetings
    BY <2>2
  <2>3. meetings' = meetings \/ \E c \in Candidates : InsertMeeting(a, c)
    <3>1. CASE Arrive(r, a)
      BY <1>1, <3>1, Beginnings
    <3>2. CASE createAssessmentMeeting(r, a) \/ InsertNewMeeting(r, a)
      <4>1. frame[r].pc \in {"meeting", "new"} /\ InsertMeeting(a, Head(frame[r].left))
        BY <3>2 DEF createAssessmentMeeting, InsertNewMeeting, At
      <4>2. frame[r].left \in Seq(Candidates) /\ frame[r].left # <<>>
        BY <1>1, <4>1, FrameFields DEF TypeInv, TypeOK, RequestTyped
      <4>3. Head(frame[r].left) \in Candidates
        BY <4>2, HeadAndTail
      <4>4. QED
        BY <4>1, <4>3
    <3>3. CASE ~ Arrive(r, a) /\ ~ createAssessmentMeeting(r, a) /\ ~ InsertNewMeeting(r, a)
      BY <3>3 DEF Continue, InsertAssessment, SaveAssessment, DeleteSteps, InsertStep,
           LoadAssessment, SaveCandidates, CheckQuestions, SavePublished, FindMeeting,
           ResetUnjoined, AddCandidate, rows
    <3>4. QED
      BY <3>1, <3>2, <3>3
  <2>4. QED
    BY <2>1, <2>2, <2>3
<1>5. QED
  BY <1>2, <1>3, <1>4, BesideJoins

(* A recreation begins; a join of the meeting in flight is noted. *)
LEMMA JoinsReset ==
  ASSUME Inv, JoinInv, NEW r \in Requests, NEW a \in Assessments, ResetMeeting(r, a)
  PROVE  JoinInv'
<1>1. PICK m \in DOMAIN meetings :
        /\ frame' = [frame EXCEPT ![r].pc = "reopen", ![r].meeting = m]
        /\ raced' = raced \cup {n \in {m} : \E v \in Visitors : visit[v].meeting = n}
  BY Zenon DEF ResetMeeting, MeetingsOf
<1>2. UNCHANGED <<assessment, steps, meetings, copies, visit>>
  BY DEF ResetMeeting, rows
<1>3. /\ \A n : QuestionsFor(n)' = QuestionsFor(n) /\ Asked(n)' = Asked(n)
      /\ raced \subseteq raced'
  BY <1>1, <1>2 DEF QuestionsFor, Asked
<1>4. CopiesInv' /\ JoinedInv'
  BY <1>2, <1>3 DEF JoinInv, CopiesInv, JoinedInv
<1>5. ASSUME NEW v \in Visitors
      PROVE  VisitInv(visit[v])'
  BY <1>2, <1>3 DEF JoinInv, VisitInv
<1>6. ASSUME NEW q \in Requests
      PROVE  RecreatingInv(frame[q])'
  <2>1. frame \in [Requests -> Frame] /\ m \in Nat
    BY DEF Inv, TypeInv, TypeOK
  <2>2. /\ \A p \in Requests : p # r => frame'[p] = frame[p]
        /\ frame'[r].pc = "reopen" /\ frame'[r].meeting = m
    BY <1>1, <2>1, ReopenFrame
  <2>3. CASE q = r
    <3>1. PICK f : f = frame'[q]
      OBVIOUS
    <3>2. f.pc = "reopen" /\ f.meeting = m
      BY <2>2, <2>3, <3>1
    <3>3. m \in raced' \/ \A v \in Visitors : visit'[v].meeting # m
      BY <1>1, <1>2
    <3>4. RecreatingInv(f)'
      BY <1>2, <3>2, <3>3 DEF RecreatingInv
    <3>5. QED
      BY <3>1, <3>4
  <2>4. CASE q # r
    <3>1. RecreatingInv(frame[q]) /\ frame'[q] = frame[q]
      BY <2>2, <2>4 DEF JoinInv
    <3>2. QED
      BY <1>2, <1>3, <3>1 DEF RecreatingInv
  <2>5. QED
    BY <2>3, <2>4
<1>7. QED
  BY <1>4, <1>5, <1>6 DEF JoinInv

(* The meeting is pending, and asks for nothing. *)
LEMMA JoinsReopen ==
  ASSUME Inv, JoinInv, NEW r \in Requests, NEW a \in Assessments, ReopenMeeting(r, a)
  PROVE  JoinInv'
<1>1. /\ frame \in [Requests -> Frame] /\ frame[r].pc = "reopen" /\ TypeOK
      /\ frame[r].meeting \in Nat /\ RecreatingInv(frame[r])
  BY FrameFields DEF Inv, TypeInv, TypeOK, ReopenMeeting, At, JoinInv
<1>2. PICK m : m = frame[r].meeting
  OBVIOUS
<1>3. m \in DOMAIN meetings
  BY <1>1, <1>2 DEF RecreatingInv
<1>4. /\ DOMAIN meetings' = DOMAIN meetings
      /\ meetings'[m].status = "pending"
      /\ \A n \in DOMAIN meetings :
           /\ meetings'[n].assessment = meetings[n].assessment
           /\ n # m => meetings'[n] = meetings[n]
  BY <1>1, <1>2, <1>3, ReopenedMeeting DEF ReopenMeeting
<1>5. UNCHANGED <<assessment, steps, copies, visit, raced>>
  BY DEF ReopenMeeting, joins
<1>6. /\ \A n \in DOMAIN meetings : QuestionsFor(n)' = QuestionsFor(n)
      /\ \A n : Asked(n)' = Asked(n)
  <2>1. \A n \in DOMAIN meetings : QuestionsFor(n)' = QuestionsFor(n)
    <3> SUFFICES ASSUME NEW n \in DOMAIN meetings PROVE QuestionsFor(n)' = QuestionsFor(n)
      OBVIOUS
    <3>1. meetings'[n].assessment = meetings[n].assessment /\ steps' = steps
      BY <1>4, <1>5
    <3>2. steps'[meetings'[n].assessment] = steps[meetings[n].assessment]
      BY <3>1
    <3>3. QED
      BY <3>2 DEF QuestionsFor
  <2>2. QED
    BY <1>5, <2>1 DEF Asked
<1>7. CopiesInv' /\ JoinedInv'
  <2>1. CopiesInv'
    BY <1>4, <1>5, <1>6 DEF JoinInv, CopiesInv
  <2>2. JoinedInv'
    <3> SUFFICES ASSUME NEW n \in DOMAIN meetings', n \notin raced', meetings'[n].status = "joined"
                 PROVE  QuestionsFor(n)' \subseteq Asked(n)'
      BY DEF JoinedInv
    <3>1. n \in DOMAIN meetings \ raced /\ meetings[n].status = "joined"
      BY <1>4, <1>5
    <3>2. QED
      BY <1>6, <3>1 DEF JoinInv, JoinedInv
  <2>3. QED
    BY <2>1, <2>2
<1>8. ASSUME NEW v \in Visitors
      PROVE  VisitInv(visit[v])'
  <2>1. VisitInv(visit[v]) /\ (visit[v].pc # "away" => visit[v].meeting \in DOMAIN meetings)
    BY DEF JoinInv, Inv, TypeInv, VisitsTyped
  <2>2. QED
    BY <1>5, <1>6, <2>1 DEF VisitInv
<1>9. ASSUME NEW q \in Requests
      PROVE  RecreatingInv(frame[q])'
  <2>1. /\ \A p \in Requests : p # r => frame'[p] = frame[p]
        /\ frame'[r].pc = "purge" /\ frame'[r].meeting = m
    BY <1>1, <1>2, GotoFrame DEF ReopenMeeting, PCs
  <2>2. CASE q = r
    BY <1>1, <1>2, <1>3, <1>4, <1>5, <2>1, <2>2 DEF RecreatingInv
  <2>3. CASE q # r
    <3>1. RecreatingInv(frame[q]) /\ frame'[q] = frame[q]
      BY <2>1, <2>3 DEF JoinInv
    <3>2. \A n \in DOMAIN meetings :
            meetings[n].status = "pending" => meetings'[n].status = "pending"
      BY <1>4
    <3>3. PICK f : f = frame[q]
      OBVIOUS
    <3>4. RecreatingInv(f)'
      <4>1. RecreatingInv(f)
        BY <3>1, <3>3
      <4>2. QED
        BY <1>4, <1>5, <3>2, <4>1 DEF RecreatingInv
    <3>5. QED
      BY <3>1, <3>3, <3>4
  <2>4. QED
    BY <2>2, <2>3
<1>10. QED
  BY <1>7, <1>8, <1>9 DEF JoinInv

(* Its questions are deleted: it is not joined, and nobody who joins it      *)
(* counts on them, unless the join was noted.                                *)
LEMMA JoinsPurge ==
  ASSUME Inv, JoinInv, NEW r \in Requests, NEW a \in Assessments, DeleteMeetingQuestions(r, a)
  PROVE  JoinInv'
<1>1. /\ frame \in [Requests -> Frame] /\ frame[r].pc = "purge" /\ frame[r].left # <<>>
      /\ RecreatingInv(frame[r])
  BY DEF Inv, TypeInv, TypeOK, RequestTyped, DeleteMeetingQuestions, At, JoinInv
<1>2. PICK m : m = frame[r].meeting
  OBVIOUS
<1>3. copies' = {row \in copies : row.meeting # m}
  BY <1>2 DEF DeleteMeetingQuestions
<1>4. UNCHANGED <<assessment, steps, meetings, visit, raced>>
  BY DEF DeleteMeetingQuestions, rows
<1>5. /\ \A n : QuestionsFor(n)' = QuestionsFor(n)
      /\ \A n : n # m => Asked(n)' = Asked(n)
  <2>1. \A n : QuestionsFor(n)' = QuestionsFor(n)
    BY <1>4 DEF QuestionsFor
  <2>2. ASSUME NEW n, n # m
        PROVE  {c \in copies' : c.meeting = n} = {c \in copies : c.meeting = n}
    BY <1>3, <2>2
  <2>3. QED
    BY <2>1, <2>2 DEF Asked
<1>6. \/ m \in raced
      \/ /\ \A v \in Visitors : visit[v].pc # "away" => visit[v].meeting # m
         /\ meetings[m].status = "pending"
  BY <1>1, <1>2 DEF RecreatingInv
<1>7. CopiesInv'
  BY <1>3, <1>4, <1>5 DEF JoinInv, CopiesInv
<1>8. JoinedInv'
  BY <1>4, <1>5, <1>6 DEF JoinInv, JoinedInv
<1>9. ASSUME NEW v \in Visitors
      PROVE  VisitInv(visit[v])'
  <2>1. VisitInv(visit[v])
    BY DEF JoinInv
  <2>2. QED
    BY <1>4, <1>5, <1>6, <2>1 DEF VisitInv
<1>10. ASSUME NEW q \in Requests
       PROVE  RecreatingInv(frame[q])'
  <2>1. /\ \A p \in Requests : p # r => frame'[p] = frame[p]
        /\ frame'[r] = Idle \/ frame'[r].pc = "find"
    BY <1>1, NextCandidateFrame DEF DeleteMeetingQuestions
  <2>2. CASE q = r
    BY <2>1, <2>2, IdleIsFrame DEF RecreatingInv
  <2>3. CASE q # r
    <3>1. RecreatingInv(frame[q]) /\ frame'[q] = frame[q]
      BY <2>1, <2>3 DEF JoinInv
    <3>2. QED
      BY <1>4, <3>1 DEF RecreatingInv
  <2>4. QED
    BY <2>2, <2>3
<1>11. QED
  BY <1>7, <1>8, <1>9, <1>10 DEF JoinInv

(* What the steps of a join have in common. *)
LEMMA JoinsOnly ==
  ASSUME Inv, NEW v \in Visitors, joinAssessmentMeeting(v)
  PROVE  /\ UNCHANGED <<assessment, steps, frame>> /\ raced \subseteq raced'
         /\ DOMAIN meetings' = DOMAIN meetings
         /\ \A n \in DOMAIN meetings : QuestionsFor(n)' = QuestionsFor(n)
         /\ visit \in [Visitors -> Visit] /\ visit[v] \in Visit
         /\ visit[v].pc # "away" => visit[v].meeting \in DOMAIN meetings
<1>1. UNCHANGED <<assessment, steps, frame>> /\ raced \subseteq raced'
  BY DEF joinAssessmentMeeting, Join, FindQuestions, CopyQuestion, Enter, Abandon, rows
<1>2. /\ TypeOK /\ visit \in [Visitors -> Visit] /\ visit[v] \in Visit
      /\ visit[v].pc # "away" => visit[v].meeting \in DOMAIN meetings
  BY DEF Inv, TypeInv, TypeOK, VisitsTyped
<1>3. /\ DOMAIN meetings' = DOMAIN meetings
      /\ \A n \in DOMAIN meetings : meetings'[n].assessment = meetings[n].assessment
  <2>1. CASE Enter(v)
    <3>1. visit[v].meeting \in DOMAIN meetings
      BY <1>2, <2>1 DEF Enter
    <3>2. QED
      BY <1>2, <2>1, <3>1, EnteredMeeting DEF Enter
  <2>2. CASE ~ Enter(v)
    BY <2>2 DEF joinAssessmentMeeting, Join, FindQuestions, CopyQuestion, Abandon, rows
  <2>3. QED
    BY <2>1, <2>2
<1>4. \A b \in Assessments : Settled(b)
  BY KeepJoin DEF Kept
<1>5. QED
  BY <1>1, <1>2, <1>3, <1>4, QuestionsStay

(* A join of a meeting stands in the way of its recreation only if noted. *)
LEMMA JoinsMeet ==
  ASSUME Inv, JoinInv, NEW v \in Visitors, joinAssessmentMeeting(v), NEW q \in Requests
  PROVE  RecreatingInv(frame[q])'
<1>1. PICK f : f = frame[q] /\ f = frame'[q]
  BY JoinsOnly
<1>2. RecreatingInv(f) /\ raced \subseteq raced' /\ DOMAIN meetings' = DOMAIN meetings
  BY <1>1, JoinsOnly DEF JoinInv
<1>3. /\ visit \in [Visitors -> Visit] /\ visit[v] \in Visit
      /\ visit[v].pc # "away" => visit[v].meeting \in DOMAIN meetings
  BY JoinsOnly
<1>4. SUFFICES ASSUME f.pc \in {"reopen", "purge"}, f.meeting \notin raced'
               PROVE  /\ f.meeting \in DOMAIN meetings'
                      /\ \A w \in Visitors : visit'[w].pc # "away" => visit'[w].meeting # f.meeting
                      /\ f.pc = "purge" => meetings'[f.meeting].status = "pending"
  BY <1>1, <1>2 DEF RecreatingInv
<1>5. /\ f.meeting \in DOMAIN meetings /\ f.meeting \notin raced
      /\ \A w \in Visitors : visit[w].pc # "away" => visit[w].meeting # f.meeting
      /\ f.pc = "purge" => meetings[f.meeting].status = "pending"
  BY <1>2, <1>4 DEF RecreatingInv
<1>6. /\ \A w \in Visitors : w # v => visit'[w] = visit[w]
      /\ visit'[v].pc # "away" => visit'[v].meeting # f.meeting
  <2>1. CASE \E m \in DOMAIN meetings : Join(v, m)
    <3>1. PICK m \in DOMAIN meetings : Join(v, m)
      BY <2>1
    <3>2. visit' = [visit EXCEPT ![v] = [pc |-> "read", meeting |-> m, left |-> {}]]
      BY <3>1 DEF Join
    <3>3. visit'[v].meeting = m /\ \A w \in Visitors : w # v => visit'[w] = visit[w]
      BY <1>3, <3>2
    <3>4. f.meeting # m
      BY <1>1, <1>4, <3>1 DEF Join, Recreating
    <3>5. QED
      BY <3>3, <3>4
  <2>2. CASE FindQuestions(v)
    BY <1>3, <1>5, <2>2 DEF FindQuestions, Visit
  <2>3. CASE \E c \in Questions : CopyQuestion(v, c)
    BY <1>3, <1>5, <2>3 DEF CopyQuestion, Visit
  <2>4. CASE Enter(v) \/ Abandon(v)
    BY <1>3, <2>4 DEF Enter, Abandon, Away
  <2>5. QED
    BY <2>1, <2>2, <2>3, <2>4 DEF joinAssessmentMeeting
<1>7. meetings'[f.meeting] = meetings[f.meeting]
  <2>1. CASE Enter(v)
    <3>1. visit[v].meeting \in DOMAIN meetings /\ visit[v].meeting # f.meeting
      BY <1>3, <1>5, <2>1 DEF Enter
    <3>2. TypeOK
      BY DEF Inv, TypeInv
    <3>3. QED
      BY <1>5, <2>1, <3>1, <3>2, EnteredMeeting DEF Enter
  <2>2. CASE ~ Enter(v)
    BY <2>2 DEF joinAssessmentMeeting, Join, FindQuestions, CopyQuestion, Abandon, rows
  <2>3. QED
    BY <2>1, <2>2
<1>8. QED
  BY <1>2, <1>5, <1>6, <1>7

(* A join that stores nothing. *)
LEMMA JoinsRead ==
  ASSUME Inv, JoinInv, NEW v \in Visitors, joinAssessmentMeeting(v),
         UNCHANGED <<meetings, copies>>, NEW g, visit' = [visit EXCEPT ![v] = g], VisitInv(g)'
  PROVE  JoinInv'
<1>1. /\ raced \subseteq raced' /\ visit \in [Visitors -> Visit]
      /\ \A n \in DOMAIN meetings : QuestionsFor(n)' = QuestionsFor(n)
  BY JoinsOnly
<1>2. \A n : Asked(n)' = Asked(n)
  BY DEF Asked
<1>3. CopiesInv' /\ JoinedInv'
  BY <1>1, <1>2 DEF JoinInv, CopiesInv, JoinedInv
<1>4. ASSUME NEW w \in Visitors
      PROVE  VisitInv(visit[w])'
  <2>1. CASE w = v
    BY <1>1, <2>1
  <2>2. CASE w # v
    <3>1. PICK h : h = visit[w] /\ h = visit'[w]
      BY <1>1, <2>2
    <3>2. VisitInv(h) /\ (h.pc # "away" => h.meeting \in DOMAIN meetings)
      BY <3>1 DEF JoinInv, Inv, TypeInv, VisitsTyped
    <3>3. VisitInv(h)'
      BY <1>1, <1>2, <3>2 DEF VisitInv
    <3>4. QED
      BY <3>1, <3>3
  <2>3. QED
    BY <2>1, <2>2
<1>5. QED
  BY <1>3, <1>4, JoinsMeet DEF JoinInv

LEMMA JoinsCopy ==
  ASSUME Inv, JoinInv, NEW v \in Visitors, NEW q \in Questions, CopyQuestion(v, q)
  PROVE  JoinInv'
<1>1. joinAssessmentMeeting(v)
  BY DEF joinAssessmentMeeting
<1>2. /\ visit \in [Visitors -> Visit] /\ visit[v] \in Visit
      /\ visit[v].pc # "away" => visit[v].meeting \in DOMAIN meetings
      /\ \A n \in DOMAIN meetings : QuestionsFor(n)' = QuestionsFor(n)
  BY <1>1, JoinsOnly
<1>3. PICK m, left : m = visit[v].meeting /\ left = visit[v].left
  OBVIOUS
<1>4. /\ q \in left /\ copies' = copies \cup {[meeting |-> m, question |-> q]}
      /\ visit' = [visit EXCEPT ![v].left = left \ {q}] /\ UNCHANGED <<meetings, raced>>
  BY <1>3 DEF CopyQuestion, rows
<1>5. /\ visit[v].pc = "copy" /\ m \in DOMAIN meetings /\ left \subseteq QuestionsFor(m)
      /\ m \in raced \/ QuestionsFor(m) \subseteq left \cup Asked(m)
  <2>1. VisitInv(visit[v])
    BY DEF JoinInv
  <2>2. visit[v].pc = "copy"
    BY <1>3, <1>4, <2>1 DEF VisitInv
  <2>3. QED
    BY <1>2, <1>3, <2>1, <2>2 DEF VisitInv
<1>6. \A n : Asked(n) \subseteq Asked(n)'
  BY <1>4 DEF Asked
<1>7. q \in Asked(m)'
  <2>1. PICK stored : stored = [meeting |-> m, question |-> q]
    OBVIOUS
  <2>2. stored \in copies' /\ stored.meeting = m /\ stored.question = q
    BY <1>4, <2>1
  <2>3. QED
    BY <2>2 DEF Asked
<1>8. CopiesInv'
  <2> SUFFICES ASSUME NEW row \in copies'
               PROVE  row.meeting \in DOMAIN meetings /\ row.question \in QuestionsFor(row.meeting)
    BY <1>2, <1>4 DEF CopiesInv
  <2>1. CASE row \in copies
    BY <2>1 DEF JoinInv, CopiesInv
  <2>2. CASE row = [meeting |-> m, question |-> q]
    BY <1>4, <1>5, <2>2
  <2>3. QED
    BY <1>4, <2>1, <2>2
<1>9. JoinedInv'
  BY <1>2, <1>4, <1>6 DEF JoinInv, JoinedInv
<1>10. ASSUME NEW w \in Visitors
       PROVE  VisitInv(visit[w])'
  <2>1. CASE w = v
    <3>1. PICK h : h = visit'[w]
      OBVIOUS
    <3>2. h.pc = "copy" /\ h.meeting = m /\ h.left = left \ {q}
      BY <1>2, <1>3, <1>4, <1>5, <2>1, <3>1 DEF Visit
    <3>3. VisitInv(h)'
      BY <1>2, <1>4, <1>5, <1>6, <1>7, <3>2 DEF VisitInv
    <3>4. QED
      BY <3>1, <3>3
  <2>2. CASE w # v
    <3>1. PICK h : h = visit[w] /\ h = visit'[w]
      BY <1>2, <1>4, <2>2
    <3>2. VisitInv(h) /\ (h.pc # "away" => h.meeting \in DOMAIN meetings)
      BY <3>1 DEF JoinInv, Inv, TypeInv, VisitsTyped
    <3>3. VisitInv(h)'
      BY <1>2, <1>4, <1>6, <3>2 DEF VisitInv
    <3>4. QED
      BY <3>1, <3>3
  <2>3. QED
    BY <2>1, <2>2
<1>11. QED
  BY <1>1, <1>8, <1>9, <1>10, JoinsMeet DEF JoinInv

LEMMA JoinsEnter ==
  ASSUME Inv, JoinInv, NEW v \in Visitors, Enter(v)
  PROVE  JoinInv'
<1>1. joinAssessmentMeeting(v)
  BY DEF joinAssessmentMeeting
<1>2. /\ visit \in [Visitors -> Visit] /\ DOMAIN meetings' = DOMAIN meetings
      /\ visit[v].pc # "away" => visit[v].meeting \in DOMAIN meetings
      /\ \A n \in DOMAIN meetings : QuestionsFor(n)' = QuestionsFor(n)
  BY <1>1, JoinsOnly
<1>3. PICK m : m = visit[v].meeting
  OBVIOUS
<1>4. /\ visit' = [visit EXCEPT ![v] = Away] /\ UNCHANGED <<copies, raced>>
      /\ m \in DOMAIN meetings
      /\ m \in raced \/ QuestionsFor(m) \subseteq Asked(m)
  <2>1. visit[v].pc = "copy" /\ visit[v].left = {} /\ VisitInv(visit[v])
    BY DEF Enter, JoinInv
  <2>2. QED
    BY <1>2, <1>3, <2>1 DEF Enter, VisitInv
<1>5. \A n : Asked(n)' = Asked(n)
  BY <1>4 DEF Asked
<1>6. CopiesInv'
  BY <1>2, <1>4, <1>5 DEF JoinInv, CopiesInv
<1>7. JoinedInv'
  <2> SUFFICES ASSUME NEW n \in DOMAIN meetings', n \notin raced', meetings'[n].status = "joined"
               PROVE  QuestionsFor(n)' \subseteq Asked(n)'
    BY DEF JoinedInv
  <2>1. CASE n = m
    BY <1>2, <1>4, <1>5, <2>1
  <2>2. CASE n # m
    <3>1. TypeOK
      BY DEF Inv, TypeInv
    <3>2. meetings'[n] = meetings[n]
      BY <1>2, <1>3, <1>4, <2>2, <3>1, EnteredMeeting DEF Enter
    <3>3. QED
      BY <1>2, <1>4, <1>5, <3>2 DEF JoinInv, JoinedInv
  <2>3. QED
    BY <2>1, <2>2
<1>8. ASSUME NEW w \in Visitors
      PROVE  VisitInv(visit[w])'
  <2>1. CASE w = v
    <3>1. visit'[w] = Away
      BY <1>2, <1>4, <2>1
    <3>2. QED
      BY <3>1 DEF VisitInv, Away
  <2>2. CASE w # v
    <3>1. PICK h : h = visit[w] /\ h = visit'[w]
      BY <1>2, <1>4, <2>2
    <3>2. VisitInv(h) /\ (h.pc # "away" => h.meeting \in DOMAIN meetings)
      BY <3>1 DEF JoinInv, Inv, TypeInv, VisitsTyped
    <3>3. VisitInv(h)'
      BY <1>2, <1>4, <1>5, <3>2 DEF VisitInv
    <3>4. QED
      BY <3>1, <3>3
  <2>3. QED
    BY <2>1, <2>2
<1>9. QED
  BY <1>1, <1>6, <1>7, <1>8, JoinsMeet DEF JoinInv

LEMMA JoinsJoin ==
  ASSUME Inv, JoinInv, NEW v \in Visitors, joinAssessmentMeeting(v)
  PROVE  JoinInv'
<1>1. /\ visit[v] \in Visit /\ DOMAIN meetings' = DOMAIN meetings
      /\ visit[v].pc # "away" => visit[v].meeting \in DOMAIN meetings
      /\ \A n \in DOMAIN meetings : QuestionsFor(n)' = QuestionsFor(n)
  BY JoinsOnly
<1>2. CASE \E m \in DOMAIN meetings : Join(v, m)
  <2>1. PICK m \in DOMAIN meetings : Join(v, m)
    BY <1>2
  <2>2. PICK g : g = [pc |-> "read", meeting |-> m, left |-> {}]
    OBVIOUS
  <2>3. visit' = [visit EXCEPT ![v] = g] /\ UNCHANGED <<meetings, copies>>
    BY <2>1, <2>2 DEF Join, rows
  <2>4. VisitInv(g)'
    BY <2>2 DEF VisitInv
  <2>5. QED
    BY <2>3, <2>4, JoinsRead
<1>3. CASE FindQuestions(v)
  <2>1. PICK m : m = visit[v].meeting
    OBVIOUS
  <2>2. PICK g : g = [visit[v] EXCEPT !.pc = "copy", !.left = QuestionsFor(m)]
    OBVIOUS
  <2>3. visit' = [visit EXCEPT ![v] = g] /\ UNCHANGED <<meetings, copies>>
    BY <1>3, <2>1, <2>2 DEF FindQuestions, rows
  <2>4. m \in DOMAIN meetings
    BY <1>1, <1>3, <2>1 DEF FindQuestions
  <2>5. g.pc = "copy" /\ g.meeting = m /\ g.left = QuestionsFor(m)
    BY <1>1, <2>1, <2>2 DEF Visit
  <2>6. VisitInv(g)'
    BY <1>1, <2>4, <2>5 DEF VisitInv
  <2>7. QED
    BY <2>3, <2>6, JoinsRead
<1>4. CASE \E q \in Questions : CopyQuestion(v, q)
  BY <1>4, JoinsCopy
<1>5. CASE Enter(v)
  BY <1>5, JoinsEnter
<1>6. CASE Abandon(v)
  <2>1. visit' = [visit EXCEPT ![v] = Away] /\ UNCHANGED <<meetings, copies>>
    BY <1>6 DEF Abandon, rows
  <2>2. VisitInv(Away)'
    BY DEF VisitInv, Away
  <2>3. QED
    BY <2>1, <2>2, JoinsRead
<1>7. QED
  BY <1>2, <1>3, <1>4, <1>5, <1>6 DEF joinAssessmentMeeting

LEMMA JoinInit == Init => JoinInv
<1> SUFFICES ASSUME Init PROVE JoinInv
  OBVIOUS
<1>1. copies = {} /\ meetings = <<>>
  BY DEF Init
<1>2. CopiesInv /\ JoinedInv
  BY <1>1 DEF CopiesInv, JoinedInv
<1>3. \A v \in Visitors : VisitInv(visit[v])
  BY DEF Init, Away, VisitInv
<1>4. \A r \in Requests : RecreatingInv(frame[r])
  BY IdleIsFrame DEF Init, RecreatingInv
<1>5. QED
  BY <1>2, <1>3, <1>4 DEF JoinInv

LEMMA JoinNext ==
  ASSUME OneAtATime
  PROVE  Inv /\ JoinInv /\ [Next]_vars => JoinInv'
<1> SUFFICES ASSUME Inv, JoinInv, [Next]_vars PROVE JoinInv'
  OBVIOUS
<1>1. \A b \in Assessments : Settled(b)
  BY KeepNext DEF Kept
<1>2. ASSUME NEW r \in Requests, NEW a \in Assessments, Arrive(r, a) \/ Continue(r, a)
      PROVE  JoinInv'
  BY <1>1, <1>2, BesideRequests, JoinsReset, JoinsReopen, JoinsPurge
<1>3. ASSUME NEW v \in Visitors, joinAssessmentMeeting(v)
      PROVE  JoinInv'
  BY <1>3, JoinsJoin
<1>4. ASSUME NEW r \in Requests, Fail(r)
      PROVE  JoinInv'
  <2>1. TypeOK /\ Return(r) /\ UNCHANGED <<meetings, joins>>
    BY <1>4 DEF Fail, rows, Inv, TypeInv
  <2>2. \A q \in Requests : frame'[q].pc \in {"reopen", "purge"} => frame'[q] = frame[q]
    BY <2>1, BesideReturn
  <2>3. QED
    BY <1>1, <2>1, <2>2, BesideJoins
<1>5. CASE UNCHANGED vars
  BY <1>1, <1>5, BesideJoins DEF vars, joins
<1>6. QED
  BY <1>2, <1>3, <1>4, <1>5 DEF Next

(* If recruiters do not work on one assessment at once, a meeting that was   *)
(* joined has exactly the questions of its assessment, however many joins    *)
(* are in flight, stop halfway and are repeated, and wherever recreations    *)
(* stop: unless a join and a recreation of that meeting overlapped.          *)
THEOREM QuestionsAreCopied ==
  ASSUME OneAtATime
  PROVE  Spec => []JoinedHasQuestions
<1>1. JoinInv => JoinedHasQuestions
  <2> SUFFICES ASSUME JoinInv, NEW m \in DOMAIN meetings \ raced, meetings[m].status = "joined"
               PROVE  Asked(m) = QuestionsFor(m)
    BY DEF JoinedHasQuestions
  <2>1. Asked(m) \subseteq QuestionsFor(m)
    BY DEF JoinInv, CopiesInv, Asked
  <2>2. QED
    BY <2>1 DEF JoinInv, JoinedInv
<1>2. Init => Inv /\ JoinInv
  BY InvInit, JoinInit
<1>3. Inv /\ JoinInv /\ [Next]_vars => Inv' /\ JoinInv'
  BY InvNext, JoinNext
<1>4. QED
  BY <1>1, <1>2, <1>3, PTL DEF Spec

(* If recruiters do not work on one assessment at once, no handler that was  *)
(* suspended writes a published assessment back to what it read before.      *)
THEOREM PublishedStays ==
  ASSUME OneAtATime
  PROVE  Spec => PublishedIsSettled
<1>1. ASSUME Inv, [Next]_vars
      PROVE  \A a \in Assessments : assessment[a].status = "published" =>
               /\ assessment'[a].status = "published"
               /\ assessment'[a].title = assessment[a].title
               /\ assessment[a].candidates \subseteq assessment'[a].candidates
               /\ steps'[a] = steps[a]
  BY <1>1, KeepNext DEF Kept, Settled, Published
<1>2. QED
  BY <1>1, InvInit, InvNext, PTL DEF Spec, PublishedIsSettled
=============================================================================
