------------------------ MODULE QuestionBankProofs ------------------------
(* Theorems about QuestionBank, for every set of organizations, questions    *)
(* and labels, every number of requests at once and every bound: types, and  *)
(* what may become of the rules of a question.                               *)
EXTENDS QuestionBank, SequenceTheorems, TLAPS

-----------------------------------------------------------------------------
(* Types *)

(* A request at work knows its organization, and its question where it is    *)
(* about one; the rules of its entity were created.                          *)
RequestTyped(f) ==
  /\ f.pc = "idle" => f = Idle
  /\ f.pc # "idle" => f.organization \in Organizations
  /\ f.pc = "name" => f.label \in Labels
  /\ f.pc \in {"insert", "rules", "save"} => f.question \in Questions
  /\ f.pc \in {"rules", "save"} => f.question \in DOMAIN questions
  /\ f.rules \subseteq 1..created

TypeInv == TypeOK /\ \A r \in Requests : RequestTyped(frame[r])

LEMMA IdleIsFrame ==
  /\ Idle \in Frame
  /\ Idle.pc = "idle" /\ Idle.question = None /\ Idle.rules = {} /\ Idle.todo = <<>>
  /\ Idle.patch = FALSE
<1>1. /\ Idle.pc = "idle" /\ Idle.question = None /\ Idle.rules = {} /\ Idle.todo = <<>>
      /\ Idle.patch = FALSE
  BY DEF Idle
<1>2. <<>> \in Seq(Action)
  OBVIOUS
<1>3. QED
  BY <1>1, <1>2 DEF Idle, Frame

LEMMA RowInserted ==
  ASSUME NEW table, NEW key, NEW row
  PROVE  /\ DOMAIN Inserted(table, key, row) = DOMAIN table \cup {key}
         /\ \A k \in DOMAIN table : Inserted(table, key, row)[k] = table[k]
         /\ key \notin DOMAIN table => Inserted(table, key, row)[key] = row
         /\ Range(Inserted(table, key, row)) \subseteq Range(table) \cup {row}
BY DEF Inserted, Range

LEMMA FrameSet ==
  ASSUME frame \in [Requests -> Frame], NEW r \in Requests, NEW f \in Frame,
         frame' = [frame EXCEPT ![r] = f]
  PROVE  /\ frame' \in [Requests -> Frame] /\ frame'[r] = f
         /\ \A p \in Requests : p # r => frame'[p] = frame[p]
OBVIOUS

LEMMA GotoFrame ==
  ASSUME frame \in [Requests -> Frame], NEW r \in Requests,
         NEW pc \in {"idle", "name", "insert", "rules", "save"}, Goto(r, pc)
  PROVE  /\ frame' \in [Requests -> Frame]
         /\ \A p \in Requests : p # r => frame'[p] = frame[p]
         /\ frame'[r] = [frame[r] EXCEPT !.pc = pc]
         /\ frame'[r].pc = pc /\ frame'[r].organization = frame[r].organization
         /\ frame'[r].question = frame[r].question /\ frame'[r].rules = frame[r].rules
         /\ frame'[r].label = frame[r].label /\ frame'[r].patch = frame[r].patch
BY DEF Goto, Frame

LEMMA TailDiffers ==
  ASSUME NEW S, NEW s \in Seq(S), s # <<>>
  PROVE  Tail(s) \in Seq(S) /\ Tail(s) # s
<1>1. Len(s) \in Nat /\ Len(s) >= 1
  OBVIOUS
<1>2. Tail(s) \in Seq(S) /\ Len(Tail(s)) = Len(s) - 1
  BY HeadTailProperties
<1> DEFINE tail == Tail(s)
<1>3. tail \in Seq(S) /\ Len(tail) = Len(s) - 1
  BY <1>2
<1> HIDE DEF tail
<1>4. tail # s
  BY <1>1, <1>3
<1>5. QED
  BY <1>3, <1>4 DEF tail

LEMMA DoneFrame ==
  ASSUME frame \in [Requests -> Frame], NEW r \in Requests, NEW list \in SUBSET Nat,
         frame[r].todo # <<>>, Done(r, list)
  PROVE  /\ frame' \in [Requests -> Frame]
         /\ \A p \in Requests : p # r => frame'[p] = frame[p]
         /\ frame'[r].pc = frame[r].pc /\ frame'[r].organization = frame[r].organization
         /\ frame'[r].question = frame[r].question /\ frame'[r].rules = list
         /\ frame'[r].label = frame[r].label /\ frame'[r].patch = frame[r].patch
         /\ frame'[r].todo # frame[r].todo
<1>1. frame[r] \in Frame
  OBVIOUS
<1>2. frame[r].todo \in Seq(Action)
  BY <1>1 DEF Frame
<1>3. Tail(frame[r].todo) \in Seq(Action) /\ Tail(frame[r].todo) # frame[r].todo
  BY <1>2, TailDiffers
<1>4. frame' = [frame EXCEPT ![r] = [frame[r] EXCEPT !.todo = Tail(frame[r].todo), !.rules = list]]
  BY <1>1 DEF Done, Frame
<1>5. [frame[r] EXCEPT !.todo = Tail(frame[r].todo), !.rules = list] \in Frame
  BY <1>1, <1>3 DEF Frame
<1>6. QED
  BY <1>1, <1>3, <1>4, <1>5 DEF Frame

(* The requests that go on in their own frame stay typed where tables and    *)
(* the number of rules only grow.                                            *)
LEMMA StaysTyped ==
  ASSUME TypeInv, NEW r \in Requests, \A p \in Requests : p # r => frame'[p] = frame[p],
         RequestTyped(frame[r])', created' \in Nat, created <= created',
         DOMAIN questions \subseteq DOMAIN questions'
  PROVE  \A p \in Requests : RequestTyped(frame[p])'
<1>1. 1..created \subseteq 1..created'
  BY DEF TypeInv, TypeOK
<1>2. QED
  BY <1>1 DEF TypeInv, RequestTyped

LEMMA IdleTyped ==
  ASSUME NEW r, frame'[r] = Idle
  PROVE  RequestTyped(frame[r])'
BY IdleIsFrame DEF RequestTyped

-----------------------------------------------------------------------------
(* The arrival and the steps of a request keep the types *)

LEMMA TypeInit == Init => TypeInv
<1> SUFFICES ASSUME Init PROVE TypeInv
  OBVIOUS
<1>1. DOMAIN <<>> = {} /\ Range(<<>>) = {}
  BY DEF Range
<1>2. \A r \in Requests : frame[r] = Idle
  BY DEF Init
<1>3. TypeOK
  BY <1>1, IdleIsFrame, BoundsAssumption DEF Init, TypeOK
<1>4. QED
  BY <1>2, <1>3, IdleIsFrame DEF TypeInv, RequestTyped

LEMMA CreationsListed ==
  ASSUME NEW n \in Nat
  PROVE  Creations(n) \in Seq(Action)
BY DEF Creations, Action

LEMMA TodosListed ==
  ASSUME created \in Nat, NEW todo \in Todos
  PROVE  todo \in Seq(Action)
<1> DEFINE one == {[action |-> "create", id |-> 0] : x \in 1 .. MaxRules - created}
                    \cup [action : {"update", "delete"}, id : 1..created]
<1>1. todo \in BoundedSeq(one, 2)
  BY DEF Todos
<1>2. one \subseteq Action
  BY DEF Action
<1> HIDE DEF one
<1>3. PICK m \in 0..2 : todo \in [1..m -> one]
  BY <1>1 DEF BoundedSeq, SeqOf
<1>4. todo \in [1..m -> Action]
  BY <1>2, <1>3
<1>5. QED
  BY <1>4

(* What a request holds when it begins. *)
Begins(f) ==
  \/ f.pc = "name" /\ f.label \in Labels /\ f.rules = {} /\ f.question = None
  \/ /\ f.pc = "insert" /\ f.question \in Questions \ DOMAIN questions
     /\ f.rules = {}
     /\ \A p \in Requests : frame[p].question # f.question
  \/ /\ f.pc = "rules" /\ f.question \in DOMAIN questions
     /\ f.rules = RulesOf(f.question)

(* The questions on which requests were in flight at once, after one begins  *)
(* on q. *)
OverlappedBy(q) ==
  IF q # None /\ \E p \in Requests : frame[p].question = q THEN overlapped \cup {q} ELSE overlapped

LEMMA Beginnings ==
  ASSUME TypeOK, NEW r \in Requests, Arrive(r)
  PROVE  /\ frame[r] = Idle
         /\ UNCHANGED <<labels, questions, rules, created, failures>>
         /\ starts' \in 0..MaxStarts
         /\ \E f \in Frame :
              /\ frame' = [frame EXCEPT ![r] = f]
              /\ f.organization \in Organizations
              /\ Begins(f)
              /\ overlapped' = OverlappedBy(f.question)
<1>i. Idle \in Frame
  BY IdleIsFrame
<1> DEFINE Goal ==
      /\ frame[r] = Idle
      /\ UNCHANGED <<labels, questions, rules, created, failures>>
      /\ starts' \in 0..MaxStarts
      /\ \E f \in Frame :
           /\ frame' = [frame EXCEPT ![r] = f]
           /\ f.organization \in Organizations
           /\ Begins(f)
           /\ overlapped' = OverlappedBy(f.question)
<1>s. ASSUME NEW q \in Questions \cup {None}, NEW org \in Organizations, NEW f \in Frame,
             Start(r, org, q, f), Begins([f EXCEPT !.organization = org, !.question = q])
      PROVE  Goal
  <2> DEFINE g == [f EXCEPT !.organization = org, !.question = q]
  <2>1. g \in Frame /\ g.organization = org /\ g.question = q
    BY DEF Frame
  <2>2. /\ frame' = [frame EXCEPT ![r] = g] /\ Begins(g)
    BY <1>s DEF Start
  <2>3. /\ frame[r] = Idle
        /\ UNCHANGED <<labels, questions, rules, created, failures>>
        /\ starts' \in 0..MaxStarts
    BY <1>s, BoundsAssumption DEF Start, TypeOK
  <2>4. overlapped' = OverlappedBy(g.question)
    BY <1>s, <2>1 DEF Start, OverlappedBy
  <2> HIDE DEF g
  <2>5. QED
    BY <2>1, <2>2, <2>3, <2>4
<1> HIDE DEF Goal
<1>1. CASE \E org \in Organizations, name \in Labels : createQuestionLabel(r, org, name)
  <2>1. PICK org \in Organizations, name \in Labels : createQuestionLabel(r, org, name)
    BY <1>1
  <2> DEFINE f == [Idle EXCEPT !.pc = "name", !.label = name]
             g == [f EXCEPT !.organization = org, !.question = None]
  <2>2. f \in Frame /\ g.pc = "name" /\ g.label = name /\ g.rules = {} /\ g.question = None
    BY <1>i, IdleIsFrame DEF Frame
  <2>3. Start(r, org, None, f)
    BY <2>1 DEF createQuestionLabel
  <2>4. Begins(g)
    BY <2>2 DEF Begins
  <2> HIDE DEF f
  <2>5. QED
    BY <1>s, <2>2, <2>3, <2>4 DEF Goal
<1>2. CASE \E org \in Organizations, q \in Questions, n \in 0 .. MaxRules - created,
              label \in Labels \cup {None} : Create(r, org, q, n, label)
  <2>1. PICK org \in Organizations, q \in Questions, n \in 0 .. MaxRules - created,
              label \in Labels \cup {None} : Create(r, org, q, n, label)
    BY <1>2
  <2> DEFINE f == [Idle EXCEPT !.pc = "insert", !.label = label, !.todo = Creations(n)]
             g == [f EXCEPT !.organization = org, !.question = q]
  <2>n. Creations(n) \in Seq(Action)
    BY CreationsListed, BoundsAssumption DEF TypeOK
  <2>2. f \in Frame /\ g.pc = "insert" /\ g.rules = {} /\ g.question = q
    BY <1>i, <2>n, IdleIsFrame DEF Frame
  <2>3. /\ Start(r, org, q, f) /\ q \notin DOMAIN questions
        /\ \A p \in Requests : frame[p].question # q
    BY <2>1 DEF Create
  <2>4. Begins(g)
    BY <2>2, <2>3 DEF Begins
  <2> HIDE DEF f
  <2>5. QED
    BY <1>s, <2>2, <2>3, <2>4 DEF Goal
<1>3. CASE \E q \in Questions, todo \in Todos, label \in Labels \cup {None} :
              UpdateQuestion(r, q, todo, label)
  <2>1. PICK q \in Questions, todo \in Todos, label \in Labels \cup {None} :
              UpdateQuestion(r, q, todo, label)
    BY <1>3
  <2> DEFINE f == [Idle EXCEPT !.pc = "rules", !.patch = TRUE, !.label = label,
                               !.todo = todo, !.rules = RulesOf(q)]
             org == questions[q].organization
             g == [f EXCEPT !.organization = org, !.question = q]
  <2>n. todo \in Seq(Action) /\ RulesOf(q) \in SUBSET Nat
    BY TodosListed DEF TypeOK, RulesOf
  <2>2. f \in Frame /\ g.pc = "rules" /\ g.rules = RulesOf(q) /\ g.question = q
    BY <1>i, <2>n, IdleIsFrame DEF Frame
  <2>3. Start(r, org, q, f) /\ q \in DOMAIN questions
    BY <2>1 DEF UpdateQuestion
  <2>4. Begins(g)
    BY <2>2, <2>3 DEF Begins
  <2>5. org \in Organizations
    BY <2>3 DEF TypeOK, Range, Question
  <2> HIDE DEF f, org
  <2>6. QED
    BY <1>s, <2>2, <2>3, <2>4, <2>5 DEF Goal
<1>4. QED
  BY <1>1, <1>2, <1>3 DEF Arrive, Goal

-----------------------------------------------------------------------------
(* Types *)

LEMMA ArriveTyped == ASSUME TypeInv, NEW r \in Requests, Arrive(r) PROVE TypeInv'
<1>1. PICK f \in Frame :
        /\ frame' = [frame EXCEPT ![r] = f] /\ f.organization \in Organizations /\ Begins(f)
        /\ overlapped' = OverlappedBy(f.question)
  BY Beginnings DEF TypeInv
<1>2. UNCHANGED <<labels, questions, rules, created, failures>> /\ starts' \in 0..MaxStarts
  BY Beginnings DEF TypeInv
<1>3. /\ frame' \in [Requests -> Frame] /\ frame'[r] = f
      /\ \A p \in Requests : p # r => frame'[p] = frame[p]
  BY <1>1, FrameSet DEF TypeInv, TypeOK
<1>4. RequestTyped(f)
  BY <1>1 DEF TypeInv, TypeOK, Begins, RequestTyped, RulesOf
<1>5. RequestTyped(frame[r])'
  BY <1>2, <1>3, <1>4 DEF RequestTyped
<1>6. overlapped' \subseteq Questions
  BY <1>1 DEF TypeInv, TypeOK, Begins, OverlappedBy
<1>7. \A p \in Requests : RequestTyped(frame[p])'
  BY <1>2, <1>3, <1>5, StaysTyped DEF TypeInv, TypeOK
<1>8. TypeOK'
  BY <1>2, <1>3, <1>6 DEF TypeInv, TypeOK
<1>9. QED
  BY <1>7, <1>8 DEF TypeInv

(* The tables after a step of a request at work, whose types are left. *)
TablesTyped ==
  /\ DOMAIN labels \subseteq Labels /\ Range(labels) \subseteq Organizations
  /\ DOMAIN questions \subseteq Questions /\ Range(questions) \subseteq Question
  /\ DOMAIN rules \subseteq 1..created
  /\ Range(rules) \subseteq DOMAIN questions \cup {None}
  /\ created \in Nat

LEMMA TypedAgain ==
  ASSUME TypeInv, NEW r \in Requests, TablesTyped',
         created <= created', DOMAIN questions \subseteq DOMAIN questions',
         frame' \in [Requests -> Frame], \A p \in Requests : p # r => frame'[p] = frame[p],
         RequestTyped(frame[r])',
         starts' = starts, failures' \in 0..MaxFailures, overlapped' = overlapped
  PROVE  TypeInv'
<1>1. TypeOK'
  BY DEF TypeInv, TypeOK, TablesTyped
<1>2. \A p \in Requests : RequestTyped(frame[p])'
  BY StaysTyped DEF TablesTyped
<1>3. QED
  BY <1>1, <1>2 DEF TypeInv

LEMMA TableInserted ==
  ASSUME NEW table, NEW key, NEW row, NEW K, NEW S, DOMAIN table \subseteq K, key \in K,
         Range(table) \subseteq S, row \in S
  PROVE  /\ DOMAIN Inserted(table, key, row) \subseteq K
         /\ Range(Inserted(table, key, row)) \subseteq S
<1>1. /\ DOMAIN Inserted(table, key, row) = DOMAIN table \cup {key}
      /\ Range(Inserted(table, key, row)) \subseteq Range(table) \cup {row}
  BY RowInserted
<1>2. QED
  BY <1>1

LEMMA ContinueTyped ==
  ASSUME TypeInv, NEW r \in Requests, Continue(r) \/ Fail(r)
  PROVE  /\ TypeInv'
         /\ \A p \in Requests : p # r => frame'[p] = frame[p]
         /\ frame'[r].question \in {frame[r].question, None}
         /\ frame'[r] # frame[r] /\ frame[r].pc # "idle" /\ overlapped' = overlapped
<1> DEFINE Own == /\ frame' \in [Requests -> Frame]
                  /\ \A p \in Requests : p # r => frame'[p] = frame[p]
                  /\ RequestTyped(frame[r])'
                  /\ frame'[r].question \in {frame[r].question, None}
                  /\ frame'[r] # frame[r] /\ frame[r].pc # "idle"
<1>t. /\ frame \in [Requests -> Frame] /\ frame[r] \in Frame /\ RequestTyped(frame[r])
      /\ TablesTyped /\ failures \in 0..MaxFailures
  BY DEF TypeInv, TypeOK, TablesTyped
<1>a. ASSUME Own, TablesTyped', created <= created', DOMAIN questions \subseteq DOMAIN questions',
             starts' = starts, failures' \in 0..MaxFailures, overlapped' = overlapped
      PROVE  /\ TypeInv'
             /\ \A p \in Requests : p # r => frame'[p] = frame[p]
             /\ frame'[r].question \in {frame[r].question, None}
             /\ frame'[r] # frame[r] /\ frame[r].pc # "idle" /\ overlapped' = overlapped
  BY <1>a, TypedAgain
<1>s. ASSUME Own, UNCHANGED <<labels, questions, rules, created, history>>
      PROVE  /\ Own /\ TablesTyped' /\ created <= created'
             /\ DOMAIN questions \subseteq DOMAIN questions'
  BY <1>t, <1>s DEF TablesTyped
<1>r. ASSUME Return(r), frame[r].pc # "idle"
      PROVE  Own
  <2>1. /\ frame' \in [Requests -> Frame] /\ frame'[r] = Idle
        /\ \A p \in Requests : p # r => frame'[p] = frame[p]
    BY <1>t, <1>r, FrameSet, IdleIsFrame DEF Return
  <2>2. QED
    BY <1>r, <2>1, IdleIsFrame, IdleTyped
<1> HIDE DEF Own
<1>1. CASE InsertLabel(r)
  <2>1. Own
    BY <1>1, <1>r DEF InsertLabel, At
  <2>2. frame[r].label \in Labels /\ frame[r].organization \in Organizations
    BY <1>1, <1>t DEF InsertLabel, At, RequestTyped
  <2>3. DOMAIN labels' \subseteq Labels /\ Range(labels') \subseteq Organizations
    BY <1>1, <1>t, <2>2, TableInserted DEF InsertLabel, TablesTyped
  <2>4. UNCHANGED <<questions, rules, created, starts, failures, overlapped>>
    BY <1>1 DEF InsertLabel, history
  <2>5. TablesTyped'
    BY <1>t, <2>3, <2>4 DEF TablesTyped
  <2>6. QED
    BY <1>a, <1>t, <2>1, <2>4, <2>5 DEF TablesTyped
<1>2. CASE InsertQuestion(r)
  <2>1. At(r, "insert") /\ Goto(r, "rules")
    BY <1>2 DEF InsertQuestion
  <2>2. /\ frame[r].question \in Questions
        /\ [organization |-> frame[r].organization, label |-> None] \in Question
    BY <1>t, <2>1 DEF At, RequestTyped, Question
  <2>3. /\ DOMAIN questions' \subseteq Questions /\ Range(questions') \subseteq Question
        /\ DOMAIN questions' = DOMAIN questions \cup {frame[r].question}
    <3> DEFINE row == [organization |-> frame[r].organization, label |-> None]
    <3>1. questions' = Inserted(questions, frame[r].question, row)
      BY <1>2 DEF InsertQuestion
    <3>2. row \in Question
      BY <2>2
    <3> HIDE DEF row
    <3>3. DOMAIN questions' = DOMAIN questions \cup {frame[r].question}
      BY <3>1 DEF Inserted
    <3>4. QED
      BY <1>t, <2>2, <3>1, <3>2, <3>3, TableInserted DEF TablesTyped
  <2>4. UNCHANGED <<labels, rules, created, starts, failures, overlapped>>
    BY <1>2 DEF InsertQuestion, history
  <2>5. TablesTyped'
    BY <1>t, <2>3, <2>4 DEF TablesTyped
  <2>6. Own
    <3>1. /\ frame' \in [Requests -> Frame]
          /\ \A p \in Requests : p # r => frame'[p] = frame[p]
          /\ frame'[r].pc = "rules" /\ frame'[r].organization = frame[r].organization
          /\ frame'[r].question = frame[r].question /\ frame'[r].rules = frame[r].rules
      BY <1>t, <2>1, GotoFrame
    <3>2. RequestTyped(frame[r])'
      BY <1>t, <2>1, <2>2, <2>3, <2>4, <3>1 DEF RequestTyped, At
    <3>3. QED
      BY <2>1, <3>1, <3>2 DEF Own, At
  <2>7. QED
    BY <1>a, <1>t, <2>3, <2>4, <2>5, <2>6 DEF TablesTyped
<1>d. ASSUME NEW list \in SUBSET (1..created'), Done(r, list), At(r, "rules"), frame[r].todo # <<>>,
             DOMAIN questions' = DOMAIN questions, created' \in Nat
      PROVE  Own
  <2>1. /\ frame' \in [Requests -> Frame]
        /\ \A p \in Requests : p # r => frame'[p] = frame[p]
        /\ frame'[r].pc = frame[r].pc /\ frame'[r].organization = frame[r].organization
        /\ frame'[r].question = frame[r].question /\ frame'[r].rules = list
        /\ frame'[r].todo # frame[r].todo
    BY <1>t, <1>d, DoneFrame
  <2>2. RequestTyped(frame[r])'
    BY <1>t, <1>d, <2>1 DEF RequestTyped, At
  <2>3. QED
    BY <1>d, <2>1, <2>2 DEF Own, At
<1>3. CASE CreateRule(r)
  <2>1. /\ At(r, "rules") /\ frame[r].todo # <<>> /\ created' = created + 1
        /\ rules' = Inserted(rules, created', frame[r].question)
        /\ Done(r, frame[r].rules \cup {created'})
        /\ UNCHANGED <<labels, questions, starts, failures, overlapped>>
    BY <1>3 DEF CreateRule, Doing, history
  <2>2. created \in Nat /\ frame[r].rules \subseteq 1..created
    BY <1>t DEF TablesTyped, RequestTyped
  <2>3. frame[r].rules \cup {created'} \in SUBSET (1..created') /\ created' \in Nat
    BY <2>1, <2>2
  <2>4. Own
    BY <1>d, <2>1, <2>3
  <2>5. frame[r].question \in DOMAIN questions
    BY <1>t, <2>1 DEF RequestTyped, At
  <2>6. DOMAIN rules \subseteq 1..created' /\ created' \in 1..created'
    BY <1>t, <2>1, <2>2 DEF TablesTyped
  <2>7. DOMAIN rules' \subseteq 1..created' /\ Range(rules') \subseteq DOMAIN questions \cup {None}
    <3> DEFINE K == 1..created'
    <3> HIDE DEF K
    <3>1. DOMAIN rules' \subseteq K /\ Range(rules') \subseteq DOMAIN questions \cup {None}
      BY <1>t, <2>1, <2>5, <2>6, TableInserted DEF TablesTyped, K
    <3>2. QED
      BY <3>1 DEF K
  <2>8. TablesTyped'
    BY <1>t, <2>1, <2>3, <2>7 DEF TablesTyped
  <2>9. created <= created'
    BY <2>1, <2>2
  <2>10. QED
    BY <1>a, <1>t, <2>1, <2>4, <2>8, <2>9
<1>4. CASE UpdateRule(r)
  <2>1. /\ At(r, "rules") /\ frame[r].todo # <<>> /\ NextAction(r).id \in frame[r].rules
        /\ rules' = Inserted(rules, NextAction(r).id, None)
        /\ Done(r, frame[r].rules)
        /\ UNCHANGED <<labels, questions, created, starts, failures, overlapped>>
    BY <1>4 DEF UpdateRule, Doing, history
  <2>2. created \in Nat /\ frame[r].rules \in SUBSET (1..created)
    BY <1>t DEF TablesTyped, RequestTyped
  <2>4. Own
    BY <1>d, <2>1, <2>2
  <2>7. DOMAIN rules' \subseteq 1..created' /\ Range(rules') \subseteq DOMAIN questions \cup {None}
    <3> DEFINE K == 1..created
    <3> HIDE DEF K
    <3>1. NextAction(r).id \in K
      BY <2>1, <2>2 DEF K
    <3>2. DOMAIN rules' \subseteq K /\ Range(rules') \subseteq DOMAIN questions \cup {None}
      BY <1>t, <2>1, <3>1, TableInserted DEF TablesTyped, K
    <3>3. QED
      BY <2>1, <3>2 DEF K
  <2>8. TablesTyped'
    BY <1>t, <2>1, <2>7 DEF TablesTyped
  <2>9. created <= created'
    BY <2>1, <2>2
  <2>10. QED
    BY <1>a, <1>t, <2>1, <2>4, <2>8, <2>9
<1>5. CASE DeleteRule(r)
  <2>1. /\ At(r, "rules") /\ frame[r].todo # <<>>
        /\ rules' = Restrict(rules, DOMAIN rules \ {NextAction(r).id})
        /\ Done(r, frame[r].rules \ {NextAction(r).id})
        /\ UNCHANGED <<labels, questions, created, starts, failures, overlapped>>
    BY <1>5 DEF DeleteRule, Doing, history
  <2>2. created \in Nat /\ frame[r].rules \ {NextAction(r).id} \in SUBSET (1..created)
    BY <1>t DEF TablesTyped, RequestTyped
  <2>4. Own
    BY <1>d, <2>1, <2>2
  <2>7. DOMAIN rules' \subseteq DOMAIN rules /\ Range(rules') \subseteq Range(rules)
    BY <2>1 DEF Restrict, Range
  <2>8. TablesTyped'
    BY <1>t, <2>1, <2>7 DEF TablesTyped
  <2>9. created <= created'
    BY <2>1, <2>2
  <2>10. QED
    BY <1>a, <1>t, <2>1, <2>4, <2>8, <2>9
<1>6. CASE RuleNotFound(r)
  <2>1. Own
    BY <1>6, <1>r DEF RuleNotFound, Doing, At
  <2>2. QED
    BY <1>6, <1>a, <1>s, <1>t, <2>1 DEF RuleNotFound, history
<1>n. ASSUME NEW chosen \in Labels \cup {None, Kept}, At(r, "rules"),
             frame' = [frame EXCEPT ![r].pc = "save", ![r].chosen = chosen],
             UNCHANGED <<labels, questions, rules, created, history>>
      PROVE  Own
  <2>1. frame' = [frame EXCEPT ![r] = [frame[r] EXCEPT !.pc = "save", !.chosen = chosen]]
    BY <1>n, <1>t DEF Frame
  <2>2. [frame[r] EXCEPT !.pc = "save", !.chosen = chosen] \in Frame
    BY <1>t DEF Frame
  <2>3. /\ frame' \in [Requests -> Frame]
        /\ \A p \in Requests : p # r => frame'[p] = frame[p]
        /\ frame'[r] = [frame[r] EXCEPT !.pc = "save", !.chosen = chosen]
    BY <1>t, <2>1, <2>2, FrameSet
  <2>4. /\ frame'[r].pc = "save" /\ frame'[r].organization = frame[r].organization
        /\ frame'[r].question = frame[r].question /\ frame'[r].rules = frame[r].rules
    BY <1>t, <2>3 DEF Frame
  <2>5. RequestTyped(frame[r])'
    BY <1>n, <1>t, <2>4 DEF RequestTyped, At
  <2>6. QED
    BY <1>n, <2>3, <2>4, <2>5 DEF Own, At
<1>7. CASE FindLabel(r)
  <2>1. At(r, "rules") /\ frame[r].label \in Labels \cup {None}
    BY <1>7, <1>t DEF FindLabel, Frame
  <2>2. Own
    BY <1>7, <1>n, <1>r, <2>1 DEF FindLabel, At
  <2>3. QED
    BY <1>7, <1>a, <1>s, <1>t, <2>2 DEF FindLabel, history
<1>8. CASE NoLabel(r)
  <2>1. Own
    BY <1>8, <1>n DEF NoLabel
  <2>2. QED
    BY <1>8, <1>a, <1>s, <1>t, <2>1 DEF NoLabel, history
<1>9. CASE SaveQuestion(r)
  <2> DEFINE q == frame[r].question
  <2>1. /\ At(r, "save") /\ Return(r)
        /\ questions' = IF frame[r].chosen = Kept THEN questions
                        ELSE [questions EXCEPT ![q].label = frame[r].chosen]
        /\ rules' = rules \/ rules' = Cascaded(q, frame[r].rules)
        /\ UNCHANGED <<labels, created, starts, failures, overlapped>>
    BY <1>9 DEF SaveQuestion, history
  <2>2. Own
    BY <1>r, <2>1 DEF At
  <2>3. q \in DOMAIN questions /\ frame[r].rules \subseteq 1..created
    BY <1>t, <2>1 DEF RequestTyped, At
  <2>4. frame[r].chosen \in Labels \cup {None, Kept}
    BY <1>t DEF Frame
  <2>5. /\ DOMAIN questions' = DOMAIN questions
        /\ Range(questions') \subseteq Question
    BY <1>t, <2>1, <2>3, <2>4 DEF TablesTyped, Range, Question
  <2>6. DOMAIN rules' \subseteq 1..created /\ Range(rules') \subseteq DOMAIN questions \cup {None}
    BY <1>t, <2>1, <2>3 DEF TablesTyped, Cascaded, Range
  <2>7. TablesTyped'
    BY <1>t, <2>1, <2>5, <2>6 DEF TablesTyped
  <2>8. /\ starts' = starts /\ overlapped' = overlapped /\ failures' \in 0..MaxFailures
        /\ created <= created' /\ DOMAIN questions \subseteq DOMAIN questions'
    BY <1>t, <2>1, <2>5 DEF TablesTyped
  <2>9. QED
    BY <1>a, <2>2, <2>7, <2>8
<1>10. CASE Fail(r)
  <2>1. frame[r].pc # "idle"
    BY <1>10, <1>t DEF Fail, RequestTyped
  <2>2. Own
    BY <1>10, <1>r, <2>1 DEF Fail
  <2>3. failures' \in 0..MaxFailures
    BY <1>10, <1>t, BoundsAssumption DEF Fail
  <2>4. UNCHANGED <<labels, questions, rules, created, starts, overlapped>>
    BY <1>10 DEF Fail
  <2>5. QED
    BY <1>a, <1>t, <2>2, <2>3, <2>4 DEF TablesTyped
<1>11. QED
  BY <1>1, <1>2, <1>3, <1>4, <1>5, <1>6, <1>7, <1>8, <1>9, <1>10 DEF Continue

LEMMA TypeNext == TypeInv /\ [Next]_vars => TypeInv'
<1> SUFFICES ASSUME TypeInv, [Next]_vars PROVE TypeInv'
  OBVIOUS
<1>1. CASE UNCHANGED vars
  BY <1>1 DEF vars, TypeInv, TypeOK, RequestTyped
<1>2. CASE \E r \in Requests : Arrive(r) \/ Continue(r) \/ Fail(r)
  BY <1>2, ArriveTyped, ContinueTyped
<1>3. QED
  BY <1>1, <1>2 DEF Next

(* Every row, list and frame keeps its type, and a rule that has a question  *)
(* has one that exists: the rules are inserted after their question (create).*)
THEOREM TypeCorrect == Spec => []TypeOK
<1>1. TypeInv => TypeOK
  BY DEF TypeInv
<1>2. QED
  BY <1>1, TypeInit, TypeNext, PTL DEF Spec

-----------------------------------------------------------------------------
(* What a step of a request at work does to the rules *)

AtWork == {"insert", "rules", "save"}

(* It leaves them and its list alone, or ends.                               *)
LeavesRules(r) ==
  /\ UNCHANGED <<rules, created>>
  /\ \/ frame'[r] = Idle
     \/ /\ frame[r].pc \in AtWork
        /\ frame'[r].question = frame[r].question /\ frame'[r].rules = frame[r].rules

AddsRule(r) ==
  /\ At(r, "rules") /\ created' = created + 1
  /\ rules' = Inserted(rules, created + 1, frame[r].question)
  /\ frame'[r].question = frame[r].question
  /\ frame'[r].rules = frame[r].rules \cup {created + 1}

PutsBackRule(r) ==
  \E id \in frame[r].rules :
    /\ At(r, "rules") /\ UNCHANGED created
    /\ rules' = Inserted(rules, id, None)
    /\ frame'[r].question = frame[r].question /\ frame'[r].rules = frame[r].rules

TakesRule(r) ==
  \E id \in frame[r].rules :
    /\ Doing(r, "delete") /\ NextAction(r).id = id /\ UNCHANGED created
    /\ rules' = Restrict(rules, DOMAIN rules \ {id})
    /\ frame'[r].question = frame[r].question /\ frame'[r].rules = frame[r].rules \ {id}

SavesList(r) ==
  /\ At(r, "save") /\ frame'[r] = Idle /\ UNCHANGED created
  /\ rules' = Cascaded(frame[r].question, frame[r].rules)

LEMMA Effects ==
  ASSUME TypeInv, NEW r \in Requests, Continue(r) \/ Fail(r)
  PROVE  LeavesRules(r) \/ AddsRule(r) \/ PutsBackRule(r) \/ TakesRule(r) \/ SavesList(r)
<1>t. /\ frame \in [Requests -> Frame] /\ frame[r] \in Frame /\ frame[r].rules \in SUBSET Nat
      /\ created \in Nat
  BY DEF TypeInv, TypeOK, Frame
<1>r. ASSUME Return(r) PROVE frame'[r] = Idle
  BY <1>t, <1>r DEF Return
<1>1. CASE InsertLabel(r) \/ RuleNotFound(r) \/ Fail(r)
  BY <1>1, <1>r DEF InsertLabel, RuleNotFound, Fail, LeavesRules
<1>2. CASE InsertQuestion(r)
  <2>1. At(r, "insert") /\ Goto(r, "rules") /\ UNCHANGED <<rules, created>>
    BY <1>2 DEF InsertQuestion
  <2>2. frame'[r].question = frame[r].question /\ frame'[r].rules = frame[r].rules
    BY <1>t, <2>1, GotoFrame
  <2>3. QED
    BY <2>1, <2>2 DEF LeavesRules, AtWork, At
<1>3. CASE CreateRule(r)
  <2>1. /\ At(r, "rules") /\ frame[r].todo # <<>> /\ created' = created + 1
        /\ rules' = Inserted(rules, created + 1, frame[r].question)
        /\ Done(r, frame[r].rules \cup {created + 1})
    BY <1>3 DEF CreateRule, Doing
  <2>2. frame[r].rules \cup {created + 1} \in SUBSET Nat
    BY <1>t
  <2>3. /\ frame'[r].question = frame[r].question
        /\ frame'[r].rules = frame[r].rules \cup {created + 1}
    BY <1>t, <2>1, <2>2, DoneFrame
  <2>4. QED
    BY <2>1, <2>3 DEF AddsRule
<1>4. CASE UpdateRule(r)
  <2>1. /\ At(r, "rules") /\ frame[r].todo # <<>> /\ NextAction(r).id \in frame[r].rules
        /\ rules' = Inserted(rules, NextAction(r).id, None) /\ UNCHANGED created
        /\ Done(r, frame[r].rules)
    BY <1>4 DEF UpdateRule, Doing
  <2>2. frame'[r].question = frame[r].question /\ frame'[r].rules = frame[r].rules
    BY <1>t, <2>1, DoneFrame
  <2>3. QED
    BY <2>1, <2>2 DEF PutsBackRule
<1>5. CASE DeleteRule(r)
  <2>1. /\ At(r, "rules") /\ frame[r].todo # <<>> /\ NextAction(r).id \in frame[r].rules
        /\ Doing(r, "delete") /\ UNCHANGED created
        /\ rules' = Restrict(rules, DOMAIN rules \ {NextAction(r).id})
        /\ Done(r, frame[r].rules \ {NextAction(r).id})
    BY <1>5 DEF DeleteRule, Doing
  <2>2. frame[r].rules \ {NextAction(r).id} \in SUBSET Nat
    BY <1>t
  <2>3. /\ frame'[r].question = frame[r].question
        /\ frame'[r].rules = frame[r].rules \ {NextAction(r).id}
    BY <1>t, <2>1, <2>2, DoneFrame
  <2>4. QED
    BY <2>1, <2>3 DEF TakesRule
<1>6. CASE FindLabel(r) \/ NoLabel(r)
  <2>1. At(r, "rules") /\ UNCHANGED <<rules, created>>
    BY <1>6 DEF FindLabel, NoLabel
  <2>2. \/ Return(r)
        \/ \E chosen : frame' = [frame EXCEPT ![r].pc = "save", ![r].chosen = chosen]
    BY <1>6 DEF FindLabel, NoLabel
  <2>3. \/ frame'[r] = Idle
        \/ frame'[r].question = frame[r].question /\ frame'[r].rules = frame[r].rules
    BY <1>t, <1>r, <2>2 DEF Frame
  <2>4. QED
    BY <2>1, <2>3 DEF LeavesRules, AtWork, At
<1>7. CASE SaveQuestion(r)
  <2>1. /\ At(r, "save") /\ Return(r) /\ UNCHANGED created
        /\ rules' = rules \/ rules' = Cascaded(frame[r].question, frame[r].rules)
    BY <1>7 DEF SaveQuestion
  <2>2. QED
    BY <1>r, <2>1 DEF LeavesRules, SavesList
<1>8. QED
  BY <1>1, <1>2, <1>3, <1>4, <1>5, <1>6, <1>7 DEF Continue

-----------------------------------------------------------------------------
(* A request touches rules of its own question only *)

(* The rules in the list of an entity belong to its question, or to none     *)
(* when another request on that question detached or put them back; and they *)
(* are in no list of another question.                                       *)
ListIsOwn(r) ==
  \A id \in frame[r].rules :
    /\ id \in DOMAIN rules => rules[id] \in {frame[r].question, None}
    /\ \A p \in Requests : id \in frame[p].rules => frame[p].question = frame[r].question

ListsInv == \A r \in Requests : ListIsOwn(r)

(* What changes a rule of another question, or brings one to it: nothing.    *)
LEMMA OthersRules ==
  ASSUME TypeInv, ListsInv, NEW r \in Requests, Continue(r) \/ Fail(r)
  PROVE  /\ \A id \in DOMAIN rules : rules[id] \notin {frame[r].question, None} =>
              id \in DOMAIN rules' /\ rules'[id] = rules[id]
         /\ \A id \in DOMAIN rules' : rules'[id] \notin {frame[r].question, None} =>
              id \in DOMAIN rules /\ rules[id] = rules'[id]
<1>t. created \in Nat /\ DOMAIN rules \subseteq 1..created /\ frame[r].rules \subseteq 1..created
  BY DEF TypeInv, TypeOK, RequestTyped
<1>o. \A id \in frame[r].rules : id \in DOMAIN rules => rules[id] \in {frame[r].question, None}
  BY DEF ListsInv, ListIsOwn
<1>1. CASE LeavesRules(r)
  BY <1>1 DEF LeavesRules
<1>2. CASE AddsRule(r)
  <2>1. created + 1 \notin DOMAIN rules
    BY <1>t
  <2>2. QED
    BY <1>2, <2>1 DEF AddsRule, Inserted
<1>3. CASE PutsBackRule(r)
  BY <1>3 DEF PutsBackRule, Inserted
<1>4. CASE TakesRule(r)
  BY <1>4, <1>o DEF TakesRule, Restrict
<1>5. CASE SavesList(r)
  BY <1>5, <1>o DEF SavesList, Cascaded
<1>6. QED
  BY <1>1, <1>2, <1>3, <1>4, <1>5, Effects

LEMMA ListsArrive == ASSUME TypeInv, ListsInv, NEW r \in Requests, Arrive(r) PROVE ListsInv'
<1>1. PICK f \in Frame : frame' = [frame EXCEPT ![r] = f] /\ Begins(f)
  BY Beginnings DEF TypeInv
<1>2. rules' = rules
  BY Beginnings DEF TypeInv
<1>3. frame'[r] = f /\ \A p \in Requests : p # r => frame'[p] = frame[p]
  BY <1>1, FrameSet DEF TypeInv, TypeOK
<1>4. \A id \in f.rules : /\ id \in DOMAIN rules /\ rules[id] = f.question
                          /\ f.question # None
  BY <1>1, NoneAssumption DEF Begins, RulesOf, TypeInv, TypeOK
<1>5. ASSUME NEW p \in Requests, p # r, NEW id \in f.rules, id \in frame[p].rules
      PROVE  frame[p].question = f.question
  BY <1>4, <1>5 DEF ListsInv, ListIsOwn
<1>6. QED
  BY <1>2, <1>3, <1>4, <1>5 DEF ListsInv, ListIsOwn

LEMMA ListsContinue ==
  ASSUME TypeInv, ListsInv, NEW r \in Requests, Continue(r) \/ Fail(r)
  PROVE  ListsInv'
<1>t. /\ created \in Nat /\ DOMAIN rules \subseteq 1..created
      /\ \A p \in Requests : frame[p].rules \subseteq 1..created
  BY DEF TypeInv, TypeOK, RequestTyped
<1>f. \A p \in Requests : p # r => frame'[p] = frame[p]
  BY ContinueTyped
<1>o. \A p \in Requests : ListIsOwn(p)
  BY DEF ListsInv
<1>1. CASE LeavesRules(r)
  <2>1. \/ frame'[r].rules = {}
        \/ frame'[r].question = frame[r].question /\ frame'[r].rules = frame[r].rules
    BY <1>1, IdleIsFrame DEF LeavesRules
  <2>2. rules' = rules
    BY <1>1 DEF LeavesRules
  <2>3. QED
    BY <1>f, <1>o, <2>1, <2>2 DEF ListsInv, ListIsOwn
<1>2. CASE AddsRule(r)
  <2> DEFINE new == created + 1
  <2>1. new \notin DOMAIN rules /\ \A p \in Requests : new \notin frame[p].rules
    BY <1>t
  <2> HIDE DEF new
  <2>2. /\ DOMAIN rules' = DOMAIN rules \cup {new} /\ rules'[new] = frame[r].question
        /\ \A id \in DOMAIN rules : rules'[id] = rules[id]
    BY <1>2, <2>1 DEF AddsRule, Inserted, new
  <2>3. /\ frame'[r].question = frame[r].question
        /\ frame'[r].rules = frame[r].rules \cup {new}
    BY <1>2 DEF AddsRule, new
  <2>4. QED
    BY <1>f, <1>o, <2>1, <2>2, <2>3 DEF ListsInv, ListIsOwn
<1>3. CASE PutsBackRule(r)
  <2>1. /\ \A id \in DOMAIN rules' :
             rules'[id] = None \/ (id \in DOMAIN rules /\ rules'[id] = rules[id])
        /\ frame'[r].question = frame[r].question /\ frame'[r].rules = frame[r].rules
    BY <1>3 DEF PutsBackRule, Inserted
  <2>2. QED
    BY <1>f, <1>o, <2>1 DEF ListsInv, ListIsOwn
<1>4. CASE TakesRule(r)
  <2>1. /\ \A id \in DOMAIN rules' : id \in DOMAIN rules /\ rules'[id] = rules[id]
        /\ frame'[r].question = frame[r].question /\ frame'[r].rules \subseteq frame[r].rules
    BY <1>4 DEF TakesRule, Restrict
  <2>2. QED
    BY <1>f, <1>o, <2>1 DEF ListsInv, ListIsOwn
<1>5. CASE SavesList(r)
  <2>1. \A id \in DOMAIN rules' : \/ id \in frame[r].rules /\ rules'[id] = frame[r].question
                                  \/ rules'[id] = None
                                  \/ id \in DOMAIN rules /\ rules'[id] = rules[id]
    BY <1>5 DEF SavesList, Cascaded
  <2>2. frame'[r].rules = {}
    BY <1>5, IdleIsFrame DEF SavesList
  <2>3. QED
    BY <1>f, <1>o, <2>1, <2>2 DEF ListsInv, ListIsOwn
<1>6. QED
  BY <1>1, <1>2, <1>3, <1>4, <1>5, Effects

LEMMA ListsNext == TypeInv /\ ListsInv /\ [Next]_vars => ListsInv'
<1> SUFFICES ASSUME TypeInv, ListsInv, [Next]_vars PROVE ListsInv'
  OBVIOUS
<1>1. CASE UNCHANGED vars
  BY <1>1 DEF vars, ListsInv, ListIsOwn
<1>2. CASE \E r \in Requests : Arrive(r) \/ Continue(r) \/ Fail(r)
  BY <1>2, ListsArrive, ListsContinue
<1>3. QED
  BY <1>1, <1>2 DEF Next

LEMMA ListsInit == Init => ListsInv
BY IdleIsFrame DEF Init, ListsInv, ListIsOwn

(* However requests overlap and whatever ids their actions name, a rule is   *)
(* touched only by a request on its own question: updateQuestion looks it up *)
(* in the entity, never in the table.                                        *)
THEOREM OwnRules == Spec => OwnRulesOnly
<1> DEFINE Step == \A id \in DOMAIN rules :
       rules[id] # None /\ ~ (id \in DOMAIN rules' /\ rules'[id] = rules[id]) =>
         \E r \in Requests : frame[r].question = rules[id] /\ frame'[r] # frame[r]
<1>1. ASSUME TypeInv, ListsInv, [Next]_vars
      PROVE  Step
  <2>1. CASE UNCHANGED vars
    BY <2>1 DEF vars
  <2>2. ASSUME NEW r \in Requests, Arrive(r)
        PROVE  Step
    BY <1>1, <2>2, Beginnings DEF TypeInv
  <2>3. ASSUME NEW r \in Requests, Continue(r) \/ Fail(r)
        PROVE  Step
    <3>1. frame'[r] # frame[r]
      BY <1>1, <2>3, ContinueTyped
    <3>2. \A id \in DOMAIN rules : rules[id] \notin {frame[r].question, None} =>
            id \in DOMAIN rules' /\ rules'[id] = rules[id]
      BY <1>1, <2>3, OthersRules
    <3>3. QED
      BY <3>1, <3>2
  <2>4. QED
    BY <1>1, <2>1, <2>2, <2>3 DEF Next
<1>2. TypeInv /\ ListsInv /\ [Next]_vars => [Step]_vars
  BY <1>1
<1>3. QED
  BY <1>2, TypeInit, TypeNext, ListsInit, ListsNext, PTL DEF Spec, OwnRulesOnly

-----------------------------------------------------------------------------
(* A rule ends by a delete *)

(* Two requests on a question overlap; one that met no other still has all   *)
(* the rules of its question, and only those.                                *)
Alone ==
  \A r, p \in Requests :
    r # p /\ frame[r].question = frame[p].question /\ frame[r].question # None =>
      frame[r].question \in overlapped

ListIsCurrent(r) ==
  frame[r].pc \in AtWork /\ frame[r].question \notin overlapped =>
    frame[r].rules = RulesOf(frame[r].question)

CurrentInv == Alone /\ \A r \in Requests : ListIsCurrent(r)

LEMMA CurrentInit == Init => CurrentInv
BY IdleIsFrame DEF Init, CurrentInv, Alone, ListIsCurrent, AtWork

LEMMA CurrentArrive ==
  ASSUME TypeInv, CurrentInv, NEW r \in Requests, Arrive(r)
  PROVE  CurrentInv' /\ overlapped \subseteq overlapped'
<1>1. PICK f \in Frame :
        /\ frame' = [frame EXCEPT ![r] = f] /\ Begins(f)
        /\ overlapped' = OverlappedBy(f.question)
  BY Beginnings DEF TypeInv
<1>2. rules' = rules /\ questions' = questions
  BY Beginnings DEF TypeInv
<1>3. frame'[r] = f /\ \A p \in Requests : p # r => frame'[p] = frame[p]
  BY <1>1, FrameSet DEF TypeInv, TypeOK
<1>4. overlapped \subseteq overlapped'
  BY <1>1 DEF OverlappedBy
<1>5. Alone'
  BY <1>1, <1>3, <1>4 DEF CurrentInv, Alone, OverlappedBy
<1>6. f.pc \in AtWork => f.rules = RulesOf(f.question)
  <2>1. CASE f.pc = "insert"
    <3>1. f.question \in Questions \ DOMAIN questions /\ f.rules = {}
      BY <1>1, <2>1 DEF Begins
    <3>2. Range(rules) \subseteq DOMAIN questions \cup {None} /\ None \notin Questions
      BY NoneAssumption DEF TypeInv, TypeOK
    <3>3. RulesOf(f.question) = {}
      BY <3>1, <3>2 DEF RulesOf, Range
    <3>4. QED
      BY <3>1, <3>3
  <2>2. CASE f.pc # "insert"
    BY <1>1, <2>2 DEF Begins, AtWork
  <2>3. QED
    BY <2>1, <2>2
<1>7. \A q : RulesOf(q)' = RulesOf(q)
  BY <1>2 DEF RulesOf
<1>8. \A p \in Requests : ListIsCurrent(p)'
  BY <1>3, <1>4, <1>6, <1>7 DEF CurrentInv, ListIsCurrent
<1>9. QED
  BY <1>4, <1>5, <1>8 DEF CurrentInv

(* What a step of a request does to the rules of its question, on which      *)
(* nobody else is at work.                                                   *)
LEMMA OwnQuestion ==
  ASSUME TypeInv, CurrentInv, NEW r \in Requests, Continue(r) \/ Fail(r),
         NEW q, q = frame[r].question, frame[r].pc \in AtWork, q \notin overlapped
  PROVE  /\ \/ RulesOf(q)' = RulesOf(q)
            \/ RulesOf(q)' = RulesOf(q) \cup {created + 1}
            \/ Doing(r, "delete") /\ RulesOf(q)' = RulesOf(q) \ {NextAction(r).id}
         /\ \/ frame'[r] = Idle
            \/ frame'[r].question = q /\ frame'[r].rules = RulesOf(q)'
<1>t. /\ created \in Nat /\ DOMAIN rules \subseteq 1..created /\ q # None
  BY NoneAssumption DEF TypeInv, TypeOK, RequestTyped, AtWork
<1>c. frame[r].rules = RulesOf(q)
  BY DEF CurrentInv, ListIsCurrent
<1>1. CASE LeavesRules(r)
  BY <1>1, <1>c DEF LeavesRules, RulesOf
<1>2. CASE AddsRule(r)
  <2>1. created + 1 \notin DOMAIN rules
    BY <1>t
  <2>2. RulesOf(q)' = RulesOf(q) \cup {created + 1}
    BY <1>2, <2>1 DEF AddsRule, RulesOf, Inserted
  <2>3. QED
    BY <1>2, <1>c, <2>2 DEF AddsRule
<1>3. CASE PutsBackRule(r)
  <2>1. RulesOf(q)' = RulesOf(q)
    BY <1>3, <1>c DEF PutsBackRule, RulesOf, Inserted
  <2>2. QED
    BY <1>3, <1>c, <2>1 DEF PutsBackRule
<1>4. CASE TakesRule(r)
  <2>1. RulesOf(q)' = RulesOf(q) \ {NextAction(r).id}
    BY <1>4 DEF TakesRule, RulesOf, Restrict
  <2>2. QED
    BY <1>4, <1>c, <2>1 DEF TakesRule
<1>5. CASE SavesList(r)
  <2>1. RulesOf(q)' = RulesOf(q)
    BY <1>5, <1>c, <1>t DEF SavesList, RulesOf, Cascaded
  <2>2. QED
    BY <1>5, <2>1 DEF SavesList
<1>6. QED
  BY <1>1, <1>2, <1>3, <1>4, <1>5, Effects

LEMMA CurrentContinue ==
  ASSUME TypeInv, ListsInv, CurrentInv, NEW r \in Requests, Continue(r) \/ Fail(r)
  PROVE  CurrentInv'
<1>f. /\ \A p \in Requests : p # r => frame'[p] = frame[p]
      /\ frame'[r].question \in {frame[r].question, None}
      /\ overlapped' = overlapped
  BY ContinueTyped
<1>1. Alone'
  BY <1>f DEF CurrentInv, Alone
<1>2. ASSUME NEW p \in Requests, p # r
      PROVE  ListIsCurrent(p)'
  <2> SUFFICES ASSUME frame[p].pc \in AtWork, frame[p].question \notin overlapped
               PROVE  frame[p].rules = RulesOf(frame[p].question)'
    BY <1>2, <1>f DEF ListIsCurrent
  <2>1. frame[p].question # None
    BY NoneAssumption DEF TypeInv, RequestTyped, AtWork
  <2>2. frame[p].question # frame[r].question
    BY <1>2, <2>1 DEF CurrentInv, Alone
  <2>3. RulesOf(frame[p].question)' = RulesOf(frame[p].question)
    <3> DEFINE q == frame[p].question
    <3>1. q \notin {frame[r].question, None}
      BY <2>1, <2>2
    <3>2. q' = q
      BY <1>2, <1>f
    <3> HIDE DEF q
    <3>3. RulesOf(q)' = RulesOf(q)
      BY <3>1, <3>2, OthersRules DEF RulesOf
    <3>4. QED
      BY <3>3 DEF q
  <2>4. QED
    BY <2>3 DEF CurrentInv, ListIsCurrent
<1>3. ListIsCurrent(r)'
  <2> SUFFICES ASSUME frame'[r].pc \in AtWork, frame'[r].question \notin overlapped
               PROVE  frame'[r].rules = RulesOf(frame[r].question)'
    BY <1>f DEF ListIsCurrent
  <2>1. frame'[r] # Idle
    BY IdleIsFrame DEF AtWork
  <2>2. frame[r].pc \in AtWork /\ frame'[r].question = frame[r].question
    BY <2>1, Effects DEF LeavesRules, AddsRule, PutsBackRule, TakesRule, SavesList, AtWork, At,
                         Doing
  <2>3. QED
    BY <2>1, <2>2, <1>f, OwnQuestion
<1>4. QED
  BY <1>1, <1>2, <1>3 DEF CurrentInv

LEMMA CurrentNext == TypeInv /\ ListsInv /\ CurrentInv /\ [Next]_vars => CurrentInv'
<1> SUFFICES ASSUME TypeInv, ListsInv, CurrentInv, [Next]_vars PROVE CurrentInv'
  OBVIOUS
<1>1. CASE UNCHANGED vars
  BY <1>1 DEF vars, CurrentInv, Alone, ListIsCurrent, RulesOf
<1>2. CASE \E r \in Requests : Arrive(r) \/ Continue(r) \/ Fail(r)
  BY <1>2, CurrentArrive, CurrentContinue
<1>3. QED
  BY <1>1, <1>2 DEF Next

(* A question on which requests do not overlap loses a rule only to an       *)
(* action "delete", however the request ends: the entity saved by create and *)
(* updateQuestion lists the rules of the question, all of them.              *)
THEOREM RulesEnd == Spec => RulesEndByDelete
<1> DEFINE Step == \A q \in DOMAIN questions \ overlapped' :
       /\ \A id \in RulesOf(q) \ RulesOf(q)' :
            \E r \in Requests :
              Doing(r, "delete") /\ frame[r].question = q /\ NextAction(r).id = id
       /\ \A id \in RulesOf(q)' \ RulesOf(q) : id = created + 1
<1>1. ASSUME TypeInv, ListsInv, CurrentInv, [Next]_vars
      PROVE  Step
  <2>1. CASE UNCHANGED vars
    BY <2>1 DEF vars, RulesOf
  <2>2. ASSUME NEW r \in Requests, Arrive(r)
        PROVE  Step
    BY <1>1, <2>2, Beginnings DEF TypeInv, RulesOf
  <2>3. ASSUME NEW r \in Requests, Continue(r) \/ Fail(r), NEW q \in DOMAIN questions \ overlapped'
        PROVE  /\ \A id \in RulesOf(q) \ RulesOf(q)' :
                    Doing(r, "delete") /\ frame[r].question = q /\ NextAction(r).id = id
               /\ \A id \in RulesOf(q)' \ RulesOf(q) : id = created + 1
    <3>1. q # None /\ overlapped' = overlapped
      BY <1>1, <2>3, ContinueTyped, NoneAssumption DEF TypeInv, TypeOK
    <3>2. CASE q # frame[r].question
      <4>1. RulesOf(q)' = RulesOf(q)
        BY <1>1, <2>3, <3>1, <3>2, OthersRules DEF RulesOf
      <4>2. QED
        BY <4>1
    <3>3. CASE q = frame[r].question /\ frame[r].pc \in AtWork
      <4>1. \/ RulesOf(q)' = RulesOf(q)
            \/ RulesOf(q)' = RulesOf(q) \cup {created + 1}
            \/ Doing(r, "delete") /\ RulesOf(q)' = RulesOf(q) \ {NextAction(r).id}
        BY <1>1, <2>3, <3>1, <3>3, OwnQuestion DEF RulesOf
      <4>2. QED
        BY <3>3, <4>1
    <3>4. CASE frame[r].pc \notin AtWork
      <4>1. rules' = rules
        BY <1>1, <2>3, <3>4, Effects DEF LeavesRules, AddsRule, PutsBackRule, TakesRule, SavesList,
                                        AtWork, At, Doing
      <4>2. QED
        BY <4>1 DEF RulesOf
    <3>5. QED
      BY <3>2, <3>3, <3>4
  <2>4. QED
    BY <1>1, <2>1, <2>2, <2>3 DEF Next
<1>2. TypeInv /\ ListsInv /\ CurrentInv /\ [Next]_vars => [Step]_vars
  BY <1>1
<1>3. QED
  BY <1>2, TypeInit, TypeNext, ListsInit, ListsNext, CurrentInit, CurrentNext, PTL
  DEF Spec, RulesEndByDelete
=============================================================================
