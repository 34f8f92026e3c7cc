----------------------------- MODULE QuestionBank -----------------------------
(* The questions of the organizations with their labels and their rules:     *)
(* create a label, create a question, update a question by a list of actions *)
(* on its rules.  Each handler is split at its awaits.                       *)
(*                                                                           *)
(* Texts and notes are left out.  The rules of a question cascade: where its *)
(* entity has a list of them, saving it makes that list the question's.  A   *)
(* row of the question that is not in the list loses its question, and one   *)
(* of the list that is not in the table is inserted again.                   *)
EXTENDS Integers, Functions, SequencesExt

CONSTANTS
  Organizations, Questions, Labels,
  None,      \* no organization, question or label
  Kept,      \* a label that is not set in the entity, and so not written
  Requests,  \* the requests that may be in flight at once
  MaxRules,  \* rules beyond which none is asked for
  MaxStarts, \* requests in a behaviour
  MaxFailures

ASSUME NoneAssumption == None \notin Organizations \cup Questions \cup Labels
ASSUME KeptAssumption == Kept \notin Labels \cup {None}
ASSUME BoundsAssumption == MaxRules \in Nat /\ MaxStarts \in Nat /\ MaxFailures \in Nat

VARIABLES
  labels,     \* label rows: the organization of a name
  questions,  \* question rows
  rules,      \* rule rows: the question of each, None once it has lost it
  created,    \* rules created so far; a rule is known by its rank
  frame,      \* what each request in flight holds across its awaits
  starts,     \* requests so far
  failures,   \* requests that a failing call ended
  overlapped  \* questions on which two requests were in flight at once (history)

vars == <<labels, questions, rules, created, frame, starts, failures, overlapped>>
history == <<starts, failures, overlapped>>

Question == [organization : Organizations, label : Labels \cup {None}]

Action == [action : {"create"}, id : {0}] \cup [action : {"update", "delete"}, id : Nat \ {0}]

(* patch: an update.  rules: those of the entity.  label: the one asked for, *)
(* or None; chosen: what the entity has when it is saved.                    *)
Frame == [pc : {"idle", "name", "insert", "rules", "save"}, patch : BOOLEAN,
          organization : Organizations \cup {None}, question : Questions \cup {None},
          todo : Seq(Action), rules : SUBSET Nat, label : Labels \cup {None},
          chosen : Labels \cup {None, Kept}]
Idle == [pc |-> "idle", patch |-> FALSE, organization |-> None, question |-> None,
         todo |-> <<>>, rules |-> {}, label |-> None, chosen |-> Kept]

TypeOK ==
  /\ DOMAIN labels \subseteq Labels /\ Range(labels) \subseteq Organizations
  /\ DOMAIN questions \subseteq Questions /\ Range(questions) \subseteq Question
  /\ DOMAIN rules \subseteq 1..created
  /\ Range(rules) \subseteq DOMAIN questions \cup {None}
  /\ created \in Nat
  /\ frame \in [Requests -> Frame]
  /\ starts \in 0..MaxStarts
  /\ failures \in 0..MaxFailures
  /\ overlapped \subseteq Questions

Init ==
  /\ labels = <<>> /\ questions = <<>> /\ rules = <<>>
  /\ created = 0
  /\ frame = [r \in Requests |-> Idle]
  /\ starts = 0 /\ failures = 0 /\ overlapped = {}

-----------------------------------------------------------------------------
At(r, pc) == frame[r].pc = pc
Goto(r, pc) == frame' = [frame EXCEPT ![r].pc = pc]
Return(r) == frame' = [frame EXCEPT ![r] = Idle]

(* A request of a member of org arrives, on a question or on none; it holds  *)
(* what f says.                                                              *)
Start(r, org, q, f) ==
  /\ frame[r] = Idle
  /\ starts < MaxStarts
  /\ starts' = starts + 1
  /\ frame' = [frame EXCEPT ![r] = [f EXCEPT !.organization = org, !.question = q]]
  /\ overlapped' = IF q # None /\ \E p \in Requests : frame[p].question = q
                   THEN overlapped \cup {q} ELSE overlapped
  /\ UNCHANGED <<labels, questions, rules, created, failures>>

(* The table with a row of that key: the one it has, or else the new one.    *)
Inserted(table, key, row) ==
  [k \in DOMAIN table \cup {key} |-> IF k \in DOMAIN table THEN table[k] ELSE row]

RulesOf(q) == {id \in DOMAIN rules : rules[id] = q}

-----------------------------------------------------------------------------
(* POST /questions/labels *)

createQuestionLabel(r, org, name) ==
  /\ ~ (name \in DOMAIN labels /\ labels[name] = org)
  /\ Start(r, org, None, [Idle EXCEPT !.pc = "name", !.label = name])

(* Names are unique across organizations: for a name another one has, or one *)
(* taken since the check, the database refuses the insert.                   *)
InsertLabel(r) ==
  /\ At(r, "name")
  /\ labels' = Inserted(labels, frame[r].label, frame[r].organization)
  /\ Return(r)
  /\ UNCHANGED <<questions, rules, created, history>>

-----------------------------------------------------------------------------
(* POST /questions *)

Creations(n) == [i \in 1..n |-> [action |-> "create", id |-> 0]]

\* Mutant: the rules are saved before the question.
CreateRulesFirst(r, org, q, n, label) ==
  /\ q \notin DOMAIN questions
  /\ \A p \in Requests : frame[p].question # q
  /\ Start(r, org, q, [Idle EXCEPT !.pc = "rules", !.label = label, !.todo = Creations(n)])

Create(r, org, q, n, label) ==
  /\ q \notin DOMAIN questions
  /\ \A p \in Requests : frame[p].question # q   \* the id is generated by the insert
  /\ Start(r, org, q, [Idle EXCEPT !.pc = "insert", !.label = label, !.todo = Creations(n)])

InsertQuestion(r) ==
  /\ At(r, "insert")
  /\ questions' = Inserted(questions, frame[r].question,
                           [organization |-> frame[r].organization, label |-> None])
  /\ Goto(r, "rules")
  /\ UNCHANGED <<labels, rules, created, history>>

-----------------------------------------------------------------------------
(* PATCH /questions/:id *)

(* The question is found in the performer's organization, with its rules.    *)
UpdateQuestion(r, q, todo, label) ==
  /\ q \in DOMAIN questions
  /\ Start(r, questions[q].organization, q,
           [Idle EXCEPT !.pc = "rules", !.patch = TRUE, !.label = label,
                        !.todo = todo, !.rules = RulesOf(q)])

NextAction(r) == Head(frame[r].todo)
Doing(r, action) == At(r, "rules") /\ frame[r].todo # <<>> /\ NextAction(r).action = action

(* The entity's rules after the action, which is then done with. *)
Done(r, list) == frame' = [frame EXCEPT ![r].todo = Tail(@), ![r].rules = list]

\* Mutant: the new rule is not added to those of the entity.
CreateAndForget(r) ==
  /\ Doing(r, "create")
  /\ created' = created + 1
  /\ rules' = Inserted(rules, created', frame[r].question)
  /\ Done(r, frame[r].rules)
  /\ UNCHANGED <<labels, questions, history>>

CreateRule(r) ==
  /\ Doing(r, "create")
  /\ created' = created + 1
  /\ rules' = Inserted(rules, created', frame[r].question)
  /\ Done(r, frame[r].rules \cup {created'})
  /\ UNCHANGED <<labels, questions, history>>

(* The entity read has no question: a row deleted since is inserted again    *)
(* without one.                                                              *)
UpdateRule(r) ==
  /\ Doing(r, "update") /\ NextAction(r).id \in frame[r].rules
  /\ rules' = Inserted(rules, NextAction(r).id, None)
  /\ Done(r, frame[r].rules)
  /\ UNCHANGED <<labels, questions, created, history>>

\* Mutant: the rule is looked for among all rules.
DeleteAnyRule(r) ==
  /\ Doing(r, "delete") /\ NextAction(r).id \in DOMAIN rules
  /\ rules' = Restrict(rules, DOMAIN rules \ {NextAction(r).id})
  /\ Done(r, frame[r].rules \ {NextAction(r).id})
  /\ UNCHANGED <<labels, questions, created, history>>

DeleteRule(r) ==
  /\ Doing(r, "delete") /\ NextAction(r).id \in frame[r].rules
  /\ rules' = Restrict(rules, DOMAIN rules \ {NextAction(r).id})
  /\ Done(r, frame[r].rules \ {NextAction(r).id})
  /\ UNCHANGED <<labels, questions, created, history>>

(* `Rule not found!`: what the earlier actions did stays.                    *)
RuleNotFound(r) ==
  /\ Doing(r, "update") \/ Doing(r, "delete")
  /\ NextAction(r).id \notin frame[r].rules
  /\ Return(r)
  /\ UNCHANGED <<labels, questions, rules, created, history>>

-----------------------------------------------------------------------------
(* How both handlers end *)

(* `Label not found!` ends the request after its rules were written.         *)
FindLabel(r) ==
  /\ At(r, "rules") /\ frame[r].todo = <<>> /\ frame[r].label # None
  /\ IF frame[r].label \in DOMAIN labels /\ labels[frame[r].label] = frame[r].organization
     THEN frame' = [frame EXCEPT ![r].pc = "save", ![r].chosen = frame[r].label]
     ELSE Return(r)
  /\ UNCHANGED <<labels, questions, rules, created, history>>

(* Without a label in the request it is not written; null in an update takes *)
(* it off.                                                                   *)
NoLabel(r) ==
  /\ At(r, "rules") /\ frame[r].todo = <<>> /\ frame[r].label = None
  /\ \E label \in IF frame[r].patch THEN {Kept, None} ELSE {Kept} :
       frame' = [frame EXCEPT ![r].pc = "save", ![r].chosen = label]
  /\ UNCHANGED <<labels, questions, rules, created, history>>

(* The rules of the table after q is saved with a list of them. *)
Cascaded(q, list) ==
  [id \in DOMAIN rules \cup list |->
     IF id \in list THEN q ELSE IF rules[id] = q THEN None ELSE rules[id]]

(* A question created without rules has no list of them. *)
SaveQuestion(r) ==
  /\ At(r, "save")
  /\ LET q == frame[r].question
     IN  /\ questions' = IF frame[r].chosen = Kept THEN questions
                         ELSE [questions EXCEPT ![q].label = frame[r].chosen]
         /\ rules' = IF frame[r].patch \/ frame[r].rules # {}
                     THEN Cascaded(q, frame[r].rules) ELSE rules
  /\ Return(r)
  /\ UNCHANGED <<labels, created, history>>

(* A call of the database fails, or the process stops. *)
Fail(r) ==
  /\ frame[r] # Idle
  /\ failures < MaxFailures
  /\ failures' = failures + 1
  /\ Return(r)
  /\ UNCHANGED <<labels, questions, rules, created, starts, overlapped>>

(* The lists of actions a client may send, about rules that were ever made.  *)
Todos ==
  LET one == {[action |-> "create", id |-> 0] : x \in 1 .. MaxRules - created}
               \cup [action : {"update", "delete"}, id : 1..created]
  IN  {todo \in BoundedSeq(one, 2) : Len(SelectSeq(todo, LAMBDA a : a.action = "create")) <= 1}

Arrive(r) ==
  \/ \E org \in Organizations, name \in Labels : createQuestionLabel(r, org, name)
  \/ \E org \in Organizations, q \in Questions, n \in 0 .. MaxRules - created,
        label \in Labels \cup {None} : Create(r, org, q, n, label)
  \/ \E q \in Questions, todo \in Todos, label \in Labels \cup {None} :
       UpdateQuestion(r, q, todo, label)

Continue(r) ==
  \/ InsertLabel(r) \/ InsertQuestion(r)
  \/ CreateRule(r) \/ UpdateRule(r) \/ DeleteRule(r) \/ RuleNotFound(r)
  \/ FindLabel(r) \/ NoLabel(r) \/ SaveQuestion(r)

Next == \E r \in Requests : Arrive(r) \/ Continue(r) \/ Fail(r)

Spec == Init /\ [][Next]_vars

-----------------------------------------------------------------------------
(* Properties *)

(* Where requests on a question do not overlap, a rule leaves it only by an  *)
(* action "delete", also when the request is refused or fails halfway, and   *)
(* no rule comes (back) to it but a new one.                                 *)
RulesEndByDelete ==
  [][\A q \in DOMAIN questions \ overlapped' :
       /\ \A id \in RulesOf(q) \ RulesOf(q)' :
            \E r \in Requests :
              Doing(r, "delete") /\ frame[r].question = q /\ NextAction(r).id = id
       /\ \A id \in RulesOf(q)' \ RulesOf(q) : id = created + 1]_vars

(* A request touches the rules of its own question only, however requests    *)
(* overlap and whatever ids their actions name.                              *)
OwnRulesOnly ==
  [][\A id \in DOMAIN rules :
       rules[id] # None /\ ~ (id \in DOMAIN rules' /\ rules'[id] = rules[id]) =>
         \E r \in Requests : frame[r].question = rules[id] /\ frame'[r] # frame[r]]_vars
===============================================================================
