--------------------------- MODULE FeedbackProofs ---------------------------
(* Theorems about FeedbackAnalysis, for every set of feedbacks and of        *)
(* questions and every number of crashes: it implements FeedbackRequests,    *)
(* keeps what the contract promises, and the invariants that its run checks. *)
EXTENDS FeedbackRefinement, SequenceTheorems, TLAPS

(* What the contract sees of the rows. *)
Rows == {f \in Feedbacks : row[f] # "none"}
Preparing == {f \in Feedbacks : row[f] = "preparing"}

-----------------------------------------------------------------------------
(* Sequences: what appending, taking the first and putting back do to the    *)
(* elements *)

LEMMA ElementsOfEmpty == Requests!Elements(<<>>) = {}
  BY DEF Requests!Elements

LEMMA ElementsOfOne == ASSUME NEW x PROVE Requests!Elements(<<x>>) = {x}
  BY DEF Requests!Elements

LEMMA ElementsOfAppend ==
  ASSUME NEW S, NEW s \in Seq(S), NEW x \in S
  PROVE  Requests!Elements(Append(s, x)) = Requests!Elements(s) \cup {x}
<1>1. /\ DOMAIN Append(s, x) = DOMAIN s \cup {Len(s) + 1}
      /\ Append(s, x)[Len(s) + 1] = x
      /\ \A i \in DOMAIN s : Append(s, x)[i] = s[i]
  OBVIOUS
<1>2. QED
  BY <1>1 DEF Requests!Elements

LEMMA ElementsOfSequence ==
  ASSUME NEW S, NEW s \in Seq(S)
  PROVE  Requests!Elements(s) \subseteq S
  BY DEF Requests!Elements

LEMMA TakingTheFirst ==
  ASSUME NEW S, NEW s \in Seq(S), s # <<>>
  PROVE  /\ Head(s) \in S /\ Tail(s) \in Seq(S)
         /\ Requests!Elements(s) = {Head(s)} \cup Requests!Elements(Tail(s))
<1>1. Head(s) \in S /\ Tail(s) \in Seq(S)
  OBVIOUS
<1>2. Requests!Elements(Tail(s)) \subseteq Requests!Elements(s)
  BY DEF Requests!Elements
<1>3. Requests!Elements(s) \subseteq {Head(s)} \cup Requests!Elements(Tail(s))
  <2>1. ASSUME NEW i \in DOMAIN s, i # 1
        PROVE  s[i] \in Requests!Elements(Tail(s))
    <3>1. i - 1 \in DOMAIN Tail(s) /\ Tail(s)[i - 1] = s[i]
      BY <2>1
    <3>2. QED
      BY <3>1 DEF Requests!Elements
  <2>2. QED
    BY <2>1 DEF Requests!Elements
<1>4. Head(s) \in Requests!Elements(s)
  BY DEF Requests!Elements
<1>5. QED
  BY <1>1, <1>2, <1>3, <1>4

LEMMA PuttingBack ==
  ASSUME NEW S, NEW s \in Seq(S), NEW x \in S
  PROVE  /\ <<x>> \o s \in Seq(S)
         /\ Requests!Elements(<<x>> \o s) = {x} \cup Requests!Elements(s)
<1>1. /\ <<x>> \o s \in Seq(S) /\ Len(<<x>> \o s) = Len(s) + 1
      /\ (<<x>> \o s)[1] = x
      /\ 1 \in DOMAIN (<<x>> \o s)
      /\ \A i \in DOMAIN s : i + 1 \in DOMAIN (<<x>> \o s) /\ (<<x>> \o s)[i + 1] = s[i]
  OBVIOUS
<1>2. {x} \cup Requests!Elements(s) \subseteq Requests!Elements(<<x>> \o s)
  <2>1. x \in Requests!Elements(<<x>> \o s)
    BY <1>1 DEF Requests!Elements
  <2>2. ASSUME NEW i \in DOMAIN s PROVE s[i] \in Requests!Elements(<<x>> \o s)
    BY <1>1 DEF Requests!Elements
  <2>3. QED
    BY <2>1, <2>2 DEF Requests!Elements
<1>3. ASSUME NEW i \in DOMAIN (<<x>> \o s), i # 1
      PROVE  (<<x>> \o s)[i] \in Requests!Elements(s)
  <2>1. i - 1 \in DOMAIN s /\ (<<x>> \o s)[i] = s[i - 1]
    BY <1>1, <1>3
  <2>2. QED
    BY <2>1 DEF Requests!Elements
<1>4. Requests!Elements(<<x>> \o s) \subseteq {x} \cup Requests!Elements(s)
  BY <1>1, <1>3 DEF Requests!Elements
<1>5. QED
  BY <1>1, <1>2, <1>4

Distinct(s) == \A i, j \in DOMAIN s : i # j => s[i] # s[j]

LEMMA AppendIsDistinct ==
  ASSUME NEW S, NEW s \in Seq(S), NEW x \in S, Distinct(s), x \notin Requests!Elements(s)
  PROVE  Distinct(Append(s, x))
  BY DEF Distinct, Requests!Elements

LEMMA TailIsDistinct ==
  ASSUME NEW S, NEW s \in Seq(S), s # <<>>, Distinct(s)
  PROVE  Distinct(Tail(s)) /\ Head(s) \notin Requests!Elements(Tail(s))
<1>1. \A i \in DOMAIN Tail(s) : i + 1 \in DOMAIN s /\ Tail(s)[i] = s[i + 1] /\ i + 1 # 1
  OBVIOUS
<1>2. 1 \in DOMAIN s /\ Head(s) = s[1]
  OBVIOUS
<1>3. Head(s) \notin Requests!Elements(Tail(s))
  BY <1>1, <1>2 DEF Distinct, Requests!Elements
<1>4. ASSUME NEW i \in DOMAIN Tail(s), NEW j \in DOMAIN Tail(s), i # j
      PROVE  Tail(s)[i] # Tail(s)[j]
  <2>1. i + 1 # j + 1
    BY <1>4
  <2>2. QED
    BY <1>1, <2>1 DEF Distinct
<1>5. QED
  BY <1>3, <1>4 DEF Distinct

LEMMA PutBackIsDistinct ==
  ASSUME NEW S, NEW s \in Seq(S), NEW x \in S, Distinct(s), x \notin Requests!Elements(s)
  PROVE  Distinct(<<x>> \o s)
<1>1. /\ Len(<<x>> \o s) = Len(s) + 1
      /\ (<<x>> \o s)[1] = x
      /\ \A i \in 2..(Len(s) + 1) : i - 1 \in DOMAIN s /\ (<<x>> \o s)[i] = s[i - 1]
  OBVIOUS
<1>2. DOMAIN (<<x>> \o s) = 1..(Len(s) + 1)
  BY <1>1
<1>3. ASSUME NEW i \in DOMAIN (<<x>> \o s), NEW j \in DOMAIN (<<x>> \o s), i # j
      PROVE  (<<x>> \o s)[i] # (<<x>> \o s)[j]
  <2>1. CASE i = 1
    BY <1>1, <1>2, <1>3, <2>1 DEF Requests!Elements
  <2>2. CASE j = 1
    BY <1>1, <1>2, <1>3, <2>2 DEF Requests!Elements
  <2>3. CASE i # 1 /\ j # 1
    <3>1. i \in 2..(Len(s) + 1) /\ j \in 2..(Len(s) + 1)
      BY <1>2, <2>3
    <3>2. i - 1 # j - 1
      BY <1>3, <3>1
    <3>3. QED
      BY <1>1, <3>1, <3>2 DEF Distinct
  <2>4. QED
    BY <2>1, <2>2, <2>3
<1>4. QED
  BY <1>3 DEF Distinct

-----------------------------------------------------------------------------
(* The invariant of the contract under the mapping: besides its two          *)
(* properties, that only rows are requested and that one message is out at   *)
(* most; a step moves a message between two places, and needs to know that   *)
(* it was in no third.                                                       *)

Places ==
  /\ queue \in Seq(Rows)
  /\ unacked = <<>> \/ \E f \in Rows : unacked = <<f>>
  /\ unsent \cup acked \subseteq Rows

ContractInv == Places /\ Requests!OnePlace /\ Requests!NoneForgotten

LEMMA OutIsOne ==
  ASSUME Places, unacked # <<>>
  PROVE  /\ Head(unacked) \in Rows /\ unacked = <<Head(unacked)>>
         /\ Requests!Elements(unacked) = {Head(unacked)}
<1>1. PICK f \in Rows : unacked = <<f>>
  BY DEF Places
<1>2. Head(unacked) = f
  BY <1>1
<1>3. QED
  BY <1>1, <1>2, ElementsOfOne

LEMMA Initially == Requests!Init => ContractInv
<1>1. SUFFICES ASSUME Requests!Init PROVE ContractInv
  OBVIOUS
<1>2. Places
  BY <1>1 DEF Requests!Init, Places, Rows, Preparing
<1>3. Requests!OnePlace
  BY <1>1, ElementsOfEmpty DEF Requests!Init, Requests!OnePlace, Rows, Preparing
<1>4. Requests!NoneForgotten
  BY <1>1 DEF Requests!Init, Requests!NoneForgotten, Rows, Preparing
<1>5. QED
  BY <1>2, <1>3, <1>4 DEF ContractInv

LEMMA InsertKeeps == ASSUME ContractInv, Requests!Insert PROVE ContractInv'
<1>1. PICK f \in Rows' \ Rows :
        /\ Rows' = Rows \cup {f}
        /\ Preparing' = Preparing \cup {f}
        /\ unsent' = unsent \cup {f}
  BY DEF Requests!Insert, Rows, Preparing
<1>2. UNCHANGED <<queue, unacked, acked, restarted>>
  BY DEF Requests!Insert, Rows, Preparing
<1>3. /\ Requests!Elements(queue)' = Requests!Elements(queue)
      /\ Requests!Elements(unacked)' = Requests!Elements(unacked)
  BY <1>2
<1>4. /\ f \notin Requests!Elements(queue) /\ f \notin Requests!Elements(unacked)
      /\ f \notin unsent \cup acked
  <2>1. Requests!Elements(queue) \subseteq Rows
    BY ElementsOfSequence DEF ContractInv, Places
  <2>2. Requests!Elements(unacked) \subseteq Rows
    BY ElementsOfEmpty, OutIsOne DEF ContractInv, Places
  <2>3. QED
    BY <1>1, <2>1, <2>2 DEF ContractInv, Places
<1>5. Places'
  <2>1. queue' \in Seq(Rows')
    BY <1>1, <1>2 DEF ContractInv, Places
  <2>2. QED
    BY <1>1, <1>2, <2>1 DEF ContractInv, Places
<1>6. Requests!OnePlace'
  BY <1>1, <1>2, <1>3, <1>4 DEF ContractInv, Requests!OnePlace, Rows, Preparing
<1>7. Requests!NoneForgotten'
  BY <1>1, <1>2, <1>3 DEF ContractInv, Requests!NoneForgotten, Rows, Preparing
<1>8. QED
  BY <1>5, <1>6, <1>7 DEF ContractInv

LEMMA PublishKeeps == ASSUME ContractInv, Requests!Publish PROVE ContractInv'
<1>1. PICK f \in unsent : unsent' = unsent \ {f} /\ queue' = Append(queue, f)
  BY DEF Requests!Publish, Rows, Preparing
<1>2. UNCHANGED <<Rows, Preparing, unacked, acked, restarted>>
  BY DEF Requests!Publish, Rows, Preparing
<1>3. f \in Rows /\ queue \in Seq(Rows)
  BY <1>1 DEF ContractInv, Places
<1>4. /\ Requests!Elements(queue)' = Requests!Elements(queue) \cup {f}
      /\ Requests!Elements(unacked)' = Requests!Elements(unacked)
  BY <1>1, <1>2, <1>3, ElementsOfAppend
<1>5. Distinct(queue)'
  <2>1. Distinct(queue) /\ f \notin Requests!Elements(queue)
    BY <1>1 DEF ContractInv, Requests!OnePlace, Distinct, Rows, Preparing
  <2>2. Distinct(Append(queue, f))
    BY <1>3, <2>1, AppendIsDistinct
  <2>3. QED
    BY <1>1, <2>2 DEF Distinct
<1>6. Places'
  BY <1>1, <1>2, <1>3 DEF ContractInv, Places
<1>7. Requests!OnePlace'
  BY <1>1, <1>2, <1>4, <1>5 DEF ContractInv, Requests!OnePlace, Distinct, Rows, Preparing
<1>8. Requests!NoneForgotten'
  BY <1>1, <1>2, <1>4 DEF ContractInv, Requests!NoneForgotten, Rows, Preparing
<1>9. QED
  BY <1>6, <1>7, <1>8 DEF ContractInv

LEMMA DeliverKeeps == ASSUME ContractInv, Requests!Deliver PROVE ContractInv'
<1>1. /\ unacked = <<>> /\ queue # <<>>
      /\ unacked' = <<Head(queue)>>
      /\ queue' = Tail(queue)
      /\ UNCHANGED <<Rows, Preparing, unsent, acked, restarted>>
  BY DEF Requests!Deliver, Rows, Preparing
<1>2. queue \in Seq(Rows) /\ Distinct(queue)
  BY DEF ContractInv, Places, Requests!OnePlace, Distinct, Rows, Preparing
<1>3. /\ Head(queue) \in Rows /\ Tail(queue) \in Seq(Rows)
      /\ Requests!Elements(queue) = {Head(queue)} \cup Requests!Elements(Tail(queue))
  BY <1>1, <1>2, TakingTheFirst
<1>4. Distinct(Tail(queue)) /\ Head(queue) \notin Requests!Elements(Tail(queue))
  BY <1>1, <1>2, TailIsDistinct
<1>5. /\ Requests!Elements(queue)' = Requests!Elements(Tail(queue))
      /\ Requests!Elements(unacked)' = {Head(queue)}
  BY <1>1, ElementsOfOne
<1>6. Requests!Elements(unacked) = {}
  BY <1>1, ElementsOfEmpty
<1>7. Places'
  BY <1>1, <1>3 DEF ContractInv, Places
<1>8. Requests!OnePlace'
  <2>1. Distinct(queue)'
    BY <1>1, <1>4 DEF Distinct
  <2>2. QED
    BY <1>1, <1>3, <1>4, <1>5, <2>1 DEF ContractInv, Requests!OnePlace, Distinct, Rows, Preparing
<1>9. Requests!NoneForgotten'
  BY <1>1, <1>3, <1>5, <1>6 DEF ContractInv, Requests!NoneForgotten, Rows, Preparing
<1>10. QED
  BY <1>7, <1>8, <1>9 DEF ContractInv

(* Resolving and discarding only take rows out of preparation. *)
LEMMA EndingKeeps ==
  ASSUME ContractInv, Preparing' \subseteq Preparing,
         UNCHANGED <<Rows, unsent, queue, unacked, acked, restarted>>
  PROVE  ContractInv'
<1>1. /\ Requests!Elements(queue)' = Requests!Elements(queue)
      /\ Requests!Elements(unacked)' = Requests!Elements(unacked)
  OBVIOUS
<1>2. Places'
  BY DEF ContractInv, Places
<1>3. Requests!OnePlace'
  BY <1>1 DEF ContractInv, Requests!OnePlace, Rows, Preparing
<1>4. Requests!NoneForgotten'
  BY <1>1 DEF ContractInv, Requests!NoneForgotten, Rows, Preparing
<1>5. QED
  BY <1>2, <1>3, <1>4 DEF ContractInv

LEMMA AcknowledgeKeeps == ASSUME ContractInv, Requests!Acknowledge PROVE ContractInv'
<1>1. /\ unacked # <<>>
      /\ acked' = acked \cup {Head(unacked)}
      /\ unacked' = <<>>
      /\ UNCHANGED <<Rows, Preparing, unsent, queue, restarted>>
  BY DEF Requests!Acknowledge, Rows, Preparing
<1>2. Head(unacked) \in Rows /\ Requests!Elements(unacked) = {Head(unacked)}
  BY <1>1, OutIsOne DEF ContractInv
<1>3. Requests!Elements(queue)' = Requests!Elements(queue) /\ Requests!Elements(unacked)' = {}
  BY <1>1, ElementsOfEmpty
<1>4. Places'
  BY <1>1, <1>2 DEF ContractInv, Places
<1>5. Requests!OnePlace'
  BY <1>1, <1>2, <1>3 DEF ContractInv, Requests!OnePlace, Rows, Preparing
<1>6. Requests!NoneForgotten'
  BY <1>1, <1>2, <1>3 DEF ContractInv, Requests!NoneForgotten, Rows, Preparing
<1>7. QED
  BY <1>4, <1>5, <1>6 DEF ContractInv

LEMMA StopKeeps == ASSUME ContractInv, Requests!Stop PROVE ContractInv'
<1>1. /\ unsent' = {}
      /\ queue' = unacked \o queue /\ unacked' = <<>>
      /\ restarted' = TRUE
      /\ UNCHANGED <<Rows, Preparing, acked>>
  BY DEF Requests!Stop, Rows, Preparing
<1>2. queue \in Seq(Rows) /\ Distinct(queue)
  BY DEF ContractInv, Places, Requests!OnePlace, Distinct, Rows, Preparing
<1>3. /\ unacked \o queue \in Seq(Rows)
      /\ Requests!Elements(unacked \o queue) =
           Requests!Elements(unacked) \cup Requests!Elements(queue)
      /\ Distinct(unacked \o queue)
  <2>1. CASE unacked = <<>>
    <3>1. unacked \o queue = queue
      BY <1>2, <2>1
    <3>2. QED
      BY <1>2, <2>1, <3>1, ElementsOfEmpty
  <2>2. CASE unacked # <<>>
    <3>1. /\ Head(unacked) \in Rows /\ unacked = <<Head(unacked)>>
          /\ Requests!Elements(unacked) = {Head(unacked)}
      BY <2>2, OutIsOne DEF ContractInv
    <3>2. Head(unacked) \notin Requests!Elements(queue)
      BY <3>1 DEF ContractInv, Requests!OnePlace, Rows, Preparing
    <3>3. DEFINE x == Head(unacked)
    <3>4. /\ <<x>> \o queue \in Seq(Rows)
          /\ Requests!Elements(<<x>> \o queue) = {x} \cup Requests!Elements(queue)
      BY <1>2, <3>1, PuttingBack
    <3>5. Distinct(<<x>> \o queue)
      BY <1>2, <3>1, <3>2, PutBackIsDistinct
    <3>6. QED
      BY <3>1, <3>4, <3>5
  <2>3. QED
    BY <2>1, <2>2
<1>4. /\ Requests!Elements(queue)' = Requests!Elements(unacked) \cup Requests!Elements(queue)
      /\ Requests!Elements(unacked)' = {}
  BY <1>1, <1>3, ElementsOfEmpty
<1>5. Places'
  BY <1>1, <1>3 DEF ContractInv, Places
<1>6. Requests!OnePlace'
  <2>1. Distinct(queue)'
    BY <1>1, <1>3 DEF Distinct
  <2>2. QED
    BY <1>1, <1>4, <2>1 DEF ContractInv, Requests!OnePlace, Distinct, Rows, Preparing
<1>7. Requests!NoneForgotten'
  BY <1>1 DEF Requests!NoneForgotten, Rows, Preparing
<1>8. QED
  BY <1>5, <1>6, <1>7 DEF ContractInv

-----------------------------------------------------------------------------
(* The inductive invariant *)

(* What each step of the consumer relies on from the steps before it, and    *)
(* what the cron job holds.                                                  *)
HandlersInv ==
  /\ ~At("idle") => unacked # <<>>
  /\ At("save") => worker.verdict \in {"analyzed", "error"}
  /\ At("judge") => worker.todo = {}
  /\ At("finish") => worker.verdict \in {"ready", "error"}
  /\ \A f \in cron.todo : row[f] # "none"

Pending(f) == \E q \in Questions : questions[f][q] = "pending"
Readable(f) == Obstacles(f) \subseteq {q \in Questions \ talk[f] : questions[f][q] = "asked"}

(* The verdict on a feedback and its questions agree. *)
Judged(f) ==
  /\ row[f] = "ready" => Readable(f)
  /\ row[f] = "preparing" => Pending(f)

(* What the consumer that holds the message of f has done so far: it asked   *)
(* about every question of the talk it no longer has to, its verdict holds   *)
(* when it is to be saved, and still when it has been.                       *)
Progress(f) ==
  /\ worker.pc \in {"next", "save", "judge"} =>
       \A q \in talk[f] \ worker.todo : questions[f][q] \in {"analyzed", "error", "deleted"}
  /\ At("finish") /\ worker.verdict = "ready" => Readable(f)
  /\ At("ack") => Judged(f)

(* Once acknowledged the verdict stays, as no message of the feedback is     *)
(* left.  Before that a second delivery may find the feedback ready: then    *)
(* no question is pending, and none will be.                                 *)
Sound(f) ==
  recreation[f] = "none" =>
    /\ row[f] = "ready" => ~Pending(f)
    /\ unacked = <<f>> => Progress(f)
    /\ f \in acked => Judged(f)

AnalysisInv == \A f \in Feedbacks : Sound(f)

ReadyHasMessage ==
  \A f \in Feedbacks : row[f] = "ready" =>
    f \in acked \cup Requests!Elements(queue) \cup Requests!Elements(unacked)

Inv ==
  /\ TypeOK /\ HandlersInv /\ BlockedOnlyByDeletion
  /\ AnalysisInv /\ ReadyHasMessage
  /\ ContractInv

-----------------------------------------------------------------------------
(* Lemmas *)

Message(f) == f \in unsent \/ f \in acked \/ f \in Requests!Elements(queue)

(* The consumer at work holds one message, of a feedback that has a row and  *)
(* no other message.                                                         *)
LEMMA OneMessage ==
  ASSUME Inv, unacked # <<>>
  PROVE  /\ unacked = <<Current>> /\ Current \in Feedbacks
         /\ row[Current] # "none" /\ ~Message(Current)
<1>1. Places /\ Requests!OnePlace
  BY DEF Inv, ContractInv
<1>2. /\ Head(unacked) \in {f \in Feedbacks : row[f] # "none"}
      /\ unacked = <<Head(unacked)>>
      /\ Requests!Elements(unacked) = {Head(unacked)}
  BY <1>1, OutIsOne DEF Rows
<1>3. Current \in Requests!Elements(unacked)
  BY <1>2 DEF Current
<1>4. ~Message(Current)
  BY <1>1, <1>3 DEF Requests!OnePlace, Message, Requests!Elements
<1>5. QED
  BY <1>2, <1>4 DEF Current

LEMMA NoMessageWithoutRow ==
  ASSUME Inv, NEW f \in Feedbacks, row[f] = "none"
  PROVE  ~Message(f) /\ unacked # <<f>>
<1>1. Places
  BY DEF Inv, ContractInv
<1>2. f \notin Rows
  BY DEF Rows
<1>3. f \notin Requests!Elements(queue)
  BY <1>1, <1>2, ElementsOfSequence DEF Places
<1>4. QED
  BY <1>1, <1>2, <1>3, OneMessage DEF Places, Message, Current

LEMMA TypeRestart == ASSUME TypeOK, Restart PROVE TypeOK' \/ crashes' \notin 0..MaxCrashes
<1>1. queue' \in Seq(Feedbacks)
  BY ConcatProperties DEF TypeOK, Restart
<1>2. unacked' \in Seq(Feedbacks) /\ Len(unacked') <= 1
  BY DEF Restart
<1>3. worker' = IdleWorker /\ cron' = IdleCron /\ restarted' = TRUE /\ unsent' = {}
  BY DEF Restart
<1>4. UNCHANGED <<rows, acked>>
  BY DEF Restart
<1>5. QED
  BY <1>1, <1>2, <1>3, <1>4 DEF TypeOK, IdleWorker, IdleCron, rows

LEMMA TypeMeeting ==
  ASSUME TypeOK, NEW f \in Feedbacks,
         \/ EndMeeting(f) \/ sendToQueue(f) \/ Age(f)
         \/ Recreate(f) \/ DeleteMeetingQuestions(f) \/ JoinAgain(f)
         \/ DeleteFeedback(f) \/ MarkMeeting(f) \/ FindExpired
  PROVE  TypeOK'
<1> USE DEF TypeOK, rows, broker, process
<1>1. CASE EndMeeting(f)
  BY <1>1 DEF EndMeeting, FeedbackStatus, QuestionStatus
<1>2. CASE sendToQueue(f)
  BY <1>2, AppendProperties DEF sendToQueue
<1>3. CASE Age(f)
  BY <1>3 DEF Age
<1>4. CASE Recreate(f)
  BY <1>4 DEF Recreate
<1>5. CASE DeleteMeetingQuestions(f)
  BY <1>5 DEF DeleteMeetingQuestions, QuestionStatus
<1>6. CASE JoinAgain(f)
  BY <1>6 DEF JoinAgain, QuestionStatus
<1>7. CASE DeleteFeedback(f)
  BY <1>7 DEF DeleteFeedback
<1>8. CASE MarkMeeting(f)
  BY <1>8 DEF MarkMeeting
<1>9. CASE FindExpired
  BY <1>9 DEF FindExpired, Expired, IdleCron
<1>10. QED
  BY <1>1, <1>2, <1>3, <1>4, <1>5, <1>6, <1>7, <1>8, <1>9

WorkerPC == {"idle", "load", "next", "save", "judge", "finish", "ack"}
Verdict == {"analyzed", "ready", "error"}
Worker == [pc : WorkerPC, todo : SUBSET Questions, verdict : Verdict]

LEMMA IdleIsWorker == IdleWorker \in Worker
BY DEF Worker, WorkerPC, Verdict, IdleWorker

LEMMA WorkerType ==
  ASSUME TypeOK, worker' \in Worker,
         \/ UNCHANGED <<questions, row>>
         \/ questions' \in [Feedbacks -> [Questions -> QuestionStatus]] /\ UNCHANGED row
         \/ row' \in [Feedbacks -> FeedbackStatus \cup {"none", "deleted"}] /\ UNCHANGED questions,
         UNCHANGED <<old, meeting, talk, recreation, queue, unacked, unsent, cron, crashes, restarted>>,
         acked' \in SUBSET Feedbacks
  PROVE  TypeOK'
BY DEF TypeOK, Worker, WorkerPC, Verdict

LEMMA TypeWork ==
  ASSUME Inv, Work
  PROVE  TypeOK'
<1> USE DEF rows, broker, process
<1>t. TypeOK /\ worker \in Worker /\ HandlersInv
  BY DEF Inv, TypeOK, Worker, WorkerPC, Verdict
<1>a. acked \in SUBSET Feedbacks /\ talk \in [Feedbacks -> SUBSET Questions]
      /\ worker.todo \in SUBSET Questions
      /\ row \in [Feedbacks -> FeedbackStatus \cup {"none", "deleted"}]
      /\ questions \in [Feedbacks -> [Questions -> QuestionStatus]]
  BY <1>t DEF TypeOK
<1>1. CASE Deliver
  <2>1. Head(queue) \in Feedbacks /\ Tail(queue) \in Seq(Feedbacks)
    BY <1>1, <1>t, HeadTailProperties DEF Deliver, TypeOK
  <2>2. <<Head(queue)>> \in Seq(Feedbacks) /\ Len(<<Head(queue)>>) = 1
    BY <2>1
  <2>3. worker' \in Worker
    BY <1>t, <1>1, IdleIsWorker DEF Deliver, Goto, Worker, WorkerPC, Verdict
  <2>4. /\ queue' \in Seq(Feedbacks) /\ unacked' \in Seq(Feedbacks) /\ Len(unacked') <= 1
        /\ UNCHANGED <<rows, unsent, acked, cron, crashes, restarted>>
    BY <1>1, <2>1, <2>2 DEF Deliver
  <2>5. QED
    BY <1>t, <2>3, <2>4 DEF TypeOK, Worker, WorkerPC, Verdict
<1>2. CASE LoadFeedback
  <2>1. Current \in Feedbacks
    BY <1>2, <1>t, OneMessage DEF LoadFeedback, HandlersInv, At
  <2>2. talk[Current] \in SUBSET Questions
    BY <1>a, <2>1
  <2>3. worker' \in Worker
    BY <1>2, <1>t, <2>2, IdleIsWorker DEF LoadFeedback, Worker, WorkerPC, Verdict
  <2>4. QED
    BY <1>2, <1>t, <1>a, <2>3, WorkerType DEF LoadFeedback
<1>3. CASE AnalyzeQuestion
  <2>1. \E todo \in SUBSET Questions, v \in {"analyzed", "error"} :
           \/ worker' = [worker EXCEPT !.todo = todo]
           \/ worker' = [worker EXCEPT !.pc = "save", !.verdict = v]
    BY <1>3, <1>a DEF AnalyzeQuestion
  <2>2. worker' \in Worker
    BY <1>t, <2>1 DEF Worker, WorkerPC, Verdict
  <2>3. QED
    BY <1>3, <1>t, <1>a, <2>2, WorkerType DEF AnalyzeQuestion
<1>4. CASE SaveQuestion
  <2>1. Current \in Feedbacks /\ worker.verdict \in {"analyzed", "error"}
    BY <1>4, <1>t, OneMessage DEF SaveQuestion, HandlersInv, At
  <2>2. PICK q : /\ questions' = [questions EXCEPT ![Current][q] =
                                  IF @ = "deleted" THEN @ ELSE worker.verdict]
                 /\ worker' = [worker EXCEPT !.pc = "next", !.todo = @ \ {q}]
    BY <1>4 DEF SaveQuestion
  <2>3. worker' \in Worker
    <3>1. worker.todo \ {q} \in SUBSET Questions
      BY <1>a
    <3>2. QED
      BY <1>t, <2>2, <3>1 DEF Worker, WorkerPC, Verdict
  <2>4. questions' \in [Feedbacks -> [Questions -> QuestionStatus]]
    BY <1>a, <2>1, <2>2 DEF QuestionStatus
  <2>5. QED
    BY <1>4, <1>t, <1>a, <2>3, <2>4, WorkerType DEF SaveQuestion
<1>5. CASE ReloadFeedback
  <2>1. worker' \in Worker
    BY <1>5, <1>t, IdleIsWorker DEF ReloadFeedback, Goto, Worker, WorkerPC, Verdict
  <2>2. QED
    BY <1>5, <1>t, <1>a, <2>1, WorkerType DEF ReloadFeedback
<1>6. CASE JudgeFeedback
  <2>1. \/ worker' = [worker EXCEPT !.pc = "finish", !.verdict = "error"]
        \/ worker' = [worker EXCEPT !.pc = "finish", !.verdict = "ready"]
        \/ worker' = [worker EXCEPT !.pc = "ack"]
    BY <1>6 DEF JudgeFeedback, Goto, HadError, AllNotAnalyzed
  <2>2. worker' \in Worker
    BY <1>t, <2>1 DEF Worker, WorkerPC, Verdict
  <2>3. QED
    BY <1>6, <1>t, <1>a, <2>2, WorkerType DEF JudgeFeedback
<1>7. CASE AverageOfNothing
  BY <1>7, <1>t, TypeRestart DEF AverageOfNothing, TypeOK
<1>8. CASE SaveFeedback
  <2>1. Current \in Feedbacks /\ worker.verdict \in {"ready", "error"}
    BY <1>8, <1>t, OneMessage DEF SaveFeedback, HandlersInv, At
  <2>2. row' \in [Feedbacks -> FeedbackStatus \cup {"none", "deleted"}]
    BY <1>8, <1>a, <2>1 DEF SaveFeedback, FeedbackStatus
  <2>3. worker' \in Worker
    BY <1>8, <1>t, IdleIsWorker DEF SaveFeedback, Goto, Worker, WorkerPC, Verdict
  <2>4. QED
    BY <1>8, <1>t, <1>a, <2>2, <2>3, WorkerType DEF SaveFeedback
<1>9. CASE Ack
  <2>1. Current \in Feedbacks
    BY <1>9, <1>t, OneMessage DEF Ack, HandlersInv, At
  <2>2. /\ worker' \in Worker /\ acked' \in SUBSET Feedbacks /\ unacked' = <<>>
        /\ UNCHANGED <<rows, queue, unsent, cron, crashes, restarted>>
    BY <1>9, <1>t, <1>a, <2>1, IdleIsWorker DEF Ack
  <2>3. QED
    BY <1>t, <2>2 DEF TypeOK, Worker, WorkerPC, Verdict
<1>10. QED
  BY <1>1, <1>2, <1>3, <1>4, <1>5, <1>6, <1>7, <1>8, <1>9 DEF Work

LEMMA TypeNext == ASSUME Inv, [Next]_vars PROVE TypeOK'
<1>1. CASE Crash \/ ParseFailure
  <2>1. crashes < MaxCrashes /\ crashes' = crashes + 1 /\ Restart
    BY <1>1 DEF Crash, ParseFailure
  <2>2. crashes' \in 0..MaxCrashes
    BY <2>1, CrashesAssumption DEF Inv, TypeOK
  <2>3. QED
    BY <2>1, <2>2, TypeRestart DEF Inv
<1>2. CASE UNCHANGED vars
  BY <1>2 DEF Inv, TypeOK, vars, rows, broker, process
<1>3. CASE CleanUp /\ FindExpired
  BY <1>3 DEF FindExpired, Inv, TypeOK, Expired, IdleCron, rows, broker
<1>4. QED
  BY <1>1, <1>2, <1>3, TypeMeeting, TypeWork DEF Next, CleanUp, Inv

-----------------------------------------------------------------------------
(* The steps as steps of the contract *)

LEMMA Invisible ==
  ASSUME UNCHANGED <<row, broker, restarted>>
  PROVE  [Requests!Next]_(Requests!vars)
BY DEF Requests!vars, broker

LEMMA RestartRefines ==
  ASSUME Restart
  PROVE  [Requests!Next]_(Requests!vars)
<1>1. Requests!Stop
  BY DEF Restart, Requests!Stop, rows
<1>2. QED
  BY <1>1 DEF Requests!Next

LEMMA MeetingRefines ==
  ASSUME Inv, NEW f \in Feedbacks,
         \/ EndMeeting(f) \/ sendToQueue(f) \/ Age(f)
         \/ Recreate(f) \/ DeleteMeetingQuestions(f) \/ JoinAgain(f)
         \/ DeleteFeedback(f) \/ MarkMeeting(f) \/ FindExpired
  PROVE  [Requests!Next]_(Requests!vars)
<1>t. row \in [Feedbacks -> FeedbackStatus \cup {"none", "deleted"}]
  BY DEF Inv, TypeOK
<1>1. CASE EndMeeting(f)
  <2>1. row[f] = "none" /\ row' = [row EXCEPT ![f] = "preparing"] /\ unsent' = unsent \cup {f}
    BY <1>1 DEF EndMeeting
  <2>2. f \notin Rows /\ Rows' = Rows \cup {f} /\ Preparing' = Preparing \cup {f}
    BY <1>t, <2>1 DEF Rows, Preparing
  <2>3. UNCHANGED <<queue, unacked, acked, restarted>>
    BY <1>1 DEF EndMeeting, process
  <2>4. Requests!Insert
    BY <2>1, <2>2, <2>3 DEF Requests!Insert, Rows, Preparing
  <2>5. QED
    BY <2>4 DEF Requests!Next
<1>2. CASE sendToQueue(f)
  <2>1. Requests!Publish
    BY <1>2 DEF sendToQueue, Requests!Publish, rows, process
  <2>2. QED
    BY <2>1 DEF Requests!Next
<1>3. CASE DeleteFeedback(f)
  <2>1. row[f] # "none"
    BY <1>3 DEF DeleteFeedback, Inv, HandlersInv
  <2>2. row' = [row EXCEPT ![f] = "deleted"] /\ UNCHANGED <<broker, restarted>>
    BY <1>3 DEF DeleteFeedback
  <2>3. Rows' = Rows /\ Preparing' = Preparing \ {f}
    BY <1>t, <2>1, <2>2 DEF Rows, Preparing
  <2>4. CASE f \in Preparing
    <3>1. Requests!Discard
      BY <2>2, <2>3, <2>4 DEF Requests!Discard, Rows, Preparing, broker
    <3>2. QED
      BY <3>1 DEF Requests!Next
  <2>5. CASE f \notin Preparing
    BY <2>2, <2>3, <2>5 DEF Requests!vars, Rows, Preparing, broker
  <2>6. QED
    BY <2>4, <2>5
<1>4. CASE Age(f) \/ Recreate(f) \/ DeleteMeetingQuestions(f) \/ JoinAgain(f)
  BY <1>4, Invisible DEF Age, Recreate, DeleteMeetingQuestions, JoinAgain, process
<1>5. CASE MarkMeeting(f) \/ FindExpired
  BY <1>5, Invisible DEF MarkMeeting, FindExpired, rows
<1>6. QED
  BY <1>1, <1>2, <1>3, <1>4, <1>5

LEMMA WorkRefines ==
  ASSUME Inv, Work
  PROVE  [Requests!Next]_(Requests!vars)
<1>t. row \in [Feedbacks -> FeedbackStatus \cup {"none", "deleted"}] /\ HandlersInv
  BY DEF Inv, TypeOK
<1>1. CASE Deliver
  <2>1. Requests!Deliver
    BY <1>1 DEF Deliver, Requests!Deliver, rows
  <2>2. QED
    BY <2>1 DEF Requests!Next
<1>2. CASE LoadFeedback \/ AnalyzeQuestion \/ ReloadFeedback \/ JudgeFeedback
  BY <1>2, Invisible DEF LoadFeedback, AnalyzeQuestion, ReloadFeedback, JudgeFeedback, rows
<1>3. CASE SaveQuestion
  BY <1>3, Invisible DEF SaveQuestion
<1>4. CASE AverageOfNothing
  BY <1>4, RestartRefines DEF AverageOfNothing
<1>5. CASE SaveFeedback
  <2>1. unacked # <<>> /\ worker.verdict \in {"ready", "error"}
    BY <1>5, <1>t DEF SaveFeedback, HandlersInv, At
  <2>2. Current \in Feedbacks /\ row[Current] # "none"
    BY <2>1, OneMessage
  <2>3. row' = [row EXCEPT ![Current] = worker.verdict] /\ UNCHANGED <<broker, restarted>>
    BY <1>5 DEF SaveFeedback
  <2>4. Rows' = Rows /\ Preparing' = Preparing \ {Current}
    BY <1>t, <2>1, <2>2, <2>3 DEF Rows, Preparing
  <2>5. Requests!Resolve
    BY <2>1, <2>3, <2>4 DEF Requests!Resolve, Rows, Preparing, Current, broker
  <2>6. QED
    BY <2>5 DEF Requests!Next
<1>6. CASE Ack
  <2>1. unacked # <<>>
    BY <1>6, <1>t DEF Ack, HandlersInv, At
  <2>2. Requests!Acknowledge
    BY <1>6, <2>1 DEF Ack, Requests!Acknowledge, Current, rows
  <2>3. QED
    BY <2>2 DEF Requests!Next
<1>7. QED
  BY <1>1, <1>2, <1>3, <1>4, <1>5, <1>6 DEF Work

LEMMA NextRefines == ASSUME Inv, [Next]_vars PROVE [Requests!Next]_(Requests!vars)
<1>1. CASE UNCHANGED vars
  BY <1>1, Invisible DEF vars, rows, process
<1>2. CASE Crash \/ ParseFailure
  BY <1>2, RestartRefines DEF Crash, ParseFailure
<1>3. CASE FindExpired
  BY <1>3, Invisible DEF FindExpired, rows
<1>4. QED
  BY <1>1, <1>2, <1>3, MeetingRefines, WorkRefines DEF Next, CleanUp

LEMMA InitRefines == Init => Requests!Init
BY DEF Init, Requests!Init

LEMMA ContractKept == ASSUME Inv, [Next]_vars PROVE ContractInv'
<1>1. [Requests!Next]_(Requests!vars) /\ ContractInv
  BY NextRefines DEF Inv
<1>2. ~Requests!Request
  BY DEF Requests!Request
<1>3. CASE Requests!Insert
  BY <1>1, <1>3, InsertKeeps
<1>4. CASE Requests!Publish
  BY <1>1, <1>4, PublishKeeps
<1>5. CASE Requests!Deliver
  BY <1>1, <1>5, DeliverKeeps
<1>6. CASE Requests!Resolve \/ Requests!Discard
  BY <1>1, <1>6, EndingKeeps DEF Requests!Resolve, Requests!Discard, Rows, Preparing
<1>7. CASE Requests!Acknowledge
  BY <1>1, <1>7, AcknowledgeKeeps
<1>8. CASE Requests!Stop
  BY <1>1, <1>8, StopKeeps
<1>9. CASE UNCHANGED Requests!vars
  BY <1>1, <1>9, EndingKeeps DEF Requests!vars, Rows, Preparing
<1>10. QED
  BY <1>1, <1>2, <1>3, <1>4, <1>5, <1>6, <1>7, <1>8, <1>9 DEF Requests!Next

-----------------------------------------------------------------------------
(* The invariant is kept *)

LEMMA HandlersKept ==
  ASSUME Inv, [Next]_vars
  PROVE  HandlersInv' /\ BlockedOnlyByDeletion'
<1>t. /\ TypeOK /\ HandlersInv /\ BlockedOnlyByDeletion
      /\ worker \in Worker
      /\ row \in [Feedbacks -> FeedbackStatus \cup {"none", "deleted"}]
  BY DEF Inv, TypeOK, Worker, WorkerPC, Verdict
<1>a. worker.todo \in SUBSET Questions
  BY <1>t DEF Worker
<1> USE DEF HandlersInv, BlockedOnlyByDeletion, At, Current
<1>r. ASSUME Restart
      PROVE  HandlersInv' /\ BlockedOnlyByDeletion'
  BY <1>r DEF Restart, IdleWorker, IdleCron
<1>1. ASSUME NEW f \in Feedbacks, EndMeeting(f)
      PROVE  HandlersInv' /\ BlockedOnlyByDeletion'
  <2>1. /\ row[f] = "none" /\ row' = [row EXCEPT ![f] = "preparing"]
        /\ UNCHANGED <<unacked, worker, cron>>
    BY <1>1 DEF EndMeeting, process
  <2>2. unacked # <<>> => Current \in Feedbacks /\ Current # f
    BY <2>1, OneMessage
  <2>3. QED
    BY <1>t, <2>1, <2>2
<1>2. ASSUME NEW f \in Feedbacks,
             \/ sendToQueue(f) \/ Age(f) \/ MarkMeeting(f)
             \/ Recreate(f) \/ DeleteMeetingQuestions(f) \/ JoinAgain(f)
      PROVE  HandlersInv' /\ BlockedOnlyByDeletion'
  <2>1. UNCHANGED <<row, unacked, worker>> /\ cron'.todo = cron.todo
    BY <1>t, <1>2 DEF sendToQueue, Age, MarkMeeting, Recreate, DeleteMeetingQuestions, JoinAgain,
                rows, broker, process, TypeOK
  <2>2. QED
    BY <1>t, <2>1
<1>3. ASSUME NEW f \in Feedbacks, DeleteFeedback(f)
      PROVE  HandlersInv' /\ BlockedOnlyByDeletion'
  <2>1. /\ row' = [row EXCEPT ![f] = "deleted"] /\ UNCHANGED <<unacked, worker>>
        /\ cron'.todo = cron.todo \ {f}
    BY <1>3 DEF DeleteFeedback, broker
  <2>2. unacked # <<>> => Current \in Feedbacks
    BY OneMessage
  <2>3. QED
    BY <1>t, <2>1, <2>2 DEF TypeOK
<1>4. ASSUME FindExpired
      PROVE  HandlersInv' /\ BlockedOnlyByDeletion'
  BY <1>t, <1>4 DEF FindExpired, Expired, IdleCron, rows, broker
<1>5. CASE Deliver
  <2>1. worker'.pc = "load" /\ unacked' # <<>> /\ UNCHANGED <<row, cron>>
    BY <1>t, <1>5 DEF Deliver, Goto, Worker, rows
  <2>2. QED
    BY <1>t, <2>1
<1>6. CASE LoadFeedback
  <2>1. /\ \/ worker'.pc = "idle" /\ row[Current] = "deleted"
           \/ worker'.pc = "next" /\ unacked # <<>>
        /\ UNCHANGED <<row, unacked, cron>>
    <3>1. CASE row[Current] = "deleted"
      BY <1>6, <3>1 DEF LoadFeedback, IdleWorker, rows, broker
    <3>2. CASE row[Current] # "deleted"
      BY <1>t, <1>6, <3>2 DEF LoadFeedback, Worker, rows, broker
    <3>3. QED
      BY <3>1, <3>2
  <2>2. QED
    BY <1>t, <2>1
<1>7. CASE AnalyzeQuestion
  <2>1. /\ \/ worker'.pc = "next"
           \/ worker'.pc = "save" /\ worker'.verdict \in {"analyzed", "error"}
        /\ UNCHANGED <<row, unacked, cron>> /\ unacked # <<>>
    <3>1. \E todo \in SUBSET Questions, v \in {"analyzed", "error"} :
            \/ worker' = [worker EXCEPT !.todo = todo]
            \/ worker' = [worker EXCEPT !.pc = "save", !.verdict = v]
      BY <1>7, <1>a DEF AnalyzeQuestion
    <3>2. UNCHANGED <<row, unacked, cron>> /\ unacked # <<>> /\ worker.pc = "next"
      BY <1>t, <1>7 DEF AnalyzeQuestion, rows, broker
    <3>3. QED
      BY <1>t, <3>1, <3>2 DEF Worker
  <2>2. QED
    BY <1>t, <2>1
<1>8. CASE SaveQuestion
  <2>1. worker'.pc = "next" /\ unacked # <<>> /\ UNCHANGED <<row, unacked, cron>>
    BY <1>t, <1>8 DEF SaveQuestion, Worker, broker
  <2>2. QED
    BY <1>t, <2>1
<1>9. CASE ReloadFeedback
  <2>1. /\ \/ worker'.pc = "ack"
           \/ worker'.pc = "judge" /\ worker'.todo = {}
        /\ unacked # <<>> /\ UNCHANGED <<row, unacked, cron>>
    BY <1>t, <1>9 DEF ReloadFeedback, Goto, Worker, rows, broker
  <2>2. QED
    BY <1>t, <2>1
<1>10. CASE JudgeFeedback
  <2>1. \/ worker' = [worker EXCEPT !.pc = "finish", !.verdict = "error"]
        \/ worker' = [worker EXCEPT !.pc = "finish", !.verdict = "ready"]
        \/ worker' = [worker EXCEPT !.pc = "ack"]
    BY <1>10 DEF JudgeFeedback, Goto, HadError, AllNotAnalyzed
  <2>2. \/ worker'.pc = "ack"
        \/ worker'.pc = "finish" /\ worker'.verdict \in {"ready", "error"}
    BY <1>t, <2>1 DEF Worker
  <2>3. unacked # <<>> /\ UNCHANGED <<row, unacked, cron>>
    BY <1>t, <1>10 DEF JudgeFeedback, rows, broker
  <2>4. QED
    BY <1>t, <2>2, <2>3
<1>11. CASE SaveFeedback
  <2>1. unacked # <<>> /\ worker.verdict \in {"ready", "error"}
    BY <1>t, <1>11 DEF SaveFeedback
  <2>2. /\ worker'.pc = "ack" /\ row' = [row EXCEPT ![Current] = worker.verdict]
        /\ UNCHANGED <<unacked, cron>>
    BY <1>t, <1>11 DEF SaveFeedback, Goto, Worker, broker
  <2>3. \A f \in Feedbacks : row[f] # "none" => row'[f] # "none"
    BY <1>t, <2>1, <2>2
  <2>4. \A f \in cron.todo : row'[f] # "none"
    BY <1>t, <2>3 DEF TypeOK
  <2>5. QED
    BY <2>1, <2>2, <2>4
<1>12. CASE Ack
  BY <1>t, <1>12 DEF Ack, IdleWorker, rows
<1>13. CASE UNCHANGED vars
  BY <1>t, <1>13 DEF vars, rows, broker, process
<1>14. QED
  BY <1>r, <1>1, <1>2, <1>3, <1>4, <1>5, <1>6, <1>7, <1>8, <1>9, <1>10, <1>11, <1>12, <1>13
  DEF Next, Work, CleanUp, Crash, ParseFailure, AverageOfNothing

(* A step that touches neither the feedback nor the work on it. *)
LEMMA Unaffected ==
  ASSUME NEW f \in Feedbacks, Sound(f),
         row'[f] = row[f], questions'[f] = questions[f], talk'[f] = talk[f],
         recreation'[f] = recreation[f],
         f \in acked' => f \in acked,
         unacked' = <<f>> => unacked = <<f>> /\ worker' = worker
  PROVE  Sound(f)'
BY DEF Sound, Pending, Progress, Judged, Readable, Obstacles, At

LEMMA MeetingSound ==
  ASSUME Inv, NEW f \in Feedbacks, NEW g \in Feedbacks,
         \/ EndMeeting(g) \/ sendToQueue(g) \/ Age(g)
         \/ Recreate(g) \/ DeleteMeetingQuestions(g) \/ JoinAgain(g)
         \/ DeleteFeedback(g) \/ MarkMeeting(g)
  PROVE  Sound(f)'
<1>t. /\ Sound(f) /\ row \in [Feedbacks -> FeedbackStatus \cup {"none", "deleted"}]
      /\ questions \in [Feedbacks -> [Questions -> QuestionStatus]]
      /\ talk \in [Feedbacks -> SUBSET Questions]
      /\ recreation \in [Feedbacks -> {"none", "wiped", "purged"}]
  BY DEF Inv, TypeOK, AnalysisInv
<1>1. CASE EndMeeting(g)
  <2>1. /\ row[g] = "none" /\ row' = [row EXCEPT ![g] = "preparing"]
        /\ UNCHANGED <<unacked, acked, worker, recreation>>
    BY <1>1 DEF EndMeeting, process
  <2>2. g # f => questions'[f] = questions[f] /\ talk'[f] = talk[f]
    BY <1>1, <1>t DEF EndMeeting
  <2>3. CASE f = g
    <3>1. f \notin acked /\ unacked # <<f>>
      BY <2>1, <2>3, NoMessageWithoutRow DEF Message
    <3>2. row'[f] = "preparing"
      BY <1>t, <2>1, <2>3
    <3>3. QED
      BY <2>1, <3>1, <3>2 DEF Sound
  <2>4. CASE f # g
    <3>1. row'[f] = row[f]
      BY <1>t, <2>1, <2>4
    <3>2. QED
      BY <1>t, <2>1, <2>2, <2>4, <3>1, Unaffected
  <2>5. QED
    BY <2>3, <2>4
<1>2. CASE sendToQueue(g) \/ Age(g) \/ MarkMeeting(g)
  BY <1>t, <1>2, Unaffected DEF sendToQueue, Age, MarkMeeting, rows, broker, process
<1>3. CASE Recreate(g) \/ DeleteMeetingQuestions(g) \/ JoinAgain(g)
  <2>1. /\ UNCHANGED <<row, unacked, acked, worker>>
        /\ g # f => /\ questions'[f] = questions[f] /\ talk'[f] = talk[f]
                    /\ recreation'[f] = recreation[f]
    BY <1>3, <1>t DEF Recreate, DeleteMeetingQuestions, JoinAgain, broker, process
  <2>2. recreation'[g] # "none"
    BY <1>3, <1>t DEF Recreate, DeleteMeetingQuestions, JoinAgain
  <2>3. CASE f = g
    BY <2>2, <2>3 DEF Sound
  <2>4. CASE f # g
    BY <1>t, <2>1, <2>4, Unaffected
  <2>5. QED
    BY <2>3, <2>4
<1>4. CASE DeleteFeedback(g)
  <2>1. /\ row' = [row EXCEPT ![g] = "deleted"]
        /\ UNCHANGED <<questions, talk, recreation, unacked, acked, worker>>
    BY <1>4 DEF DeleteFeedback, broker
  <2>2. CASE f = g
    <3>1. row'[f] = "deleted"
      BY <1>t, <2>1, <2>2
    <3>2. QED
      BY <1>t, <2>1, <3>1 DEF Sound, Pending, Progress, Judged, Readable, Obstacles, At
  <2>3. CASE f # g
    <3>1. row'[f] = row[f]
      BY <1>t, <2>1, <2>3
    <3>2. QED
      BY <1>t, <2>1, <3>1, Unaffected
  <2>4. QED
    BY <2>2, <2>3
<1>5. QED
  BY <1>1, <1>2, <1>3, <1>4

(* The consumer at work on f: one lemma per step. *)

Analysed == {"analyzed", "error", "deleted"}

LEMMA AnalyzeProgress ==
  ASSUME Inv, NEW f \in Feedbacks, unacked = <<f>>,
         AnalyzeQuestion \/ ReloadFeedback \/ LoadFeedback
  PROVE  Sound(f)'
<1>t. /\ Sound(f) /\ worker \in Worker
      /\ talk \in [Feedbacks -> SUBSET Questions]
  BY DEF Inv, TypeOK, AnalysisInv, Worker, WorkerPC, Verdict
<1>f. Current = f
  BY DEF Current
<1>1. UNCHANGED <<row, questions, talk, recreation, acked, unacked>>
  BY DEF AnalyzeQuestion, ReloadFeedback, LoadFeedback, rows, broker
<1>2. SUFFICES ASSUME recreation[f] = "none"
               PROVE  Progress(f)'
  BY <1>t, <1>1, <1>2 DEF Sound, Pending, Judged, Readable, Obstacles
<1>3. Progress(f)
  BY <1>t, <1>2 DEF Sound
<1>4. CASE AnalyzeQuestion
  <2>1. At("next")
    BY <1>4 DEF AnalyzeQuestion
  <2>2. \A q \in talk[f] \ worker.todo : questions[f][q] \in Analysed
    BY <1>3, <2>1 DEF Progress, At, Analysed
  <2>3. CASE FirstOf(worker.todo) \notin Stored
    <3>1. worker' = [worker EXCEPT !.todo = @ \ {FirstOf(worker.todo)}]
      BY <1>4, <2>3 DEF AnalyzeQuestion
    <3>2. worker'.pc = "next" /\ worker'.todo = worker.todo \ {FirstOf(worker.todo)}
      BY <1>t, <2>1, <3>1 DEF Worker, At
    <3>3. \A q \in talk[f] : q = FirstOf(worker.todo) => questions[f][q] = "deleted"
      BY <1>t, <1>f, <2>3 DEF Stored
    <3>4. QED
      BY <1>1, <2>2, <3>2, <3>3 DEF Progress, At, Analysed
  <2>4. CASE FirstOf(worker.todo) \in Stored
    <3>1. PICK v : worker' = [worker EXCEPT !.pc = "save", !.verdict = v]
      BY <1>4, <2>4 DEF AnalyzeQuestion
    <3>2. worker'.pc = "save" /\ worker'.todo = worker.todo
      BY <1>t, <3>1 DEF Worker
    <3>3. QED
      BY <1>1, <2>2, <3>2 DEF Progress, At, Analysed
  <2>5. QED
    BY <2>3, <2>4
<1>5. CASE ReloadFeedback
  <2>1. At("next")
    BY <1>5 DEF ReloadFeedback
  <2>2. \/ worker'.pc = "ack" /\ row[f] = "deleted"
        \/ worker'.pc = "judge" /\ worker'.todo = worker.todo
    BY <1>t, <1>f, <1>5 DEF ReloadFeedback, Goto, Worker
  <2>3. QED
    BY <1>1, <1>3, <2>1, <2>2 DEF Progress, At, Judged
<1>6. CASE LoadFeedback
  <2>1. CASE row[f] = "deleted"
    <3>1. worker'.pc = "idle"
      BY <1>f, <1>6, <2>1 DEF LoadFeedback, IdleWorker
    <3>2. QED
      BY <3>1 DEF Progress, At
  <2>2. CASE row[f] # "deleted"
    <3>1. worker'.pc = "next" /\ worker'.todo = talk[f]
      BY <1>t, <1>f, <1>6, <2>2 DEF LoadFeedback, Worker
    <3>2. QED
      BY <1>1, <3>1 DEF Progress, At
  <2>3. QED
    BY <2>1, <2>2
<1>7. QED
  BY <1>4, <1>5, <1>6

LEMMA SaveQuestionProgress ==
  ASSUME Inv, NEW f \in Feedbacks, unacked = <<f>>, SaveQuestion
  PROVE  Sound(f)'
<1>t. /\ Sound(f) /\ worker \in Worker
      /\ talk \in [Feedbacks -> SUBSET Questions]
      /\ questions \in [Feedbacks -> [Questions -> QuestionStatus]]
  BY DEF Inv, TypeOK, AnalysisInv, Worker, WorkerPC, Verdict
<1>f. Current = f
  BY DEF Current
<1>1. At("save") /\ UNCHANGED <<row, talk, recreation, acked, unacked>>
  BY DEF SaveQuestion, broker
<1>2. worker.verdict \in {"analyzed", "error"}
  BY <1>1 DEF Inv, HandlersInv
<1>3. PICK q : /\ questions' = [questions EXCEPT ![Current][q] =
                                IF @ = "deleted" THEN @ ELSE worker.verdict]
               /\ worker' = [worker EXCEPT !.pc = "next", !.todo = @ \ {q}]
  BY DEF SaveQuestion
<1>4. worker'.pc = "next" /\ worker'.todo = worker.todo \ {q}
  BY <1>t, <1>3 DEF Worker
<1>5. \A p \in Questions :
        questions'[f][p] = IF p = q
                           THEN IF questions[f][p] = "deleted" THEN "deleted" ELSE worker.verdict
                           ELSE questions[f][p]
  BY <1>t, <1>f, <1>3
<1>6. f \notin acked
  BY <1>f, OneMessage DEF Message
<1>7. SUFFICES ASSUME recreation[f] = "none"
               PROVE  /\ row[f] = "ready" => ~Pending(f)'
                      /\ Progress(f)'
  BY <1>1, <1>6 DEF Sound
<1>8. row[f] = "ready" => ~Pending(f)'
  BY <1>t, <1>2, <1>5, <1>7 DEF Sound, Pending
<1>9. \A p \in talk[f] \ worker.todo : questions[f][p] \in Analysed
  BY <1>t, <1>1, <1>7 DEF Sound, Progress, At, Analysed
<1>10. \A p \in talk[f] \ worker'.todo : questions'[f][p] \in Analysed
  <2>1. talk[f] \subseteq Questions
    BY <1>t
  <2>2. QED
    BY <1>2, <1>4, <1>5, <1>9, <2>1 DEF Analysed
<1>11. Progress(f)'
  BY <1>1, <1>4, <1>10 DEF Progress, At, Analysed
<1>12. QED
  BY <1>8, <1>11

(* Every question of the talk has been analysed by now; without an error and *)
(* without one pending, the others are at most marked as asked.              *)
LEMMA JudgeProgress ==
  ASSUME Inv, NEW f \in Feedbacks, unacked = <<f>>, JudgeFeedback
  PROVE  Sound(f)'
<1>t. /\ Sound(f) /\ worker \in Worker
      /\ talk \in [Feedbacks -> SUBSET Questions]
      /\ questions \in [Feedbacks -> [Questions -> QuestionStatus]]
  BY DEF Inv, TypeOK, AnalysisInv, Worker, WorkerPC, Verdict
<1>f. Current = f
  BY DEF Current
<1>1. UNCHANGED <<row, questions, talk, recreation, acked, unacked>> /\ At("judge")
  BY DEF JudgeFeedback, rows, broker
<1>2. SUFFICES ASSUME recreation[f] = "none"
               PROVE  Progress(f)'
  BY <1>t, <1>1, <1>2 DEF Sound, Pending, Judged, Readable, Obstacles
<1>3. \A q \in talk[f] : questions[f][q] \in Analysed
  <2>1. worker.todo = {}
    BY <1>1 DEF Inv, HandlersInv
  <2>2. QED
    BY <1>t, <1>1, <1>2, <2>1 DEF Sound, Progress, At, Analysed
<1>4. CASE HadError
  <2>1. worker' = [worker EXCEPT !.pc = "finish", !.verdict = "error"]
    BY <1>4 DEF JudgeFeedback
  <2>2. worker'.pc = "finish" /\ worker'.verdict = "error"
    BY <1>t, <2>1 DEF Worker
  <2>3. QED
    BY <2>2 DEF Progress, At
<1>5. CASE ~HadError /\ AllNotAnalyzed
  <2>1. worker' = [worker EXCEPT !.pc = "ack"]
    BY <1>5 DEF JudgeFeedback, Goto
  <2>2. worker'.pc = "ack"
    BY <1>t, <2>1 DEF Worker
  <2>3. Pending(f)
    BY <1>f, <1>5 DEF AllNotAnalyzed, Stored, Pending
  <2>4. row[f] # "ready"
    BY <1>t, <1>2, <2>3 DEF Sound
  <2>5. QED
    BY <1>1, <2>2, <2>3, <2>4 DEF Progress, Judged, Pending, At
<1>6. CASE ~HadError /\ ~AllNotAnalyzed
  <2>1. worker' = [worker EXCEPT !.pc = "finish", !.verdict = "ready"]
    BY <1>6 DEF JudgeFeedback
  <2>2. worker'.pc = "finish"
    BY <1>t, <2>1 DEF Worker
  <2>3. ASSUME NEW q \in Obstacles(f)
        PROVE  q \in Questions \ talk[f] /\ questions[f][q] = "asked"
    <3>1. q \in Questions /\ questions[f][q] \notin {"analyzed", "deleted"}
      BY <2>3 DEF Obstacles
    <3>2. q \in Stored
      BY <1>f, <3>1 DEF Stored
    <3>3. questions[f][q] # "error" /\ questions[f][q] # "pending"
      BY <1>f, <1>6, <3>2 DEF HadError, AllNotAnalyzed
    <3>4. questions[f][q] = "asked"
      BY <1>t, <3>1, <3>3 DEF QuestionStatus
    <3>5. q \notin talk[f]
      BY <1>3, <3>4 DEF Analysed
    <3>6. QED
      BY <3>1, <3>4, <3>5
  <2>4. Readable(f)
    BY <2>3 DEF Readable
  <2>5. QED
    BY <1>1, <2>2, <2>4 DEF Progress, Readable, Obstacles, At
<1>7. QED
  BY <1>4, <1>5, <1>6

LEMMA ReadableNotPending ==
  ASSUME NEW f, Readable(f)
  PROVE  ~Pending(f)
BY DEF Readable, Obstacles, Pending

LEMMA SaveFeedbackProgress ==
  ASSUME Inv, NEW f \in Feedbacks, unacked = <<f>>, SaveFeedback
  PROVE  Sound(f)'
<1>t. /\ Sound(f) /\ worker \in Worker
      /\ row \in [Feedbacks -> FeedbackStatus \cup {"none", "deleted"}]
  BY DEF Inv, TypeOK, AnalysisInv, Worker, WorkerPC, Verdict
<1>1. /\ UNCHANGED <<questions, talk, recreation, acked, unacked>> /\ At("finish")
      /\ row' = [row EXCEPT ![Current] = worker.verdict] /\ Goto("ack")
  BY DEF SaveFeedback, broker
<1>2. worker'.pc = "ack" /\ row'[f] = worker.verdict
  BY <1>t, <1>1 DEF Goto, Worker, Current
<1>3. worker.verdict \in {"ready", "error"} /\ f \notin acked
  BY <1>1, OneMessage DEF Inv, HandlersInv, Message, Current
<1>4. recreation[f] = "none" /\ worker.verdict = "ready" => Readable(f) /\ ~Pending(f)
  BY <1>t, <1>1, ReadableNotPending DEF Sound, Progress
<1>5. Readable(f)' <=> Readable(f)
  BY <1>1 DEF Readable, Obstacles
<1>6. Pending(f)' <=> Pending(f)
  BY <1>1 DEF Pending
<1>7. recreation[f] = "none" => Judged(f)'
  BY <1>2, <1>3, <1>4, <1>5 DEF Judged
<1>8. recreation[f] = "none" => Progress(f)'
  BY <1>2, <1>7 DEF Progress, At
<1>9. QED
  BY <1>1, <1>2, <1>3, <1>4, <1>6, <1>8 DEF Sound

LEMMA AckProgress ==
  ASSUME Inv, NEW f \in Feedbacks, unacked = <<f>>, Ack
  PROVE  Sound(f)'
<1>1. /\ UNCHANGED <<row, questions, talk, recreation>> /\ At("ack")
      /\ unacked' = <<>>
  BY DEF Ack, rows
<1>2. Sound(f)
  BY DEF Inv, AnalysisInv
<1>3. recreation[f] = "none" => Judged(f) /\ (row[f] = "ready" => ~Pending(f))
  BY <1>1, <1>2 DEF Sound, Progress
<1>4. QED
  BY <1>1, <1>3 DEF Sound, Judged, Pending, Readable, Obstacles

LEMMA WorkSound ==
  ASSUME Inv, NEW f \in Feedbacks, Work
  PROVE  Sound(f)'
<1>s. Sound(f) /\ HandlersInv /\ TypeOK
  BY DEF Inv, AnalysisInv
<1>1. CASE Deliver
  <2>1. /\ UNCHANGED <<row, questions, talk, recreation, acked>>
        /\ worker'.pc = "load"
    BY <1>1, <1>s DEF Deliver, Goto, TypeOK, rows
  <2>2. QED
    BY <1>s, <2>1 DEF Sound, Judged, Pending, Readable, Obstacles, Progress, At
<1>2. CASE AverageOfNothing
  BY <1>2, <1>s, Unaffected DEF AverageOfNothing, Restart, rows
<1>3. CASE unacked = <<f>>
  BY <1>1, <1>2, <1>3, AnalyzeProgress, SaveQuestionProgress, JudgeProgress,
     SaveFeedbackProgress, AckProgress DEF Work
<1>4. CASE unacked # <<f>>
  <2>1. CASE LoadFeedback \/ AnalyzeQuestion \/ ReloadFeedback \/ JudgeFeedback
    <3>1. UNCHANGED <<row, questions, talk, recreation, acked, unacked>>
      BY <2>1 DEF LoadFeedback, AnalyzeQuestion, ReloadFeedback, JudgeFeedback, rows, broker
    <3>2. QED
      BY <1>s, <1>4, <3>1, Unaffected
  <2>2. CASE SaveQuestion
    <3>1. PICK q : questions' = [questions EXCEPT ![Current][q] =
                                   IF @ = "deleted" THEN @ ELSE worker.verdict]
      BY <2>2 DEF SaveQuestion
    <3>2. unacked = <<Current>>
      BY <1>s, <2>2, OneMessage DEF SaveQuestion, HandlersInv, At
    <3>3. questions'[f] = questions[f]
      BY <1>s, <1>4, <3>1, <3>2 DEF TypeOK
    <3>4. UNCHANGED <<row, talk, recreation, acked, unacked>>
      BY <2>2 DEF SaveQuestion, broker
    <3>5. QED
      BY <1>s, <1>4, <3>3, <3>4, Unaffected
  <2>3. CASE SaveFeedback
    <3>1. unacked = <<Current>>
      BY <1>s, <2>3, OneMessage DEF SaveFeedback, HandlersInv, At
    <3>2. row'[f] = row[f]
      BY <1>s, <1>4, <2>3, <3>1 DEF SaveFeedback, TypeOK
    <3>3. UNCHANGED <<questions, talk, recreation, acked, unacked>>
      BY <2>3 DEF SaveFeedback, broker
    <3>4. QED
      BY <1>s, <1>4, <3>2, <3>3, Unaffected
  <2>4. CASE Ack
    <3>1. unacked = <<Current>>
      BY <1>s, <2>4, OneMessage DEF Ack, HandlersInv, At
    <3>2. f \in acked' => f \in acked
      BY <1>4, <2>4, <3>1 DEF Ack
    <3>3. UNCHANGED <<row, questions, talk, recreation>> /\ unacked' = <<>>
      BY <2>4 DEF Ack, rows
    <3>4. QED
      BY <1>s, <3>2, <3>3, Unaffected
  <2>5. QED
    BY <1>1, <1>2, <2>1, <2>2, <2>3, <2>4 DEF Work
<1>5. QED
  BY <1>3, <1>4

LEMMA AnalysisKept == ASSUME Inv, [Next]_vars PROVE AnalysisInv'
<1>1. SUFFICES ASSUME NEW f \in Feedbacks
               PROVE  Sound(f)'
  BY DEF AnalysisInv
<1>2. Sound(f)
  BY DEF Inv, AnalysisInv
<1>3. CASE Crash \/ ParseFailure
  <2>1. Restart
    BY <1>3 DEF Crash, ParseFailure
  <2>2. QED
    BY <1>2, <2>1, Unaffected DEF Restart, rows
<1>4. CASE FindExpired \/ UNCHANGED vars
  BY <1>2, <1>4, Unaffected DEF FindExpired, vars, rows, broker, process
<1>5. QED
  BY <1>3, <1>4, MeetingSound, WorkSound DEF Next, CleanUp

(* The messages at the broker: delivery and restart move them, publishing    *)
(* adds one, and only an acknowledgement takes one away.                     *)
LEMMA ReadyKept == ASSUME Inv, [Next]_vars PROVE ReadyHasMessage'
<1> DEFINE Broker == Requests!Elements(queue) \cup Requests!Elements(unacked)
<1>t. /\ ReadyHasMessage
      /\ row \in [Feedbacks -> FeedbackStatus \cup {"none", "deleted"}]
      /\ queue \in Seq(Feedbacks)
      /\ HandlersInv
  BY DEF Inv, TypeOK
<1>m. unacked # <<>> => /\ unacked = <<Current>> /\ Current \in Feedbacks
                        /\ Requests!Elements(unacked) = {Current}
  BY OneMessage, ElementsOfOne
<1>k. ASSUME \A f \in Feedbacks : row'[f] = "ready" => row[f] = "ready",
             Broker \cup acked \subseteq Broker' \cup acked'
      PROVE  ReadyHasMessage'
  BY <1>t, <1>k DEF ReadyHasMessage
<1>r. ASSUME Restart
      PROVE  ReadyHasMessage'
  <2>1. Broker \subseteq Requests!Elements(unacked \o queue)
    <3>1. CASE unacked = <<>>
      BY <1>t, <3>1, ElementsOfEmpty, ConcatEmptySeq
    <3>2. CASE unacked # <<>>
      <4>1. Requests!Elements(<<Current>> \o queue) = {Current} \cup Requests!Elements(queue)
        BY <1>t, <1>m, <3>2, PuttingBack
      <4>2. QED
        BY <1>m, <3>2, <4>1
    <3>3. QED
      BY <3>1, <3>2
  <2>2. queue' = unacked \o queue /\ UNCHANGED <<row, acked>>
    BY <1>r DEF Restart, rows
  <2>3. QED
    BY <1>k, <2>1, <2>2
<1>1. ASSUME NEW f \in Feedbacks,
             EndMeeting(f) \/ DeleteFeedback(f)
      PROVE  ReadyHasMessage'
  <2>1. UNCHANGED <<queue, unacked, acked>>
    BY <1>1 DEF EndMeeting, DeleteFeedback, broker
  <2>2. \A g \in Feedbacks : row'[g] = "ready" => row[g] = "ready"
    BY <1>t, <1>1 DEF EndMeeting, DeleteFeedback
  <2>3. QED
    BY <1>k, <2>1, <2>2
<1>2. ASSUME NEW f \in Feedbacks, sendToQueue(f)
      PROVE  ReadyHasMessage'
  <2>1. Requests!Elements(Append(queue, f)) = Requests!Elements(queue) \cup {f}
    BY <1>t, <1>2, ElementsOfAppend
  <2>2. QED
    BY <1>2, <1>k, <2>1 DEF sendToQueue, rows
<1>3. ASSUME NEW f \in Feedbacks,
             \/ Age(f) \/ MarkMeeting(f)
             \/ Recreate(f) \/ DeleteMeetingQuestions(f) \/ JoinAgain(f)
      PROVE  ReadyHasMessage'
  BY <1>k, <1>3 DEF Age, MarkMeeting, Recreate, DeleteMeetingQuestions, JoinAgain, broker
<1>4. CASE Deliver
  <2>1. /\ unacked = <<>> /\ queue # <<>> /\ unacked' = <<Head(queue)>> /\ queue' = Tail(queue)
        /\ UNCHANGED <<row, acked>>
    BY <1>4 DEF Deliver, rows
  <2>2. Requests!Elements(queue) = {Head(queue)} \cup Requests!Elements(Tail(queue))
    BY <1>t, <2>1, TakingTheFirst
  <2>3. Requests!Elements(unacked) = {} /\ Requests!Elements(<<Head(queue)>>) = {Head(queue)}
    BY <2>1, ElementsOfEmpty, ElementsOfOne
  <2>4. QED
    BY <1>k, <2>1, <2>2, <2>3
<1>5. CASE LoadFeedback \/ AnalyzeQuestion \/ ReloadFeedback \/ JudgeFeedback \/ SaveQuestion
  BY <1>k, <1>5 DEF LoadFeedback, AnalyzeQuestion, ReloadFeedback, JudgeFeedback, SaveQuestion,
                    rows, broker
<1>6. CASE SaveFeedback
  <2>1. unacked # <<>>
    BY <1>t, <1>6 DEF SaveFeedback, HandlersInv, At
  <2>2. /\ row' = [row EXCEPT ![Current] = worker.verdict]
        /\ UNCHANGED <<queue, unacked, acked>>
    BY <1>6 DEF SaveFeedback, broker
  <2>3. \A f \in Feedbacks : row'[f] = "ready" => row[f] = "ready" \/ f = Current
    BY <1>t, <2>2
  <2>4. QED
    BY <1>t, <1>m, <2>1, <2>2, <2>3 DEF ReadyHasMessage
<1>7. CASE Ack
  <2>1. unacked # <<>>
    BY <1>t, <1>7 DEF Ack, HandlersInv, At
  <2>2. /\ acked' = acked \cup {Current} /\ queue' = queue /\ unacked' = <<>>
        /\ UNCHANGED row
    BY <1>7 DEF Ack, rows
  <2>3. QED
    BY <1>k, <1>m, <2>1, <2>2
<1>8. CASE FindExpired \/ UNCHANGED vars
  BY <1>k, <1>8 DEF FindExpired, vars, rows, broker
<1>9. CASE Crash \/ ParseFailure \/ AverageOfNothing
  BY <1>r, <1>9 DEF Crash, ParseFailure, AverageOfNothing
<1>10. QED
  BY <1>1, <1>2, <1>3, <1>4, <1>5, <1>6, <1>7, <1>8, <1>9 DEF Next, Work, CleanUp

LEMMA InvInit == Init => Inv
<1>1. SUFFICES ASSUME Init PROVE Inv
  OBVIOUS
<1>2. TypeOK
  <2>1. worker \in Worker /\ cron \in [todo : SUBSET Feedbacks, gone : SUBSET Feedbacks]
    BY <1>1, IdleIsWorker DEF Init, IdleCron
  <2>2. crashes \in 0..MaxCrashes /\ Len(unacked) <= 1
    BY <1>1, CrashesAssumption DEF Init
  <2>3. questions \in [Feedbacks -> [Questions -> QuestionStatus]]
    BY <1>1 DEF Init, QuestionStatus
  <2>4. /\ row \in [Feedbacks -> FeedbackStatus \cup {"none", "deleted"}]
        /\ meeting \in [Feedbacks -> {"pending", "joined", "completed", "error"}]
        /\ talk \in [Feedbacks -> SUBSET Questions]
        /\ recreation \in [Feedbacks -> {"none", "wiped", "purged"}]
    BY <1>1 DEF Init
  <2>5. /\ queue \in Seq(Feedbacks) /\ unacked \in Seq(Feedbacks)
        /\ old = {} /\ unsent = {} /\ acked = {} /\ restarted = FALSE
    BY <1>1 DEF Init
  <2>6. QED
    BY <2>1, <2>2, <2>3, <2>4, <2>5 DEF TypeOK, Worker, WorkerPC, Verdict
<1>3. HandlersInv /\ BlockedOnlyByDeletion
  BY <1>1 DEF Init, HandlersInv, BlockedOnlyByDeletion, At, IdleWorker, IdleCron
<1>4. AnalysisInv /\ ReadyHasMessage
  BY <1>1 DEF Init, AnalysisInv, Sound, ReadyHasMessage
<1>5. ContractInv
  BY <1>1, InitRefines, Initially
<1>6. QED
  BY <1>2, <1>3, <1>4, <1>5 DEF Inv

LEMMA InvNext == Inv /\ [Next]_vars => Inv'
<1>1. SUFFICES ASSUME Inv, [Next]_vars PROVE Inv'
  OBVIOUS
<1>2. QED
  BY <1>1, TypeNext, HandlersKept, AnalysisKept, ReadyKept, ContractKept DEF Inv

-----------------------------------------------------------------------------
(* Theorems *)

LEMMA InvariantHolds == Spec => []Inv
BY InvInit, InvNext, PTL DEF Spec

(* Every variable of the consumer, the broker and the cron job keeps its     *)
(* type; no more than one message is out.                                    *)
THEOREM TypeCorrect == Spec => []TypeOK
<1>1. Inv => TypeOK
  BY DEF Inv
<1>2. QED
  BY <1>1, InvariantHolds, PTL

(* The consumer with its restarts and second deliveries, the cron job and    *)
(* the recruiter do with rows and messages only what FeedbackRequests allows *)
(* (analyzeAssessment, finalizeFeedback, handleFeedbackCleanup).             *)
THEOREM AnalysisImplementsRequests == Spec => ImplementsRequests
<1>1. Inv /\ [Next]_vars => [Requests!Next]_(Requests!vars)
  BY NextRefines
<1>2. QED
  BY <1>1, InitRefines, InvariantHolds, PTL DEF Spec, ImplementsRequests, Requests!Spec

(* Whatever is delivered again and whatever is deleted meanwhile, the        *)
(* consumer gets stuck on a message only if its feedback was deleted         *)
(* (analyzeAssessment returns without an acknowledgement).                   *)
THEOREM BlockedOnlyWhenDeleted == Spec => []BlockedOnlyByDeletion
<1>1. Inv => BlockedOnlyByDeletion
  BY DEF Inv
<1>2. QED
  BY <1>1, InvariantHolds, PTL

(* A message is acknowledged only for a feedback that is resolved, has a     *)
(* pending question or belongs to a recreated meeting (finalizeFeedback).    *)
THEOREM AcknowledgedIsResolved == Spec => []AckedIsResolved
<1>1. Inv => AckedIsResolved
  <2>1. SUFFICES ASSUME Inv, NEW f \in acked, row[f] = "preparing", recreation[f] = "none"
                 PROVE  \E q \in Questions : questions[f][q] = "pending"
    BY DEF AckedIsResolved
  <2>2. f \in Feedbacks /\ Sound(f)
    BY <2>1 DEF Inv, TypeOK, AnalysisInv
  <2>3. QED
    BY <2>1, <2>2 DEF Sound, Judged, Pending
<1>2. QED
  BY <1>1, InvariantHolds, PTL

(* A feedback shown as ready once its message is done with can be read: no   *)
(* spoken question is left out or in error (getAssessmentMeetingFeedback).   *)
THEOREM ReadyCanBeRead == Spec => []ReadyIsReadable
<1>1. Inv => ReadyIsReadable
  <2>1. SUFFICES ASSUME Inv, NEW f \in Feedbacks, row[f] = "ready", recreation[f] = "none",
                        ~(\E i \in DOMAIN queue : queue[i] = f),
                        ~(\E i \in DOMAIN unacked : unacked[i] = f)
                 PROVE  Readable(f)
    BY DEF ReadyIsReadable, Readable
  <2>2. f \in acked
    BY <2>1 DEF Inv, ReadyHasMessage, Requests!Elements
  <2>3. QED
    BY <2>1, <2>2 DEF Inv, AnalysisInv, Sound, Judged
<1>2. QED
  BY <1>1, InvariantHolds, PTL

(* The message of a feedback is in one place: neither a second delivery nor  *)
(* a restart gets it queued twice, or delivered after its acknowledgement    *)
(* (sendToQueue, and the consumer of RabbitMQService).                       *)
THEOREM InOnePlace == Spec => []Requests!OnePlace
<1>1. Inv => Requests!OnePlace
  BY DEF Inv, ContractInv
<1>2. QED
  BY <1>1, InvariantHolds, PTL

(* Unless the process stopped, the message of a feedback in preparation is   *)
(* somewhere (sendToQueue publishes it; analyzeAssessment acknowledges it).  *)
THEOREM NeverForgotten == Spec => []Requests!NoneForgotten
<1>1. Inv => Requests!NoneForgotten
  BY DEF Inv, ContractInv
<1>2. QED
  BY <1>1, InvariantHolds, PTL
=============================================================================
