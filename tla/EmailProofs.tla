----------------------------- MODULE EmailProofs -----------------------------
(* Proofs about EmailDelivery, for any meetings, requests, passwords and     *)
(* crashes: emails come in the order of their passwords, none ahead of the   *)
(* stored one, and the last one opens the meeting.                           *)
EXTENDS EmailDelivery, TLAPS

(* What is on its way to a candidate *)

LastIs(seq, m, p) ==
  \E i \in DOMAIN seq :
    /\ seq[i].meeting = m /\ seq[i].password = p
    /\ \A j \in DOMAIN seq : j > i => seq[j].meeting # m
NoneFor(seq, m) == \A i \in DOMAIN seq : seq[i].meeting # m

(* No password is larger than those generated; a message has one.            *)
PasswordsIssued ==
  /\ \A m \in Meetings : meetings[m].password <= issued
  /\ \A r \in Requests :
       /\ frame[r].password <= issued
       /\ frame[r].pc \in {"insert", "update", "save", "questions", "send"} =>
            frame[r].password > 0
       /\ frame[r].pc # "idle" => frame[r].meeting \in Meetings
  /\ \A i \in DOMAIN unsent : unsent[i].password <= issued
  /\ \A i \in DOMAIN queue : queue[i].password <= issued

(* A request that overlaps with none still agrees with the row it read, but  *)
(* for the new password before it is stored.                                 *)
Alone(m) == \A r, q \in Requests : frame[r].meeting = m /\ frame[q].meeting = m => r = q

FrameAgrees(r, m) ==
  /\ frame[r].pc \in {"insert", "update", "save"} => frame[r].password >= meetings[m].password
  /\ frame[r].pc \in {"questions", "send", "join", "upload"} =>
       frame[r].password = meetings[m].password
  /\ frame[r].pc = "join" => meetings[m].status # "none"
  /\ frame[r].pc = "upload" => frame[r].status = meetings[m].status

RequestsAgree ==
  \A m \in Meetings \ overlapped :
    /\ Alone(m)
    /\ \A r \in Requests : frame[r].meeting = m => FrameAgrees(r, m)

(* What was issued was stored before. *)
MailFollows ==
  \A m \in Meetings \ overlapped :
    /\ \A i \in DOMAIN unsent : unsent[i].meeting = m => unsent[i].password <= meetings[m].password
    /\ \A i \in DOMAIN queue : queue[i].meeting = m => queue[i].password <= meetings[m].password
    /\ \A i \in DOMAIN inbox[m] : inbox[m][i] <= meetings[m].password

(* The last message for m that was issued and not lost has its password.     *)
OnItsWay(m, p) ==
  \/ LastIs(unsent, m, p)
  \/ NoneFor(unsent, m) /\ LastIs(queue, m, p)
  \/ NoneFor(unsent, m) /\ NoneFor(queue, m) /\ inbox[m] # <<>> /\ inbox[m][Len(inbox[m])] = p

Mailing(m) == \E r \in Requests : frame[r].meeting = m /\ frame[r].pc \in {"questions", "send"}

LastIsMailed ==
  \A m \in Meetings \ (lost \cup overlapped) :
    meetings[m].status # "none" /\ ~ Mailing(m) => OnItsWay(m, meetings[m].password)

(* What the consumer is about to acknowledge is the last its candidate got.  *)
SentIsLast ==
  consumer = "sent" =>
    LET m == queue[1].meeting
    IN m \notin lost => inbox[m] # <<>> /\ inbox[m][Len(inbox[m])] = queue[1].password

TypeInv == TypeOK /\ PasswordsIssued

-----------------------------------------------------------------------------
(* Sequences of messages *)

LEMMA TailShifts ==
  ASSUME NEW S, NEW s \in Seq(S), s # <<>>
  PROVE  /\ Tail(s) \in Seq(S) /\ Head(s) = s[1] /\ 1 \in DOMAIN s /\ s[1] \in S
         /\ \A i \in DOMAIN Tail(s) : i \in Nat /\ i + 1 \in DOMAIN s /\ Tail(s)[i] = s[i + 1]
         /\ \A i \in DOMAIN s : i \in Nat /\ (i # 1 => i - 1 \in DOMAIN Tail(s))
OBVIOUS

LEMMA AppendAdds ==
  ASSUME NEW S, NEW s \in Seq(S), NEW x \in S
  PROVE  /\ Append(s, x) \in Seq(S) /\ Append(s, x) # <<>>
         /\ Len(s) \in Nat /\ Len(Append(s, x)) = Len(s) + 1
         /\ DOMAIN Append(s, x) = DOMAIN s \cup {Len(s) + 1}
         /\ Append(s, x)[Len(s) + 1] = x
         /\ \A i \in DOMAIN s : i \in Nat /\ i <= Len(s) /\ Append(s, x)[i] = s[i]
OBVIOUS

LEMMA LastOfTail ==
  ASSUME NEW s \in Seq(Message), s # <<>>, NEW m, NEW p, LastIs(s, m, p)
  PROVE  \/ LastIs(Tail(s), m, p)
         \/ NoneFor(Tail(s), m) /\ s[1].meeting = m /\ s[1].password = p
<1>1. PICK i \in DOMAIN s :
        /\ s[i].meeting = m /\ s[i].password = p
        /\ \A j \in DOMAIN s : j > i => s[j].meeting # m
  BY DEF LastIs
<1>2. /\ \A j \in DOMAIN Tail(s) : j \in Nat /\ j + 1 \in DOMAIN s /\ Tail(s)[j] = s[j + 1]
      /\ \A j \in DOMAIN s : j \in Nat /\ (j # 1 => j - 1 \in DOMAIN Tail(s))
  BY TailShifts
<1>3. CASE i = 1
  <2>1. NoneFor(Tail(s), m)
    BY <1>1, <1>2, <1>3 DEF NoneFor
  <2>2. QED
    BY <1>1, <1>3, <2>1
<1>4. CASE i # 1
  <2>1. /\ i - 1 \in DOMAIN Tail(s) /\ Tail(s)[i - 1] = s[i]
        /\ \A j \in DOMAIN Tail(s) : j > i - 1 => Tail(s)[j].meeting # m
    BY <1>1, <1>2, <1>4
  <2>2. LastIs(Tail(s), m, p)
    BY <1>1, <2>1 DEF LastIs
  <2>3. QED
    BY <2>2
<1>5. QED
  BY <1>3, <1>4

LEMMA LastAndNone ==
  ASSUME NEW s, NEW m, NEW p
  PROVE  ~ (LastIs(s, m, p) /\ NoneFor(s, m))
BY DEF LastIs, NoneFor

LEMMA NoneOfTail ==
  ASSUME NEW s \in Seq(Message), s # <<>>, NEW m, NoneFor(s, m)
  PROVE  NoneFor(Tail(s), m) /\ s[1].meeting # m
BY TailShifts DEF NoneFor

LEMMA LastOfAppend ==
  ASSUME NEW s \in Seq(Message), NEW x \in Message, NEW m, NEW p
  PROVE  /\ x.meeting # m /\ LastIs(s, m, p) => LastIs(Append(s, x), m, p)
         /\ x.meeting # m /\ NoneFor(s, m) => NoneFor(Append(s, x), m)
         /\ x.meeting = m /\ x.password = p => LastIs(Append(s, x), m, p)
<1>1. /\ Len(s) \in Nat
      /\ DOMAIN Append(s, x) = DOMAIN s \cup {Len(s) + 1}
      /\ Append(s, x)[Len(s) + 1] = x
      /\ \A i \in DOMAIN s : i \in Nat /\ i <= Len(s) /\ Append(s, x)[i] = s[i]
  BY AppendAdds
<1>2. ASSUME x.meeting # m, LastIs(s, m, p)
      PROVE  LastIs(Append(s, x), m, p)
  <2>1. PICK i \in DOMAIN s :
          /\ s[i].meeting = m /\ s[i].password = p
          /\ \A j \in DOMAIN s : j > i => s[j].meeting # m
    BY <1>2 DEF LastIs
  <2>2. /\ i \in DOMAIN Append(s, x) /\ Append(s, x)[i] = s[i]
        /\ \A j \in DOMAIN Append(s, x) : j > i => Append(s, x)[j].meeting # m
    BY <1>1, <1>2, <2>1
  <2>3. QED
    BY <2>1, <2>2 DEF LastIs
<1>3. ASSUME x.meeting # m, NoneFor(s, m)
      PROVE  NoneFor(Append(s, x), m)
  BY <1>1, <1>3 DEF NoneFor
<1>4. ASSUME x.meeting = m, x.password = p
      PROVE  LastIs(Append(s, x), m, p)
  <2>1. \A j \in DOMAIN Append(s, x) : ~ (j > Len(s) + 1)
    BY <1>1
  <2>2. QED
    BY <1>1, <1>4, <2>1 DEF LastIs
<1>5. QED
  BY <1>2, <1>3, <1>4

LEMMA SeqGrows ==
  ASSUME NEW n \in Nat, NEW s \in Seq(1..n)
  PROVE  s \in Seq(1..(n + 1))
<1>1. s \in [1..Len(s) -> 1..(n + 1)] /\ Len(s) \in Nat
  OBVIOUS
<1>2. QED
  BY <1>1

-----------------------------------------------------------------------------
(* Type correctness, and passwords among those generated *)

LEMMA IdleIsFrame == Idle \in Frame /\ Idle.pc = "idle" /\ Idle.password = 0 /\ Idle.meeting = None
BY DEF Idle, Frame

LEMMA RowsTyped ==
  ASSUME TypeOK
  PROVE  /\ \A m \in Meetings : meetings[m].password \in Nat
         /\ \A i \in DOMAIN unsent : unsent[i] \in Message /\ unsent[i].password \in Nat
         /\ \A i \in DOMAIN queue : queue[i] \in Message /\ queue[i].password \in Nat
         /\ \A r \in Requests : frame[r].password \in Nat
<1>1. /\ \A i \in DOMAIN unsent : unsent[i] \in Message
      /\ \A i \in DOMAIN queue : queue[i] \in Message
  BY DEF TypeOK
<1>2. \A x \in Message : x.password \in Nat
  BY DEF Message
<1>3. QED
  BY <1>1, <1>2 DEF TypeOK, Meeting, Frame

FrameOf(pc, m, status, password) ==
  [pc |-> pc, meeting |-> m, status |-> status, password |-> password]
BeginPCs == {"insert", "update", "save", "join", "upload"}
Statuses == {"none", "pending", "joined"}

LEMMA TypeBegin ==
  ASSUME TypeInv, NEW r \in Requests, NEW m \in Meetings, NEW pc \in BeginPCs,
         NEW status \in Statuses, NEW password \in Nat, Begin(r, m, pc, status, password),
         issued' = issued \/ issued' = issued + 1, password <= issued',
         pc \in {"insert", "update", "save"} => password > 0
  PROVE  TypeInv'
<1> USE DEF TypeInv
<1> DEFINE f == FrameOf(pc, m, status, password)
<1>1. /\ f \in Frame /\ f.pc = pc /\ f.meeting = m /\ f.password = password
  BY DEF Frame, FrameOf, BeginPCs, Statuses
<1>2. frame' = [frame EXCEPT ![r] = f]
  BY DEF Begin, FrameOf
<1> HIDE DEF f
<1>3. /\ UNCHANGED <<meetings, unsent, queue, consumer, inbox, lost, signedIn, crashes>>
      /\ overlapped' \subseteq Meetings
  BY DEF Begin, delivery, TypeOK
<1>4. frame' \in [Requests -> Frame]
  BY <1>1, <1>2 DEF TypeOK
<1>5. issued \in Nat /\ issued' \in Nat /\ issued <= issued'
  BY DEF TypeOK
<1>6. inbox' \in [Meetings -> Seq(1..issued')]
  <2>1. \A x \in Meetings : inbox[x] \in Seq(1..issued')
    BY <1>5, SeqGrows DEF TypeOK
  <2>2. QED
    BY <1>3, <2>1 DEF TypeOK
<1>7. TypeOK'
  BY <1>3, <1>4, <1>5, <1>6 DEF TypeOK
<1>8. PasswordsIssued'
  <2>1. \A q \in Requests :
          /\ frame'[q].password <= issued'
          /\ frame'[q].pc \in {"insert", "update", "save", "questions", "send"} =>
               frame'[q].password > 0
          /\ frame'[q].pc # "idle" => frame'[q].meeting \in Meetings
    <3>1. ASSUME NEW q \in Requests, q # r
          PROVE  frame'[q] = frame[q] /\ frame[q].password \in Nat
      BY <1>2, <3>1 DEF TypeOK, Frame
    <3>2. frame'[r] = f
      BY <1>2 DEF TypeOK
    <3>3. QED
      BY <1>1, <1>5, <3>1, <3>2 DEF PasswordsIssued, BeginPCs
  <2>2. /\ \A x \in Meetings : meetings[x].password \in Nat
        /\ \A i \in DOMAIN unsent : unsent[i].password \in Nat
        /\ \A i \in DOMAIN queue : queue[i].password \in Nat
    BY RowsTyped
  <2>3. QED
    BY <1>3, <1>5, <2>1, <2>2 DEF PasswordsIssued
<1>9. QED
  BY <1>7, <1>8

(* What each of the requests begins with. *)
LEMMA Beginnings ==
  ASSUME TypeInv, NEW r \in Requests, NEW m \in Meetings,
         \/ Create(r, m) \/ Recreate(r, m) \/ resendAssessmentEmail(r, m)
         \/ joinAssessmentMeeting(r, m) \/ uploadMeetingVideo(r, m)
  PROVE  \E pc \in BeginPCs, status \in Statuses, password \in Nat :
           /\ Begin(r, m, pc, status, password)
           /\ issued' = issued \/ issued' = issued + 1
           /\ password <= issued'
           /\ pc \in {"insert", "update", "save"} => password > 0 /\ password >= meetings[m].password
           /\ pc \in {"join", "upload"} => password = meetings[m].password
           /\ pc = "join" => meetings[m].status # "none"
           /\ pc = "upload" => status = meetings[m].status
<1>1. /\ issued \in Nat /\ meetings[m].password \in Nat /\ meetings[m].password <= issued
      /\ meetings[m].status \in Statuses
  BY DEF TypeInv, TypeOK, PasswordsIssued, Meeting, Statuses
<1>2. ASSUME NEW pc \in {"insert", "update", "save"}, Start(r, m, pc)
      PROVE  /\ Begin(r, m, pc, "pending", issued + 1) /\ issued' = issued + 1
             /\ pc \in BeginPCs /\ "pending" \in Statuses /\ issued + 1 \in Nat
             /\ issued + 1 > 0 /\ issued + 1 >= meetings[m].password
  BY <1>1, <1>2 DEF Start, BeginPCs, Statuses
<1>3. CASE Create(r, m) \/ Recreate(r, m) \/ resendAssessmentEmail(r, m)
  <2>1. PICK pc \in {"insert", "update", "save"} : Start(r, m, pc)
    BY <1>3 DEF Create, Recreate, resendAssessmentEmail
  <2>2. QED
    BY <1>1, <1>2, <2>1
<1>4. CASE joinAssessmentMeeting(r, m)
  BY <1>1, <1>4 DEF joinAssessmentMeeting, BeginPCs, Statuses
<1>5. CASE uploadMeetingVideo(r, m)
  BY <1>1, <1>5 DEF uploadMeetingVideo, BeginPCs
<1>6. QED
  BY <1>3, <1>4, <1>5

(* A request goes on: its frame moves, with what it holds, or is given up.   *)
LEMMA TypeMoves ==
  ASSUME TypeInv, NEW r \in Requests,
         \/ \E pc \in {"questions", "send"} : At(r, "insert") /\ Goto(r, pc)
         \/ \E pc \in {"questions", "send"} : At(r, "update") /\ Goto(r, pc)
         \/ \E pc \in {"questions", "send"} : At(r, "save") /\ Goto(r, pc)
         \/ At(r, "questions") /\ Goto(r, "send")
         \/ Return(r),
         issued' = issued
  PROVE  /\ frame' \in [Requests -> Frame]
         /\ \A q \in Requests :
              /\ frame'[q].password <= issued'
              /\ frame'[q].pc \in {"insert", "update", "save", "questions", "send"} =>
                   frame'[q].password > 0
              /\ frame'[q].pc # "idle" => frame'[q].meeting \in Meetings
<1>0. frame \in [Requests -> Frame] /\ issued \in Nat
  BY DEF TypeInv, TypeOK
<1>1. CASE Return(r)
  <2>1. frame' = [frame EXCEPT ![r] = Idle]
    BY <1>1 DEF Return
  <2>2. frame' \in [Requests -> Frame]
    BY <1>0, <2>1, IdleIsFrame
  <2>3. \A q \in Requests : frame'[q] = IF q = r THEN Idle ELSE frame[q]
    BY <1>0, <2>1
  <2>4. QED
    BY <1>0, <2>2, <2>3, IdleIsFrame DEF TypeInv, PasswordsIssued
<1>2. CASE ~ Return(r)
  <2>1. PICK pc \in {"questions", "send"} :
          Goto(r, pc) /\ frame[r].pc \in {"insert", "update", "save", "questions"}
    BY <1>2 DEF At
  <2>2. frame' = [frame EXCEPT ![r].pc = pc]
    BY <2>1 DEF Goto
  <2>3. frame' \in [Requests -> Frame]
    BY <1>0, <2>2 DEF Frame
  <2>4. /\ frame'[r].pc = pc /\ frame'[r].meeting = frame[r].meeting
        /\ frame'[r].password = frame[r].password
        /\ \A q \in Requests : q # r => frame'[q] = frame[q]
    BY <1>0, <2>2 DEF Frame
  <2>5. QED
    BY <2>1, <2>3, <2>4 DEF TypeInv, PasswordsIssued
<1>3. QED
  BY <1>1, <1>2

LEMMA TypeContinue ==
  ASSUME TypeInv, NEW r \in Requests, Continue(r)
  PROVE  TypeInv'
<1>0. /\ UNCHANGED <<issued, queue, consumer, inbox, lost, overlapped, signedIn, crashes>>
      /\ frame[r] \in Frame /\ frame[r].password <= issued /\ issued \in Nat
      /\ frame[r].password \in Nat /\ frame[r].status \in Statuses
  BY DEF TypeInv, TypeOK, PasswordsIssued, Frame, Statuses, Continue, InsertMeeting, UpdateMeeting,
     DeleteQuestions, SaveMeeting, SendEmail, SaveJoined, SaveVideo, Store, delivery
<1>1. /\ frame' \in [Requests -> Frame]
      /\ \A q \in Requests :
           /\ frame'[q].password <= issued'
           /\ frame'[q].pc \in {"insert", "update", "save", "questions", "send"} =>
                frame'[q].password > 0
           /\ frame'[q].pc # "idle" => frame'[q].meeting \in Meetings
  BY <1>0, TypeMoves DEF Continue, InsertMeeting, UpdateMeeting, DeleteQuestions, SaveMeeting,
     SendEmail, SaveJoined, SaveVideo
<1>2. /\ meetings' \in [Meetings -> Meeting]
      /\ \A m \in Meetings : meetings'[m].password <= issued
  <2>t. meetings \in [Meetings -> Meeting] /\ \A m \in Meetings : meetings[m].password <= issued
    BY DEF TypeInv, TypeOK, PasswordsIssued
  <2>1. CASE Store(r)
    <3>1. meetings' = [meetings EXCEPT ![frame[r].meeting].status = frame[r].status,
                                       ![frame[r].meeting].password = frame[r].password]
      BY <2>1 DEF Store
    <3>2. QED
      BY <1>0, <2>t, <3>1 DEF Meeting, Statuses
  <2>2. CASE SaveJoined(r)
    BY <1>0, <2>t, <2>2 DEF SaveJoined, Meeting
  <2>3. CASE DeleteQuestions(r) \/ SendEmail(r)
    BY <2>t, <2>3 DEF DeleteQuestions, SendEmail
  <2>4. QED
    BY <2>1, <2>2, <2>3 DEF Continue, InsertMeeting, UpdateMeeting, SaveMeeting, SaveVideo
<1>3. /\ unsent' \in Seq(Message)
      /\ \A i \in DOMAIN unsent' : unsent'[i].password <= issued
  <2>t. unsent \in Seq(Message) /\ \A i \in DOMAIN unsent : unsent[i].password <= issued
    BY DEF TypeInv, TypeOK, PasswordsIssued
  <2>1. CASE SendEmail(r)
    <3> DEFINE x == [meeting |-> frame[r].meeting, password |-> frame[r].password]
    <3>1. frame[r].pc = "send" /\ unsent' = Append(unsent, x)
      BY <2>1 DEF SendEmail, At
    <3>2. x \in Message /\ x.password <= issued
      BY <1>0, <3>1 DEF Message, TypeInv, PasswordsIssued
    <3> HIDE DEF x
    <3>3. QED
      BY <2>t, <3>1, <3>2, AppendAdds
  <2>2. CASE ~ SendEmail(r)
    BY <2>t, <2>2 DEF Continue, InsertMeeting, UpdateMeeting, DeleteQuestions, SaveMeeting,
       SaveJoined, SaveVideo, Store
  <2>3. QED
    BY <2>1, <2>2
<1>4. TypeOK'
  BY <1>0, <1>1, <1>2, <1>3 DEF TypeInv, TypeOK
<1>5. PasswordsIssued'
  BY <1>0, <1>1, <1>2, <1>3 DEF TypeInv, PasswordsIssued
<1>6. QED
  BY <1>4, <1>5 DEF TypeInv

LEMMA TypeBackground ==
  ASSUME TypeInv,
         \/ \E m \in Meetings : candidate_signIn(m)
         \/ \E c \in Candidates : signOut(c)
         \/ sendToQueue \/ Consume \/ Crash \/ UNCHANGED vars
  PROVE  TypeInv'
<1> USE DEF TypeInv
<1>0. queue # <<>> =>
        /\ Tail(queue) \in Seq(Message) /\ Head(queue) = queue[1] /\ queue[1] \in Message
        /\ 1 \in DOMAIN queue
        /\ \A i \in DOMAIN Tail(queue) : Tail(queue)[i].password <= issued
  BY TailShifts DEF TypeOK, PasswordsIssued
<1>1. CASE \/ \E m \in Meetings : candidate_signIn(m)
           \/ \E c \in Candidates : signOut(c)
           \/ Deliver \/ UNCHANGED vars
  <2>1. /\ UNCHANGED <<meetings, issued, unsent, queue, inbox, lost, overlapped, frame, crashes>>
        /\ consumer' # consumer => consumer' = "timer" /\ queue # <<>>
    BY <1>1 DEF candidate_signIn, signOut, Deliver, vars, delivery
  <2>s. signedIn' \subseteq Candidates
    <3>1. \A m \in Meetings : CandidateOf[m] \in Candidates
      BY DEF Candidates
    <3>2. signedIn \subseteq Candidates
      BY DEF TypeOK
    <3>3. QED
      BY <1>1, <3>1, <3>2 DEF candidate_signIn, signOut, Deliver, vars
  <2>2. TypeOK' /\ PasswordsIssued'
    BY <2>1, <2>s DEF TypeOK, PasswordsIssued
  <2>3. QED
    BY <2>2
<1>2. CASE sendToQueue
  <2>1. /\ unsent # <<>> /\ queue' = Append(queue, unsent[1]) /\ unsent' = Tail(unsent)
        /\ UNCHANGED <<meetings, issued, consumer, inbox, lost, frame, overlapped, signedIn, crashes>>
    BY <1>2 DEF sendToQueue
  <2>2. /\ unsent' \in Seq(Message) /\ unsent[1] \in Message /\ unsent[1].password <= issued
        /\ \A i \in DOMAIN unsent' : unsent'[i].password <= issued
    BY <2>1, TailShifts DEF TypeOK, PasswordsIssued
  <2>3. /\ queue' \in Seq(Message) /\ queue' # <<>>
        /\ \A i \in DOMAIN queue' : queue'[i].password <= issued
    BY <2>1, <2>2, AppendAdds DEF TypeOK, PasswordsIssued
  <2>4. TypeOK' /\ PasswordsIssued'
    BY <2>1, <2>2, <2>3 DEF TypeOK, PasswordsIssued
  <2>5. QED
    BY <2>4
<1>3. CASE sendAssessmentEmail
  <2>1. /\ queue # <<>> /\ consumer' = "sent"
        /\ inbox' = [inbox EXCEPT ![queue[1].meeting] = Append(@, queue[1].password)]
        /\ UNCHANGED <<meetings, issued, unsent, queue, lost, frame, overlapped, signedIn, crashes>>
    BY <1>0, <1>3 DEF sendAssessmentEmail, TypeOK
  <2>2. queue[1].meeting \in Meetings /\ queue[1].password \in 1..issued
    <3>1. queue[1] \in Message /\ queue[1].password <= issued /\ issued \in Nat
      BY <1>0, <2>1 DEF TypeOK, PasswordsIssued
    <3>2. QED
      BY <3>1 DEF Message
  <2>3. inbox' \in [Meetings -> Seq(1..issued)]
    <3>1. Append(inbox[queue[1].meeting], queue[1].password) \in Seq(1..issued)
      BY <2>2, AppendAdds DEF TypeOK
    <3>2. QED
      BY <2>1, <2>2, <3>1 DEF TypeOK
  <2>4. TypeOK' /\ PasswordsIssued'
    BY <2>1, <2>3 DEF TypeOK, PasswordsIssued
  <2>5. QED
    BY <2>4
<1>4. CASE Refuse
  <2>1. /\ queue # <<>> /\ consumer' = "sent" /\ lost' = lost \cup {queue[1].meeting}
        /\ UNCHANGED <<meetings, issued, unsent, queue, inbox, frame, overlapped, signedIn, crashes>>
    BY <1>0, <1>4 DEF Refuse, TypeOK
  <2>2. queue[1].meeting \in Meetings
    BY <1>0, <2>1 DEF Message
  <2>3. TypeOK' /\ PasswordsIssued'
    BY <2>1, <2>2 DEF TypeOK, PasswordsIssued
  <2>4. QED
    BY <2>3
<1>5. CASE Ack
  <2>1. /\ queue # <<>> /\ consumer' = "idle" /\ queue' = Tail(queue)
        /\ UNCHANGED <<meetings, issued, unsent, inbox, lost, frame, overlapped, signedIn, crashes>>
    BY <1>5 DEF Ack, TypeOK
  <2>2. TypeOK' /\ PasswordsIssued'
    BY <1>0, <2>1 DEF TypeOK, PasswordsIssued
  <2>3. QED
    BY <2>2
<1>6. CASE Crash
  <2>1. /\ unsent' = <<>> /\ frame' = [r \in Requests |-> Idle] /\ consumer' = "idle"
        /\ crashes' = crashes + 1 /\ crashes < MaxCrashes
        /\ lost' = lost \cup {unsent[i].meeting : i \in DOMAIN unsent}
                        \cup {m \in Meetings : \E r \in Requests : frame[r].meeting = m}
        /\ UNCHANGED <<meetings, issued, queue, inbox, overlapped, signedIn>>
    BY <1>6 DEF Crash
  <2>2. lost' \subseteq Meetings
    <3>1. \A i \in DOMAIN unsent : unsent[i].meeting \in Meetings
      <4>1. \A i \in DOMAIN unsent : unsent[i] \in Message
        BY RowsTyped
      <4>2. QED
        BY <4>1 DEF Message
    <3>2. QED
      BY <2>1, <3>1 DEF TypeOK
  <2>3. frame' \in [Requests -> Frame] /\ unsent' \in Seq(Message) /\ crashes' \in 0..MaxCrashes
    BY <2>1, IdleIsFrame, BoundsAssumption DEF TypeOK
  <2>4. TypeOK'
    BY <2>1, <2>2, <2>3 DEF TypeOK
  <2>5. PasswordsIssued'
    <3>1. issued \in Nat
      BY DEF TypeOK
    <3>2. \A r \in Requests : frame'[r] = Idle
      BY <2>1
    <3>3. DOMAIN unsent' = {}
      BY <2>1
    <3>4. QED
      BY <2>1, <3>1, <3>2, <3>3, IdleIsFrame DEF PasswordsIssued
  <2>6. QED
    BY <2>4, <2>5
<1>7. QED
  BY <1>1, <1>2, <1>3, <1>4, <1>5, <1>6 DEF Consume

LEMMA TypeInit == Init => TypeInv
<1> SUFFICES ASSUME Init PROVE TypeInv
  OBVIOUS
<1>1. TypeOK
  BY IdleIsFrame, BoundsAssumption DEF Init, TypeOK, Meeting
<1>2. PasswordsIssued
  BY IdleIsFrame DEF Init, PasswordsIssued
<1>3. QED
  BY <1>1, <1>2 DEF TypeInv

LEMMA TypeNext == TypeInv /\ [Next]_vars => TypeInv'
<1> SUFFICES ASSUME TypeInv, [Next]_vars
             PROVE  TypeInv'
  OBVIOUS
<1>1. ASSUME NEW r \in Requests, NEW m \in Meetings,
             \/ Create(r, m) \/ Recreate(r, m) \/ resendAssessmentEmail(r, m)
             \/ joinAssessmentMeeting(r, m) \/ uploadMeetingVideo(r, m)
      PROVE  TypeInv'
  BY <1>1, Beginnings, TypeBegin
<1>2. ASSUME NEW r \in Requests, Continue(r)
      PROVE  TypeInv'
  BY <1>2, TypeContinue
<1>3. QED
  BY <1>1, <1>2, TypeBackground DEF Next

(* Every variable keeps its type; that a password an email tells is one that *)
(* was generated needs that passwords are carried only after they were.      *)
THEOREM TypeCorrect == Spec => []TypeOK
<1>1. TypeInv => TypeOK
  BY DEF TypeInv
<1>2. QED
  BY <1>1, TypeInit, TypeNext, PTL DEF Spec

-----------------------------------------------------------------------------
(* Passwords are stored before they are mailed *)

StoredInv == TypeInv /\ RequestsAgree /\ MailFollows

(* What a request that goes on does: it touches its own meeting, and either  *)
(* has stored what it holds and stays, or has mailed it or stored it again   *)
(* and is done.                                                              *)
Stays(r, m) ==
  /\ frame[r].pc \in {"insert", "update", "save", "questions"}
  /\ frame'[r].pc \in {"questions", "send"}
  /\ frame'[r].meeting = m /\ frame'[r].password = frame[r].password
  /\ m \notin overlapped => meetings'[m].password = frame[r].password
  /\ unsent' = unsent
Mails(r, m) ==
  /\ frame[r].pc = "send" /\ frame'[r] = Idle
  /\ unsent' = Append(unsent, [meeting |-> m, password |-> frame[r].password])
  /\ meetings' = meetings
Restores(r, m) ==
  /\ frame[r].pc \in {"join", "upload"} /\ frame'[r] = Idle
  /\ m \notin overlapped =>
       /\ meetings'[m].password = meetings[m].password
       /\ meetings'[m].status # "none" => meetings[m].status # "none"
  /\ unsent' = unsent

LEMMA Effect ==
  ASSUME StoredInv, NEW r \in Requests, Continue(r)
  PROVE  LET m == frame[r].meeting
         IN /\ m \in Meetings
            /\ UNCHANGED <<issued, queue, consumer, inbox, lost, overlapped>>
            /\ \A q \in Requests : q # r => frame'[q] = frame[q]
            /\ \A x \in Meetings : x # m => meetings'[x] = meetings[x]
            /\ Stays(r, m) \/ Mails(r, m) \/ Restores(r, m)
<1> DEFINE m == frame[r].meeting
<1>0. /\ frame \in [Requests -> Frame] /\ meetings \in [Meetings -> Meeting]
  BY DEF StoredInv, TypeInv, TypeOK
<1>1. UNCHANGED <<issued, queue, consumer, inbox, lost, overlapped>>
  BY DEF Continue, InsertMeeting, UpdateMeeting, DeleteQuestions, SaveMeeting, SendEmail,
     SaveJoined, SaveVideo, Store, delivery
<1>2. frame[r].pc # "idle"
  BY DEF Continue, InsertMeeting, UpdateMeeting, DeleteQuestions, SaveMeeting, SendEmail,
     SaveJoined, SaveVideo, At
<1>3. m \in Meetings
  BY <1>2 DEF StoredInv, TypeInv, PasswordsIssued
<1>4. m \notin overlapped => FrameAgrees(r, m)
  BY <1>3 DEF StoredInv, RequestsAgree
<1>s. ASSUME Store(r)
      PROVE  /\ meetings'[m].password = frame[r].password
             /\ meetings'[m].status = frame[r].status
             /\ \A x \in Meetings : x # m => meetings'[x] = meetings[x]
             /\ unsent' = unsent
  <2>1. meetings' = [meetings EXCEPT ![m].status = frame[r].status,
                                     ![m].password = frame[r].password]
    BY <1>s DEF Store
  <2>2. /\ meetings'[m].password = frame[r].password
        /\ meetings'[m].status = frame[r].status
        /\ \A x \in Meetings : x # m => meetings'[x] = meetings[x]
    BY <1>0, <1>3, <2>1 DEF Meeting
  <2>3. QED
    BY <1>s, <2>2 DEF Store
<1>g. ASSUME NEW pc, Goto(r, pc)
      PROVE  /\ frame'[r].pc = pc /\ frame'[r].meeting = m
             /\ frame'[r].password = frame[r].password
             /\ \A q \in Requests : q # r => frame'[q] = frame[q]
  BY <1>0, <1>g DEF Goto, Frame
<1>r. ASSUME Return(r)
      PROVE  frame'[r] = Idle /\ \A q \in Requests : q # r => frame'[q] = frame[q]
  BY <1>0, <1>r DEF Return
<1> HIDE DEF m
<1>5. CASE InsertMeeting(r) \/ UpdateMeeting(r) \/ SaveMeeting(r)
  <2>1. /\ Store(r) /\ (Goto(r, "questions") \/ Goto(r, "send"))
        /\ frame[r].pc \in {"insert", "update", "save", "questions"}
    BY <1>5 DEF InsertMeeting, UpdateMeeting, SaveMeeting, At
  <2>2. Stays(r, m)
    BY <1>s, <1>g, <2>1 DEF Stays
  <2>3. QED
    BY <1>1, <1>3, <1>s, <1>g, <2>1, <2>2 DEF m
<1>6. CASE DeleteQuestions(r)
  <2>1. frame[r].pc = "questions" /\ Goto(r, "send") /\ UNCHANGED <<meetings, unsent>>
    BY <1>6 DEF DeleteQuestions, At
  <2>2. m \notin overlapped => meetings'[m].password = frame[r].password
    BY <1>4, <2>1 DEF FrameAgrees
  <2>3. Stays(r, m)
    BY <1>g, <2>1, <2>2 DEF Stays
  <2>4. QED
    BY <1>1, <1>3, <1>g, <2>1, <2>3 DEF m
<1>7. CASE SendEmail(r)
  <2>1. /\ frame[r].pc = "send" /\ Return(r) /\ meetings' = meetings
        /\ unsent' = Append(unsent, [meeting |-> m, password |-> frame[r].password])
    BY <1>7 DEF SendEmail, At, m
  <2>2. Mails(r, m)
    BY <1>r, <2>1 DEF Mails
  <2>3. QED
    BY <1>1, <1>3, <1>r, <2>1, <2>2 DEF m
<1>8. CASE SaveVideo(r)
  <2>1. frame[r].pc = "upload" /\ Store(r) /\ Return(r)
    BY <1>8 DEF SaveVideo, At
  <2>2. Restores(r, m)
    BY <1>4, <1>s, <1>r, <2>1 DEF Restores, FrameAgrees
  <2>3. QED
    BY <1>1, <1>3, <1>s, <1>r, <2>1, <2>2 DEF m
<1>9. CASE SaveJoined(r)
  <2>1. /\ frame[r].pc = "join" /\ Return(r) /\ unsent' = unsent
        /\ meetings' = [meetings EXCEPT ![m] =
             [status |-> "joined", talk |-> TRUE, password |-> frame[r].password]]
    BY <1>9 DEF SaveJoined, At, m
  <2>2. /\ meetings'[m].password = frame[r].password
        /\ \A x \in Meetings : x # m => meetings'[x] = meetings[x]
    BY <1>0, <1>3, <2>1
  <2>3. Restores(r, m)
    BY <1>4, <1>r, <2>1, <2>2 DEF Restores, FrameAgrees
  <2>4. QED
    BY <1>1, <1>3, <1>r, <2>1, <2>2, <2>3 DEF m
<1>10. QED
  BY <1>5, <1>6, <1>7, <1>8, <1>9 DEF Continue

LEMMA StoredBegin ==
  ASSUME StoredInv, NEW r \in Requests, NEW m \in Meetings,
         \/ Create(r, m) \/ Recreate(r, m) \/ resendAssessmentEmail(r, m)
         \/ joinAssessmentMeeting(r, m) \/ uploadMeetingVideo(r, m)
  PROVE  RequestsAgree' /\ MailFollows'
<1>1. PICK pc \in BeginPCs, status \in Statuses, password \in Nat :
        /\ Begin(r, m, pc, status, password)
        /\ pc \in {"insert", "update", "save"} => password > 0 /\ password >= meetings[m].password
        /\ pc \in {"join", "upload"} => password = meetings[m].password
        /\ pc = "join" => meetings[m].status # "none"
        /\ pc = "upload" => status = meetings[m].status
  BY Beginnings DEF StoredInv
<1>2. /\ frame' = [frame EXCEPT ![r] = FrameOf(pc, m, status, password)]
      /\ UNCHANGED <<meetings, unsent, queue, inbox>>
      /\ overlapped \subseteq overlapped'
      /\ m \notin overlapped' => \A q \in Requests : frame[q].meeting # m
  BY <1>1 DEF Begin, FrameOf, delivery
<1>3. /\ frame'[r].pc = pc /\ frame'[r].meeting = m
      /\ frame'[r].status = status /\ frame'[r].password = password
      /\ \A q \in Requests : q # r => frame'[q] = frame[q]
  <2>1. frame'[r] = FrameOf(pc, m, status, password)
    BY <1>2 DEF StoredInv, TypeInv, TypeOK
  <2>2. QED
    BY <1>2, <2>1 DEF FrameOf, StoredInv, TypeInv, TypeOK
<1>4. MailFollows'
  BY <1>2 DEF StoredInv, MailFollows
<1>5. ASSUME NEW x \in Meetings \ overlapped'
      PROVE  Alone(x)' /\ \A q \in Requests : frame'[q].meeting = x => FrameAgrees(q, x)'
  <2>1. x \notin overlapped /\ Alone(x)
        /\ \A q \in Requests : frame[q].meeting = x => FrameAgrees(q, x)
    BY <1>2, <1>5 DEF StoredInv, RequestsAgree
  <2>2. CASE x = m
    <3>1. \A q \in Requests : frame'[q].meeting = m => q = r
      BY <1>2, <1>3, <1>5, <2>2
    <3>2. FrameAgrees(r, m)'
      BY <1>1, <1>2, <1>3 DEF FrameAgrees, BeginPCs
    <3>3. QED
      BY <2>2, <3>1, <3>2 DEF Alone
  <2>3. CASE x # m
    <3>1. \A q \in Requests : frame'[q].meeting = x => q # r /\ frame'[q] = frame[q]
      BY <1>3, <2>3
    <3>2. QED
      BY <1>2, <2>1, <3>1 DEF Alone, FrameAgrees
  <2>4. QED
    BY <2>2, <2>3
<1>6. QED
  BY <1>4, <1>5 DEF RequestsAgree

LEMMA StoredContinue ==
  ASSUME StoredInv, NEW r \in Requests, Continue(r)
  PROVE  RequestsAgree' /\ MailFollows'
<1> DEFINE m == frame[r].meeting
<1>1. /\ m \in Meetings
      /\ UNCHANGED <<issued, queue, consumer, inbox, lost, overlapped>>
      /\ \A q \in Requests : q # r => frame'[q] = frame[q]
      /\ \A x \in Meetings : x # m => meetings'[x] = meetings[x]
      /\ Stays(r, m) \/ Mails(r, m) \/ Restores(r, m)
  BY Effect
<1>2. \A x \in Meetings \ overlapped :
        /\ Alone(x)
        /\ \A q \in Requests : frame[q].meeting = x => FrameAgrees(q, x)
  BY DEF StoredInv, RequestsAgree
<1>t. /\ frame[r].meeting = m /\ frame[r].password \in Nat /\ unsent \in Seq(Message)
      /\ \A x \in Meetings : meetings[x].password \in Nat
      /\ \A i \in DOMAIN unsent : unsent[i].password \in Nat
      /\ \A i \in DOMAIN queue : queue[i].password \in Nat
      /\ \A x \in Meetings : \A i \in DOMAIN inbox[x] : inbox[x][i] \in Nat
  <2>1. \A x \in Meetings : \A i \in DOMAIN inbox[x] : inbox[x][i] \in Nat
    BY DEF StoredInv, TypeInv, TypeOK
  <2>2. QED
    BY <2>1, RowsTyped DEF StoredInv, TypeInv, TypeOK
<1> HIDE DEF m
<1>3. ASSUME m \notin overlapped
      PROVE  /\ meetings'[m].password \in Nat
             /\ meetings'[m].password >= meetings[m].password
             /\ Stays(r, m) \/ Mails(r, m) => meetings'[m].password = frame[r].password
             /\ ~ Stays(r, m) => meetings'[m].password = meetings[m].password
  BY <1>1, <1>2, <1>3, <1>t DEF FrameAgrees, Stays, Mails, Restores
<1>4. RequestsAgree'
  <2>1. ASSUME NEW x \in Meetings \ overlapped
        PROVE  Alone(x)' /\ \A q \in Requests : frame'[q].meeting = x => FrameAgrees(q, x)'
    <3>1. CASE x # m
      <4>1. \A q \in Requests : frame'[q].meeting = x => q # r /\ frame'[q] = frame[q]
        BY <1>1, <3>1, IdleIsFrame, NoneAssumption DEF Stays, Mails, Restores
      <4>2. meetings'[x] = meetings[x]
        BY <1>1, <3>1
      <4>3. QED
        BY <1>2, <4>1, <4>2 DEF Alone, FrameAgrees
    <3>2. CASE x = m
      <4>1. \A q \in Requests : frame'[q].meeting = m => q = r
        BY <1>1, <1>2, <1>t, <2>1, <3>2 DEF Alone
      <4>2. ASSUME frame'[r].meeting = x
            PROVE  FrameAgrees(r, x)'
        <5>1. Stays(r, x)
          BY <1>1, <3>2, <4>2, IdleIsFrame, NoneAssumption DEF Mails, Restores
        <5>2. /\ frame'[r].pc \in {"questions", "send"}
              /\ frame'[r].password = meetings'[x].password
          BY <2>1, <5>1 DEF Stays
        <5>3. QED
          BY <5>2 DEF FrameAgrees
      <4>3. QED
        BY <3>2, <4>1, <4>2 DEF Alone
    <3>3. QED
      BY <3>1, <3>2
  <2>2. QED
    BY <1>1, <2>1 DEF RequestsAgree
<1>5. MailFollows'
  <2>1. ASSUME NEW x \in Meetings \ overlapped
        PROVE  /\ meetings'[x].password \in Nat
               /\ meetings'[x].password >= meetings[x].password
    BY <1>1, <1>3, <1>t, <2>1
  <2>2. ASSUME NEW x \in Meetings \ overlapped
        PROVE  /\ \A i \in DOMAIN unsent :
                    unsent[i].meeting = x => unsent[i].password <= meetings'[x].password
               /\ \A i \in DOMAIN queue :
                    queue[i].meeting = x => queue[i].password <= meetings'[x].password
               /\ \A i \in DOMAIN inbox[x] : inbox[x][i] <= meetings'[x].password
    BY <1>t, <2>1, <2>2 DEF StoredInv, MailFollows
  <2>3. ASSUME NEW x \in Meetings \ overlapped
        PROVE  \A i \in DOMAIN unsent' :
                 unsent'[i].meeting = x => unsent'[i].password <= meetings'[x].password
    <3>1. CASE unsent' = unsent
      BY <2>2, <3>1
    <3>2. CASE Mails(r, m)
      <4> DEFINE e == [meeting |-> m, password |-> frame[r].password]
      <4>1. e.meeting = m /\ e.password = frame[r].password /\ e \in Message
        BY <1>1, <1>t, <3>2 DEF Message, Mails, StoredInv, TypeInv, PasswordsIssued
      <4>2. unsent' = Append(unsent, e)
        BY <3>2 DEF Mails
      <4> HIDE DEF e
      <4>3. \A i \in DOMAIN unsent' :
              unsent'[i] # e => i \in DOMAIN unsent /\ unsent'[i] = unsent[i]
        BY <1>t, <4>1, <4>2, AppendAdds
      <4>4. m \notin overlapped => e.password <= meetings'[m].password
        BY <1>3, <1>t, <3>2, <4>1
      <4>5. QED
        BY <2>2, <2>3, <4>1, <4>3, <4>4
    <3>3. QED
      BY <1>1, <3>1, <3>2 DEF Stays, Restores
  <2>4. QED
    BY <1>1, <2>2, <2>3 DEF MailFollows
<1>6. QED
  BY <1>4, <1>5

LEMMA StoredBackground ==
  ASSUME StoredInv,
         \/ \E m \in Meetings : candidate_signIn(m)
         \/ \E c \in Candidates : signOut(c)
         \/ sendToQueue \/ Consume \/ Crash \/ UNCHANGED vars
  PROVE  RequestsAgree' /\ MailFollows'
<1>0. /\ queue \in Seq(Message) /\ unsent \in Seq(Message)
      /\ inbox \in [Meetings -> Seq(1..issued)]
      /\ consumer # "idle" => queue # <<>>
      /\ queue # <<>> => Head(queue) = queue[1]
      /\ \A i \in DOMAIN queue : queue[i] \in Message
      /\ RequestsAgree /\ MailFollows
  BY RowsTyped, TailShifts DEF StoredInv, TypeInv, TypeOK
<1>m. UNCHANGED <<meetings, overlapped>>
  BY DEF candidate_signIn, signOut, sendToQueue, Consume, Deliver, sendAssessmentEmail, Refuse, Ack,
     Crash, vars
<1>f. frame' = frame => RequestsAgree'
  BY <1>0, <1>m DEF RequestsAgree, Alone, FrameAgrees
<1>1. CASE \/ \E m \in Meetings : candidate_signIn(m)
           \/ \E c \in Candidates : signOut(c)
           \/ Deliver \/ Refuse \/ UNCHANGED vars
  <2>1. UNCHANGED <<unsent, queue, inbox, frame>>
    BY <1>1 DEF candidate_signIn, signOut, Deliver, Refuse, vars, delivery
  <2>2. QED
    BY <1>0, <1>m, <1>f, <2>1 DEF MailFollows
<1>2. CASE sendToQueue
  <2>1. /\ unsent # <<>> /\ queue' = Append(queue, unsent[1]) /\ unsent' = Tail(unsent)
        /\ UNCHANGED <<inbox, frame>>
    BY <1>2 DEF sendToQueue
  <2>2. /\ 1 \in DOMAIN unsent /\ unsent[1] \in Message
        /\ \A i \in DOMAIN unsent' : i + 1 \in DOMAIN unsent /\ unsent'[i] = unsent[i + 1]
    BY <1>0, <2>1, TailShifts
  <2>3. \A i \in DOMAIN queue' :
          queue'[i] # unsent[1] => i \in DOMAIN queue /\ queue'[i] = queue[i]
    BY <1>0, <2>1, <2>2, AppendAdds
  <2>4. ASSUME NEW x \in Meetings \ overlapped
        PROVE  /\ \A i \in DOMAIN unsent' :
                    unsent'[i].meeting = x => unsent'[i].password <= meetings[x].password
               /\ \A i \in DOMAIN queue' :
                    queue'[i].meeting = x => queue'[i].password <= meetings[x].password
    BY <1>0, <2>2, <2>3, <2>4 DEF MailFollows
  <2>5. QED
    BY <1>0, <1>m, <1>f, <2>1, <2>4 DEF MailFollows
<1>3. CASE sendAssessmentEmail
  <2>1. /\ queue # <<>> /\ UNCHANGED <<unsent, queue, frame>>
        /\ inbox' = [inbox EXCEPT ![queue[1].meeting] = Append(@, queue[1].password)]
    BY <1>0, <1>3 DEF sendAssessmentEmail
  <2> DEFINE m == queue[1].meeting
             p == queue[1].password
  <2>2. 1 \in DOMAIN queue /\ m \in Meetings /\ p \in 1..issued
    <3>1. /\ 1 \in DOMAIN queue /\ queue[1] \in Message
          /\ p <= issued /\ issued \in Nat
      BY <1>0, <2>1, TailShifts DEF StoredInv, TypeInv, TypeOK, PasswordsIssued
    <3>2. QED
      BY <3>1 DEF Message
  <2>3. /\ inbox'[m] = Append(inbox[m], p) /\ inbox[m] \in Seq(1..issued)
        /\ \A x \in Meetings : x # m => inbox'[x] = inbox[x]
    BY <1>0, <2>1, <2>2
  <2>4. \A i \in DOMAIN inbox'[m] :
          inbox'[m][i] # p => i \in DOMAIN inbox[m] /\ inbox'[m][i] = inbox[m][i]
    BY <2>2, <2>3, AppendAdds
  <2>5. ASSUME NEW x \in Meetings \ overlapped, NEW i \in DOMAIN inbox'[x]
        PROVE  inbox'[x][i] <= meetings[x].password
    <3>1. CASE x # m
      BY <1>0, <2>3, <2>5, <3>1 DEF MailFollows
    <3>2. CASE x = m
      BY <1>0, <2>2, <2>4, <2>5, <3>2 DEF MailFollows
    <3>3. QED
      BY <3>1, <3>2
  <2>6. QED
    BY <1>0, <1>m, <1>f, <2>1, <2>5 DEF MailFollows
<1>4. CASE Ack
  <2>1. queue # <<>> /\ queue' = Tail(queue) /\ UNCHANGED <<unsent, inbox, frame>>
    BY <1>0, <1>4 DEF Ack
  <2>2. \A i \in DOMAIN queue' : i + 1 \in DOMAIN queue /\ queue'[i] = queue[i + 1]
    BY <1>0, <2>1, TailShifts
  <2>3. QED
    BY <1>0, <1>m, <1>f, <2>1, <2>2 DEF MailFollows
<1>5. CASE Crash
  <2>1. unsent' = <<>> /\ UNCHANGED <<queue, inbox>> /\ \A r \in Requests : frame'[r].meeting = None
    BY <1>5, IdleIsFrame DEF Crash
  <2>2. DOMAIN unsent' = {}
    BY <2>1
  <2>3. QED
    BY <1>0, <1>m, <2>1, <2>2, NoneAssumption DEF MailFollows, RequestsAgree, Alone, FrameAgrees
<1>6. QED
  BY <1>1, <1>2, <1>3, <1>4, <1>5 DEF Consume

LEMMA StoredInit == Init => StoredInv
<1> SUFFICES ASSUME Init PROVE StoredInv
  OBVIOUS
<1>1. \A r \in Requests : frame[r].meeting = None
  BY IdleIsFrame DEF Init
<1>2. RequestsAgree
  BY <1>1, NoneAssumption DEF RequestsAgree, Alone
<1>3. MailFollows
  <2>1. /\ DOMAIN unsent = {} /\ DOMAIN queue = {}
        /\ \A m \in Meetings : DOMAIN inbox[m] = {}
    BY DEF Init
  <2>2. QED
    BY <2>1 DEF MailFollows
<1>4. QED
  BY <1>2, <1>3, TypeInit DEF StoredInv

LEMMA StoredNext == StoredInv /\ [Next]_vars => StoredInv'
<1> SUFFICES ASSUME StoredInv, [Next]_vars
             PROVE  StoredInv'
  OBVIOUS
<1>1. TypeInv'
  BY TypeNext DEF StoredInv
<1>2. ASSUME NEW r \in Requests, NEW m \in Meetings,
             \/ Create(r, m) \/ Recreate(r, m) \/ resendAssessmentEmail(r, m)
             \/ joinAssessmentMeeting(r, m) \/ uploadMeetingVideo(r, m)
      PROVE  RequestsAgree' /\ MailFollows'
  BY <1>2, StoredBegin
<1>3. ASSUME NEW r \in Requests, Continue(r)
      PROVE  RequestsAgree' /\ MailFollows'
  BY <1>3, StoredContinue
<1>4. QED
  BY <1>1, <1>2, <1>3, StoredBackground DEF Next, StoredInv

-----------------------------------------------------------------------------
(* The last email opens the meeting *)

MailInv == StoredInv /\ LastIsMailed /\ SentIsLast

LEMMA MailBegin ==
  ASSUME MailInv, NEW r \in Requests, NEW m \in Meetings,
         \/ Create(r, m) \/ Recreate(r, m) \/ resendAssessmentEmail(r, m)
         \/ joinAssessmentMeeting(r, m) \/ uploadMeetingVideo(r, m)
  PROVE  LastIsMailed' /\ SentIsLast'
<1>1. PICK pc \in BeginPCs, status \in Statuses, password \in Nat :
        Begin(r, m, pc, status, password)
  BY Beginnings DEF MailInv, StoredInv
<1>2. /\ frame' = [frame EXCEPT ![r] = FrameOf(pc, m, status, password)] /\ frame[r] = Idle
      /\ UNCHANGED <<meetings, unsent, queue, inbox, lost, consumer>>
      /\ overlapped \subseteq overlapped'
  BY <1>1 DEF Begin, FrameOf, delivery
<1>3. \A q \in Requests : q # r => frame'[q] = frame[q]
  BY <1>2 DEF MailInv, StoredInv, TypeInv, TypeOK
<1>4. SentIsLast'
  BY <1>2 DEF MailInv, SentIsLast
<1>5. ASSUME NEW x \in Meetings \ (lost' \cup overlapped'), ~ Mailing(x)'
      PROVE  ~ Mailing(x)
  BY <1>2, <1>3, <1>5, IdleIsFrame, NoneAssumption DEF Mailing
<1>6. ASSUME NEW x \in Meetings \ (lost' \cup overlapped'),
             meetings'[x].status # "none", ~ Mailing(x)'
      PROVE  OnItsWay(x, meetings[x].password)'
  <2>1. OnItsWay(x, meetings[x].password)
    BY <1>2, <1>5, <1>6 DEF MailInv, LastIsMailed
  <2>2. QED
    BY <1>2, <2>1 DEF OnItsWay
<1>7. QED
  BY <1>4, <1>6 DEF LastIsMailed

LEMMA MailContinue ==
  ASSUME MailInv, NEW r \in Requests, Continue(r)
  PROVE  LastIsMailed' /\ SentIsLast'
<1> DEFINE m == frame[r].meeting
<1>1. /\ m \in Meetings
      /\ UNCHANGED <<issued, queue, consumer, inbox, lost, overlapped>>
      /\ \A q \in Requests : q # r => frame'[q] = frame[q]
      /\ \A x \in Meetings : x # m => meetings'[x] = meetings[x]
      /\ Stays(r, m) \/ Mails(r, m) \/ Restores(r, m)
  BY Effect DEF MailInv
<1>2. /\ frame[r].meeting = m /\ unsent \in Seq(Message)
      /\ m \notin overlapped => Alone(m) /\ FrameAgrees(r, m)
  BY <1>1 DEF MailInv, StoredInv, TypeInv, TypeOK, RequestsAgree
<1>3. Mails(r, m) => [meeting |-> m, password |-> frame[r].password] \in Message
  <2>1. Mails(r, m) => frame[r].password \in Nat \ {0}
    BY RowsTyped DEF MailInv, StoredInv, TypeInv, PasswordsIssued, Mails
  <2>2. QED
    BY <1>1, <2>1 DEF Message
<1> HIDE DEF m
<1>4. SentIsLast'
  BY <1>1 DEF MailInv, SentIsLast
<1>5. ASSUME NEW x \in Meetings \ (lost \cup overlapped),
             meetings'[x].status # "none", ~ Mailing(x)'
      PROVE  OnItsWay(x, meetings[x].password)'
  <2>1. CASE x # m
    <3>1. ~ Mailing(x) /\ meetings'[x] = meetings[x]
      BY <1>1, <1>2, <1>5, <2>1 DEF Mailing
    <3>2. OnItsWay(x, meetings[x].password)
      BY <1>1, <1>5, <3>1 DEF MailInv, LastIsMailed
    <3>3. CASE unsent' = unsent
      BY <1>1, <3>1, <3>2, <3>3 DEF OnItsWay
    <3>4. CASE Mails(r, m)
      <4> DEFINE e == [meeting |-> m, password |-> frame[r].password]
      <4>1. unsent' = Append(unsent, e) /\ e \in Message /\ e.meeting # x
        BY <1>3, <2>1, <3>4 DEF Mails
      <4> HIDE DEF e
      <4>2. /\ LastIs(unsent, x, meetings[x].password) => LastIs(unsent', x, meetings[x].password)
            /\ NoneFor(unsent, x) => NoneFor(unsent', x)
        BY <1>2, <4>1, LastOfAppend
      <4>3. QED
        BY <1>1, <3>1, <3>2, <4>2 DEF OnItsWay
    <3>5. QED
      BY <1>1, <3>3, <3>4 DEF Stays, Restores
  <2>2. CASE x = m
    <3>1. CASE Stays(r, m)
      BY <1>5, <2>2, <3>1 DEF Stays, Mailing
    <3>2. CASE Mails(r, m)
      <4> DEFINE e == [meeting |-> m, password |-> frame[r].password]
      <4>1. frame[r].password = meetings[x].password
        BY <1>2, <1>5, <2>2, <3>2 DEF Mails, FrameAgrees
      <4>2. /\ unsent' = Append(unsent, e) /\ e \in Message
            /\ e.meeting = x /\ e.password = meetings'[x].password
        BY <1>3, <2>2, <3>2, <4>1 DEF Mails
      <4> HIDE DEF e
      <4>3. LastIs(unsent', x, meetings'[x].password)
        BY <1>2, <4>2, LastOfAppend
      <4>4. QED
        BY <4>3 DEF OnItsWay
    <3>3. CASE Restores(r, m)
      <4>1. ~ Mailing(m)
        BY <1>2, <1>5, <2>2, <3>3 DEF Restores, Alone, Mailing
      <4>2. /\ meetings'[x].password = meetings[x].password /\ unsent' = unsent
            /\ OnItsWay(x, meetings[x].password)
        BY <1>5, <2>2, <3>3, <4>1 DEF Restores, MailInv, LastIsMailed
      <4>3. QED
        BY <1>1, <4>2 DEF OnItsWay
    <3>4. QED
      BY <1>1, <3>1, <3>2, <3>3
  <2>3. QED
    BY <2>1, <2>2
<1>6. QED
  BY <1>1, <1>4, <1>5 DEF LastIsMailed

LEMMA MailBackground ==
  ASSUME MailInv,
         \/ \E m \in Meetings : candidate_signIn(m)
         \/ \E c \in Candidates : signOut(c)
         \/ sendToQueue \/ Consume \/ UNCHANGED vars
  PROVE  LastIsMailed' /\ SentIsLast'
<1>0. /\ queue \in Seq(Message) /\ unsent \in Seq(Message)
      /\ inbox \in [Meetings -> Seq(1..issued)]
      /\ consumer # "idle" => queue # <<>>
      /\ queue # <<>> => Head(queue) = queue[1] /\ queue[1] \in Message
      /\ LastIsMailed /\ SentIsLast
  BY TailShifts DEF MailInv, StoredInv, TypeInv, TypeOK
<1>m. /\ UNCHANGED <<meetings, overlapped, frame>> /\ lost \subseteq lost'
      /\ \A x : Mailing(x)' <=> Mailing(x)
  BY DEF candidate_signIn, signOut, sendToQueue, Consume, Deliver, sendAssessmentEmail, Refuse, Ack,
     vars, Mailing
<1>l. ASSUME \A x \in Meetings \ (lost' \cup overlapped) : \A p :
               OnItsWay(x, p) => OnItsWay(x, p)'
      PROVE  LastIsMailed'
  BY <1>0, <1>m, <1>l DEF LastIsMailed
<1>1. CASE \/ \E m \in Meetings : candidate_signIn(m)
           \/ \E c \in Candidates : signOut(c)
           \/ Deliver \/ UNCHANGED vars
  <2>1. /\ UNCHANGED <<unsent, queue, inbox, lost>>
        /\ consumer' = "sent" => consumer = "sent"
    BY <1>1 DEF candidate_signIn, signOut, Deliver, vars, delivery
  <2>2. LastIsMailed'
    BY <1>0, <1>m, <2>1 DEF LastIsMailed, OnItsWay
  <2>3. QED
    BY <1>0, <2>1, <2>2 DEF SentIsLast
<1>2. CASE Refuse
  <2>1. UNCHANGED <<unsent, queue, inbox>> /\ lost' = lost \cup {queue[1].meeting}
    BY <1>0, <1>2 DEF Refuse
  <2>2. LastIsMailed'
    BY <1>0, <1>m, <2>1 DEF LastIsMailed, OnItsWay
  <2>3. QED
    BY <2>1, <2>2 DEF SentIsLast
<1>3. CASE sendToQueue
  <2> DEFINE e == unsent[1]
  <2>1. /\ unsent # <<>> /\ queue' = Append(queue, e) /\ unsent' = Tail(unsent)
        /\ UNCHANGED <<inbox, consumer, lost>>
    BY <1>3 DEF sendToQueue
  <2>2. e \in Message
    BY <1>0, <2>1, TailShifts
  <2>3. ASSUME NEW x \in Meetings \ (lost' \cup overlapped), NEW p, OnItsWay(x, p)
        PROVE  OnItsWay(x, p)'
    <3>1. CASE LastIs(unsent, x, p)
      <4>1. \/ LastIs(unsent', x, p)
            \/ NoneFor(unsent', x) /\ e.meeting = x /\ e.password = p
        BY <1>0, <2>1, <3>1, LastOfTail
      <4>2. CASE NoneFor(unsent', x) /\ e.meeting = x /\ e.password = p
        <5>1. LastIs(queue', x, p)
          BY <1>0, <2>1, <2>2, <4>2, LastOfAppend
        <5>2. QED
          BY <4>2, <5>1 DEF OnItsWay
      <4>3. QED
        BY <4>1, <4>2 DEF OnItsWay
    <3>2. CASE NoneFor(unsent, x)
      <4>1. NoneFor(unsent', x) /\ e.meeting # x
        BY <1>0, <2>1, <3>2, NoneOfTail
      <4> HIDE DEF e
      <4>2. /\ LastIs(queue, x, p) => LastIs(queue', x, p)
            /\ NoneFor(queue, x) => NoneFor(queue', x)
        BY <1>0, <2>1, <2>2, <4>1, LastOfAppend
      <4>3. QED
        BY <2>1, <2>3, <3>2, <4>1, <4>2, LastAndNone DEF OnItsWay
    <3>3. QED
      BY <2>3, <3>1, <3>2 DEF OnItsWay
  <2>4. SentIsLast'
    <3>1. queue # <<>> => queue'[1] = queue[1]
      BY <1>0, <2>1, <2>2, TailShifts, AppendAdds
    <3>2. QED
      BY <1>0, <2>1, <3>1 DEF SentIsLast
  <2>5. QED
    BY <1>l, <2>3, <2>4
<1>4. CASE sendAssessmentEmail
  <2> DEFINE m == queue[1].meeting
             w == queue[1].password
  <2>1. /\ queue # <<>> /\ UNCHANGED <<unsent, queue, lost>>
        /\ inbox' = [inbox EXCEPT ![m] = Append(@, w)]
    BY <1>0, <1>4 DEF sendAssessmentEmail
  <2>2. 1 \in DOMAIN queue /\ m \in Meetings /\ w \in 1..issued
    <3>1. /\ 1 \in DOMAIN queue /\ queue[1] \in Message
          /\ w <= issued /\ issued \in Nat
      BY <1>0, <2>1, TailShifts DEF MailInv, StoredInv, TypeInv, TypeOK, PasswordsIssued
    <3>2. QED
      BY <3>1 DEF Message
  <2>3. /\ inbox'[m] = Append(inbox[m], w) /\ inbox[m] \in Seq(1..issued)
        /\ \A x \in Meetings : x # m => inbox'[x] = inbox[x]
    BY <1>0, <2>1, <2>2
  <2>4. inbox'[m] # <<>> /\ inbox'[m][Len(inbox'[m])] = w
    BY <2>2, <2>3, AppendAdds
  <2>5. \A x : NoneFor(queue, x) => x # m
    BY <2>2 DEF NoneFor
  <2>6. SentIsLast'
    BY <2>1, <2>4 DEF SentIsLast
  <2>7. ASSUME NEW x \in Meetings \ (lost' \cup overlapped), NEW p, OnItsWay(x, p)
        PROVE  OnItsWay(x, p)'
    BY <2>1, <2>3, <2>5, <2>7 DEF OnItsWay
  <2>8. QED
    BY <1>l, <2>6, <2>7
<1>5. CASE Ack
  <2>1. /\ queue # <<>> /\ queue' = Tail(queue) /\ consumer = "sent" /\ consumer' = "idle"
        /\ UNCHANGED <<unsent, inbox, lost>>
    BY <1>0, <1>5 DEF Ack
  <2>2. ASSUME NEW x \in Meetings \ (lost' \cup overlapped), NEW p, OnItsWay(x, p)
        PROVE  OnItsWay(x, p)'
    <3>1. CASE LastIs(queue, x, p)
      <4>1. \/ LastIs(queue', x, p)
            \/ NoneFor(queue', x) /\ queue[1].meeting = x /\ queue[1].password = p
        BY <1>0, <2>1, <3>1, LastOfTail
      <4>2. queue[1].meeting = x =>
              inbox[x] # <<>> /\ inbox[x][Len(inbox[x])] = queue[1].password
        BY <1>0, <2>1, <2>2 DEF SentIsLast
      <4>3. QED
        BY <2>1, <2>2, <3>1, <4>1, <4>2, LastAndNone DEF OnItsWay
    <3>2. CASE NoneFor(queue, x)
      <4>1. NoneFor(queue', x)
        BY <1>0, <2>1, <3>2, NoneOfTail
      <4>2. QED
        BY <2>1, <2>2, <3>2, <4>1, LastAndNone DEF OnItsWay
    <3>3. CASE LastIs(unsent, x, p)
      BY <2>1, <3>3 DEF OnItsWay
    <3>4. QED
      BY <2>2, <3>1, <3>2, <3>3 DEF OnItsWay
  <2>3. QED
    BY <1>l, <2>1, <2>2 DEF SentIsLast
<1>6. QED
  BY <1>1, <1>2, <1>3, <1>4, <1>5 DEF Consume

LEMMA MailCrash ==
  ASSUME MailInv, Crash
  PROVE  LastIsMailed' /\ SentIsLast'
<1>1. /\ UNCHANGED <<meetings, queue, inbox, overlapped>>
      /\ unsent' = <<>> /\ consumer' = "idle"
      /\ lost' = lost \cup {unsent[i].meeting : i \in DOMAIN unsent}
                      \cup {m \in Meetings : \E r \in Requests : frame[r].meeting = m}
  BY DEF Crash
<1>2. ASSUME NEW x \in Meetings \ (lost' \cup overlapped')
      PROVE  /\ x \notin lost \cup overlapped /\ NoneFor(unsent, x) /\ NoneFor(unsent', x)
             /\ ~ Mailing(x)
  BY <1>1, <1>2 DEF NoneFor, Mailing
<1>3. ASSUME NEW x \in Meetings \ (lost' \cup overlapped'), meetings'[x].status # "none"
      PROVE  OnItsWay(x, meetings[x].password)'
  <2>1. OnItsWay(x, meetings[x].password)
    BY <1>1, <1>2, <1>3 DEF MailInv, LastIsMailed
  <2>2. QED
    BY <1>1, <1>2, <2>1, LastAndNone DEF OnItsWay
<1>4. QED
  BY <1>1, <1>3 DEF LastIsMailed, SentIsLast

LEMMA MailInit == Init => MailInv
<1> SUFFICES ASSUME Init PROVE MailInv
  OBVIOUS
<1>1. LastIsMailed
  <2>1. \A m \in Meetings : meetings[m].status = "none"
    BY DEF Init
  <2>2. QED
    BY <2>1 DEF LastIsMailed
<1>2. SentIsLast
  BY DEF Init, SentIsLast
<1>3. QED
  BY <1>1, <1>2, StoredInit DEF MailInv

LEMMA MailNext == MailInv /\ [Next]_vars => MailInv'
<1> SUFFICES ASSUME MailInv, [Next]_vars
             PROVE  MailInv'
  OBVIOUS
<1>1. StoredInv'
  BY StoredNext DEF MailInv
<1>2. ASSUME NEW r \in Requests, NEW m \in Meetings,
             \/ Create(r, m) \/ Recreate(r, m) \/ resendAssessmentEmail(r, m)
             \/ joinAssessmentMeeting(r, m) \/ uploadMeetingVideo(r, m)
      PROVE  LastIsMailed' /\ SentIsLast'
  BY <1>2, MailBegin
<1>3. ASSUME NEW r \in Requests, Continue(r)
      PROVE  LastIsMailed' /\ SentIsLast'
  BY <1>3, MailContinue
<1>4. QED
  BY <1>1, <1>2, <1>3, MailBackground, MailCrash DEF Next, MailInv

(* Whatever is queued, delayed, sent twice after a crash or held by a stale  *)
(* save: when nothing for a meeting is under way, the last email of its      *)
(* candidate has the password that opens it, unless one was lost or two      *)
(* requests on the meeting overlapped.                                       *)
THEOREM LastOpens == Spec => []LastEmailOpens
<1>1. MailInv => LastEmailOpens
  <2> SUFFICES ASSUME MailInv, NEW m \in Meetings \ (lost \cup overlapped),
                      meetings[m].status # "none",
                      \A r \in Requests : frame[r].meeting # m,
                      NoneFor(unsent, m), NoneFor(queue, m)
               PROVE  inbox[m] # <<>> /\ CanSignIn(m, inbox[m][Len(inbox[m])])
    BY DEF LastEmailOpens, NoneFor
  <2>1. OnItsWay(m, meetings[m].password)
    BY DEF MailInv, LastIsMailed, Mailing
  <2>2. QED
    BY <2>1, LastAndNone DEF OnItsWay, CanSignIn
<1>2. QED
  BY <1>1, MailInit, MailNext, PTL DEF Spec

-----------------------------------------------------------------------------
(* Emails come in order *)

InOrder(seq, m) ==
  \A i, j \in DOMAIN seq :
    i <= j /\ seq[i].meeting = m /\ seq[j].meeting = m => seq[i].password <= seq[j].password
Before(s, t, m) ==
  \A i \in DOMAIN s, j \in DOMAIN t :
    s[i].meeting = m /\ t[j].meeting = m => s[i].password <= t[j].password
Precedes(emails, seq, m) ==
  \A i \in DOMAIN emails, j \in DOMAIN seq :
    seq[j].meeting = m => emails[i] <= seq[j].password

(* What came, what is queued and what is issued follow each other, oldest    *)
(* first.                                                                    *)
Ordered(m, emails) ==
  /\ InOrder(queue, m) /\ InOrder(unsent, m) /\ Before(queue, unsent, m)
  /\ Precedes(emails, queue, m) /\ Precedes(emails, unsent, m)
  /\ \A i, j \in DOMAIN emails : i <= j => emails[i] <= emails[j]

OrderInv == StoredInv /\ \A m \in Meetings \ overlapped : Ordered(m, inbox[m])

(* A message that is no older than those of its meeting may be appended to   *)
(* them.                                                                     *)
LEMMA AppendInOrder ==
  ASSUME NEW s \in Seq(Message), NEW x \in Message, NEW m, InOrder(s, m),
         x.meeting = m => \A i \in DOMAIN s : s[i].meeting = m => s[i].password <= x.password
  PROVE  InOrder(Append(s, x), m)
<1>1. /\ Len(s) \in Nat
      /\ DOMAIN Append(s, x) = DOMAIN s \cup {Len(s) + 1}
      /\ Append(s, x)[Len(s) + 1] = x
      /\ \A i \in DOMAIN s : i \in Nat /\ i <= Len(s) /\ Append(s, x)[i] = s[i]
  BY AppendAdds
<1>2. x.password <= x.password
  BY DEF Message
<1>3. ASSUME NEW i \in DOMAIN Append(s, x), NEW j \in DOMAIN Append(s, x), i <= j,
             Append(s, x)[i].meeting = m, Append(s, x)[j].meeting = m
      PROVE  Append(s, x)[i].password <= Append(s, x)[j].password
  <2>1. CASE j \in DOMAIN s
    <3>1. i \in DOMAIN s
      BY <1>1, <1>3, <2>1
    <3>2. QED
      BY <1>1, <1>3, <2>1, <3>1 DEF InOrder
  <2>2. CASE j = Len(s) + 1
    BY <1>1, <1>2, <1>3, <2>2
  <2>3. QED
    BY <1>1, <2>1, <2>2
<1>4. QED
  BY <1>3 DEF InOrder

LEMMA TailInOrder ==
  ASSUME NEW s \in Seq(Message), s # <<>>, NEW m, InOrder(s, m)
  PROVE  /\ InOrder(Tail(s), m)
         /\ s[1].meeting = m =>
              \A i \in DOMAIN Tail(s) :
                Tail(s)[i].meeting = m => s[1].password <= Tail(s)[i].password
<1>1. /\ 1 \in DOMAIN s
      /\ \A i \in DOMAIN Tail(s) : i \in Nat /\ i + 1 \in DOMAIN s /\ Tail(s)[i] = s[i + 1]
  BY TailShifts
<1>2. \A i, j \in DOMAIN Tail(s) : i <= j => i + 1 <= j + 1
  BY <1>1
<1>3. \A i \in DOMAIN Tail(s) : 1 <= i + 1
  BY <1>1
<1>4. InOrder(Tail(s), m)
  BY <1>1, <1>2 DEF InOrder
<1>5. QED
  BY <1>1, <1>3, <1>4 DEF InOrder

LEMMA OrderContinue ==
  ASSUME OrderInv, NEW r \in Requests, Continue(r), NEW x \in Meetings \ overlapped
  PROVE  Ordered(x, inbox[x])'
<1> DEFINE m == frame[r].meeting
           e == [meeting |-> m, password |-> frame[r].password]
<1>1. /\ m \in Meetings
      /\ UNCHANGED <<queue, inbox, overlapped>>
      /\ Stays(r, m) \/ Mails(r, m) \/ Restores(r, m)
  BY Effect DEF OrderInv
<1>2. Ordered(x, inbox[x]) /\ StoredInv
  BY DEF OrderInv
<1>3. CASE unsent' = unsent
  BY <1>1, <1>2, <1>3 DEF Ordered
<1>4. CASE Mails(r, m)
  <2>1. e.meeting = m /\ e.password = frame[r].password /\ e \in Message /\ unsent \in Seq(Message)
    <3>1. frame[r].password \in Nat \ {0}
      BY <1>4 DEF Mails, OrderInv, StoredInv, TypeInv, TypeOK, PasswordsIssued, Frame
    <3>2. QED
      BY <1>1, <1>2, <3>1 DEF Message, StoredInv, TypeInv, TypeOK
  <2>2. unsent' = Append(unsent, e)
    BY <1>4 DEF Mails
  <2>3. x = m => e.password = meetings[x].password
    BY <1>2, <1>4, <2>1 DEF Mails, StoredInv, RequestsAgree, FrameAgrees
  <2>4. x = m =>
          /\ \A i \in DOMAIN unsent : unsent[i].meeting = x => unsent[i].password <= e.password
          /\ \A i \in DOMAIN queue : queue[i].meeting = x => queue[i].password <= e.password
          /\ \A i \in DOMAIN inbox[x] : inbox[x][i] <= e.password
    BY <1>2, <2>3 DEF StoredInv, MailFollows
  <2> HIDE DEF e
  <2>5. InOrder(Append(unsent, e), x)
    BY <1>2, <2>1, <2>4, AppendInOrder DEF Ordered
  <2>6. \A i \in DOMAIN Append(unsent, e) :
          Append(unsent, e)[i] # e => i \in DOMAIN unsent /\ Append(unsent, e)[i] = unsent[i]
    BY <2>1, AppendAdds
  <2>7. Before(queue, Append(unsent, e), x) /\ Precedes(inbox[x], Append(unsent, e), x)
    BY <1>2, <2>1, <2>4, <2>6 DEF Ordered, Before, Precedes
  <2>8. QED
    BY <1>1, <1>2, <2>2, <2>5, <2>7 DEF Ordered
<1>5. QED
  BY <1>1, <1>3, <1>4 DEF Stays, Restores

LEMMA OrderPublish ==
  ASSUME OrderInv, sendToQueue, NEW x \in Meetings \ overlapped
  PROVE  Ordered(x, inbox[x])'
<1> DEFINE e == unsent[1]
<1>1. Ordered(x, inbox[x]) /\ queue \in Seq(Message) /\ unsent \in Seq(Message)
  BY DEF OrderInv, StoredInv, TypeInv, TypeOK
<1>2. unsent # <<>> /\ queue' = Append(queue, e) /\ unsent' = Tail(unsent) /\ inbox' = inbox
  BY DEF sendToQueue
<1>3. /\ 1 \in DOMAIN unsent /\ e \in Message
      /\ \A i \in DOMAIN Tail(unsent) : i + 1 \in DOMAIN unsent /\ Tail(unsent)[i] = unsent[i + 1]
  BY <1>1, <1>2, TailShifts
<1>4. /\ InOrder(Tail(unsent), x)
      /\ e.meeting = x =>
           \A i \in DOMAIN Tail(unsent) :
             Tail(unsent)[i].meeting = x => e.password <= Tail(unsent)[i].password
  BY <1>1, <1>2, TailInOrder DEF Ordered
<1>5. InOrder(Append(queue, e), x)
  <2>1. e.meeting = x =>
          \A i \in DOMAIN queue : queue[i].meeting = x => queue[i].password <= e.password
    BY <1>1, <1>3 DEF Ordered, Before
  <2>2. QED
    BY <1>1, <1>3, <2>1, AppendInOrder DEF Ordered
<1>6. \A i \in DOMAIN Append(queue, e) :
        Append(queue, e)[i] # e => i \in DOMAIN queue /\ Append(queue, e)[i] = queue[i]
  BY <1>1, <1>3, AppendAdds
<1>7. Before(Append(queue, e), Tail(unsent), x)
  BY <1>1, <1>3, <1>4, <1>6 DEF Ordered, Before
<1>8. Precedes(inbox[x], Append(queue, e), x) /\ Precedes(inbox[x], Tail(unsent), x)
  BY <1>1, <1>3, <1>6 DEF Ordered, Precedes
<1>9. QED
  BY <1>1, <1>2, <1>4, <1>5, <1>7, <1>8 DEF Ordered

LEMMA OrderSend ==
  ASSUME OrderInv, sendAssessmentEmail, NEW x \in Meetings \ overlapped
  PROVE  Ordered(x, inbox[x])'
<1> DEFINE m == queue[1].meeting
           p == queue[1].password
           emails == Append(inbox[x], p)
<1>1. /\ Ordered(x, inbox[x]) /\ queue \in Seq(Message) /\ queue # <<>>
      /\ inbox \in [Meetings -> Seq(1..issued)] /\ issued \in Nat
  BY DEF OrderInv, StoredInv, TypeInv, TypeOK, sendAssessmentEmail
<1>2. Head(queue) = queue[1] /\ 1 \in DOMAIN queue /\ queue[1] \in Message
  BY <1>1, TailShifts
<1>3. /\ UNCHANGED <<unsent, queue>> /\ m \in Meetings /\ p \in 1..issued
      /\ inbox' = [inbox EXCEPT ![m] = Append(@, p)]
  <2>1. p \in Nat \ {0} /\ p <= issued /\ m \in Meetings
    BY <1>2 DEF Message, OrderInv, StoredInv, TypeInv, PasswordsIssued
  <2>2. QED
    BY <1>1, <1>2, <2>1 DEF sendAssessmentEmail
<1>4. CASE x # m
  <2>1. inbox'[x] = inbox[x]
    BY <1>1, <1>3, <1>4
  <2>2. QED
    BY <1>1, <1>3, <2>1 DEF Ordered
<1>5. CASE x = m
  <2>1. inbox'[x] = emails /\ inbox[x] \in Seq(1..issued)
    BY <1>1, <1>3, <1>5
  <2>2. /\ Len(inbox[x]) \in Nat
        /\ DOMAIN emails = DOMAIN inbox[x] \cup {Len(inbox[x]) + 1}
        /\ emails[Len(inbox[x]) + 1] = p
        /\ \A i \in DOMAIN inbox[x] : i \in Nat /\ i <= Len(inbox[x]) /\ emails[i] = inbox[x][i]
    BY <1>3, <2>1, AppendAdds
  <2>3. \A i \in DOMAIN inbox[x] : inbox[x][i] <= p
    BY <1>1, <1>2, <1>5 DEF Ordered, Precedes
  <2>4. \A j \in DOMAIN queue : j \in Nat /\ 1 <= j
    BY <1>1
  <2>5. /\ \A j \in DOMAIN queue : queue[j].meeting = x => p <= queue[j].password
        /\ \A j \in DOMAIN unsent : unsent[j].meeting = x => p <= unsent[j].password
    BY <1>1, <1>2, <1>5, <2>4 DEF Ordered, InOrder, Before
  <2> HIDE DEF m, p, emails
  <2>6. Precedes(emails, queue, x) /\ Precedes(emails, unsent, x)
    BY <1>1, <2>2, <2>5 DEF Ordered, Precedes
  <2>7. ASSUME NEW i \in DOMAIN emails, NEW j \in DOMAIN emails, i <= j
        PROVE  emails[i] <= emails[j]
    <3>1. CASE j \in DOMAIN inbox[x]
      <4>1. i \in DOMAIN inbox[x]
        BY <2>2, <2>7, <3>1
      <4>2. QED
        BY <1>1, <2>2, <2>7, <3>1, <4>1 DEF Ordered
    <3>2. CASE j = Len(inbox[x]) + 1
      BY <1>3, <2>2, <2>3, <3>2
    <3>3. QED
      BY <2>2, <3>1, <3>2
  <2>8. QED
    BY <1>1, <1>3, <2>1, <2>6, <2>7 DEF Ordered
<1>6. QED
  BY <1>4, <1>5

LEMMA OrderAck ==
  ASSUME OrderInv, Ack, NEW x \in Meetings \ overlapped
  PROVE  Ordered(x, inbox[x])'
<1>1. Ordered(x, inbox[x]) /\ queue \in Seq(Message)
  BY DEF OrderInv, StoredInv, TypeInv, TypeOK
<1>2. queue # <<>> /\ queue' = Tail(queue) /\ UNCHANGED <<unsent, inbox>>
  BY DEF Ack, OrderInv, StoredInv, TypeInv, TypeOK
<1>3. \A i \in DOMAIN Tail(queue) : i + 1 \in DOMAIN queue /\ Tail(queue)[i] = queue[i + 1]
  BY <1>1, <1>2, TailShifts
<1>4. InOrder(Tail(queue), x)
  BY <1>1, <1>2, TailInOrder DEF Ordered
<1>5. Before(Tail(queue), unsent, x) /\ Precedes(inbox[x], Tail(queue), x)
  BY <1>1, <1>3 DEF Ordered, Before, Precedes
<1>6. QED
  BY <1>1, <1>2, <1>4, <1>5 DEF Ordered

LEMMA OrderInit == Init => OrderInv
<1> SUFFICES ASSUME Init PROVE OrderInv
  OBVIOUS
<1>1. /\ DOMAIN unsent = {} /\ DOMAIN queue = {}
      /\ \A m \in Meetings : DOMAIN inbox[m] = {}
  BY DEF Init
<1>2. QED
  BY <1>1, StoredInit DEF OrderInv, Ordered, InOrder, Before, Precedes

LEMMA OrderNext == OrderInv /\ [Next]_vars => OrderInv'
<1> SUFFICES ASSUME OrderInv, [Next]_vars PROVE OrderInv'
  OBVIOUS
<1>1. StoredInv'
  BY StoredNext DEF OrderInv
<1>2. overlapped \subseteq overlapped'
  BY DEF Next, Create, Recreate, resendAssessmentEmail, joinAssessmentMeeting, uploadMeetingVideo,
     Start, Begin, Continue, InsertMeeting, UpdateMeeting, DeleteQuestions, SaveMeeting, SendEmail,
     SaveJoined, SaveVideo, Store, candidate_signIn, signOut, sendToQueue, Consume, Deliver,
     sendAssessmentEmail, Refuse, Ack, Crash, vars
<1>3. ASSUME NEW x \in Meetings \ overlapped
      PROVE  Ordered(x, inbox[x])'
  <2>1. Ordered(x, inbox[x])
    BY <1>3 DEF OrderInv
  <2>2. CASE UNCHANGED <<unsent, queue, inbox>>
    BY <2>1, <2>2 DEF Ordered
  <2>3. CASE \E r \in Requests, m \in Meetings :
               \/ Create(r, m) \/ Recreate(r, m) \/ resendAssessmentEmail(r, m)
               \/ joinAssessmentMeeting(r, m) \/ uploadMeetingVideo(r, m)
    BY <2>2, <2>3 DEF Create, Recreate, resendAssessmentEmail, joinAssessmentMeeting,
       uploadMeetingVideo, Start, Begin, delivery
  <2>4. CASE \/ \E m \in Meetings : candidate_signIn(m)
             \/ \E c \in Candidates : signOut(c)
             \/ Deliver \/ Refuse \/ UNCHANGED vars
    BY <2>2, <2>4 DEF candidate_signIn, signOut, Deliver, Refuse, vars, delivery
  <2>5. CASE Crash
    <3>1. unsent' = <<>> /\ UNCHANGED <<queue, inbox>>
      BY <2>5 DEF Crash
    <3>2. DOMAIN unsent' = {}
      BY <3>1
    <3>3. QED
      BY <2>1, <3>1, <3>2 DEF Ordered, InOrder, Before, Precedes
  <2>6. QED
    BY <1>3, <2>3, <2>4, <2>5, OrderContinue, OrderPublish, OrderSend, OrderAck DEF Next, Consume
<1>4. QED
  BY <1>1, <1>2, <1>3 DEF OrderInv

(* Where requests on a meeting do not overlap, its candidate never gets an   *)
(* older password after a newer one, nor one that is not stored: the         *)
(* handlers store it before they issue its email, the queue keeps the order  *)
(* of the calls of sendToQueue, the consumer has one message at a time, and  *)
(* what is delivered again after a crash comes first again.                  *)
THEOREM ArriveInOrder == Spec => []PasswordsInOrder
<1>1. OrderInv => PasswordsInOrder
  <2>1. SUFFICES ASSUME OrderInv, NEW m \in Meetings \ overlapped
                 PROVE  LET passwords == Append(inbox[m], meetings[m].password)
                        IN  \A i, j \in DOMAIN passwords :
                              i <= j => passwords[i] <= passwords[j]
    BY DEF PasswordsInOrder
  <2> DEFINE p == meetings[m].password
             passwords == Append(inbox[m], p)
  <2>2. p \in Nat /\ inbox[m] \in Seq(Nat)
    <3>1. inbox[m] \in Seq(1..issued) /\ 1..issued \subseteq Nat
      BY <2>1 DEF OrderInv, StoredInv, TypeInv, TypeOK
    <3>2. QED
      BY <2>1, <3>1, RowsTyped DEF OrderInv, StoredInv, TypeInv, TypeOK
  <2>3. /\ \A i \in DOMAIN inbox[m] : inbox[m][i] <= p
        /\ \A i, j \in DOMAIN inbox[m] : i <= j => inbox[m][i] <= inbox[m][j]
    BY <2>1 DEF OrderInv, Ordered, StoredInv, MailFollows
  <2> HIDE DEF p
  <2>4. /\ Len(inbox[m]) \in Nat
        /\ DOMAIN passwords = DOMAIN inbox[m] \cup {Len(inbox[m]) + 1}
        /\ passwords[Len(inbox[m]) + 1] = p
        /\ \A i \in DOMAIN inbox[m] :
             i \in Nat /\ i <= Len(inbox[m]) /\ passwords[i] = inbox[m][i]
    BY <2>2, AppendAdds
  <2>5. ASSUME NEW i \in DOMAIN passwords, NEW j \in DOMAIN passwords, i <= j
        PROVE  passwords[i] <= passwords[j]
    <3>1. CASE j \in DOMAIN inbox[m]
      <4>1. i \in DOMAIN inbox[m]
        BY <2>4, <2>5, <3>1
      <4>2. QED
        BY <2>3, <2>4, <2>5, <3>1, <4>1
    <3>2. CASE j = Len(inbox[m]) + 1
      BY <2>2, <2>3, <2>4, <3>2
    <3>3. QED
      BY <2>4, <3>1, <3>2
  <2>6. QED
    BY <2>5 DEF p
<1>2. QED
  BY <1>1, OrderInit, OrderNext, PTL DEF Spec
=============================================================================
