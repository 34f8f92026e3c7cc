--------------------------- MODULE EmailDelivery ---------------------------
(* How the password of a meeting reaches its candidate.  publish and         *)
(* recreate-meeting create the meeting with a password, recreate-meeting and *)
(* resend-assessment-email replace it; each then requests an email through   *)
(* the queue send-assessment-email, whose consumer hands it to the provider. *)
(* The candidate signs in with what came and joins; joinAssessmentMeeting    *)
(* and uploadMeetingVideo save the row they read, password and all.          *)
(*                                                                           *)
(* Passwords are numbers, a new one is larger than those before.  The row of *)
(* the table of emails, which nothing reads, and the contents are left out,  *)
(* as is the queue of the invitation emails: its consumer is the same but    *)
(* for the log line on a refusal.                                            *)
EXTENDS Integers, Sequences

CONSTANTS
  Meetings, Requests,
  CandidateOf,   \* the candidate of each meeting
  None,          \* no meeting
  MaxPasswords,  \* passwords beyond which no request starts
  MaxCrashes

ASSUME NoneAssumption == None \notin Meetings
ASSUME BoundsAssumption == MaxPasswords \in Nat /\ MaxCrashes \in Nat

VARIABLES
  meetings,  \* meeting rows: status, whether it has a conversation, and the
             \* password whose hash is stored
  issued,    \* passwords generated so far
  unsent,    \* messages issued with sendToQueue, not awaited, not published
  queue,     \* the queue at the broker; an unacknowledged message is its head
  consumer,  \* where the consumer is with the head of the queue
  inbox,     \* per meeting, the passwords of the emails its candidate got
  lost,      \* meetings one of whose emails was lost with a crash or refused
  overlapped,\* meetings on which two requests were in flight at once
  signedIn,  \* candidates whose client has a token
  frame,     \* what each request in flight holds across its awaits
  crashes

vars == <<meetings, issued, unsent, queue, consumer, inbox, lost, overlapped,
          signedIn, frame, crashes>>
delivery == <<queue, consumer, inbox>>

Candidates == {CandidateOf[m] : m \in Meetings}
Meeting == [status : {"none", "pending", "joined"}, talk : BOOLEAN, password : Nat]
Message == [meeting : Meetings, password : Nat \ {0}]
Frame == [pc : {"idle", "insert", "update", "save", "questions", "send", "join", "upload"},
          meeting : Meetings \cup {None}, status : {"none", "pending", "joined"}, password : Nat]
Idle == [pc |-> "idle", meeting |-> None, status |-> "none", password |-> 0]

TypeOK ==
  /\ meetings \in [Meetings -> Meeting]
  /\ issued \in Nat
  /\ unsent \in Seq(Message)
  /\ queue \in Seq(Message)
  /\ consumer \in {"idle", "timer", "sent"}
  /\ consumer # "idle" => queue # <<>>
  /\ inbox \in [Meetings -> Seq(1..issued)]
  /\ lost \cup overlapped \subseteq Meetings
  /\ signedIn \subseteq Candidates
  /\ frame \in [Requests -> Frame]
  /\ crashes \in 0..MaxCrashes

Init ==
  /\ meetings = [m \in Meetings |-> [status |-> "none", talk |-> FALSE, password |-> 0]]
  /\ issued = 0
  /\ unsent = <<>>
  /\ queue = <<>>
  /\ consumer = "idle"
  /\ inbox = [m \in Meetings |-> <<>>]
  /\ lost = {}
  /\ overlapped = {}
  /\ signedIn = {}
  /\ frame = [r \in Requests |-> Idle]
  /\ crashes = 0

-----------------------------------------------------------------------------
(* Requests; each starts with the meeting it read, and will store a status   *)
(* and a password: one that it generated, or the one that it read.           *)

At(r, pc) == frame[r].pc = pc
Goto(r, pc) == frame' = [frame EXCEPT ![r].pc = pc]
Return(r) == frame' = [frame EXCEPT ![r] = Idle]

Begin(r, m, pc, status, password) ==
  /\ frame[r] = Idle
  /\ overlapped' = IF \A q \in Requests : frame[q].meeting # m
                    THEN overlapped ELSE overlapped \cup {m}
  /\ frame' = [frame EXCEPT ![r] = [pc |-> pc, meeting |-> m, status |-> status,
                                    password |-> password]]
  /\ UNCHANGED <<meetings, unsent, delivery, lost, signedIn, crashes>>

Start(r, m, pc) ==
  /\ issued < MaxPasswords
  /\ issued' = issued + 1
  /\ Begin(r, m, pc, "pending", issued')

(* The row gets the status and the password that the request holds.          *)
Store(r) ==
  /\ meetings' = [meetings EXCEPT ![frame[r].meeting].status = frame[r].status,
                                  ![frame[r].meeting].password = frame[r].password]
  /\ UNCHANGED <<issued, unsent, delivery, lost, overlapped, signedIn, crashes>>

(* A second request would insert another meeting (see Assessments). *)
Create(r, m) ==
  /\ meetings[m].status = "none"
  /\ \A q \in Requests : frame[q].meeting # m
  /\ Start(r, m, "insert")

InsertMeeting(r) == At(r, "insert") /\ Store(r) /\ Goto(r, "send")

(* A meeting whose conversation exists, that is one joined before. *)
Recreate(r, m) == meetings[m].talk /\ Start(r, m, "update")
UpdateMeeting(r) == At(r, "update") /\ Store(r) /\ Goto(r, "questions")

DeleteQuestions(r) ==
  /\ At(r, "questions")
  /\ Goto(r, "send")
  /\ UNCHANGED <<meetings, issued, unsent, delivery, lost, overlapped, signedIn, crashes>>

\* Mutant: the message is issued before the new password is stored.
SaveLater(r) ==
  /\ At(r, "save")
  /\ unsent' = Append(unsent, [meeting |-> frame[r].meeting, password |-> frame[r].password])
  /\ Goto(r, "update")
  /\ UNCHANGED <<meetings, issued, delivery, lost, overlapped, signedIn, crashes>>

(* Only a pending meeting; the entity saved still has the status read. *)
resendAssessmentEmail(r, m) == meetings[m].status = "pending" /\ Start(r, m, "save")
SaveMeeting(r) == At(r, "save") /\ Store(r) /\ Goto(r, "send")

(* The handler resumes after its last save, issues the message and returns. *)
SendEmail(r) ==
  /\ At(r, "send")
  /\ unsent' = Append(unsent, [meeting |-> frame[r].meeting, password |-> frame[r].password])
  /\ Return(r)
  /\ UNCHANGED <<meetings, issued, delivery, lost, overlapped, signedIn, crashes>>

(* The channel publishes in the order of the calls. *)
sendToQueue ==
  /\ unsent # <<>>
  /\ queue' = Append(queue, Head(unsent))
  /\ unsent' = Tail(unsent)
  /\ UNCHANGED <<meetings, issued, consumer, inbox, lost, frame, overlapped, signedIn, crashes>>

-----------------------------------------------------------------------------
(* The candidate *)

CanSignIn(m, password) == meetings[m].status # "none" /\ meetings[m].password = password

(* With the password of an email, which need not be the last one.  The token *)
(* names the candidate, not the meeting.                                     *)
candidate_signIn(m) ==
  /\ \E i \in DOMAIN inbox[m] : CanSignIn(m, inbox[m][i])
  /\ signedIn' = signedIn \cup {CandidateOf[m]}
  /\ UNCHANGED <<meetings, issued, unsent, delivery, lost, overlapped, frame, crashes>>

(* Signing out, or the expiry of the token. *)
signOut(c) ==
  /\ c \in signedIn
  /\ signedIn' = signedIn \ {c}
  /\ UNCHANGED <<meetings, issued, unsent, delivery, lost, overlapped, frame, crashes>>

joinAssessmentMeeting(r, m) ==
  /\ CandidateOf[m] \in signedIn
  /\ meetings[m].status # "none"
  /\ Begin(r, m, "join", "joined", meetings[m].password)
  /\ UNCHANGED issued

(* The questions and the conversation were inserted; the row is saved. *)
SaveJoined(r) ==
  /\ At(r, "join")
  /\ meetings' = [meetings EXCEPT ![frame[r].meeting] =
                    [status |-> "joined", talk |-> TRUE, password |-> frame[r].password]]
  /\ Return(r)
  /\ UNCHANGED <<issued, unsent, delivery, lost, overlapped, signedIn, crashes>>

(* A recording ended (see Recording). *)
uploadMeetingVideo(r, m) ==
  /\ meetings[m].talk
  /\ Begin(r, m, "upload", meetings[m].status, meetings[m].password)
  /\ UNCHANGED issued

SaveVideo(r) == At(r, "upload") /\ Store(r) /\ Return(r)

-----------------------------------------------------------------------------
(* The consumer: one message at a time (prefetch), handled after 100 ms *)

Deliver ==
  /\ consumer = "idle"
  /\ queue # <<>>
  /\ consumer' = "timer"
  /\ UNCHANGED <<meetings, issued, unsent, queue, inbox, lost, frame, overlapped, signedIn, crashes>>

\* Mutant: the message is acknowledged before it is handled.
sendAcknowledged ==
  /\ consumer = "timer"
  /\ \/ inbox' = [inbox EXCEPT ![Head(queue).meeting] = Append(@, Head(queue).password)]
     \/ UNCHANGED inbox
  /\ consumer' = "sent"
  /\ UNCHANGED <<meetings, issued, unsent, queue, lost, frame, overlapped, signedIn, crashes>>

(* The provider takes the email; its answer is on the way.  The template is  *)
(* part of the build; were it missing, no email would be acknowledged.       *)
sendAssessmentEmail ==
  /\ consumer = "timer"
  /\ inbox' = [inbox EXCEPT ![Head(queue).meeting] = Append(@, Head(queue).password)]
  /\ consumer' = "sent"
  /\ UNCHANGED <<meetings, issued, unsent, queue, lost, frame, overlapped, signedIn, crashes>>

\* Mutant: a refused message is not acknowledged.
RefuseAndReturn ==
  /\ consumer = "timer"
  /\ lost' = lost \cup {Head(queue).meeting}
  /\ consumer' = "returned"
  /\ UNCHANGED <<meetings, issued, unsent, queue, inbox, frame, overlapped, signedIn, crashes>>

(* The provider refuses it: res.error is logged, and the message             *)
(* acknowledged all the same.                                                *)
Refuse ==
  /\ consumer = "timer"
  /\ lost' = lost \cup {Head(queue).meeting}
  /\ consumer' = "sent"
  /\ UNCHANGED <<meetings, issued, unsent, queue, inbox, frame, overlapped, signedIn, crashes>>

\* Mutant: the next message is taken with the acknowledgement.
AckAndTakeNext ==
  /\ consumer = "sent"
  /\ queue' = Tail(queue)
  /\ consumer' = "timer"
  /\ UNCHANGED <<meetings, issued, unsent, inbox, lost, frame, overlapped, signedIn, crashes>>

Ack ==
  /\ consumer = "sent"
  /\ queue' = Tail(queue)
  /\ consumer' = "idle"
  /\ UNCHANGED <<meetings, issued, unsent, inbox, lost, frame, overlapped, signedIn, crashes>>

\* Mutant: the broker puts what it redelivers at the end of the queue.
RequeueLast ==
  /\ crashes < MaxCrashes
  /\ crashes' = crashes + 1
  /\ lost' = lost \cup {unsent[i].meeting : i \in DOMAIN unsent}
                  \cup {m \in Meetings : \E r \in Requests : frame[r].meeting = m}
  /\ unsent' = <<>>
  /\ frame' = [r \in Requests |-> Idle]
  /\ queue' = IF consumer = "idle" THEN queue ELSE Append(Tail(queue), Head(queue))
  /\ consumer' = "idle"
  /\ UNCHANGED <<meetings, issued, inbox, overlapped, signedIn>>

(* The process stops (also when the provider cannot be reached: the          *)
(* rejection is not handled) and starts again; the broker redelivers.        *)
Crash ==
  /\ crashes < MaxCrashes
  /\ crashes' = crashes + 1
  /\ lost' = lost \cup {unsent[i].meeting : i \in DOMAIN unsent}
                  \cup {m \in Meetings : \E r \in Requests : frame[r].meeting = m}
  /\ unsent' = <<>>
  /\ frame' = [r \in Requests |-> Idle]
  /\ consumer' = "idle"
  /\ UNCHANGED <<meetings, issued, queue, inbox, overlapped, signedIn>>

Continue(r) ==
  \/ InsertMeeting(r)
  \/ UpdateMeeting(r)
  \/ DeleteQuestions(r)
  \/ SaveMeeting(r)
  \/ SendEmail(r)
  \/ SaveJoined(r)
  \/ SaveVideo(r)

Consume == Deliver \/ sendAssessmentEmail \/ Refuse \/ Ack

Next ==
  \/ \E r \in Requests, m \in Meetings :
       \/ Create(r, m) \/ Recreate(r, m) \/ resendAssessmentEmail(r, m)
       \/ joinAssessmentMeeting(r, m) \/ uploadMeetingVideo(r, m)
  \/ \E r \in Requests : Continue(r)
  \/ \E m \in Meetings : candidate_signIn(m)
  \/ \E c \in Candidates : signOut(c)
  \/ sendToQueue
  \/ Consume
  \/ Crash

Spec == Init /\ [][Next]_vars

(* The event loop resumes what came back, and the broker delivers. *)
FairSpec ==
  Spec /\ WF_vars(sendToQueue) /\ WF_vars(Consume) /\ \A r \in Requests : WF_vars(Continue(r))

-----------------------------------------------------------------------------
(* Properties *)

(* "Use the following password to join the interview": when nothing is under *)
(* way, the last email of a candidate has the password that opens the        *)
(* meeting, unless an email was lost or two requests overlapped; redelivery  *)
(* after a crash repeats emails, it never brings an older one last.          *)
LastEmailOpens ==
  \A m \in Meetings :
    \/ m \in lost \cup overlapped
    \/ meetings[m].status = "none"
    \/ \E r \in Requests : frame[r].meeting = m
    \/ \E i \in DOMAIN unsent : unsent[i].meeting = m
    \/ \E i \in DOMAIN queue : queue[i].meeting = m
    \/ inbox[m] # <<>> /\ CanSignIn(m, inbox[m][Len(inbox[m])])

(* Where requests on a meeting do not overlap, its emails come in the order  *)
(* of their passwords, and none before its password is stored: what is sent  *)
(* again after a crash repeats the last, and a link opened at once works, or *)
(* its password was replaced by a newer one.                                 *)
PasswordsInOrder ==
  \A m \in Meetings \ overlapped :
    LET passwords == Append(inbox[m], meetings[m].password)
    IN  \A i, j \in DOMAIN passwords : i <= j => passwords[i] <= passwords[j]

(* Every message that reached the queue is sent or refused in the end, and   *)
(* those behind it get their turn.                                           *)
EveryEmailIsHandled ==
  \A m \in Meetings, p \in 1..MaxPasswords :
    (\E i \in DOMAIN queue : queue[i] = [meeting |-> m, password |-> p])
      ~> ~ \E i \in DOMAIN queue : queue[i] = [meeting |-> m, password |-> p]
=============================================================================
