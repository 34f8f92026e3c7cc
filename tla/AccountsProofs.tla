--------------------------- MODULE AccountsProofs ---------------------------
(* Theorems about Accounts, for every set of addresses, users, clients and   *)
(* candidate rows, any number of requests in flight and of restarts.         *)
EXTENDS Accounts, FiniteSetTheorems, TLAPS

-----------------------------------------------------------------------------
(* One administrator *)

(* How far the setup got, what is configured and who is there agree: until   *)
(* the setup records that it is done, whoever is there was orphaned or is    *)
(* this setup's own administrator.                                           *)
SetupInv ==
  /\ setup \in Setup
  /\ Reached("done") => configured
  /\ setup.pc \in {"register", "insert", "save"} => ~configured
  /\ configured => admins # {}
  /\ Reached("save") => admins # {}
  /\ ~configured /\ ~Reached("save") => admins \subseteq orphaned
  /\ Reached("save") => admins \subseteq orphaned \cup {setup.address}
  /\ configured => \E a : admins \subseteq orphaned \cup {a}

(* No request touches what the setup is about. *)
LEMMA SetupSteps == [Next]_vars => setupService \/ Restart \/ UNCHANGED service
BY DEF Next, SignIn, ManageCandidates, user_signIn, admin_signIn, admin_impersonate, Sign,
       create, Enter, updateCandidate, SetCookie, InsertCandidate, SaveCandidate,
       signOut, Expire, Accept, revokeMembership, vars

LEMMA SetupNext == SetupInv /\ [Next]_vars => SetupInv'
<1> SUFFICES ASSUME SetupInv, [Next]_vars
             PROVE  SetupInv'
  OBVIOUS
<1> USE DEF SetupInv, Reached, Proceed, Setup
<1>1. CASE FindConfiguration
  BY <1>1 DEF FindConfiguration
<1>2. CASE registerAdmin
  BY <1>2 DEF registerAdmin
<1>3. CASE InsertAdmin
  BY <1>3 DEF InsertAdmin
<1>4. CASE SaveConfiguration
  BY <1>4 DEF SaveConfiguration
<1>5. CASE Restart
  BY <1>5 DEF Restart
<1>6. CASE UNCHANGED service
  BY <1>6 DEF service
<1>7. QED
  BY <1>1, <1>2, <1>3, <1>4, <1>5, <1>6, SetupSteps DEF setupService

LEMMA SetupInit == Init => SetupInv
BY DEF Init, SetupInv, Setup, Reached

(* Restarts with another ADMIN_EMAIL_ADDRESS (setupService, registerAdmin):  *)
(* of the administrators at most one was not left behind by a crash between  *)
(* the insert of the administrator and that of the configuration, and once   *)
(* there is a configuration, no administrator is added any more.             *)
THEOREM SingleAdmin == Spec => []OneAdmin /\ AdminsSettled
<1>1. SetupInv => OneAdmin
  BY DEF SetupInv, OneAdmin
<1>2. SetupInv /\ [Next]_vars => [configured => admins' = admins]_vars
  <2> SUFFICES ASSUME SetupInv, [Next]_vars, configured
               PROVE  admins' = admins
    OBVIOUS
  <2>1. CASE setupService
    BY <2>1 DEF setupService, FindConfiguration, registerAdmin, InsertAdmin, SaveConfiguration,
                SetupInv, Reached
  <2>2. CASE Restart
    BY <2>2 DEF Restart
  <2>3. CASE UNCHANGED service
    BY <2>3 DEF service
  <2>4. QED
    BY <2>1, <2>2, <2>3, SetupSteps
<1>3. QED
  BY <1>1, <1>2, SetupInit, SetupNext, PTL DEF Spec, AdminsSettled

-----------------------------------------------------------------------------
(* Type correctness *)

(* Besides the types: a token in the making is one, and what is about to be  *)
(* inserted or saved names an organization and an address.                   *)
FrameInv ==
  \A r \in Requests :
    /\ frame[r].pc = "sign" => frame[r].client \in Clients
    /\ frame[r].pc = "insert" => frame[r].organization \in Organizations /\ frame[r].address \in Emails
    /\ frame[r].pc = "save" => frame[r].row \in DOMAIN candidates /\ frame[r].address \in Emails

TypeInv == TypeOK /\ FrameInv

LEMMA IdleIsFrame == Idle \in Frame
BY DEF Idle, Frame

LEMMA IdleHolds == Idle.pc = "idle"
BY DEF Idle

SignFrame(c, t) == [Idle EXCEPT !.pc = "sign", !.client = c, !.token = t]
InsertFrame(o, e) == [Idle EXCEPT !.pc = "insert", !.organization = o, !.address = e]
SaveFrame(x, e) == [Idle EXCEPT !.pc = "save", !.row = x, !.address = e]

LEMMA SignHolds ==
  ASSUME NEW c \in Clients, NEW t \in Token
  PROVE  SignFrame(c, t) \in Frame /\ SignFrame(c, t).pc = "sign" /\ SignFrame(c, t).client = c
BY IdleIsFrame DEF Frame, SignFrame

LEMMA InsertHolds ==
  ASSUME NEW o \in Organizations, NEW e \in Emails
  PROVE  /\ InsertFrame(o, e) \in Frame /\ InsertFrame(o, e).pc = "insert"
         /\ InsertFrame(o, e).organization = o /\ InsertFrame(o, e).address = e
BY IdleIsFrame DEF Frame, InsertFrame

LEMMA SaveHolds ==
  ASSUME NEW x \in Rows, NEW e \in Emails
  PROVE  /\ SaveFrame(x, e) \in Frame /\ SaveFrame(x, e).pc = "save"
         /\ SaveFrame(x, e).row = x /\ SaveFrame(x, e).address = e
BY IdleIsFrame DEF Frame, SaveFrame

(* What one request does to the frames: it comes to hold something, or is    *)
(* done.                                                                     *)
LEMMA FrameSet ==
  ASSUME TypeInv, NEW r \in Requests, NEW f \in Frame, frame' = [frame EXCEPT ![r] = f],
         \A x \in DOMAIN candidates : x \in DOMAIN candidates',
         f.pc = "sign" => f.client \in Clients,
         f.pc = "insert" => f.organization \in Organizations /\ f.address \in Emails,
         f.pc = "save" => f.row \in DOMAIN candidates /\ f.address \in Emails
  PROVE  frame' \in [Requests -> Frame] /\ FrameInv'
<1>1. frame \in [Requests -> Frame]
  BY DEF TypeInv, TypeOK
<1>2. frame' \in [Requests -> Frame] /\ frame'[r] = f
      /\ \A q \in Requests : q # r => frame'[q] = frame[q]
  BY <1>1
<1>3. ASSUME NEW q \in Requests
      PROVE  /\ frame'[q].pc = "sign" => frame'[q].client \in Clients
             /\ frame'[q].pc = "insert" =>
                  frame'[q].organization \in Organizations /\ frame'[q].address \in Emails
             /\ frame'[q].pc = "save" =>
                  frame'[q].row \in DOMAIN candidates' /\ frame'[q].address \in Emails
  <2>1. CASE q = r
    BY <1>2, <2>1
  <2>2. CASE q # r
    <3>1. frame'[q] = frame[q]
      BY <1>2, <2>2
    <3>2. /\ frame[q].pc = "sign" => frame[q].client \in Clients
          /\ frame[q].pc = "insert" => frame[q].organization \in Organizations /\ frame[q].address \in Emails
          /\ frame[q].pc = "save" => frame[q].row \in DOMAIN candidates /\ frame[q].address \in Emails
      BY DEF TypeInv, FrameInv
    <3>3. QED
      BY <3>1, <3>2
  <2>3. QED
    BY <2>1, <2>2
<1>4. QED
  BY <1>2, <1>3 DEF FrameInv

LEMMA ReturnSet ==
  ASSUME TypeInv, NEW r \in Requests, Return(r),
         \A x \in DOMAIN candidates : x \in DOMAIN candidates'
  PROVE  frame' \in [Requests -> Frame] /\ FrameInv'
BY FrameSet, IdleIsFrame, IdleHolds DEF Return

LEMMA FrameSame ==
  ASSUME FrameInv, UNCHANGED <<frame, candidates>>
  PROVE  FrameInv'
BY DEF FrameInv

LEMMA SignType ==
  ASSUME TypeInv, NEW r \in Requests, NEW c \in Clients, NEW t \in Token, Sign(r, c, t)
  PROVE  TypeInv'
<1> DEFINE f == SignFrame(c, t)
<1>1. f \in Frame /\ f.pc = "sign" /\ f.client \in Clients
  BY SignHolds
<1>2. frame' = [frame EXCEPT ![r] = f] /\ UNCHANGED <<service, users, cookie, list, crashes>>
  BY DEF Sign, Begin, SignFrame
<1> HIDE DEF f
<1>3. frame' \in [Requests -> Frame] /\ FrameInv'
  BY <1>1, <1>2, FrameSet DEF list
<1>4. QED
  BY <1>2, <1>3 DEF TypeInv, TypeOK, service, list

LEMMA SignInType ==
  ASSUME TypeInv, NEW r \in Requests, NEW c \in Clients, SignIn(r, c)
  PROVE  TypeInv'
<1>1. ASSUME NEW u \in Users, IsMember(u)
      PROVE  UserToken(u) \in Token
  <2>1. users[u] \in Organizations
    BY <1>1 DEF IsMember, TypeInv, TypeOK, Range
  <2>2. QED
    BY <2>1 DEF UserToken, Token
<1>2. \A a \in Addresses : AdminToken(a) \in Token
  BY DEF AdminToken, Token
<1>3. ASSUME NEW u \in Users, user_signIn(r, c, u) \/ admin_impersonate(r, c, u)
      PROVE  TypeInv'
  BY <1>1, <1>3, SignType DEF user_signIn, admin_impersonate
<1>4. ASSUME NEW a \in Addresses, admin_signIn(r, c, a)
      PROVE  TypeInv'
  BY <1>2, <1>4, SignType DEF admin_signIn
<1>5. QED
  BY <1>3, <1>4 DEF SignIn

LEMMA CookieType ==
  ASSUME TypeInv, NEW r \in Requests, SetCookie(r)
  PROVE  TypeInv'
<1>1. frame[r].client \in Clients /\ frame[r].token \in Token \cup {None}
  BY DEF SetCookie, TypeInv, FrameInv, TypeOK, Frame
<1>2. /\ cookie' = [cookie EXCEPT ![frame[r].client] = frame[r].token]
      /\ Return(r) /\ UNCHANGED <<service, users, list, crashes>>
  BY DEF SetCookie
<1>3. cookie' \in [Clients -> Token \cup {None}]
  BY <1>1, <1>2 DEF TypeInv, TypeOK
<1>4. frame' \in [Requests -> Frame] /\ FrameInv'
  BY <1>2, ReturnSet DEF list
<1>5. QED
  BY <1>2, <1>3, <1>4 DEF TypeInv, TypeOK, service, list

LEMMA SignOutType ==
  ASSUME TypeInv, NEW c \in Clients, signOut(c) \/ Expire(c)
  PROVE  TypeInv'
BY FrameSame DEF signOut, Expire, TypeInv, TypeOK, service, list

LEMMA MembershipType ==
  ASSUME TypeInv, NEW u \in Users,
         \/ \E o \in Organizations : Accept(u, o)
         \/ \E c \in Clients : revokeMembership(c, u)
  PROVE  TypeInv'
<1>1. UNCHANGED <<service, cookie, list, frame, crashes>>
  BY DEF Accept, revokeMembership
<1>2. DOMAIN users' \subseteq Users /\ Range(users') \subseteq Organizations \cup {None}
  <2>1. ASSUME NEW o \in Organizations, Accept(u, o)
        PROVE  DOMAIN users' \subseteq Users /\ Range(users') \subseteq Organizations \cup {None}
    BY <2>1 DEF Accept, TypeInv, TypeOK, Range
  <2>2. ASSUME NEW c \in Clients, revokeMembership(c, u)
        PROVE  DOMAIN users' \subseteq Users /\ Range(users') \subseteq Organizations \cup {None}
    BY <2>2 DEF revokeMembership, TypeInv, TypeOK, Range
  <2>3. QED
    BY <2>1, <2>2
<1>3. FrameInv'
  BY <1>1, FrameSame DEF TypeInv, list
<1>4. QED
  BY <1>1, <1>2, <1>3 DEF TypeInv, TypeOK, service, list

LEMMA ManageType ==
  ASSUME TypeInv, NEW r \in Requests, NEW c \in Clients, ManageCandidates(r, c)
  PROVE  TypeInv'
<1>1. ASSUME NEW e \in Emails, create(r, c, e)
      PROVE  TypeInv'
  <2> DEFINE o == Performer(c).organization
  <2> DEFINE f == InsertFrame(o, e)
  <2>1. o \in Organizations
    BY <1>1 DEF create, CanActivateMember
  <2>2. /\ frame' = [frame EXCEPT ![r] = f]
        /\ \/ raced' = raced \cup {[organization |-> o, address |-> e]}
           \/ raced' = raced
        /\ UNCHANGED <<service, users, cookie, candidates, moved, crashes>>
    <3>1. Enter(r, [organization |-> o, address |-> e])
      BY <1>1 DEF create
    <3>2. frame' = [frame EXCEPT ![r] = [Idle EXCEPT !.pc = "insert", !.organization = o, !.address = e]]
      BY <3>1 DEF Enter, Begin
    <3> HIDE DEF o
    <3>3. QED
      BY <3>1, <3>2 DEF Enter, InsertFrame
  <2> HIDE DEF o
  <2>3. f \in Frame /\ f.pc = "insert" /\ f.organization \in Organizations /\ f.address \in Emails
        /\ [organization |-> o, address |-> e] \in Candidate
    BY <2>1, InsertHolds DEF Candidate
  <2> HIDE DEF f
  <2>4. frame' \in [Requests -> Frame] /\ FrameInv'
    BY <2>2, <2>3, FrameSet
  <2>5. raced' \subseteq Candidate
    BY <2>2, <2>3 DEF TypeInv, TypeOK
  <2>6. QED
    BY <2>2, <2>4, <2>5 DEF TypeInv, TypeOK, service
<1>2. ASSUME NEW x \in Rows, NEW e \in Emails \cup {None}, updateCandidate(r, c, x, e)
      PROVE  TypeInv'
  <2> DEFINE a == IF e = None THEN candidates[x].address ELSE e
  <2> DEFINE f == SaveFrame(x, a)
  <2>1. x \in DOMAIN candidates /\ a \in Emails
    <3>1. x \in DOMAIN candidates
      BY <1>2 DEF updateCandidate
    <3>2. candidates[x] \in Candidate
      BY <3>1 DEF TypeInv, TypeOK, Range
    <3>3. QED
      BY <3>1, <3>2 DEF Candidate
  <2>2. /\ frame' = [frame EXCEPT ![r] = f]
        /\ UNCHANGED <<service, users, cookie, list, crashes>>
    BY <1>2 DEF updateCandidate, Begin, SaveFrame
  <2> HIDE DEF a
  <2>3. f \in Frame /\ f.pc = "save" /\ f.row \in DOMAIN candidates /\ f.address \in Emails
    BY <2>1, SaveHolds
  <2> HIDE DEF f
  <2>4. frame' \in [Requests -> Frame] /\ FrameInv'
    BY <2>2, <2>3, FrameSet DEF list
  <2>5. QED
    BY <2>2, <2>4 DEF TypeInv, TypeOK, service, list
<1>3. QED
  BY <1>1, <1>2 DEF ManageCandidates

(* One row comes, with the organization and the address that the request     *)
(* holds; or one row changes, and if it does it is remembered as moved.      *)
LEMMA InsertedRow ==
  ASSUME TypeInv, NEW r \in Requests, InsertCandidate(r)
  PROVE  \E x \in Rows \ DOMAIN candidates :
           /\ DOMAIN candidates' = DOMAIN candidates \cup {x}
           /\ candidates'[x] = [organization |-> frame[r].organization, address |-> frame[r].address]
           /\ \A y \in DOMAIN candidates : candidates'[y] = candidates[y]
BY DEF InsertCandidate

LEMMA SavedRow ==
  ASSUME TypeInv, NEW r \in Requests, SaveCandidate(r)
  PROVE  /\ DOMAIN candidates' = DOMAIN candidates
         /\ frame[r].row \in DOMAIN candidates
         /\ candidates'[frame[r].row] = [candidates[frame[r].row] EXCEPT !.address = frame[r].address]
         /\ \A y \in DOMAIN candidates : y # frame[r].row => candidates'[y] = candidates[y]
         /\ \/ \A y \in DOMAIN candidates : candidates'[y] = candidates[y]
            \/ frame[r].row \in moved'
         /\ moved' = moved \/ moved' = moved \cup {frame[r].row}
BY DEF SaveCandidate, TypeInv, FrameInv

LEMMA CandidateType ==
  ASSUME TypeInv, NEW r \in Requests, InsertCandidate(r) \/ SaveCandidate(r)
  PROVE  TypeInv'
<1>1. DOMAIN candidates \subseteq DOMAIN candidates'
  BY InsertedRow, SavedRow
<1>2. frame' \in [Requests -> Frame] /\ FrameInv'
  BY <1>1, ReturnSet DEF InsertCandidate, SaveCandidate
<1>3. \A x \in DOMAIN candidates : candidates[x] \in Candidate
  BY DEF TypeInv, TypeOK, Range
<1>4. DOMAIN candidates' \subseteq Rows /\ \A x \in DOMAIN candidates' : candidates'[x] \in Candidate
  <2>1. CASE InsertCandidate(r)
    <3>1. frame[r].organization \in Organizations /\ frame[r].address \in Emails
      BY <2>1 DEF InsertCandidate, TypeInv, FrameInv
    <3>2. [organization |-> frame[r].organization, address |-> frame[r].address] \in Candidate
      BY <3>1 DEF Candidate
    <3>3. DOMAIN candidates \subseteq Rows
      BY DEF TypeInv, TypeOK
    <3>4. QED
      BY <1>3, <2>1, <3>2, <3>3, InsertedRow
  <2>2. CASE SaveCandidate(r)
    <3>1. frame[r].row \in DOMAIN candidates /\ frame[r].address \in Emails
      BY <2>2 DEF SaveCandidate, TypeInv, FrameInv
    <3>2. [candidates[frame[r].row] EXCEPT !.address = frame[r].address] \in Candidate
      BY <1>3, <3>1 DEF Candidate
    <3>3. DOMAIN candidates \subseteq Rows
      BY DEF TypeInv, TypeOK
    <3>4. QED
      BY <1>3, <2>2, <3>2, <3>3, SavedRow
  <2>3. QED
    BY <2>1, <2>2
<1>5. Range(candidates') \subseteq Candidate
  BY <1>4 DEF Range
<1>6. moved' \subseteq DOMAIN candidates' /\ raced' \subseteq Candidate
  BY <1>1, SavedRow DEF InsertCandidate, SaveCandidate, TypeInv, TypeOK
<1>7. UNCHANGED <<service, users, cookie, crashes>>
  BY DEF InsertCandidate, SaveCandidate
<1>8. QED
  BY <1>2, <1>4, <1>5, <1>6, <1>7 DEF TypeInv, TypeOK, service

LEMMA TypeNext == TypeInv /\ [Next]_vars => TypeInv'
<1> SUFFICES ASSUME TypeInv, [Next]_vars
             PROVE  TypeInv'
  OBVIOUS
<1>1. CASE setupService
  <2>1. setup' \in Setup /\ admins' \subseteq Addresses /\ configured' \in BOOLEAN
    BY <1>1 DEF setupService, FindConfiguration, registerAdmin, InsertAdmin, SaveConfiguration,
                Proceed, Setup, TypeInv, TypeOK
  <2>2. UNCHANGED <<orphaned, users, cookie, list, frame, crashes>>
    BY <1>1 DEF setupService, FindConfiguration, registerAdmin, InsertAdmin, SaveConfiguration
  <2>3. QED
    BY <2>1, <2>2, FrameSame DEF TypeInv, TypeOK, list
<1>2. CASE Restart
  <2>1. frame' \in [Requests -> Frame] /\ FrameInv'
    BY <1>2, IdleIsFrame, IdleHolds DEF Restart, FrameInv
  <2>2. setup' \in Setup
    BY <1>2 DEF Restart, Setup
  <2>3. crashes' \in 0..MaxCrashes /\ orphaned' \subseteq Addresses
    BY <1>2, CrashesAssumption DEF Restart, Reached, Setup, TypeInv, TypeOK
  <2>4. QED
    BY <1>2, <2>1, <2>2, <2>3 DEF Restart, TypeInv, TypeOK, list
<1>3. CASE UNCHANGED vars
  BY <1>3, FrameSame DEF vars, service, list, TypeInv, TypeOK
<1>4. QED
  BY <1>1, <1>2, <1>3, SignInType, ManageType, CookieType, CandidateType, SignOutType,
     MembershipType DEF Next

LEMMA TypeInit == Init => TypeInv
<1>1. SUFFICES ASSUME Init PROVE TypeInv
  OBVIOUS
<1>2. frame \in [Requests -> Frame] /\ FrameInv
  BY <1>1, IdleIsFrame, IdleHolds DEF Init, FrameInv
<1>3. DOMAIN Empty = {} /\ Range(Empty) = {}
  BY DEF Empty, Range
<1>4. setup \in Setup /\ crashes \in 0..MaxCrashes
  BY <1>1, CrashesAssumption DEF Init, Setup
<1>5. QED
  BY <1>1, <1>2, <1>3, <1>4 DEF Init, TypeInv, TypeOK

(* Tokens, rows and what requests hold keep their types: no token is ever    *)
(* signed for a user without an organization (user_signIn,                   *)
(* admin_impersonate).                                                       *)
THEOREM TypeCorrect == Spec => []TypeOK
<1>1. TypeInv => TypeOK
  BY DEF TypeInv
<1>2. QED
  BY <1>1, TypeInit, TypeNext, PTL DEF Spec

-----------------------------------------------------------------------------
(* One candidate per address *)

Wanted(r) == [organization |-> frame[r].organization, address |-> frame[r].address]
Wants(r) == frame[r].pc = "insert"

(* Between the check and the insert: rows that have come to be the same were *)
(* moved there, and a second request for the same was noticed as a race.     *)
ListInv ==
  /\ OneCandidatePerAddress
  /\ \A r \in Requests : Wants(r) =>
       \/ Wanted(r) \in raced
       \/ \A x \in DOMAIN candidates : candidates[x] = Wanted(r) => x \in moved
  /\ \A r, q \in Requests :
       r # q /\ Wants(r) /\ Wants(q) /\ Wanted(r) = Wanted(q) => Wanted(r) \in raced

(* A step after which nobody wants anything new. *)
LEMMA ListSame ==
  ASSUME ListInv, UNCHANGED list,
         \A r \in Requests : Wants(r)' => Wants(r) /\ frame'[r] = frame[r]
  PROVE  ListInv'
<1>1. OneCandidatePerAddress'
  BY DEF ListInv, OneCandidatePerAddress, list
<1>2. \A r \in Requests : Wants(r)' => Wants(r) /\ Wanted(r)' = Wanted(r)
  BY DEF Wanted
<1>3. QED
  BY <1>1, <1>2 DEF ListInv, list

LEMMA FrameChange ==
  ASSUME TypeInv, NEW r \in Requests, NEW f, frame' = [frame EXCEPT ![r] = f]
  PROVE  frame'[r] = f /\ \A q \in Requests : q # r => frame'[q] = frame[q]
BY DEF TypeInv, TypeOK

LEMMA ListCreate ==
  ASSUME TypeInv, ListInv, NEW r \in Requests, NEW c \in Clients, NEW e \in Emails, create(r, c, e)
  PROVE  ListInv'
<1> DEFINE o == Performer(c).organization
<1> DEFINE w == [organization |-> o, address |-> e]
<1>1. o \in Organizations
  BY DEF create, CanActivateMember
<1>2. Enter(r, [organization |-> o, address |-> e])
  BY DEF create
<1>3. \A x \in DOMAIN candidates : candidates[x] # w
  BY DEF create, Range
<1>4. frame' = [frame EXCEPT ![r] = [Idle EXCEPT !.pc = "insert", !.organization = o, !.address = e]]
      /\ frame[r] = Idle
  BY <1>2 DEF Enter, Begin
<1>5. raced' = IF w \in Inserting THEN raced \cup {w} ELSE raced
  BY <1>2 DEF Enter
<1>6. UNCHANGED <<candidates, moved>>
  BY <1>2 DEF Enter
<1> HIDE DEF o
<1>7. /\ frame'[r] = InsertFrame(o, e)
      /\ \A q \in Requests : q # r => frame'[q] = frame[q]
  BY <1>4, FrameChange DEF InsertFrame
<1>8. Wants(r)' /\ Wanted(r)' = w /\ ~Wants(r)
  BY <1>1, <1>4, <1>7, InsertHolds, IdleHolds DEF Wants, Wanted
<1>9. \A q \in Requests : q # r => (Wants(q)' <=> Wants(q)) /\ Wanted(q)' = Wanted(q)
  BY <1>7 DEF Wants, Wanted
<1>10. \A q \in Requests : Wants(q) => Wanted(q) \in Inserting
  BY DEF Wants, Wanted, Inserting
<1> HIDE DEF w
<1>11. raced \subseteq raced' /\ \A q \in Requests : Wants(q) /\ Wanted(q) = w => w \in raced'
  BY <1>5, <1>10
<1>12. OneCandidatePerAddress'
  BY <1>6, <1>11 DEF ListInv, OneCandidatePerAddress
<1>13. ASSUME NEW q \in Requests, Wants(q)'
       PROVE  \/ Wanted(q)' \in raced'
              \/ \A x \in DOMAIN candidates' : candidates'[x] = Wanted(q)' => x \in moved'
  <2>1. CASE q = r
    BY <1>3, <1>6, <1>8, <2>1
  <2>2. CASE q # r
    BY <1>6, <1>9, <1>11, <1>13, <2>2 DEF ListInv
  <2>3. QED
    BY <2>1, <2>2
<1>14. ASSUME NEW p \in Requests, NEW q \in Requests, p # q, Wants(p)', Wants(q)',
              Wanted(p)' = Wanted(q)'
       PROVE  Wanted(p)' \in raced'
  <2>1. CASE p # r /\ q # r
    BY <1>9, <1>11, <1>14, <2>1 DEF ListInv
  <2>2. CASE p = r \/ q = r
    BY <1>8, <1>9, <1>11, <1>14, <2>2
  <2>3. QED
    BY <2>1, <2>2
<1>15. QED
  BY <1>12, <1>13, <1>14 DEF ListInv

LEMMA ReturnWants ==
  ASSUME TypeInv, NEW r \in Requests, Return(r)
  PROVE  ~Wants(r)' /\ \A q \in Requests : q # r => frame'[q] = frame[q]
BY FrameChange, IdleHolds DEF Return, Wants

LEMMA ListInsert ==
  ASSUME TypeInv, ListInv, NEW r \in Requests, InsertCandidate(r)
  PROVE  ListInv'
<1>1. PICK x \in Rows \ DOMAIN candidates :
        /\ DOMAIN candidates' = DOMAIN candidates \cup {x}
        /\ candidates'[x] = Wanted(r)
        /\ \A y \in DOMAIN candidates : candidates'[y] = candidates[y]
  BY InsertedRow DEF Wanted
<1>2. Wants(r) /\ Return(r) /\ UNCHANGED <<moved, raced>>
  BY DEF InsertCandidate, Wants
<1>3. \A q \in Requests : Wants(q)' => q # r /\ Wants(q) /\ Wanted(q)' = Wanted(q)
  BY <1>2, ReturnWants DEF Wants, Wanted
<1>4. ASSUME NEW y \in DOMAIN candidates', NEW z \in DOMAIN candidates', y # z,
             candidates'[y] = candidates'[z]
      PROVE  candidates'[y] \in raced' \/ {y, z} \cap moved' # {}
  <2>1. CASE y # x /\ z # x
    BY <1>1, <1>2, <1>4, <2>1 DEF ListInv, OneCandidatePerAddress
  <2>2. CASE y = x
    BY <1>1, <1>2, <1>4, <2>2 DEF ListInv
  <2>3. CASE z = x
    BY <1>1, <1>2, <1>4, <2>3 DEF ListInv
  <2>4. QED
    BY <2>1, <2>2, <2>3
<1>5. OneCandidatePerAddress'
  BY <1>4 DEF OneCandidatePerAddress
<1>6. ASSUME NEW q \in Requests, Wants(q)'
      PROVE  \/ Wanted(q)' \in raced'
             \/ \A y \in DOMAIN candidates' : candidates'[y] = Wanted(q)' => y \in moved'
  <2>1. q # r /\ Wants(q) /\ Wanted(q)' = Wanted(q)
    BY <1>3, <1>6
  <2>2. CASE Wanted(q) = Wanted(r)
    BY <1>2, <2>1, <2>2 DEF ListInv
  <2>3. CASE Wanted(q) # Wanted(r)
    BY <1>1, <1>2, <2>1, <2>3 DEF ListInv
  <2>4. QED
    BY <2>2, <2>3
<1>7. \A p, q \in Requests :
        p # q /\ Wants(p)' /\ Wants(q)' /\ Wanted(p)' = Wanted(q)' => Wanted(p)' \in raced'
  BY <1>2, <1>3 DEF ListInv
<1>8. QED
  BY <1>5, <1>6, <1>7 DEF ListInv

LEMMA ListSave ==
  ASSUME TypeInv, ListInv, NEW r \in Requests, SaveCandidate(r)
  PROVE  ListInv'
<1> DEFINE x == frame[r].row
<1>1. /\ DOMAIN candidates' = DOMAIN candidates
      /\ \A y \in DOMAIN candidates : y \notin moved' => candidates'[y] = candidates[y]
      /\ moved \subseteq moved'
  BY SavedRow
<1>2. Return(r) /\ raced' = raced
  BY DEF SaveCandidate
<1>3. \A q \in Requests : Wants(q)' => Wants(q) /\ Wanted(q)' = Wanted(q)
  BY <1>2, ReturnWants DEF Wants, Wanted
<1>4. OneCandidatePerAddress'
  BY <1>1, <1>2 DEF ListInv, OneCandidatePerAddress
<1>5. \A q \in Requests : Wants(q)' =>
        \/ Wanted(q)' \in raced'
        \/ \A y \in DOMAIN candidates' : candidates'[y] = Wanted(q)' => y \in moved'
  BY <1>1, <1>2, <1>3 DEF ListInv
<1>6. \A p, q \in Requests :
        p # q /\ Wants(p)' /\ Wants(q)' /\ Wanted(p)' = Wanted(q)' => Wanted(p)' \in raced'
  BY <1>2, <1>3 DEF ListInv
<1>7. QED
  BY <1>4, <1>5, <1>6 DEF ListInv

LEMMA ListNext == TypeInv /\ ListInv /\ [Next]_vars => ListInv'
<1> SUFFICES ASSUME TypeInv, ListInv, [Next]_vars
             PROVE  ListInv'
  OBVIOUS
<1>1. CASE setupService \/ UNCHANGED vars
  <2>1. UNCHANGED <<list, frame>>
    BY <1>1 DEF setupService, FindConfiguration, registerAdmin, InsertAdmin, SaveConfiguration, vars
  <2>2. QED
    BY <2>1, ListSame DEF Wants
<1>2. CASE Restart
  BY <1>2, ListSame, IdleHolds DEF Restart, Wants
<1>3. ASSUME NEW r \in Requests, NEW c \in Clients, NEW t, Sign(r, c, t)
      PROVE  ListInv'
  <2>1. frame' = [frame EXCEPT ![r] = SignFrame(c, t)] /\ UNCHANGED list
    BY <1>3 DEF Sign, Begin, SignFrame
  <2>2. SignFrame(c, t).pc = "sign"
    BY IdleIsFrame DEF SignFrame, Frame
  <2>3. QED
    BY <2>1, <2>2, FrameChange, ListSame DEF Wants
<1>4. ASSUME NEW r \in Requests, NEW c \in Clients, SignIn(r, c)
      PROVE  ListInv'
  BY <1>3, <1>4 DEF SignIn, user_signIn, admin_impersonate, admin_signIn
<1>5. ASSUME NEW r \in Requests, NEW c \in Clients, NEW x \in Rows, NEW e \in Emails \cup {None},
             updateCandidate(r, c, x, e)
      PROVE  ListInv'
  <2>1. \E a : frame' = [frame EXCEPT ![r] = SaveFrame(x, a)]
    BY <1>5 DEF updateCandidate, Begin, SaveFrame
  <2>2. \A a : SaveFrame(x, a).pc = "save"
    BY IdleIsFrame DEF SaveFrame, Frame
  <2>3. UNCHANGED list
    BY <1>5 DEF updateCandidate
  <2>4. QED
    BY <2>1, <2>2, <2>3, FrameChange, ListSame DEF Wants
<1>6. ASSUME NEW r \in Requests, SetCookie(r)
      PROVE  ListInv'
  BY <1>6, ReturnWants, ListSame DEF SetCookie, Wants
<1>7. CASE \/ \E c \in Clients : signOut(c) \/ Expire(c)
           \/ \E u \in Users, o \in Organizations : Accept(u, o)
           \/ \E c \in Clients, u \in Users : revokeMembership(c, u)
  <2>1. UNCHANGED <<list, frame>>
    BY <1>7 DEF signOut, Expire, Accept, revokeMembership
  <2>2. QED
    BY <2>1, ListSame DEF Wants
<1>8. QED
  BY <1>1, <1>2, <1>4, <1>5, <1>6, <1>7, ListCreate, ListInsert, ListSave
  DEF Next, ManageCandidates

LEMMA ListInit == Init => ListInv
BY IdleHolds DEF Init, ListInv, OneCandidatePerAddress, Wants, Empty

(* However many requests enter and update candidates at once, two rows of an *)
(* organization have one address only after an update or a noticed race      *)
(* (create, updateCandidate).                                                *)
THEOREM CandidateOnce == Spec => []OneCandidatePerAddress
<1>1. ListInv => OneCandidatePerAddress
  BY DEF ListInv
<1>2. QED
  BY <1>1, TypeInit, TypeNext, ListInit, ListNext, PTL DEF Spec
=============================================================================
