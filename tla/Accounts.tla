------------------------------ MODULE Accounts ------------------------------
(* Who may act: the administrator that the service sets up when it starts,   *)
(* the tokens that clients get when they sign in or impersonate, how a       *)
(* membership ends while tokens are about, and the candidates that the       *)
(* members enter with their tokens.                                          *)
(*                                                                           *)
(* Handlers are split at their awaits.  A token is a record that the client  *)
(* keeps in its one cookie; it names the organization that the user had when *)
(* it was signed, and nothing but its expiry is compared afterwards.         *)
(* Passwords are left out (whoever signs in knows his own), as are the       *)
(* statuses of accounts and organizations, which no code changes.            *)
(* Candidates sign in to a meeting: module EmailDelivery.                    *)
EXTENDS Integers, FiniteSets, Functions

CONSTANTS
  Addresses,                 \* what ADMIN_EMAIL_ADDRESS may be
  Users, Organizations,
  Clients,
  Rows, Emails,              \* candidate rows, their email addresses
  Requests,                  \* the requests that may be in flight at once
  None,
  MaxCrashes

Token == [role : {"admin"}, id : Addresses, organization : {"all"}]
         \cup [role : {"user"}, id : Users, organization : Organizations]

ASSUME NoneAssumption ==
  None \notin Token \cup Organizations \cup Clients \cup Rows \cup Emails \cup Addresses
ASSUME RolesAssumption == "all" \notin Organizations
ASSUME CrashesAssumption == MaxCrashes \in Nat

VARIABLES
  configured,  \* whether the row service_setup is there
  admins,      \* administrator rows, by address
  setup,       \* how far setupService got since the start, for which address
  orphaned,    \* the administrators whose setup ended before it was recorded (history)
  users,       \* user rows: the organization of a user, None once revoked
  cookie,      \* the token of each client, if any
  candidates,  \* candidate rows
  frame,       \* what each request in flight holds across its awaits
  moved,       \* candidate rows whose address an update changed (history)
  raced,       \* candidates entered while the same was being entered (history)
  crashes

service == <<configured, admins, setup, orphaned>>
list == <<candidates, moved, raced>>
vars == <<service, users, cookie, list, frame, crashes>>

Candidate == [organization : Organizations, address : Emails]
Frame == [pc : {"idle", "sign", "insert", "save"},
          client : Clients \cup {None}, token : Token \cup {None},
          organization : Organizations \cup {None},
          row : Rows \cup {None}, address : Emails \cup {None}]
Idle == [pc |-> "idle", client |-> None, token |-> None, organization |-> None,
         row |-> None, address |-> None]
Setup == [pc : {"find", "register", "insert", "save", "done"}, address : Addresses]

TypeOK ==
  /\ configured \in BOOLEAN
  /\ admins \subseteq Addresses
  /\ setup \in Setup
  /\ orphaned \subseteq Addresses
  /\ DOMAIN users \subseteq Users /\ Range(users) \subseteq Organizations \cup {None}
  /\ cookie \in [Clients -> Token \cup {None}]
  /\ DOMAIN candidates \subseteq Rows /\ Range(candidates) \subseteq Candidate
  /\ frame \in [Requests -> Frame]
  /\ moved \subseteq DOMAIN candidates
  /\ raced \subseteq Candidate
  /\ crashes \in 0..MaxCrashes

Empty == [x \in {} |-> None]

Init ==
  /\ configured = FALSE
  /\ admins = {}
  /\ setup \in [pc : {"find"}, address : Addresses]
  /\ orphaned = {}
  /\ users = Empty
  /\ cookie = [c \in Clients |-> None]
  /\ candidates = Empty
  /\ frame = [r \in Requests |-> Idle]
  /\ moved = {} /\ raced = {}
  /\ crashes = 0

-----------------------------------------------------------------------------
(* setupService, which the constructor calls and does not await *)

Reached(pc) == setup.pc = pc
Proceed(pc) == setup' = [setup EXCEPT !.pc = pc]

FindConfiguration ==
  /\ Reached("find")
  /\ Proceed(IF configured THEN "done" ELSE "register")
  /\ UNCHANGED <<configured, admins, orphaned, users, cookie, list, frame, crashes>>

\* Mutant: an administrator that is already there ends the setup.
RegisterOrStop ==
  /\ Reached("register")
  /\ Proceed(IF setup.address \in admins THEN "done" ELSE "insert")
  /\ UNCHANGED <<configured, admins, orphaned, users, cookie, list, frame, crashes>>

(* registerAdmin returns early when there is one of that address. *)
registerAdmin ==
  /\ Reached("register")
  /\ Proceed(IF setup.address \in admins THEN "save" ELSE "insert")
  /\ UNCHANGED <<configured, admins, orphaned, users, cookie, list, frame, crashes>>

InsertAdmin ==
  /\ Reached("insert")
  /\ admins' = admins \cup {setup.address}
  /\ Proceed("save")
  /\ UNCHANGED <<configured, orphaned, users, cookie, list, frame, crashes>>

SaveConfiguration ==
  /\ Reached("save")
  /\ configured' = TRUE
  /\ Proceed("done")
  /\ UNCHANGED <<admins, orphaned, users, cookie, list, frame, crashes>>

setupService == FindConfiguration \/ registerAdmin \/ InsertAdmin \/ SaveConfiguration

(* The process stops, also when the setup throws, and starts again, perhaps  *)
(* with another environment.  The clients keep their cookies.                *)
Restart ==
  /\ crashes < MaxCrashes
  /\ crashes' = crashes + 1
  /\ setup' \in [pc : {"find"}, address : Addresses]
  /\ orphaned' = orphaned \cup (IF Reached("save") THEN {setup.address} ELSE {})
  /\ frame' = [r \in Requests |-> Idle]
  /\ UNCHANGED <<configured, admins, users, cookie, list>>

-----------------------------------------------------------------------------
(* Requests *)

Begin(r, holding) == frame[r] = Idle /\ frame' = [frame EXCEPT ![r] = holding]

Return(r) == frame' = [frame EXCEPT ![r] = Idle]

(* AuthenticationMiddleware: the performer is what the token says. *)
Performer(c) == cookie[c]
Authenticated(c) == cookie[c] # None

(* AuthorizationGuard: only a route marked for administrators needs the      *)
(* role; what another does with their token, its organization decides.       *)
CanActivateAdmin(c) == Authenticated(c) /\ Performer(c).role = "admin"
CanActivateMember(c) == Authenticated(c) /\ Performer(c).organization \in Organizations

-----------------------------------------------------------------------------
(* auth.service: the row is read, the password compared and the token signed *)

UserToken(u) == [role |-> "user", id |-> u, organization |-> users[u]]
AdminToken(a) == [role |-> "admin", id |-> a, organization |-> "all"]
Sign(r, c, token) ==
  /\ Begin(r, [Idle EXCEPT !.pc = "sign", !.client = c, !.token = token])
  /\ UNCHANGED <<service, users, cookie, list, crashes>>

IsMember(u) == u \in DOMAIN users /\ users[u] # None

\* Mutant: a user without an organization gets a token as well.
user_signInAnyway(r, c, u) ==
  /\ u \in DOMAIN users
  /\ Sign(r, c, UserToken(u))

user_signIn(r, c, u) ==
  /\ IsMember(u)
  /\ Sign(r, c, UserToken(u))

admin_signIn(r, c, a) ==
  /\ a \in admins
  /\ Sign(r, c, AdminToken(a))

admin_impersonate(r, c, u) ==
  /\ CanActivateAdmin(c)
  /\ IsMember(u)
  /\ Sign(r, c, UserToken(u))

(* The response sets the cookie, over any other token of the client. *)
SetCookie(r) ==
  /\ frame[r].pc = "sign"
  /\ cookie' = [cookie EXCEPT ![frame[r].client] = frame[r].token]
  /\ Return(r)
  /\ UNCHANGED <<service, users, list, crashes>>

signOut(c) ==
  /\ Authenticated(c)
  /\ cookie' = [cookie EXCEPT ![c] = None]
  /\ UNCHANGED <<service, users, list, frame, crashes>>

(* JWT_EXPIRES_IN after it was signed the token is no longer accepted. *)
Expire(c) ==
  /\ Authenticated(c)
  /\ cookie' = [cookie EXCEPT ![c] = None]
  /\ UNCHANGED <<service, users, list, frame, crashes>>

-----------------------------------------------------------------------------
(* Membership, as module Invitations describes it in detail *)

(* An address is accepted once: the address of a user is unique. *)
Accept(u, o) ==
  /\ u \notin DOMAIN users
  /\ users' = [v \in DOMAIN users \cup {u} |-> IF v = u THEN o ELSE users[v]]
  /\ UNCHANGED <<service, cookie, list, frame, crashes>>

Members(o) == {u \in DOMAIN users : users[u] = o}

(* Any token of the organization will do, also that of a former member. *)
revokeMembership(c, u) ==
  /\ CanActivateMember(c)
  /\ u \in Members(Performer(c).organization)
  /\ Cardinality(Members(Performer(c).organization)) # 1
  /\ users' = [users EXCEPT ![u] = None]
  /\ UNCHANGED <<service, cookie, list, frame, crashes>>

-----------------------------------------------------------------------------
(* candidates.service *)

Inserting == {[organization |-> frame[r].organization, address |-> frame[r].address] :
                r \in {q \in Requests : frame[q].pc = "insert"}}

Enter(r, candidate) ==
  /\ Begin(r, [Idle EXCEPT !.pc = "insert", !.organization = candidate.organization,
                           !.address = candidate.address])
  /\ raced' = IF candidate \in Inserting THEN raced \cup {candidate} ELSE raced
  /\ UNCHANGED <<service, users, cookie, candidates, moved, crashes>>

\* Mutant: nobody looks whether the candidate is there.
createUnchecked(r, c, e) ==
  /\ CanActivateMember(c)
  /\ Enter(r, [organization |-> Performer(c).organization, address |-> e])

(* No index keeps a second request from inserting the same meanwhile. *)
create(r, c, e) ==
  /\ CanActivateMember(c)
  /\ [organization |-> Performer(c).organization, address |-> e] \notin Range(candidates)
  /\ Enter(r, [organization |-> Performer(c).organization, address |-> e])

InsertCandidate(r) ==
  /\ frame[r].pc = "insert"
  /\ \E row \in Rows \ DOMAIN candidates :
       candidates' = [x \in DOMAIN candidates \cup {row} |->
         IF x = row
         THEN [organization |-> frame[r].organization, address |-> frame[r].address]
         ELSE candidates[x]]
  /\ Return(r)
  /\ UNCHANGED <<service, users, cookie, moved, raced, crashes>>

(* The row is read; its address is replaced when the request has one.        *)
updateCandidate(r, c, row, e) ==
  /\ CanActivateMember(c)
  /\ row \in DOMAIN candidates
  /\ candidates[row].organization = Performer(c).organization
  /\ Begin(r, [Idle EXCEPT !.pc = "save", !.row = row,
                 !.address = IF e = None THEN candidates[row].address ELSE e])
  /\ UNCHANGED <<service, users, cookie, list, crashes>>

(* The whole row is saved, with the address read where it was not replaced.  *)
SaveCandidate(r) ==
  /\ frame[r].pc = "save"
  /\ candidates' = [candidates EXCEPT ![frame[r].row].address = frame[r].address]
  /\ moved' = IF candidates' = candidates THEN moved ELSE moved \cup {frame[r].row}
  /\ Return(r)
  /\ UNCHANGED <<service, users, cookie, raced, crashes>>

-----------------------------------------------------------------------------
SignIn(r, c) ==
  \/ \E u \in Users : user_signIn(r, c, u) \/ admin_impersonate(r, c, u)
  \/ \E a \in Addresses : admin_signIn(r, c, a)

ManageCandidates(r, c) ==
  \/ \E e \in Emails : create(r, c, e)
  \/ \E row \in Rows, e \in Emails \cup {None} : updateCandidate(r, c, row, e)

Next ==
  \/ setupService
  \/ Restart
  \/ \E r \in Requests, c \in Clients : SignIn(r, c) \/ ManageCandidates(r, c)
  \/ \E r \in Requests : SetCookie(r) \/ InsertCandidate(r) \/ SaveCandidate(r)
  \/ \E c \in Clients : signOut(c) \/ Expire(c)
  \/ \E u \in Users, o \in Organizations : Accept(u, o)
  \/ \E c \in Clients, u \in Users : revokeMembership(c, u)

Spec == Init /\ [][Next]_vars

(* The setup is resumed after its awaits, and tokens expire in time.  Nobody *)
(* needs to sign in or out.                                                  *)
FairSpec == Spec /\ WF_vars(setupService) /\ \A c \in Clients : WF_vars(Expire(c))

-----------------------------------------------------------------------------
(* Properties *)

(* Restarts with another ADMIN_EMAIL_ADDRESS add an administrator only when *)
(* each time before a crash came between the two inserts of the setup: all   *)
(* but one of the administrators come from such a setup.                     *)
OneAdmin == \A a, b \in admins \ orphaned : a = b

(* Once the service is configured no restart adds an administrator. *)
AdminsSettled == [][configured => admins' = admins]_vars

(* "This will be used to check if the service has been setup": wherever      *)
(* crashes interrupt it, the setup ends, and leaves an administrator.        *)
SetupCompletes == <>[](configured /\ admins # {})

(* Revoking a membership leaves the tokens of the user valid.  But they are  *)
(* no way to another, and neither is a sign-in or an impersonation that read *)
(* the membership before: in the end the former member has none.             *)
RevokedLosesAccess ==
  \A u \in Users : <>[](u \in DOMAIN users /\ users[u] = None =>
    \A c \in Clients : Authenticated(c) => ~(Performer(c).role = "user" /\ Performer(c).id = u))

(* An organization has one candidate of an address (whose meetings, emails   *)
(* and sign-ins are looked up by candidate), unless an update moved one of   *)
(* them there or two requests entered the same at the same time.             *)
OneCandidatePerAddress ==
  \A x, y \in DOMAIN candidates :
    x # y /\ candidates[x] = candidates[y] =>
      candidates[x] \in raced \/ {x, y} \cap moved # {}
=============================================================================
