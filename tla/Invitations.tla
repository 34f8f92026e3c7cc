---------------------------- MODULE Invitations ----------------------------
(* How people become members of an organization and cease to be: an admin    *)
(* creates the organization, an invitation is sent, renewed and accepted, a  *)
(* membership is revoked.  Each handler is split at its awaits.              *)
(*                                                                           *)
(* The database refuses a second user of one email address, and a second     *)
(* invitation of one address to one organization; a handler whose insert is  *)
(* refused throws.  A user is known by its address, which never changes.     *)
(* Names, passwords, notifications and the delivery of the emails are left   *)
(* out; tokens are numbers, never repeated.                                  *)
EXTENDS Integers, FiniteSets, Sequences, Functions

CONSTANTS
  Organizations, Addresses,
  None,                    \* no organization, no address
  Requests,                \* the requests that may be in flight at once
  MembersPerOrganization,  \* the tier of every organization
  MaxTokens,               \* emails beyond which no invitation is requested
  MaxFailures              \* requests that fail between two awaits

ASSUME NoneAssumption == None \notin Organizations \cup Addresses
ASSUME TierAssumption == MembersPerOrganization \in Nat \ {0}
ASSUME BoundsAssumption == MaxTokens \in Nat /\ MaxFailures \in Nat

VARIABLES
  organizations,  \* organization rows, and how far their creation went
  users,          \* user rows: the organization of an address, or None
  invitations,    \* invitation rows by token
  mailed,         \* the invitation emails requested; the token is the rank
  frame,          \* what each request in flight holds across its awaits
  failures,       \* requests failed so far
  overlapped,     \* organizations on which two requests were in flight at once
  contested       \* ... and of those on which they revoked different members

vars == <<organizations, users, invitations, mailed, frame, failures, overlapped, contested>>
rows == <<organizations, users, invitations>>
history == <<failures, overlapped, contested>>

Addressee == [organization : Organizations, address : Addresses]
Invitation == [organization : Organizations, address : Addresses,
               status : {"pending", "accepted"}, expired : BOOLEAN]
Tokens == Nat

PCs == {"idle", "name", "tier", "link", "find", "count", "delete", "insert",
        "existing", "user", "accepted", "members", "write"}
Frame == [pc : PCs, organization : Organizations \cup {None},
          address : Addresses \cup {None}, token : Tokens,
          members : SUBSET Addresses, detached : SUBSET Addresses]
Idle == [pc |-> "idle", organization |-> None, address |-> None, token |-> 0,
         members |-> {}, detached |-> {}]

TypeOK ==
  /\ DOMAIN organizations \subseteq Organizations
  /\ Range(organizations) \subseteq {"bare", "tiered", "linked"}
  /\ DOMAIN users \subseteq Addresses
  /\ Range(users) \subseteq Organizations \cup {None}
  /\ DOMAIN invitations \subseteq 1..Len(mailed)
  /\ Range(invitations) \subseteq Invitation
  /\ mailed \in Seq(Addressee)
  /\ frame \in [Requests -> Frame]
  /\ failures \in 0..MaxFailures
  /\ overlapped \subseteq Organizations
  /\ contested \subseteq Organizations

Init ==
  /\ organizations = <<>>
  /\ users = <<>>
  /\ invitations = <<>>
  /\ mailed = <<>>
  /\ frame = [r \in Requests |-> Idle]
  /\ failures = 0
  /\ overlapped = {}
  /\ contested = {}

-----------------------------------------------------------------------------
(* Requests *)

At(r, pc) == frame[r].pc = pc
Goto(r, pc) == frame' = [frame EXCEPT ![r].pc = pc]
Return(r) == frame' = [frame EXCEPT ![r] = Idle]

Start(r, org, f) ==
  /\ frame[r] = Idle
  /\ overlapped' = IF \A q \in Requests : frame[q].organization # org
                    THEN overlapped ELSE overlapped \cup {org}
  /\ frame' = [frame EXCEPT ![r] = [f EXCEPT !.organization = org]]

(* A table with one more row; a row of that key is replaced. *)
Inserted(table, key, row) ==
  [k \in DOMAIN table \cup {key} |-> IF k = key THEN row ELSE table[k]]

Members(org) == {a \in DOMAIN users : users[a] = org}
HasTier(org) == org \in DOMAIN organizations /\ organizations[org] # "bare"

(* Invitation rows of an address to an organization *)
RowsOf(org, address) ==
  {t \in DOMAIN invitations :
     invitations[t].organization = org /\ invitations[t].address = address}

-----------------------------------------------------------------------------
(* POST /organizations, by an administrator *)

admin_createOrganization(r, org) ==
  /\ org \notin DOMAIN organizations
  /\ Start(r, org, [Idle EXCEPT !.pc = "name"])
  /\ UNCHANGED <<rows, mailed, failures, contested>>

(* The name may have been taken meanwhile: the insert is refused.  *)
InsertOrganization(r) ==
  /\ At(r, "name")
  /\ IF frame[r].organization \in DOMAIN organizations
     THEN Return(r) /\ UNCHANGED organizations
     ELSE /\ organizations' = Inserted(organizations, frame[r].organization, "bare")
          /\ Goto(r, "tier")
  /\ UNCHANGED <<users, invitations, mailed, history>>

InsertTier(r) ==
  /\ At(r, "tier")
  /\ organizations' = [organizations EXCEPT ![frame[r].organization] = "tiered"]
  /\ Goto(r, "link")
  /\ UNCHANGED <<users, invitations, mailed, history>>

SaveTier(r) ==
  /\ At(r, "link")
  /\ organizations' = [organizations EXCEPT ![frame[r].organization] = "linked"]
  /\ Return(r)
  /\ UNCHANGED <<users, invitations, mailed, history>>

-----------------------------------------------------------------------------
(* POST /invitations/send and /invitations/admin/send *)

defineInvitation(r, org, address) ==
  /\ org \in DOMAIN organizations
  /\ Len(mailed) < MaxTokens
  /\ address \notin Members(org)
  /\ Start(r, org, [Idle EXCEPT !.pc = "find", !.address = address])
  /\ UNCHANGED <<rows, mailed, failures, contested>>

\* Mutant: the pending invitation is deleted before the tier is looked at.
FindAndDelete(r) ==
  /\ At(r, "find")
  /\ invitations' = Restrict(invitations,
                      DOMAIN invitations \ RowsOf(frame[r].organization, frame[r].address))
  /\ Goto(r, "count")
  /\ UNCHANGED <<organizations, users, mailed, history>>

FindInvitation(r) ==
  /\ At(r, "find")
  /\ LET pending == {t \in RowsOf(frame[r].organization, frame[r].address) :
                       invitations[t].status = "pending"}
     IN  \/ /\ pending = {}
            /\ Goto(r, "count")
         \/ \E t \in pending : frame' = [frame EXCEPT ![r].pc = "count", ![r].token = t]
  /\ UNCHANGED <<rows, mailed, history>>

CheckTier(r) ==
  /\ At(r, "count")
  /\ IF /\ HasTier(frame[r].organization)
        /\ Cardinality(Members(frame[r].organization)) < MembersPerOrganization
     THEN Goto(r, IF frame[r].token = 0 THEN "insert" ELSE "delete")
     ELSE Return(r)
  /\ UNCHANGED <<rows, mailed, history>>

DeleteInvitation(r) ==
  /\ At(r, "delete")
  /\ invitations' = Restrict(invitations, DOMAIN invitations \ {frame[r].token})
  /\ Goto(r, "insert")
  /\ UNCHANGED <<organizations, users, mailed, history>>

To(r) == [organization |-> frame[r].organization, address |-> frame[r].address]
Row(r, status, expired) ==
  [organization |-> frame[r].organization, address |-> frame[r].address,
   status |-> status, expired |-> expired]

\* Mutant: the row is inserted and its email requested under the next token.
MailTwice(r) ==
  /\ At(r, "insert")
  /\ mailed' = Append(mailed, To(r))
  /\ invitations' = Inserted(invitations, Len(mailed) + 2, Row(r, "pending", FALSE))
  /\ Return(r)
  /\ UNCHANGED <<organizations, users, history>>

(* The email is requested once the row is there. *)
InsertInvitation(r) ==
  /\ At(r, "insert")
  /\ IF RowsOf(frame[r].organization, frame[r].address) # {}
     THEN UNCHANGED <<invitations, mailed>>
     ELSE /\ mailed' = Append(mailed, To(r))
          /\ invitations' = Inserted(invitations, Len(mailed) + 1, Row(r, "pending", FALSE))
  /\ Return(r)
  /\ UNCHANGED <<organizations, users, history>>

(* 24 hours pass. *)
Expire(t) ==
  /\ ~ invitations[t].expired
  /\ invitations' = [invitations EXCEPT ![t].expired = TRUE]
  /\ UNCHANGED <<organizations, users, mailed, frame, history>>

-----------------------------------------------------------------------------
(* POST /invitations/accept; GET /invitations/validate checks the same.      *)

validateInvitationToken(t) ==
  t \in DOMAIN invitations /\ invitations[t].status = "pending" /\ ~ invitations[t].expired

acceptInvitation(r, t) ==
  /\ validateInvitationToken(t)
  /\ Start(r, invitations[t].organization,
           [Idle EXCEPT !.pc = "existing", !.address = invitations[t].address, !.token = t])
  /\ UNCHANGED <<rows, mailed, failures, contested>>

\* Mutant: the account is created after the invitation is accepted.
AcceptFirst(r) ==
  /\ At(r, "existing")
  /\ Goto(r, "accepted")
  /\ UNCHANGED <<rows, mailed, history>>

CheckAccount(r) ==
  /\ At(r, "existing")
  /\ IF frame[r].address \in DOMAIN users THEN Return(r) ELSE Goto(r, "user")
  /\ UNCHANGED <<rows, mailed, history>>

(* The organization of the account is the invitation's. *)
InsertUser(r) ==
  /\ At(r, "user")
  /\ IF frame[r].address \in DOMAIN users
     THEN Return(r) /\ UNCHANGED users
     ELSE /\ users' = Inserted(users, frame[r].address, frame[r].organization)
          /\ Goto(r, "accepted")
  /\ UNCHANGED <<organizations, invitations, mailed, history>>

(* save updates the row, inserts it again when it was deleted meanwhile, and *)
(* is refused when another one took its place.                               *)
SaveAccepted(r) ==
  /\ At(r, "accepted")
  /\ LET t == frame[r].token
         others == RowsOf(frame[r].organization, frame[r].address) \ {t}
     IN  IF others # {}
         THEN UNCHANGED invitations
         ELSE invitations' = Inserted(invitations, t,
                Row(r, "accepted", t \in DOMAIN invitations /\ invitations[t].expired))
  /\ Return(r)
  /\ UNCHANGED <<organizations, users, mailed, history>>

-----------------------------------------------------------------------------
(* POST /organizations/revoke-membership *)

Revoking(r) == frame[r].pc \in {"members", "write"}

(* The member is found among those of the organization and filtered out. *)
Revoke(r, org, address) ==
  /\ address \in Members(org)
  /\ Start(r, org, [Idle EXCEPT !.pc = "members", !.address = address,
                               !.members = Members(org) \ {address}])
  /\ contested' = IF \E q \in Requests : /\ Revoking(q) /\ frame[q].organization = org
                                        /\ frame[q].address # address
                   THEN contested \cup {org} ELSE contested
  /\ UNCHANGED <<rows, mailed, failures>>

\* Mutant: the last member may be removed.
revokeAnyMembership(r, org, address) == Revoke(r, org, address)

revokeMembership(r, org, address) ==
  Cardinality(Members(org)) # 1 /\ Revoke(r, org, address)

\* Mutant: the filter keeps the member to be revoked and no other.
FindOtherMembers(r) ==
  /\ At(r, "members")
  /\ frame' = [frame EXCEPT ![r].pc = "write", ![r].members = {},
                            ![r].detached = Members(frame[r].organization) \ {frame[r].address}]
  /\ UNCHANGED <<rows, mailed, history>>

(* save reads the members of the organization again and compares them with   *)
(* the list: those not on it are to be detached, those only on it attached.  *)
FindMembers(r) ==
  /\ At(r, "members")
  /\ LET current == Members(frame[r].organization)
         list == frame[r].members
     IN  frame' = [frame EXCEPT ![r].pc = "write", ![r].members = list \ current,
                               ![r].detached = current \ list]
  /\ UNCHANGED <<rows, mailed, history>>

(* It then writes the difference, whoever is a member by now. *)
SaveMembers(r) ==
  /\ At(r, "write")
  /\ users' = [a \in DOMAIN users |->
                IF a \in frame[r].detached THEN None
                ELSE IF a \in frame[r].members THEN frame[r].organization ELSE users[a]]
  /\ Return(r)
  /\ UNCHANGED <<organizations, invitations, mailed, history>>

(* A call of the database fails, or the process stops. *)
Fail(r) ==
  /\ frame[r] # Idle
  /\ failures < MaxFailures
  /\ failures' = failures + 1
  /\ Return(r)
  /\ UNCHANGED <<rows, mailed, overlapped, contested>>

Arrive(r) ==
  \/ \E org \in Organizations : admin_createOrganization(r, org)
  \/ \E org \in Organizations, address \in Addresses :
       defineInvitation(r, org, address) \/ revokeMembership(r, org, address)
  \/ \E t \in DOMAIN invitations : acceptInvitation(r, t)

Continue(r) ==
  \/ InsertOrganization(r)
  \/ InsertTier(r)
  \/ SaveTier(r)
  \/ FindInvitation(r)
  \/ CheckTier(r)
  \/ DeleteInvitation(r)
  \/ InsertInvitation(r)
  \/ CheckAccount(r)
  \/ InsertUser(r)
  \/ SaveAccepted(r)
  \/ FindMembers(r)
  \/ SaveMembers(r)

Next ==
  \/ \E r \in Requests : Arrive(r) \/ Continue(r) \/ Fail(r)
  \/ \E t \in DOMAIN invitations : Expire(t)

Spec == Init /\ [][Next]_vars

-----------------------------------------------------------------------------
(* Properties *)

(* `Cannot remove the last member!`: an organization that has members keeps  *)
(* one, whatever acceptances and revocations, of the same member or of other *)
(* organizations, overlap and fail.  Of two members revoked at once, each    *)
(* request may find both: the organization is then left without any.         *)
LastMemberStays ==
  [][\A org \in Organizations \ contested : Members(org) # {} => Members(org)' # {}]_vars

(* An invitation is accepted only once its addressee has an account, also    *)
(* when the request fails between the two saves.                             *)
AcceptedHasAccount ==
  \A t \in DOMAIN invitations :
    invitations[t].status = "accepted" => invitations[t].address \in DOMAIN users

(* Unless a request failed, the link last mailed to an address that has no   *)
(* account is of an invitation that exists, whatever renewals and            *)
(* acceptances overlap; only a renewal between its delete and its insert     *)
(* takes it away.                                                            *)
LastLinkExists ==
  failures = 0 =>
    \A t \in DOMAIN mailed :
      \/ t \in DOMAIN invitations
      \/ mailed[t].address \in DOMAIN users
      \/ \E u \in t + 1 .. Len(mailed) : mailed[u] = mailed[t]
      \/ \E r \in Requests :
           At(r, "insert") /\ mailed[t] = To(r)

(* Where requests on an organization do not overlap, a member leaves only by *)
(* a revocation of its own, and does not come back.                          *)
OnlyRevocationEnds ==
  [][\A a \in DOMAIN users :
       users'[a] # users[a] /\ {users[a], users'[a]} \cap overlapped = {} =>
         /\ users'[a] = None
         /\ \E r \in Requests : At(r, "write") /\ frame[r].address = a]_vars
=============================================================================
