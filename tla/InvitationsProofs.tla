-------------------------- MODULE InvitationsProofs --------------------------
(* Proofs about Invitations, for any organizations, addresses, requests in   *)
(* flight and failures: an organization keeps a member, whom only a          *)
(* revocation removes, an accepted invitation has an account, and the link   *)
(* last mailed is of an invitation that exists.                              *)
EXTENDS Invitations, FiniteSetTheorems, TLAPS

(* A request at work knows its organization; one about an invitation its     *)
(* address; one that accepts the token of an email.                          *)
RequestTyped(f) ==
  /\ f.pc # "idle" => f.organization \in Organizations
  /\ f.pc \in {"find", "count", "delete", "insert", "existing", "user", "accepted"} =>
       f.address \in Addresses
  /\ f.pc \in {"existing", "user", "accepted"} => f.token \in 1..Len(mailed)

TypeInv == TypeOK /\ \A r \in Requests : RequestTyped(frame[r])

-----------------------------------------------------------------------------
(* Tables and frames *)

LEMMA InsertedTyped ==
  ASSUME NEW table, NEW key, NEW row, NEW K, NEW S, key \in K, row \in S,
         \A k \in DOMAIN table : k \in K /\ table[k] \in S
  PROVE  \A k \in DOMAIN Inserted(table, key, row) :
           k \in K /\ Inserted(table, key, row)[k] \in S
BY DEF Inserted

LEMMA UpdatedTyped ==
  ASSUME NEW table, NEW key, NEW row, NEW S, row \in S, \A k \in DOMAIN table : table[k] \in S
  PROVE  LET new == [table EXCEPT ![key] = row]
         IN DOMAIN new = DOMAIN table /\ \A k \in DOMAIN new : new[k] \in S
OBVIOUS

LEMMA RangeIs ==
  ASSUME NEW table, NEW S
  PROVE  Range(table) \subseteq S <=> \A k \in DOMAIN table : table[k] \in S
BY DEF Range

LEMMA IdleIsFrame ==
  /\ Idle \in Frame /\ Idle.pc = "idle" /\ Idle.organization = None
  /\ Idle.members = {} /\ Idle.detached = {}
BY DEF Idle, Frame, PCs, Tokens

LEMMA AcceptingFrame ==
  ASSUME NEW a \in Addresses, NEW t \in Nat
  PROVE  LET f == [Idle EXCEPT !.pc = "existing", !.address = a, !.token = t]
         IN f \in Frame /\ f.pc = "existing" /\ f.address = a /\ f.token = t
BY DEF Idle, Frame, PCs, Tokens

LEMMA StartFrame ==
  ASSUME TypeOK, NEW r \in Requests, NEW org \in Organizations, NEW f \in Frame, Start(r, org, f)
  PROVE  /\ frame' \in [Requests -> Frame]
         /\ frame'[r].pc = f.pc /\ frame'[r].organization = org
         /\ frame'[r].address = f.address /\ frame'[r].token = f.token
         /\ frame'[r].members = f.members /\ frame'[r].detached = f.detached
         /\ \A q \in Requests : q # r => frame'[q] = frame[q]
         /\ overlapped' \subseteq Organizations
BY DEF TypeOK, Start, Frame

LEMMA GotoFrame ==
  ASSUME TypeOK, NEW r \in Requests, NEW pc \in PCs, Goto(r, pc)
  PROVE  /\ frame' \in [Requests -> Frame]
         /\ frame'[r].pc = pc /\ frame'[r].organization = frame[r].organization
         /\ frame'[r].address = frame[r].address /\ frame'[r].token = frame[r].token
         /\ frame'[r].members = frame[r].members
         /\ \A q \in Requests : q # r => frame'[q] = frame[q]
BY DEF TypeOK, Goto, Frame

LEMMA ReturnFrame ==
  ASSUME TypeOK, NEW r \in Requests, Return(r)
  PROVE  /\ frame' \in [Requests -> Frame] /\ frame'[r] = Idle
         /\ \A q \in Requests : q # r => frame'[q] = frame[q]
BY IdleIsFrame DEF TypeOK, Return

(* The revocations at work on an organization are of one member. *)
RevokedTogether(org, address) ==
  \A q \in Requests : Revoking(q) /\ frame[q].organization = org => frame[q].address = address

(* What each of the requests begins with. *)
LEMMA Beginnings ==
  ASSUME TypeOK, NEW r \in Requests, Arrive(r)
  PROVE  \E org \in Organizations, f \in Frame :
           /\ Start(r, org, f)
           /\ UNCHANGED <<rows, mailed, failures>>
           /\ f.pc \in {"name", "find", "existing", "members"}
           /\ f.pc \in {"find", "existing"} => f.address \in Addresses
           /\ f.pc = "find" => f.token = 0
           /\ f.pc = "existing" =>
                /\ f.token \in 1..Len(mailed) /\ f.token \in DOMAIN invitations
                /\ f.address = invitations[f.token].address
                /\ org = invitations[f.token].organization
           /\ contested \subseteq contested' /\ contested' \subseteq contested \cup {org}
           /\ f.pc = "members" =>
                /\ Cardinality(Members(org)) # 1
                /\ f.address \in Members(org)
                /\ f.members = Members(org) \ {f.address} /\ f.detached = {}
                /\ org \notin contested' => RevokedTogether(org, f.address)
<1>1. ASSUME NEW org \in Organizations, admin_createOrganization(r, org)
      PROVE  LET f == [Idle EXCEPT !.pc = "name"]
             IN /\ f \in Frame /\ f.pc = "name"
                /\ Start(r, org, f) /\ UNCHANGED <<rows, mailed, failures, contested>>
  BY <1>1 DEF admin_createOrganization, Idle, Frame, PCs, Tokens
<1>2. ASSUME NEW org \in Organizations, NEW a \in Addresses, defineInvitation(r, org, a)
      PROVE  LET f == [Idle EXCEPT !.pc = "find", !.address = a]
             IN /\ f \in Frame /\ f.pc = "find" /\ f.address = a /\ f.token = 0
                /\ Start(r, org, f) /\ UNCHANGED <<rows, mailed, failures, contested>>
  BY <1>2 DEF defineInvitation, Idle, Frame, PCs, Tokens
<1>3. ASSUME NEW org \in Organizations, NEW a \in Addresses, revokeMembership(r, org, a)
      PROVE  LET f == [Idle EXCEPT !.pc = "members", !.address = a,
                                   !.members = Members(org) \ {a}]
             IN /\ f \in Frame /\ f.pc = "members" /\ f.address = a
                /\ f.members = Members(org) \ {a} /\ f.detached = {}
                /\ Cardinality(Members(org)) # 1 /\ a \in Members(org)
                /\ Start(r, org, f) /\ UNCHANGED <<rows, mailed, failures>>
                /\ contested \subseteq contested' /\ contested' \subseteq contested \cup {org}
                /\ org \notin contested' => RevokedTogether(org, a)
  <2>1. Members(org) \ {a} \in SUBSET Addresses
    BY DEF TypeOK, Members
  <2>2. QED
    BY <1>3, <2>1 DEF revokeMembership, Revoke, RevokedTogether, Idle, Frame, PCs, Tokens
<1>4. ASSUME NEW t \in DOMAIN invitations, acceptInvitation(r, t)
      PROVE  LET f == [Idle EXCEPT !.pc = "existing", !.address = invitations[t].address,
                                   !.token = t]
             IN /\ invitations[t].organization \in Organizations
                /\ f \in Frame /\ f.pc = "existing" /\ f.address \in Addresses
                /\ f.address = invitations[t].address /\ f.token = t
                /\ f.token \in 1..Len(mailed)
                /\ Start(r, invitations[t].organization, f)
                /\ UNCHANGED <<rows, mailed, failures, contested>>
  <2>1. t \in 1..Len(mailed) /\ t \in Nat /\ invitations[t] \in Invitation
    BY RangeIs DEF TypeOK
  <2>2. /\ invitations[t].organization \in Organizations
        /\ invitations[t].address \in Addresses
    BY <2>1 DEF Invitation
  <2> DEFINE f == [Idle EXCEPT !.pc = "existing", !.address = invitations[t].address,
                               !.token = t]
  <2>3. /\ f.pc = "existing" /\ f.address = invitations[t].address /\ f.token = t
        /\ f \in Frame
    BY <2>1, <2>2, AcceptingFrame, Zenon
  <2>4. /\ Start(r, invitations[t].organization, f)
        /\ UNCHANGED <<rows, mailed, failures, contested>>
    BY <1>4 DEF acceptInvitation
  <2> HIDE DEF f
  <2>5. QED
    BY <2>1, <2>2, <2>3, <2>4 DEF f
<1> DEFINE Begins(org, f) ==
           /\ Start(r, org, f)
           /\ UNCHANGED <<rows, mailed, failures>>
           /\ f.pc \in {"name", "find", "existing", "members"}
           /\ f.pc \in {"find", "existing"} => f.address \in Addresses
           /\ f.pc = "find" => f.token = 0
           /\ f.pc = "existing" =>
                /\ f.token \in 1..Len(mailed) /\ f.token \in DOMAIN invitations
                /\ f.address = invitations[f.token].address
                /\ org = invitations[f.token].organization
           /\ contested \subseteq contested' /\ contested' \subseteq contested \cup {org}
           /\ f.pc = "members" =>
                /\ Cardinality(Members(org)) # 1
                /\ f.address \in Members(org)
                /\ f.members = Members(org) \ {f.address} /\ f.detached = {}
                /\ org \notin contested' => RevokedTogether(org, f.address)
<1>5. ASSUME NEW org \in Organizations, admin_createOrganization(r, org)
      PROVE  \E f \in Frame : Begins(org, f)
  BY <1>1, <1>5
<1>6. ASSUME NEW org \in Organizations, NEW a \in Addresses, defineInvitation(r, org, a)
      PROVE  \E f \in Frame : Begins(org, f)
  BY <1>2, <1>6
<1>7. ASSUME NEW org \in Organizations, NEW a \in Addresses, revokeMembership(r, org, a)
      PROVE  \E f \in Frame : Begins(org, f)
  <2> DEFINE f == [Idle EXCEPT !.pc = "members", !.address = a, !.members = Members(org) \ {a}]
  <2>1. /\ f \in Frame /\ f.pc = "members" /\ f.address = a
        /\ f.members = Members(org) \ {a} /\ f.detached = {}
        /\ Cardinality(Members(org)) # 1 /\ a \in Members(org)
        /\ Start(r, org, f) /\ UNCHANGED <<rows, mailed, failures>>
        /\ contested \subseteq contested' /\ contested' \subseteq contested \cup {org}
        /\ org \notin contested' => RevokedTogether(org, a)
    BY <1>3, <1>7
  <2> HIDE DEF f
  <2>2. Begins(org, f)
    BY <2>1
  <2>3. QED
    BY <2>1, <2>2
<1>8. ASSUME NEW t \in DOMAIN invitations, acceptInvitation(r, t)
      PROVE  \E org \in Organizations, f \in Frame : Begins(org, f)
  <2> DEFINE f == [Idle EXCEPT !.pc = "existing", !.address = invitations[t].address,
                               !.token = t]
  <2>1. /\ invitations[t].organization \in Organizations
        /\ f \in Frame /\ f.pc = "existing" /\ f.address \in Addresses
        /\ f.address = invitations[t].address /\ f.token = t
        /\ f.token \in 1..Len(mailed)
        /\ Start(r, invitations[t].organization, f)
        /\ UNCHANGED <<rows, mailed, failures, contested>>
    BY <1>4, <1>8
  <2> HIDE DEF f
  <2>2. Begins(invitations[t].organization, f)
    BY <2>1
  <2>3. QED
    BY <2>1, <2>2
<1> HIDE DEF Begins
<1>9. \E org \in Organizations, f \in Frame : Begins(org, f)
  BY <1>5, <1>6, <1>7, <1>8 DEF Arrive
<1>10. QED
  BY <1>9 DEF Begins

-----------------------------------------------------------------------------
(* Type correctness *)

LEMMA OthersTyped ==
  ASSUME TypeInv, NEW r \in Requests, mailed' \in Seq(Addressee), Len(mailed) <= Len(mailed'),
         \A q \in Requests : q # r => frame'[q] = frame[q], RequestTyped(frame[r])'
  PROVE  \A q \in Requests : RequestTyped(frame[q])'
<1>1. Len(mailed) \in Nat /\ Len(mailed') \in Nat
  BY DEF TypeInv, TypeOK
<1>2. ASSUME NEW q \in Requests, q # r
      PROVE  RequestTyped(frame[q])'
  <2>1. frame'[q] = frame[q] /\ RequestTyped(frame[q])
    BY <1>2 DEF TypeInv
  <2>2. frame[q].token \in 1..Len(mailed) => frame[q].token \in 1..Len(mailed')
    BY <1>1
  <2>3. QED
    BY <2>1, <2>2 DEF RequestTyped
<1>3. QED
  BY <1>2

LEMMA ReturnTyped ==
  ASSUME TypeInv, NEW r \in Requests, Return(r), mailed' \in Seq(Addressee),
         Len(mailed) <= Len(mailed')
  PROVE  frame' \in [Requests -> Frame] /\ \A q \in Requests : RequestTyped(frame[q])'
<1>1. /\ frame' \in [Requests -> Frame] /\ frame'[r] = Idle
      /\ \A q \in Requests : q # r => frame'[q] = frame[q]
  BY ReturnFrame DEF TypeInv
<1>2. RequestTyped(frame[r])'
  BY <1>1, IdleIsFrame DEF RequestTyped
<1>3. QED
  BY <1>1, <1>2, OthersTyped

LEMMA GotoTyped ==
  ASSUME TypeInv, NEW r \in Requests, NEW pc \in PCs, Goto(r, pc), mailed' = mailed,
         \/ pc \in {"tier", "link"} /\ frame[r].pc # "idle"
         \/ /\ pc \in {"count", "delete", "insert"}
            /\ frame[r].pc \in {"find", "count", "delete"}
         \/ pc \in {"user", "accepted"} /\ frame[r].pc \in {"existing", "user"}
  PROVE  frame' \in [Requests -> Frame] /\ \A q \in Requests : RequestTyped(frame[q])'
<1>1. /\ frame' \in [Requests -> Frame]
      /\ frame'[r].pc = pc /\ frame'[r].organization = frame[r].organization
      /\ frame'[r].address = frame[r].address /\ frame'[r].token = frame[r].token
      /\ \A q \in Requests : q # r => frame'[q] = frame[q]
  BY GotoFrame DEF TypeInv
<1>2. RequestTyped(frame[r])
  BY DEF TypeInv
<1>3. RequestTyped(frame[r])'
  BY <1>1, <1>2 DEF RequestTyped
<1>4. mailed' \in Seq(Addressee) /\ Len(mailed) <= Len(mailed')
  BY DEF TypeInv, TypeOK
<1>5. QED
  BY <1>1, <1>3, <1>4, OthersTyped

LEMMA TypeArrive ==
  ASSUME TypeInv, NEW r \in Requests, Arrive(r)
  PROVE  TypeInv'
<1>1. PICK org \in Organizations, f \in Frame :
        /\ Start(r, org, f)
        /\ UNCHANGED <<rows, mailed, failures>>
        /\ f.pc \in {"name", "find", "existing", "members"}
        /\ f.pc \in {"find", "existing"} => f.address \in Addresses
        /\ f.pc = "existing" => f.token \in 1..Len(mailed)
        /\ contested' \subseteq contested \cup {org}
  BY Beginnings DEF TypeInv
<1>2. /\ frame' \in [Requests -> Frame]
      /\ frame'[r].pc = f.pc /\ frame'[r].organization = org
      /\ frame'[r].address = f.address /\ frame'[r].token = f.token
      /\ \A q \in Requests : q # r => frame'[q] = frame[q]
      /\ overlapped' \subseteq Organizations
  BY <1>1, StartFrame DEF TypeInv
<1>3. RequestTyped(frame[r])'
  BY <1>1, <1>2 DEF RequestTyped
<1>4. mailed' \in Seq(Addressee) /\ Len(mailed) <= Len(mailed')
  BY <1>1 DEF TypeInv, TypeOK
<1>5. \A q \in Requests : RequestTyped(frame[q])'
  BY <1>2, <1>3, <1>4, OthersTyped
<1>6. TypeOK'
  BY <1>1, <1>2 DEF TypeInv, TypeOK, rows
<1>7. QED
  BY <1>5, <1>6 DEF TypeInv

LEMMA TypeOrganization ==
  ASSUME TypeInv, NEW r \in Requests, InsertOrganization(r) \/ InsertTier(r) \/ SaveTier(r)
  PROVE  TypeInv'
<1>0. /\ mailed' = mailed /\ mailed' \in Seq(Addressee) /\ Len(mailed) <= Len(mailed')
      /\ frame[r].pc \in {"name", "tier", "link"} /\ frame[r].organization \in Organizations
  BY DEF TypeInv, TypeOK, RequestTyped, InsertOrganization, InsertTier, SaveTier, At
<1>1. frame' \in [Requests -> Frame] /\ \A q \in Requests : RequestTyped(frame[q])'
  <2>1. CASE Return(r)
    BY <1>0, <2>1, ReturnTyped
  <2>2. CASE Goto(r, "tier") \/ Goto(r, "link")
    BY <1>0, <2>2, GotoTyped DEF PCs
  <2>3. QED
    BY <2>1, <2>2 DEF InsertOrganization, InsertTier, SaveTier
<1>2. /\ DOMAIN organizations' \subseteq Organizations
      /\ \A o \in DOMAIN organizations' : organizations'[o] \in {"bare", "tiered", "linked"}
  <2>t. /\ DOMAIN organizations \subseteq Organizations
        /\ \A o \in DOMAIN organizations : organizations[o] \in {"bare", "tiered", "linked"}
    BY RangeIs DEF TypeInv, TypeOK
  <2>1. CASE organizations' = Inserted(organizations, frame[r].organization, "bare")
    <3>1. \A o \in DOMAIN organizations :
            o \in Organizations /\ organizations[o] \in {"bare", "tiered", "linked"}
      BY <2>t
    <3>2. \A o \in DOMAIN organizations' :
            o \in Organizations /\ organizations'[o] \in {"bare", "tiered", "linked"}
      BY <1>0, <2>1, <3>1, InsertedTyped
    <3>3. QED
      BY <3>2
  <2>2. CASE \/ organizations' = [organizations EXCEPT ![frame[r].organization] = "tiered"]
             \/ organizations' = [organizations EXCEPT ![frame[r].organization] = "linked"]
    BY <2>t, <2>2, UpdatedTyped
  <2>3. CASE organizations' = organizations
    BY <2>t, <2>3
  <2>4. QED
    BY <2>1, <2>2, <2>3 DEF InsertOrganization, InsertTier, SaveTier
<1>3. Range(organizations') \subseteq {"bare", "tiered", "linked"}
  BY <1>2, RangeIs
<1>4. UNCHANGED <<users, invitations, failures, overlapped, contested>>
  BY DEF InsertOrganization, InsertTier, SaveTier, history
<1>5. TypeOK'
  BY <1>0, <1>1, <1>2, <1>3, <1>4 DEF TypeInv, TypeOK
<1>6. QED
  BY <1>1, <1>5 DEF TypeInv

LEMMA InvitationsTyped ==
  ASSUME TypeOK
  PROVE  \A t \in DOMAIN invitations :
           /\ t \in 1..Len(mailed) /\ invitations[t] \in Invitation
           /\ invitations[t].address \in Addresses
<1>1. \A t \in DOMAIN invitations : t \in 1..Len(mailed) /\ invitations[t] \in Invitation
  BY RangeIs DEF TypeOK
<1>2. QED
  BY <1>1 DEF Invitation

LEMMA TypeInvite ==
  ASSUME TypeInv, NEW r \in Requests,
         FindInvitation(r) \/ CheckTier(r) \/ DeleteInvitation(r) \/ InsertInvitation(r)
  PROVE  TypeInv'
<1>a. /\ frame[r].pc \in {"find", "count", "delete", "insert"} /\ frame[r] \in Frame
      /\ UNCHANGED <<organizations, users, failures, overlapped, contested>>
      /\ RequestTyped(frame[r])
  <2>1. frame[r].pc \in {"find", "count", "delete", "insert"}
    BY DEF FindInvitation, CheckTier, DeleteInvitation, InsertInvitation, At
  <2>2. UNCHANGED <<organizations, users, failures, overlapped, contested>>
    BY DEF FindInvitation, CheckTier, DeleteInvitation, InsertInvitation, rows, history
  <2>3. QED
    BY <2>1, <2>2 DEF TypeInv, TypeOK
<1>0. /\ frame[r].pc \in {"find", "count", "delete", "insert"} /\ frame[r] \in Frame
      /\ frame[r].organization \in Organizations /\ frame[r].address \in Addresses
      /\ UNCHANGED <<organizations, users, failures, overlapped, contested>>
      /\ mailed \in Seq(Addressee) /\ Len(mailed) \in Nat
  BY <1>a DEF TypeInv, TypeOK, RequestTyped
<1>t. /\ \A t \in DOMAIN invitations : t \in 1..Len(mailed) /\ invitations[t] \in Invitation
  BY InvitationsTyped DEF TypeInv
<1>r. To(r) \in Addressee /\ Row(r, "pending", FALSE) \in Invitation
  BY <1>0 DEF To, Row, Addressee, Invitation
<1>1. /\ mailed' \in Seq(Addressee) /\ Len(mailed) <= Len(mailed')
      /\ \A t \in DOMAIN invitations' : t \in 1..Len(mailed') /\ invitations'[t] \in Invitation
  <2>1. CASE UNCHANGED <<invitations, mailed>>
    BY <1>0, <1>t, <2>1
  <2>2. CASE DeleteInvitation(r)
    <3>1. /\ mailed' = mailed
          /\ invitations' = [t \in DOMAIN invitations \ {frame[r].token} |-> invitations[t]]
      BY <2>2 DEF DeleteInvitation, Restrict
    <3>2. QED
      BY <1>0, <1>t, <3>1
  <2>3. CASE /\ mailed' = Append(mailed, To(r))
             /\ invitations' = Inserted(invitations, Len(mailed) + 1, Row(r, "pending", FALSE))
    <3>1. mailed' \in Seq(Addressee) /\ Len(mailed') = Len(mailed) + 1
      BY <1>0, <1>r, <2>3
    <3>2. QED
      <4>1. \A t \in DOMAIN invitations : t \in 1..Len(mailed') /\ invitations[t] \in Invitation
        BY <1>0, <1>t, <3>1
      <4>2. Len(mailed) + 1 \in 1..Len(mailed')
        BY <1>0, <3>1
      <4>3. \A t \in DOMAIN invitations' : t \in 1..Len(mailed') /\ invitations'[t] \in Invitation
        BY <1>r, <2>3, <4>1, <4>2, InsertedTyped
      <4>4. QED
        BY <1>0, <3>1, <4>3
  <2>4. QED
    BY <2>1, <2>2, <2>3 DEF FindInvitation, CheckTier, InsertInvitation, rows
<1>2. frame' \in [Requests -> Frame] /\ \A q \in Requests : RequestTyped(frame[q])'
  <2>1. CASE Return(r)
    BY <1>1, <2>1, ReturnTyped
  <2>2. CASE FindInvitation(r) \/ DeleteInvitation(r) \/ CheckTier(r)
    <3>1. mailed' = mailed
      BY <2>2 DEF FindInvitation, DeleteInvitation, CheckTier
    <3>2. CASE \/ Goto(r, "count") /\ frame[r].pc = "find"
               \/ Goto(r, "insert") /\ frame[r].pc \in {"count", "delete"}
               \/ Goto(r, "delete") /\ frame[r].pc = "count"
      BY <3>1, <3>2, GotoTyped DEF PCs
    <3>3. CASE \E t \in DOMAIN invitations : frame' = [frame EXCEPT ![r].pc = "count", ![r].token = t]
      <4>a. PICK t \in DOMAIN invitations :
              frame' = [frame EXCEPT ![r].pc = "count", ![r].token = t]
        BY <3>3, Zenon
      <4>1. t \in Nat /\ frame' = [frame EXCEPT ![r].pc = "count", ![r].token = t]
        BY <1>0, <1>t, <4>a
      <4>2. /\ frame' \in [Requests -> Frame]
            /\ frame'[r].pc = "count" /\ frame'[r].organization = frame[r].organization
            /\ frame'[r].address = frame[r].address
            /\ \A q \in Requests : q # r => frame'[q] = frame[q]
        BY <4>1 DEF TypeInv, TypeOK, Frame, PCs, Tokens
      <4>3. RequestTyped(frame[r])'
        BY <1>0, <4>2 DEF RequestTyped
      <4>4. QED
        BY <1>1, <4>2, <4>3, OthersTyped
    <3>4. QED
      BY <2>1, <2>2, <3>2, <3>3 DEF FindInvitation, DeleteInvitation, CheckTier, At, RowsOf
  <2>3. QED
    BY <2>1, <2>2 DEF InsertInvitation
<1>3. Range(invitations') \subseteq Invitation
  BY <1>1, RangeIs
<1>4. TypeOK'
  BY <1>0, <1>1, <1>2, <1>3 DEF TypeInv, TypeOK
<1>5. QED
  BY <1>2, <1>4 DEF TypeInv

LEMMA TypeAccept ==
  ASSUME TypeInv, NEW r \in Requests, CheckAccount(r) \/ InsertUser(r) \/ SaveAccepted(r)
  PROVE  TypeInv'
<1>0. /\ frame[r].pc \in {"existing", "user", "accepted"}
      /\ frame[r].organization \in Organizations /\ frame[r].address \in Addresses
      /\ frame[r].token \in 1..Len(mailed)
      /\ UNCHANGED <<organizations, mailed, failures, overlapped, contested>>
      /\ mailed' \in Seq(Addressee) /\ Len(mailed) <= Len(mailed')
  BY DEF TypeInv, TypeOK, RequestTyped, CheckAccount, InsertUser, SaveAccepted, At, rows, history
<1>t. \A t \in DOMAIN invitations : t \in 1..Len(mailed) /\ invitations[t] \in Invitation
  BY InvitationsTyped DEF TypeInv
<1>u. /\ DOMAIN users \subseteq Addresses
      /\ \A a \in DOMAIN users : users[a] \in Organizations \cup {None}
  BY RangeIs DEF TypeInv, TypeOK
<1>1. frame' \in [Requests -> Frame] /\ \A q \in Requests : RequestTyped(frame[q])'
  <2>1. CASE Return(r)
    BY <1>0, <2>1, ReturnTyped
  <2>2. CASE \/ Goto(r, "user") /\ frame[r].pc = "existing"
             \/ Goto(r, "accepted") /\ frame[r].pc = "user"
    BY <1>0, <2>2, GotoTyped DEF PCs
  <2>3. QED
    BY <2>1, <2>2 DEF CheckAccount, InsertUser, SaveAccepted, At
<1>2. /\ DOMAIN users' \subseteq Addresses
      /\ \A a \in DOMAIN users' : users'[a] \in Organizations \cup {None}
  <2>1. CASE users' = users
    BY <1>u, <2>1
  <2>2. CASE users' = Inserted(users, frame[r].address, frame[r].organization)
    <3>1. \A a \in DOMAIN users : a \in Addresses /\ users[a] \in Organizations \cup {None}
      BY <1>u
    <3>2. \A a \in DOMAIN users' : a \in Addresses /\ users'[a] \in Organizations \cup {None}
      BY <1>0, <2>2, <3>1, InsertedTyped
    <3>3. QED
      BY <3>2
  <2>3. QED
    BY <2>1, <2>2 DEF CheckAccount, InsertUser, SaveAccepted, rows
<1>3. \A t \in DOMAIN invitations' : t \in 1..Len(mailed) /\ invitations'[t] \in Invitation
  <2>1. CASE invitations' = invitations
    BY <1>t, <2>1
  <2>2. CASE invitations' # invitations
    <3> DEFINE x == frame[r].token \in DOMAIN invitations /\ invitations[frame[r].token].expired
    <3>1. invitations' = Inserted(invitations, frame[r].token, Row(r, "accepted", x))
      BY <2>2 DEF CheckAccount, InsertUser, SaveAccepted, rows
    <3>2. x \in BOOLEAN
      BY <1>t DEF Invitation
    <3> HIDE DEF x
    <3>3. Row(r, "accepted", x) \in Invitation
      BY <1>0, <3>2 DEF Row, Invitation
    <3>4. QED
      BY <1>0, <1>t, <3>1, <3>3, InsertedTyped
  <2>3. QED
    BY <2>1, <2>2
<1>4. /\ Range(invitations') \subseteq Invitation
      /\ Range(users') \subseteq Organizations \cup {None}
  BY <1>2, <1>3, RangeIs
<1>5. TypeOK'
  BY <1>0, <1>1, <1>2, <1>3, <1>4 DEF TypeInv, TypeOK
<1>6. QED
  BY <1>1, <1>5 DEF TypeInv

LEMMA FindFrame ==
  ASSUME TypeInv, NEW r \in Requests, FindMembers(r)
  PROVE  /\ frame' \in [Requests -> Frame] /\ frame'[r].pc = "write"
         /\ frame'[r].organization = frame[r].organization
         /\ frame'[r].address = frame[r].address
         /\ frame'[r].members = frame[r].members \ Members(frame[r].organization)
         /\ frame'[r].detached = Members(frame[r].organization) \ frame[r].members
         /\ \A q \in Requests : q # r => frame'[q] = frame[q]
<1> DEFINE attached == frame[r].members \ Members(frame[r].organization)
           detached == Members(frame[r].organization) \ frame[r].members
<1>1. /\ frame \in [Requests -> Frame] /\ frame[r] \in Frame
      /\ attached \in SUBSET Addresses /\ detached \in SUBSET Addresses
  BY DEF TypeInv, TypeOK, Frame, Members
<1>2. frame' = [frame EXCEPT ![r].pc = "write", ![r].members = attached, ![r].detached = detached]
  BY DEF FindMembers
<1> HIDE DEF attached, detached
<1>3. /\ frame' \in [Requests -> Frame] /\ frame'[r].pc = "write"
      /\ frame'[r].organization = frame[r].organization
      /\ frame'[r].address = frame[r].address
      /\ frame'[r].members = attached /\ frame'[r].detached = detached
      /\ \A q \in Requests : q # r => frame'[q] = frame[q]
  BY <1>1, <1>2 DEF Frame, PCs
<1>4. QED
  BY <1>3 DEF attached, detached

LEMMA TypeOther ==
  ASSUME TypeInv,
         \/ \E r \in Requests : FindMembers(r) \/ SaveMembers(r) \/ Fail(r)
         \/ \E t \in DOMAIN invitations : Expire(t)
         \/ UNCHANGED vars
  PROVE  TypeInv'
<1>m. ASSUME NEW r \in Requests, FindMembers(r) \/ SaveMembers(r) \/ Fail(r)
      PROVE  mailed' = mailed
  BY <1>m DEF FindMembers, SaveMembers, Fail
<1>0. mailed' = mailed /\ mailed \in Seq(Addressee) /\ Len(mailed) <= Len(mailed)
  BY <1>m DEF Expire, vars, TypeInv, TypeOK
<1>f. ASSUME NEW r \in Requests, FindMembers(r)
      PROVE  TypeInv'
  <2>1. /\ frame[r].pc = "members" /\ frame[r].organization \in Organizations
        /\ UNCHANGED <<organizations, users, invitations, failures, overlapped, contested>>
    BY <1>f DEF FindMembers, At, rows, history, TypeInv, RequestTyped
  <2>2. /\ frame' \in [Requests -> Frame] /\ frame'[r].pc = "write"
        /\ frame'[r].organization = frame[r].organization
        /\ \A q \in Requests : q # r => frame'[q] = frame[q]
    BY <1>f, FindFrame
  <2>3. RequestTyped(frame[r])'
    BY <2>1, <2>2 DEF RequestTyped
  <2>4. \A q \in Requests : RequestTyped(frame[q])'
    BY <1>0, <2>2, <2>3, OthersTyped
  <2>5. TypeOK'
    BY <1>0, <2>1, <2>2 DEF TypeInv, TypeOK
  <2>6. QED
    BY <2>4, <2>5 DEF TypeInv
<1>1. ASSUME NEW r \in Requests, SaveMembers(r)
      PROVE  TypeInv'
  <2>1. /\ frame[r].pc = "write" /\ frame[r].organization \in Organizations
        /\ Return(r) /\ UNCHANGED <<organizations, invitations, failures, overlapped, contested>>
        /\ users' = [a \in DOMAIN users |->
                       IF a \in frame[r].detached THEN None
                       ELSE IF a \in frame[r].members THEN frame[r].organization
                       ELSE users[a]]
    BY <1>1 DEF SaveMembers, At, history, TypeInv, RequestTyped
  <2>2. frame' \in [Requests -> Frame] /\ \A q \in Requests : RequestTyped(frame[q])'
    BY <1>0, <2>1, ReturnTyped
  <2>3. /\ DOMAIN users \subseteq Addresses
        /\ \A a \in DOMAIN users : users[a] \in Organizations \cup {None}
    BY RangeIs DEF TypeInv, TypeOK
  <2>4. /\ DOMAIN users' \subseteq Addresses
        /\ \A a \in DOMAIN users' : users'[a] \in Organizations \cup {None}
    BY <2>1, <2>3
  <2>5. Range(users') \subseteq Organizations \cup {None}
    BY <2>4, RangeIs
  <2>6. TypeOK'
    BY <1>0, <2>1, <2>2, <2>4, <2>5 DEF TypeInv, TypeOK
  <2>7. QED
    BY <2>2, <2>6 DEF TypeInv
<1>2. ASSUME NEW r \in Requests, Fail(r)
      PROVE  TypeInv'
  <2>1. /\ Return(r) /\ UNCHANGED <<organizations, users, invitations, overlapped, contested>>
        /\ failures' = failures + 1 /\ failures < MaxFailures
    BY <1>2 DEF Fail, rows
  <2>2. frame' \in [Requests -> Frame] /\ \A q \in Requests : RequestTyped(frame[q])'
    BY <1>0, <2>1, ReturnTyped
  <2>3. TypeOK'
    BY <1>0, <2>1, <2>2, BoundsAssumption DEF TypeInv, TypeOK
  <2>4. QED
    BY <2>2, <2>3 DEF TypeInv
<1>3. ASSUME NEW t \in DOMAIN invitations, Expire(t)
      PROVE  TypeInv'
  <2>1. /\ invitations' = [invitations EXCEPT ![t].expired = TRUE]
        /\ UNCHANGED <<organizations, users, frame, failures, overlapped, contested>>
    BY <1>3 DEF Expire, history
  <2>2. \A s \in DOMAIN invitations : s \in 1..Len(mailed) /\ invitations[s] \in Invitation
    BY InvitationsTyped DEF TypeInv
  <2>3. \A s \in DOMAIN invitations' : s \in 1..Len(mailed) /\ invitations'[s] \in Invitation
    BY <2>1, <2>2 DEF Invitation
  <2>4. Range(invitations') \subseteq Invitation
    BY <2>3, RangeIs
  <2>5. TypeOK'
    BY <1>0, <2>1, <2>3, <2>4 DEF TypeInv, TypeOK
  <2>6. \A q \in Requests : RequestTyped(frame[q])'
    BY <1>0, <2>1 DEF TypeInv, RequestTyped
  <2>7. QED
    BY <2>5, <2>6 DEF TypeInv
<1>4. CASE UNCHANGED vars
  BY <1>4 DEF vars, TypeInv, TypeOK, RequestTyped
<1>5. QED
  BY <1>f, <1>1, <1>2, <1>3, <1>4

LEMMA TypeInit == Init => TypeInv
<1> SUFFICES ASSUME Init PROVE TypeInv
  OBVIOUS
<1>1. DOMAIN organizations = {} /\ DOMAIN users = {} /\ DOMAIN invitations = {}
  BY DEF Init
<1>2. /\ Range(organizations) = {} /\ Range(users) = {} /\ Range(invitations) = {}
  BY <1>1 DEF Range
<1>3. frame \in [Requests -> Frame] /\ \A r \in Requests : frame[r].pc = "idle"
  BY IdleIsFrame DEF Init
<1>4. failures \in 0..MaxFailures /\ mailed \in Seq(Addressee) /\ overlapped = {} /\ contested = {}
  BY BoundsAssumption DEF Init
<1>5. TypeOK
  BY <1>1, <1>2, <1>3, <1>4 DEF TypeOK
<1>6. QED
  BY <1>3, <1>5 DEF TypeInv, RequestTyped

LEMMA TypeNext == TypeInv /\ [Next]_vars => TypeInv'
<1> SUFFICES ASSUME TypeInv, [Next]_vars
             PROVE  TypeInv'
  OBVIOUS
<1>1. ASSUME NEW r \in Requests, Continue(r), ~ FindMembers(r), ~ SaveMembers(r)
      PROVE  TypeInv'
  BY <1>1, TypeOrganization, TypeInvite, TypeAccept DEF Continue
<1>2. QED
  BY <1>1, TypeArrive, TypeOther DEF Next

(* Every variable keeps its type.  A row, an email or an account always has  *)
(* an organization and an address: no handler writes what it never read.     *)
THEOREM TypeCorrect == Spec => []TypeOK
<1>1. TypeInv => TypeOK
  BY DEF TypeInv
<1>2. QED
  BY <1>1, TypeInit, TypeNext, PTL DEF Spec

-----------------------------------------------------------------------------
(* How a step changes one frame *)

(* Every action of a request leaves the frames of the others alone, and its  *)
(* own becomes idle, goes on, or is a beginning.                             *)
LEMMA FrameStep ==
  ASSUME TypeInv, NEW r \in Requests, Continue(r) \/ Fail(r)
  PROVE  /\ \A q \in Requests : q # r => frame'[q] = frame[q]
         /\ frame'[r].pc # "members"
         /\ frame'[r].pc = "write" => FindMembers(r)
         /\ frame'[r].pc = "accepted" =>
              /\ At(r, "user") /\ frame[r].address \notin DOMAIN users
              /\ users' = Inserted(users, frame[r].address, frame[r].organization)
              /\ frame'[r].address = frame[r].address
<1>1. CASE Return(r)
  BY <1>1, ReturnFrame, IdleIsFrame DEF TypeInv
<1>2. ASSUME NEW pc \in PCs \ {"members", "write", "accepted"}, Goto(r, pc)
      PROVE  /\ \A q \in Requests : q # r => frame'[q] = frame[q]
             /\ frame'[r].pc \notin {"members", "write", "accepted"}
  BY <1>2, GotoFrame DEF TypeInv
<1>3. CASE \E t \in DOMAIN invitations : frame' = [frame EXCEPT ![r].pc = "count", ![r].token = t]
  <2>1. PICK t \in DOMAIN invitations : frame' = [frame EXCEPT ![r].pc = "count", ![r].token = t]
    BY <1>3, Zenon
  <2>2. frame'[r].pc = "count" /\ \A q \in Requests : q # r => frame'[q] = frame[q]
    BY <2>1 DEF TypeInv, TypeOK, Frame
  <2>3. QED
    BY <2>2
<1>4. CASE InsertUser(r)
  <2>1. CASE Return(r)
    BY <2>1, <1>1
  <2>2. CASE ~ Return(r)
    <3>1. /\ At(r, "user") /\ frame[r].address \notin DOMAIN users
          /\ users' = Inserted(users, frame[r].address, frame[r].organization)
          /\ Goto(r, "accepted")
      BY <1>4, <2>2 DEF InsertUser
    <3>2. /\ frame'[r].pc = "accepted" /\ frame'[r].address = frame[r].address
          /\ \A q \in Requests : q # r => frame'[q] = frame[q]
      BY <3>1, GotoFrame DEF TypeInv, PCs
    <3>3. QED
      BY <3>1, <3>2
  <2>3. QED
    BY <2>1, <2>2
<1>5. ASSUME Continue(r), ~ InsertUser(r), ~ FindMembers(r)
      PROVE  \/ Return(r)
             \/ \E pc \in PCs \ {"members", "write", "accepted"} : Goto(r, pc)
             \/ \E t \in DOMAIN invitations :
                  frame' = [frame EXCEPT ![r].pc = "count", ![r].token = t]
  <2>1. CASE InsertOrganization(r) \/ InsertTier(r) \/ SaveTier(r)
    BY <2>1 DEF InsertOrganization, InsertTier, SaveTier, PCs
  <2>2. CASE FindInvitation(r)
    BY <2>2 DEF FindInvitation, RowsOf, PCs
  <2>3. CASE CheckTier(r) \/ DeleteInvitation(r) \/ InsertInvitation(r)
    BY <2>3 DEF CheckTier, DeleteInvitation, InsertInvitation, PCs
  <2>4. CASE CheckAccount(r) \/ SaveAccepted(r) \/ SaveMembers(r)
    BY <2>4 DEF CheckAccount, SaveAccepted, SaveMembers, PCs
  <2>5. QED
    BY <1>5, <2>1, <2>2, <2>3, <2>4 DEF Continue
<1>6. CASE Fail(r)
  BY <1>1, <1>6 DEF Fail
<1>7. CASE \E pc \in PCs \ {"members", "write", "accepted"} : Goto(r, pc)
  BY <1>2, <1>7
<1>8. CASE Continue(r) /\ ~ InsertUser(r) /\ ~ FindMembers(r)
  BY <1>1, <1>3, <1>5, <1>7, <1>8
<1>9. CASE FindMembers(r)
  BY <1>9, FindFrame
<1>10. QED
  BY <1>4, <1>6, <1>8, <1>9

(* The accounts: a step inserts one, or saves the members a revocation read. *)
LEMMA UsersStep ==
  ASSUME [Next]_vars
  PROVE  \/ users' = users
         \/ \E r \in Requests : InsertUser(r) /\ frame[r].address \notin DOMAIN users
         \/ \E r \in Requests : SaveMembers(r)
<1>1. ASSUME NEW r \in Requests, Arrive(r) \/ Fail(r)
      PROVE  users' = users
  <2>1. CASE Fail(r)
    BY <2>1 DEF Fail, rows
  <2>2. ASSUME NEW org \in Organizations, admin_createOrganization(r, org)
        PROVE  users' = users
    BY <2>2 DEF admin_createOrganization, rows
  <2>3. ASSUME NEW org \in Organizations, NEW a \in Addresses,
               defineInvitation(r, org, a) \/ revokeMembership(r, org, a)
        PROVE  users' = users
    BY <2>3 DEF defineInvitation, revokeMembership, Revoke, rows
  <2>4. ASSUME NEW t \in DOMAIN invitations, acceptInvitation(r, t)
        PROVE  users' = users
    BY <2>4 DEF acceptInvitation, rows
  <2>5. QED
    BY <1>1, <2>1, <2>2, <2>3, <2>4 DEF Arrive
<1>2. ASSUME NEW r \in Requests, Continue(r), ~ SaveMembers(r), ~ InsertUser(r)
      PROVE  users' = users
  BY <1>2 DEF Continue, InsertOrganization, InsertTier, SaveTier, FindInvitation, CheckTier,
              DeleteInvitation, InsertInvitation, CheckAccount, SaveAccepted, FindMembers, rows
<1>3. ASSUME NEW r \in Requests, InsertUser(r), frame[r].address \in DOMAIN users
      PROVE  users' = users
  BY <1>3 DEF InsertUser
<1>4. ASSUME NEW t \in DOMAIN invitations, Expire(t)
      PROVE  users' = users
  BY <1>4 DEF Expire
<1>5. QED
  BY <1>1, <1>2, <1>3, <1>4 DEF Next, vars

LEMMA UsersStay == ASSUME [Next]_vars PROVE DOMAIN users \subseteq DOMAIN users'
<1>1. ASSUME NEW r \in Requests, InsertUser(r), frame[r].address \notin DOMAIN users
      PROVE  DOMAIN users \subseteq DOMAIN users'
  BY <1>1 DEF InsertUser, Inserted
<1>2. ASSUME NEW r \in Requests, SaveMembers(r)
      PROVE  DOMAIN users \subseteq DOMAIN users'
  BY <1>2 DEF SaveMembers
<1>3. QED
  BY <1>1, <1>2, UsersStep

-----------------------------------------------------------------------------
(* An accepted invitation has an account *)

AccountInv ==
  /\ AcceptedHasAccount
  /\ \A r \in Requests : At(r, "accepted") => frame[r].address \in DOMAIN users

(* The accepted rows of a step are accepted rows of before, or the one that  *)
(* a request past its account saves.                                         *)
LEMMA AcceptedRows ==
  ASSUME TypeInv, [Next]_vars, NEW t \in DOMAIN invitations', invitations'[t].status = "accepted"
  PROVE  \/ /\ t \in DOMAIN invitations /\ invitations[t].status = "accepted"
            /\ invitations'[t].address = invitations[t].address
         \/ \E r \in Requests : At(r, "accepted") /\ invitations'[t].address = frame[r].address
<1> DEFINE Kept == /\ t \in DOMAIN invitations /\ invitations[t].status = "accepted"
                   /\ invitations'[t].address = invitations[t].address
<1>1. ASSUME invitations' = invitations
      PROVE  Kept
  BY <1>1
<1>2. ASSUME NEW r \in Requests, Arrive(r) \/ Fail(r)
      PROVE  invitations' = invitations
  <2>1. ASSUME Arrive(r)
        PROVE  invitations' = invitations
    BY <2>1, Beginnings DEF TypeInv, rows
  <2>2. QED
    BY <1>2, <2>1 DEF Fail, rows
<1>3. ASSUME NEW r \in Requests, Continue(r), ~ DeleteInvitation(r), ~ InsertInvitation(r),
             ~ SaveAccepted(r)
      PROVE  invitations' = invitations
  BY <1>3 DEF Continue, InsertOrganization, InsertTier, SaveTier, FindInvitation, CheckTier,
              CheckAccount, InsertUser, FindMembers, SaveMembers, rows
<1>4. ASSUME NEW r \in Requests, DeleteInvitation(r)
      PROVE  Kept
  BY <1>4 DEF DeleteInvitation, Restrict
<1>5. ASSUME NEW r \in Requests, InsertInvitation(r)
      PROVE  Kept
  <2>1. CASE invitations' = Inserted(invitations, Len(mailed) + 1, Row(r, "pending", FALSE))
    <3>1. Row(r, "pending", FALSE).status = "pending"
      BY DEF Row
    <3>2. QED
      BY <2>1, <3>1 DEF Inserted
  <2>2. QED
    BY <1>1, <1>5, <2>1 DEF InsertInvitation
<1>6. ASSUME NEW r \in Requests, SaveAccepted(r)
      PROVE  \/ Kept
             \/ At(r, "accepted") /\ invitations'[t].address = frame[r].address
  <2> DEFINE x == frame[r].token \in DOMAIN invitations /\ invitations[frame[r].token].expired
  <2>1. CASE invitations' = Inserted(invitations, frame[r].token, Row(r, "accepted", x))
    <3>1. Row(r, "accepted", x).address = frame[r].address
      BY DEF Row
    <3> HIDE DEF x
    <3>2. QED
      BY <1>6, <2>1, <3>1 DEF SaveAccepted, Inserted
  <2>2. QED
    BY <1>1, <1>6, <2>1 DEF SaveAccepted
<1>7. ASSUME NEW s \in DOMAIN invitations, Expire(s)
      PROVE  Kept
  <2>1. invitations' = [invitations EXCEPT ![s].expired = TRUE]
    BY <1>7 DEF Expire
  <2>2. t \in DOMAIN invitations /\ invitations[t] \in Invitation
    BY <2>1, InvitationsTyped DEF TypeInv
  <2>3. /\ invitations'[t].status = invitations[t].status
        /\ invitations'[t].address = invitations[t].address
    BY <2>1, <2>2 DEF Invitation
  <2>4. QED
    BY <2>2, <2>3
<1> HIDE DEF Kept
<1>8. \/ Kept
      \/ \E r \in Requests : At(r, "accepted") /\ invitations'[t].address = frame[r].address
  BY <1>1, <1>2, <1>3, <1>4, <1>5, <1>6, <1>7 DEF Next, vars
<1>9. QED
  BY <1>8 DEF Kept

LEMMA AccountStep == TypeInv /\ AccountInv /\ [Next]_vars => AccountInv'
<1> SUFFICES ASSUME TypeInv, AccountInv, [Next]_vars
             PROVE  AccountInv'
  OBVIOUS
<1>1. DOMAIN users \subseteq DOMAIN users'
  BY UsersStay
<1>2. AcceptedHasAccount'
  <2>1. ASSUME NEW t \in DOMAIN invitations', invitations'[t].status = "accepted"
        PROVE  invitations'[t].address \in DOMAIN users'
    BY <1>1, <2>1, AcceptedRows DEF AccountInv, AcceptedHasAccount
  <2>2. QED
    BY <2>1 DEF AcceptedHasAccount
<1>3. ASSUME NEW q \in Requests, frame'[q].pc = "accepted"
      PROVE  frame'[q].address \in DOMAIN users'
  <2>1. CASE frame'[q] = frame[q]
    BY <1>1, <1>3, <2>1 DEF AccountInv, At
  <2>2. ASSUME NEW r \in Requests, Arrive(r)
        PROVE  frame'[q] = frame[q]
    <3>1. PICK org \in Organizations, f \in Frame :
            Start(r, org, f) /\ f.pc \in {"name", "find", "existing", "members"}
      BY <2>2, Beginnings DEF TypeInv
    <3>2. frame'[r].pc = f.pc /\ \A p \in Requests : p # r => frame'[p] = frame[p]
      BY <3>1, StartFrame DEF TypeInv
    <3>3. QED
      BY <1>3, <3>1, <3>2
  <2>3. ASSUME NEW r \in Requests, Continue(r) \/ Fail(r)
        PROVE  frame'[q].address \in DOMAIN users'
    <3>1. CASE q # r
      BY <2>1, <2>3, <3>1, FrameStep
    <3>2. CASE q = r
      <4>1. /\ users' = Inserted(users, frame[r].address, frame[r].organization)
            /\ frame'[r].address = frame[r].address
        BY <1>3, <2>3, <3>2, FrameStep
      <4>2. QED
        BY <3>2, <4>1 DEF Inserted
    <3>3. QED
      BY <3>1, <3>2
  <2>4. ASSUME NEW t \in DOMAIN invitations, Expire(t)
        PROVE  frame'[q] = frame[q]
    BY <2>4 DEF Expire
  <2>5. QED
    BY <2>1, <2>2, <2>3, <2>4 DEF Next, vars
<1>4. QED
  BY <1>2, <1>3 DEF AccountInv, At

(* An invitation is accepted only once its addressee has an account, however *)
(* acceptances and renewals overlap and wherever a request fails: no request *)
(* reaches the save of an acceptance before the account is inserted, and an  *)
(* account is never deleted.                                                 *)
THEOREM AcceptedHaveAccounts == Spec => []AcceptedHasAccount
<1>1. Init => AccountInv
  BY IdleIsFrame DEF Init, AccountInv, AcceptedHasAccount, At
<1>2. AccountInv => AcceptedHasAccount
  BY DEF AccountInv
<1>3. QED
  BY <1>1, <1>2, TypeInit, TypeNext, AccountStep, PTL DEF Spec

-----------------------------------------------------------------------------
(* The last member stays *)

(* What a revocation holds: each of the members it will detach or attach is  *)
(* a member of its organization or of none, for nobody without an            *)
(* organization is ever made a member of another.                            *)
Held(r) == frame[r].members \cup frame[r].detached

AtHome(r) ==
  Revoking(r) =>
    \A a \in Held(r) : a \in DOMAIN users /\ users[a] \in {frame[r].organization, None}

Apart(r, q) ==
  Revoking(r) /\ Revoking(q) /\ frame[r].organization # frame[q].organization =>
    Held(r) \cap Held(q) = {}

(* A revocation spares the members on its list, and at its write those that  *)
(* it does not detach.                                                       *)
Spares(r, a) ==
  /\ frame[r].address # a
  /\ At(r, "members") => a \in frame[r].members
  /\ At(r, "write") => a \notin frame[r].detached

(* Where no two members were revoked at once, the revocations at work are of *)
(* one member, and they all spare another; once there was a member there is  *)
(* always such a one.                                                        *)
Worked(org) == \E r \in Requests : Revoking(r) /\ frame[r].organization = org

Spared(org) ==
  \E a \in Members(org) :
    \A r \in Requests : Revoking(r) /\ frame[r].organization = org => Spares(r, a)

Together(org) ==
  \A r, q \in Requests :
    Revoking(r) /\ Revoking(q) /\ frame[r].organization = org /\ frame[q].organization = org
      => frame[r].address = frame[q].address

SparedInv ==
  \A org \in Organizations \ contested :
    Together(org) /\ (Members(org) # {} \/ Worked(org) => Spared(org))

MembersInv ==
  /\ \A r \in Requests : AtHome(r)
  /\ \A r, q \in Requests : Apart(r, q)

LEMMA SomebodyElse ==
  ASSUME NEW S, NEW a \in S, Cardinality(S) # 1
  PROVE  S \ {a} # {}
<1> SUFFICES ASSUME S \ {a} = {} PROVE FALSE
  OBVIOUS
<1>1. S = {a}
  OBVIOUS
<1>2. QED
  BY <1>1, FS_Singleton

(* A revocation that begins holds members of its organization only. *)
LEMMA MembersArrive ==
  ASSUME TypeInv, MembersInv, NEW r \in Requests, Arrive(r)
  PROVE  MembersInv'
<1>1. PICK org \in Organizations, f \in Frame :
        /\ Start(r, org, f)
        /\ UNCHANGED <<rows, mailed, failures>>
        /\ f.pc \in {"name", "find", "existing", "members"}
        /\ f.pc = "members" =>
             /\ f.members = Members(org) \ {f.address} /\ f.detached = {}
  BY Beginnings DEF TypeInv
<1>2. /\ frame'[r].pc = f.pc /\ frame'[r].organization = org
      /\ frame'[r].members = f.members /\ frame'[r].detached = f.detached
      /\ \A q \in Requests : q # r => frame'[q] = frame[q]
      /\ users' = users
  BY <1>1, StartFrame DEF TypeInv, rows
<1>3. ASSUME Revoking(r)'
      PROVE  \A a \in Held(r)' : a \in DOMAIN users /\ users[a] = org
  BY <1>1, <1>2, <1>3 DEF Members, Held, Revoking
<1>4. ASSUME NEW q \in Requests
      PROVE  AtHome(q)'
  <2>1. CASE q = r
    BY <1>2, <1>3, <2>1 DEF AtHome
  <2>2. CASE q # r
    BY <1>2, <2>2 DEF MembersInv, AtHome, Revoking, Held
  <2>3. QED
    BY <2>1, <2>2
<1>5. ASSUME NEW q \in Requests, q # r, Revoking(r)', Revoking(q), frame[q].organization # org
      PROVE  Held(r)' \cap Held(q) = {}
  BY <1>3, <1>5, NoneAssumption DEF MembersInv, AtHome
<1>6. ASSUME NEW p \in Requests, NEW q \in Requests
      PROVE  Apart(p, q)'
  <2>0. ASSUME NEW h \in Requests, h # r
        PROVE  /\ Revoking(h)' <=> Revoking(h)
               /\ Held(h)' = Held(h)
               /\ frame'[h].organization = frame[h].organization
    BY <1>2, <2>0 DEF Revoking, Held
  <2>1. CASE p # r /\ q # r
    BY <2>0, <2>1 DEF MembersInv, Apart
  <2>2. CASE p = r /\ q # r
    BY <1>2, <1>5, <2>0, <2>2 DEF Apart
  <2>3. CASE p # r /\ q = r
    BY <1>2, <1>5, <2>0, <2>3 DEF Apart
  <2>4. CASE p = r /\ q = r
    BY <2>4 DEF Apart
  <2>5. QED
    BY <2>1, <2>2, <2>3, <2>4
<1>7. QED
  BY <1>4, <1>6 DEF MembersInv

(* What the write of a revocation does to the accounts. *)
LEMMA SaveStep ==
  ASSUME TypeInv, NEW r \in Requests, SaveMembers(r)
  PROVE  /\ DOMAIN users' = DOMAIN users
         /\ \A a \in DOMAIN users :
              users'[a] = IF a \in frame[r].detached THEN None
                          ELSE IF a \in frame[r].members THEN frame[r].organization
                          ELSE users[a]
         /\ frame[r].organization \in Organizations
         /\ At(r, "write") /\ Revoking(r)
         /\ frame'[r] = Idle /\ \A q \in Requests : q # r => frame'[q] = frame[q]
BY ReturnFrame DEF SaveMembers, TypeInv, RequestTyped, At, Revoking

(* A revocation at work after a step that begins none was at work before;    *)
(* what it holds, it held or read as members of its organization.            *)
LEMMA RevokingStep ==
  ASSUME TypeInv, [Next]_vars, \A r \in Requests : ~ Arrive(r), NEW q \in Requests,
         Revoking(q)'
  PROVE  /\ Revoking(q)
         /\ frame'[q].organization = frame[q].organization
         /\ frame'[q].address = frame[q].address
         /\ frame'[q] = frame[q] \/ FindMembers(q)
<1>1. ASSUME frame'[q] = frame[q]
      PROVE  Revoking(q)
  BY <1>1 DEF Revoking
<1>2. CASE FindMembers(q)
  BY <1>2, FindFrame DEF FindMembers, At, Revoking
<1>3. ASSUME NEW r \in Requests, Continue(r) \/ Fail(r)
      PROVE  frame'[q] = frame[q] \/ FindMembers(q)
  BY <1>3, FrameStep DEF Revoking
<1>4. ASSUME NEW t \in DOMAIN invitations, Expire(t)
      PROVE  frame'[q] = frame[q]
  BY <1>4 DEF Expire
<1>5. frame'[q] = frame[q] \/ FindMembers(q)
  BY <1>3, <1>4 DEF Next, vars
<1>6. QED
  BY <1>1, <1>2, <1>5

(* Somebody newly held was a member of the organization, not on the list. *)
LEMMA HeldStep ==
  ASSUME TypeInv, [Next]_vars, \A r \in Requests : ~ Arrive(r), NEW q \in Requests,
         Revoking(q)', NEW a \in Held(q)'
  PROVE  \/ a \in Held(q)
         \/ FindMembers(q) /\ a \in DOMAIN users /\ users[a] = frame[q].organization
<1>1. CASE frame'[q] = frame[q]
  BY <1>1 DEF Held
<1>2. CASE FindMembers(q)
  BY <1>2, FindFrame DEF Held, Members
<1>3. QED
  BY <1>1, <1>2, RevokingStep

LEMMA MembersContinue ==
  ASSUME TypeInv, MembersInv, [Next]_vars, \A r \in Requests : ~ Arrive(r)
  PROVE  MembersInv'
<1>1. ASSUME NEW q \in Requests, Revoking(q)', NEW a \in Held(q)'
      PROVE  a \in DOMAIN users /\ users[a] \in {frame[q].organization, None}
  BY <1>1, RevokingStep, HeldStep DEF MembersInv, AtHome
<1>2. ASSUME NEW q \in Requests, Revoking(q)', NEW a \in Held(q)'
      PROVE  a \in DOMAIN users' /\ users'[a] \in {frame[q].organization, None}
  <2>1. a \in DOMAIN users /\ users[a] \in {frame[q].organization, None}
    BY <1>1, <1>2
  <2>2. CASE users' = users
    BY <2>1, <2>2
  <2>3. ASSUME NEW r \in Requests, InsertUser(r), frame[r].address \notin DOMAIN users
        PROVE  a \in DOMAIN users' /\ users'[a] \in {frame[q].organization, None}
    BY <2>1, <2>3 DEF InsertUser, Inserted
  <2>4. ASSUME NEW r \in Requests, SaveMembers(r)
        PROVE  a \in DOMAIN users' /\ users'[a] \in {frame[q].organization, None}
    <3>1. CASE a \notin Held(r)
      BY <2>1, <2>4, <3>1, SaveStep DEF Held
    <3>2. CASE a \in Held(r) /\ frame[r].organization = frame[q].organization
      BY <2>1, <2>4, <3>2, SaveStep
    <3>3. CASE a \in Held(r) /\ frame[r].organization # frame[q].organization
      <4>1. Revoking(q) /\ (a \in Held(q) \/ FindMembers(q))
        BY <1>2, RevokingStep, HeldStep
      <4>2. a \notin Held(q)
        BY <2>4, <3>3, <4>1, SaveStep DEF MembersInv, Apart
      <4>3. FindMembers(q)
        BY <4>1, <4>2
      <4>4. users' = users
        BY <4>3 DEF FindMembers, rows
      <4>5. QED
        BY <2>1, <4>4
    <3>4. QED
      BY <3>1, <3>2, <3>3
  <2>5. QED
    BY <2>2, <2>3, <2>4, UsersStep
<1>3. ASSUME NEW q \in Requests
      PROVE  AtHome(q)'
  BY <1>2, RevokingStep DEF AtHome
<1>4. ASSUME NEW p \in Requests, NEW q \in Requests
      PROVE  Apart(p, q)'
  <2> SUFFICES ASSUME Revoking(p)', Revoking(q)',
                      frame[p].organization # frame[q].organization,
                      NEW a, a \in Held(p)', a \in Held(q)'
               PROVE  FALSE
    BY RevokingStep DEF Apart
  <2>1. Revoking(p) /\ Revoking(q)
    BY RevokingStep
  <2>2. CASE a \in Held(p) /\ a \in Held(q)
    BY <2>1, <2>2 DEF MembersInv, Apart
  <2>3. /\ a \in Held(p) \/ users[a] = frame[p].organization
        /\ a \in Held(q) \/ users[a] = frame[q].organization
    BY HeldStep
  <2>4. /\ users[a] \in {frame[p].organization, None}
        /\ users[a] \in {frame[q].organization, None}
    BY <1>1
  <2>5. /\ frame[p].organization # None /\ frame[q].organization # None
    BY <2>1, NoneAssumption DEF Revoking, TypeInv, RequestTyped
  <2>6. QED
    BY <2>2, <2>3, <2>4, <2>5
<1>5. QED
  BY <1>3, <1>4 DEF MembersInv

LEMMA MembersStep == TypeInv /\ MembersInv /\ [Next]_vars => MembersInv'
BY MembersArrive, MembersContinue

(* Beginning a request takes no member away, and a revocation that begins is *)
(* of the member that the others at work revoke.                             *)
LEMMA SparedArrive ==
  ASSUME TypeInv, SparedInv, NEW h \in Requests, Arrive(h), NEW org \in Organizations,
         org \notin contested'
  PROVE  /\ Together(org)'
         /\ Members(org)' = Members(org)
         /\ Members(org) # {} \/ Worked(org)' => Spared(org)'
<1>1. PICK o \in Organizations, f \in Frame :
        /\ Start(h, o, f)
        /\ UNCHANGED <<rows, mailed, failures>>
        /\ f.pc \in {"name", "find", "existing", "members"}
        /\ contested \subseteq contested'
        /\ f.pc = "members" =>
             /\ Cardinality(Members(o)) # 1
             /\ f.address \in Members(o)
             /\ f.members = Members(o) \ {f.address}
             /\ o \notin contested' => RevokedTogether(o, f.address)
  BY Beginnings DEF TypeInv
<1>2. /\ frame'[h].pc = f.pc /\ frame'[h].organization = o /\ frame'[h].address = f.address
      /\ frame'[h].members = f.members
      /\ \A q \in Requests : q # h => frame'[q] = frame[q]
  BY <1>1, StartFrame DEF TypeInv
<1>u. users' = users /\ frame[h] = Idle
  BY <1>1 DEF rows, Start
<1>3. /\ Members(org)' = Members(org) /\ org \notin contested
  BY <1>1, <1>u DEF Members
<1>4. Together(org) /\ (Members(org) # {} \/ Worked(org) => Spared(org))
  BY <1>3 DEF SparedInv
<1>5. ASSUME NEW q \in Requests, q # h
      PROVE  /\ Revoking(q)' <=> Revoking(q)
             /\ \A a : Spares(q, a)' <=> Spares(q, a)
  BY <1>2, <1>5 DEF Revoking, Spares, At
<1>6. CASE ~ Revoking(h)' \/ o # org
  <2>1. ASSUME NEW q \in Requests, Revoking(q)', frame'[q].organization = org
        PROVE  /\ q # h /\ Revoking(q) /\ frame'[q] = frame[q]
               /\ \A a : Spares(q, a)' <=> Spares(q, a)
    BY <1>2, <1>5, <1>6, <2>1
  <2>2. Together(org)'
    BY <1>4, <2>1 DEF Together
  <2>3. ASSUME Members(org) # {} \/ Worked(org)'
        PROVE  Spared(org)'
    <3>0. Members(org) # {} \/ Worked(org)
      BY <1>2, <2>1, <2>3 DEF Worked
    <3>1. PICK a \in Members(org) :
            \A r \in Requests : Revoking(r) /\ frame[r].organization = org => Spares(r, a)
      BY <1>4, <3>0 DEF Spared
    <3>2. \A r \in Requests : Revoking(r)' /\ frame'[r].organization = org => Spares(r, a)'
      BY <2>1, <3>1
    <3>3. QED
      BY <1>3, <3>2 DEF Spared
  <2>4. QED
    BY <1>3, <2>2, <2>3
<1>7. CASE Revoking(h)' /\ o = org
  <2>0. f.pc = "members"
    BY <1>1, <1>2, <1>7 DEF Revoking
  <2>1. /\ Cardinality(Members(org)) # 1
        /\ f.address \in Members(org)
        /\ f.members = Members(org) \ {f.address}
        /\ RevokedTogether(org, f.address)
    BY <1>1, <1>7, <2>0
  <2>2. ASSUME NEW q \in Requests, Revoking(q)', frame'[q].organization = org
        PROVE  frame'[q].address = f.address
    BY <1>2, <1>5, <2>1, <2>2 DEF RevokedTogether
  <2>3. Together(org)'
    BY <2>2 DEF Together
  <2>4. PICK a \in Members(org) :
          /\ a # f.address
          /\ \A r \in Requests : Revoking(r) /\ frame[r].organization = org => Spares(r, a)
    <3>1. PICK b \in Members(org) :
            \A r \in Requests : Revoking(r) /\ frame[r].organization = org => Spares(r, b)
      BY <1>4, <2>1 DEF Spared
    <3>2. CASE \E r \in Requests : Revoking(r) /\ frame[r].organization = org
      BY <2>1, <3>1, <3>2 DEF Spares, RevokedTogether
    <3>3. CASE ~ \E r \in Requests : Revoking(r) /\ frame[r].organization = org
      BY <2>1, <3>3, SomebodyElse
    <3>4. QED
      BY <3>2, <3>3
  <2>5. Spares(h, a)'
    BY <1>2, <2>0, <2>1, <2>4 DEF Spares, At
  <2>6. \A r \in Requests : Revoking(r)' /\ frame'[r].organization = org => Spares(r, a)'
    BY <1>2, <1>5, <2>4, <2>5
  <2>7. Spared(org)'
    BY <1>3, <2>6 DEF Spared
  <2>8. QED
    BY <1>3, <2>3, <2>7
<1>8. QED
  BY <1>6, <1>7

(* No other step begins a revocation; a spared member stays.                 *)
LEMMA SparedContinue ==
  ASSUME TypeInv, MembersInv, SparedInv, [Next]_vars, \A r \in Requests : ~ Arrive(r),
         NEW org \in Organizations, org \notin contested
  PROVE  /\ Together(org)'
         /\ Spared(org) => Spared(org)'
<1>1. Together(org)
  BY DEF SparedInv
<1>2. Together(org)'
  BY <1>1, RevokingStep DEF Together
<1>3. ASSUME Spared(org)
      PROVE  Spared(org)'
  <2>1. PICK a \in Members(org) :
          \A r \in Requests : Revoking(r) /\ frame[r].organization = org => Spares(r, a)
    BY <1>3 DEF Spared
  <2>2. ASSUME NEW q \in Requests, Revoking(q)', frame'[q].organization = org
        PROVE  Spares(q, a)'
    <3>1. Revoking(q) /\ frame[q].organization = org /\ Spares(q, a)
      BY <2>1, <2>2, RevokingStep
    <3>2. CASE frame'[q] = frame[q]
      BY <3>1, <3>2 DEF Spares, At
    <3>3. CASE FindMembers(q)
      <4>1. At(q, "members")
        BY <3>3 DEF FindMembers
      <4>2. a \in frame[q].members /\ a # frame[q].address
        BY <3>1, <4>1 DEF Spares
      <4>3. QED
        BY <3>3, <4>2, FindFrame DEF Spares, At
    <3>4. QED
      BY <2>2, <3>2, <3>3, RevokingStep
  <2>3. a \in DOMAIN users /\ users[a] = org
    BY DEF Members
  <2>4. a \in DOMAIN users' /\ users'[a] = org
    <3>1. ASSUME NEW r \in Requests, InsertUser(r), frame[r].address \notin DOMAIN users
          PROVE  a \in DOMAIN users' /\ users'[a] = org
      BY <2>3, <3>1 DEF InsertUser, Inserted
    <3>2. ASSUME NEW r \in Requests, SaveMembers(r)
          PROVE  a \in DOMAIN users' /\ users'[a] = org
      <4>1. CASE frame[r].organization = org
        BY <2>1, <2>3, <3>2, <4>1, SaveStep DEF Spares
      <4>2. CASE frame[r].organization # org
        <5>1. a \notin Held(r)
          BY <2>3, <3>2, <4>2, SaveStep, NoneAssumption DEF MembersInv, AtHome
        <5>2. QED
          BY <2>3, <3>2, <5>1, SaveStep DEF Held
      <4>3. QED
        BY <4>1, <4>2
    <3>3. QED
      BY <2>3, <3>1, <3>2, UsersStep
  <2>5. a \in Members(org)'
    BY <2>4 DEF Members
  <2>6. QED
    BY <2>2, <2>5 DEF Spared
<1>4. QED
  BY <1>2, <1>3

LEMMA ContestedStays == TypeInv /\ [Next]_vars => contested \subseteq contested'
<1> SUFFICES ASSUME TypeInv, [Next]_vars PROVE contested \subseteq contested'
  OBVIOUS
<1>1. ASSUME NEW r \in Requests, Arrive(r)
      PROVE  contested \subseteq contested'
  BY <1>1, Beginnings DEF TypeInv
<1>2. ASSUME NEW r \in Requests, Continue(r)
      PROVE  contested' = contested
  BY <1>2
  DEF Continue, InsertOrganization, InsertTier, SaveTier, FindInvitation, CheckTier,
      DeleteInvitation, InsertInvitation, CheckAccount, InsertUser, SaveAccepted, FindMembers,
      SaveMembers, history
<1>3. QED
  BY <1>1, <1>2 DEF Next, Fail, Expire, history, vars

LEMMA SparedStep ==
  ASSUME TypeInv, MembersInv, SparedInv, [Next]_vars
  PROVE  SparedInv'
<1> SUFFICES ASSUME NEW org \in Organizations, org \notin contested'
             PROVE  /\ Together(org)'
                    /\ Members(org)' # {} \/ Worked(org)' => Spared(org)'
  BY DEF SparedInv
<1>1. org \notin contested
  BY ContestedStays
<1>2. ASSUME NEW r \in Requests, Arrive(r)
      PROVE  /\ Together(org)'
             /\ Members(org)' # {} \/ Worked(org)' => Spared(org)'
  BY <1>2, SparedArrive
<1>3. ASSUME \A r \in Requests : ~ Arrive(r), Members(org)' # {} \/ Worked(org)'
      PROVE  Spared(org)'
  <2>1. CASE Worked(org)'
    <3>1. Worked(org)
      BY <1>3, <2>1, RevokingStep DEF Worked
    <3>2. QED
      BY <1>1, <1>3, <3>1, SparedContinue DEF SparedInv
  <2>2. CASE ~ Worked(org)'
    BY <1>3, <2>2 DEF Spared, Worked
  <2>3. QED
    BY <2>1, <2>2
<1>4. QED
  BY <1>1, <1>2, <1>3, SparedContinue

LEMMA LastMemberStep ==
  ASSUME TypeInv, MembersInv, SparedInv, [Next]_vars,
         NEW org \in Organizations \ contested, Members(org) # {}
  PROVE  Members(org)' # {}
<1>1. Spared(org)
  BY DEF SparedInv
<1>2. ASSUME NEW r \in Requests, Arrive(r)
      PROVE  Members(org)' = Members(org)
  BY <1>2, Beginnings DEF TypeInv, rows, Members
<1>3. ASSUME \A r \in Requests : ~ Arrive(r)
      PROVE  Members(org)' # {}
  BY <1>1, <1>3, SparedContinue DEF Spared
<1>4. QED
  BY <1>2, <1>3

(* An organization that has members keeps one, whatever acceptances,         *)
(* failures and revocations, of the same member again or of members of other *)
(* organizations, overlap, unless two different members of it were revoked   *)
(* at once.  The save of a list is read and write in two steps: some member  *)
(* is on the lists of all the revocations at work and detached by none of    *)
(* them, and nobody they hold is a member of another organization.           *)
THEOREM MembersRemain == Spec => LastMemberStays
<1>1. Init => MembersInv /\ SparedInv
  BY IdleIsFrame DEF Init, MembersInv, AtHome, Apart, Revoking, SparedInv, Together, Worked,
                     Members
<1>2. TypeInv /\ MembersInv /\ SparedInv /\ [Next]_vars =>
        [\A org \in Organizations \ contested : Members(org) # {} => Members(org)' # {}]_vars
  BY LastMemberStep
<1>3. TypeInv /\ MembersInv /\ SparedInv /\ [Next]_vars => SparedInv'
  BY SparedStep
<1>4. QED
  BY <1>1, <1>2, <1>3, TypeInit, TypeNext, MembersStep, PTL DEF Spec, LastMemberStays

-----------------------------------------------------------------------------
(* A member leaves by its own revocation *)

(* Two requests on an organization overlap; a revocation that met no other   *)
(* request holds all members but the one it is about, and detaches that one. *)
AloneInv ==
  \A r, q \in Requests :
    /\ r # q /\ frame[r].organization = frame[q].organization
    /\ frame[r].organization # None
    => frame[r].organization \in overlapped

ListIsCurrent(r) ==
  LET org == frame[r].organization
  IN  Revoking(r) /\ org \notin overlapped =>
        /\ frame[r].address \in Members(org)
        /\ At(r, "members") => frame[r].members = Members(org) \ {frame[r].address}
        /\ At(r, "write") => frame[r].members = {} /\ frame[r].detached = {frame[r].address}

RevocationInv == AloneInv /\ \A r \in Requests : ListIsCurrent(r)

(* A step of a request that is at work leaves the other frames alone, and    *)
(* its own stays on its organization or becomes idle.                        *)
LEMMA OrganizationStays ==
  ASSUME TypeInv, NEW r \in Requests, Continue(r) \/ Fail(r)
  PROVE  /\ \A q \in Requests : q # r => frame'[q] = frame[q]
         /\ frame'[r].organization \in {frame[r].organization, None}
         /\ overlapped' = overlapped
<1>1. \A q \in Requests : q # r => frame'[q] = frame[q]
  BY FrameStep
<1>2. \/ Return(r) \/ FindInvitation(r) \/ FindMembers(r) \/ \E pc \in PCs : Goto(r, pc)
  BY DEF Continue, Fail, InsertOrganization, InsertTier, SaveTier, CheckTier, DeleteInvitation,
         InsertInvitation, CheckAccount, InsertUser, SaveAccepted, SaveMembers, PCs
<1>3. overlapped' = overlapped
  BY DEF Continue, Fail, InsertOrganization, InsertTier, SaveTier, FindInvitation, CheckTier,
         DeleteInvitation, InsertInvitation, CheckAccount, InsertUser, SaveAccepted,
         FindMembers, SaveMembers, history
<1>4. frame'[r].organization \in {frame[r].organization, None}
  <2>1. CASE Return(r)
    BY <2>1, ReturnFrame, IdleIsFrame DEF TypeInv
  <2>2. CASE \E pc \in PCs : Goto(r, pc)
    BY <2>2, GotoFrame DEF TypeInv
  <2>3. CASE FindInvitation(r)
    BY <2>3, GotoFrame DEF FindInvitation, TypeInv, TypeOK, Frame, PCs
  <2>4. CASE FindMembers(r)
    BY <2>4, FindFrame
  <2>5. QED
    BY <1>2, <2>1, <2>2, <2>3, <2>4
<1>5. QED
  BY <1>1, <1>3, <1>4

(* No step of another request changes the members of an organization on      *)
(* which a revocation is alone.                                              *)
LEMMA MembersStand ==
  ASSUME TypeInv, MembersInv, AloneInv, [Next]_vars, NEW q \in Requests,
         Revoking(q), Revoking(q)', \A r \in Requests : ~ Arrive(r),
         NEW org, frame[q].organization = org, org \notin overlapped
  PROVE  Members(org)' = Members(org)
<1>1. org # None
  BY NoneAssumption DEF Revoking, TypeInv, RequestTyped
<1>2. ASSUME NEW r \in Requests, r # q
      PROVE  frame[r].organization # org
  BY <1>1, <1>2 DEF AloneInv
<1>3. CASE users' = users
  BY <1>3 DEF Members
<1>4. ASSUME NEW r \in Requests, InsertUser(r), frame[r].address \notin DOMAIN users
      PROVE  Members(org)' = Members(org)
  <2>1. r # q
    BY <1>4 DEF InsertUser, At, Revoking
  <2>2. users' = Inserted(users, frame[r].address, frame[r].organization)
    BY <1>4 DEF InsertUser
  <2>3. QED
    BY <1>2, <1>4, <2>1, <2>2 DEF Members, Inserted
<1>5. ASSUME NEW r \in Requests, SaveMembers(r)
      PROVE  Members(org)' = Members(org)
  <2>1. r # q
    BY <1>5, SaveStep, IdleIsFrame DEF Revoking
  <2>2. frame[r].organization # org
    BY <1>2, <2>1
  <2>3. \A a \in Held(r) : a \in DOMAIN users /\ users[a] # org
    BY <1>1, <1>5, <2>2, SaveStep DEF MembersInv, AtHome
  <2>4. \A a \in DOMAIN users : users'[a] = org <=> users[a] = org
    <3> SUFFICES ASSUME NEW a \in DOMAIN users PROVE users'[a] = org <=> users[a] = org
      OBVIOUS
    <3>1. CASE a \in Held(r)
      BY <1>1, <1>5, <2>2, <2>3, <3>1, SaveStep
    <3>2. CASE a \notin Held(r)
      BY <1>5, <3>2, SaveStep DEF Held
    <3>3. QED
      BY <3>1, <3>2
  <2>5. QED
    BY <1>5, <2>4, SaveStep DEF Members
<1>6. QED
  BY <1>3, <1>4, <1>5, UsersStep

LEMMA RevocationArrive ==
  ASSUME TypeInv, RevocationInv, NEW r \in Requests, Arrive(r)
  PROVE  RevocationInv'
<1>1. PICK org \in Organizations, f \in Frame :
        /\ Start(r, org, f)
        /\ UNCHANGED <<rows, mailed, failures>>
        /\ f.pc \in {"name", "find", "existing", "members"}
        /\ f.pc = "members" =>
             /\ f.address \in Members(org)
             /\ f.members = Members(org) \ {f.address}
  BY Beginnings DEF TypeInv
<1>2. /\ frame'[r].pc = f.pc /\ frame'[r].organization = org /\ frame'[r].members = f.members
      /\ frame'[r].address = f.address
      /\ \A q \in Requests : q # r => frame'[q] = frame[q]
  BY <1>1, StartFrame DEF TypeInv
<1>3. /\ users' = users /\ overlapped \subseteq overlapped'
      /\ \A q \in Requests : frame[q].organization = org => org \in overlapped'
  BY <1>1 DEF Start, rows
<1>4. AloneInv'
  BY <1>2, <1>3 DEF RevocationInv, AloneInv
<1>5. ASSUME NEW q \in Requests
      PROVE  ListIsCurrent(q)'
  <2>1. CASE q = r
    BY <1>1, <1>2, <1>3, <2>1 DEF ListIsCurrent, Revoking, At, Members
  <2>2. CASE q # r
    BY <1>2, <1>3, <2>2 DEF RevocationInv, ListIsCurrent, Revoking, At, Members
  <2>3. QED
    BY <2>1, <2>2
<1>6. QED
  BY <1>4, <1>5 DEF RevocationInv

LEMMA RevocationContinue ==
  ASSUME TypeInv, MembersInv, RevocationInv, [Next]_vars, \A r \in Requests : ~ Arrive(r)
  PROVE  RevocationInv'
<1>1. /\ overlapped' = overlapped
      /\ \A q \in Requests : frame'[q].organization \in {frame[q].organization, None}
  <2>1. ASSUME NEW r \in Requests, Continue(r) \/ Fail(r)
        PROVE  /\ overlapped' = overlapped
               /\ \A q \in Requests : frame'[q].organization \in {frame[q].organization, None}
    BY <2>1, OrganizationStays
  <2>2. CASE \E t \in DOMAIN invitations : Expire(t)
    BY <2>2 DEF Expire, history
  <2>3. CASE UNCHANGED vars
    BY <2>3 DEF vars
  <2>4. QED
    BY <2>1, <2>2, <2>3 DEF Next
<1>2. AloneInv'
  BY <1>1 DEF RevocationInv, AloneInv
<1>3. ASSUME NEW q \in Requests
      PROVE  ListIsCurrent(q)'
  <2> SUFFICES ASSUME Revoking(q)', frame'[q].organization \notin overlapped
               PROVE  ListIsCurrent(q)'
    BY <1>1 DEF ListIsCurrent
  <2>1. PICK org : org = frame[q].organization
    OBVIOUS
  <2>2. /\ Revoking(q) /\ org \notin overlapped
        /\ frame'[q].organization = org /\ frame'[q].address = frame[q].address
        /\ frame'[q] = frame[q] \/ FindMembers(q)
    BY <2>1, RevokingStep
  <2>3. Members(org)' = Members(org)
    BY <2>1, <2>2, MembersStand DEF RevocationInv
  <2>4. /\ frame[q].address \in Members(org)
        /\ At(q, "members") => frame[q].members = Members(org) \ {frame[q].address}
        /\ At(q, "write") => frame[q].members = {} /\ frame[q].detached = {frame[q].address}
    BY <2>1, <2>2 DEF RevocationInv, ListIsCurrent
  <2>5. /\ At(q, "members")' => frame'[q].members = Members(org) \ {frame[q].address}
        /\ At(q, "write")' => /\ frame'[q].members = {}
                              /\ frame'[q].detached = {frame[q].address}
    <3>1. CASE frame'[q] = frame[q]
      BY <2>4, <3>1 DEF At
    <3>2. CASE FindMembers(q)
      <4>1. frame[q].members = Members(org) \ {frame[q].address}
        BY <2>4, <3>2 DEF FindMembers
      <4>2. /\ frame'[q].pc = "write"
            /\ frame'[q].members = frame[q].members \ Members(org)
            /\ frame'[q].detached = Members(org) \ frame[q].members
        BY <2>1, <3>2, FindFrame
      <4>3. QED
        BY <2>4, <4>1, <4>2 DEF At
    <3>3. QED
      BY <2>2, <3>1, <3>2
  <2>6. QED
    BY <2>2, <2>3, <2>4, <2>5 DEF ListIsCurrent
<1>4. QED
  BY <1>2, <1>3 DEF RevocationInv

LEMMA RevocationStep == TypeInv /\ MembersInv /\ RevocationInv /\ [Next]_vars => RevocationInv'
BY RevocationArrive, RevocationContinue

(* Where requests on an organization did not overlap, a member of it leaves  *)
(* only by the save of its own revocation, and nobody is made a member of it *)
(* that was one of none or of another: a revocation saves the list of        *)
(* members that it read, and the list is still the one of the rows.          *)
THEOREM RevocationEnds == Spec => OnlyRevocationEnds
<1>1. Init => MembersInv /\ RevocationInv
  BY IdleIsFrame
  DEF Init, MembersInv, AtHome, Apart, Revoking, RevocationInv, AloneInv, ListIsCurrent
<1>2. ASSUME TypeInv, MembersInv, RevocationInv, [Next]_vars, NEW a \in DOMAIN users,
             users'[a] # users[a], {users[a], users'[a]} \cap overlapped = {}
      PROVE  users'[a] = None /\ \E r \in Requests : At(r, "write") /\ frame[r].address = a
  <2>1. ASSUME NEW r \in Requests, InsertUser(r), frame[r].address \notin DOMAIN users
        PROVE  users'[a] = users[a]
    BY <2>1 DEF InsertUser, Inserted
  <2>2. PICK r \in Requests : SaveMembers(r)
    BY <1>2, <2>1, UsersStep
  <2>3. PICK org : org = frame[r].organization
    OBVIOUS
  <2>4. a \in Held(r)
    BY <1>2, <2>2, SaveStep DEF Held
  <2>5. users[a] \in {org, None} /\ Revoking(r)
    BY <1>2, <2>2, <2>3, <2>4, SaveStep DEF MembersInv, AtHome
  <2>6. users'[a] \in {org, None}
    BY <1>2, <2>2, <2>3, SaveStep
  <2>7. org \notin overlapped
    BY <1>2, <2>5, <2>6
  <2>8. At(r, "write") /\ frame[r].members = {} /\ frame[r].detached = {frame[r].address}
    BY <1>2, <2>2, <2>3, <2>5, <2>7, SaveStep DEF RevocationInv, ListIsCurrent, At
  <2>9. users'[a] = None /\ frame[r].address = a
    BY <1>2, <2>2, <2>8, SaveStep
  <2>10. QED
    BY <2>8, <2>9
<1>3. TypeInv /\ MembersInv /\ RevocationInv /\ [Next]_vars =>
        [\A a \in DOMAIN users :
           users'[a] # users[a] /\ {users[a], users'[a]} \cap overlapped = {} =>
             /\ users'[a] = None
             /\ \E r \in Requests : At(r, "write") /\ frame[r].address = a]_vars
  BY <1>2
<1>4. QED
  BY <1>1, <1>3, TypeInit, TypeNext, MembersStep, RevocationStep, PTL DEF Spec, OnlyRevocationEnds

-----------------------------------------------------------------------------
(* The link last mailed *)

(* The row of a token names whom it was mailed to. *)
RowsAreMailed ==
  \A t \in DOMAIN invitations :
    mailed[t] = [organization |-> invitations[t].organization, address |-> invitations[t].address]

(* A row survives a later email to the same person only when it was inserted *)
(* again by an acceptance.                                                   *)
OlderIsAccepted ==
  \A u \in DOMAIN invitations, t \in DOMAIN mailed :
    u < t /\ mailed[u] = mailed[t] => mailed[u].address \in DOMAIN users

(* The token that a request holds was mailed to the person it is about. *)
TokenIsOf(f) ==
  /\ f.pc = "find" => f.token = 0
  /\ f.pc = "delete" => f.token # 0
  /\ f.pc \in {"count", "delete", "existing", "user", "accepted"} /\ f.token # 0 =>
       /\ f.token \in DOMAIN mailed
       /\ mailed[f.token] = [organization |-> f.organization, address |-> f.address]

TokensHeld == \A r \in Requests : TokenIsOf(frame[r])

LinkInv == RowsAreMailed /\ OlderIsAccepted /\ TokensHeld /\ LastLinkExists

(* An email is added, or none. *)
MailGrows ==
  /\ DOMAIN mailed \subseteq DOMAIN mailed'
  /\ \A t \in DOMAIN mailed : mailed'[t] = mailed[t]

LEMMA MailedDomain ==
  ASSUME TypeOK
  PROVE  /\ DOMAIN mailed = 1..Len(mailed) /\ Len(mailed) \in Nat
         /\ DOMAIN invitations \subseteq DOMAIN mailed
BY DEF TypeOK

(* What a request that is at work may become. *)
LEMMA TokensContinue ==
  ASSUME TypeInv, RowsAreMailed, TokensHeld, MailGrows, NEW r \in Requests, Continue(r) \/ Fail(r)
  PROVE  TokensHeld'
<1> DEFINE Same(f) == /\ f.organization = frame[r].organization /\ f.address = frame[r].address
                      /\ f.token = frame[r].token
<1>1. \A q \in Requests : q # r => frame'[q] = frame[q]
  BY FrameStep
<1>2. ASSUME NEW q \in Requests, q # r
      PROVE  TokenIsOf(frame[q])'
  <2>1. frame'[q] = frame[q] /\ TokenIsOf(frame[q])
    BY <1>1, <1>2 DEF TokensHeld
  <2>2. QED
    BY <2>1 DEF TokenIsOf, MailGrows
<1> SUFFICES TokenIsOf(frame[r])'
  BY <1>2 DEF TokensHeld
<1>3. TokenIsOf(frame[r])
  BY DEF TokensHeld
<1>4. ASSUME NEW pc \in PCs, Goto(r, pc)
      PROVE  frame'[r].pc = pc /\ Same(frame'[r])
  BY <1>4, GotoFrame DEF TypeInv
<1>5. CASE Return(r)
  <2>1. frame'[r].pc = "idle"
    BY <1>5, ReturnFrame, IdleIsFrame DEF TypeInv
  <2>2. QED
    BY <2>1 DEF TokenIsOf
<1>6. CASE \E pc \in {"tier", "link", "insert"} : Goto(r, pc)
  <2>1. frame'[r].pc \in {"tier", "link", "insert"}
    BY <1>4, <1>6 DEF PCs
  <2>2. QED
    BY <2>1 DEF TokenIsOf
<1>7. CASE FindInvitation(r)
  <2>1. /\ frame[r].pc = "find" /\ frame[r].token = 0 /\ frame[r].address \in Addresses
        /\ frame[r].organization \in Organizations
    BY <1>3, <1>7 DEF FindInvitation, At, TokenIsOf, TypeInv, RequestTyped
  <2>2. CASE Goto(r, "count")
    <3>1. frame'[r].pc = "count" /\ frame'[r].token = 0
      BY <1>4, <2>1, <2>2 DEF PCs
    <3>2. QED
      BY <3>1 DEF TokenIsOf
  <2>3. CASE ~ Goto(r, "count")
    <3>1. PICK t \in RowsOf(frame[r].organization, frame[r].address) :
            frame' = [frame EXCEPT ![r].pc = "count", ![r].token = t]
      BY <1>7, <2>3 DEF FindInvitation
    <3>2. /\ t \in DOMAIN mailed
          /\ mailed[t] = [organization |-> frame[r].organization, address |-> frame[r].address]
      BY <3>1, MailedDomain DEF RowsAreMailed, RowsOf, TypeInv
    <3>3. /\ frame'[r].pc = "count" /\ frame'[r].token = t
          /\ frame'[r].organization = frame[r].organization
          /\ frame'[r].address = frame[r].address
      BY <3>1 DEF TypeInv, TypeOK, Frame
    <3>4. QED
      BY <3>2, <3>3 DEF TokenIsOf, MailGrows
  <2>4. QED
    BY <2>2, <2>3
<1>8. CASE /\ frame[r].pc \in {"count", "existing", "user"}
           /\ \E pc \in {"delete", "user", "accepted"} :
                Goto(r, pc) /\ (pc = "delete" => frame[r].token # 0)
  <2>1. PICK pc \in {"delete", "user", "accepted"} :
          Goto(r, pc) /\ (pc = "delete" => frame[r].token # 0)
    BY <1>8
  <2>2. frame'[r].pc = pc /\ Same(frame'[r])
    BY <1>4, <2>1 DEF PCs
  <2>3. QED
    BY <1>3, <1>8, <2>1, <2>2 DEF TokenIsOf, MailGrows
<1>9. QED
  <2>1. CASE InsertOrganization(r) \/ InsertTier(r) \/ SaveTier(r)
    BY <1>5, <1>6, <2>1 DEF InsertOrganization, InsertTier, SaveTier
  <2>2. CASE CheckTier(r) \/ DeleteInvitation(r) \/ InsertInvitation(r)
    BY <1>5, <1>6, <1>8, <2>2 DEF CheckTier, DeleteInvitation, InsertInvitation, At
  <2>3. CASE CheckAccount(r) \/ InsertUser(r)
    BY <1>5, <1>8, <2>3 DEF CheckAccount, InsertUser, At
  <2>4. CASE SaveAccepted(r) \/ SaveMembers(r) \/ Fail(r)
    BY <1>5, <2>4 DEF SaveAccepted, SaveMembers, Fail
  <2>5. CASE FindMembers(r)
    BY <2>5, FindFrame DEF TokenIsOf
  <2>6. QED
    BY <1>7, <2>1, <2>2, <2>3, <2>4, <2>5 DEF Continue

LEMMA TokensArrive ==
  ASSUME TypeInv, RowsAreMailed, TokensHeld, NEW r \in Requests, Arrive(r)
  PROVE  TokensHeld'
<1>1. PICK org \in Organizations, f \in Frame :
        /\ Start(r, org, f)
        /\ UNCHANGED <<rows, mailed, failures>>
        /\ f.pc \in {"name", "find", "existing", "members"}
        /\ f.pc = "find" => f.token = 0
        /\ f.pc = "existing" =>
             /\ f.token \in 1..Len(mailed) /\ f.token \in DOMAIN invitations
             /\ f.address = invitations[f.token].address
             /\ org = invitations[f.token].organization
  BY Beginnings DEF TypeInv
<1>2. /\ frame'[r].pc = f.pc /\ frame'[r].organization = org
      /\ frame'[r].address = f.address /\ frame'[r].token = f.token
      /\ \A q \in Requests : q # r => frame'[q] = frame[q]
  BY <1>1, StartFrame DEF TypeInv
<1>3. TokenIsOf(frame[r])'
  BY <1>1, <1>2, MailedDomain DEF TokenIsOf, RowsAreMailed, TypeInv
<1>4. ASSUME NEW q \in Requests, q # r
      PROVE  TokenIsOf(frame[q])'
  BY <1>1, <1>2, <1>4 DEF TokenIsOf, TokensHeld
<1>5. QED
  BY <1>3, <1>4 DEF TokensHeld

(* The steps that touch invitations or emails. *)
LEMMA InvitationSteps ==
  ASSUME TypeInv, [Next]_vars
  PROVE  \/ UNCHANGED <<invitations, mailed>>
         \/ \E r \in Requests : DeleteInvitation(r) \/ InsertInvitation(r) \/ SaveAccepted(r)
         \/ \E t \in DOMAIN invitations : Expire(t)
<1>1. ASSUME NEW r \in Requests, Arrive(r) \/ Fail(r)
      PROVE  UNCHANGED <<invitations, mailed>>
  <2>1. CASE Arrive(r)
    BY <2>1, Beginnings DEF TypeInv, rows
  <2>2. QED
    BY <1>1, <2>1 DEF Fail, rows
<1>2. ASSUME NEW r \in Requests, Continue(r), ~ DeleteInvitation(r), ~ InsertInvitation(r),
             ~ SaveAccepted(r)
      PROVE  UNCHANGED <<invitations, mailed>>
  BY <1>2 DEF Continue, InsertOrganization, InsertTier, SaveTier, FindInvitation, CheckTier,
              CheckAccount, InsertUser, FindMembers, SaveMembers, rows
<1>3. QED
  BY <1>1, <1>2 DEF Next, vars

LEMMA MailOnlyGrows ==
  ASSUME TypeInv, [Next]_vars
  PROVE  MailGrows
<1>1. CASE UNCHANGED mailed
  BY <1>1 DEF MailGrows
<1>2. ASSUME NEW r \in Requests, DeleteInvitation(r) \/ SaveAccepted(r)
      PROVE  UNCHANGED mailed
  BY <1>2 DEF DeleteInvitation, SaveAccepted
<1>3. ASSUME NEW r \in Requests, InsertInvitation(r)
      PROVE  MailGrows
  <2>1. mailed \in Seq(Addressee)
    BY DEF TypeInv, TypeOK
  <2>2. UNCHANGED mailed \/ mailed' = Append(mailed, To(r))
    BY <1>3 DEF InsertInvitation
  <2>3. QED
    BY <2>1, <2>2 DEF MailGrows
<1>4. ASSUME NEW t \in DOMAIN invitations, Expire(t)
      PROVE  UNCHANGED mailed
  BY <1>4 DEF Expire
<1>5. QED
  BY <1>1, <1>2, <1>3, <1>4, InvitationSteps

LEMMA TokensStep ==
  ASSUME TypeInv, RowsAreMailed, TokensHeld, [Next]_vars
  PROVE  TokensHeld'
<1>1. MailGrows
  BY MailOnlyGrows
<1>2. ASSUME NEW r \in Requests, Arrive(r) \/ Continue(r) \/ Fail(r)
      PROVE  TokensHeld'
  BY <1>1, <1>2, TokensArrive, TokensContinue
<1>3. CASE UNCHANGED <<frame, mailed>>
  BY <1>3 DEF TokensHeld, TokenIsOf
<1>4. QED
  BY <1>2, <1>3 DEF Next, Expire, vars

(* The row and the email of a request's person. *)
LEMMA PersonOf ==
  ASSUME NEW r, NEW status, NEW expired
  PROVE  LET row == Row(r, status, expired)
         IN  /\ row.organization = frame[r].organization /\ row.address = frame[r].address
             /\ To(r) = [organization |-> row.organization, address |-> row.address]
             /\ To(r).address = row.address
BY DEF Row, To

(* A row is added, or one that is there changes its state. *)
LEMMA RowAdded ==
  ASSUME TypeInv, RowsAreMailed, OlderIsAccepted, MailGrows, DOMAIN users \subseteq DOMAIN users',
         NEW key \in DOMAIN mailed', NEW row,
         mailed'[key] = [organization |-> row.organization, address |-> row.address],
         invitations' = Inserted(invitations, key, row),
         \A t \in DOMAIN mailed' \ DOMAIN mailed : t = key,
         \A u \in DOMAIN invitations : u < key /\ mailed'[u] = mailed'[key] =>
                                         key \in DOMAIN mailed,
         row.address \in DOMAIN users' \/ \A t \in DOMAIN mailed' : ~(key < t)
  PROVE  RowsAreMailed' /\ OlderIsAccepted'
<1>1. /\ DOMAIN invitations' = DOMAIN invitations \cup {key} /\ invitations'[key] = row
      /\ \A t \in DOMAIN invitations : t # key => invitations'[t] = invitations[t]
  BY DEF Inserted
<1>2. \A t \in DOMAIN invitations : t \in DOMAIN mailed /\ mailed'[t] = mailed[t]
  BY MailedDomain DEF MailGrows, TypeInv
<1>3. RowsAreMailed'
  BY <1>1, <1>2 DEF RowsAreMailed
<1>4. OlderIsAccepted'
  <2> SUFFICES ASSUME NEW u \in DOMAIN invitations', NEW t \in DOMAIN mailed', u < t,
                      mailed'[u] = mailed'[t]
               PROVE  mailed'[u].address \in DOMAIN users'
    BY DEF OlderIsAccepted
  <2>1. CASE u = key
    <3>1. mailed'[key].address = row.address
      OBVIOUS
    <3>2. QED
      BY <2>1, <3>1
  <2>2. CASE u # key /\ t \in DOMAIN mailed
    BY <1>1, <1>2, <2>2 DEF OlderIsAccepted, MailGrows
  <2>3. CASE u # key /\ t \notin DOMAIN mailed
    BY <1>1, <2>3
  <2>4. QED
    BY <2>1, <2>2, <2>3
<1>5. QED
  BY <1>3, <1>4

LEMMA RowsStep ==
  ASSUME TypeInv, AccountInv, RowsAreMailed, OlderIsAccepted, TokensHeld, [Next]_vars
  PROVE  RowsAreMailed' /\ OlderIsAccepted'
<1>1. DOMAIN users \subseteq DOMAIN users' /\ MailGrows
  BY UsersStay, MailOnlyGrows
<1>2. DOMAIN mailed = 1..Len(mailed) /\ Len(mailed) \in Nat /\ DOMAIN invitations \subseteq DOMAIN mailed
  BY MailedDomain DEF TypeInv
<1>3. CASE UNCHANGED <<invitations, mailed>>
  BY <1>1, <1>3 DEF RowsAreMailed, OlderIsAccepted
<1>4. ASSUME NEW r \in Requests, DeleteInvitation(r)
      PROVE  RowsAreMailed' /\ OlderIsAccepted'
  <2>1. /\ mailed' = mailed /\ DOMAIN invitations' \subseteq DOMAIN invitations
        /\ \A t \in DOMAIN invitations' : invitations'[t] = invitations[t]
    BY <1>4 DEF DeleteInvitation, Restrict
  <2>2. QED
    BY <1>1, <2>1 DEF RowsAreMailed, OlderIsAccepted
<1>5. ASSUME NEW r \in Requests, InsertInvitation(r)
      PROVE  RowsAreMailed' /\ OlderIsAccepted'
  <2>1. CASE RowsOf(frame[r].organization, frame[r].address) # {}
    BY <1>3, <1>5, <2>1 DEF InsertInvitation
  <2>2. CASE RowsOf(frame[r].organization, frame[r].address) = {}
    <3> DEFINE key == Len(mailed) + 1
               row == Row(r, "pending", FALSE)
    <3>1. /\ mailed' = Append(mailed, To(r))
          /\ invitations' = Inserted(invitations, key, row)
      BY <1>5, <2>2 DEF InsertInvitation
    <3>2. /\ DOMAIN mailed' = 1..key /\ mailed'[key] = To(r)
          /\ \A t \in DOMAIN mailed : mailed'[t] = mailed[t]
      <4>1. mailed \in Seq(Addressee)
        BY DEF TypeInv, TypeOK
      <4>2. QED
        BY <3>1, <4>1
    <3>3. To(r) = [organization |-> row.organization, address |-> row.address]
      BY PersonOf, Zenon
    <3>4. \A u \in DOMAIN invitations : mailed[u] # To(r)
      <4> SUFFICES ASSUME NEW u \in DOMAIN invitations, mailed[u] = To(r)
                   PROVE  FALSE
        OBVIOUS
      <4>1. [organization |-> invitations[u].organization, address |-> invitations[u].address]
              = [organization |-> frame[r].organization, address |-> frame[r].address]
        BY DEF RowsAreMailed, To
      <4>2. /\ invitations[u].organization = frame[r].organization
            /\ invitations[u].address = frame[r].address
        BY <4>1
      <4>3. QED
        BY <2>2, <4>2 DEF RowsOf
    <3> HIDE DEF row
    <3>5. /\ key \in DOMAIN mailed' /\ \A t \in DOMAIN mailed' : ~(key < t)
          /\ \A t \in DOMAIN mailed' \ DOMAIN mailed : t = key
      BY <1>2, <3>2
    <3>6. \A u \in DOMAIN invitations : ~(u < key /\ mailed'[u] = mailed'[key])
      BY <1>2, <3>2, <3>4
    <3> HIDE DEF key
    <3>7. QED
      BY <1>1, <3>1, <3>2, <3>3, <3>5, <3>6, RowAdded
  <2>3. QED
    BY <2>1, <2>2
<1>6. ASSUME NEW r \in Requests, SaveAccepted(r)
      PROVE  RowsAreMailed' /\ OlderIsAccepted'
  <2> DEFINE key == frame[r].token
             x == key \in DOMAIN invitations /\ invitations[key].expired
             row == Row(r, "accepted", x)
  <2>1. CASE UNCHANGED invitations
    BY <1>3, <1>6, <2>1 DEF SaveAccepted
  <2>2. CASE invitations' = Inserted(invitations, key, row)
    <3>1. frame[r].pc = "accepted" /\ mailed' = mailed
      BY <1>6 DEF SaveAccepted, At
    <3>2. /\ key \in DOMAIN mailed
          /\ mailed[key] = [organization |-> frame[r].organization, address |-> frame[r].address]
      BY <1>2, <3>1 DEF TypeInv, RequestTyped, TokensHeld, TokenIsOf
    <3>3. /\ row.organization = frame[r].organization /\ row.address = frame[r].address
      BY PersonOf, Zenon
    <3>4. row.address \in DOMAIN users'
      BY <1>1, <3>1, <3>3 DEF AccountInv, At
    <3> HIDE DEF row, key
    <3>5. QED
      BY <1>1, <2>2, <3>1, <3>2, <3>3, <3>4, RowAdded
  <2>3. QED
    BY <1>6, <2>1, <2>2 DEF SaveAccepted
<1>7. ASSUME NEW s \in DOMAIN invitations, Expire(s)
      PROVE  RowsAreMailed' /\ OlderIsAccepted'
  <2>1. /\ mailed' = mailed /\ invitations' = [invitations EXCEPT ![s].expired = TRUE]
        /\ DOMAIN invitations' = DOMAIN invitations
    BY <1>7 DEF Expire
  <2>2. \A t \in DOMAIN invitations : invitations[t] \in Invitation
    BY RangeIs DEF TypeInv, TypeOK
  <2>3. \A t \in DOMAIN invitations :
          /\ invitations'[t].organization = invitations[t].organization
          /\ invitations'[t].address = invitations[t].address
    BY <2>1, <2>2 DEF Invitation
  <2>4. QED
    BY <1>1, <2>1, <2>3 DEF RowsAreMailed, OlderIsAccepted
<1>8. QED
  BY <1>3, <1>4, <1>5, <1>6, <1>7, InvitationSteps

(* Unless it fails, a request that is to insert an invitation does only that.*)
LEMMA InsertWaits ==
  ASSUME TypeInv, [Next]_vars, failures' = 0, NEW r \in Requests, At(r, "insert"),
         ~ InsertInvitation(r)
  PROVE  frame'[r] = frame[r]
<1>1. ASSUME NEW q \in Requests, Arrive(q)
      PROVE  frame'[r] = frame[r]
  <2>1. frame[q] = Idle
    BY <1>1, Beginnings DEF Start, TypeInv
  <2>2. PICK org \in Organizations, f \in Frame : Start(q, org, f)
    BY <1>1, Beginnings DEF TypeInv
  <2>3. r # q
    BY <2>1, IdleIsFrame DEF At
  <2>4. QED
    BY <2>2, <2>3, StartFrame DEF TypeInv
<1>2. ASSUME NEW q \in Requests, Fail(q)
      PROVE  FALSE
  <2>1. failures \in Nat /\ failures' = failures + 1
    BY <1>2, BoundsAssumption DEF Fail, TypeInv, TypeOK
  <2>2. QED
    BY <2>1
<1>3. ASSUME NEW q \in Requests, Continue(q)
      PROVE  frame'[r] = frame[r]
  <2>1. r # q
    BY <1>3 DEF Continue, At, InsertOrganization, InsertTier, SaveTier, FindInvitation, CheckTier,
       DeleteInvitation, CheckAccount, InsertUser, SaveAccepted, FindMembers, SaveMembers
  <2>2. QED
    BY <1>3, <2>1, FrameStep
<1>4. ASSUME NEW t \in DOMAIN invitations, Expire(t)
      PROVE  frame'[r] = frame[r]
  BY <1>4 DEF Expire
<1>5. QED
  BY <1>1, <1>2, <1>3, <1>4 DEF Next, vars

(* A failure is never forgotten. *)
LEMMA FailuresStay ==
  ASSUME TypeInv, [Next]_vars, failures' = 0
  PROVE  failures = 0
<1>1. failures \in Nat
  BY BoundsAssumption DEF TypeInv, TypeOK
<1>2. ASSUME NEW r \in Requests, Arrive(r)
      PROVE  failures' = failures
  BY <1>2, Beginnings DEF TypeInv
<1>3. ASSUME NEW r \in Requests, Continue(r)
      PROVE  failures' = failures
  BY <1>3 DEF Continue, InsertOrganization, InsertTier, SaveTier, FindInvitation, CheckTier,
     DeleteInvitation, InsertInvitation, CheckAccount, InsertUser, SaveAccepted, FindMembers,
     SaveMembers, history
<1>4. ASSUME NEW r \in Requests, Fail(r)
      PROVE  failures' = failures + 1
  BY <1>4 DEF Fail
<1>5. ASSUME NEW t \in DOMAIN invitations, Expire(t)
      PROVE  failures' = failures
  BY <1>5 DEF Expire, history
<1>6. QED
  BY <1>1, <1>2, <1>3, <1>4, <1>5 DEF Next, vars

(* Where the link of token t stands. *)
Linked(t) ==
  \/ t \in DOMAIN invitations
  \/ mailed[t].address \in DOMAIN users
  \/ \E u \in t + 1 .. Len(mailed) : mailed[u] = mailed[t]
  \/ \E r \in Requests : At(r, "insert") /\ mailed[t] = To(r)

LEMMA LinkedIs == LastLinkExists <=> (failures = 0 => \A t \in DOMAIN mailed : Linked(t))
BY DEF LastLinkExists, Linked

LEMMA LinkStays ==
  ASSUME TypeInv, TypeOK', RowsAreMailed, OlderIsAccepted, TokensHeld, [Next]_vars, failures' = 0,
         NEW t \in DOMAIN mailed, Linked(t)
  PROVE  Linked(t)'
<1>1. DOMAIN users \subseteq DOMAIN users' /\ MailGrows
  BY UsersStay, MailOnlyGrows
<1>2. /\ DOMAIN mailed = 1..Len(mailed) /\ Len(mailed) \in Nat
      /\ DOMAIN mailed' = 1..Len(mailed') /\ Len(mailed') \in Nat
      /\ DOMAIN invitations \subseteq DOMAIN mailed
  BY MailedDomain DEF TypeInv, TypeOK
<1>3. Len(mailed) <= Len(mailed')
  <2>1. CASE Len(mailed) = 0
    BY <1>2, <2>1
  <2>2. CASE Len(mailed) > 0
    BY <1>1, <1>2, <2>2 DEF MailGrows
  <2>3. QED
    BY <1>2, <2>1, <2>2
<1>4. mailed'[t] = mailed[t]
  BY <1>1 DEF MailGrows
<1>5. CASE mailed[t].address \in DOMAIN users
  BY <1>1, <1>4, <1>5 DEF Linked
<1>6. ASSUME NEW u \in t + 1 .. Len(mailed), mailed[u] = mailed[t]
      PROVE  Linked(t)'
  <2>1. u \in t + 1 .. Len(mailed') /\ u \in DOMAIN mailed
    BY <1>2, <1>3
  <2>2. mailed'[u] = mailed'[t]
    BY <1>1, <1>4, <1>6, <2>1 DEF MailGrows
  <2>3. QED
    BY <2>1, <2>2 DEF Linked
(* A pending invitation is deleted: the request goes on to insert another.   *)
<1>7. CASE t \in DOMAIN invitations
  <2>1. ASSUME NEW r \in Requests, DeleteInvitation(r), t \notin DOMAIN invitations'
        PROVE  Linked(t)'
    <3>1. t = frame[r].token /\ frame[r].pc = "delete" /\ Goto(r, "insert")
      BY <1>7, <2>1 DEF DeleteInvitation, Restrict, At
    <3>2. mailed[t] = To(r)
      BY <3>1 DEF TokensHeld, TokenIsOf, To
    <3>3. /\ frame'[r].pc = "insert" /\ frame'[r].organization = frame[r].organization
          /\ frame'[r].address = frame[r].address
      BY <3>1, GotoFrame DEF TypeInv, PCs
    <3>4. At(r, "insert")' /\ mailed'[t] = To(r)'
      BY <1>4, <3>2, <3>3 DEF At, To
    <3>5. QED
      BY <3>4 DEF Linked
  <2>2. ASSUME NEW r \in Requests, InsertInvitation(r) \/ SaveAccepted(r)
        PROVE  t \in DOMAIN invitations'
    BY <1>7, <2>2 DEF InsertInvitation, SaveAccepted, Inserted
  <2>3. ASSUME NEW s \in DOMAIN invitations, Expire(s)
        PROVE  t \in DOMAIN invitations'
    BY <1>7, <2>3 DEF Expire
  <2>4. QED
    BY <1>7, <2>1, <2>2, <2>3, InvitationSteps DEF Linked
(* The insert is refused by a row, or mails the next token. *)
<1>8. ASSUME NEW r \in Requests, At(r, "insert"), mailed[t] = To(r)
      PROVE  Linked(t)'
  <2>1. CASE ~ InsertInvitation(r)
    <3>1. frame'[r] = frame[r]
      BY <1>8, <2>1, InsertWaits
    <3>2. At(r, "insert")' /\ mailed'[t] = To(r)'
      BY <1>4, <1>8, <3>1 DEF At, To
    <3>3. QED
      BY <3>2 DEF Linked
  <2>2. CASE InsertInvitation(r) /\ RowsOf(frame[r].organization, frame[r].address) = {}
    <3>1. mailed \in Seq(Addressee) /\ mailed' = Append(mailed, To(r))
      BY <2>2 DEF InsertInvitation, TypeInv, TypeOK
    <3>2. Len(mailed') = Len(mailed) + 1 /\ mailed'[Len(mailed')] = To(r)
      BY <3>1
    <3>3. Len(mailed') \in t + 1 .. Len(mailed') /\ mailed'[Len(mailed')] = mailed'[t]
      BY <1>2, <1>4, <1>8, <3>2
    <3>4. QED
      BY <3>3 DEF Linked
  <2>3. CASE InsertInvitation(r) /\ RowsOf(frame[r].organization, frame[r].address) # {}
    <3>1. mailed' = mailed /\ invitations' = invitations
      BY <2>3 DEF InsertInvitation
    <3>2. PICK u \in DOMAIN invitations : /\ invitations[u].organization = frame[r].organization
                                          /\ invitations[u].address = frame[r].address
      BY <2>3 DEF RowsOf
    <3>3. mailed[u] = mailed[t] /\ u \in DOMAIN mailed
      BY <1>2, <1>8, <3>2 DEF RowsAreMailed, To
    <3>4. CASE u = t
      BY <3>1, <3>2, <3>4 DEF Linked
    <3>5. CASE u < t
      BY <1>5, <3>3, <3>5 DEF OlderIsAccepted
    <3>6. CASE u > t
      <4>1. u \in t + 1 .. Len(mailed)
        BY <1>2, <3>3, <3>6
      <4>2. QED
        BY <1>6, <3>3, <4>1
    <3>7. QED
      BY <1>2, <3>3, <3>4, <3>5, <3>6
  <2>4. QED
    BY <2>1, <2>2, <2>3
<1>9. QED
  BY <1>5, <1>6, <1>7, <1>8 DEF Linked

(* The email of a new row. *)
LEMMA LinkBegins ==
  ASSUME TypeInv, [Next]_vars, NEW t \in DOMAIN mailed' \ DOMAIN mailed
  PROVE  t \in DOMAIN invitations'
<1>1. ASSUME NEW r \in Requests, InsertInvitation(r)
      PROVE  t \in DOMAIN invitations'
  <2>1. mailed \in Seq(Addressee)
    BY DEF TypeInv, TypeOK
  <2>2. /\ mailed' = Append(mailed, To(r))
        /\ invitations' = Inserted(invitations, Len(mailed) + 1, Row(r, "pending", FALSE))
    BY <1>1 DEF InsertInvitation
  <2>3. t = Len(mailed) + 1
    BY <2>1, <2>2
  <2>4. QED
    BY <2>2, <2>3 DEF Inserted
<1>2. QED
  BY <1>1, InvitationSteps DEF DeleteInvitation, SaveAccepted, Expire

LEMMA LinkInit == Init => AccountInv /\ LinkInv
<1> SUFFICES ASSUME Init PROVE AccountInv /\ LinkInv
  OBVIOUS
<1>1. /\ invitations = <<>> /\ mailed = <<>> /\ \A r \in Requests : frame[r].pc = "idle"
  BY IdleIsFrame DEF Init
<1>2. DOMAIN invitations = {} /\ DOMAIN mailed = {}
  BY <1>1
<1>3. QED
  BY <1>1, <1>2 DEF AccountInv, AcceptedHasAccount, At, LinkInv, RowsAreMailed, OlderIsAccepted,
     TokensHeld, TokenIsOf, LastLinkExists

LEMMA LinkStep == TypeInv /\ TypeInv' /\ AccountInv /\ LinkInv /\ [Next]_vars => LinkInv'
<1> SUFFICES ASSUME TypeInv, TypeInv', AccountInv, LinkInv, [Next]_vars PROVE LinkInv'
  OBVIOUS
<1>1. RowsAreMailed' /\ OlderIsAccepted' /\ TokensHeld'
  BY RowsStep, TokensStep DEF LinkInv
<1>2. ASSUME failures' = 0, NEW t \in DOMAIN mailed'
      PROVE  Linked(t)'
  <2>1. CASE t \in DOMAIN mailed
    <3>1. Linked(t) /\ TypeOK'
      BY <1>2, <2>1, FailuresStay, LinkedIs DEF LinkInv, TypeInv
    <3>2. QED
      BY <1>2, <2>1, <3>1, LinkStays DEF LinkInv
  <2>2. CASE t \notin DOMAIN mailed
    BY <2>2, LinkBegins DEF Linked
  <2>3. QED
    BY <2>1, <2>2
<1>3. LastLinkExists'
  BY <1>2 DEF LastLinkExists, Linked
<1>4. QED
  BY <1>1, <1>3 DEF LinkInv

(* Unless a request failed, the link that was mailed last to somebody        *)
(* without an account is of an invitation that exists or is being renewed,   *)
(* whatever invitations, renewals and acceptances overlap: the request that  *)
(* deletes the row inserts the next one, and an insert is refused only by a  *)
(* row that is younger, or that an acceptance brought back.                  *)
THEOREM LastLinkStays == Spec => []LastLinkExists
<1>1. LinkInv => LastLinkExists
  BY DEF LinkInv
<1>2. QED
  BY <1>1, LinkInit, TypeInit, TypeNext, AccountStep, LinkStep, PTL DEF Spec
=============================================================================
