---------------------------- MODULE AccessProofs ----------------------------
(***************************************************************************)
(* Who may act for a business, for any people, roles, passwords, browsers   *)
(* and bounds. The invitations: PlatformDesk keeps what InvitationsStaySound *)
(* says of them. The argument is one inductive invariant, Admission: it says *)
(* of every two invitations what the property says of one person, and beside *)
(* it that nobody holds an accepted invitation who is not a member. The      *)
(* sessions, failures and resets of an account: Accounts keeps what          *)
(* AccountsStaySound says of them. The inductive invariant adds who holds    *)
(* which lock (Locks), that the only token to redeem is the last one issued  *)
(* (OnlyTheLast), and that the tokens of completed resets are spent          *)
(* (ResetsAreSpent).                                                        *)
(***************************************************************************)
EXTENDS PlatformDesk, Accounts, FiniteSetTheorems, SequenceTheorems, TLAPS

Issued == [email : Emails, role : Roles, accepted : BOOLEAN, revoked : BOOLEAN, fresh : BOOLEAN]

Issues == {NoCommand}
          \cup [phase : {"sent"}, email : Emails, role : InvitedRoles, own : BOOLEAN]
          \cup [phase : {"answered"}, own : BOOLEAN, token : Nat]

OneLiveEach == \A i, j \in Live : invitations[i].email = invitations[j].email => i = j

AcceptedWereSound ==
    \A i \in DOMAIN invitations :
        invitations[i].accepted => /\ ~invitations[i].revoked /\ invitations[i].fresh
                                   /\ invitations[i].email \in DOMAIN members

OneAcceptedEach ==
    \A i, j \in DOMAIN invitations :
        /\ invitations[i].accepted /\ invitations[j].accepted
        /\ invitations[i].email = invitations[j].email
        => i = j

MembersWereAdmitted ==
    \A e \in DOMAIN members :
        /\ e \in accounts
        /\ \A i \in Live : invitations[i].email # e
        /\ \E i \in DOMAIN invitations : /\ invitations[i].accepted /\ invitations[i].email = e
                                         /\ invitations[i].role = members[e]

Admission ==
    /\ invitations \in Seq(Issued)
    /\ OneLiveEach /\ AcceptedWereSound /\ OneAcceptedEach /\ MembersWereAdmitted
    /\ status = "active" => HasOwner

Admitting == Admission /\ issuing \in Issues

-----------------------------------------------------------------------------
(* What a command of the server leaves of Admission: all of it.             *)

LEMMA ServerAtRest ==
    ASSUME Admission, UNCHANGED <<status, invitations, accounts, members>>
    PROVE  Admission'
BY DEF Admission, OneLiveEach, AcceptedWereSound, OneAcceptedEach, MembersWereAdmitted,
       Live, IsLive, HasOwner, Range

\* A step to another status asks for the owner that an active business needs.
LEMMA TransitKeeps ==
    ASSUME Admission, NEW action, MayTransit(action), status' = To[action],
           UNCHANGED <<invitations, accounts, members>>
    PROVE  Admission'
BY DEF Admission, OneLiveEach, AcceptedWereSound, OneAcceptedEach, MembersWereAdmitted,
       Live, IsLive, HasOwner, Range, MayTransit

\* Accounts only grow.
LEMMA RegisterKeeps ==
    ASSUME Admission, NEW e, accounts' = accounts \cup {e},
           UNCHANGED <<status, invitations, members>>
    PROVE  Admission'
BY DEF Admission, OneLiveEach, AcceptedWereSound, OneAcceptedEach, MembersWereAdmitted,
       Live, IsLive, HasOwner, Range

\* Revoking or expiring concerns a live invitation, and makes none live.
LEMMA EndKeeps ==
    ASSUME Admission, NEW i \in Live,
           \/ invitations' = [invitations EXCEPT ![i].revoked = TRUE]
           \/ invitations' = [invitations EXCEPT ![i].fresh = FALSE],
           UNCHANGED <<status, accounts, members>>
    PROVE  Admission'
<1> DEFINE Others == \A j \in DOMAIN invitations \ {i} : invitations'[j] = invitations[j]
<1>1. /\ invitations' \in Seq(Issued) /\ DOMAIN invitations' = DOMAIN invitations
      /\ Others /\ i \in DOMAIN invitations /\ ~invitations[i].accepted
      /\ ~invitations'[i].accepted /\ invitations'[i].email = invitations[i].email
  <2>1. i \in 1 .. Len(invitations) /\ invitations[i] \in Issued /\ ~invitations[i].accepted
    BY DEF Admission, Live, IsLive
  <2>2. PICK v \in Issued : /\ invitations' = [invitations EXCEPT ![i] = v]
                            /\ ~v.accepted /\ v.email = invitations[i].email
    <3>1. CASE invitations' = [invitations EXCEPT ![i].revoked = TRUE]
      <4> DEFINE v == [invitations[i] EXCEPT !.revoked = TRUE]
      <4>1. v \in Issued /\ ~v.accepted /\ v.email = invitations[i].email
        BY <2>1 DEF Issued
      <4> QED BY <3>1, <4>1
    <3>2. CASE invitations' = [invitations EXCEPT ![i].fresh = FALSE]
      <4> DEFINE v == [invitations[i] EXCEPT !.fresh = FALSE]
      <4>1. v \in Issued /\ ~v.accepted /\ v.email = invitations[i].email
        BY <2>1 DEF Issued
      <4> QED BY <3>2, <4>1
    <3> QED BY <3>1, <3>2
  <2> QED BY <2>1, <2>2, ExceptSeq DEF Admission
<1>2. Live' \subseteq Live
  BY <1>1 DEF Live, IsLive
<1>3. OneLiveEach' /\ AcceptedWereSound' /\ OneAcceptedEach'
  BY <1>1, <1>2 DEF Admission, OneLiveEach, AcceptedWereSound, OneAcceptedEach, Live
<1>4. MembersWereAdmitted'
  BY <1>1, <1>2 DEF Admission, MembersWereAdmitted, Live
<1> QED BY <1>1, <1>3, <1>4 DEF Admission, HasOwner, Range

\* A new invitation ends the live ones of its person, who is not a member.
LEMMA IssueKeeps ==
    ASSUME Admission, NEW e \in Emails, NEW r \in Roles, e \notin DOMAIN members,
           invitations' = AfterIssue(e, r), UNCHANGED <<status, accounts, members>>
    PROVE  Admission'
<1> DEFINE n == Len(invitations)
           old == [i \in DOMAIN invitations |-> IF i \in LiveFor(e)
                                                THEN [invitations[i] EXCEPT !.revoked = TRUE]
                                                ELSE invitations[i]]
<1>1. invitations \in Seq(Issued) /\ n \in Nat /\ DOMAIN invitations = 1 .. n
  BY DEF Admission
<1>2. \A i \in 1 .. n : /\ invitations[i] \in Issued
                        /\ old[i] \in Issued
                        /\ old[i].email = invitations[i].email
                        /\ old[i].role = invitations[i].role
                        /\ old[i].accepted = invitations[i].accepted
                        /\ old[i].fresh = invitations[i].fresh
                        /\ i \notin LiveFor(e) => old[i] = invitations[i]
                        /\ i \in LiveFor(e) => old[i].revoked
  <2> SUFFICES ASSUME NEW i \in 1 .. n
               PROVE  /\ invitations[i] \in Issued
                      /\ old[i] \in Issued
                      /\ old[i].email = invitations[i].email
                      /\ old[i].role = invitations[i].role
                      /\ old[i].accepted = invitations[i].accepted
                      /\ old[i].fresh = invitations[i].fresh
                      /\ i \notin LiveFor(e) => old[i] = invitations[i]
                      /\ i \in LiveFor(e) => old[i].revoked
    OBVIOUS
  <2>1. invitations[i] \in Issued
    BY <1>1
  <2>2. CASE i \in LiveFor(e)
    <3>1. old[i] = [invitations[i] EXCEPT !.revoked = TRUE]
      BY <1>1, <2>2
    <3> QED BY <2>1, <2>2, <3>1 DEF Issued
  <2>3. CASE i \notin LiveFor(e)
    <3>1. old[i] = invitations[i]
      BY <1>1, <2>3
    <3> QED BY <2>1, <2>3, <3>1
  <2> QED BY <2>2, <2>3
<1>3. old \in Seq(Issued) /\ Len(old) = n
  BY <1>1, <1>2
<1>4. Invitation(e, r) \in Issued
  BY DEF Invitation, Issued
<1>5. /\ invitations' \in Seq(Issued) /\ DOMAIN invitations' = 1 .. n + 1
      /\ \A i \in 1 .. n : invitations'[i] = old[i]
      /\ invitations'[n + 1] = Invitation(e, r)
  BY <1>1, <1>3, <1>4 DEF AfterIssue
<1>6. \A i \in Live' : i = n + 1 \/ (i \in Live /\ invitations[i].email # e
                                    /\ invitations'[i].email = invitations[i].email)
  <2> SUFFICES ASSUME NEW i \in Live', i # n + 1
               PROVE  i \in Live /\ invitations[i].email # e
                      /\ invitations'[i].email = invitations[i].email
    OBVIOUS
  <2> HIDE DEF old, n
  <2>1. i \in 1 .. n /\ invitations'[i] = old[i] /\ ~old[i].revoked /\ ~old[i].accepted
    <3>1. i \in 1 .. n + 1 /\ ~invitations'[i].revoked /\ ~invitations'[i].accepted
      BY <1>5 DEF Live, IsLive
    <3>2. i \in 1 .. n
      BY <1>1, <3>1
    <3> QED BY <1>5, <3>1, <3>2
  <2>2. i \notin LiveFor(e) /\ old[i] = invitations[i]
    BY <1>2, <2>1
  <2>3. i \in Live
    BY <1>1, <2>1, <2>2 DEF Live, IsLive
  <2> QED BY <2>1, <2>2, <2>3 DEF LiveFor
<1>7. OneLiveEach'
  BY <1>1, <1>5, <1>6 DEF Admission, OneLiveEach, Invitation
<1>8. \A i \in DOMAIN invitations' :
        invitations'[i].accepted => i \in 1 .. n /\ invitations'[i] = invitations[i]
  <2> SUFFICES ASSUME NEW i \in 1 .. n + 1, invitations'[i].accepted
               PROVE  i \in 1 .. n /\ invitations'[i] = invitations[i]
    BY <1>5
  <2> HIDE DEF old, n
  <2>1. i # n + 1
    BY <1>5 DEF Invitation
  <2>2. i \in 1 .. n /\ invitations'[i] = old[i]
    BY <1>1, <1>5, <2>1
  <2>3. i \notin LiveFor(e)
    BY <1>2, <2>2 DEF LiveFor, Live, IsLive
  <2> QED BY <1>2, <2>2, <2>3
<1>9. AcceptedWereSound' /\ OneAcceptedEach'
  BY <1>1, <1>8 DEF Admission, AcceptedWereSound, OneAcceptedEach
<1>10. MembersWereAdmitted'
  <2> SUFFICES ASSUME NEW d \in DOMAIN members
               PROVE  /\ d \in accounts
                      /\ \A i \in Live' : invitations'[i].email # d
                      /\ \E i \in DOMAIN invitations' :
                            /\ invitations'[i].accepted /\ invitations'[i].email = d
                            /\ invitations'[i].role = members[d]
    BY DEF MembersWereAdmitted
  <2>1. PICK i \in DOMAIN invitations : /\ invitations[i].accepted /\ invitations[i].email = d
                                        /\ invitations[i].role = members[d]
    BY DEF Admission, MembersWereAdmitted
  <2>2. \A j \in Live' : invitations'[j].email # d
    BY <1>5, <1>6 DEF Admission, MembersWereAdmitted, Invitation
  <2>3. i \in DOMAIN invitations' /\ invitations'[i] = invitations[i]
    <3>1. i \in 1 .. n /\ i \notin LiveFor(e) /\ invitations'[i] = old[i]
      BY <1>1, <1>5, <2>1 DEF LiveFor, Live, IsLive
    <3> HIDE DEF old
    <3> QED BY <1>1, <1>2, <1>5, <3>1
  <2> QED BY <2>1, <2>2, <2>3 DEF Admission, MembersWereAdmitted
<1> QED BY <1>5, <1>7, <1>9, <1>10 DEF Admission, HasOwner, Range

\* An acceptance makes a member of somebody who was none.
LEMMA AdmitKeeps ==
    ASSUME Admission, NEW i \in Live, invitations[i].email \notin DOMAIN members, Admit(i, TRUE),
           accounts \subseteq accounts', invitations[i].email \in accounts', UNCHANGED status
    PROVE  Admission'
<1> DEFINE e == invitations[i].email
<1>1. /\ invitations' \in Seq(Issued) /\ DOMAIN invitations' = DOMAIN invitations
      /\ \A j \in DOMAIN invitations \ {i} : invitations'[j] = invitations[j]
      /\ i \in DOMAIN invitations /\ ~invitations[i].revoked
      /\ invitations'[i] = [invitations[i] EXCEPT !.accepted = TRUE, !.fresh = TRUE]
      /\ invitations[i] \in Issued
  <2>1. /\ i \in 1 .. Len(invitations) /\ DOMAIN invitations = 1 .. Len(invitations)
        /\ invitations[i] \in Issued /\ ~invitations[i].revoked
    BY DEF Admission, Live, IsLive
  <2> DEFINE v == [invitations[i] EXCEPT !.accepted = TRUE, !.fresh = TRUE]
  <2>2. v \in Issued /\ invitations' = [invitations EXCEPT ![i] = v]
    BY <2>1 DEF Issued, Admit
  <2> HIDE DEF v
  <2>3. /\ invitations' \in Seq(Issued) /\ Len(invitations') = Len(invitations)
        /\ \A j \in 1 .. Len(invitations) : invitations'[j] = IF j = i THEN v ELSE invitations[j]
    BY <2>1, <2>2, ExceptSeq DEF Admission
  <2>4. invitations'[i] = v /\ \A j \in DOMAIN invitations \ {i} : invitations'[j] = invitations[j]
    BY <2>1, <2>3
  <2>5. DOMAIN invitations' = DOMAIN invitations
    BY <2>1, <2>3
  <2>6. v = [invitations[i] EXCEPT !.accepted = TRUE, !.fresh = TRUE]
    BY DEF v
  <2> QED BY <2>1, <2>3, <2>4, <2>5, <2>6
<1>2. /\ invitations'[i].accepted /\ invitations'[i].email = e /\ ~invitations'[i].revoked
      /\ invitations'[i].fresh /\ invitations'[i].role = invitations[i].role
  BY <1>1 DEF Issued
<1>3. /\ DOMAIN members' = DOMAIN members \cup {e} /\ members'[e] = invitations[i].role
      /\ \A d \in DOMAIN members : members'[d] = members[d]
  BY DEF Admit
<1>4. Live' = Live \ {i}
  BY <1>1, <1>2 DEF Live, IsLive
<1>5. \A j \in Live' : invitations'[j].email # e
  BY <1>1, <1>4 DEF Admission, OneLiveEach, Live
<1>6. \A j \in DOMAIN invitations : invitations[j].accepted => invitations[j].email # e
  BY DEF Admission, AcceptedWereSound
<1>7. OneLiveEach' /\ AcceptedWereSound' /\ OneAcceptedEach'
  <2>1. OneLiveEach'
    BY <1>1, <1>4 DEF Admission, OneLiveEach, Live
  <2>2. AcceptedWereSound'
    BY <1>1, <1>2, <1>3 DEF Admission, AcceptedWereSound
  <2>3. OneAcceptedEach'
    <3> SUFFICES ASSUME NEW j \in DOMAIN invitations, NEW k \in DOMAIN invitations,
                        invitations'[j].accepted, invitations'[k].accepted,
                        invitations'[j].email = invitations'[k].email
                 PROVE  j = k
      BY <1>1 DEF OneAcceptedEach
    <3>1. j # i => invitations'[j] = invitations[j] /\ invitations[j].email # e
      BY <1>1, <1>6
    <3>2. k # i => invitations'[k] = invitations[k] /\ invitations[k].email # e
      BY <1>1, <1>6
    <3> QED BY <1>2, <3>1, <3>2 DEF Admission, OneAcceptedEach
  <2> QED BY <2>1, <2>2, <2>3
<1>8. MembersWereAdmitted'
  <2> SUFFICES ASSUME NEW d \in DOMAIN members'
               PROVE  /\ d \in accounts'
                      /\ \A j \in Live' : invitations'[j].email # d
                      /\ \E j \in DOMAIN invitations' :
                            /\ invitations'[j].accepted /\ invitations'[j].email = d
                            /\ invitations'[j].role = members'[d]
    BY DEF MembersWereAdmitted
  <2>1. CASE d = e
    BY <2>1, <1>1, <1>2, <1>3, <1>5
  <2>2. CASE d # e
    <3>1. d \in DOMAIN members /\ members'[d] = members[d]
      BY <2>2, <1>3
    <3>2. PICK j \in DOMAIN invitations : /\ invitations[j].accepted /\ invitations[j].email = d
                                          /\ invitations[j].role = members[d]
      BY <3>1 DEF Admission, MembersWereAdmitted
    <3>3. d \in accounts' /\ \A k \in Live' : invitations'[k].email # d
      BY <3>1, <1>1, <1>4 DEF Admission, MembersWereAdmitted, Live
    <3> QED BY <2>2, <3>1, <3>2, <3>3, <1>1
  <2> QED BY <2>1, <2>2
<1>9. HasOwner => HasOwner'
  BY <1>3 DEF HasOwner, Range
<1> QED BY <1>1, <1>7, <1>8, <1>9 DEF Admission

-----------------------------------------------------------------------------

LEMMA ElsewhereKeeps ==
    ASSUME PlatformConstants, Admission, Elsewhere
    PROVE  Admission'
<1>1. CASE AcceptExisting
  <2>1. PICK i \in Live : /\ Admit(i, invitations[i].fresh) /\ invitations[i].fresh
                          /\ invitations[i].email \in accounts \ DOMAIN members
    BY <1>1 DEF AcceptExisting, Redeemable
  <2>2. invitations[i] \in Issued
    BY DEF Admission, Live
  <2>3. invitations[i].fresh = TRUE
    BY <2>1, <2>2 DEF Issued
  <2>4. Admit(i, TRUE)
    BY <2>1, <2>3
  <2> QED BY <1>1, <2>1, <2>4, AdmitKeeps DEF AcceptExisting
<1>2. CASE IssueElsewhere
  BY <1>2, IssueKeeps DEF IssueElsewhere, MayIssue, PlatformConstants
<1>3. CASE RevokeElsewhere
  BY <1>3, EndKeeps DEF RevokeElsewhere
<1>4. CASE ExpireInvitation
  BY <1>4, EndKeeps DEF ExpireInvitation
<1>5. CASE RegisterElsewhere
  BY <1>5, RegisterKeeps DEF RegisterElsewhere
<1>6. CASE TransitElsewhere
  BY <1>6, TransitKeeps DEF TransitElsewhere
<1> QED BY <1>1, <1>2, <1>3, <1>4, <1>5, <1>6 DEF Elsewhere

\* The hash of a password was computed with no lock held: what was checked
\* before it is checked again after it.
LEMMA AcceptanceKeeps ==
    ASSUME Admission, NEW g \in Guests,
           BeginAccept(g) \/ LockAccept(g) \/ FinishAccept(g) \/ CrashAccept(g)
    PROVE  Admission'
<1>1. CASE BeginAccept(g)
  BY <1>1, ServerAtRest DEF BeginAccept
<1>2. CASE LockAccept(g)
  BY <1>2, ServerAtRest DEF LockAccept
<1>3. CASE FinishAccept(g)
  <2>1. CASE StillStands(guests[g])
    <3>1. guests[g].of \in Live /\ guests[g].phase # "late"
      BY <2>1 DEF StillStands
    <3>2. invitations[guests[g].of].email \notin DOMAIN members
      BY <2>1 DEF StillStands, IsFree, Admission, MembersWereAdmitted
    <3>3. Admit(guests[g].of, TRUE)
      BY <1>3, <2>1, <3>1 DEF FinishAccept
    <3> QED BY <1>3, <2>1, <3>1, <3>2, <3>3, AdmitKeeps DEF FinishAccept
  <2>2. CASE ~StillStands(guests[g])
    BY <1>3, <2>2, ServerAtRest DEF FinishAccept
  <2> QED BY <2>1, <2>2
<1>4. CASE CrashAccept(g)
  BY <1>4, ServerAtRest DEF CrashAccept, platformServerVars
<1> QED BY <1>1, <1>2, <1>3, <1>4

\* The commands of the page.
LEMMA CommandsKeep ==
    ASSUME PlatformConstants, Admitting, RunChange \/ RunIssue
    PROVE  Admission'
<1> USE DEF Admitting
<1>1. CASE RunChange /\ change.asked.kind = "transition"
  <2>1. CASE MayTransit(change.asked.what)
    BY <1>1, <2>1, TransitKeeps DEF RunChange
  <2>2. CASE ~MayTransit(change.asked.what)
    BY <1>1, <2>2, ServerAtRest DEF RunChange
  <2> QED BY <2>1, <2>2
<1>2. CASE RunChange /\ change.asked.kind # "transition"
  <2>1. CASE MayRevoke(change.asked.what, Administrator)
    BY <1>2, <2>1, EndKeeps DEF RunChange, MayRevoke
  <2>2. CASE ~MayRevoke(change.asked.what, Administrator)
    BY <1>2, <2>2, ServerAtRest DEF RunChange
  <2> QED BY <2>1, <2>2
<1>3. CASE RunIssue
  <2>1. issuing.email \in Emails /\ issuing.role \in Roles
    BY <1>3 DEF RunIssue, Issues, NoCommand, PlatformConstants
  <2>2. CASE MayIssue(issuing.email, issuing.role, Administrator)
    BY <1>3, <2>1, <2>2, IssueKeeps DEF RunIssue, MayIssue
  <2>3. CASE ~MayIssue(issuing.email, issuing.role, Administrator)
    BY <1>3, <2>3, ServerAtRest DEF RunIssue
  <2> QED BY <2>2, <2>3
<1> QED BY <1>1, <1>2, <1>3

LEMMA PlatformInitAdmits == PlatformInit => Admitting
<1> SUFFICES ASSUME PlatformInit PROVE Admitting
  OBVIOUS
<1>1. issuing \in Issues
  BY DEF PlatformInit, Issues
<1>2. CASE status = "provisioning" /\ invitations = <<>> /\ members = <<>>
  BY <1>1, <1>2 DEF Admitting, Admission, OneLiveEach, AcceptedWereSound, OneAcceptedEach,
                    MembersWereAdmitted, Live
<1>3. CASE /\ status = "active"
           /\ members = [e \in accounts |-> "owner"] /\ accounts # {}
           /\ \E e \in accounts : invitations = <<[Invitation(e, "owner") EXCEPT !.accepted = TRUE]>>
  <2>1. PICK e \in accounts : invitations = <<[Invitation(e, "owner") EXCEPT !.accepted = TRUE]>>
    BY <1>3
  <2>2. e \in Emails /\ accounts = {e}
    BY <1>3 DEF PlatformInit
  <2> DEFINE v == [Invitation(e, "owner") EXCEPT !.accepted = TRUE]
  <2>3. /\ v \in Issued /\ v.email = e /\ v.role = "owner"
        /\ v.accepted /\ ~v.revoked /\ v.fresh
    <3>1. Invitation(e, "owner") \in Issued
      BY <2>2 DEF Issued, Roles, Invitation
    <3>2. /\ Invitation(e, "owner").email = e /\ Invitation(e, "owner").role = "owner"
          /\ ~Invitation(e, "owner").revoked /\ Invitation(e, "owner").fresh
      BY DEF Invitation
    <3> QED BY <3>1, <3>2 DEF Issued
  <2> HIDE DEF v
  <2>4. /\ invitations = <<v>> /\ invitations \in Seq(Issued)
        /\ DOMAIN invitations = {1} /\ invitations[1] = v
    BY <2>1, <2>3 DEF v
  <2>5. Live = {}
    BY <2>3, <2>4 DEF Live, IsLive
  <2>6. HasOwner /\ DOMAIN members = {e} /\ members[e] = "owner"
    BY <1>3, <2>2 DEF HasOwner, Range
  <2>7. OneLiveEach
    BY <2>5 DEF OneLiveEach
  <2>8. AcceptedWereSound
    BY <2>3, <2>4, <2>6 DEF AcceptedWereSound
  <2>9. OneAcceptedEach
    BY <2>4 DEF OneAcceptedEach
  <2>10. MembersWereAdmitted
    <3>1. \A d \in DOMAIN members : d = e /\ d \in accounts /\ members[d] = v.role
      BY <2>2, <2>3, <2>6
    <3>2. 1 \in DOMAIN invitations /\ invitations[1].accepted /\ invitations[1].email = e
          /\ invitations[1].role = v.role
      BY <2>3, <2>4
    <3> QED BY <3>1, <3>2, <2>5 DEF MembersWereAdmitted
  <2> QED BY <1>1, <2>4, <2>6, <2>7, <2>8, <2>9, <2>10 DEF Admitting, Admission
<1> QED BY <1>2, <1>3 DEF PlatformInit

LEMMA NextAdmits ==
    ASSUME PlatformConstants, Admitting, [PlatformNext \/ OnboardingNext]_platformVars
    PROVE  Admitting'
<1>1. issuing' \in Issues
  <2>1. CASE SubmitIssue
    BY <2>1 DEF SubmitIssue, Issues
  <2>2. CASE RunIssue
    BY <2>2 DEF RunIssue, Issues, Admitting, Admission, NoToken, NoCommand
  <2>3. CASE LoseIssue
    BY <2>3 DEF LoseIssue, Issues, Admitting, NoToken, NoCommand
  <2>4. CASE SettleIssue
    BY <2>4 DEF SettleIssue, Issues
  <2>5. CASE FailDetail
    BY <2>5 DEF FailDetail, Disowned, Issues, Admitting, NoCommand
  <2> QED BY <2>1, <2>2, <2>3, <2>4, <2>5
    DEF Admitting, platformVars, platformPageVars, platformServerVars, PlatformNext, OnboardingNext, Elsewhere,
        BeginAccept, LockAccept, FinishAccept, CrashAccept, AcceptExisting, IssueElsewhere, RevokeElsewhere,
        ExpireInvitation, RegisterElsewhere, TransitElsewhere, LandDetail, LandList, FailList,
        TryAgain, Reconnect, OpenDialog, CancelDialog, ConfirmDialog, DismissToken, RunChange,
        LoseChange, SettleChange
<1>2. Admission'
  <2>1. CASE Elsewhere
    BY <2>1, ElsewhereKeeps DEF Admitting
  <2>2. CASE \E g \in Guests : BeginAccept(g) \/ LockAccept(g) \/ FinishAccept(g) \/ CrashAccept(g)
    BY <2>2, AcceptanceKeeps DEF Admitting
  <2>3. CASE RunChange \/ RunIssue
    BY <2>3, CommandsKeep
  <2>4. CASE UNCHANGED platformServerVars
    BY <2>4, ServerAtRest DEF Admitting, platformServerVars
  <2> QED BY <2>1, <2>2, <2>3, <2>4
    DEF platformVars, PlatformNext, OnboardingNext, LandDetail, LandList, FailDetail, FailList,
        TryAgain, Reconnect, OpenDialog, CancelDialog, ConfirmDialog, SubmitIssue, DismissToken,
        LoseChange, LoseIssue, SettleChange, SettleIssue
<1> QED BY <1>1, <1>2 DEF Admitting

LEMMA AdmissionIsSound == Admission => InvitationsStaySound
<1> SUFFICES ASSUME Admission PROVE InvitationsStaySound
  OBVIOUS
<1> DEFINE Accepted(e) == {i \in DOMAIN invitations : invitations[i].accepted /\ invitations[i].email = e}
<1>1. ASSUME NEW e \in Emails PROVE Cardinality(LiveFor(e)) <= 1
  <2>1. CASE LiveFor(e) = {}
    BY <2>1, FS_EmptySet
  <2>2. CASE LiveFor(e) # {}
    <3>1. PICK i \in LiveFor(e) : TRUE
      BY <2>2
    <3>2. LiveFor(e) = {i}
      BY <3>1 DEF LiveFor, Admission, OneLiveEach
    <3>3. Cardinality({i}) = 1
      BY FS_Singleton
    <3> QED BY <3>2, <3>3
  <2> QED BY <2>1, <2>2
<1>2. ASSUME NEW e \in DOMAIN members
      PROVE  /\ e \in accounts /\ LiveFor(e) = {}
             /\ \E i \in Accepted(e) : Accepted(e) = {i} /\ members[e] = invitations[i].role
  <2>1. PICK i \in DOMAIN invitations : /\ invitations[i].accepted /\ invitations[i].email = e
                                        /\ invitations[i].role = members[e]
    BY DEF Admission, MembersWereAdmitted
  <2>2. Accepted(e) = {i}
    BY <2>1 DEF Admission, OneAcceptedEach
  <2> QED BY <2>1, <2>2 DEF Admission, MembersWereAdmitted, LiveFor
<1> QED BY <1>1, <1>2 DEF InvitationsStaySound, Admission, AcceptedWereSound

(* However acceptances, reissues, revocations and expiries interleave, on    *)
(* this page and elsewhere: one live invitation at most for a person and     *)
(* none for a member, nobody admitted by a revoked or expired one, every     *)
(* member by exactly one, and no business active without an owner.           *)
THEOREM MembersAreAdmittedOnce ==
    ASSUME PlatformConstants
    PROVE  PlatformSpec => []InvitationsStaySound
<1>1. Admitting /\ [PlatformNext \/ OnboardingNext]_platformVars => Admitting'
  BY NextAdmits
<1>2. Admitting => InvitationsStaySound
  BY AdmissionIsSound DEF Admitting
<1> QED BY <1>1, <1>2, PlatformInitAdmits, PTL DEF PlatformSpec

-----------------------------------------------------------------------------
(* The account.                                                              *)

TrailKinds == {"throttled", "failed", "succeeded", "signedOut", "issued", "completed"}
Entry == [what : TrailKinds, token : Nat]
User == [password : Passwords, weak : BOOLEAN, failures : Nat]

Request ==
    {Answered}
    \cup [at : {"verify"}, typed : Passwords, saw : User]
    \cup [at : {"revoke", "signout"}, session : SessionIds]
    \cup [at : {"hash", "redeem"}, token : Nat, typed : Passwords]

RequestsAreKnown ==
    /\ trail \in Seq(Entry)
    /\ \A r \in DOMAIN work :
        /\ work[r] \in Request
        /\ work[r].at \in {"hash", "redeem"} => work[r].token \in DOMAIN tokens

(* A redemption that holds the account is about to spend a token that is     *)
(* still there to be spent; a sign-out holds the session it ends.            *)
Locks ==
    /\ \A r \in Requests :
        /\ At(r, "redeem") => userLock = r
        /\ userLock = r => At(r, "redeem") /\ tokens[work[r].token] \in Unspent
    /\ \A s \in SessionIds, r \in Requests :
        sessionLock[s] = r => At(r, "signout") /\ work[r].session = s

OnlyTheLast == \A k \in DOMAIN tokens : tokens[k] \in Unspent => k = Len(tokens)

ResetsAreSpent ==
    \A n \in Noted({"completed"}) : trail[n].token \in DOMAIN tokens /\ tokens[trail[n].token] = "used"

Sound ==
    /\ AccountTypeOK /\ RequestsAreKnown /\ Locks /\ OnlyTheLast /\ ResetsAreSpent
    /\ FailuresAreCounted /\ ResetsTakeEffect

-----------------------------------------------------------------------------
(* What is written in the trail stays where it is.                          *)

LEMMA TrailGrows ==
    ASSUME trail \in Seq(Entry), NEW what \in TrailKinds, NEW token \in Nat, Record(what, token)
    PROVE  /\ trail' \in Seq(Entry) /\ Len(trail') = Len(trail) + 1
           /\ DOMAIN trail' = DOMAIN trail \cup {Len(trail) + 1}
           /\ \A n \in DOMAIN trail : trail'[n] = trail[n]
           /\ trail'[Len(trail) + 1].what = what /\ trail'[Len(trail) + 1].token = token
           /\ \A n \in DOMAIN trail : n <= Len(trail)
<1>1. Kept(what, token) \in Entry
  BY DEF Kept, Entry
<1>2. trail' = Append(trail, Kept(what, token))
  BY DEF Record
<1>3. /\ trail' \in Seq(Entry) /\ Len(trail') = Len(trail) + 1
      /\ \A n \in 1 .. Len(trail) : trail'[n] = trail[n]
      /\ trail'[Len(trail) + 1] = Kept(what, token)
  BY <1>1, <1>2
<1>4. /\ Len(trail) \in Nat /\ DOMAIN trail = 1 .. Len(trail)
      /\ DOMAIN trail' = 1 .. Len(trail) + 1
  BY <1>3
<1>5. trail'[Len(trail) + 1].what = what /\ trail'[Len(trail) + 1].token = token
  BY <1>3 DEF Kept
<1>6. DOMAIN trail' = DOMAIN trail \cup {Len(trail) + 1}
  BY <1>4
<1>7. \A n \in DOMAIN trail : n <= Len(trail) /\ trail'[n] = trail[n]
  BY <1>3, <1>4
<1> QED BY <1>3, <1>5, <1>6, <1>7

LEMMA NotedGrows ==
    ASSUME trail \in Seq(Entry), NEW what \in TrailKinds, NEW token \in Nat, Record(what, token),
           NEW kinds
    PROVE  Noted(kinds)' = Noted(kinds) \cup (IF what \in kinds THEN {Len(trail) + 1} ELSE {})
BY TrailGrows DEF Noted

Recent == {n \in Noted({"failed"}) : \A c \in Noted({"succeeded", "completed"}) : c < n}

\* A failure is one more, a success or a reset leaves none, the rest does not count.
LEMMA RecentGrows ==
    ASSUME trail \in Seq(Entry), NEW what \in TrailKinds, NEW token \in Nat, Record(what, token)
    PROVE  /\ what = "failed" => Cardinality(Recent') = Cardinality(Recent) + 1
           /\ what \in {"succeeded", "completed"} => Cardinality(Recent') = 0
           /\ what \notin {"failed", "succeeded", "completed"} => Recent' = Recent
           /\ Cardinality(Recent) \in Nat
<1> DEFINE new == Len(trail) + 1
<1>1. Noted({"failed"})' = Noted({"failed"}) \cup (IF what = "failed" THEN {new} ELSE {})
  BY NotedGrows
<1>2. Noted({"succeeded", "completed"})' = Noted({"succeeded", "completed"})
        \cup (IF what \in {"succeeded", "completed"} THEN {new} ELSE {})
  BY NotedGrows
<1>3. Noted({"failed"}) \subseteq 1 .. Len(trail) /\ Noted({"succeeded", "completed"}) \subseteq 1 .. Len(trail)
      /\ Len(trail) \in Nat
  BY DEF Noted
<1>4. IsFiniteSet(Recent) /\ new \notin Recent
  <2>1. Recent \subseteq 1 .. Len(trail)
    BY <1>3 DEF Recent
  <2>2. IsFiniteSet(1 .. Len(trail))
    BY <1>3, FS_Interval
  <2>3. IsFiniteSet(Recent)
    BY <2>1, <2>2, FS_Subset
  <2> QED BY <1>3, <2>1, <2>3
<1>5. CASE what = "failed"
  <2>1. Recent' = Recent \cup {new}
    BY <1>1, <1>2, <1>3, <1>5 DEF Recent
  <2> QED BY <1>4, <1>5, <2>1, FS_AddElement, FS_CardinalityType
<1>6. CASE what \in {"succeeded", "completed"}
  <2>1. Recent' = {}
    BY <1>1, <1>2, <1>3, <1>6 DEF Recent
  <2> QED BY <1>4, <1>6, <2>1, FS_EmptySet, FS_CardinalityType
<1>7. CASE what \notin {"failed", "succeeded", "completed"}
  BY <1>1, <1>2, <1>4, <1>7, FS_CardinalityType DEF Recent
<1> QED BY <1>5, <1>6, <1>7

LEMMA CountedIsRecent == FailuresAreCounted <=> user.failures = Cardinality(Recent)
BY DEF FailuresAreCounted, Recent
-----------------------------------------------------------------------------
(* The requests.                                                            *)

LEMMA StageMoves ==
    ASSUME NEW r \in DOMAIN work, work[r] \in Request, NEW stage, Stays(r, stage)
    PROVE  /\ DOMAIN work' = DOMAIN work
           /\ \A q \in DOMAIN work \ {r} : work'[q] = work[q]
           /\ work'[r].at = stage
           /\ work[r].at \in {"revoke", "signout"} =>
                work'[r] = [at |-> stage, session |-> work[r].session]
           /\ work[r].at \in {"hash", "redeem"} =>
                work'[r] = [at |-> stage, token |-> work[r].token, typed |-> work[r].typed]
<1>1. /\ DOMAIN work' = DOMAIN work /\ \A q \in DOMAIN work \ {r} : work'[q] = work[q]
      /\ work'[r] = [work[r] EXCEPT !.at = stage]
  BY DEF Stays
<1>2. CASE work[r] = Answered
  BY <1>1, <1>2 DEF Answered
<1>3. CASE work[r] \in [at : {"verify"}, typed : Passwords, saw : User]
  BY <1>1, <1>3
<1>4. CASE work[r] \in [at : {"revoke", "signout"}, session : SessionIds]
  BY <1>1, <1>4
<1>5. CASE work[r] \in [at : {"hash", "redeem"}, token : Nat, typed : Passwords]
  BY <1>1, <1>5
<1> QED BY <1>2, <1>3, <1>4, <1>5 DEF Request

LEMMA RequestBegins ==
    ASSUME NEW r \in Requests, Arrives(r), NEW request, Begins(r, request), AccountConstants
    PROVE  /\ DOMAIN work' = DOMAIN work \cup {r} /\ r \notin DOMAIN work
           /\ DOMAIN work' = 1 .. r
           /\ \A q \in DOMAIN work : work'[q] = work[q]
           /\ work'[r] = request
BY DEF Arrives, Begins, Requests, AccountConstants

LEMMA RequestEnds ==
    ASSUME NEW r \in DOMAIN work, Ends(r)
    PROVE  /\ DOMAIN work' = DOMAIN work
           /\ \A q \in DOMAIN work \ {r} : work'[q] = work[q]
           /\ work'[r] = Answered /\ work'[r].at = "answered"
BY DEF Ends, Answered

-----------------------------------------------------------------------------
(* Types.                                                                   *)

States == {"live", "revoked", "expired"}
Session == [state : States, since : 0 .. Len(trail)]

LEMMA TrailKept ==
    ASSUME Sound, NEW what \in TrailKinds, NEW token \in 0 .. Len(tokens'), Record(what, token),
           tokens' \in Seq({"live", "used", "revoked", "expired"}), Len(tokens') >= Len(tokens)
    PROVE  /\ trail' \in Seq(Entry)
           /\ \A n \in DOMAIN trail' : trail'[n].token \in 0 .. Len(tokens')
           /\ Len(trail) \in Nat /\ Len(trail') = Len(trail) + 1
<1>1. trail \in Seq(Entry) /\ token \in Nat /\ Len(tokens) \in Nat /\ Len(tokens') \in Nat
  BY DEF Sound, RequestsAreKnown, AccountTypeOK
<1>2. /\ trail' \in Seq(Entry) /\ Len(trail') = Len(trail) + 1
      /\ DOMAIN trail' = DOMAIN trail \cup {Len(trail) + 1}
      /\ \A n \in DOMAIN trail : trail'[n] = trail[n]
      /\ trail'[Len(trail) + 1].token = token
  BY <1>1, TrailGrows
<1>3. \A n \in DOMAIN trail : trail[n].token \in 0 .. Len(tokens')
  BY <1>1 DEF Sound, AccountTypeOK
<1> QED BY <1>1, <1>2, <1>3

LEMMA TypesKept ==
    ASSUME AccountConstants, Sound, [AccountNext]_accountVars
    PROVE  AccountTypeOK' /\ RequestsAreKnown'
<1> DEFINE Toks == Seq({"live", "used", "revoked", "expired"})
           TrailOK == \A n \in DOMAIN trail : trail[n].token \in 0 .. Len(tokens)
           SessionsOK == /\ DOMAIN sessions \subseteq SessionIds
                         /\ \A s \in DOMAIN sessions : sessions[s] \in Session
           WorkOK == /\ DOMAIN work \in {1 .. n : n \in 0 .. MaxRequests}
                     /\ \A r \in DOMAIN work :
                        /\ work[r] \in Request
                        /\ work[r].at \in {"hash", "redeem"} => work[r].token \in DOMAIN tokens
           Rest == /\ user \in User /\ tokens \in Toks /\ userLock \in Requests \cup {Nobody}
                   /\ sessionLock \in [SessionIds -> Requests \cup {Nobody}]
                   /\ trail \in Seq(Entry)
<1>0. Sound => TrailOK /\ SessionsOK /\ WorkOK /\ Rest
  BY DEF Sound, AccountTypeOK, RequestsAreKnown, Session, States, User
<1>1. TrailOK /\ SessionsOK /\ WorkOK /\ Rest
  BY <1>0
<1>2. ASSUME TrailOK', SessionsOK', WorkOK', Rest'
      PROVE  AccountTypeOK' /\ RequestsAreKnown'
  BY <1>2 DEF AccountTypeOK, RequestsAreKnown, Session, States, User
<1>3. DOMAIN work \subseteq Requests /\ Requests \subseteq SessionIds /\ Len(trail) \in Nat
      /\ Len(tokens) \in Nat /\ DOMAIN tokens = 1 .. Len(tokens) /\ Nobody \notin Requests
  BY <1>1 DEF Requests, AccountConstants, SessionIds, Nobody
<1> HIDE DEF TrailOK, SessionsOK, WorkOK, Rest
<1>4. ASSUME NEW r \in Requests, NEW request \in Request, Arrives(r), Begins(r, request),
             request.at = "hash" => request.token \in DOMAIN tokens, request.at # "redeem",
             UNCHANGED tokens
      PROVE  WorkOK'
  <2>1. /\ DOMAIN work' = DOMAIN work \cup {r} /\ r \notin DOMAIN work
        /\ DOMAIN work' = 1 .. r
        /\ \A q \in DOMAIN work : work'[q] = work[q]
        /\ work'[r] = request
    BY <1>4, RequestBegins
  <2>2. r \in 0 .. MaxRequests
    BY DEF Requests
  <2> QED BY <2>1, <2>2, <1>1, <1>4 DEF WorkOK
<1>5. ASSUME NEW r \in DOMAIN work, Ends(r), Len(tokens') >= Len(tokens), tokens' \in Toks
      PROVE  WorkOK'
  <2>1. DOMAIN tokens \subseteq DOMAIN tokens'
    BY <1>1, <1>5, <1>3
  <2>2. Answered \in Request /\ Answered.at = "answered"
    BY DEF Request, Answered
  <2> QED BY <2>1, <2>2, <1>1, <1>5, RequestEnds DEF WorkOK
<1>6. ASSUME UNCHANGED <<trail, sessions>> PROVE SessionsOK'
  BY <1>1, <1>6 DEF SessionsOK, Session
<1>7. ASSUME UNCHANGED sessions, Len(trail') = Len(trail) + 1 PROVE SessionsOK'
  BY <1>1, <1>3, <1>7 DEF SessionsOK, Session
<1>8. ASSUME UNCHANGED <<trail, tokens>> PROVE TrailOK'
  BY <1>1, <1>8 DEF TrailOK
<1>9. ASSUME NEW what \in TrailKinds, NEW token \in 0 .. Len(tokens'), Record(what, token),
             tokens' \in Toks, Len(tokens') >= Len(tokens)
      PROVE  TrailOK' /\ Len(trail') = Len(trail) + 1 /\ trail' \in Seq(Entry)
  BY <1>9, TrailKept DEF TrailOK
<1>10. tokens \in Toks
  BY <1>1 DEF Rest
<1>11. 0 \in 0 .. Len(tokens)
  BY <1>3
<1>12. ASSUME NEW r \in Requests, Serves(r) PROVE TrailOK' /\ SessionsOK' /\ WorkOK' /\ Rest'
  <2>1. CASE BeginLogin(r)
    <3>1. PICK p \in Passwords : Begins(r, [at |-> "verify", typed |-> p, saw |-> user])
      BY <2>1 DEF BeginLogin
    <3>2. [at |-> "verify", typed |-> p, saw |-> user] \in Request
      BY <1>1 DEF Request, Rest
    <3>3. WorkOK'
      BY <2>1, <3>1, <3>2, <1>4 DEF BeginLogin
    <3> QED BY <2>1, <3>3, <1>1, <1>6, <1>8 DEF BeginLogin, Rest
  <2>2. CASE Throttle(r)
    <3>1. TrailOK' /\ Len(trail') = Len(trail) + 1 /\ trail' \in Seq(Entry)
      BY <2>2, <1>9, <1>10, <1>11 DEF Throttle, TrailKinds
    <3>2. WorkOK'
      BY <2>2, <1>5, <1>10, <1>3 DEF Throttle, At
    <3> QED BY <2>2, <3>1, <3>2, <1>1, <1>7 DEF Throttle, Rest
  <2>3. CASE FailLogin(r)
    <3>1. TrailOK' /\ Len(trail') = Len(trail) + 1 /\ trail' \in Seq(Entry)
      BY <2>3, <1>9, <1>10, <1>11 DEF FailLogin, TrailKinds
    <3>2. WorkOK'
      BY <2>3, <1>5, <1>10, <1>3 DEF FailLogin, At
    <3>3. user' \in User
      BY <2>3, <1>1 DEF FailLogin, Rest, User
    <3> QED BY <2>3, <3>1, <3>2, <3>3, <1>1, <1>7 DEF FailLogin, Rest
  <2>4. CASE OpenSession(r)
    <3>1. TrailOK' /\ Len(trail') = Len(trail) + 1 /\ trail' \in Seq(Entry)
      BY <2>4, <1>9, <1>10, <1>11 DEF OpenSession, TrailKinds
    <3>2. WorkOK' /\ r \in DOMAIN work
      BY <2>4, <1>5, <1>10, <1>3 DEF OpenSession, At
    <3>3. user' \in User
      <4>1. work[r].typed \in Passwords
        BY <2>4, <3>2, <1>1 DEF OpenSession, At, WorkOK, Request, Answered
      <4> QED BY <2>4, <4>1, <1>1 DEF OpenSession, Rest, User
    <3>4. SessionsOK'
      BY <2>4, <3>1, <1>1, <1>3 DEF OpenSession, SessionsOK, Session, States, LiveSessions
    <3> QED BY <2>4, <3>1, <3>2, <3>3, <3>4, <1>1 DEF OpenSession, Rest
  <2>5. CASE BeginLogout(r)
    <3>1. PICK s \in LiveSessions : Begins(r, [at |-> "revoke", session |-> s])
      BY <2>5 DEF BeginLogout
    <3>2. [at |-> "revoke", session |-> s] \in Request
      BY <1>1 DEF Request, SessionsOK, LiveSessions
    <3>3. WorkOK'
      BY <2>5, <3>1, <3>2, <1>4 DEF BeginLogout
    <3> QED BY <2>5, <3>3, <1>1, <1>6, <1>8 DEF BeginLogout, Rest
  <2>6. CASE RevokeOne(r)
    <3>1. r \in DOMAIN work /\ work[r].at = "revoke" /\ work[r] \in Request
      BY <2>6, <1>1 DEF RevokeOne, At, WorkOK
    <3>2. work[r].session \in SessionIds
      BY <3>1 DEF Request, Answered
    <3>3. /\ DOMAIN work' = DOMAIN work
          /\ \A q \in DOMAIN work \ {r} : work'[q] = work[q]
          /\ work'[r] = [at |-> "signout", session |-> work[r].session]
      BY <2>6, <3>1, StageMoves DEF RevokeOne
    <3>4. work'[r] \in Request /\ work'[r].at = "signout"
      BY <3>2, <3>3 DEF Request
    <3>5. WorkOK'
      BY <2>6, <3>3, <3>4, <1>1 DEF RevokeOne, WorkOK
    <3> QED BY <2>6, <3>5, <1>1, <1>6, <1>8 DEF RevokeOne, Rest
  <2>7. CASE SignOut(r)
    <3>1. TrailOK' /\ Len(trail') = Len(trail) + 1 /\ trail' \in Seq(Entry)
      BY <2>7, <1>9, <1>10, <1>11 DEF SignOut, TrailKinds
    <3>2. WorkOK'
      BY <2>7, <1>5, <1>10, <1>3 DEF SignOut, At
    <3>3. SessionsOK'
      BY <2>7, <3>1, <1>1, <1>3 DEF SignOut, SessionsOK, Session, States
    <3> QED BY <2>7, <3>1, <3>2, <3>3, <1>1 DEF SignOut, Rest
  <2>8. CASE BeginRedemption(r)
    <3>1. PICK k \in DOMAIN tokens, p \in Passwords :
            Begins(r, [at |-> "hash", token |-> k, typed |-> p])
      BY <2>8 DEF BeginRedemption
    <3>2. [at |-> "hash", token |-> k, typed |-> p] \in Request
      BY <1>3 DEF Request
    <3>3. WorkOK'
      BY <2>8, <3>1, <3>2, <1>4 DEF BeginRedemption
    <3> QED BY <2>8, <3>3, <1>1, <1>6, <1>8 DEF BeginRedemption, Rest
  <2>9. CASE Revalidate(r)
    <3>1. r \in DOMAIN work /\ work[r].at = "hash" /\ work[r] \in Request
      BY <2>9, <1>1 DEF Revalidate, At, WorkOK
    <3>2. CASE Ends(r)
      <4>1. WorkOK'
        BY <2>9, <3>1, <3>2, <1>5, <1>10, <1>3 DEF Revalidate
      <4> QED BY <2>9, <4>1, <1>1, <1>6, <1>8 DEF Revalidate, Rest
    <3>3. CASE Stays(r, "redeem")
      <4>1. work[r].token \in Nat /\ work[r].typed \in Passwords
        BY <3>1 DEF Request, Answered
      <4>2. /\ DOMAIN work' = DOMAIN work
            /\ \A q \in DOMAIN work \ {r} : work'[q] = work[q]
            /\ work'[r] = [at |-> "redeem", token |-> work[r].token, typed |-> work[r].typed]
        BY <3>1, <3>3, StageMoves
      <4>3. work'[r] \in Request /\ work'[r].at = "redeem" /\ work'[r].token = work[r].token
        BY <4>1, <4>2 DEF Request
      <4>4. WorkOK'
        BY <2>9, <3>1, <4>2, <4>3, <1>1 DEF Revalidate, WorkOK
      <4> QED BY <2>9, <4>4, <1>1, <1>6, <1>8 DEF Revalidate, Rest
    <3> QED BY <2>9, <3>2, <3>3 DEF Revalidate
  <2>10. CASE Redeem(r)
    <3>1. r \in DOMAIN work /\ work[r].at = "redeem" /\ work[r] \in Request
          /\ work[r].token \in DOMAIN tokens
      BY <2>10, <1>1 DEF Redeem, At, WorkOK
    <3>2. tokens' \in Toks /\ Len(tokens') = Len(tokens)
      BY <2>10, <3>1, <1>10, <1>3 DEF Redeem
    <3>3. TrailOK' /\ Len(trail') = Len(trail) + 1 /\ trail' \in Seq(Entry)
      BY <2>10, <3>1, <3>2, <1>9, <1>3 DEF Redeem, TrailKinds
    <3>4. WorkOK'
      BY <2>10, <3>1, <3>2, <1>5, <1>3 DEF Redeem
    <3>5. user' \in User
      <4>1. work[r].typed \in Passwords
        BY <3>1 DEF Request, Answered
      <4> QED BY <2>10, <4>1 DEF Redeem, User
    <3>6. SessionsOK'
      BY <2>10, <3>3, <1>1, <1>3 DEF Redeem, SessionsOK, Session, States
    <3> QED BY <2>10, <3>2, <3>3, <3>4, <3>5, <3>6, <1>1 DEF Redeem, Rest
  <2>11. CASE Die(r)
    <3>1. WorkOK'
      BY <2>11, <1>5, <1>10, <1>3 DEF Die
    <3>2. sessionLock' \in [SessionIds -> Requests \cup {Nobody}]
          /\ userLock' \in Requests \cup {Nobody}
      BY <2>11, <1>1 DEF Die, Rest
    <3> QED BY <2>11, <3>1, <3>2, <1>1, <1>6, <1>8 DEF Die, Rest
  <2> QED BY <1>12, <2>1, <2>2, <2>3, <2>4, <2>5, <2>6, <2>7, <2>8, <2>9, <2>10, <2>11 DEF Serves
<1>13. CASE IssueReset
  <2> DEFINE old == [k \in DOMAIN tokens |-> IF tokens[k] \in Unspent THEN "revoked" ELSE tokens[k]]
  <2>1. old \in Toks /\ Len(old) = Len(tokens)
    BY <1>10, <1>3
  <2> HIDE DEF old
  <2>2. tokens' = Append(old, "live")
    BY <1>13 DEF IssueReset, old
  <2>3. tokens' \in Toks /\ Len(tokens') = Len(tokens) + 1 /\ DOMAIN tokens \subseteq DOMAIN tokens'
    BY <2>1, <2>2, <1>3
  <2>4. TrailOK' /\ Len(trail') = Len(trail) + 1 /\ trail' \in Seq(Entry)
    BY <1>13, <2>3, <1>9, <1>3 DEF IssueReset, TrailKinds
  <2>5. WorkOK'
    BY <1>13, <2>3, <1>1 DEF IssueReset, WorkOK
  <2>6. TrailOK' /\ SessionsOK' /\ WorkOK' /\ Rest'
    BY <1>13, <2>3, <2>4, <2>5, <1>1, <1>7 DEF IssueReset, Rest
  <2> QED BY <2>6, <1>2
<1>14. CASE TimePasses
  <2>1. tokens' \in Toks /\ Len(tokens') = Len(tokens) /\ DOMAIN tokens' = DOMAIN tokens
    BY <1>14, <1>10, <1>3 DEF TimePasses
  <2>2. SessionsOK'
    BY <1>14, <1>1 DEF TimePasses, SessionsOK, Session, States, LiveSessions
  <2>3. TrailOK' /\ SessionsOK' /\ WorkOK' /\ Rest'
    BY <1>14, <2>1, <2>2, <1>1 DEF TimePasses, TrailOK, WorkOK, Rest
  <2> QED BY <2>3, <1>2
<1>15. CASE UNCHANGED accountVars
  <2>1. TrailOK' /\ SessionsOK' /\ WorkOK' /\ Rest'
    BY <1>15, <1>1 DEF accountVars, TrailOK, SessionsOK, Session, WorkOK, Rest
  <2> QED BY <2>1, <1>2
<1> QED BY <1>2, <1>12, <1>13, <1>14, <1>15 DEF AccountNext

-----------------------------------------------------------------------------
(* Who holds what, and which token can still be redeemed.                   *)

LEMMA LocksKept ==
    ASSUME AccountConstants, Sound, [AccountNext]_accountVars
    PROVE  Locks'
<1>1. /\ Locks /\ OnlyTheLast /\ \A r \in DOMAIN work : work[r] \in Request
      /\ userLock \in Requests \cup {Nobody}
      /\ sessionLock \in [SessionIds -> Requests \cup {Nobody}]
      /\ tokens \in Seq({"live", "used", "revoked", "expired"})
      /\ Nobody \notin Requests
  BY DEF Sound, RequestsAreKnown, AccountTypeOK, Requests, Nobody
\* A request that ends holds nothing any more.
<1>2. ASSUME NEW r \in DOMAIN work, Ends(r), userLock' # r, \A s \in SessionIds : sessionLock'[s] # r,
             userLock' \in {userLock, Nobody}, userLock # r => userLock' = userLock,
             \A s \in SessionIds : sessionLock[s] # r => sessionLock'[s] = sessionLock[s],
             \A s \in SessionIds : sessionLock'[s] \in {sessionLock[s], Nobody},
             UNCHANGED tokens
      PROVE  Locks'
  <2>1. /\ DOMAIN work' = DOMAIN work
        /\ \A q \in DOMAIN work \ {r} : work'[q] = work[q]
        /\ work'[r].at = "answered"
    BY <1>2, RequestEnds
  <2>2. ASSUME NEW q \in Requests
        PROVE  /\ At(q, "redeem")' => userLock' = q
               /\ userLock' = q => At(q, "redeem")' /\ tokens'[work'[q].token] \in Unspent
    BY <1>1, <1>2, <2>1 DEF Locks, At
  <2>3. ASSUME NEW s \in SessionIds, NEW q \in Requests, sessionLock'[s] = q
        PROVE  At(q, "signout")' /\ work'[q].session = s
    <3>1. q # r /\ sessionLock[s] = q
      BY <1>1, <1>2, <2>3
    <3> QED BY <1>1, <1>2, <2>1, <2>3, <3>1 DEF Locks, At
  <2> QED BY <2>2, <2>3 DEF Locks
\* One that begins holds nothing yet.
<1>3. ASSUME NEW r \in Requests, NEW request, Arrives(r), Begins(r, request),
             request.at \in {"verify", "revoke", "hash"}, UNCHANGED <<tokens, userLock, sessionLock>>
      PROVE  Locks'
  <2>1. /\ DOMAIN work' = DOMAIN work \cup {r} /\ r \notin DOMAIN work
        /\ \A q \in DOMAIN work : work'[q] = work[q]
        /\ work'[r] = request
    BY <1>3, RequestBegins
  <2> QED BY <1>1, <1>3, <2>1 DEF Locks, At
<1>4. ASSUME NEW r \in Requests, Serves(r) PROVE Locks'
  <2>1. CASE BeginLogin(r)
    <3>1. PICK p \in Passwords : Begins(r, [at |-> "verify", typed |-> p, saw |-> user])
      BY <2>1 DEF BeginLogin
    <3> QED BY <2>1, <3>1, <1>3 DEF BeginLogin
  <2>2. CASE Throttle(r) \/ FailLogin(r) \/ OpenSession(r)
    <3>1. r \in DOMAIN work /\ work[r].at = "verify" /\ Ends(r)
          /\ UNCHANGED <<tokens, userLock, sessionLock>>
      BY <2>2 DEF Throttle, FailLogin, OpenSession, At
    <3>2. userLock # r /\ \A s \in SessionIds : sessionLock[s] # r
      BY <1>1, <3>1 DEF Locks, At
    <3> QED BY <3>1, <3>2, <1>2
  <2>3. CASE BeginLogout(r)
    <3>1. PICK s \in LiveSessions : Begins(r, [at |-> "revoke", session |-> s])
      BY <2>3 DEF BeginLogout
    <3> QED BY <2>3, <3>1, <1>3 DEF BeginLogout
  <2>4. CASE RevokeOne(r)
    <3>1. /\ r \in DOMAIN work /\ work[r].at = "revoke" /\ work[r] \in Request
          /\ UNCHANGED <<tokens, userLock>>
      BY <2>4, <1>1 DEF RevokeOne, At
    <3>2. /\ DOMAIN work' = DOMAIN work
          /\ \A q \in DOMAIN work \ {r} : work'[q] = work[q]
          /\ work'[r] = [at |-> "signout", session |-> work[r].session]
      BY <2>4, <3>1, StageMoves DEF RevokeOne
    <3>3. userLock # r /\ \A s \in SessionIds : sessionLock[s] # r
      BY <1>1, <3>1 DEF Locks, At
    <3>4. ASSUME NEW s \in SessionIds, sessionLock'[s] = r PROVE work[r].session = s
      BY <2>4, <1>1, <3>3, <3>4 DEF RevokeOne
    <3>5. ASSUME NEW s \in SessionIds, NEW q \in Requests, q # r, sessionLock'[s] = q
          PROVE  sessionLock[s] = q
      BY <2>4, <1>1, <3>5 DEF RevokeOne
    <3>6. ASSUME NEW s \in SessionIds, NEW q \in Requests, sessionLock'[s] = q
          PROVE  At(q, "signout")' /\ work'[q].session = s
      <4>1. CASE q = r
        BY <3>1, <3>2, <3>4, <3>6, <4>1 DEF At
      <4>2. CASE q # r
        BY <1>1, <3>2, <3>5, <3>6, <4>2 DEF Locks, At
      <4> QED BY <4>1, <4>2
    <3>7. ASSUME NEW q \in Requests
          PROVE  /\ At(q, "redeem")' => userLock' = q
                 /\ userLock' = q => At(q, "redeem")' /\ tokens'[work'[q].token] \in Unspent
      BY <1>1, <3>1, <3>2, <3>3 DEF Locks, At
    <3> QED BY <3>6, <3>7 DEF Locks
  <2>5. CASE SignOut(r)
    <3>1. r \in DOMAIN work /\ work[r].at = "signout" /\ Ends(r) /\ UNCHANGED <<tokens, userLock>>
      BY <2>5 DEF SignOut, At
    <3>2. userLock # r
      BY <1>1, <3>1 DEF Locks, At
    <3>3. \A s \in SessionIds : sessionLock[s] = r => work[r].session = s
      BY <1>1 DEF Locks
    <3>4. /\ \A s \in SessionIds : sessionLock'[s] # r
          /\ \A s \in SessionIds : sessionLock[s] # r => sessionLock'[s] = sessionLock[s]
          /\ \A s \in SessionIds : sessionLock'[s] \in {sessionLock[s], Nobody}
      BY <2>5, <1>1, <3>3 DEF SignOut
    <3> QED BY <3>1, <3>2, <3>4, <1>2
  <2>6. CASE BeginRedemption(r)
    <3>1. PICK k \in DOMAIN tokens, p \in Passwords :
            Begins(r, [at |-> "hash", token |-> k, typed |-> p])
      BY <2>6 DEF BeginRedemption
    <3> QED BY <2>6, <3>1, <1>3 DEF BeginRedemption
  <2>7. CASE Revalidate(r)
    <3>1. /\ r \in DOMAIN work /\ work[r].at = "hash" /\ work[r] \in Request
          /\ userLock = Nobody /\ UNCHANGED <<tokens, sessionLock>>
      BY <2>7, <1>1 DEF Revalidate, At, UserIsFree
    <3>2. \A s \in SessionIds : sessionLock[s] # r
      BY <1>1, <3>1 DEF Locks, At
    <3>3. CASE UsableToken(work[r].token)
      <4>1. /\ DOMAIN work' = DOMAIN work
            /\ \A q \in DOMAIN work \ {r} : work'[q] = work[q]
            /\ work'[r] = [at |-> "redeem", token |-> work[r].token, typed |-> work[r].typed]
            /\ userLock' = r
        BY <2>7, <3>1, <3>3, StageMoves DEF Revalidate
      <4>2. tokens'[work'[r].token] \in Unspent /\ work'[r].at = "redeem"
        BY <3>1, <3>3, <4>1 DEF UsableToken, Unspent
      <4> QED BY <1>1, <3>1, <3>2, <4>1, <4>2 DEF Locks, At
    <3>4. CASE ~UsableToken(work[r].token)
      BY <2>7, <3>1, <3>2, <3>4, <1>1, <1>2 DEF Revalidate
    <3> QED BY <3>3, <3>4
  <2>8. CASE Redeem(r)
    <3>1. /\ r \in DOMAIN work /\ work[r].at = "redeem" /\ Ends(r) /\ UNCHANGED sessionLock
          /\ userLock' = Nobody /\ \A s \in SessionIds : sessionLock[s] = Nobody
      BY <2>8 DEF Redeem, At
    <3>2. /\ DOMAIN work' = DOMAIN work
          /\ \A q \in DOMAIN work \ {r} : work'[q] = work[q]
          /\ work'[r].at = "answered"
      BY <3>1, RequestEnds
    <3>3. \A q \in Requests : At(q, "redeem") => q = r
      BY <1>1, <3>1 DEF Locks, At
    <3>4. \A q \in Requests : ~At(q, "redeem")'
      BY <3>2, <3>3 DEF At
    <3> QED BY <1>1, <3>1, <3>4 DEF Locks
  <2>9. CASE Die(r)
    <3>1. r \in DOMAIN work /\ Ends(r) /\ UNCHANGED tokens
      BY <2>9 DEF Die
    <3>2. userLock' = IF userLock = r THEN Nobody ELSE userLock
      BY <2>9 DEF Die
    <3>3. \A s \in SessionIds : sessionLock'[s] = IF sessionLock[s] = r THEN Nobody ELSE sessionLock[s]
      BY <2>9 DEF Die
    <3> QED BY <1>1, <3>1, <3>2, <3>3, <1>2
  <2> QED BY <1>4, <2>1, <2>2, <2>3, <2>4, <2>5, <2>6, <2>7, <2>8, <2>9 DEF Serves
<1>5. CASE IssueReset
  BY <1>1, <1>5 DEF IssueReset, UserIsFree, Locks, At
<1>6. CASE TimePasses
  <2>1. \A k \in DOMAIN tokens : tokens[k] \in Unspent => tokens'[k] \in Unspent
    BY <1>1, <1>6 DEF TimePasses, Unspent
  <2>2. \A r \in DOMAIN work : At(r, "redeem") => work[r].token \in DOMAIN tokens
    BY DEF Sound, RequestsAreKnown, At
  <2> QED BY <1>1, <1>6, <2>1, <2>2 DEF TimePasses, Locks, At
<1>7. CASE UNCHANGED accountVars
  BY <1>1, <1>7 DEF accountVars, Locks, At
<1> QED BY <1>4, <1>5, <1>6, <1>7 DEF AccountNext

LEMMA TheLastKept ==
    ASSUME AccountConstants, Sound, [AccountNext]_accountVars
    PROVE  OnlyTheLast'
<1>1. OnlyTheLast /\ tokens \in Seq({"live", "used", "revoked", "expired"})
  BY DEF Sound, AccountTypeOK
<1>2. CASE IssueReset
  <2> DEFINE old == [k \in DOMAIN tokens |-> IF tokens[k] \in Unspent THEN "revoked" ELSE tokens[k]]
  <2>1. /\ old \in Seq({"live", "used", "revoked", "expired"}) /\ Len(old) = Len(tokens)
        /\ \A k \in 1 .. Len(tokens) : old[k] \notin Unspent
    BY <1>1 DEF Unspent
  <2> HIDE DEF old
  <2>2. tokens' = Append(old, "live")
    BY <1>2 DEF IssueReset, old
  <2> QED BY <2>1, <2>2 DEF OnlyTheLast
<1>3. CASE TimePasses
  BY <1>1, <1>3 DEF TimePasses, OnlyTheLast, Unspent, UsableToken
<1>4. CASE \E r \in Requests : Redeem(r)
  BY <1>1, <1>4 DEF Redeem, OnlyTheLast, Unspent
<1>5. CASE UNCHANGED tokens
  BY <1>1, <1>5 DEF OnlyTheLast
<1> QED BY <1>2, <1>3, <1>4, <1>5
    DEF AccountNext, accountVars, Serves, BeginLogin, Throttle, FailLogin, OpenSession, BeginLogout,
        RevokeOne, SignOut, BeginRedemption, Revalidate, Die

-----------------------------------------------------------------------------
(* What the trail says.                                                     *)

LEMMA FailuresKept ==
    ASSUME AccountConstants, Sound, [AccountNext]_accountVars
    PROVE  FailuresAreCounted'
<1>1. /\ user.failures = Cardinality(Recent) /\ user \in User
      /\ trail \in Seq(Entry) /\ Len(tokens) \in Nat
      /\ \A r \in DOMAIN work : work[r].at = "redeem" => work[r].token \in Nat
  BY CountedIsRecent DEF Sound, AccountTypeOK, RequestsAreKnown, User
<1>2. FailuresAreCounted' <=> user'.failures = Cardinality(Recent')
  BY DEF FailuresAreCounted, Recent
<1>3. ASSUME NEW what \in {"throttled", "signedOut", "issued"}, NEW token \in Nat,
             Record(what, token), UNCHANGED user
      PROVE  FailuresAreCounted'
  BY <1>1, <1>2, <1>3, RecentGrows DEF TrailKinds
<1>4. CASE UNCHANGED <<user, trail>>
  BY <1>1, <1>2, <1>4 DEF Recent, Noted
<1>5. CASE IssueReset
  BY <1>1, <1>3, <1>5 DEF IssueReset
<1>6. ASSUME NEW r \in Requests, Throttle(r) \/ SignOut(r) PROVE FailuresAreCounted'
  BY <1>1, <1>3, <1>6 DEF Throttle, SignOut
<1>7. ASSUME NEW r \in Requests, FailLogin(r) PROVE FailuresAreCounted'
  <2>1. user'.failures = user.failures + 1
    BY <1>1, <1>7 DEF FailLogin, User
  <2>2. Cardinality(Recent') = Cardinality(Recent) + 1
    BY <1>1, <1>7, RecentGrows DEF FailLogin, TrailKinds
  <2> QED BY <1>1, <1>2, <2>1, <2>2
<1>8. ASSUME NEW r \in Requests, OpenSession(r) PROVE FailuresAreCounted'
  <2>1. user'.failures = 0
    BY <1>1, <1>8 DEF OpenSession, User
  <2>2. Cardinality(Recent') = 0
    BY <1>1, <1>8, RecentGrows DEF OpenSession, TrailKinds
  <2> QED BY <1>2, <2>1, <2>2
<1>9. ASSUME NEW r \in Requests, Redeem(r) PROVE FailuresAreCounted'
  <2>1. user'.failures = 0 /\ work[r].token \in Nat
    BY <1>1, <1>9 DEF Redeem, At
  <2>2. Cardinality(Recent') = 0
    BY <1>1, <1>9, <2>1, RecentGrows DEF Redeem, TrailKinds
  <2> QED BY <1>2, <2>1, <2>2
<1> QED BY <1>4, <1>5, <1>6, <1>7, <1>8, <1>9
    DEF AccountNext, accountVars, Serves, BeginLogin, BeginLogout, RevokeOne, BeginRedemption,
        Revalidate, TimePasses, Die

\* Only a redemption adds a completed reset: of the last token, which was not
\* spent before, and with every session revoked.
LEMMA ResetsKept ==
    ASSUME AccountConstants, Sound, [AccountNext]_accountVars
    PROVE  ResetsAreSpent' /\ ResetsTakeEffect'
<1>1. /\ trail \in Seq(Entry) /\ Len(trail) \in Nat /\ DOMAIN trail = 1 .. Len(trail)
      /\ tokens \in Seq({"live", "used", "revoked", "expired"}) /\ Len(tokens) \in Nat
      /\ DOMAIN tokens = 1 .. Len(tokens)
      /\ \A n \in DOMAIN trail : trail[n].token \in 0 .. Len(tokens)
      /\ ResetsAreSpent /\ ResetsTakeEffect
      /\ \A s \in DOMAIN sessions :
            sessions[s] \in [state : {"live", "revoked", "expired"}, since : 0 .. Len(trail)]
  BY DEF Sound, AccountTypeOK, RequestsAreKnown
\* Whatever adds no completed reset and brings no session back.
<1>2. ASSUME NEW what \in TrailKinds \ {"completed"}, NEW token \in Nat, Record(what, token),
             \A k \in DOMAIN tokens : k \in DOMAIN tokens' /\ (tokens[k] = "used" => tokens'[k] = "used"),
             \A s \in LiveSessions' : \/ s \in LiveSessions /\ sessions'[s].since = sessions[s].since
                              \/ sessions'[s].since = Len(trail) + 1
      PROVE  ResetsAreSpent' /\ ResetsTakeEffect'
  <2>1. Noted({"completed"})' = Noted({"completed"})
    <3>1. what \in TrailKinds /\ what \notin {"completed"}
      OBVIOUS
    <3>2. Noted({"completed"})'
          = Noted({"completed"}) \cup (IF what \in {"completed"} THEN {Len(trail) + 1} ELSE {})
      BY <1>1, <1>2, <3>1, NotedGrows
    <3> QED BY <3>1, <3>2
  <2>2. \A n \in DOMAIN trail : n \in DOMAIN trail' /\ trail'[n] = trail[n] /\ n <= Len(trail)
    BY <1>1, <1>2, TrailGrows
  <2>3. Noted({"completed"}) \subseteq DOMAIN trail
    BY DEF Noted
  <2>4. ResetsAreSpent'
    BY <1>1, <1>2, <2>1, <2>2, <2>3 DEF ResetsAreSpent
  <2>5. ASSUME NEW c \in Noted({"completed"})
        PROVE  /\ \A s \in LiveSessions' : c < sessions'[s].since
               /\ \A n \in 1 .. c - 1 :
                    trail'[n].what \in {"issued", "completed"} => trail'[n].token <= trail'[c].token
               /\ \A n \in Noted({"completed"}) : trail'[n].token = trail'[c].token => n = c
    <3>1. c \in DOMAIN trail /\ c <= Len(trail) /\ c \in Nat /\ \A n \in 1 .. c - 1 : n \in DOMAIN trail
      BY <1>1, <2>3
    <3>2. \A s \in LiveSessions' : c < sessions'[s].since
      BY <1>1, <1>2, <3>1 DEF ResetsTakeEffect
    <3> QED BY <1>1, <2>2, <2>3, <3>1, <3>2 DEF ResetsTakeEffect
  <2> QED BY <2>1, <2>4, <2>5 DEF ResetsTakeEffect
<1>3. ASSUME UNCHANGED trail,
             \A k \in DOMAIN tokens : k \in DOMAIN tokens' /\ (tokens[k] = "used" => tokens'[k] = "used"),
             \A s \in LiveSessions' : s \in LiveSessions /\ sessions'[s].since = sessions[s].since
      PROVE  ResetsAreSpent' /\ ResetsTakeEffect'
  BY <1>1, <1>3 DEF ResetsAreSpent, ResetsTakeEffect, Noted
<1>4. UNCHANGED sessions =>
        \A s \in LiveSessions' : s \in LiveSessions /\ sessions'[s].since = sessions[s].since
  BY DEF LiveSessions
<1>5. UNCHANGED tokens =>
        \A k \in DOMAIN tokens : k \in DOMAIN tokens' /\ (tokens[k] = "used" => tokens'[k] = "used")
  OBVIOUS
<1>6. CASE UNCHANGED <<trail, sessions, tokens>>
  BY <1>3, <1>4, <1>5, <1>6
<1>7. CASE IssueReset
  <2> DEFINE old == [k \in DOMAIN tokens |-> IF tokens[k] \in Unspent THEN "revoked" ELSE tokens[k]]
  <2>1. /\ old \in Seq({"live", "used", "revoked", "expired"}) /\ Len(old) = Len(tokens)
        /\ \A k \in 1 .. Len(tokens) : tokens[k] = "used" => old[k] = "used"
    BY <1>1 DEF Unspent
  <2> HIDE DEF old
  <2>2. tokens' = Append(old, "live")
    BY <1>7 DEF IssueReset, old
  <2>3. \A k \in DOMAIN tokens : k \in DOMAIN tokens' /\ (tokens[k] = "used" => tokens'[k] = "used")
    BY <1>1, <2>1, <2>2
  <2> QED BY <1>1, <1>2, <1>4, <1>7, <2>3 DEF IssueReset, TrailKinds
<1>8. CASE TimePasses
  <2>1. \A k \in DOMAIN tokens : k \in DOMAIN tokens' /\ (tokens[k] = "used" => tokens'[k] = "used")
    BY <1>1, <1>8 DEF TimePasses, UsableToken
  <2>2. \A s \in LiveSessions' : s \in LiveSessions /\ sessions'[s].since = sessions[s].since
    BY <1>1, <1>8 DEF TimePasses, LiveSessions
  <2> QED BY <1>3, <1>8, <2>1, <2>2 DEF TimePasses
<1>9. ASSUME NEW r \in Requests, Throttle(r) \/ FailLogin(r)
      PROVE  ResetsAreSpent' /\ ResetsTakeEffect'
  BY <1>2, <1>4, <1>5, <1>9 DEF Throttle, FailLogin, TrailKinds
<1>10. ASSUME NEW r \in Requests, OpenSession(r) PROVE ResetsAreSpent' /\ ResetsTakeEffect'
  <2>1. \A s \in LiveSessions' : \/ s \in LiveSessions /\ sessions'[s].since = sessions[s].since
                         \/ sessions'[s].since = Len(trail) + 1
    BY <1>10 DEF OpenSession, LiveSessions
  <2> QED BY <1>2, <1>5, <1>10, <2>1 DEF OpenSession, TrailKinds
<1>11. ASSUME NEW r \in Requests, SignOut(r) PROVE ResetsAreSpent' /\ ResetsTakeEffect'
  <2>1. \A s \in LiveSessions' : s \in LiveSessions /\ sessions'[s].since = sessions[s].since
    BY <1>1, <1>11 DEF SignOut, LiveSessions
  <2> QED BY <1>2, <1>5, <1>11, <2>1 DEF SignOut, TrailKinds
<1>12. ASSUME NEW r \in Requests, Redeem(r) PROVE ResetsAreSpent' /\ ResetsTakeEffect'
  <2> DEFINE k == work[r].token
             new == Len(trail) + 1
  <2>1. k \in DOMAIN tokens /\ tokens[k] \in Unspent /\ k = Len(tokens) /\ k \in Nat
    <3>1. r \in DOMAIN work /\ work[r].at = "redeem"
      BY <1>12 DEF Redeem, At
    <3> QED BY <3>1, <1>1 DEF Sound, RequestsAreKnown, Locks, At, OnlyTheLast
  <2>2. tokens' = [tokens EXCEPT ![k] = "used"] /\ Record("completed", k)
    BY <1>12 DEF Redeem
  <2>3. \A s \in LiveSessions' : FALSE
    BY <1>1, <1>12 DEF Redeem, LiveSessions
  <2>4. Noted({"completed"})' = Noted({"completed"}) \cup {new}
    BY <1>1, <2>1, <2>2, NotedGrows DEF TrailKinds
  <2>5. /\ trail'[new].token = k
        /\ \A n \in DOMAIN trail : trail'[n] = trail[n] /\ n < new
    BY <1>1, <2>1, <2>2, TrailGrows DEF TrailKinds
  <2>6. \A n \in Noted({"completed"}) : n \in DOMAIN trail /\ trail[n].token # k
        /\ trail[n].token \in DOMAIN tokens /\ tokens[trail[n].token] = "used"
    BY <1>1, <2>1 DEF ResetsAreSpent, Noted, Unspent
  <2> HIDE DEF k, new
  <2>7. ResetsAreSpent'
    BY <1>1, <2>1, <2>2, <2>4, <2>5, <2>6 DEF ResetsAreSpent
  <2>8. ASSUME NEW c \in Noted({"completed"})'
        PROVE  /\ \A n \in 1 .. c - 1 :
                    trail'[n].what \in {"issued", "completed"} => trail'[n].token <= trail'[c].token
               /\ \A n \in Noted({"completed"})' : trail'[n].token = trail'[c].token => n = c
    <3>1. CASE c = new
      BY <1>1, <2>1, <2>4, <2>5, <2>6, <3>1 DEF new
    <3>2. CASE c \in Noted({"completed"})
      <4>1. c \in DOMAIN trail /\ \A n \in 1 .. c - 1 : n \in DOMAIN trail
        BY <1>1, <2>6, <3>2
      <4> QED BY <1>1, <2>4, <2>5, <2>6, <3>2, <4>1 DEF ResetsTakeEffect
    <3> QED BY <2>4, <2>8, <3>1, <3>2
  <2> QED BY <2>3, <2>7, <2>8 DEF ResetsTakeEffect
<1> QED BY <1>6, <1>7, <1>8, <1>9, <1>10, <1>11, <1>12
    DEF AccountNext, accountVars, Serves, BeginLogin, BeginLogout, RevokeOne, BeginRedemption,
        Revalidate, Die

-----------------------------------------------------------------------------

LEMMA AccountInitSound == AccountConstants /\ AccountInit => Sound
<1> SUFFICES ASSUME AccountConstants, AccountInit PROVE Sound
  OBVIOUS
<1>1. /\ trail = << >> /\ tokens = << >> /\ work = << >> /\ userLock = Nobody
      /\ sessionLock = [s \in SessionIds |-> Nobody]
      /\ sessions = [s \in {0} |-> [state |-> "live", since |-> 0]]
      /\ user.failures = 0
  BY DEF AccountInit
<1>2. Noted({"completed"}) = {} /\ Recent = {}
  BY <1>1 DEF Noted, Recent
<1>3. AccountTypeOK
  <2>1. DOMAIN work = 1 .. 0 /\ 0 \in 0 .. MaxRequests
    BY <1>1 DEF AccountConstants
  <2>2. user \in [password : Passwords, weak : BOOLEAN, failures : Nat]
    BY DEF AccountInit
  <2>3. 0 \in SessionIds /\ 0 \in 0 .. Len(trail)
    BY <1>1 DEF SessionIds, AccountConstants
  <2> QED BY <1>1, <2>1, <2>2, <2>3 DEF AccountTypeOK
<1>4. FailuresAreCounted
  BY <1>1, <1>2, CountedIsRecent, FS_EmptySet
<1>5. RequestsAreKnown /\ OnlyTheLast
  BY <1>1 DEF RequestsAreKnown, OnlyTheLast
<1>6. Locks
  BY <1>1 DEF Locks, At, Requests, Nobody
<1>7. ResetsAreSpent /\ ResetsTakeEffect
  BY <1>2 DEF ResetsAreSpent, ResetsTakeEffect
<1> QED BY <1>3, <1>4, <1>5, <1>6, <1>7 DEF Sound

LEMMA NextSound ==
    ASSUME AccountConstants, Sound, [AccountNext]_accountVars
    PROVE  Sound'
BY TypesKept, LocksKept, TheLastKept, FailuresKept, ResetsKept DEF Sound

\* Of an answered request no lock is left, and one token can be redeemed.
LEMMA SoundIsSound ==
    ASSUME AccountConstants, Sound
    PROVE  AccountsStaySound
<1>1. ASSUME NEW i \in DOMAIN tokens, NEW k \in DOMAIN tokens, {tokens[i], tokens[k]} \subseteq Unspent
      PROVE  i = k
  BY <1>1 DEF Sound, OnlyTheLast
<1>2. ASSUME NEW r \in DOMAIN work, work[r] = Answered
      PROVE  userLock # r /\ \A s \in SessionIds : sessionLock[s] # r
  <2>1. work[r].at = "answered" /\ r \in Requests
    BY <1>2 DEF Answered, Sound, AccountTypeOK, Requests, AccountConstants
  <2> QED BY <2>1 DEF Sound, Locks, At
<1> QED BY <1>1, <1>2 DEF AccountsStaySound, OneResetAtATime, Sound

(* The throttling count is the number of failures since the last success or  *)
(* reset; a completed reset ends every session that was open and every       *)
(* other token, and is completed once; no answered request holds a lock.     *)
THEOREM AccountsAreKept ==
    ASSUME AccountConstants
    PROVE  AccountSpec => []AccountsStaySound
<1>1. Sound /\ [AccountNext]_accountVars => Sound'
  BY NextSound
<1>2. Sound => AccountsStaySound
  BY SoundIsSound
<1>3. AccountInit => Sound
  BY AccountInitSound
<1> QED BY <1>1, <1>2, <1>3, PTL DEF AccountSpec

=============================================================================
