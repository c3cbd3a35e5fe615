----------------------------- MODULE PlatformDesk -----------------------------
(***************************************************************************)
(* A business joins the platform: its lifecycle, the invitations that admit *)
(* its members, the acceptances that take two transactions, and the page of *)
(* a platform administrator, beside members and other administrators who    *)
(* invite and revoke too. All pending invitations fit one page of the list. *)
(***************************************************************************)
EXTENDS Query, Sequences, FiniteSets, Functions

CONSTANTS
    Emails,             \* the people that may be invited
    InvitedRoles,       \* the roles offered to them
    Guests,             \* browsers that accept as somebody new
    MaxInvitations,     \* bound: the invitations ever issued
    MaxPlatformEvents   \* bound: what others do, time, faults

Roles == {"owner", "manager", "staff"}

PlatformConstants ==
    InvitedRoles \subseteq Roles /\ MaxInvitations \in Nat \ {0} /\ MaxPlatformEvents \in Nat

VARIABLES
    status,         \* the lifecycle of the business
    invitations,    \* by their age; an ID is a place in it
    accounts,       \* the people who can sign in
    members,        \* the roles in this business
    guests,         \* the acceptances under way
    detail, listed, \* the queries for the business and its pending invitations
    question,       \* the confirmation on screen
    change,         \* the confirmed command under way
    issuing,        \* the issue under way
    issued,         \* the invitation whose token is on screen
    platformEvents  \* how much of the bound was used

platformServerVars == <<status, invitations, accounts, members, guests>>
platformPageVars == <<detail, listed, question, change, issuing, issued>>
platformVars == <<platformServerVars, platformPageVars, platformEvents>>

-----------------------------------------------------------------------------
(* The server: every command holds the lock of the business.               *)

Administrator == "platform"    \* bypasses the ranks
Rank == [platform |-> 4, owner |-> 3, manager |-> 2, staff |-> 1]
Inviters == {Administrator} \cup (Range(members) \cap {"owner", "manager"})
MayManage(by, role) == Rank[by] >= Rank[role]

\* Whether an invitation is fresh is read on the clock of a transaction, which
\* stands still from its start; of an accepted one, on that of its acceptance.
Joinables == {"provisioning", "active"}
IsLive(i) == ~invitations[i].accepted /\ ~invitations[i].revoked
Live == {i \in DOMAIN invitations : IsLive(i)}
LiveFor(e) == {i \in Live : invitations[i].email = e}
Redeemable(i) == i \in Live /\ invitations[i].fresh /\ status \in Joinables

Invitation(e, r) ==
    [email |-> e, role |-> r, accepted |-> FALSE, revoked |-> FALSE, fresh |-> TRUE]

MayIssue(e, r, by) ==
    /\ by \in Inviters /\ MayManage(by, r)
    /\ status \in Joinables /\ e \notin DOMAIN members
    /\ \A i \in LiveFor(e) : MayManage(by, invitations[i].role)

\* A new invitation replaces the live one of the same person.
AfterIssue(e, r) ==
    Append([i \in DOMAIN invitations |-> IF i \in LiveFor(e)
                                         THEN [invitations[i] EXCEPT !.revoked = TRUE]
                                         ELSE invitations[i]],
           Invitation(e, r))

MayRevoke(i, by) == i \in Live /\ by \in Inviters /\ MayManage(by, invitations[i].role)

From == [activate |-> "provisioning", suspend |-> "active",
         reactivate |-> "suspended", close |-> "suspended"]
To == [activate |-> "active", suspend |-> "suspended",
       reactivate |-> "active", close |-> "closed"]
HasOwner == "owner" \in Range(members)
MayTransit(action) == status = From[action] /\ (To[action] = "active" => HasOwner)

Admit(i, inTime) ==
    /\ members' = [e \in DOMAIN members \cup {invitations[i].email} |->
                    IF e = invitations[i].email THEN invitations[i].role ELSE members[e]]
    /\ invitations' = [invitations EXCEPT ![i].accepted = TRUE, ![i].fresh = inTime]

\* An acceptance: of a new person, who waits for the hash and then for the lock
\* of the business (too late, when the invitation had expired as that began),
\* or of somebody with an account, in one transaction.
NotAccepting == [of |-> 0, phase |-> "none"]

IsFree(e, phase) == IF phase = "existing" THEN e \in accounts \ DOMAIN members ELSE e \notin accounts

\* Mutant: what was checked before the hash is not checked again.
StoodOnce(a) == IsFree(invitations[a.of].email, a.phase)

StillStands(a) ==
    /\ a.of \in Live /\ a.phase # "late" /\ status \in Joinables
    /\ IsFree(invitations[a.of].email, a.phase)

Happened == platformEvents < MaxPlatformEvents /\ platformEvents' = platformEvents + 1

BeginAccept(g) ==
    /\ guests[g] = NotAccepting
    /\ \E i \in Live :
        /\ Redeemable(i)
        /\ guests' = [guests EXCEPT ![g] =
                        [of |-> i,
                         phase |-> IF invitations[i].email \in accounts THEN "existing" ELSE "hashing"]]
    /\ UNCHANGED <<status, invitations, accounts, members, platformPageVars, platformEvents>>

\* The hash is there: the second transaction starts, and asks for the lock.
LockAccept(g) ==
    /\ guests[g].phase = "hashing"
    /\ guests' = [guests EXCEPT ![g].phase = IF invitations[guests[g].of].fresh THEN "new" ELSE "late"]
    /\ UNCHANGED <<status, invitations, accounts, members, platformPageVars, platformEvents>>

FinishAccept(g) ==
    /\ guests[g].phase \in {"new", "late", "existing"} /\ guests' = [guests EXCEPT ![g] = NotAccepting]
    /\ IF StillStands(guests[g])
       THEN /\ Admit(guests[g].of, guests[g].phase # "late")
            /\ accounts' = accounts \cup {invitations[guests[g].of].email}
       ELSE UNCHANGED <<invitations, accounts, members>>
    /\ UNCHANGED <<status, platformPageVars, platformEvents>>

CrashAccept(g) ==
    /\ guests[g] # NotAccepting /\ guests' = [guests EXCEPT ![g] = NotAccepting] /\ Happened
    /\ UNCHANGED <<status, invitations, accounts, members, platformPageVars>>

AcceptExisting ==
    /\ \E i \in Live :
        /\ Redeemable(i) /\ invitations[i].email \in accounts \ DOMAIN members
        /\ Admit(i, invitations[i].fresh)
    /\ UNCHANGED <<status, accounts, guests, platformPageVars, platformEvents>>

(* Elsewhere: members and other administrators, other businesses, time.    *)
IssueElsewhere ==
    /\ Len(invitations) < MaxInvitations /\ Happened
    /\ \E e \in Emails, r \in InvitedRoles, by \in Inviters :
        MayIssue(e, r, by) /\ invitations' = AfterIssue(e, r)
    /\ UNCHANGED <<status, accounts, members, guests, platformPageVars>>

RevokeElsewhere ==
    /\ Happened
    /\ \E i \in Live, by \in Inviters :
        MayRevoke(i, by) /\ invitations' = [invitations EXCEPT ![i].revoked = TRUE]
    /\ UNCHANGED <<status, accounts, members, guests, platformPageVars>>

ExpireInvitation ==
    /\ Happened
    /\ \E i \in Live : invitations[i].fresh /\ invitations' = [invitations EXCEPT ![i].fresh = FALSE]
    /\ UNCHANGED <<status, accounts, members, guests, platformPageVars>>

RegisterElsewhere ==
    /\ Happened /\ \E e \in Emails \ accounts : accounts' = accounts \cup {e}
    /\ UNCHANGED <<status, invitations, members, guests, platformPageVars>>

TransitElsewhere ==
    /\ Happened /\ \E action \in DOMAIN From : MayTransit(action) /\ status' = To[action]
    /\ UNCHANGED <<invitations, accounts, members, guests, platformPageVars>>

-----------------------------------------------------------------------------
(* The page of the business.                                               *)

NoQuestion == [kind |-> "none"]
NoCommand == [phase |-> "none"]
NoToken == 0

Shown == Usable(detail)
Offered == {action \in DOMAIN From : From[action] = detail.data}
CanIssue == Shown /\ detail.data \in Joinables

PlatformInit ==
    /\ accounts \in {{}} \cup {{e} : e \in Emails}
    /\ \/ status = "provisioning" /\ invitations = <<>> /\ members = <<>>
       \/ /\ status = "active"
          /\ members = [e \in accounts |-> "owner"] /\ accounts # {}
          /\ \E e \in accounts : invitations = <<[Invitation(e, "owner") EXCEPT !.accepted = TRUE]>>
    /\ guests = [g \in Guests |-> NotAccepting]
    /\ detail = Fetch(NotAsked, status) /\ listed = NotAsked
    /\ question = NoQuestion /\ change = NoCommand /\ issuing = NoCommand /\ issued = NoToken
    /\ platformEvents \in 0 .. MaxPlatformEvents

\* The panel of invitations comes with the business.
LandDetail ==
    /\ UnderWay(detail)
    /\ \E s \in Answers(detail, status) : detail' = Land(detail, s)
    /\ listed' = IF Shown THEN listed ELSE Fetch(listed, Live)
    /\ UNCHANGED <<platformServerVars, question, change, issuing, issued, platformEvents>>

LandList ==
    /\ UnderWay(listed)
    /\ \E is \in Answers(listed, Live) : listed' = Land(listed, is)
    /\ UNCHANGED <<platformServerVars, detail, question, change, issuing, issued, platformEvents>>

Disowned(command) == IF command = NoCommand THEN command ELSE [command EXCEPT !.own = FALSE]

\* An error takes the whole page, and with the panel its token and dialog.
FailDetail ==
    /\ UnderWay(detail) /\ Happened
    /\ detail' = Fail(detail) /\ issued' = NoToken /\ issuing' = Disowned(issuing)
    /\ IF question.kind = "revoke"
       THEN question' = NoQuestion /\ change' = Disowned(change)
       ELSE UNCHANGED <<question, change>>
    /\ UNCHANGED <<platformServerVars, listed>>

FailList ==
    /\ UnderWay(listed) /\ Happened /\ listed' = Fail(listed)
    /\ UNCHANGED <<platformServerVars, detail, question, change, issuing, issued>>

TryAgain ==
    /\ \/ detail.failed /\ ~UnderWay(detail) /\ detail' = Fetch(detail, status) /\ UNCHANGED listed
       \/ Shown /\ listed.failed /\ ~UnderWay(listed) /\ listed' = Fetch(listed, Live)
          /\ UNCHANGED detail
    /\ UNCHANGED <<platformServerVars, question, change, issuing, issued, platformEvents>>

Reconnect ==
    /\ Happened /\ detail' = Fetch(detail, status)
    /\ listed' = IF Shown THEN Fetch(listed, Live) ELSE listed
    /\ UNCHANGED <<platformServerVars, question, change, issuing, issued>>

\* A dialog keeps what it was opened for, whatever is known by then.
OpenDialog ==
    /\ Shown /\ question = NoQuestion
    /\ \/ \E action \in Offered : question' = [kind |-> "transition", what |-> action]
       \/ Usable(listed) /\ \E i \in listed.data : question' = [kind |-> "revoke", what |-> i]
    /\ UNCHANGED <<platformServerVars, detail, listed, change, issuing, issued, platformEvents>>

CancelDialog ==
    /\ Shown /\ question # NoQuestion /\ change = NoCommand /\ question' = NoQuestion
    /\ UNCHANGED <<platformServerVars, detail, listed, change, issuing, issued, platformEvents>>

ConfirmDialog ==
    /\ Shown /\ question # NoQuestion /\ change = NoCommand
    /\ change' = [phase |-> "sent", asked |-> question, own |-> TRUE]
    /\ UNCHANGED <<platformServerVars, detail, listed, question, issuing, issued, platformEvents>>

SubmitIssue ==
    /\ CanIssue /\ question = NoQuestion /\ issuing = NoCommand
    /\ \E e \in Emails, r \in InvitedRoles :
        issuing' = [phase |-> "sent", email |-> e, role |-> r, own |-> TRUE]
    /\ issued' = NoToken
    /\ UNCHANGED <<platformServerVars, detail, listed, question, change, platformEvents>>

DismissToken ==
    /\ issued # NoToken /\ question = NoQuestion /\ issued' = NoToken
    /\ UNCHANGED <<platformServerVars, detail, listed, question, change, issuing, platformEvents>>

Answer(command, result) == [phase |-> "answered", asked |-> command.asked, result |-> result,
                            own |-> command.own]
Refused == "refused"

RunChange ==
    /\ change.phase = "sent"
    /\ IF change.asked.kind = "transition"
       THEN /\ status' = IF MayTransit(change.asked.what) THEN To[change.asked.what] ELSE status
            /\ change' = Answer(change, IF status' # status THEN status' ELSE Refused)
            /\ UNCHANGED invitations
       ELSE LET revoked == MayRevoke(change.asked.what, Administrator)
            IN /\ invitations' = IF revoked
                                 THEN [invitations EXCEPT ![change.asked.what].revoked = TRUE]
                                 ELSE invitations
               /\ change' = Answer(change, IF revoked THEN "revoked" ELSE Refused)
               /\ UNCHANGED status
    /\ UNCHANGED <<accounts, members, guests, detail, listed, question, issuing, issued, platformEvents>>

RunIssue ==
    /\ issuing.phase = "sent" /\ Len(invitations) < MaxInvitations
    /\ LET may == MayIssue(issuing.email, issuing.role, Administrator)
       IN /\ invitations' = IF may THEN AfterIssue(issuing.email, issuing.role) ELSE invitations
          /\ issuing' = [phase |-> "answered", own |-> issuing.own,
                         token |-> IF may THEN Len(invitations) + 1 ELSE NoToken]
    /\ UNCHANGED <<status, accounts, members, guests, detail, listed, question, change, issued, platformEvents>>

\* The command is lost before the server has it, or its answer after.
LoseChange ==
    /\ change.phase # "none" /\ Happened
    /\ change' = [phase |-> "answered", asked |-> change.asked, result |-> Refused, own |-> change.own]
    /\ UNCHANGED <<platformServerVars, detail, listed, question, issuing, issued>>

LoseIssue ==
    /\ issuing.phase # "none" /\ Happened
    /\ issuing' = [phase |-> "answered", own |-> issuing.own, token |-> NoToken]
    /\ UNCHANGED <<platformServerVars, detail, listed, question, change, issued>>

\* The answer of a transition is the business; a revocation reads the list.
SettleChange ==
    /\ change.phase = "answered" /\ change' = NoCommand
    /\ question' = IF change.own THEN NoQuestion ELSE question
    /\ detail' = IF change.asked.kind = "transition" /\ change.result # Refused
                 THEN Write(detail, change.result) ELSE detail
    /\ listed' = IF change.asked.kind = "revoke" /\ change.result # Refused /\ Shown
                 THEN Refetch(listed, Live) ELSE listed
    /\ UNCHANGED <<platformServerVars, issuing, issued, platformEvents>>

SettleIssue ==
    /\ issuing.phase = "answered" /\ issuing' = NoCommand
    /\ issued' = IF issuing.own THEN issuing.token ELSE issued
    /\ listed' = IF issuing.token # NoToken /\ Shown THEN Refetch(listed, Live) ELSE listed
    /\ UNCHANGED <<platformServerVars, detail, question, change, platformEvents>>

Elsewhere ==
    \/ AcceptExisting \/ IssueElsewhere \/ RevokeElsewhere \/ ExpireInvitation
    \/ RegisterElsewhere \/ TransitElsewhere

OnboardingNext ==
    \/ \E g \in Guests : BeginAccept(g) \/ LockAccept(g) \/ FinishAccept(g) \/ CrashAccept(g)
    \/ Elsewhere

PlatformNext ==
    \/ Elsewhere
    \/ LandDetail \/ LandList \/ FailDetail \/ FailList \/ TryAgain \/ Reconnect
    \/ OpenDialog \/ CancelDialog \/ ConfirmDialog \/ SubmitIssue \/ DismissToken
    \/ RunChange \/ RunIssue \/ LoseChange \/ LoseIssue \/ SettleChange \/ SettleIssue

PlatformSpec == PlatformInit /\ [][PlatformNext \/ OnboardingNext]_platformVars

-----------------------------------------------------------------------------

PlatformTypeOK ==
    /\ status \in {"provisioning", "active", "suspended", "closed"}
    /\ Len(invitations) <= MaxInvitations
    /\ \A i \in DOMAIN invitations :
        invitations[i] \in [email : Emails, role : Roles, accepted : BOOLEAN, revoked : BOOLEAN,
                            fresh : BOOLEAN]
    /\ accounts \subseteq Emails /\ DOMAIN members \subseteq Emails /\ Range(members) \subseteq Roles
    /\ \A g \in DOMAIN guests :
        /\ guests[g].of \in 0 .. Len(invitations)
        /\ guests[g].phase \in {"none", "hashing", "new", "late", "existing"}
    /\ detail \in Queries({"provisioning", "active", "suspended", "closed"})
    /\ listed \in Queries(SUBSET DOMAIN invitations)
    /\ question.kind \in {"none", "transition", "revoke"}
    /\ change.phase \in {"none", "sent", "answered"} /\ issuing.phase \in {"none", "sent", "answered"}
    /\ issued \in 0 .. Len(invitations)

(* However acceptances, reissues, revocations and expiries interleave, a     *)
(* person has at most one live invitation and a member none; an invitation   *)
(* that was revoked, or had expired when the admitting transaction began,    *)
(* admitted nobody; every member was admitted by one invitation, with its    *)
(* role; and a business is not active without an owner.                      *)
InvitationsStaySound ==
    LET Accepted(e) == {i \in DOMAIN invitations : invitations[i].accepted /\ invitations[i].email = e}
    IN /\ \A i \in DOMAIN invitations :
            invitations[i].accepted => ~invitations[i].revoked /\ invitations[i].fresh
       /\ \A e \in Emails : Cardinality(LiveFor(e)) <= 1
       /\ \A e \in DOMAIN members :
            /\ e \in accounts /\ LiveFor(e) = {}
            /\ \E i \in Accepted(e) : Accepted(e) = {i} /\ members[e] = invitations[i].role
       /\ status = "active" => HasOwner

=============================================================================
