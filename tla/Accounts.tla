-------------------------------- MODULE Accounts --------------------------------
(***************************************************************************)
(* One account on the server: its password and failure count, its sessions  *)
(* and its reset tokens, under logins, sign-outs, issuances and redemptions *)
(* that run side by side. Passwords are hashed between transactions, so a   *)
(* login and a redemption act on what they read before it. The audit trail  *)
(* is the account's own part of it. Accounts are never deactivated.         *)
(***************************************************************************)
EXTENDS Naturals, Sequences, FiniteSets

CONSTANTS
    Passwords,      \* what people type
    Threshold,      \* failures from which on logins are throttled for a while
    MaxRequests,    \* bound: logins, sign-outs and redemptions
    MaxTokens       \* bound: reset tokens

Requests == 1 .. MaxRequests
Nobody == 0
AccountConstants ==
    Threshold \in Nat \ {0} /\ MaxRequests \in Nat /\ MaxTokens \in Nat

VARIABLES
    user,           \* the row of the account
    sessions,       \* the rows of its sessions, by the login that opened them
    tokens,         \* the reset tokens, the oldest first
    work,           \* the requests under way or answered
    userLock,       \* the redemption that holds the account FOR UPDATE
    sessionLock,    \* the sign-out that holds a session, by session
    trail           \* the audit rows

accountVars == <<user, sessions, tokens, work, userLock, sessionLock, trail>>

-----------------------------------------------------------------------------

SessionIds == 0 .. MaxRequests      \* 0 was there before
Answered == [at |-> "answered"]
Kept(what, token) == [what |-> what, token |-> token]
Record(what, token) == trail' = Append(trail, Kept(what, token))

\* Requests arrive in the order of their numbers.
Arrives(r) == DOMAIN work = 1 .. r - 1
At(r, stage) == r \in DOMAIN work /\ work[r].at = stage
Stays(r, stage) == work' = [work EXCEPT ![r].at = stage]
Ends(r) == work' = [work EXCEPT ![r] = Answered]
Begins(r, request) == work' = [q \in 1 .. r |-> IF q = r THEN request ELSE work[q]]

\* The row of the account can be written or referenced.
UserIsFree == userLock = Nobody

LiveSessions == {s \in DOMAIN sessions : sessions[s].state = "live"}
UsableToken(k) == tokens[k] = "live"
Unspent == {"live", "expired"}

AccountInit ==
    /\ \E p \in Passwords, weak \in BOOLEAN : user = [password |-> p, weak |-> weak, failures |-> 0]
    /\ sessions = [s \in {0} |-> [state |-> "live", since |-> 0]]
    /\ tokens = << >> /\ work = << >> /\ trail = << >>
    /\ userLock = Nobody /\ sessionLock = [s \in SessionIds |-> Nobody]

(* Logins: the row is read, the transaction closed, the password verified.   *)
BeginLogin(r) ==
    /\ Arrives(r)
    /\ \E p \in Passwords : Begins(r, [at |-> "verify", typed |-> p, saw |-> user])
    /\ UNCHANGED <<user, sessions, tokens, userLock, sessionLock, trail>>

\* Whether the backoff is over when a throttled account is asked is left open.
Throttle(r) ==
    /\ At(r, "verify") /\ work[r].saw.failures >= Threshold
    /\ UserIsFree
    /\ Record("throttled", 0) /\ Ends(r)
    /\ UNCHANGED <<user, sessions, tokens, userLock, sessionLock>>

\* Mutant: the count is read before the password is verified and written after.
CountAsSeen(r) ==
    /\ At(r, "verify") /\ work[r].typed # work[r].saw.password
    /\ UserIsFree
    /\ user' = [user EXCEPT !.failures = work[r].saw.failures + 1]
    /\ Record("failed", 0) /\ Ends(r)
    /\ UNCHANGED <<sessions, tokens, userLock, sessionLock>>

FailLogin(r) ==
    /\ At(r, "verify") /\ work[r].typed # work[r].saw.password
    /\ UserIsFree
    /\ user' = [user EXCEPT !.failures = @ + 1]
    /\ Record("failed", 0) /\ Ends(r)
    /\ UNCHANGED <<sessions, tokens, userLock, sessionLock>>

\* A hash of outdated parameters is replaced by one of the password that was
\* typed. The dead sessions of the account go, once no sign-out holds one.
OpenSession(r) ==
    /\ At(r, "verify") /\ work[r].typed = work[r].saw.password
    /\ UserIsFree /\ \A s \in DOMAIN sessions \ LiveSessions : sessionLock[s] = Nobody
    /\ user' = IF work[r].saw.weak
               THEN [password |-> work[r].typed, weak |-> FALSE, failures |-> 0]
               ELSE [user EXCEPT !.failures = 0]
    /\ sessions' = [s \in LiveSessions \cup {r} |-> IF s = r THEN [state |-> "live", since |-> Len(trail) + 1]
                                            ELSE sessions[s]]
    /\ Record("succeeded", 0) /\ Ends(r)
    /\ UNCHANGED <<tokens, userLock, sessionLock>>

(* Signing out: the session is resolved, revoked, and the audit row refers to *)
(* the account.                                                               *)
BeginLogout(r) ==
    /\ Arrives(r)
    /\ \E s \in LiveSessions : Begins(r, [at |-> "revoke", session |-> s])
    /\ UNCHANGED <<user, sessions, tokens, userLock, sessionLock, trail>>

\* The row may have been revoked since, by a redemption or by another tab, and
\* then none is locked.
RevokeOne(r) ==
    /\ At(r, "revoke")
    /\ LET s == work[r].session IN
        /\ sessionLock[s] = Nobody
        /\ sessionLock' = IF s \in DOMAIN sessions /\ sessions[s].state # "revoked"
                          THEN [sessionLock EXCEPT ![s] = r] ELSE sessionLock
    /\ Stays(r, "signout")
    /\ UNCHANGED <<user, sessions, tokens, userLock, trail>>

SignOut(r) ==
    /\ At(r, "signout") /\ UserIsFree
    /\ LET s == work[r].session IN
        /\ sessions' = IF sessionLock[s] = r THEN [sessions EXCEPT ![s].state = "revoked"] ELSE sessions
        /\ sessionLock' = IF sessionLock[s] = r THEN [sessionLock EXCEPT ![s] = Nobody] ELSE sessionLock
    /\ Record("signedOut", 0) /\ Ends(r)
    /\ UNCHANGED <<user, tokens, userLock>>

(* Recovery. *)
IssueReset ==
    /\ Len(tokens) < MaxTokens /\ UserIsFree
    /\ tokens' = Append([k \in DOMAIN tokens |-> IF tokens[k] \in Unspent THEN "revoked" ELSE tokens[k]],
                        "live")
    /\ Record("issued", Len(tokens) + 1)
    /\ UNCHANGED <<user, sessions, work, userLock, sessionLock>>

BeginRedemption(r) ==
    /\ Arrives(r)
    /\ \E k \in DOMAIN tokens, p \in Passwords :
        UsableToken(k) /\ Begins(r, [at |-> "hash", token |-> k, typed |-> p])
    /\ UNCHANGED <<user, sessions, tokens, userLock, sessionLock, trail>>

\* Mutant: the token is not looked at again behind the lock.
LockOnly(r) ==
    /\ At(r, "hash") /\ UserIsFree
    /\ userLock' = r /\ Stays(r, "redeem")
    /\ UNCHANGED <<user, sessions, tokens, sessionLock, trail>>

Revalidate(r) ==
    /\ At(r, "hash") /\ UserIsFree
    /\ IF UsableToken(work[r].token) THEN userLock' = r /\ Stays(r, "redeem")
       ELSE userLock' = userLock /\ Ends(r)
    /\ UNCHANGED <<user, sessions, tokens, sessionLock, trail>>

\* Revoking the sessions waits for a sign-out that holds one of them.
Redeem(r) ==
    /\ At(r, "redeem") /\ \A s \in SessionIds : sessionLock[s] = Nobody
    /\ user' = [password |-> work[r].typed, weak |-> FALSE, failures |-> 0]
    /\ sessions' = [s \in DOMAIN sessions |-> [sessions[s] EXCEPT !.state = "revoked"]]
    /\ tokens' = [tokens EXCEPT ![work[r].token] = "used"]
    /\ userLock' = Nobody
    /\ Record("completed", work[r].token) /\ Ends(r)
    /\ UNCHANGED sessionLock

\* A worker dies, or its transaction is the victim of a deadlock: a sign-out
\* and a redemption take the account and the session in opposite orders.
Die(r) ==
    /\ r \in DOMAIN work /\ work[r] # Answered
    /\ Ends(r)
    /\ userLock' = IF userLock = r THEN Nobody ELSE userLock
    /\ sessionLock' = [s \in SessionIds |-> IF sessionLock[s] = r THEN Nobody ELSE sessionLock[s]]
    /\ UNCHANGED <<user, sessions, tokens, trail>>

TimePasses ==
    /\ \/ \E s \in LiveSessions : sessions' = [sessions EXCEPT ![s].state = "expired"] /\ tokens' = tokens
       \/ \E k \in DOMAIN tokens : UsableToken(k) /\ tokens' = [tokens EXCEPT ![k] = "expired"] /\ sessions' = sessions
    /\ UNCHANGED <<user, work, userLock, sessionLock, trail>>

Serves(r) ==
    \/ BeginLogin(r) \/ Throttle(r) \/ FailLogin(r) \/ OpenSession(r)
    \/ BeginLogout(r) \/ RevokeOne(r) \/ SignOut(r)
    \/ BeginRedemption(r) \/ Revalidate(r) \/ Redeem(r) \/ Die(r)

AccountNext == IssueReset \/ TimePasses \/ \E r \in Requests : Serves(r)
AccountSpec == AccountInit /\ [][AccountNext]_accountVars

-----------------------------------------------------------------------------

AccountTypeOK ==
    /\ user \in [password : Passwords, weak : BOOLEAN, failures : Nat]
    /\ DOMAIN sessions \subseteq SessionIds
    /\ \A s \in DOMAIN sessions :
        sessions[s] \in [state : {"live", "revoked", "expired"}, since : 0 .. Len(trail)]
    /\ tokens \in Seq({"live", "used", "revoked", "expired"})
    /\ DOMAIN work \in {1 .. n : n \in 0 .. MaxRequests}
    /\ userLock \in Requests \cup {Nobody}
    /\ sessionLock \in [SessionIds -> Requests \cup {Nobody}]
    /\ \A n \in DOMAIN trail : trail[n].token \in 0 .. Len(tokens)

(* What the trail says last happened, up to now, of some kinds.              *)
Noted(kinds) == {n \in DOMAIN trail : trail[n].what \in kinds}

(* The count that throttles logins is the number of failures since the last  *)
(* success or completed reset, whatever the logins that failed at the same   *)
(* time had read (_fail_login's increment).                                  *)
FailuresAreCounted ==
    LET clean == Noted({"succeeded", "completed"})
    IN  user.failures = Cardinality({n \in Noted({"failed"}) : \A c \in clean : c < n})

(* A session that is honoured was opened after the last completed reset, and *)
(* a reset is completed once, by the token that was issued last (redeem_reset *)
(* and issue_reset).                                                          *)
ResetsTakeEffect ==
    \A c \in Noted({"completed"}) :
        /\ \A s \in LiveSessions : c < sessions[s].since
        /\ \A n \in 1 .. c - 1 :
            trail[n].what \in {"issued", "completed"} => trail[n].token <= trail[c].token
        /\ \A n \in Noted({"completed"}) : trail[n].token = trail[c].token => n = c

(* At most one token of the account can be redeemed, and no request holds a  *)
(* lock after its answer.                                                     *)
OneResetAtATime ==
    /\ \A i, k \in DOMAIN tokens : {tokens[i], tokens[k]} \subseteq Unspent => i = k
    /\ \A r \in DOMAIN work : work[r] = Answered => userLock # r /\ \A s \in SessionIds : sessionLock[s] # r

AccountsStaySound == FailuresAreCounted /\ ResetsTakeEffect /\ OneResetAtATime

=============================================================================
