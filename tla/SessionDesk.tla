------------------------------ MODULE SessionDesk ------------------------------
(***************************************************************************)
(* One tab of the control center as its visitor signs in, accepts an        *)
(* invitation, resets the password and signs out: the sessions on the       *)
(* server, the cached session every page reads, and the requests that may   *)
(* be answered after what they asked about is over. One person, whose       *)
(* invitation is to one business.                                           *)
(***************************************************************************)
EXTENDS Query

CONSTANTS
    MaxSessions,        \* bound: the sessions ever opened
    MaxSessionEvents    \* bound: what happens elsewhere, requests that fail

SessionConstants == MaxSessions \in Nat \ {0} /\ MaxSessionEvents \in Nat

VARIABLES
    alive,          \* the sessions the server honours
    lastSession,    \* the newest session
    account,        \* the person has an account
    joined,         \* and a membership in the business
    offer,          \* the invitation can be used
    cookie,         \* the session the browser presents
    session,        \* the cached session
    told,           \* sessions that were over when the tab dropped its state
    route,          \* the page
    intended,       \* the page to land on after signing in
    signIn,         \* the login page
    attempts,       \* establishments of a session under way, by their page
    errand,         \* a privileged request, or one with a token, under way
    flow,           \* how far the acceptance page is
    sessionEvents   \* how much of the bound was used

sessionServerVars == <<alive, lastSession, account, joined, offer>>
sessionVars == <<sessionServerVars, cookie, session, told, route, intended, signIn, attempts,
                 errand, flow, sessionEvents>>

-----------------------------------------------------------------------------

Anonymous == [id |-> 0, member |-> FALSE]
SessionStates == {Anonymous} \cup [id : 1 .. MaxSessions, member : BOOLEAN]

\* What GET /auth/session answers; that nobody is signed in is an answer.
SessionOf(c) == IF c \in alive THEN [id |-> c, member |-> joined] ELSE Anonymous
SessionNow == SessionOf(cookie)

Known == Usable(session)
SignedIn == Known /\ session.data # Anonymous

\* Guards: work needs a session, the login page is for those without one.
Destinations == {"home", "business"}
Landing(next, s) == IF next = "business" /\ ~s.member THEN "home" ELSE next
Guarded(r, s) ==
    IF s = Anonymous THEN (IF r \in Destinations THEN "login" ELSE r)
    ELSE IF r = "login" THEN Landing(intended, s) ELSE r
Intends(r, s) == IF s = Anonymous /\ r \in Destinations THEN r ELSE intended

NoAttempt == [phase |-> "none"]
NoErrand == [phase |-> "none"]
Attempt(c) == [phase |-> "asked", saw |-> SessionOf(c), stale |-> FALSE]
Overtaken(a) == IF a = NoAttempt THEN a ELSE [a EXCEPT !.stale = TRUE]
AllOvertaken == [p \in DOMAIN attempts |-> Overtaken(attempts[p])]

\* A new attempt, with the cookie of its time, takes the authority from every
\* earlier one.
EstablishWith(c, p) == attempts' = [AllOvertaken EXCEPT ![p] = Attempt(c)]
Establish(p) == EstablishWith(cookie, p)

\* Mutant: what was asked before may still be cached after.
MayCommitLate(a) == a # NoAttempt

MayCommit(a) == a # NoAttempt /\ ~a.stale

\* The form where a page starts.
Afresh == "token"

\* Everything of the session goes: requests for it are cancelled, attempts to
\* establish one are overtaken.
Clear ==
    /\ attempts' = AllOvertaken
    /\ session' = Land(session, Anonymous)
    /\ told' = told \cup (1 .. lastSession \ alive)
    /\ route' = Guarded(route, Anonymous) /\ intended' = Intends(route, Anonymous)

Happens == sessionEvents < MaxSessionEvents /\ sessionEvents' = sessionEvents + 1

SessionInit ==
    /\ account \in BOOLEAN
    /\ lastSession \in {0, 1} /\ (lastSession = 1 => account)
    /\ alive = 1 .. lastSession /\ cookie = lastSession /\ joined = FALSE /\ offer = TRUE
    /\ session = Fetch(NotAsked, SessionNow) /\ told = {}
    /\ route \in {"home", "business", "accept"} /\ intended = "home"
    /\ signIn = "form" /\ flow = Afresh
    /\ attempts = [p \in {"login", "accept"} |-> NoAttempt] /\ errand = NoErrand
    /\ sessionEvents = 0

(* What happens elsewhere: a session expires or is revoked, the invitation is *)
(* revoked or expires.                                                        *)
EndElsewhere ==
    /\ Happens
    /\ \/ \E s \in alive : alive' = alive \ {s} /\ offer' = offer
       \/ offer /\ offer' = FALSE /\ alive' = alive
    /\ UNCHANGED <<lastSession, account, joined, cookie, session, told, route, intended, signIn,
                   attempts, errand, flow>>

(* The session query. *)
LandSession ==
    /\ UnderWay(session)
    /\ \E s \in Answers(session, SessionNow) :
        /\ session' = Land(session, s)
        /\ route' = Guarded(route, s) /\ intended' = Intends(route, s)
        /\ flow' = IF SignedIn = (s # Anonymous) THEN flow ELSE Afresh
    /\ UNCHANGED <<sessionServerVars, cookie, told, signIn, attempts, errand, sessionEvents>>

FailSession ==
    /\ UnderWay(session) /\ Happens /\ session' = Fail(session)
    /\ UNCHANGED <<sessionServerVars, cookie, told, route, intended, signIn, attempts, errand, flow>>

RetrySession ==
    /\ session.failed /\ ~UnderWay(session) /\ session' = Fetch(session, SessionNow)
    /\ UNCHANGED <<sessionServerVars, cookie, told, route, intended, signIn, attempts, errand, flow,
                   sessionEvents>>

(* Going elsewhere in the app: what a page started goes on without it. *)
GoTo ==
    /\ Known
    /\ \E r \in {"home", "business", "login", "accept", "reset"} \ {route} :
        /\ route' = Guarded(r, session.data) /\ intended' = Intends(r, session.data)
    /\ signIn' = "form" /\ flow' = Afresh
    /\ UNCHANGED <<sessionServerVars, cookie, session, told, attempts, errand, sessionEvents>>

(* Signing in. The answer of the login is not the session. *)
SubmitLogin ==
    /\ Known /\ route = "login" /\ signIn = "form" /\ errand = NoErrand
    /\ errand' = [phase |-> "sent", kind |-> "login"] /\ signIn' = "busy"
    /\ UNCHANGED <<sessionServerVars, cookie, session, told, route, intended, attempts, flow, sessionEvents>>

RetryEstablish ==
    /\ Known /\ route = "login" /\ signIn = "failed" /\ signIn' = "busy" /\ Establish("login")
    /\ UNCHANGED <<sessionServerVars, cookie, session, told, route, intended, errand, flow, sessionEvents>>

LandAttempt(p) ==
    /\ attempts[p] # NoAttempt
    /\ \E s \in {attempts[p].saw, SessionNow} :
        IF MayCommit(attempts[p]) /\ s # Anonymous
        THEN /\ session' = Write(session, s)
             /\ route' = IF p = "login" THEN Landing(intended, s)
                         ELSE IF s.member THEN "home" ELSE route
             /\ flow' = IF p = "accept" /\ ~s.member /\ flow = "refreshing" THEN "missing" ELSE Afresh
             /\ signIn' = "form"
        ELSE /\ UNCHANGED <<session, route>>
             /\ signIn' = IF p = "login" /\ signIn = "busy" THEN "failed" ELSE signIn
             /\ flow' = IF p = "accept" /\ flow = "refreshing" THEN "refreshFailed" ELSE flow
    /\ attempts' = [attempts EXCEPT ![p] = NoAttempt]
    /\ UNCHANGED <<sessionServerVars, cookie, told, intended, errand, sessionEvents>>

FailAttempt(p) ==
    /\ attempts[p] # NoAttempt /\ Happens
    /\ signIn' = IF p = "login" /\ signIn = "busy" THEN "failed" ELSE signIn
    /\ flow' = IF p = "accept" /\ flow = "refreshing" THEN "refreshFailed" ELSE flow
    /\ attempts' = [attempts EXCEPT ![p] = NoAttempt]
    /\ UNCHANGED <<sessionServerVars, cookie, session, told, route, intended, errand>>

(* Privileged requests: work on a page, signing out, accepting. *)
Privileged(kind) ==
    /\ errand = NoErrand
    /\ errand' = [phase |-> "sent", kind |-> kind]
    /\ UNCHANGED <<sessionServerVars, cookie, session, told, route, intended, signIn, attempts, flow,
                   sessionEvents>>
Work == SignedIn /\ route \in Destinations /\ Privileged("work")
SignOut == SignedIn /\ (route \in Destinations \/ flow = "missing") /\ Privileged("logout")

(* The acceptance page: a preview of the invitation, then the acceptance. *)
Preview ==
    /\ Known /\ route = "accept" /\ flow = Afresh /\ offer
    /\ flow' = IF SignedIn THEN "confirm" ELSE "details"
    /\ UNCHANGED <<sessionServerVars, cookie, session, told, route, intended, signIn, attempts, errand,
                   sessionEvents>>

AnotherToken ==
    /\ route = "accept" /\ flow = "confirm" /\ errand = NoErrand /\ flow' = Afresh
    /\ UNCHANGED <<sessionServerVars, cookie, session, told, route, intended, signIn, attempts, errand,
                   sessionEvents>>

AcceptExisting == SignedIn /\ route = "accept" /\ flow = "confirm" /\ Privileged("acceptExisting")
AcceptNew == Known /\ ~SignedIn /\ route = "accept" /\ flow = "details" /\ Privileged("accept")
RedeemReset == route = "reset" /\ flow # "done" /\ Privileged("reset")

RefreshAgain ==
    /\ route = "accept" /\ flow \in {"refreshFailed", "missing"}
    /\ flow' = "refreshing" /\ Establish("accept")
    /\ UNCHANGED <<sessionServerVars, cookie, session, told, route, intended, signIn, errand, sessionEvents>>

\* What the server does with a request, and what it answers.
Status(kind) ==
    IF kind \in {"work", "logout", "acceptExisting"} /\ cookie \notin alive THEN 401
    ELSE IF \/ kind = "login" /\ (~account \/ lastSession = MaxSessions)
            \/ kind = "acceptExisting" /\ ~offer
            \/ kind = "accept" /\ (~offer \/ account)
            \/ kind = "reset" /\ ~account
         THEN 404 ELSE 200

Serve ==
    /\ errand.phase = "sent"
    /\ LET kind == errand.kind
           done == Status(kind) = 200
       IN /\ alive' = IF ~done THEN alive
                      ELSE IF kind = "login" THEN alive \cup {lastSession + 1}
                      ELSE IF kind = "logout" THEN alive \ {cookie}
                      ELSE IF kind = "reset" THEN {} ELSE alive
          /\ lastSession' = IF done /\ kind = "login" THEN lastSession + 1 ELSE lastSession
          /\ account' = (account \/ (done /\ kind = "accept"))
          /\ joined' = (joined \/ (done /\ kind \in {"accept", "acceptExisting"}))
          /\ offer' = (offer /\ ~(done /\ kind \in {"accept", "acceptExisting"}))
          /\ \/ errand' = [phase |-> "answered", kind |-> kind, status |-> Status(kind)]
                /\ UNCHANGED sessionEvents
             \/ errand' = [phase |-> "answered", kind |-> kind, status |-> 403]
                /\ kind = "work" /\ done /\ Happens
             \/ errand' = [phase |-> "answered", kind |-> kind, status |-> 500]
                /\ Happens
    /\ UNCHANGED <<cookie, session, told, route, intended, signIn, attempts, flow>>

\* The request never reaches the server.
LoseErrand ==
    /\ errand.phase = "sent" /\ Happens
    /\ errand' = [phase |-> "answered", kind |-> errand.kind, status |-> 500]
    /\ UNCHANGED <<sessionServerVars, cookie, session, told, route, intended, signIn, attempts, flow>>

\* Whatever page is shown by then.
Finish ==
    /\ errand.phase = "answered" /\ errand' = NoErrand
    /\ UNCHANGED <<sessionServerVars, sessionEvents>>

FinishLogin ==
    /\ Finish /\ errand.kind = "login"
    /\ IF errand.status = 200 THEN cookie' = lastSession /\ EstablishWith(cookie', "login") /\ UNCHANGED signIn
       ELSE /\ signIn' = IF signIn = "busy" THEN "form" ELSE signIn
            /\ UNCHANGED <<cookie, attempts>>
    /\ UNCHANGED <<session, told, route, intended, flow>>

FinishCleared ==
    /\ Finish
    /\ \/ errand.status = 401
       \/ errand.status = 200 /\ errand.kind \in {"logout", "reset"}
    /\ Clear
    /\ flow' = IF errand.kind = "reset" /\ route = "reset" /\ errand.status = 200 THEN "done"
               ELSE IF SignedIn THEN Afresh ELSE flow
    /\ UNCHANGED <<cookie, signIn>>

FinishDenied ==
    /\ Finish /\ errand.status = 403 /\ session' = Refetch(session, SessionNow)
    /\ UNCHANGED <<cookie, told, route, intended, signIn, attempts, flow>>

FinishAccepted ==
    /\ Finish /\ errand.status = 200
    /\ \/ errand.kind = "acceptExisting" /\ Establish("accept")
          /\ flow' = IF flow = "confirm" THEN "refreshing" ELSE flow
       \/ errand.kind = "accept" /\ UNCHANGED attempts
          /\ flow' = IF flow = "details" THEN "done" ELSE flow
    /\ UNCHANGED <<cookie, session, told, route, intended, signIn>>

FinishOtherwise ==
    /\ Finish /\ errand.kind # "login"
    /\ errand.status \in {404, 500} \/ (errand.kind = "work" /\ errand.status = 200)
    /\ UNCHANGED <<cookie, session, told, route, intended, signIn, attempts, flow>>

SessionNext ==
    \/ EndElsewhere \/ LandSession \/ FailSession \/ RetrySession \/ GoTo
    \/ SubmitLogin \/ RetryEstablish \/ Work \/ SignOut
    \/ \E p \in DOMAIN attempts : LandAttempt(p) \/ FailAttempt(p)
    \/ Preview \/ AnotherToken \/ AcceptExisting \/ AcceptNew \/ RedeemReset \/ RefreshAgain
    \/ Serve \/ LoseErrand \/ FinishLogin \/ FinishCleared \/ FinishDenied \/ FinishAccepted \/ FinishOtherwise

-----------------------------------------------------------------------------

Flows == {"token", "confirm", "refreshing", "refreshFailed", "missing", "details", "done"}

SessionTypeOK ==
    /\ alive \subseteq 1 .. lastSession /\ lastSession \in 0 .. MaxSessions /\ cookie \in 0 .. lastSession
    /\ {account, joined, offer} \subseteq BOOLEAN
    /\ session \in Queries(SessionStates) /\ told \subseteq 1 .. lastSession
    /\ route \in Destinations \cup {"login", "accept", "reset"} /\ intended \in Destinations
    /\ signIn \in {"form", "busy", "failed"} /\ flow \in Flows
    /\ \A p \in DOMAIN attempts : attempts[p].phase \in {"none", "asked"}
    /\ errand.phase \in {"none", "sent", "answered"}

(* A session that was over when the tab dropped its state (sign-out, a 401,  *)
(* a password reset) never becomes the cached session again, whichever       *)
(* request for it is answered after that.                                    *)
ClearedStaysCleared == Known => session.data.id \notin told

=============================================================================
