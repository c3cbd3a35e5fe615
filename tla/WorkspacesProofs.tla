-------------------------- MODULE WorkspacesProofs --------------------------
(***************************************************************************)
(* The control center's workspaces together. What ItemFieldsProofs,        *)
(* AccessProofs and StorefrontProofs prove of a component alone holds of   *)
(* the composition, for any bounds of the components, because a workspace  *)
(* takes the steps of its component only, and the others rest. The tab of  *)
(* SessionDesk and the menu of MenuDesk and ItemDesk are proved about here. *)
(***************************************************************************)
EXTENDS MCWorkspaces, DataFacts, FiniteSetTheorems, TLAPS

(* The workspace of a behaviour does not change.                             *)
LEMMA TheDeskStays == [WorkspacesNext]_workspacesVars => desk' = desk
BY DEF WorkspacesNext, workspacesVars

LEMMA MediaSteps ==
    [WorkspacesNext]_workspacesVars => [ItemFields!StorageNext \/ ItemFields!MediaNext]_(ItemFields!mediaVars)
BY DEF WorkspacesNext, workspacesVars, mediaDeskVars, ItemFields!mediaVars, ItemFields!mediaServerVars,
       ItemFields!mediaPageVars

(* No deletion, failed upload or sweep takes the bytes of an image that has  *)
(* a row, or the row of an image that an item shows; and no sweep takes an   *)
(* image that was promoted since it was found expired.                       *)
THEOREM ImagesStayServable == WorkspacesSpec => ImagesServable
<1>1. WorkspacesInit => ItemFields!MediaInit
  BY DEF WorkspacesInit
<1>2. WorkspacesSpec => ItemFields!MediaSpec
  BY <1>1, MediaSteps, PTL DEF WorkspacesSpec, ItemFields!MediaSpec
<1>3. WorkspacesSpec => ItemFields!PromotedIsKept
  BY <1>2, ItemFields!PromotedAreKept
<1>4. ItemFields!ImagesServable => (desk \in {"media", "storage"} => ItemFields!ImagesServable)
  OBVIOUS
<1>5. WorkspacesSpec => [](desk \in {"media", "storage"} => ItemFields!ImagesServable)
  BY <1>2, <1>4, ItemFields!ImagesAreServed, PTL
<1> QED BY <1>3, <1>5 DEF ImagesServable

LEMMA HoursSteps ==
    [WorkspacesNext]_workspacesVars => [Hours!HoursNext \/ Hours!ClockNext]_(Hours!hoursVars)
BY DEF WorkspacesNext, workspacesVars, hoursDeskVars, Hours!hoursVars, Hours!panels

(* The forms of the schedule and of a date mark the small hours that the     *)
(* server moves out of a gap of the clock, and no others.                    *)
THEOREM GapsStayMarked == WorkspacesSpec => []GapsAreMarked
<1>1. WorkspacesInit => Hours!HoursInit
  BY DEF WorkspacesInit
<1>2. Hours!GapsAreMarked => GapsAreMarked
  BY DEF GapsAreMarked
<1>3. Hours!HoursSpec => []Hours!GapsAreMarked
  BY HoursAndPrices, Hours!MarksAreTrue
<1> QED BY <1>1, <1>2, <1>3, HoursSteps, PTL DEF WorkspacesSpec, Hours!HoursSpec

-----------------------------------------------------------------------------
(* Two instances of the business page share their variables: which of them   *)
(* moves is a matter of the desk.                                            *)

LEMMA PageSteps ==
    desk = "platform" /\ [WorkspacesNext]_workspacesVars
        => [Platform!PlatformNext \/ Platform!OnboardingNext]_(Platform!platformVars)
BY DEF WorkspacesNext, workspacesVars, platformDeskVars, Platform!platformVars,
       Platform!platformServerVars, Platform!platformPageVars

LEMMA OnboardingSteps ==
    desk = "onboarding" /\ [WorkspacesNext]_workspacesVars
        => [Server!PlatformNext \/ Server!OnboardingNext]_(Server!platformVars)
BY DEF WorkspacesNext, workspacesVars, platformDeskVars, Server!platformVars,
       Server!platformServerVars, Server!platformPageVars

(* Reissues, revocations and acceptances leave every member admitted by one  *)
(* sound invitation, and no business active without an owner.                *)
THEOREM InvitationsKeepSound == WorkspacesSpec => []InvitationsStaySound
<1>1. Platform!PlatformSpec => []Platform!InvitationsStaySound
  BY PeopleAndSessions, Platform!MembersAreAdmittedOnce
<1>2. Server!PlatformSpec => []Server!InvitationsStaySound
  BY PeopleAndSessions, Server!MembersAreAdmittedOnce
<1>3. WorkspacesInit => /\ desk = "platform" => Platform!PlatformInit
                        /\ desk = "onboarding" => Server!PlatformInit
  BY DEF WorkspacesInit
<1> DEFINE onPage == desk = "platform"
           onboarding == desk = "onboarding"
<1>4. [WorkspacesNext]_workspacesVars => (onPage' <=> onPage) /\ (onboarding' <=> onboarding)
  BY TheDeskStays
<1>5. WorkspacesInit => /\ onPage => Platform!PlatformInit
                        /\ onboarding => Server!PlatformInit
  BY <1>3
<1>6. /\ onPage /\ [WorkspacesNext]_workspacesVars
            => [Platform!PlatformNext \/ Platform!OnboardingNext]_(Platform!platformVars)
      /\ onboarding /\ [WorkspacesNext]_workspacesVars
            => [Server!PlatformNext \/ Server!OnboardingNext]_(Server!platformVars)
  BY PageSteps, OnboardingSteps
<1>7. (onPage => Platform!InvitationsStaySound) /\ (onboarding => Server!InvitationsStaySound)
         => InvitationsStaySound
  BY DEF InvitationsStaySound
<1> HIDE DEF onPage, onboarding
<1> QED BY <1>1, <1>2, <1>4, <1>5, <1>6, <1>7, PTL
        DEF WorkspacesSpec, Platform!PlatformSpec, Server!PlatformSpec

-----------------------------------------------------------------------------
(* The composer.                                                             *)

LEMMA ComposerSteps ==
    [WorkspacesNext]_workspacesVars => [Composer!ComposerNext]_(Composer!composerVars)
BY DEF WorkspacesNext, workspacesVars, composerDeskVars, Composer!composerVars, Composer!vars,
       Composer!pageVars

(* What the server guarantees an editor, it guarantees the query cache of    *)
(* the draft composer.                                                       *)
THEOREM CacheStaysTheEditor == WorkspacesSpec => CacheIsTheEditor
<1>1. WorkspacesInit => Composer!ComposerInit
  BY DEF WorkspacesInit
<1>2. Composer!ComposerSpec => Composer!CacheIsTheEditor
  BY ComposerAndServer, Composer!ComposerIsAnEditor
<1> QED BY <1>1, <1>2, ComposerSteps, PTL DEF WorkspacesSpec, Composer!ComposerSpec, CacheIsTheEditor

-----------------------------------------------------------------------------
(* The sessions: the tab, and the server behind it. Nothing that may still    *)
(* be answered, and may then be cached, is of a session the tab was told is   *)
(* over.                                                                     *)

Over(s) == s # NoData /\ s.id \in told

\* The query, whatever it was last told.
IsQuery(q) == /\ DOMAIN q = {"data", "failed", "flight"}
              /\ q = [part \in DOMAIN q |-> q[part]]
              /\ ~Over(q.data) /\ ~Over(q.flight)

\* What a page asked for, if it may still be cached.
IsAttempt(a) ==
    a # Session!NoAttempt =>
        /\ "stale" \in DOMAIN a
        /\ ~a.stale => a.saw.id \notin told

Untold ==
    /\ lastSession \in Nat /\ alive \subseteq 1 .. lastSession /\ told \subseteq 1 .. lastSession
    /\ alive \cap told = {}
    /\ IsQuery(session)
    /\ DOMAIN attempts = {"login", "accept"}
    /\ \A p \in DOMAIN attempts : IsAttempt(attempts[p])

LEMMA CookieIsNotOver ==
    ASSUME Untold, NEW c PROVE Session!SessionOf(c).id \notin told
<1>1. \A n \in Nat : n \in told => n # 0 /\ n \notin alive
  BY DEF Untold
<1>2. 0 \notin told
  BY <1>1
<1>3. c \in alive => c \notin told
  BY DEF Untold
<1>4. Session!SessionOf(c) = [id |-> IF c \in alive THEN c ELSE 0,
                             member |-> IF c \in alive THEN joined ELSE FALSE]
  BY DEF Session!SessionOf, Session!Anonymous
<1> QED BY <1>2, <1>3, <1>4

LEMMA NowIsNotOver ==
    ASSUME Untold PROVE Session!SessionNow.id \notin told
BY CookieIsNotOver DEF Session!SessionNow

\* What overtakes an attempt leaves it without effect on the cache.
LEMMA OvertakenIsStale ==
    ASSUME NEW a, IsAttempt(a), Session!Overtaken(a) # Session!NoAttempt
    PROVE  /\ "stale" \in DOMAIN Session!Overtaken(a)
           /\ Session!Overtaken(a).stale
BY DEF Session!Overtaken, IsAttempt

LEMMA QueryKeeps ==
    ASSUME NEW q, IsQuery(q), NEW latest, ~Over(latest)
    PROVE  /\ IsQuery(Session!Fetch(q, latest)) /\ IsQuery(Session!Refetch(q, latest))
           /\ IsQuery(Session!Land(q, latest)) /\ IsQuery(Session!Fail(q))
           /\ IsQuery(Session!Write(q, latest))
BY DEF IsQuery, Over, Session!Fetch, Session!Refetch, Session!Land, Session!Fail, Session!Write,
       Session!UnderWay

\* A new attempt asks for the session of a cookie, and overtakes every other.
LEMMA EstablishKeeps ==
    ASSUME Untold, NEW c, NEW p \in {"login", "accept"}, Session!EstablishWith(c, p), told' = told
    PROVE  DOMAIN attempts' = {"login", "accept"} /\ \A r \in DOMAIN attempts' : IsAttempt(attempts[r])'
<1>1. attempts' = [Session!AllOvertaken EXCEPT ![p] = Session!Attempt(c)]
  BY DEF Session!EstablishWith
<1>2. DOMAIN Session!AllOvertaken = {"login", "accept"}
  BY DEF Session!AllOvertaken, Untold
<1>3. ASSUME NEW r \in DOMAIN attempts' PROVE IsAttempt(attempts[r])'
  <2>1. CASE r = p
    BY <1>1, <1>2, <2>1, CookieIsNotOver DEF Session!Attempt, IsAttempt
  <2>2. CASE r # p
    <3>1. attempts'[r] = Session!Overtaken(attempts[r]) /\ r \in DOMAIN attempts
      BY <1>1, <1>2, <2>2 DEF Session!AllOvertaken, Untold
    <3> QED BY <3>1, OvertakenIsStale DEF Untold, IsAttempt
  <2> QED BY <2>1, <2>2
<1> QED BY <1>1, <1>2, <1>3

\* Steps after which nothing more is over that the tab was told.
LEMMA KeepsUntold ==
    ASSUME Untold, told' = told,
           \/ lastSession' = lastSession /\ alive' \subseteq alive
           \/ lastSession' = lastSession + 1 /\ alive' \subseteq alive \cup {lastSession + 1},
           IsQuery(session)',
           DOMAIN attempts' = {"login", "accept"},
           \A p \in DOMAIN attempts' : IsAttempt(attempts[p])'
    PROVE  Untold'
<1>1. /\ lastSession \in Nat /\ alive \subseteq 1 .. lastSession /\ told \subseteq 1 .. lastSession
      /\ alive \cap told = {}
  BY DEF Untold
<1>2. lastSession' \in Nat /\ alive' \subseteq 1 .. lastSession' /\ told' \subseteq 1 .. lastSession'
  <2>1. lastSession' \in Nat /\ \A n \in 1 .. lastSession : n \in 1 .. lastSession'
    BY <1>1
  <2>2. lastSession' = lastSession + 1 => lastSession + 1 \in 1 .. lastSession'
    BY <1>1
  <2> QED BY <1>1, <2>1, <2>2
<1>3. lastSession + 1 \notin told
  BY <1>1
<1>4. alive' \cap told' = {}
  BY <1>1, <1>3
<1> QED BY <1>2, <1>4 DEF Untold

LEMMA AtRest ==
    ASSUME Untold, told' = told
    PROVE  /\ session' = session => IsQuery(session)'
           /\ attempts' = attempts =>
                 /\ DOMAIN attempts' = {"login", "accept"}
                 /\ \A p \in DOMAIN attempts' : IsAttempt(attempts[p])'
           /\ \A q : IsQuery(q) /\ session' = q => IsQuery(session)'
BY DEF Untold, IsQuery, Over, IsAttempt

LEMMA QuerySteps ==
    ASSUME Untold, Session!LandSession \/ Session!FailSession \/ Session!RetrySession
                   \/ Session!FinishDenied
    PROVE  Untold'
<1>1. told' = told /\ UNCHANGED <<lastSession, alive, attempts>>
  BY DEF Session!LandSession, Session!FailSession, Session!RetrySession, Session!FinishDenied,
         Session!Finish, Session!sessionServerVars
<1>2. ~Over(Session!SessionNow) /\ ~Over(session.flight) /\ IsQuery(session)
  BY NowIsNotOver DEF Untold, Over, IsQuery
<1>3. \E latest : /\ ~Over(latest)
               /\ \/ session' = Session!Fetch(session, latest)
                  \/ session' = Session!Refetch(session, latest)
                  \/ session' = Session!Land(session, latest)
                  \/ session' = Session!Fail(session)
  <2>1. CASE Session!LandSession
    <3>1. PICK s \in {session.flight, Session!SessionNow} : session' = Session!Land(session, s)
      BY <2>1 DEF Session!LandSession, Session!Answers
    <3> QED BY <1>2, <3>1
  <2>2. CASE Session!FailSession \/ Session!RetrySession \/ Session!FinishDenied
    BY <1>2, <2>2 DEF Session!FailSession, Session!RetrySession, Session!FinishDenied
  <2> QED BY <2>1, <2>2
<1>4. PICK q : IsQuery(q) /\ session' = q
  BY <1>2, <1>3, QueryKeeps
<1> QED BY <1>1, <1>4, AtRest, KeepsUntold

LEMMA AttemptSteps ==
    ASSUME Untold, NEW p \in DOMAIN attempts, Session!LandAttempt(p) \/ Session!FailAttempt(p)
    PROVE  Untold'
<1>1. /\ told' = told /\ UNCHANGED <<lastSession, alive>>
      /\ attempts' = [attempts EXCEPT ![p] = Session!NoAttempt]
      /\ p \in {"login", "accept"}
  BY DEF Session!LandAttempt, Session!FailAttempt, Session!sessionServerVars, Untold
<1>2. DOMAIN attempts' = {"login", "accept"} /\ \A r \in DOMAIN attempts' : IsAttempt(attempts[r])'
  BY <1>1 DEF Untold, IsAttempt
<1>3. session' = session \/ \E s : ~Over(s) /\ session' = Session!Write(session, s)
  <2>1. CASE Session!LandAttempt(p)
    <3>1. PICK s \in {attempts[p].saw, Session!SessionNow} :
             \/ Session!MayCommit(attempts[p]) /\ session' = Session!Write(session, s)
             \/ session' = session
      BY <2>1 DEF Session!LandAttempt
    <3>2. Session!MayCommit(attempts[p]) => attempts[p].saw.id \notin told
      BY DEF Untold, IsAttempt, Session!MayCommit
    <3> QED BY <3>1, <3>2, NowIsNotOver DEF Over
  <2>2. CASE Session!FailAttempt(p)
    BY <2>2 DEF Session!FailAttempt
  <2> QED BY <2>1, <2>2
<1>4. \E q : IsQuery(q) /\ session' = q
  BY <1>3, QueryKeeps DEF Untold
<1> QED BY <1>1, <1>2, <1>4, AtRest, KeepsUntold

LEMMA EstablishSteps ==
    ASSUME Untold, \/ Session!RetryEstablish \/ Session!RefreshAgain
                   \/ Session!FinishLogin \/ Session!FinishAccepted
    PROVE  Untold'
<1>1. told' = told /\ UNCHANGED <<lastSession, alive, session>>
  BY DEF Session!RetryEstablish, Session!RefreshAgain, Session!FinishLogin, Session!FinishAccepted,
         Session!Finish, Session!sessionServerVars
<1>2. attempts' = attempts \/ \E c : \E p \in {"login", "accept"} : Session!EstablishWith(c, p)
  BY DEF Session!Establish, Session!RetryEstablish, Session!RefreshAgain, Session!FinishLogin, Session!FinishAccepted
<1> QED BY <1>1, <1>2, AtRest, EstablishKeeps, KeepsUntold

LEMMA ServerSteps ==
    ASSUME Untold, Session!Serve \/ Session!EndElsewhere
    PROVE  Untold'
<1>1. told' = told /\ UNCHANGED <<session, attempts>>
  BY DEF Session!Serve, Session!EndElsewhere
<1>2. \/ lastSession' = lastSession /\ alive' \subseteq alive
      \/ lastSession' = lastSession + 1 /\ alive' \subseteq alive \cup {lastSession + 1}
  BY DEF Session!Serve, Session!EndElsewhere
<1> QED BY <1>1, <1>2, AtRest, KeepsUntold

\* Everything of the session goes: nothing that was asked for it counts.
LEMMA ClearStep ==
    ASSUME Untold, Session!FinishCleared
    PROVE  Untold'
<1>1. /\ attempts' = Session!AllOvertaken
      /\ session' = Session!Land(session, Session!Anonymous)
      /\ told' = told \cup ((1 .. lastSession) \ alive)
      /\ UNCHANGED <<lastSession, alive>>
  BY DEF Session!FinishCleared, Session!Finish, Session!Clear, Session!sessionServerVars
<1>2. IsQuery(session)'
  BY <1>1 DEF IsQuery, Over, Session!Land, Session!Anonymous, Untold
<1>3. DOMAIN attempts' = {"login", "accept"}
  BY <1>1 DEF Session!AllOvertaken, Untold
<1>4. ASSUME NEW p \in DOMAIN attempts' PROVE IsAttempt(attempts[p])'
  <2>1. attempts'[p] = Session!Overtaken(attempts[p]) /\ p \in DOMAIN attempts
    BY <1>1 DEF Session!AllOvertaken, Untold
  <2> QED BY <2>1, OvertakenIsStale DEF Untold, IsAttempt
<1> QED BY <1>1, <1>2, <1>3, <1>4 DEF Untold

LEMMA OtherSteps ==
    ASSUME Untold, \/ Session!GoTo \/ Session!SubmitLogin \/ Session!Work \/ Session!SignOut
                   \/ Session!Preview \/ Session!AnotherToken \/ Session!AcceptExisting
                   \/ Session!AcceptNew \/ Session!RedeemReset \/ Session!LoseErrand
                   \/ Session!FinishOtherwise \/ UNCHANGED Session!sessionVars
    PROVE  Untold'
<1>1. told' = told /\ UNCHANGED <<lastSession, alive, session, attempts>>
  BY DEF Session!GoTo, Session!SubmitLogin, Session!Work, Session!SignOut, Session!Preview,
         Session!AnotherToken, Session!AcceptExisting, Session!AcceptNew, Session!RedeemReset,
         Session!LoseErrand, Session!FinishOtherwise, Session!Finish, Session!Privileged,
         Session!sessionVars, Session!sessionServerVars
<1> QED BY <1>1, AtRest, KeepsUntold

LEMMA SessionSteps ==
    ASSUME Untold, [Session!SessionNext]_(Session!sessionVars)
    PROVE  Untold'
BY QuerySteps, AttemptSteps, EstablishSteps, ServerSteps, ClearStep, OtherSteps
   DEF Session!SessionNext

LEMMA TabSteps ==
    [WorkspacesNext]_workspacesVars => [Session!SessionNext]_(Session!sessionVars)
BY DEF WorkspacesNext, workspacesVars, sessionDeskVars, Session!sessionVars,
       Session!sessionServerVars

LEMMA ServerTakesSteps ==
    [WorkspacesNext]_workspacesVars => [Server!AccountNext]_(Server!accountVars)
BY DEF WorkspacesNext, workspacesVars, accountVars, Server!accountVars

LEMMA InitUntold ==
    ASSUME WorkspacesInit PROVE Untold
<1>1. Session!SessionInit
  BY DEF WorkspacesInit
<1>2. /\ lastSession \in {0, 1} /\ alive = 1 .. lastSession /\ told = {}
      /\ session = Session!Fetch(Session!NotAsked, Session!SessionNow)
      /\ attempts = [p \in {"login", "accept"} |-> Session!NoAttempt]
  BY <1>1 DEF Session!SessionInit
<1>3. IsQuery(session)
  BY <1>2 DEF IsQuery, Over, Session!Fetch, Session!NotAsked, Session!UnderWay
<1> QED BY <1>2, <1>3 DEF Untold, IsAttempt

(* A session that was over when the tab dropped its state never becomes the  *)
(* cached session again; and the server's count, sessions and tokens are     *)
(* what the account's trail says.                                            *)
THEOREM SessionsKeepSound == WorkspacesSpec => []SessionsStaySound
<1>1. WorkspacesInit => Untold /\ Server!AccountInit
  BY InitUntold DEF WorkspacesInit
<1>2. Untold /\ [WorkspacesNext]_workspacesVars => Untold'
  BY TabSteps, SessionSteps
<1>3. Server!AccountSpec => []Server!AccountsStaySound
  BY PeopleAndSessions, Server!AccountsAreKept
<1>4. Untold => Session!ClearedStaysCleared
  BY DEF Untold, IsQuery, Over, Session!ClearedStaysCleared, Session!Known, Session!Usable
<1>5. Session!ClearedStaysCleared /\ Server!AccountsStaySound => SessionsStaySound
  BY DEF SessionsStaySound
<1> QED BY <1>1, <1>2, <1>3, <1>4, <1>5, ServerTakesSteps, PTL
        DEF WorkspacesSpec, Server!AccountSpec

-----------------------------------------------------------------------------
(* The menu of MenuDesk and ItemDesk, as tables of rows.                     *)

SectionFields == {"title", "visible", "place"}
DishFields == {"section", "place", "featured", "available"}

In(dishes, c) == {i \in DOMAIN dishes : dishes[i].section = c}
FeaturedOf(dishes) == {i \in DOMAIN dishes : dishes[i].featured}

GoodSections(table) ==
    /\ IsTable(table, Categories, SectionFields)
    /\ Dense(table, DOMAIN table)
    /\ \A c, d \in DOMAIN table : table[c].title = table[d].title => c = d

GoodDishes(table, categories) ==
    /\ IsTable(table, Dishes, DishFields)
    /\ \A c \in categories : Dense(table, In(table, c))
    /\ \A i \in DOMAIN table : table[i].section \in categories
    /\ Cardinality(FeaturedOf(table)) <= FeaturedLimit

KnownMenu(m) ==
    /\ m = [sections |-> m.sections, dishes |-> m.dishes]
    /\ GoodSections(m.sections) /\ GoodDishes(m.dishes, DOMAIN m.sections)

LEMMA KnownIsSound == ASSUME NEW m, KnownMenu(m) PROVE MenuIsSound(m)
BY DEF KnownMenu, GoodSections, GoodDishes, MenuIsSound, DenselyPlaced, DishesIn, Featured,
       In, FeaturedOf, Dense

LEMMA StartsAreKnown == ASSUME NEW m \in MenuStarts PROVE KnownMenu(m)
<1>1. IsMenu(m) /\ MenuIsSound(m)
  BY MenuDeskConstants
<1>2. IsTable(m.sections, Categories, SectionFields)
  BY <1>1 DEF IsMenu, Section, IsTable, IsRow, SectionFields
<1>3. IsTable(m.dishes, Dishes, DishFields)
  BY <1>1 DEF IsMenu, Dish, IsTable, IsRow, DishFields
<1> QED BY <1>1, <1>2, <1>3 DEF KnownMenu, GoodSections, GoodDishes, MenuIsSound, DenselyPlaced,
           DishesIn, Featured, In, FeaturedOf, Dense, IsMenu

LEMMA TablesAreFinite ==
    ASSUME NEW t, NEW fields, IsTable(t, Categories, fields) \/ IsTable(t, Dishes, fields)
    PROVE  \A S \in SUBSET DOMAIN t : IsFiniteSet(S) /\ Cardinality(S) \in Nat
BY FS_Subset, FS_CardinalityType, CatalogConstants DEF IsTable

\* The dishes of a menu whose categories change.
LEMMA DishesStay ==
    ASSUME NEW d, NEW cs, GoodDishes(d, cs), NEW ds, \A i \in DOMAIN d : d[i].section \in ds
    PROVE  GoodDishes(d, ds)
<1>1. ASSUME NEW c \in ds PROVE Dense(d, In(d, c))
  <2>1. CASE c \in cs
    BY <2>1 DEF GoodDishes
  <2>2. CASE c \notin cs
    <3>1. In(d, c) = {}
      BY <2>2 DEF GoodDishes, In
    <3> QED BY <3>1, FS_EmptySet DEF Dense
  <2> QED BY <2>1, <2>2
<1> QED BY <1>1 DEF GoodDishes

LEMMA CategoryIsCreated ==
    ASSUME NEW m, KnownMenu(m), NEW title, NEW n \in CreateCategory(m, title)
    PROVE  KnownMenu(n)
<1>1. PICK s : s = m.sections
  OBVIOUS
<1>2. PICK c \in Categories \ DOMAIN s :
         n = [m EXCEPT !.sections = With(s, c, [title |-> title, visible |-> TRUE,
                                                place |-> Cardinality(DOMAIN s)])]
  BY <1>1 DEF CreateCategory, Refused
<1>3. PICK t : t = With(s, c, [title |-> title, visible |-> TRUE, place |-> Cardinality(DOMAIN s)])
  OBVIOUS
<1>4. n = [sections |-> t, dishes |-> m.dishes]
  BY <1>2, <1>3 DEF KnownMenu
<1>5. /\ t = [x \in DOMAIN t |-> t[x]] /\ DOMAIN t = DOMAIN s \cup {c}
      /\ \A x \in DOMAIN s : t[x] = s[x]
      /\ t[c] = [title |-> title, visible |-> TRUE, place |-> Cardinality(DOMAIN s)]
  BY <1>2, <1>3 DEF With
<1>6. GoodSections(s) /\ IsFiniteSet(DOMAIN s) /\ Cardinality(DOMAIN s) \in Nat
  BY <1>1, TablesAreFinite, FS_CardinalityType DEF KnownMenu, GoodSections
<1>7. IsRow(t[c], SectionFields)
  BY <1>5, <1>6 DEF IsRow, SectionFields
<1>8. IsTable(t, Categories, SectionFields)
  BY <1>2, <1>5, <1>6, <1>7 DEF IsTable, GoodSections
<1>9. Dense(t, DOMAIN t)
  <2>1. Dense(s, DOMAIN s) /\ c \notin DOMAIN s
    BY <1>2, <1>6 DEF GoodSections
  <2>2. t[c].place = Cardinality(DOMAIN s) /\ \A x \in DOMAIN s : t[x].place = s[x].place
    BY <1>5
  <2>3. Dense(t, DOMAIN s \cup {c})
    BY <1>6, <2>1, <2>2, PlacedLast
  <2> QED BY <1>5, <2>3
<1>10. \A d \in DOMAIN s : s[d].title # title
  BY <1>1 DEF CreateCategory, Refused, TitleTaken
<1>11. \A d, e \in DOMAIN t : t[d].title = t[e].title => d = e
  BY <1>2, <1>5, <1>6, <1>10 DEF GoodSections
<1>12. GoodDishes(m.dishes, DOMAIN t)
  BY <1>1, <1>5, DishesStay DEF KnownMenu, GoodDishes
<1> QED BY <1>4, <1>8, <1>9, <1>11, <1>12 DEF KnownMenu, GoodSections

LEMMA CategoryIsUpdated ==
    ASSUME NEW m, KnownMenu(m), NEW c, NEW change_, "place" \notin DOMAIN change_,
           NEW n \in UpdateCategory(m, c, change_)
    PROVE  KnownMenu(n)
<1>1. PICK s : s = m.sections
  OBVIOUS
<1>2. /\ c \in DOMAIN s /\ n = [m EXCEPT !.sections[c] = Merge(@, change_)]
      /\ "title" \in DOMAIN change_ => \A d \in DOMAIN s \ {c} : s[d].title # change_.title
  BY <1>1 DEF UpdateCategory, Refused, TitleTaken
<1>3. PICK t : t = [s EXCEPT ![c] = Merge(s[c], change_)]
  OBVIOUS
<1>4. n = [sections |-> t, dishes |-> m.dishes]
  BY <1>1, <1>2, <1>3 DEF KnownMenu
<1>5. /\ t = [x \in DOMAIN t |-> t[x]] /\ DOMAIN t = DOMAIN s
      /\ \A x \in DOMAIN s \ {c} : t[x] = s[x]
      /\ t[c] = Merge(s[c], change_)
  BY <1>1, <1>2, <1>3 DEF KnownMenu, GoodSections, IsTable
<1>6. GoodSections(s) /\ IsRow(s[c], SectionFields)
  BY <1>1, <1>2 DEF KnownMenu, GoodSections, IsTable
<1>7. /\ IsRow(t[c], SectionFields) /\ t[c].place = s[c].place
      /\ t[c].title = IF "title" \in DOMAIN change_ THEN change_.title ELSE s[c].title
  BY <1>5, <1>6, MergedRow DEF SectionFields
<1>8. IsTable(t, Categories, SectionFields)
  BY <1>5, <1>6, <1>7 DEF IsTable, GoodSections
<1>9. Dense(t, DOMAIN t)
  BY <1>5, <1>6, <1>7, SamePlaces DEF GoodSections
<1>10. \A d, e \in DOMAIN t : t[d].title = t[e].title => d = e
  BY <1>2, <1>5, <1>6, <1>7 DEF GoodSections
<1>11. GoodDishes(m.dishes, DOMAIN t)
  BY <1>1, <1>5 DEF KnownMenu
<1> QED BY <1>4, <1>8, <1>9, <1>10, <1>11 DEF KnownMenu, GoodSections

LEMMA CategoryIsDeleted ==
    ASSUME NEW m, KnownMenu(m), NEW c, NEW n \in DeleteCategory(m, c)
    PROVE  KnownMenu(n)
<1>1. PICK s : s = m.sections
  OBVIOUS
<1>2. /\ c \in DOMAIN s /\ DishesIn(m, c) = {}
      /\ n = [m EXCEPT !.sections = [d \in DOMAIN s \ {c} |-> CloseGap(s[d], s[c].place)]]
  BY <1>1 DEF DeleteCategory, Refused
<1>3. PICK t : t = [d \in DOMAIN s \ {c} |-> CloseGap(s[d], s[c].place)]
  OBVIOUS
<1>4. n = [sections |-> t, dishes |-> m.dishes]
  BY <1>2, <1>3 DEF KnownMenu
<1>5. /\ t = [x \in DOMAIN t |-> t[x]] /\ DOMAIN t = DOMAIN s \ {c}
      /\ \A x \in DOMAIN s \ {c} : t[x] = CloseGap(s[x], s[c].place)
  BY <1>3
<1>6. /\ GoodSections(s) /\ s[c].place \in Nat /\ IsFiniteSet(DOMAIN s)
      /\ \A x \in DOMAIN s : IsRow(s[x], SectionFields)
  BY <1>1, <1>2, TablesAreFinite DEF KnownMenu, GoodSections, IsTable, IsRow
<1>7. \A x \in DOMAIN s \ {c} :
         /\ IsRow(t[x], SectionFields)
         /\ t[x].place = IF s[x].place > s[c].place THEN s[x].place - 1 ELSE s[x].place
         /\ t[x].title = s[x].title
  BY <1>5, <1>6, ClosedRow DEF SectionFields
<1>8. IsTable(t, Categories, SectionFields)
  BY <1>5, <1>6, <1>7 DEF IsTable, GoodSections
<1>9. Dense(t, DOMAIN t)
  <2>1. Dense(s, DOMAIN s)
    BY <1>6 DEF GoodSections
  <2>2. ClosesUp(s, DOMAIN s, c, t)
    BY <1>7 DEF ClosesUp
  <2>3. Dense(t, DOMAIN s \ {c})
    BY <1>2, <1>6, <2>1, <2>2, GapIsClosed
  <2> QED BY <1>5, <2>3
<1>10. \A d, e \in DOMAIN t : t[d].title = t[e].title => d = e
  BY <1>5, <1>6, <1>7 DEF GoodSections
<1>11. \A i \in DOMAIN m.dishes : m.dishes[i].section \in DOMAIN t
  BY <1>1, <1>2, <1>5 DEF KnownMenu, GoodDishes, DishesIn
<1>12. GoodDishes(m.dishes, DOMAIN t)
  BY <1>11, DishesStay DEF KnownMenu
<1> QED BY <1>4, <1>8, <1>9, <1>10, <1>12 DEF KnownMenu, GoodSections

LEMMA CategoriesAreReordered ==
    ASSUME NEW m, KnownMenu(m), NEW order_, NEW n \in ReorderCategories(m, order_)
    PROVE  KnownMenu(n)
<1>1. PICK s : s = m.sections
  OBVIOUS
<1>2. /\ Arranges(order_, DOMAIN s)
      /\ n = [m EXCEPT !.sections =
                [c \in DOMAIN s |-> [s[c] EXCEPT !.place = IndexOf(order_, c) - 1]]]
  BY <1>1 DEF ReorderCategories, Refused
<1>3. PICK t : t = [c \in DOMAIN s |-> [s[c] EXCEPT !.place = IndexOf(order_, c) - 1]]
  OBVIOUS
<1>4. n = [sections |-> t, dishes |-> m.dishes]
  BY <1>2, <1>3 DEF KnownMenu
<1>5. /\ t = [x \in DOMAIN t |-> t[x]] /\ DOMAIN t = DOMAIN s
      /\ \A x \in DOMAIN s : t[x] = [s[x] EXCEPT !.place = IndexOf(order_, x) - 1]
  BY <1>3
<1>6. /\ GoodSections(s) /\ IsFiniteSet(DOMAIN s)
      /\ \A x \in DOMAIN s : IsRow(s[x], SectionFields)
  BY <1>1, TablesAreFinite DEF KnownMenu, GoodSections, IsTable
<1>7. \A x \in DOMAIN s : /\ t[x].place = IndexOf(order_, x) - 1
                          /\ t[x].title = s[x].title
                          /\ t[x] = [f \in SectionFields |-> t[x][f]]
  BY <1>5, <1>6 DEF IsRow, SectionFields
<1>8. Dense(t, DOMAIN s) /\ \A x \in DOMAIN s : t[x].place \in Nat
  <2>1. \A x \in DOMAIN s : t[x].place = IndexOf(order_, x) - 1
    BY <1>7
  <2> QED BY <1>2, <1>6, <2>1, ArrangedIsFilled
<1>9. IsTable(t, Categories, SectionFields)
  BY <1>5, <1>6, <1>7, <1>8 DEF IsTable, IsRow, GoodSections
<1>10. \A d, e \in DOMAIN t : t[d].title = t[e].title => d = e
  BY <1>5, <1>6, <1>7 DEF GoodSections
<1>11. GoodDishes(m.dishes, DOMAIN t)
  BY <1>1, <1>5 DEF KnownMenu
<1> QED BY <1>4, <1>5, <1>8, <1>9, <1>10, <1>11 DEF KnownMenu, GoodSections

-----------------------------------------------------------------------------
(* The items of a menu.                                                      *)

LEMMA DishesOfAMenu ==
    ASSUME NEW m, KnownMenu(m)
    PROVE  /\ GoodDishes(m.dishes, DOMAIN m.sections)
           /\ m.dishes = [i \in DOMAIN m.dishes |-> m.dishes[i]]
           /\ DOMAIN m.dishes \subseteq Dishes
           /\ \A i \in DOMAIN m.dishes : /\ IsRow(m.dishes[i], DishFields)
                                         /\ m.dishes[i].place \in Nat
           /\ \A S \in SUBSET DOMAIN m.dishes : IsFiniteSet(S) /\ Cardinality(S) \in Nat
           /\ \A dishes : GoodDishes(dishes, DOMAIN m.sections)
                              => KnownMenu([m EXCEPT !.dishes = dishes])
<1>1. GoodDishes(m.dishes, DOMAIN m.sections) /\ IsTable(m.dishes, Dishes, DishFields)
  BY DEF KnownMenu, GoodDishes
<1>2. \A dishes : [m EXCEPT !.dishes = dishes] = [sections |-> m.sections, dishes |-> dishes]
  BY DEF KnownMenu
<1>3. ASSUME NEW dishes, GoodDishes(dishes, DOMAIN m.sections)
      PROVE  KnownMenu([m EXCEPT !.dishes = dishes])
  BY <1>2, <1>3 DEF KnownMenu
<1> QED BY <1>1, <1>3, TablesAreFinite DEF IsTable, IsRow

LEMMA FewerAreFeatured ==
    ASSUME NEW d, IsTable(d, Dishes, DishFields), Cardinality(FeaturedOf(d)) <= FeaturedLimit,
           NEW t, FeaturedOf(t) \subseteq FeaturedOf(d)
    PROVE  Cardinality(FeaturedOf(t)) <= FeaturedLimit
<1>1. FeaturedOf(d) \subseteq DOMAIN d
  BY DEF FeaturedOf
<1>2. /\ IsFiniteSet(FeaturedOf(d)) /\ Cardinality(FeaturedOf(d)) \in Nat
      /\ Cardinality(FeaturedOf(t)) \in Nat
  BY <1>1, TablesAreFinite
<1>3. Cardinality(FeaturedOf(t)) <= Cardinality(FeaturedOf(d))
  BY <1>2, FS_Subset
<1> QED BY <1>2, <1>3, CatalogConstants

LEMMA ItemIsCreated ==
    ASSUME NEW m, KnownMenu(m), NEW c, NEW n \in CreateItem(m, c)
    PROVE  KnownMenu(n)
<1>1. PICK d : d = m.dishes
  OBVIOUS
<1>2. PICK row : row = [section |-> c, place |-> Cardinality(In(d, c)), featured |-> FALSE, available |-> TRUE]
  OBVIOUS
<1>3. PICK i \in Dishes \ DOMAIN d : n = [m EXCEPT !.dishes = With(d, i, row)]
  BY <1>1, <1>2 DEF CreateItem, Refused, In, DishesIn
<1>4. PICK t : t = With(d, i, row)
  OBVIOUS
<1>5. /\ t = [x \in DOMAIN t |-> t[x]] /\ DOMAIN t = DOMAIN d \cup {i}
      /\ \A x \in DOMAIN d : t[x] = d[x]
      /\ t[i] = row
  BY <1>3, <1>4 DEF With
<1>6. /\ GoodDishes(d, DOMAIN m.sections) /\ IsTable(d, Dishes, DishFields)
      /\ c \in DOMAIN m.sections
      /\ \A e : In(d, e) \subseteq DOMAIN d /\ IsFiniteSet(In(d, e)) /\ Cardinality(In(d, e)) \in Nat
  BY <1>1, DishesOfAMenu DEF GoodDishes, CreateItem, Refused, In
<1>7. IsRow(row, DishFields)
  BY <1>2, <1>6 DEF IsRow, DishFields
<1>8. IsTable(t, Dishes, DishFields)
  BY <1>3, <1>5, <1>6, <1>7 DEF IsTable
<1>9. row.section = c /\ row.place = Cardinality(In(d, c)) /\ ~row.featured
  BY <1>2
<1>10. \A e : In(t, e) = IF e = c THEN In(d, c) \cup {i} ELSE In(d, e)
  BY <1>3, <1>5, <1>9 DEF In
<1>11. ASSUME NEW e \in DOMAIN m.sections PROVE Dense(t, In(t, e))
  <2>1. Dense(d, In(d, e)) /\ \A x \in In(d, e) : t[x].place = d[x].place
    BY <1>5, <1>6 DEF GoodDishes, In
  <2>2. CASE e = c
    <3>1. i \notin In(d, c) /\ t[i].place = Cardinality(In(d, c))
      BY <1>3, <1>5, <1>9 DEF In
    <3>2. Dense(t, In(d, c) \cup {i})
      BY <1>6, <2>1, <2>2, <3>1, PlacedLast
    <3> QED BY <1>10, <2>2, <3>2
  <2>3. CASE e # c
    <3>1. Dense(t, In(d, e))
      BY <2>1, SamePlaces
    <3> QED BY <1>10, <2>3, <3>1
  <2> QED BY <2>2, <2>3
<1>12. \A x \in DOMAIN t : t[x].section \in DOMAIN m.sections
  BY <1>5, <1>6, <1>9 DEF GoodDishes
<1>13. FeaturedOf(t) \subseteq FeaturedOf(d)
  BY <1>5, <1>9 DEF FeaturedOf
<1>14. GoodDishes(t, DOMAIN m.sections)
  BY <1>6, <1>8, <1>11, <1>12, <1>13, FewerAreFeatured DEF GoodDishes
<1> QED BY <1>3, <1>4, <1>14, DishesOfAMenu

\* The items that move up behind one that goes.
MoveUp(d, i, t) ==
    \A x \in DOMAIN d \ {i} :
        t[x] = IF d[x].section = d[i].section THEN CloseGap(d[x], d[i].place) ELSE d[x]

LEMMA DishesMoveUp ==
    ASSUME NEW m, KnownMenu(m), NEW d, d = m.dishes, NEW i \in DOMAIN d, NEW t, MoveUp(d, i, t)
    PROVE  /\ \A x \in DOMAIN d \ {i} : /\ IsRow(t[x], DishFields) /\ t[x].section = d[x].section
                                        /\ t[x].featured = d[x].featured
           /\ \A e \in DOMAIN m.sections : Dense(t, In(d, e) \ {i})
<1>1. /\ \A x \in DOMAIN d : IsRow(d[x], DishFields) /\ d[x].place \in Nat
      /\ \A S \in SUBSET DOMAIN d : IsFiniteSet(S)
      /\ \A e \in DOMAIN m.sections : Dense(d, In(d, e))
  BY DishesOfAMenu DEF GoodDishes
<1>2. \A x \in DOMAIN d \ {i} :
         /\ IsRow(t[x], DishFields)
         /\ t[x].section = d[x].section /\ t[x].featured = d[x].featured
         /\ t[x].place = IF d[x].section = d[i].section /\ d[x].place > d[i].place
                         THEN d[x].place - 1 ELSE d[x].place
  <2> TAKE x \in DOMAIN d \ {i}
  <2>1. IsRow(d[x], DishFields) /\ d[i].place \in Nat /\ "place" \in DishFields
    BY <1>1 DEF DishFields
  <2>2. CASE d[x].section = d[i].section
    <3>1. t[x] = CloseGap(d[x], d[i].place)
      BY <2>2 DEF MoveUp
    <3>2. PICK row : row = d[x]
      OBVIOUS
    <3>3. PICK gap : gap = d[i].place
      OBVIOUS
    <3>4. /\ IsRow(t[x], DishFields)
          /\ t[x].place = IF row.place > gap THEN row.place - 1 ELSE row.place
          /\ \A f \in DishFields \ {"place"} : t[x][f] = row[f]
      BY <2>1, <3>1, <3>2, <3>3, ClosedRow
    <3>5. {"section", "featured"} \subseteq DishFields \ {"place"}
      BY DEF DishFields
    <3> QED BY <2>2, <3>2, <3>3, <3>4, <3>5
  <2>3. CASE d[x].section # d[i].section
    <3>1. t[x] = d[x]
      BY <2>3 DEF MoveUp
    <3> QED BY <2>1, <2>3, <3>1
  <2> QED BY <2>2, <2>3
<1>3. ASSUME NEW e \in DOMAIN m.sections PROVE Dense(t, In(d, e) \ {i})
  <2> PICK S : S = In(d, e)
    OBVIOUS
  <2>1. IsFiniteSet(S) /\ Dense(d, S)
    BY <1>1 DEF In
  <2>2. CASE e = d[i].section
    <3>1. i \in S
      BY <2>2 DEF In
    <3>2. ClosesUp(d, S, i, t)
      BY <1>2, <2>2 DEF In, ClosesUp
    <3>3. Dense(t, S \ {i})
      BY <2>1, <3>1, <3>2, GapIsClosed
    <3> QED BY <3>3
  <2>3. CASE e # d[i].section
    <3>1. S \ {i} = S /\ \A x \in S : t[x].place = d[x].place
      BY <1>2, <2>3 DEF In
    <3>2. Dense(t, S)
      BY <2>1, <3>1, SamePlaces
    <3> QED BY <3>1, <3>2
  <2> QED BY <2>2, <2>3
<1> QED BY <1>2, <1>3

LEMMA ItemIsDeleted ==
    ASSUME NEW m, KnownMenu(m), NEW i, NEW n \in DeleteItem(m, i)
    PROVE  KnownMenu(n)
<1>1. PICK d : d = m.dishes
  OBVIOUS
<1>2. PICK t : t = [j \in DOMAIN d \ {i} |->
                      IF d[j].section = d[i].section THEN CloseGap(d[j], d[i].place) ELSE d[j]]
  OBVIOUS
<1>3. i \in DOMAIN d /\ n = [m EXCEPT !.dishes = t]
  BY <1>1, <1>2 DEF DeleteItem, Refused
<1>4. /\ t = [x \in DOMAIN t |-> t[x]] /\ DOMAIN t = DOMAIN d \ {i}
      /\ MoveUp(d, i, t)
  BY <1>2 DEF MoveUp
<1>5. GoodDishes(d, DOMAIN m.sections) /\ IsTable(d, Dishes, DishFields)
  BY <1>1, DishesOfAMenu DEF GoodDishes
<1>6. /\ \A x \in DOMAIN d \ {i} : /\ IsRow(t[x], DishFields) /\ t[x].section = d[x].section
                                   /\ t[x].featured = d[x].featured
      /\ \A e \in DOMAIN m.sections : Dense(t, In(d, e) \ {i})
  <2>1. PICK j \in DOMAIN d : j = i
    BY <1>3
  <2>2. MoveUp(d, j, t)
    BY <1>4, <2>1
  <2>3. /\ \A x \in DOMAIN d \ {j} : /\ IsRow(t[x], DishFields) /\ t[x].section = d[x].section
                                     /\ t[x].featured = d[x].featured
        /\ \A e \in DOMAIN m.sections : Dense(t, In(d, e) \ {j})
    BY <1>1, <2>1, <2>2, DishesMoveUp
  <2> QED BY <2>1, <2>3
<1>7. \A e : In(t, e) = In(d, e) \ {i}
  BY <1>4, <1>6 DEF In
<1>8. FeaturedOf(t) \subseteq FeaturedOf(d)
  BY <1>4, <1>6 DEF FeaturedOf
<1>9. IsTable(t, Dishes, DishFields)
  BY <1>4, <1>5, <1>6 DEF IsTable
<1>10. GoodDishes(t, DOMAIN m.sections)
  BY <1>4, <1>5, <1>6, <1>7, <1>8, <1>9, FewerAreFeatured DEF GoodDishes
<1> QED BY <1>3, <1>10, DishesOfAMenu

LEMMA ItemIsMoved ==
    ASSUME NEW m, KnownMenu(m), NEW i \in DOMAIN m.dishes, NEW c \in DOMAIN m.sections,
           c # m.dishes[i].section
    PROVE  /\ GoodDishes(MovedTo(m, i, c), DOMAIN m.sections)
           /\ DOMAIN MovedTo(m, i, c) = DOMAIN m.dishes
           /\ MovedTo(m, i, c)[i].section = c
           /\ \A x \in DOMAIN m.dishes : MovedTo(m, i, c)[x].featured = m.dishes[x].featured
<1>1. PICK d : d = m.dishes
  OBVIOUS
<1>2. PICK t : t = MovedTo(m, i, c)
  OBVIOUS
<1>3. /\ t = [x \in DOMAIN t |-> t[x]] /\ DOMAIN t = DOMAIN d
      /\ MoveUp(d, i, t)
      /\ t[i] = [d[i] EXCEPT !.section = c, !.place = Cardinality(In(d, c))]
  BY <1>1, <1>2 DEF MovedTo, In, DishesIn, MoveUp
<1>4. /\ GoodDishes(d, DOMAIN m.sections) /\ IsTable(d, Dishes, DishFields)
      /\ IsRow(d[i], DishFields) /\ i \in DOMAIN d /\ c # d[i].section
  BY <1>1, DishesOfAMenu DEF GoodDishes
<1>13. \A e : In(d, e) \subseteq DOMAIN d /\ IsFiniteSet(In(d, e)) /\ Cardinality(In(d, e)) \in Nat
  BY <1>1, DishesOfAMenu DEF In
<1>5. /\ \A x \in DOMAIN d \ {i} : /\ IsRow(t[x], DishFields) /\ t[x].section = d[x].section
                                   /\ t[x].featured = d[x].featured
      /\ \A e \in DOMAIN m.sections : Dense(t, In(d, e) \ {i})
  <2>1. KnownMenu(m) /\ d = m.dishes /\ i \in DOMAIN d /\ MoveUp(d, i, t)
    BY <1>1, <1>3, <1>4
  <2>2. \A e \in DOMAIN m.sections : Dense(t, In(d, e) \ {i})
    BY <2>1, DishesMoveUp
  <2>3. ASSUME NEW x \in DOMAIN d \ {i}
        PROVE  IsRow(t[x], DishFields) /\ t[x].section = d[x].section /\ t[x].featured = d[x].featured
    BY <2>1, DishesMoveUp
  <2> QED BY <2>2, <2>3
<1>6. /\ IsRow(t[i], DishFields) /\ t[i].section = c /\ t[i].place = Cardinality(In(d, c))
      /\ t[i].featured = d[i].featured
  <2>1. PICK k \in Nat : k = Cardinality(In(d, c))
    BY <1>13
  <2>2. PICK r : r = d[i]
    OBVIOUS
  <2>3. /\ t[i] = [r EXCEPT !.section = c, !.place = k]
        /\ r = [f \in DishFields |-> r[f]]
    BY <1>3, <1>4, <2>1, <2>2 DEF IsRow
  <2>4. DOMAIN r = DishFields
    BY <2>3
  <2>5. /\ t[i] = [f \in DishFields |-> t[i][f]] /\ t[i].section = c /\ t[i].place = k
        /\ t[i].featured = r.featured
    BY <2>3, <2>4 DEF DishFields
  <2> QED BY <2>1, <2>2, <2>5 DEF IsRow
<1>7. i \notin In(d, c) /\ \A e : In(t, e) = IF e = c THEN In(d, c) \cup {i} ELSE In(d, e) \ {i}
  BY <1>3, <1>4, <1>5, <1>6 DEF In
<1>8. ASSUME NEW e \in DOMAIN m.sections PROVE Dense(t, In(t, e))
  <2>1. Dense(t, In(d, e) \ {i})
    BY <1>5
  <2>2. CASE e = c
    <3>1. Dense(t, In(d, c))
      <4>1. In(d, c) \ {i} = In(d, c)
        BY <1>7
      <4> QED BY <2>1, <2>2, <4>1
    <3>2. Dense(t, In(d, c) \cup {i})
      BY <1>6, <1>7, <1>13, <3>1, PlacedLast
    <3> QED BY <1>7, <2>2, <3>2
  <2>3. CASE e # c
    BY <1>7, <2>1, <2>3
  <2> QED BY <2>2, <2>3
<1>9. IsTable(t, Dishes, DishFields)
  BY <1>3, <1>4, <1>5, <1>6 DEF IsTable
<1>10. FeaturedOf(t) \subseteq FeaturedOf(d)
  BY <1>3, <1>5, <1>6 DEF FeaturedOf
<1>11. \A x \in DOMAIN t : t[x].section \in DOMAIN m.sections
  BY <1>3, <1>4, <1>5, <1>6 DEF GoodDishes
<1>12. GoodDishes(t, DOMAIN m.sections)
  BY <1>4, <1>8, <1>9, <1>10, <1>11, FewerAreFeatured DEF GoodDishes
<1> QED BY <1>1, <1>2, <1>3, <1>5, <1>6, <1>12

LEMMA ItemIsMerged ==
    ASSUME NEW u, NEW cs, GoodDishes(u, cs), NEW i \in DOMAIN u,
           NEW change_, "place" \notin DOMAIN change_,
           "section" \in DOMAIN change_ => change_.section = u[i].section,
           NEW limited, limited = Cardinality(FeaturedOf(u)),
           "featured" \in DOMAIN change_ /\ change_.featured /\ ~u[i].featured => limited < FeaturedLimit
    PROVE  GoodDishes([u EXCEPT ![i] = Merge(u[i], change_)], cs)
<1>1. PICK t : t = [u EXCEPT ![i] = Merge(u[i], change_)]
  OBVIOUS
<1>2. IsTable(u, Dishes, DishFields) /\ IsRow(u[i], DishFields)
  BY DEF GoodDishes, IsTable
<1>3. /\ t = [x \in DOMAIN t |-> t[x]] /\ DOMAIN t = DOMAIN u
      /\ \A x \in DOMAIN u \ {i} : t[x] = u[x]
      /\ t[i] = Merge(u[i], change_)
  BY <1>1, <1>2 DEF IsTable
<1>4. /\ IsRow(t[i], DishFields) /\ t[i].place = u[i].place
      /\ \A f \in DishFields : t[i][f] = IF f \in DOMAIN change_ THEN change_[f] ELSE u[i][f]
  BY <1>2, <1>3, MergedRow DEF DishFields
<1>5. /\ t[i].section = u[i].section
      /\ t[i].featured = IF "featured" \in DOMAIN change_ THEN change_.featured ELSE u[i].featured
  BY <1>4 DEF DishFields
<1>6. IsTable(t, Dishes, DishFields)
  BY <1>2, <1>3, <1>4 DEF IsTable
<1>7. \A c : In(t, c) = In(u, c)
  BY <1>3, <1>5 DEF In
<1>8. ASSUME NEW c \in cs PROVE Dense(t, In(t, c))
  <2>1. Dense(u, In(u, c)) /\ \A x \in In(u, c) : t[x].place = u[x].place
    BY <1>3, <1>4 DEF GoodDishes, In
  <2>2. Dense(t, In(u, c))
    BY <2>1, SamePlaces
  <2> QED BY <1>7, <2>2
<1>9. /\ FeaturedOf(u) \subseteq DOMAIN u /\ IsFiniteSet(FeaturedOf(u)) /\ limited \in Nat
      /\ limited <= FeaturedLimit
  <2>1. FeaturedOf(u) \subseteq DOMAIN u
    BY DEF FeaturedOf
  <2>2. IsFiniteSet(FeaturedOf(u)) /\ Cardinality(FeaturedOf(u)) \in Nat
    BY <1>2, <2>1, TablesAreFinite
  <2> QED BY <2>1, <2>2 DEF GoodDishes
<1>10. Cardinality(FeaturedOf(t)) <= FeaturedLimit
  <2>1. CASE "featured" \in DOMAIN change_ /\ change_.featured /\ ~u[i].featured
    <3>1. FeaturedOf(t) \subseteq FeaturedOf(u) \cup {i}
      BY <1>3 DEF FeaturedOf
    <3>2. /\ IsFiniteSet(FeaturedOf(u) \cup {i})
          /\ Cardinality(FeaturedOf(u) \cup {i}) = IF i \in FeaturedOf(u) THEN limited ELSE limited + 1
      BY <1>9, FS_AddElement
    <3>3. /\ IsFiniteSet(FeaturedOf(t)) /\ Cardinality(FeaturedOf(t)) \in Nat
          /\ Cardinality(FeaturedOf(t)) <= Cardinality(FeaturedOf(u) \cup {i})
      BY <3>1, <3>2, FS_Subset, FS_CardinalityType
    <3> QED BY <1>9, <2>1, <3>2, <3>3, CatalogConstants
  <2>2. CASE ~("featured" \in DOMAIN change_ /\ change_.featured /\ ~u[i].featured)
    <3>1. FeaturedOf(t) \subseteq FeaturedOf(u)
      BY <1>3, <1>5, <2>2 DEF FeaturedOf
    <3> QED BY <1>2, <1>9, <3>1, FewerAreFeatured
  <2> QED BY <2>1, <2>2
<1>11. \A x \in DOMAIN t : t[x].section \in cs
  BY <1>3, <1>5 DEF GoodDishes
<1> QED BY <1>1, <1>6, <1>8, <1>10, <1>11 DEF GoodDishes

LEMMA ItemIsUpdated ==
    ASSUME NEW m, KnownMenu(m), NEW i, NEW change_, "place" \notin DOMAIN change_,
           NEW n \in UpdateItem(m, i, change_)
    PROVE  KnownMenu(n)
<1> DEFINE moving == "section" \in DOMAIN change_ /\ change_.section # m.dishes[i].section
           featuring == "featured" \in DOMAIN change_ /\ change_.featured /\ ~m.dishes[i].featured
<1>1. PICK u : u = IF moving THEN MovedTo(m, i, change_.section) ELSE m.dishes
  OBVIOUS
<1>2. /\ i \in DOMAIN m.dishes
      /\ moving => change_.section \in DOMAIN m.sections
      /\ featuring => ~(Cardinality(Featured(m)) >= FeaturedLimit)
      /\ n = [m EXCEPT !.dishes = [u EXCEPT ![i] = Merge(u[i], change_)]]
  BY <1>1 DEF UpdateItem, Refused
<1>3. /\ GoodDishes(u, DOMAIN m.sections) /\ DOMAIN u = DOMAIN m.dishes
      /\ "section" \in DOMAIN change_ => change_.section = u[i].section
      /\ \A x \in DOMAIN m.dishes : u[x].featured = m.dishes[x].featured
  <2>1. CASE moving
    BY <1>1, <1>2, <2>1, ItemIsMoved
  <2>2. CASE ~moving
    BY <1>1, <2>2, DishesOfAMenu
  <2> QED BY <2>1, <2>2
<1>4. FeaturedOf(u) = Featured(m)
  BY <1>3 DEF FeaturedOf, Featured
<1>5. PICK k \in Nat : k = Cardinality(FeaturedOf(u))
  <2>1. Featured(m) \subseteq DOMAIN m.dishes
    BY DEF Featured
  <2> QED BY <1>4, <2>1, DishesOfAMenu
<1>6. "featured" \in DOMAIN change_ /\ change_.featured /\ ~u[i].featured => k < FeaturedLimit
  BY <1>2, <1>3, <1>4, <1>5, CatalogConstants
<1>7. GoodDishes([u EXCEPT ![i] = Merge(u[i], change_)], DOMAIN m.sections)
  BY <1>2, <1>3, <1>5, <1>6, ItemIsMerged
<1> QED BY <1>2, <1>7, DishesOfAMenu

LEMMA ItemIsSoldOut ==
    ASSUME NEW m, KnownMenu(m), NEW i, NEW available, NEW n \in SetAvailability(m, i, available)
    PROVE  KnownMenu(n)
<1>1. PICK d : d = m.dishes
  OBVIOUS
<1>2. PICK t : t = [d EXCEPT ![i] = Merge(d[i], [f \in {"available"} |-> available])]
  OBVIOUS
<1>3. /\ i \in DOMAIN d /\ n = [m EXCEPT !.dishes[i].available = available]
      /\ m = [sections |-> m.sections, dishes |-> d]
  BY <1>1 DEF SetAvailability, Refused, KnownMenu
<1>4. /\ GoodDishes(d, DOMAIN m.sections)
      /\ d[i] = [f \in DishFields |-> d[i][f]]
  <2>1. GoodDishes(d, DOMAIN m.sections) /\ IsRow(d[i], DishFields)
    BY <1>1, <1>3, DishesOfAMenu
  <2> QED BY <2>1 DEF IsRow
<1>5. Merge(d[i], [f \in {"available"} |-> available]) = [d[i] EXCEPT !.available = available]
  BY <1>4 DEF Merge, DishFields
<1>6. n = [m EXCEPT !.dishes = t]
  BY <1>2, <1>3, <1>5
<1>7. GoodDishes(t, DOMAIN m.sections)
  BY <1>2, <1>3, <1>4, ItemIsMerged
<1> QED BY <1>6, <1>7, DishesOfAMenu

LEMMA ItemsAreReordered ==
    ASSUME NEW m, KnownMenu(m), NEW c, NEW order_, NEW n \in ReorderItems(m, c, order_)
    PROVE  KnownMenu(n)
<1>1. PICK d : d = m.dishes
  OBVIOUS
<1>2. PICK t : t = [i \in DOMAIN d |-> IF d[i].section # c THEN d[i]
                                       ELSE [d[i] EXCEPT !.place = IndexOf(order_, i) - 1]]
  OBVIOUS
<1>3. n = [m EXCEPT !.dishes = t] /\ c \in DOMAIN m.sections /\ Arranges(order_, In(d, c))
  BY <1>1, <1>2 DEF ReorderItems, Refused, In, DishesIn
<1>4. /\ t = [x \in DOMAIN t |-> t[x]] /\ DOMAIN t = DOMAIN d
      /\ \A x \in DOMAIN d : d[x].section # c => t[x] = d[x]
      /\ \A x \in In(d, c) : t[x] = [d[x] EXCEPT !.place = IndexOf(order_, x) - 1]
  BY <1>2 DEF In
<1>5. /\ GoodDishes(d, DOMAIN m.sections) /\ IsTable(d, Dishes, DishFields)
      /\ IsFiniteSet(In(d, c))
  <2>1. In(d, c) \subseteq DOMAIN d
    BY DEF In
  <2> QED BY <1>1, <2>1, DishesOfAMenu DEF GoodDishes
<1>6. \A x \in DOMAIN d : d[x] = [f \in DishFields |-> d[x][f]] /\ d[x].place \in Nat
  BY <1>5 DEF IsTable, IsRow
<1>7. \A x \in In(d, c) :
         /\ t[x] = [f \in DishFields |-> t[x][f]]
         /\ t[x].place = IndexOf(order_, x) - 1
         /\ t[x].section = d[x].section /\ t[x].featured = d[x].featured
  BY <1>4, <1>6 DEF In, DishFields
<1>8. Dense(t, In(d, c)) /\ \A x \in In(d, c) : t[x].place \in Nat
  <2>1. \A x \in In(d, c) : t[x].place = IndexOf(order_, x) - 1
    BY <1>7
  <2> QED BY <1>3, <1>5, <2>1, ArrangedIsFilled
<1>9. \A x \in DOMAIN d : /\ IsRow(t[x], DishFields) /\ t[x].section = d[x].section
                          /\ t[x].featured = d[x].featured
  BY <1>4, <1>6, <1>7, <1>8 DEF In, IsRow
<1>10. \A e : In(t, e) = In(d, e)
  BY <1>4, <1>9 DEF In
<1>11. ASSUME NEW e \in DOMAIN m.sections PROVE Dense(t, In(t, e))
  <2>1. CASE e = c
    BY <1>8, <1>10, <2>1
  <2>2. CASE e # c
    <3>1. Dense(d, In(d, e)) /\ \A x \in In(d, e) : t[x].place = d[x].place
      BY <1>4, <1>5, <2>2 DEF GoodDishes, In
    <3>2. Dense(t, In(d, e))
      BY <3>1, SamePlaces
    <3> QED BY <1>10, <3>2
  <2> QED BY <2>1, <2>2
<1>12. IsTable(t, Dishes, DishFields)
  BY <1>4, <1>5, <1>9 DEF IsTable
<1>13. FeaturedOf(t) \subseteq FeaturedOf(d)
  BY <1>4, <1>9 DEF FeaturedOf
<1>14. \A x \in DOMAIN t : t[x].section \in DOMAIN m.sections
  BY <1>4, <1>5, <1>9 DEF GoodDishes
<1>15. GoodDishes(t, DOMAIN m.sections)
  BY <1>5, <1>11, <1>12, <1>13, <1>14, FewerAreFeatured DEF GoodDishes
<1> QED BY <1>3, <1>15, DishesOfAMenu

\* What is asked of the server never says where a row is to be.
AsksNoPlace(q) == q.do \in {"updateCategory", "updateItem"} => "place" \notin DOMAIN q.change

LEMMA CommandsKeepMenus ==
    ASSUME NEW m, KnownMenu(m), NEW q, AsksNoPlace(q),
           q.do \in {"createCategory", "updateCategory", "deleteCategory", "reorderCategories",
                     "createItem", "updateItem", "deleteItem", "reorderItems", "setAvailability"},
           NEW n \in Run(m, q)
    PROVE  KnownMenu(n)
<1>1. CASE q.do = "createCategory"
  BY <1>1, CategoryIsCreated DEF Run
<1>2. CASE q.do = "updateCategory"
  BY <1>2, CategoryIsUpdated DEF Run, AsksNoPlace
<1>3. CASE q.do = "deleteCategory"
  BY <1>3, CategoryIsDeleted DEF Run
<1>4. CASE q.do = "reorderCategories"
  BY <1>4, CategoriesAreReordered DEF Run
<1>5. CASE q.do = "createItem"
  BY <1>5, ItemIsCreated DEF Run
<1>6. CASE q.do = "updateItem"
  BY <1>6, ItemIsUpdated DEF Run, AsksNoPlace
<1>7. CASE q.do = "deleteItem"
  BY <1>7, ItemIsDeleted DEF Run
<1>8. CASE q.do = "reorderItems"
  BY <1>8, ItemsAreReordered DEF Run
<1>9. CASE q.do = "setAvailability"
  BY <1>9, ItemIsSoldOut DEF Run
<1> QED BY <1>1, <1>2, <1>3, <1>4, <1>5, <1>6, <1>7, <1>8, <1>9

-----------------------------------------------------------------------------
(* The pages that send the commands.                                         *)

MenuCommands == {"createCategory", "updateCategory", "deleteCategory", "reorderCategories",
                 "createItem", "updateItem", "deleteItem", "reorderItems", "setAvailability"}
IsCommand(q) == q.do \in MenuCommands /\ AsksNoPlace(q)

CallIsKnown == Pending => {"q", "phase"} \subseteq DOMAIN call /\ IsCommand(call.q)
DialogIsKnown ==
    dialog.mode = "edit" =>
        {"mode", "was"} \subseteq DOMAIN dialog /\ DOMAIN dialog.was \subseteq {"title", "visible"}

MenuKnows == KnownMenu(catalog) /\ CallIsKnown /\ DialogIsKnown

LEMMA ElsewhereAsksNoPlace == \A q \in Elsewhere(catalog) : IsCommand(q)
<1> TAKE q \in Elsewhere(catalog)
<1>1. \/ \E t \in Titles : q = [do |-> "createCategory", title |-> t]
      \/ \E c \in Categories : \E change_ \in [{"title"} -> Titles] \cup [{"visible"} -> BOOLEAN] :
            q = [do |-> "updateCategory", category |-> c, change |-> change_]
      \/ \E c \in Categories : q = [do |-> "deleteCategory", category |-> c]
      \/ q = [do |-> "reorderCategories", order |-> Reverse(CategoryOrder(catalog))]
      \/ \E c \in Categories : q = [do |-> "createItem", category |-> c]
      \/ \E i \in Dishes : \E c \in Categories :
            q = [do |-> "updateItem", item |-> i, change |-> [section |-> c]]
      \/ \E i \in Dishes : q = [do |-> "deleteItem", item |-> i]
      \/ \E c \in Categories :
            q = [do |-> "reorderItems", category |-> c, order |-> Reverse(DishOrder(catalog, c))]
  BY DEF Elsewhere
<1>2. ASSUME NEW c, NEW change_ \in [{"title"} -> Titles] \cup [{"visible"} -> BOOLEAN],
             q = [do |-> "updateCategory", category |-> c, change |-> change_]
      PROVE  IsCommand(q)
  BY <1>2 DEF IsCommand, MenuCommands, AsksNoPlace
<1>3. ASSUME NEW i, NEW c, q = [do |-> "updateItem", item |-> i, change |-> [section |-> c]]
      PROVE  IsCommand(q)
  BY <1>3 DEF IsCommand, MenuCommands, AsksNoPlace
<1>4. ASSUME q.do \in MenuCommands \ {"updateCategory", "updateItem"} PROVE IsCommand(q)
  BY <1>4 DEF IsCommand, AsksNoPlace
<1>5. CASE \E t \in Titles : q = [do |-> "createCategory", title |-> t]
  BY <1>4, <1>5 DEF MenuCommands
<1>6. CASE \E c \in Categories : q = [do |-> "deleteCategory", category |-> c]
  BY <1>4, <1>6 DEF MenuCommands
<1>7. CASE q = [do |-> "reorderCategories", order |-> Reverse(CategoryOrder(catalog))]
  BY <1>4, <1>7 DEF MenuCommands
<1>8. CASE \E c \in Categories : q = [do |-> "createItem", category |-> c]
  BY <1>4, <1>8 DEF MenuCommands
<1>9. CASE \E i \in Dishes : q = [do |-> "deleteItem", item |-> i]
  BY <1>4, <1>9 DEF MenuCommands
<1>10. CASE \E c \in Categories :
              q = [do |-> "reorderItems", category |-> c, order |-> Reverse(DishOrder(catalog, c))]
  BY <1>4, <1>10 DEF MenuCommands
<1> QED BY <1>1, <1>2, <1>3, <1>5, <1>6, <1>7, <1>8, <1>9, <1>10

LEMMA MenuIsKept ==
    ASSUME MenuKnows, ChangeElsewhere \/ RunMenuCommand
    PROVE  KnownMenu(catalog')
<1>1. CASE ChangeElsewhere
  <2>1. PICK q \in Elsewhere(catalog) : catalog' \in Run(catalog, q)
    BY <1>1 DEF ChangeElsewhere
  <2>2. IsCommand(q)
    BY <2>1, ElsewhereAsksNoPlace
  <2> QED BY <2>1, <2>2, CommandsKeepMenus DEF MenuKnows, IsCommand, MenuCommands
<1>2. CASE RunMenuCommand
  <2>1. catalog' \in Run(catalog, call.q) \/ catalog' = catalog
    BY <1>2 DEF RunMenuCommand
  <2>2. IsCommand(call.q)
    BY <1>2 DEF RunMenuCommand, MenuKnows, CallIsKnown
  <2> QED BY <2>1, <2>2, CommandsKeepMenus DEF MenuKnows, IsCommand, MenuCommands
<1> QED BY <1>1, <1>2

\* What a command carries goes on with it until it is forgotten.
CallGoesOn ==
    \/ UNCHANGED call
    \/ call' = Idle
    \/ \E phase : Pending /\ call' = [call EXCEPT !.phase = phase]
    \/ Pending /\ \E phase : call' = [q |-> call.q, phase |-> phase]
    \/ Pending /\ \E phase, reply : call' = [q |-> call.q, phase |-> phase, answer |-> reply]
    \/ \E q : IsCommand(q) /\ call' = Asked(q)

LEMMA CallStaysKnown ==
    ASSUME CallIsKnown, CallGoesOn
    PROVE  CallIsKnown'
<1>1. ASSUME NEW c, c # Idle => {"q", "phase"} \subseteq DOMAIN c /\ IsCommand(c.q), call' = c
      PROVE  CallIsKnown'
  BY <1>1 DEF CallIsKnown, Pending
<1>2. CASE UNCHANGED call \/ call' = Idle
  BY <1>1, <1>2 DEF CallIsKnown, Pending
<1>3. ASSUME NEW phase, Pending, call' = [call EXCEPT !.phase = phase] PROVE CallIsKnown'
  <2>1. PICK c : c = [call EXCEPT !.phase = phase]
    OBVIOUS
  <2>2. DOMAIN c = DOMAIN call /\ c.q = call.q
    BY <1>3, <2>1 DEF CallIsKnown
  <2> QED BY <1>1, <1>3, <2>1, <2>2 DEF CallIsKnown
<1>4. ASSUME NEW phase, Pending, call' = [q |-> call.q, phase |-> phase] PROVE CallIsKnown'
  BY <1>1, <1>4 DEF CallIsKnown
<1>5. ASSUME NEW phase, NEW reply, Pending, call' = [q |-> call.q, phase |-> phase, answer |-> reply]
      PROVE  CallIsKnown'
  BY <1>1, <1>5 DEF CallIsKnown
<1>6. ASSUME NEW q, IsCommand(q), call' = Asked(q) PROVE CallIsKnown'
  BY <1>1, <1>6 DEF Asked
<1> QED BY <1>2, <1>3, <1>4, <1>5, <1>6 DEF CallGoesOn

DialogGoesOn ==
    \/ UNCHANGED dialog
    \/ dialog'.mode # "edit"
    \/ \E c, row, form : dialog' = Editing(c, FieldsOf(row), form)
    \/ dialog.mode = "edit" /\ \E form : dialog' = [dialog EXCEPT !.form = form]

LEMMA DialogStaysKnown ==
    ASSUME DialogIsKnown, DialogGoesOn
    PROVE  DialogIsKnown'
<1>1. CASE \E c, row, form : dialog' = Editing(c, FieldsOf(row), form)
  <2>1. PICK c, row, form : dialog' = [mode |-> "edit", category |-> c,
                                       was |-> [title |-> row.title, visible |-> row.visible], form |-> form]
    BY <1>1 DEF Editing, FieldsOf
  <2> QED BY <2>1 DEF DialogIsKnown
<1>2. CASE dialog.mode = "edit" /\ \E form : dialog' = [dialog EXCEPT !.form = form]
  BY <1>2 DEF DialogIsKnown
<1> QED BY <1>1, <1>2 DEF DialogGoesOn, DialogIsKnown

LEMMA SendingIsKnown ==
    ASSUME MenuKnows,
           \/ SubmitCategory \/ ConfirmDelete \/ SaveOrder \/ (\E i \in Dishes : ToggleAvailability(i))
           \/ Save \/ Add \/ Toggle \/ DeleteThis \/ AddSection
    PROVE  CallGoesOn
<1>1. \A q : q.do \in MenuCommands \ {"updateCategory", "updateItem"} => IsCommand(q)
  BY DEF IsCommand, AsksNoPlace
<1>2. CASE SubmitCategory
  <2>1. ASSUME dialog.mode = "edit", call' = Asked([do |-> "updateCategory", category |-> dialog.category,
                       change |-> Changes(dialog.was, dialog.form)])
        PROVE  CallGoesOn
    <3>1. DOMAIN Changes(dialog.was, dialog.form) \subseteq {"title", "visible"}
      BY <2>1 DEF Changes, MenuKnows, DialogIsKnown
    <3>2. PICK q : q = [do |-> "updateCategory", category |-> dialog.category,
                       change |-> Changes(dialog.was, dialog.form)]
      OBVIOUS
    <3>3. IsCommand(q)
      BY <3>1, <3>2 DEF IsCommand, MenuCommands, AsksNoPlace
    <3> QED BY <2>1, <3>2, <3>3 DEF CallGoesOn
  <2>2. ASSUME call' = Asked([do |-> "createCategory", title |-> dialog.form.title]) PROVE CallGoesOn
    <3>1. PICK q : q = [do |-> "createCategory", title |-> dialog.form.title]
      OBVIOUS
    <3>2. IsCommand(q)
      BY <1>1, <3>1 DEF MenuCommands
    <3> QED BY <2>2, <3>1, <3>2 DEF CallGoesOn
  <2>3. \/ UNCHANGED call
        \/ call' = Asked([do |-> "createCategory", title |-> dialog.form.title])
        \/ dialog.mode = "edit" /\ call' = Asked([do |-> "updateCategory", category |-> dialog.category,
                       change |-> Changes(dialog.was, dialog.form)])
    BY <1>2 DEF SubmitCategory
  <2> QED BY <2>1, <2>2, <2>3 DEF CallGoesOn
<1>3. CASE Save
  <2>1. DOMAIN Update(values, Item) \subseteq {"section", "featured"}
    BY DEF Update, Changes, ValuesOf
  <2>2. PICK q : q = [do |-> "updateItem", item |-> page, change |-> Update(values, Item),
                      over |-> ValuesOf(Item)]
    OBVIOUS
  <2>3. IsCommand(q)
    BY <2>1, <2>2 DEF IsCommand, MenuCommands, AsksNoPlace
  <2> QED BY <1>3, <2>2, <2>3 DEF Save, Ask, CallGoesOn
<1>4. ASSUME NEW q, q.do \in MenuCommands \ {"updateCategory", "updateItem"}, call' = Asked(q)
      PROVE  CallGoesOn
  BY <1>1, <1>4 DEF CallGoesOn
<1>5. CASE \/ ConfirmDelete \/ (\E i \in Dishes : ToggleAvailability(i))
           \/ Add \/ Toggle \/ DeleteThis \/ AddSection
  BY <1>4, <1>5 DEF ConfirmDelete, ToggleAvailability, Add, Toggle, DeleteThis, AddSection, Ask,
     MenuCommands
<1>6. CASE SaveOrder
  BY <1>4, <1>6 DEF SaveOrder, MenuCommands
<1> QED BY <1>2, <1>3, <1>5, <1>6

\* Each step of the two pages, by what it does to the menu, the command under way
\* and the dialog.
LEMMA MenuStep ==
    ASSUME MenuKnows, MenuDeskNext \/ ItemDeskNext
    PROVE  MenuKnows'
<1>1. KnownMenu(catalog')
  <2>1. CASE ChangeElsewhere \/ RunMenuCommand
    BY <2>1, MenuIsKept
  <2>2. CASE UNCHANGED catalog
    BY <2>2 DEF MenuKnows
  <2>3. ChangeElsewhere \/ RunMenuCommand \/ UNCHANGED catalog
    <3>1. CASE MenuDeskNext
      BY <3>1 DEF MenuDeskNext, LoseMenuCommand, LandTree, FailTree, AskAgain, OpenCategoryDialog,
         TypeInDialog, CancelDialog, SubmitCategory, ConfirmDelete, ToggleAvailability, Search,
         StartArranging, CancelArranging, MoveEntry, SaveOrder, TakeNewOrder, RefuseOrder,
         TakeSuccess, Settle, TakeFailure
    <3>2. CASE ItemDeskNext
      BY <3>2 DEF ItemDeskNext, LoseMenuCommand, LandTree, FailTree, AskAgain, ReadItem, FailToRead,
         Type, Discard, Save, Add, Toggle, DeleteThis, AddSection, Ask, OpenAside, CancelAside, Leave,
         ReadAgainFirst, TakeSuccess, Answered, Saved, Added, Deleted, SectionAdded, Toggled, Failed,
         Unheard, menuDeskVars
    <3> QED BY <3>1, <3>2
  <2> QED BY <2>1, <2>2, <2>3
<1>2. CallGoesOn
  <2>1. CASE RunMenuCommand
    BY <2>1 DEF RunMenuCommand, CallGoesOn
  <2>2. CASE LoseMenuCommand
    BY <2>2 DEF LoseMenuCommand, CallGoesOn
  <2>3. CASE TakeSuccess
    BY <2>3 DEF TakeSuccess, CallGoesOn
  <2>4. CASE \/ SubmitCategory \/ ConfirmDelete \/ SaveOrder \/ (\E i \in Dishes : ToggleAvailability(i))
             \/ Save \/ Add \/ Toggle \/ DeleteThis \/ AddSection
    BY <2>4, SendingIsKnown
  <2>5. CASE UNCHANGED call \/ call' = Idle
    BY <2>5 DEF CallGoesOn
  <2>6. CASE MenuDeskNext
    <3>1. \/ RunMenuCommand \/ LoseMenuCommand \/ TakeSuccess
          \/ SubmitCategory \/ ConfirmDelete \/ SaveOrder \/ (\E i \in Dishes : ToggleAvailability(i))
          \/ UNCHANGED call \/ call' = Idle
      BY <2>6 DEF MenuDeskNext, ChangeElsewhere, LandTree, FailTree, AskAgain, OpenCategoryDialog,
         TypeInDialog, CancelDialog, Search, StartArranging, CancelArranging, MoveEntry, TakeNewOrder,
         RefuseOrder, Settle, TakeFailure, menuPage
    <3> QED BY <2>1, <2>2, <2>3, <2>4, <2>5, <3>1
  <2>7. CASE ItemDeskNext
    <3>1. \/ RunMenuCommand \/ LoseMenuCommand \/ TakeSuccess
          \/ Save \/ Add \/ Toggle \/ DeleteThis \/ AddSection
          \/ UNCHANGED call \/ call' = Idle
      BY <2>7 DEF ItemDeskNext, ChangeElsewhere, LandTree, FailTree, AskAgain, ReadItem, FailToRead,
         Type, Discard, OpenAside, CancelAside, Leave, ReadAgainFirst, Answered, Saved, Added,
         Deleted, SectionAdded, Toggled, Failed, Unheard, menuDeskVars
    <3> QED BY <2>1, <2>2, <2>3, <2>4, <2>5, <3>1
  <2> QED BY <2>6, <2>7
<1>3. DialogGoesOn
  <2>1. CASE OpenCategoryDialog
    <3>1. \/ dialog' \in {Adding(t) : t \in Titles}
          \/ dialog' \in {Deleting(c) : c \in {d \in DOMAIN Page.sections : DishesIn(Page, d) = {}}}
          \/ dialog' \in {Editing(c, FieldsOf(Page.sections[c]), FieldsOf(Page.sections[c])) :
                            c \in DOMAIN Page.sections}
      BY <2>1 DEF OpenCategoryDialog
    <3>2. CASE dialog' \in {Adding(t) : t \in Titles}
      BY <3>2 DEF Adding, DialogGoesOn
    <3>3. CASE dialog' \in {Deleting(c) : c \in {d \in DOMAIN Page.sections : DishesIn(Page, d) = {}}}
      BY <3>3 DEF Deleting, DialogGoesOn
    <3>4. CASE dialog' \in {Editing(c, FieldsOf(Page.sections[c]), FieldsOf(Page.sections[c])) :
                            c \in DOMAIN Page.sections}
      <4>1. PICK c \in DOMAIN Page.sections :
               dialog' = Editing(c, FieldsOf(Page.sections[c]), FieldsOf(Page.sections[c]))
        BY <3>4
      <4>2. PICK row, form : row = Page.sections[c] /\ form = FieldsOf(row)
        OBVIOUS
      <4>3. dialog' = Editing(c, FieldsOf(row), form)
        BY <4>1, <4>2
      <4> QED BY <4>3 DEF DialogGoesOn
    <3> QED BY <3>1, <3>2, <3>3, <3>4
  <2>2. CASE TypeInDialog
    BY <2>2 DEF TypeInDialog, DialogGoesOn
  <2>3. CASE UNCHANGED dialog \/ dialog' = NoDialog
    BY <2>3 DEF NoDialog, DialogGoesOn
  <2>4. OpenCategoryDialog \/ TypeInDialog \/ UNCHANGED dialog \/ dialog' = NoDialog
    <3>1. CASE MenuDeskNext
      BY <3>1 DEF MenuDeskNext, ChangeElsewhere, RunMenuCommand, LoseMenuCommand, LandTree, FailTree,
         AskAgain, CancelDialog, SubmitCategory, ConfirmDelete, ToggleAvailability, Search,
         StartArranging, CancelArranging, MoveEntry, SaveOrder, TakeNewOrder, RefuseOrder,
         TakeSuccess, Settle, TakeFailure, menuPage
    <3>2. CASE ItemDeskNext
      BY <3>2 DEF ItemDeskNext, ChangeElsewhere, RunMenuCommand, LoseMenuCommand, LandTree, FailTree,
         AskAgain, ReadItem, FailToRead,
         Type, Discard, Save, Add, Toggle, DeleteThis, AddSection, Ask, OpenAside, CancelAside, Leave,
         ReadAgainFirst, TakeSuccess, Answered, Saved, Added, Deleted, SectionAdded, Toggled, Failed,
         Unheard, menuDeskVars, menuPage
    <3> QED BY <3>1, <3>2
  <2> QED BY <2>1, <2>2, <2>3, <2>4
<1>4. CallIsKnown' /\ DialogIsKnown'
  BY <1>2, <1>3, CallStaysKnown, DialogStaysKnown DEF MenuKnows
<1> QED BY <1>1, <1>4 DEF MenuKnows

LEMMA MenuSteps ==
    [WorkspacesNext]_workspacesVars
        => MenuDeskNext \/ ItemDeskNext \/ UNCHANGED <<catalog, dialog, call>>
BY DEF WorkspacesNext, workspacesVars, itemDeskVars, menuDeskVars, menuPage

LEMMA ModifierSteps ==
    [WorkspacesNext]_workspacesVars => [ItemFields!ModifierNext]_(ItemFields!modifierVars)
BY DEF WorkspacesNext, workspacesVars, modifierDeskVars, ItemFields!modifierVars

LEMMA CatalogInitKnown ==
    ASSUME WorkspacesInit PROVE MenuKnows /\ ItemFields!ModifiersKnow
<1>1. MenuDeskInit /\ ItemFields!ModifierInit
  BY DEF WorkspacesInit, ItemDeskInit
<1>2. MenuKnows
  <2>1. KnownMenu(catalog)
    BY <1>1, StartsAreKnown DEF MenuDeskInit
  <2>2. CallIsKnown /\ DialogIsKnown
    BY <1>1 DEF MenuDeskInit, CallIsKnown, Pending, DialogIsKnown, NoDialog
  <2> QED BY <2>1, <2>2 DEF MenuKnows
<1>3. ItemFields!ModifiersKnow
  BY <1>1, MenusAndModifiers, ItemFields!ModifiersStart
<1> QED BY <1>2, <1>3

(* Whatever administrators do at the same time, the positions of categories, *)
(* items, groups and choices stay 0, 1, 2 and so on, no item loses its       *)
(* category and no choice its group, no name is used twice, no more items    *)
(* are featured than may be, the limits of a group fit each other, and what  *)
(* the section says is wrong with a group is wrong with it.                  *)
THEOREM CatalogKeepsSound == WorkspacesSpec => []CatalogStaysSound
<1>1. WorkspacesInit => MenuKnows /\ ItemFields!ModifiersKnow
  BY CatalogInitKnown
<1>2. MenuKnows /\ [WorkspacesNext]_workspacesVars => MenuKnows'
  <2>1. ASSUME MenuKnows, UNCHANGED <<catalog, dialog, call>> PROVE MenuKnows'
    BY <2>1 DEF MenuKnows, CallIsKnown, Pending, DialogIsKnown
  <2> QED BY <2>1, MenuSteps, MenuStep
<1>3. ItemFields!ModifiersKnow /\ [WorkspacesNext]_workspacesVars => ItemFields!ModifiersKnow'
  BY ModifierSteps, MenusAndModifiers, ItemFields!ModifierStep
<1>4. MenuKnows => MenuStaysSound
  BY KnownIsSound DEF MenuKnows, MenuStaysSound
<1>5. ItemFields!ModifiersKnow => ItemFields!ModifiersStaySound /\ ItemFields!ReasonIsTrue
  BY MenusAndModifiers, ItemFields!KnownModifiersAreSound, ItemFields!KnownReasonsAreTrue
  DEF ItemFields!ModifiersKnow
<1>6. MenuKnows /\ ItemFields!ModifiersKnow => CatalogStaysSound
  BY <1>4, <1>5 DEF CatalogStaysSound
<1> QED BY <1>1, <1>2, <1>3, <1>6, PTL DEF WorkspacesSpec

-----------------------------------------------------------------------------
(* A category that is edited over an older tree.                             *)

\* While a change of a category is under way, the dialog it was made in stays
\* as it was submitted.
EditIsAsked ==
    Pending /\ call.q.do = "updateCategory" =>
        dialog.mode = "edit" /\ call.q.change = Changes(dialog.was, dialog.form)

LEMMA EditStaysAsked ==
    ASSUME MenuKnows, EditIsAsked, MenuDeskNext \/ ItemDeskNext
    PROVE  EditIsAsked'
<1>1. ASSUME call' = Idle PROVE EditIsAsked'
  BY <1>1 DEF EditIsAsked, Pending
<1>2. ASSUME Pending, dialog' = dialog, call'.q = call.q PROVE EditIsAsked'
  BY <1>2 DEF EditIsAsked
<1>3. ASSUME UNCHANGED <<dialog, call>> PROVE EditIsAsked'
  BY <1>3 DEF EditIsAsked, Pending
<1>4. ASSUME ~Pending, call' = call PROVE EditIsAsked'
  BY <1>4 DEF EditIsAsked, Pending
<1>5. ASSUME NEW q, q.do # "updateCategory", call' = Asked(q) PROVE EditIsAsked'
  BY <1>5 DEF EditIsAsked, Asked
<1>6. CASE SubmitCategory
  <2>1. CASE UNCHANGED call
    BY <1>4, <1>6, <2>1 DEF SubmitCategory
  <2>2. CASE dialog.mode = "create" /\ call' = Asked([do |-> "createCategory", title |-> dialog.form.title])
    BY <1>5, <2>2
  <2>3. CASE /\ dialog.mode = "edit" /\ dialog' = dialog
             /\ call' = Asked([do |-> "updateCategory", category |-> dialog.category,
                               change |-> Changes(dialog.was, dialog.form)])
    BY <2>3 DEF EditIsAsked, Asked
  <2> QED BY <1>6, <2>1, <2>2, <2>3 DEF SubmitCategory
<1>7. CASE RunMenuCommand \/ LoseMenuCommand \/ TakeSuccess
  <2>1. Pending /\ dialog' = dialog
    BY <1>7 DEF RunMenuCommand, LoseMenuCommand, TakeSuccess, menuPage
  <2>2. \/ \E phase : call' = [call EXCEPT !.phase = phase]
        \/ \E phase : call' = [q |-> call.q, phase |-> phase]
        \/ \E phase, reply : call' = [q |-> call.q, phase |-> phase, answer |-> reply]
    BY <1>7 DEF RunMenuCommand, LoseMenuCommand, TakeSuccess
  <2>3. {"q", "phase"} \subseteq DOMAIN call
    BY <2>1 DEF MenuKnows, CallIsKnown
  <2>4. call'.q = call.q
    BY <2>2, <2>3
  <2> QED BY <1>2, <2>1, <2>4
<1>8. CASE \/ ConfirmDelete \/ (\E i \in Dishes : ToggleAvailability(i))
           \/ Save \/ Add \/ Toggle \/ DeleteThis \/ AddSection
  BY <1>5, <1>8 DEF ConfirmDelete, ToggleAvailability, Save, Add, Toggle, DeleteThis, AddSection, Ask
<1>9. CASE SaveOrder
  BY <1>5, <1>9 DEF SaveOrder
<1>10. CASE MenuDeskNext
  <2>1. \/ SubmitCategory \/ RunMenuCommand \/ LoseMenuCommand \/ TakeSuccess
        \/ ConfirmDelete \/ (\E i \in Dishes : ToggleAvailability(i)) \/ SaveOrder
        \/ call' = Idle \/ UNCHANGED <<dialog, call>> \/ (~Pending /\ call' = call)
    BY <1>10 DEF MenuDeskNext, ChangeElsewhere, LandTree, FailTree, AskAgain, OpenCategoryDialog,
       TypeInDialog, CancelDialog, Search, StartArranging, CancelArranging, MoveEntry, TakeNewOrder,
       RefuseOrder, Settle, TakeFailure, menuPage
  <2> QED BY <1>1, <1>3, <1>4, <1>6, <1>7, <1>8, <1>9, <2>1
<1>11. CASE ItemDeskNext
  <2>1. \/ RunMenuCommand \/ LoseMenuCommand \/ TakeSuccess
        \/ Save \/ Add \/ Toggle \/ DeleteThis \/ AddSection
        \/ call' = Idle \/ UNCHANGED <<dialog, call>>
    BY <1>11 DEF ItemDeskNext, ChangeElsewhere, LandTree, FailTree, AskAgain, ReadItem, FailToRead,
       Type, Discard, OpenAside, CancelAside, Leave, ReadAgainFirst, Answered, Saved, Added,
       Deleted, SectionAdded, Toggled, Failed, Unheard, menuDeskVars, menuPage
  <2> QED BY <1>1, <1>3, <1>7, <1>8, <2>1
<1> QED BY <1>10, <1>11

LEMMA EditWritesWhatChanged ==
    ASSUME MenuKnows, EditIsAsked, RunMenuCommand, call.q.do = "updateCategory", call'.phase = "done",
           NEW f \in DOMAIN dialog.was, dialog.form[f] = dialog.was[f]
    PROVE  catalog'.sections[call.q.category][f] = catalog.sections[call.q.category][f]
<1>1. PICK change_, c : change_ = Changes(dialog.was, dialog.form) /\ c = call.q.category
  OBVIOUS
<1>2. call.q.change = change_ /\ f \in SectionFields /\ f \notin DOMAIN change_
  BY <1>1 DEF RunMenuCommand, EditIsAsked, MenuKnows, DialogIsKnown, SectionFields, Changes
<1>3. catalog' \in UpdateCategory(catalog, c, change_)
  <2>1. catalog' \in Run(catalog, call.q) \/ call' = [call EXCEPT !.phase = "refused"]
    BY DEF RunMenuCommand
  <2>2. {"q", "phase"} \subseteq DOMAIN call
    BY DEF RunMenuCommand, MenuKnows, CallIsKnown
  <2>3. catalog' \in Run(catalog, call.q)
    BY <2>1, <2>2
  <2> QED BY <1>1, <1>2, <2>3 DEF Run
<1>4. /\ c \in DOMAIN catalog.sections
      /\ catalog' = [catalog EXCEPT !.sections[c] = Merge(catalog.sections[c], change_)]
  BY <1>3 DEF UpdateCategory, Refused
<1>5. GoodSections(catalog.sections) /\ catalog = [sections |-> catalog.sections, dishes |-> catalog.dishes]
  BY DEF MenuKnows, KnownMenu
<1>6. IsRow(catalog.sections[c], SectionFields)
  BY <1>4, <1>5 DEF GoodSections, IsTable
<1>7. catalog'.sections[c] = Merge(catalog.sections[c], change_)
  BY <1>4, <1>5
<1>8. Merge(catalog.sections[c], change_)[f] = catalog.sections[c][f]
  BY <1>2, <1>6 DEF IsRow, Merge
<1> QED BY <1>1, <1>7, <1>8

(* A category that is edited over an older tree keeps what another           *)
(* administrator has made of the fields that were left alone in the dialog.  *)
THEOREM EditsKeepTheRest == WorkspacesSpec => EditKeepsTheRest
<1> DEFINE Kept == RunMenuCommand /\ call.q.do = "updateCategory" /\ call'.phase = "done" =>
                     \A f \in DOMAIN dialog.was :
                        dialog.form[f] = dialog.was[f]
                           => catalog'.sections[call.q.category][f] = catalog.sections[call.q.category][f]
<1>1. WorkspacesInit => MenuKnows /\ EditIsAsked
  BY CatalogInitKnown DEF WorkspacesInit, ItemDeskInit, MenuDeskInit, EditIsAsked, Pending
<1>2. MenuKnows /\ EditIsAsked /\ [WorkspacesNext]_workspacesVars => MenuKnows' /\ EditIsAsked'
  <2>1. ASSUME MenuKnows, EditIsAsked, UNCHANGED <<catalog, dialog, call>>
        PROVE  MenuKnows' /\ EditIsAsked'
    BY <2>1 DEF MenuKnows, CallIsKnown, Pending, DialogIsKnown, EditIsAsked
  <2> QED BY <2>1, MenuSteps, MenuStep, EditStaysAsked
<1>3. MenuKnows /\ EditIsAsked => Kept
  BY EditWritesWhatChanged
<1>4. MenuKnows /\ EditIsAsked => [Kept]_menuDeskVars
  BY <1>3
<1> QED BY <1>1, <1>2, <1>4, PTL DEF WorkspacesSpec, EditKeepsTheRest

-----------------------------------------------------------------------------
(* The editor of an item has taken the values of the tree, as long as the      *)
(* tree has the item.                                                          *)

IsAQuery(q) == DOMAIN q = {"data", "failed", "flight"}

TakesTheTree ==
    /\ IsAQuery(tree)
    /\ desk # "item" => page = New
    /\ ItemFound(tree) => adopted = ItemOfTree(tree)

LEMMA QueriesKeepData ==
    ASSUME NEW q, IsAQuery(q), NEW now_
    PROVE  /\ IsAQuery(Refetch(q, now_)) /\ Refetch(q, now_).data = q.data
           /\ IsAQuery(Fail(q)) /\ Fail(q).data = q.data
           /\ IsAQuery(Land(q, now_)) /\ Land(q, now_).data = now_
           /\ IsAQuery(Write(q, now_))
BY DEF IsAQuery, Refetch, Fetch, UnderWay, Fail, Write, Land

LEMMA FoundAlike ==
    ASSUME tree'.data = tree.data, page' = page
    PROVE  /\ ItemFound(tree)' <=> ItemFound(tree)
           /\ ItemFound(tree) => ItemOfTree(tree)' = ItemOfTree(tree)
BY DEF ItemFound, OnItem, ItemOfTree

\* The editor stays on its page over the tree as it is.
LEMMA TakenStays ==
    ASSUME TakesTheTree, IsAQuery(tree'), tree'.data = tree.data, page' = page, adopted' = adopted,
           desk' = desk
    PROVE  TakesTheTree'
<1>1. (ItemFound(tree) => adopted = ItemOfTree(tree))'
  BY FoundAlike DEF TakesTheTree
<1> QED BY <1>1 DEF TakesTheTree

LEMMA AwayIsTaken ==
    ASSUME TakesTheTree, IsAQuery(tree'), page' \in {New, Away}, desk = "item" \/ page' = New, desk' = desk
    PROVE  TakesTheTree'
<1>1. ~ItemFound(tree)'
  BY PagesDiffer DEF ItemFound, OnItem
<1> QED BY <1>1 DEF TakesTheTree

LEMMA MenuTakes ==
    ASSUME TakesTheTree, desk = "menu", desk' = desk, MenuDeskNext, UNCHANGED itemVars
    PROVE  TakesTheTree'
<1>1. page' = New /\ IsAQuery(tree)
  BY DEF TakesTheTree, itemVars
<1>2. \/ tree' = tree
      \/ \E m : tree' = Land(tree, m) \/ tree' = Write(tree, m) \/ tree' = Refetch(tree, m)
      \/ tree' = Fail(tree)
  BY DEF MenuDeskNext, ChangeElsewhere, RunMenuCommand, LoseMenuCommand, LandTree, FailTree, AskAgain,
         OpenCategoryDialog, TypeInDialog, CancelDialog, SubmitCategory, ConfirmDelete,
         ToggleAvailability, Search, StartArranging, CancelArranging, MoveEntry, SaveOrder,
         TakeNewOrder, RefuseOrder, TakeSuccess, Settle, TakeFailure, Seen
<1>3. IsAQuery(tree')
  BY <1>1, <1>2, QueriesKeepData
<1> QED BY <1>1, <1>3, AwayIsTaken DEF TakesTheTree

LEMMA ItemTakes ==
    ASSUME TakesTheTree, desk = "item", desk' = desk, ItemDeskNext
    PROVE  TakesTheTree'
<1>0. IsAQuery(tree)
  BY DEF TakesTheTree
<1>1. CASE UNCHANGED <<tree, page, adopted>>
  BY <1>0, <1>1, TakenStays
<1>2. CASE page' = page /\ adopted' = adopted /\ \E m : tree' = Refetch(tree, m)
  BY <1>0, <1>2, QueriesKeepData, TakenStays
<1>3. CASE FailToRead
  BY <1>0, <1>3, QueriesKeepData, TakenStays DEF FailToRead, FailTree, Seen, itemVars
<1>4. CASE ReadItem
  <2>1. PICK m : tree' = Land(tree, m)
    BY <1>4 DEF ReadItem, LandTree, Seen
  <2>2. IsAQuery(tree') /\ page' = page
    BY <1>0, <1>4, <2>1, QueriesKeepData DEF ReadItem
  <2>3. CASE page = New
    BY <2>2, <2>3, AwayIsTaken
  <2>4. CASE page # New
    <3>1. AdoptItem(tree')
      BY <1>4, <2>4 DEF ReadItem
    <3>2. ItemFound(tree)' => adopted' = ItemOfTree(tree)'
      BY <2>2, <3>1 DEF AdoptItem, ItemFound, OnItem, ItemOfTree
    <3> QED BY <2>2, <3>2 DEF TakesTheTree
  <2> QED BY <2>3, <2>4
<1>5. CASE Added
  <2>1. IsAQuery(tree') /\ tree'.data = tree.data
    BY <1>0, <1>5, QueriesKeepData DEF Added
  <2>2. ItemFound(tree)' => adopted' = ItemOfTree(tree)'
    BY <1>5, <2>1 DEF Added, ItemFound, OnItem, ItemOfTree
  <2> QED BY <2>1, <2>2 DEF TakesTheTree
<1>6. CASE page' = Away /\ tree' = tree
  BY <1>0, <1>6, AwayIsTaken
<1>7. \/ UNCHANGED <<tree, page, adopted>>
      \/ page' = page /\ adopted' = adopted /\ \E m : tree' = Refetch(tree, m)
      \/ FailToRead \/ ReadItem \/ Added
      \/ page' = Away /\ tree' = tree
  <2>1. CASE (ChangeElsewhere \/ RunMenuCommand \/ LoseMenuCommand) /\ UNCHANGED itemVars
    BY <2>1 DEF ChangeElsewhere, RunMenuCommand, LoseMenuCommand, itemVars
  <2>2. CASE (AskAgain /\ UNCHANGED itemVars) \/ ReadAgainFirst
    BY <2>2 DEF AskAgain, ReadAgainFirst, TakeSuccess, itemVars
  <2>3. CASE \/ (\E v \in FormValues : Type(v)) \/ Discard \/ OpenAside \/ CancelAside \/ Leave
    BY <2>3 DEF Type, Discard, OpenAside, CancelAside, Leave, menuDeskVars
  <2>4. CASE Save \/ Add \/ Toggle \/ DeleteThis \/ AddSection
    BY <2>4 DEF Save, Add, Toggle, DeleteThis, AddSection, Ask
  <2>5. CASE Saved \/ Deleted \/ SectionAdded \/ Toggled \/ Unheard
    BY <2>5 DEF Saved, Deleted, SectionAdded, Toggled, Unheard, itemVars
  <2>6. CASE Failed
    BY <2>6 DEF Failed
  <2> QED BY <2>1, <2>2, <2>3, <2>4, <2>5, <2>6 DEF ItemDeskNext
<1> QED BY <1>1, <1>2, <1>3, <1>4, <1>5, <1>6, <1>7

LEMMA TakesSteps ==
    ASSUME TakesTheTree, [WorkspacesNext]_workspacesVars
    PROVE  TakesTheTree'
<1>1. desk' = desk
  BY TheDeskStays
<1>2. \/ desk = "menu" /\ MenuDeskNext /\ UNCHANGED itemVars
      \/ desk = "item" /\ ItemDeskNext
      \/ UNCHANGED <<tree, page, adopted>>
  BY DEF WorkspacesNext, workspacesVars, itemDeskVars, itemVars, menuDeskVars
<1>3. CASE UNCHANGED <<tree, page, adopted>>
  <2>1. IsAQuery(tree') /\ tree'.data = tree.data
    BY <1>3 DEF TakesTheTree
  <2> QED BY <1>1, <1>3, <2>1, TakenStays
<1> QED BY <1>1, <1>2, <1>3, MenuTakes, ItemTakes

LEMMA TakesAtFirst == WorkspacesInit => TakesTheTree
<1> SUFFICES ASSUME WorkspacesInit PROVE TakesTheTree
  OBVIOUS
<1>1. tree = Fetch(NotAsked, catalog) /\ (desk # "item" => page = New)
  BY DEF WorkspacesInit, ItemDeskInit, MenuDeskInit
<1>2. IsAQuery(tree) /\ tree.data = NoData
  BY <1>1 DEF Fetch, NotAsked, UnderWay, IsAQuery
<1> QED BY <1>1, <1>2 DEF TakesTheTree, ItemFound

\* A step that sends an update sends what was typed.
LEMMA TypedIsSent ==
    ASSUME TakesTheTree, [WorkspacesNext]_workspacesVars,
           call = Idle, call' # Idle, call'.q.do = "updateItem", base = adopted
    PROVE  \A f \in DOMAIN call'.q.change : values[f] # base[f]
<1>1. ~Pending /\ call' # call
  BY DEF Pending
<1>2. MenuDeskNext \/ ItemDeskNext
  BY <1>1 DEF WorkspacesNext, workspacesVars, itemDeskVars, menuDeskVars
<1>3. ASSUME NEW q, call' = Asked(q), q.do # "updateItem" PROVE FALSE
  BY <1>3 DEF Asked
<1>4. SubmitCategory => FALSE
  <2>1. ASSUME SubmitCategory PROVE FALSE
    <3>1. \/ call' = Asked([do |-> "createCategory", title |-> dialog.form.title])
          \/ call' = Asked([do |-> "updateCategory", category |-> dialog.category,
                            change |-> Changes(dialog.was, dialog.form)])
      BY <1>1, <2>1 DEF SubmitCategory
    <3> QED BY <3>1 DEF Asked
  <2> QED BY <2>1
<1>5. SaveOrder => FALSE
  <2>1. ASSUME SaveOrder PROVE FALSE
    <3>1. \/ call' = Asked([do |-> "reorderCategories", order |-> order])
          \/ call' = Asked([do |-> "reorderItems", category |-> arranging, order |-> order])
      BY <2>1 DEF SaveOrder
    <3> QED BY <3>1 DEF Asked
  <2> QED BY <2>1
<1>6. ConfirmDelete \/ (\E i \in Dishes : ToggleAvailability(i)) => FALSE
  BY DEF ConfirmDelete, ToggleAvailability, Asked
<1>7. Add \/ Toggle \/ DeleteThis \/ AddSection => FALSE
  BY DEF Add, Toggle, DeleteThis, AddSection, Ask, Asked
<1>8. ~MenuDeskNext
  BY <1>1, <1>4, <1>5, <1>6
  DEF MenuDeskNext, ChangeElsewhere, RunMenuCommand, LoseMenuCommand, LandTree, FailTree, AskAgain,
      OpenCategoryDialog, TypeInDialog, CancelDialog, Search, StartArranging, CancelArranging, MoveEntry,
      TakeNewOrder, RefuseOrder, TakeSuccess, Settle, TakeFailure, menuPage
<1>9. Save
  BY <1>1, <1>2, <1>7, <1>8
  DEF ItemDeskNext, ChangeElsewhere, RunMenuCommand, LoseMenuCommand, LandTree, FailTree, AskAgain,
      ReadItem, FailToRead, Type, Discard, OpenAside, CancelAside, Leave, ReadAgainFirst, TakeSuccess,
      Answered, Saved, Added, Deleted, SectionAdded, Toggled, Failed, Unheard, menuDeskVars, menuPage
<1>10. /\ call'.q.change = Update(values, Item) /\ ItemFound(tree)
  BY <1>9 DEF Save, Ask, Asked, Open
<1>11. adopted = ValuesOf(Item)
  BY <1>10 DEF TakesTheTree, ItemOfTree, Item
<1>12. ASSUME NEW was, NEW form, NEW f \in DOMAIN Changes(was, form) PROVE form[f] # was[f]
  BY <1>12 DEF Changes
<1> QED BY <1>10, <1>11, <1>12 DEF Update

LEMMA PriceSteps ==
    [WorkspacesNext]_workspacesVars => [ItemFields!PriceNext]_(ItemFields!priceVars)
BY DEF WorkspacesNext, workspacesVars, priceVars, ItemFields!priceVars

LEMMA SectionSteps ==
    [WorkspacesNext]_workspacesVars => [Composer!SectionNext]_(Composer!sectionVars)
BY DEF WorkspacesNext, workspacesVars, sectionDeskVars, Composer!sectionVars, Composer!serverVars,
       Composer!formVars, Composer!callVars

(* What leaves a form is what is on it: a save sends no field of an item     *)
(* that was not typed, a publication publishes what the composer shows, and  *)
(* a price is stored to the last unit as its field said it, and not sent at  *)
(* all if the field took it from the item.                                   *)
THEOREM NothingUnseenLeaves == WorkspacesSpec => NothingUnseenIsSent
<1> DEFINE sendsTyped == call = Idle /\ call' # Idle /\ call'.q.do = "updateItem" /\ base = adopted =>
                            \A f \in DOMAIN call'.q.change : values[f] # base[f]
           publishesShown == publishing.phase = "sent" /\ publishing'.phase = "done" =>
                                live' = composition \/ strayed'
           storesTyped == pricing.phase = "sent" /\ pricing'.phase = "saved" =>
                             ItemFields!Says(pricing.field, price', pricing.assumed)
<1>1. WorkspacesInit => TakesTheTree /\ Composer!SectionsKnow /\ ItemFields!PriceKnows
  <2>1. WorkspacesInit => Composer!SectionInit /\ ItemFields!PriceInit
    BY DEF WorkspacesInit
  <2>2. Composer!SectionInit => Composer!SectionsKnow
    BY Composer!SectionsStart, ComposerAndServer, ImagesAndSections
  <2>3. ItemFields!PriceInit => ItemFields!PriceKnows
    BY ItemFields!PriceStarts, HoursAndPrices
  <2> QED BY <2>1, <2>2, <2>3, TakesAtFirst
<1>2. TakesTheTree /\ [WorkspacesNext]_workspacesVars => TakesTheTree' /\ [sendsTyped]_itemDeskVars
  BY TakesSteps, TypedIsSent
<1>3. Composer!SectionsKnow /\ [WorkspacesNext]_workspacesVars
         => Composer!SectionsKnow' /\ [publishesShown]_(Composer!sectionVars)
  BY SectionSteps, Composer!SectionsStayKnown, Composer!ShownIsPublished, ComposerAndServer,
     ImagesAndSections
<1>4. ItemFields!PriceKnows /\ [WorkspacesNext]_workspacesVars
         => ItemFields!PriceKnows' /\ [storesTyped]_(ItemFields!priceVars)
  BY PriceSteps, ItemFields!PriceGoesOn, ItemFields!StoredAsTyped, HoursAndPrices
<1>5. ItemFields!PriceKnows => ItemFields!ItemsPriceIsNotSent
  BY ItemFields!ItemsPriceStays
<1>6. WorkspacesSpec => []TakesTheTree /\ [][sendsTyped]_itemDeskVars
  BY <1>1, <1>2, PTL DEF WorkspacesSpec
<1>7. WorkspacesSpec => []Composer!SectionsKnow /\ [][publishesShown]_(Composer!sectionVars)
  BY <1>1, <1>3, PTL DEF WorkspacesSpec
<1>8. WorkspacesSpec => [][storesTyped]_(ItemFields!priceVars) /\ []ItemFields!ItemsPriceIsNotSent
  BY <1>1, <1>4, <1>5, PTL DEF WorkspacesSpec
<1> QED BY <1>6, <1>7, <1>8, PTL DEF NothingUnseenIsSent, SendsOnlyWhatWasTyped,
           Composer!PublishedAsShown, ItemFields!SavedAsTyped

=============================================================================
