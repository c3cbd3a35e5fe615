---------------------------- MODULE MCWorkspaces ----------------------------
(* The workspaces of the control center for TLC: a behaviour is that of one *)
(* of them, and the others rest.                                            *)
EXTENDS ItemDesk

CONSTANTS starters, mains, soup, pasta, short, long, unfetched,
          Groups, ChoiceIds, Labels, NoLimit, Limits, TypedLimits, MaxModifierEvents,
          Designs, DefaultDesign, Editors, Composers, Configs, DefaultConfig, MaxRows, MaxLock,
          MinutesPerDay, DaysPerWeek, MaxIntervalsPerDay, SmallHours, ScanDays, DefaultPolicy, Policies,
          EditableDates, WeekForms, DateForms, Dates, HoursStarts, Zones, FirstInstant, LastInstant,
          MaxHoursEvents,
          MaxAssets, Renditions, MaxMediaEvents, MaxSessionEvents,
          MaxSessions, Threshold, MaxRequests, MaxTokens,
          PageEmails, PageRoles, PageInvitations, PageEvents,
          ServerEmails, ServerRoles, ServerGuests, ServerInvitations, ServerEvents,
          Kinds, Lead, Optional, Headings, TooLong, Photos, Brands, DefaultBrand,
          MaxImages, MaxEdits, MaxSectionEvents,
          Exponents, StoredPrices, Wholes, Fractions, MaxPrice, MaxSafe, MaxPriceEvents

VARIABLES desk,     \* the workspace of this behaviour
          versions, closed, seen, answer, cache, mounted, conflict,
          modifiers, groupQuery, window, sequence, request, saving, modifierEvents,
          hours, zone, now, mayEdit, hoursQuery, week, rules, weekBase, rulesBase,
          dateDialog, calls, hoursEvents,
          rows, objects, photo, lastAsset, worker, candidates, claim, doomed, library, item, picker,
          uploading, erasing, setting, mediaEvents,
          alive, lastSession, account, joined, offer, cookie, session, told, route, intended,
          signIn, attempts, errand, flow, sessionEvents,
          status, invitations, accounts, members, guests, detail, listed, question, change,
          issuing, issued, platformEvents,
          draft, live, known, composition, pristine, sectionDialog, faults, sending, publishing,
          outdated, strayed, edits, sectionEvents,
          user, sessions, tokens, work, userLock, sessionLock, trail,
          exponent, currencyRead, price, itemRead, field, taken, origin, pricing, priceEvents

composerDeskVars == <<versions, closed, seen, answer, cache, mounted, conflict>>
modifierDeskVars == <<modifiers, groupQuery, window, sequence, request, saving, modifierEvents>>
hoursDeskVars == <<hours, zone, now, mayEdit, hoursQuery, week, rules, weekBase, rulesBase,
                   dateDialog, calls, hoursEvents>>
mediaDeskVars == <<rows, objects, photo, lastAsset, worker, candidates, claim, doomed, library, item,
                   picker, uploading, erasing, setting, mediaEvents>>
sessionDeskVars == <<alive, lastSession, account, joined, offer, cookie, session, told, route,
                     intended, signIn, attempts, errand, flow, sessionEvents>>
platformDeskVars == <<status, invitations, accounts, members, guests, detail, listed, question,
                      change, issuing, issued, platformEvents>>
sectionDeskVars == <<draft, live, known, composition, pristine, sectionDialog, faults, sending,
                     publishing, outdated, strayed, edits, sectionEvents>>
priceVars == <<exponent, currencyRead, price, itemRead, field, taken, origin, pricing, priceEvents>>
accountVars == <<user, sessions, tokens, work, userLock, sessionLock, trail>>
workspacesVars == <<itemDeskVars, composerDeskVars, modifierDeskVars, hoursDeskVars,
                    mediaDeskVars, sessionDeskVars, platformDeskVars, sectionDeskVars,
                    accountVars, priceVars, desk>>

Composer == INSTANCE StorefrontProofs
    WITH Variants <- Designs, DefaultVariant <- DefaultDesign, None <- NoData,
         Unfetched <- unfetched, LossyNetwork <- TRUE, Absent <- NoData

(* A week of three days of eight minutes. The clock changes in the small     *)
(* hours of day 2, or as day 1 ends, by two minutes, or not at all.          *)
Row(opens, closes, nextDay) == [opens |-> opens, closes |-> closes, nextDay |-> nextDay]
Early == Row(3, 4, FALSE)
Lunch == Row(1, 4, FALSE)
Brunch == Row(2, 4, FALSE)
Evening == Row(4, 7, FALSE)
Night == Row(6, 3, TRUE)
AllDay == Row(0, 0, TRUE)
Half == Row(2, NoData, FALSE)

Week(first, second, third) == 0 :> first @@ 1 :> second @@ 2 :> third
TypedWeeks == {Week(<<Lunch, Evening>>, <<>>, <<Night>>),
               Week(<<Evening>>, <<AllDay>>, <<Brunch, Night>>),
               Week(<<Half>>, <<>>, <<>>)}

Rules(lead, step, lastOrder, daysAhead) ==
    [enabled |-> TRUE, lead |-> lead, step |-> step, lastOrder |-> lastOrder, daysAhead |-> daysAhead]
Usual == Rules(1, 2, 1, 1)
Zone(at, before, after) == [change |-> at, before |-> before, after |-> after]
Steady == Zone(18, 0, 0)

NothingSet ==
    [weekly |-> <<[day |-> 0, opens |-> 4, closes |-> 7], [day |-> 2, opens |-> 3, closes |-> 4],
                  [day |-> 2, opens |-> 6, closes |-> 11]>>,
     exceptions |-> <<>>, row |-> <<>>]
ClosedAndPaused ==
    [NothingSet EXCEPT !.exceptions = 2 :> <<>>, !.row = [policy |-> Usual, paused |-> TRUE]]
HoursAtFirst == {NothingSet, ClosedAndPaused}

TwoPolicies == {Usual, Rules(0, 3, 0, 0)}
DateRows == {<<>>, <<Evening, Early>>}
LateGap == Zone(17, -3, -1)
FourZones == {Steady, Zone(18, 1, 3), Zone(18, 3, 1), LateGap}

Hours == INSTANCE HoursProofs WITH Blank <- NoData

TwoSizes == <<"canonical", "w320">>
ItemFields == INSTANCE ItemFieldsProofs WITH Variants <- Renditions, Prices <- StoredPrices

Session == INSTANCE SessionDesk

OldAndNew == {"old", "new"}

(* The page of a business with one person to invite; two people, and a       *)
(* longer history, where only the server counts.                             *)
Platform == INSTANCE AccessProofs
    WITH Emails <- PageEmails, InvitedRoles <- PageRoles, Guests <- {},
         MaxInvitations <- PageInvitations, MaxPlatformEvents <- PageEvents,
         Passwords <- OldAndNew
Server == INSTANCE AccessProofs
    WITH Emails <- ServerEmails, InvitedRoles <- ServerRoles, Guests <- ServerGuests,
         MaxInvitations <- ServerInvitations, MaxPlatformEvents <- ServerEvents,
         Passwords <- OldAndNew

(* Prices below and above one unit, and beyond what is taken.                *)
NothingOrFive == {<< >>, <<5>>}
NothingToFive == NothingOrFive \cup {<<0, 5>>, <<0, 0, 5>>}

ASSUME ComposerAndServer ==
    /\ Composer!ComposerConstants
    /\ DefaultConfig \in Configs /\ DefaultDesign \in Designs
    /\ NoData \notin Configs \cup Designs \cup Editors
    /\ MaxRows \in Nat /\ MaxLock \in Nat
ASSUME PeopleAndSessions ==
    /\ Platform!PlatformConstants /\ Server!PlatformConstants
    /\ Session!SessionConstants /\ Server!AccountConstants
ASSUME MenusAndModifiers == ItemFields!ModifierConstants
ASSUME HoursAndPrices == Hours!HoursConstants /\ ItemFields!PriceConstants
ASSUME ImagesAndSections == ItemFields!MediaConstants /\ Composer!SectionConstants

(* Two categories, one with both items, and an item that is featured.       *)
Starter(title, place) == [title |-> title, visible |-> TRUE, place |-> place]
Serving(category, place, featured) ==
    [section |-> category, place |-> place, featured |-> featured, available |-> TRUE]

BothInOne == [sections |-> starters :> Starter(short, 0) @@ mains :> Starter(long, 1),
              dishes |-> soup :> Serving(starters, 0, FALSE) @@ pasta :> Serving(starters, 1, TRUE)]
OneCategory ==
    [sections |-> starters :> Starter(short, 0),
     dishes |-> soup :> Serving(starters, 0, FALSE) @@ pasta :> Serving(starters, 1, TRUE)]
SmallMenus == {BothInOne, OneCategory}

WorkspacesInit ==
    /\ desk \in {"menu", "item", "composer", "modifiers", "hours", "clock", "media", "storage",
               "session", "platform", "onboarding", "sections", "accounts", "price"}
    /\ ItemDeskInit
    /\ catalog = IF desk = "item" THEN OneCategory ELSE BothInOne
    /\ desk \in {"menu", "item"} \/ manages = FALSE
    /\ desk = "item" \/ page = New
    /\ Composer!ComposerInit
    /\ ItemFields!ModifierInit
    /\ desk = "modifiers" \/ modifiers = CHOOSE m \in ItemFields!Starts : TRUE
    /\ Hours!HoursInit
    /\ desk = "clock" \/ (zone.before = zone.after /\ hours.exceptions = <<>>)
    /\ mayEdit = (desk = "hours")
    /\ ItemFields!MediaInit
    /\ desk \in {"media", "storage"} \/ photo = ItemFields!NoPhoto
    /\ mediaEvents = IF desk = "storage" THEN 0 ELSE 2
    /\ Session!SessionInit
    /\ desk = "session" \/ (route = "home" /\ account = FALSE)
    /\ IF desk = "onboarding" THEN Server!PlatformInit ELSE Platform!PlatformInit
    /\ desk \in {"platform", "onboarding"} \/ accounts = {}
    /\ platformEvents = 0
    /\ Composer!SectionInit
    /\ desk = "sections" \/ draft = NoData
    /\ Server!AccountInit /\ user.password = "old"
    /\ desk = "accounts" \/ user.weak = FALSE
    /\ ItemFields!PriceInit
    /\ desk = "price" \/ (exponent = 0 /\ currencyRead /\ price = 5)

WorkspacesNext ==
    \/ /\ desk = "menu" /\ MenuDeskNext
       /\ UNCHANGED <<itemVars, composerDeskVars, modifierDeskVars, hoursDeskVars, mediaDeskVars,
                    sessionDeskVars, platformDeskVars, sectionDeskVars, accountVars, priceVars, desk>>
    \/ /\ desk = "item" /\ ItemDeskNext
       /\ UNCHANGED <<composerDeskVars, modifierDeskVars, hoursDeskVars, mediaDeskVars,
                    sessionDeskVars, platformDeskVars, sectionDeskVars, accountVars, priceVars, desk>>
    \/ /\ desk = "composer" /\ Composer!ComposerNext
       /\ UNCHANGED <<itemDeskVars, modifierDeskVars, hoursDeskVars, mediaDeskVars,
                    sessionDeskVars, platformDeskVars, sectionDeskVars, accountVars, priceVars, desk>>
    \/ /\ desk = "modifiers" /\ ItemFields!ModifierNext
       /\ UNCHANGED <<itemDeskVars, composerDeskVars, hoursDeskVars, mediaDeskVars,
                    sessionDeskVars, platformDeskVars, sectionDeskVars, accountVars, priceVars, desk>>
    \/ /\ desk = "hours" /\ Hours!HoursNext
       /\ UNCHANGED <<itemDeskVars, composerDeskVars, modifierDeskVars, mediaDeskVars,
                    sessionDeskVars, platformDeskVars, sectionDeskVars, accountVars, priceVars, desk>>
    \/ /\ desk = "clock" /\ Hours!ClockNext
       /\ UNCHANGED <<itemDeskVars, composerDeskVars, modifierDeskVars, mediaDeskVars,
                    sessionDeskVars, platformDeskVars, sectionDeskVars, accountVars, priceVars, desk>>
    \/ /\ desk = "media" /\ ItemFields!MediaNext
       /\ UNCHANGED <<itemDeskVars, composerDeskVars, modifierDeskVars, hoursDeskVars,
                    sessionDeskVars, platformDeskVars, sectionDeskVars, accountVars, priceVars, desk>>
    \/ /\ desk = "storage" /\ ItemFields!StorageNext
       /\ UNCHANGED <<itemDeskVars, composerDeskVars, modifierDeskVars, hoursDeskVars,
                    sessionDeskVars, platformDeskVars, sectionDeskVars, accountVars, priceVars, desk>>
    \/ /\ desk = "session" /\ Session!SessionNext
       /\ UNCHANGED <<itemDeskVars, composerDeskVars, modifierDeskVars, hoursDeskVars, mediaDeskVars,
                    platformDeskVars, sectionDeskVars, accountVars, priceVars, desk>>
    \/ /\ desk = "platform" /\ Platform!PlatformNext
       /\ UNCHANGED <<itemDeskVars, composerDeskVars, modifierDeskVars, hoursDeskVars, mediaDeskVars,
                    sessionDeskVars, sectionDeskVars, accountVars, priceVars, desk>>
    \/ /\ desk = "onboarding" /\ Server!OnboardingNext
       /\ UNCHANGED <<itemDeskVars, composerDeskVars, modifierDeskVars, hoursDeskVars, mediaDeskVars,
                    sessionDeskVars, sectionDeskVars, accountVars, priceVars, desk>>
    \/ /\ desk = "sections" /\ Composer!SectionNext
       /\ UNCHANGED <<itemDeskVars, composerDeskVars, modifierDeskVars, hoursDeskVars, mediaDeskVars,
                    sessionDeskVars, platformDeskVars, accountVars, priceVars, desk>>
    \/ /\ desk = "accounts" /\ Server!AccountNext
       /\ UNCHANGED <<itemDeskVars, composerDeskVars, modifierDeskVars, hoursDeskVars, mediaDeskVars,
                    sessionDeskVars, platformDeskVars, sectionDeskVars, priceVars, desk>>
    \/ /\ desk = "price" /\ ItemFields!PriceNext
       /\ UNCHANGED <<itemDeskVars, composerDeskVars, modifierDeskVars, hoursDeskVars, mediaDeskVars,
                    sessionDeskVars, platformDeskVars, sectionDeskVars, accountVars, desk>>

WorkspacesSpec == WorkspacesInit /\ [][WorkspacesNext]_workspacesVars

WorkspacesTypeOK ==
    /\ desk \in {"menu", "item"} => ItemDeskTypeOK
    /\ desk = "composer" => Composer!ComposerTypeOK
    /\ desk = "modifiers" => ItemFields!ModifierTypeOK
    /\ desk \in {"hours", "clock"} => Hours!HoursTypeOK
    /\ desk \in {"media", "storage"} => ItemFields!MediaTypeOK
    /\ desk = "session" => Session!SessionTypeOK
    /\ desk = "platform" => Platform!PlatformTypeOK
    /\ desk = "onboarding" => Server!PlatformTypeOK
    /\ desk = "sections" => Composer!SectionTypeOK
    /\ desk = "accounts" => Server!AccountTypeOK
    /\ desk = "price" => ItemFields!PriceTypeOK

(* What the server guarantees an editor, it guarantees the query cache of    *)
(* the draft composer (DraftComposer).                                       *)
CacheIsTheEditor == Composer!CacheIsTheEditor

(* What leaves a form is what is on it: a save sends no field of an item     *)
(* that was not typed (ItemDesk), a publication publishes what the composer  *)
(* shows (SectionDesk), and a price is stored to the last unit as its field  *)
(* said it, and not sent at all if the field took it from the item.          *)
NothingUnseenIsSent ==
    SendsOnlyWhatWasTyped /\ Composer!PublishedAsShown
    /\ ItemFields!SavedAsTyped /\ []ItemFields!ItemsPriceIsNotSent

(* The positions of the menu stay dense and its featured items within their  *)
(* limit (Catalog); the groups of an item stay sound, and what the section   *)
(* says is wrong with one is wrong with it (ModifierDesk).                   *)
CatalogStaysSound ==
    /\ MenuStaysSound
    /\ desk = "modifiers" => ItemFields!ModifiersStaySound /\ ItemFields!ReasonIsTrue

(* What the hours mean, where time passes: open exactly when an interval     *)
(* runs, and the earliest pickup first (HoursDesk).                          *)
HoursMeanWhatTheySay ==
    desk = "clock" => Hours!OpenIsTheUnion /\ Hours!NextPickupIsEarliest

(* The forms of the schedule and of a date mark the small hours that the     *)
(* server moves out of a gap of the clock, and no others (HoursDesk).        *)
GapsAreMarked == desk = "clock" => Hours!GapsAreMarked

(* No deletion, failed upload or sweep takes the bytes of an image that has  *)
(* a row, or the row of an image that an item shows; and a sweep takes no    *)
(* image that was promoted after it was found expired (MediaDesk).           *)
ImagesServable ==
    /\ [](desk \in {"media", "storage"} => ItemFields!ImagesServable)
    /\ ItemFields!PromotedIsKept

(* A session that was over when the tab dropped its state never becomes the  *)
(* cached session again (SessionDesk); and the server's count, sessions and  *)
(* tokens are what the account's trail says (Accounts).                      *)
SessionsStaySound ==
    /\ desk = "session" => Session!ClearedStaysCleared
    /\ desk = "accounts" => Server!AccountsStaySound

(* Reissues, revocations and acceptances leave every member admitted by one  *)
(* sound invitation, and no business active without an owner (PlatformDesk). *)
InvitationsStaySound ==
    /\ desk = "platform" => Platform!InvitationsStaySound
    /\ desk = "onboarding" => Server!InvitationsStaySound

=============================================================================
