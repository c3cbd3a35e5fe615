------------------------------- MODULE Notices -------------------------------
(***************************************************************************)
(* The notifications of the control center (NotificationProvider): one      *)
(* region, one timer for the oldest notice, and one flag that holds it,     *)
(* which the pointer and the focus share.                                   *)
(***************************************************************************)
EXTENDS Naturals, Sequences, FiniteSets, SequencesExt

CONSTANTS
    MaxVisible,     \* notices on screen at once
    MaxNotices,     \* bound: notices ever published
    MaxMoves        \* bound: moves of the pointer and of the focus

NoticeConstants == MaxVisible \in Nat \ {0} /\ MaxNotices \in Nat /\ MaxMoves \in Nat

VARIABLES
    items,          \* the notices on screen, oldest first
    nextId,         \* the last number given
    held,           \* the timer is to rest
    effect,         \* what the effect that sets the timer last ran for
    timer,          \* the notice whose timeout runs
    pointer,        \* the pointer is over the region
    focus,          \* the notice whose button has the focus
    moves           \* how much of the bound was used

userVars == <<pointer, focus, moves>>
noticeVars == <<items, nextId, held, effect, timer, pointer, focus, moves>>

-----------------------------------------------------------------------------

None == 0
Oldest(shown) == IF shown = << >> THEN None ELSE Head(shown)
Newest(shown) == IF Len(shown) <= MaxVisible THEN shown ELSE Tail(shown)
\* A number is on screen once at most.
Without(id) ==
    IF id \in Range(items) THEN RemoveAt(items, CHOOSE i \in DOMAIN items : items[i] = id) ELSE items

\* The effect depends on the oldest notice and on the flag: it clears the timeout
\* of its last run and sets another.
Dependencies(shown, hold) == [oldest |-> Oldest(shown), held |-> hold]
TimerOf(deps) == IF deps.held THEN None ELSE deps.oldest

\* A render, whose effect runs after other events, or at once when a click, a key
\* or the focus caused it.
Render(shown, hold) == items' = shown /\ held' = hold /\ UNCHANGED <<effect, timer>>
RenderNow(shown, hold) ==
    /\ items' = shown /\ held' = hold
    /\ effect' = Dependencies(shown, hold)
    /\ timer' = IF effect' = effect THEN timer ELSE TimerOf(effect')

NoticeInit ==
    /\ items = << >> /\ nextId = 0 /\ held = FALSE
    /\ effect = Dependencies(<< >>, FALSE) /\ timer = None
    /\ pointer = FALSE /\ focus = None /\ moves = 0

FocusIn(shown) == IF focus \in Range(shown) THEN focus ELSE None

Notify ==
    /\ nextId < MaxNotices
    /\ nextId' = nextId + 1
    /\ Render(Newest(Append(items, nextId')), held)
    /\ focus' = FocusIn(items')
    /\ UNCHANGED <<pointer, moves>>

\* Mutant: the flag is not a dependency.
RunForTheOldest ==
    /\ effect.oldest # Oldest(items)
    /\ effect' = Dependencies(items, held) /\ timer' = TimerOf(effect')
    /\ UNCHANGED <<items, nextId, held, userVars>>

RunEffect ==
    /\ effect # Dependencies(items, held)
    /\ effect' = Dependencies(items, held) /\ timer' = TimerOf(effect')
    /\ UNCHANGED <<items, nextId, held, userVars>>

\* Mutant: whatever is oldest by then goes.
FireAtOldest ==
    /\ timer # None /\ timer' = None
    /\ items # << >> /\ items' = Tail(items)
    /\ focus' = FocusIn(items')
    /\ UNCHANGED <<nextId, held, effect, pointer, moves>>

\* The notice goes that the timeout was set for.
FireTimer ==
    /\ timer # None /\ timer' = None
    /\ items' = Without(timer)
    /\ focus' = FocusIn(items')
    /\ UNCHANGED <<nextId, held, effect, pointer, moves>>

\* A button that is removed with the focus on it tells nobody that it lost it.
Dismiss(id) ==
    /\ pointer \/ focus = id
    /\ RenderNow(Without(id), held)
    /\ focus' = FocusIn(items')
    /\ UNCHANGED <<nextId, pointer, moves>>

Moves == moves < MaxMoves /\ moves' = moves + 1 /\ UNCHANGED nextId

PointerEnters ==
    /\ ~pointer /\ items # << >> /\ pointer' = TRUE /\ Moves
    /\ Render(items, TRUE) /\ UNCHANGED focus

PointerLeaves ==
    /\ pointer /\ pointer' = FALSE /\ Moves
    /\ Render(items, FALSE) /\ UNCHANGED focus

FocusOn(id) ==
    /\ focus # id /\ focus' = id /\ Moves
    /\ RenderNow(items, TRUE) /\ UNCHANGED pointer

Blur ==
    /\ focus # None /\ focus' = None /\ Moves
    /\ RenderNow(items, FALSE) /\ UNCHANGED pointer

NoticeNext ==
    \/ Notify \/ RunEffect \/ FireTimer
    \/ \E id \in Range(items) : Dismiss(id) \/ FocusOn(id)
    \/ PointerEnters \/ PointerLeaves \/ Blur

(* React runs an effect, and the browser a timeout that is not cleared.      *)
NoticeSpec ==
    /\ NoticeInit /\ [][NoticeNext]_noticeVars
    /\ WF_noticeVars(RunEffect) /\ WF_noticeVars(FireTimer)

-----------------------------------------------------------------------------

Ids == 1 .. MaxNotices

NoticeTypeOK ==
    /\ items \in Seq(Ids) /\ Len(items) <= MaxVisible
    /\ nextId \in 0 .. MaxNotices /\ held \in BOOLEAN
    /\ effect \in [oldest : Ids \cup {None}, held : BOOLEAN]
    /\ timer \in Ids \cup {None}
    /\ pointer \in BOOLEAN /\ focus \in {None} \cup Range(items)
    /\ moves \in 0 .. MaxMoves

(* Notices go one at a time: the oldest, when its own time is over or when   *)
(* one too many comes, or the one that is dismissed; a timeout that was set  *)
(* for a notice since gone takes no other. Those that stay keep their order. *)
OneGoesForAReason ==
    [][LET gone == Range(items) \ Range(items')
       IN  /\ Cardinality(gone) <= 1
           /\ \A id \in gone :
                \/ id = Head(items) /\ id = timer /\ timer' = None
                \/ id = Head(items) /\ Len(items) = MaxVisible /\ nextId' > nextId
                \/ pointer \/ focus = id
           /\ \E keep \in {Without(id) : id \in gone} \cup {items} : IsPrefix(keep, items')]_noticeVars

(* While nothing holds the region, every notice goes in the end, also one    *)
(* that came while it was held ("How long a notification stays before        *)
(* dismissing itself").                                                      *)
NoticesGo == <>[](~held) => <>[](items = << >>)

=============================================================================
