------------------------------ MODULE Tracker ------------------------------
(***************************************************************************)
(* The page that follows an order by its tracking token. It polls, offers   *)
(* the cancellation of an order it shows as submitted, and stops polling    *)
(* when an answer says that nothing more can happen. Several requests can   *)
(* be under way, each is answered from the row the server has at that time, *)
(* and the page takes the answers as they come.                             *)
(***************************************************************************)
EXTENDS Naturals, Sequences, SequencesExt

CONSTANTS
    MaxFlights,     \* bound: requests under way at once
    MaxClosings,    \* bound: how often the business appears or disappears
    MaxLosses       \* bound: requests that fail

ASSUME TrackerConstants == {MaxFlights, MaxClosings, MaxLosses} \subseteq Nat

VARIABLES
    status,         \* the status of the order in the database
    visible,        \* the business is active
    view,           \* what the page shows: an outcome of reading
    polling,        \* the interval timer runs
    cancelling,     \* the cancellation is to be confirmed
    tooLate,        \* the page says that it can no longer be cancelled
    flights,        \* requests under way, oldest first
    closings, losses,
    calm            \* answers come in the order of asking, and a business that
                    \* closed stays closed

trackerVars == <<status, visible, view, polling, cancelling, tooLate, flights,
                 closings, losses, calm>>

-----------------------------------------------------------------------------

TerminalStatuses == {"cancelled", "completed", "rejected"}
OpenStatuses == {"submitted", "accepted", "preparing", "ready"}
OrderStatuses == OpenStatuses \cup TerminalStatuses

\* The restaurant's side of the status machine.
After(s) ==
    CASE s = "submitted" -> {"accepted", "rejected", "cancelled"}
      [] s = "accepted"  -> {"preparing"}
      [] s = "preparing" -> {"ready"}
      [] s = "ready"     -> {"completed"}
      [] OTHER           -> {}

Answers == OrderStatuses \cup {"404", "409", "lost"}
Asked(what) == [ask |-> what, answer |-> "none"]

TrackerTypeOK ==
    /\ status \in OrderStatuses
    /\ view \in OrderStatuses \cup {"loading", "not-found", "unavailable"}
    /\ {visible, polling, cancelling, tooLate, calm} \subseteq BOOLEAN
    /\ flights \in Seq([ask : {"read", "cancel"}, answer : Answers \cup {"none"}])
    /\ Len(flights) <= MaxFlights
    /\ polling => view # "not-found"

TrackerInit ==
    /\ status \in {"submitted", "preparing", "completed"}
    /\ visible = TRUE
    /\ view = "loading" /\ polling = TRUE
    /\ cancelling = FALSE /\ tooLate = FALSE
    /\ flights = << >>
    /\ closings = 0 /\ losses = 0
    /\ calm \in BOOLEAN

-----------------------------------------------------------------------------
(* The restaurant and the server.                                          *)

MoveOrder ==
    /\ status' \in After(status)
    /\ UNCHANGED <<visible, view, polling, cancelling, tooLate, flights, closings,
                   losses, calm>>

\* A suspended or closed business answers nothing; a suspended one may come back.
CloseOrReopen ==
    /\ closings < MaxClosings
    /\ ~visible => ~calm
    /\ visible' = ~visible
    /\ closings' = closings + 1
    /\ UNCHANGED <<status, view, polling, cancelling, tooLate, flights, losses, calm>>

\* A cancellation is legal from submitted, and repeating it is no error.
AnswerOf(f) ==
    IF ~visible THEN "404"
    ELSE IF f.ask = "read" THEN status
    ELSE IF status \in {"submitted", "cancelled"} THEN "cancelled"
    ELSE "409"

InTurn(i, waiting) == calm => \A j \in 1 .. i - 1 : flights[j].answer # waiting

AnswerTracking(i) ==
    /\ flights[i].answer = "none"
    /\ InTurn(i, "none")
    /\ flights' = [flights EXCEPT ![i].answer = AnswerOf(flights[i])]
    /\ status' = IF AnswerOf(flights[i]) = "cancelled" THEN "cancelled" ELSE status
    /\ UNCHANGED <<visible, view, polling, cancelling, tooLate, closings, losses, calm>>

\* The request or its answer is lost, or the server fails.
LoseTracking(i) ==
    /\ losses < MaxLosses
    /\ flights[i].answer # "lost"
    /\ losses' = losses + 1
    /\ flights' = [flights EXCEPT ![i].answer = "lost"]
    /\ UNCHANGED <<status, visible, view, polling, cancelling, tooLate, closings, calm>>

-----------------------------------------------------------------------------
(* The page.                                                               *)

Tick ==
    /\ polling
    /\ Len(flights) < MaxFlights
    /\ flights' = Append(flights, Asked("read"))
    /\ UNCHANGED <<status, visible, view, polling, cancelling, tooLate, closings,
                   losses, calm>>

AskToCancel ==
    /\ view = "submitted" /\ ~cancelling
    /\ cancelling' = TRUE
    /\ UNCHANGED <<status, visible, view, polling, tooLate, flights, closings, losses,
                   calm>>

KeepOrder ==
    /\ view = "submitted" /\ cancelling
    /\ cancelling' = FALSE
    /\ UNCHANGED <<status, visible, view, polling, tooLate, flights, closings, losses,
                   calm>>

ConfirmCancel ==
    /\ view = "submitted" /\ cancelling
    /\ Len(flights) < MaxFlights
    /\ cancelling' = FALSE
    /\ flights' = Append(flights, Asked("cancel"))
    /\ UNCHANGED <<status, visible, view, polling, tooLate, closings, losses, calm>>

\* Mutant: the first answer to a read ends the polling.
StopAtOnce(answer) == TRUE

\* The polling ends with a terminal status and with "not found".
StopsPolling(answer) == answer \in TerminalStatuses \cup {"404"}

\* Mutant: a refused cancellation shows the page's order and reads nothing.
Shrug(rest) == rest

\* After a refused cancellation the order is read again.
ReadAgain(rest) == Append(rest, Asked("read"))

\* A read that fails keeps the last known order on screen; a cancellation that
\* fails says nothing.
TakeAnswer(i) ==
    LET f == flights[i]
        rest == RemoveAt(flights, i)
    IN  /\ f.answer # "none"
        /\ calm => i = 1
        /\ view' = IF f.answer \in OrderStatuses THEN f.answer
                   ELSE IF f.answer = "404" THEN "not-found"
                   ELSE IF f.ask = "read" /\ view \notin OrderStatuses THEN "unavailable"
                   ELSE view
        /\ polling' = (polling /\ ~StopsPolling(f.answer))
        /\ tooLate' = (tooLate \/ f.answer = "409")
        /\ flights' = IF f.answer = "409" THEN ReadAgain(rest) ELSE rest
        /\ UNCHANGED <<status, visible, cancelling, closings, losses, calm>>

TrackerNext ==
    \/ MoveOrder
    \/ CloseOrReopen
    \/ \E i \in DOMAIN flights : AnswerTracking(i) \/ LoseTracking(i)
    \/ Tick
    \/ AskToCancel
    \/ KeepOrder
    \/ ConfirmCancel
    \/ \E i \in DOMAIN flights : TakeAnswer(i)

\* The timer ticks, the server answers, and answers reach the page: no request
\* is overtaken for ever.
TrackerFairness ==
    /\ WF_trackerVars(Tick)
    /\ WF_trackerVars(\E i \in DOMAIN flights : AnswerTracking(i))
    /\ WF_trackerVars(flights # << >> /\ TakeAnswer(1))

TrackerSpec == TrackerInit /\ [][TrackerNext]_trackerVars
FairTrackerSpec == TrackerSpec /\ TrackerFairness

-----------------------------------------------------------------------------

Settled == view = status \/ (~visible /\ view \in {"not-found", "unavailable"})

\* With answers in the order of asking, the page ends with what the order is:
\* no combination of polls, failures, a refused or repeated cancellation and a
\* business that closes leaves it with a stale status and no timer.
TrackerSettles == <>[](calm => Settled)

\* Whatever order the answers take, a page that still polls catches up.
TrackerFollows == <>[](polling => Settled)

\* "Polling stops once the status is terminal": a page that no longer polls and
\* awaits nothing shows how the order ended, or that it cannot be found.
StoppedMeansSettled ==
    ~polling /\ flights = << >> => view \notin OpenStatuses

=============================================================================
