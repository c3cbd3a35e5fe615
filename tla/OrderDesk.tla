----------------------------- MODULE OrderDesk -----------------------------
(***************************************************************************)
(* The order board of the control center: the watch for new orders, and the *)
(* drawer that offers the commands of one order. Other devices and          *)
(* customers move the same orders. The detail of an order is reduced to its *)
(* status; the list only decides which order can be opened, and any order   *)
(* that exists may be.                                                      *)
(***************************************************************************)
EXTENDS Query, FiniteSets

CONSTANTS
    MaxOrders,      \* bound: orders ever placed, numbered in that order
    PageSize,       \* orders of one answer, the newest first
    InUse,          \* bound: the commands that anybody gives
    Opened,         \* bound: the orders that anybody opens here
    MaxBoardLosses  \* bound: requests that fail

Commands == {"accept", "reject", "cancel", "startPreparing", "markReady", "complete",
             "setEstimate"}
Stages == {"absent", "submitted", "accepted", "preparing", "ready", "completed",
           "rejected", "cancelled"}
OrderDeskConstants ==
    /\ {MaxOrders, PageSize, MaxBoardLosses} \subseteq Nat
    /\ InUse \subseteq Commands /\ Opened \subseteq 1 .. MaxOrders
    /\ NoData \notin Stages /\ \A set \in SUBSET (1 .. MaxOrders) : set # NoData

VARIABLES
    kitchen,        \* the status of each order on the server
    watch,          \* the query for submitted orders
    noticed,        \* the submitted orders the watch has shown
    arrivals,       \* the count of the alert
    drawer,         \* the order on screen, or none
    details,        \* the detail of each order
    confirming,     \* the command to be confirmed in the drawer
    sent,           \* the command under way
    lapses,         \* requests that failed
    barred          \* history: the last command that was refused

orderDeskVars == <<kitchen, watch, noticed, arrivals, drawer, details,
                   confirming, sent, lapses, barred>>

-----------------------------------------------------------------------------

Tickets == 1 .. MaxOrders
Nobody == 0

\* What the drawer offers for a status (LEGAL_COMMANDS, ESTIMATE_LEGAL), which
\* is what the server accepts: a command, its statuses, and the status after it.
From(c) ==
    CASE c \in {"accept", "reject", "cancel"} -> {"submitted"}
      [] c = "startPreparing" -> {"accepted"}
      [] c = "markReady"      -> {"preparing"}
      [] c = "complete"       -> {"ready"}
      [] c = "setEstimate"    -> {"accepted", "preparing"}

Confirmed == {"reject", "cancel"}

To(c, s) ==
    CASE c = "accept"         -> "accepted"
      [] c = "reject"         -> "rejected"
      [] c = "cancel"         -> "cancelled"
      [] c = "startPreparing" -> "preparing"
      [] c = "markReady"      -> "ready"
      [] c = "complete"       -> "completed"
      [] OTHER                -> s

NoCommand == "none"
Unsent == [command |-> NoCommand, order |-> Nobody, result |-> NoCommand]
Sent == [command : Commands, order : Tickets,
         result : (Stages \ {"absent"}) \cup {NoCommand, "refused", "lost"}]

Submitted == {o \in Tickets : kitchen[o] = "submitted"}
Newest(set) == {o \in set : Cardinality({p \in set : p > o}) < PageSize}
OrderDeskTypeOK ==
    /\ kitchen \in [Tickets -> Stages]
    /\ watch \in Queries(SUBSET Tickets)
    /\ noticed \in {NoData} \cup SUBSET Tickets
    /\ arrivals \in 0 .. MaxOrders
    /\ drawer \in Tickets \cup {Nobody}
    /\ details \in [Tickets -> Queries(Stages \ {"absent"})]
    /\ confirming \in Confirmed \cup {NoCommand}
    /\ sent \in Sent \cup {Unsent}
    /\ sent # Unsent => sent.order = drawer
    /\ drawer = Nobody => confirming = NoCommand

OrderDeskInit ==
    /\ kitchen \in [Tickets -> {"absent", "submitted"}]
    /\ \A o \in Tickets \ {1} : kitchen[o] # "absent" => kitchen[o - 1] # "absent"
    /\ watch = Fetch(NotAsked, Newest(Submitted))
    /\ noticed = NoData /\ arrivals = 0
    /\ drawer = Nobody /\ details = [o \in Tickets |-> NotAsked]
    /\ confirming = NoCommand /\ sent = Unsent
    /\ lapses = 0 /\ barred = Unsent

-----------------------------------------------------------------------------
(* The server.                                                             *)

MoveElsewhere(o) ==
    /\ \/ kitchen[o] = "absent" /\ (o > 1 => kitchen[o - 1] # "absent")
          /\ kitchen' = [kitchen EXCEPT ![o] = "submitted"]
       \/ \E c \in InUse \ {"setEstimate"} :
             kitchen[o] \in From(c) /\ kitchen' = [kitchen EXCEPT ![o] = To(c, @)]
    /\ UNCHANGED <<watch, noticed, arrivals, drawer, details, confirming,
                   sent, lapses, barred>>

RunCommand ==
    /\ sent # Unsent /\ sent.result = NoCommand
    /\ IF kitchen[sent.order] \in From(sent.command)
       THEN LET s == To(sent.command, kitchen[sent.order])
            IN  /\ kitchen' = [kitchen EXCEPT ![sent.order] = s]
                /\ sent' = [sent EXCEPT !.result = s]
       ELSE sent' = [sent EXCEPT !.result = "refused"] /\ UNCHANGED kitchen
    /\ UNCHANGED <<watch, noticed, arrivals, drawer, details, confirming,
                   lapses, barred>>

\* A command or its answer is lost.
LoseCommand ==
    /\ lapses < MaxBoardLosses
    /\ sent # Unsent /\ sent.result # "lost"
    /\ lapses' = lapses + 1
    /\ sent' = [sent EXCEPT !.result = "lost"]
    /\ UNCHANGED <<kitchen, watch, noticed, arrivals, drawer, details, confirming, barred>>

-----------------------------------------------------------------------------
(* The queries.                                                            *)

\* Mutant: the watch rests while an order is on screen.
PollVisible ==
    /\ drawer = Nobody
    /\ watch' = Fetch(watch, Newest(Submitted))
    /\ UNCHANGED <<kitchen, noticed, arrivals, drawer, details, confirming, sent, lapses, barred>>

\* Mutant: the interval ends with the first failure.
PollUntilFailure ==
    /\ drawer # Nobody /\ ~details[drawer].failed
    /\ details' = [details EXCEPT ![drawer] = Fetch(@, kitchen[drawer])]
    /\ UNCHANGED <<kitchen, watch, noticed, arrivals, drawer, confirming, sent, lapses, barred>>

\* The intervals of the watch and of an open detail.
PollWatch ==
    /\ watch' = Fetch(watch, Newest(Submitted))
    /\ UNCHANGED <<kitchen, noticed, arrivals, drawer, details, confirming, sent, lapses, barred>>

PollDetail ==
    /\ drawer # Nobody
    /\ details' = [details EXCEPT ![drawer] = Fetch(@, kitchen[drawer])]
    /\ UNCHANGED <<kitchen, watch, noticed, arrivals, drawer, confirming, sent, lapses, barred>>

LandDetail(o) ==
    /\ UnderWay(details[o])
    /\ \E answer \in Answers(details[o], kitchen[o]) :
          details' = [details EXCEPT ![o] = Land(@, answer)]
    /\ UNCHANGED <<kitchen, watch, noticed, arrivals, drawer, confirming, sent, lapses, barred>>

FailRead ==
    /\ lapses < MaxBoardLosses
    /\ lapses' = lapses + 1
    /\ \/ UnderWay(watch) /\ watch' = Fail(watch) /\ UNCHANGED details
       \/ \E o \in Tickets : /\ UnderWay(details[o])
                             /\ details' = [details EXCEPT ![o] = Fail(@)]
                             /\ UNCHANGED watch
    /\ UNCHANGED <<kitchen, noticed, arrivals, drawer, confirming, sent, barred>>

\* Mutant: an answer replaces what was seen before.
OnlyThese(known, ids) == ids

Remembered(known, ids) == known \cup ids

\* The first answer of the watch is where the board starts; every later one
\* alerts for the orders that were not seen before.
LandWatch ==
    /\ UnderWay(watch)
    /\ \E ids \in Answers(watch, Newest(Submitted)) :
          /\ watch' = Land(watch, ids)
          /\ IF noticed = NoData
             THEN noticed' = ids /\ UNCHANGED arrivals
             ELSE /\ noticed' = Remembered(noticed, ids)
                  /\ arrivals' = arrivals + Cardinality(ids \ noticed)
    /\ UNCHANGED <<kitchen, drawer, details, confirming, sent, lapses, barred>>

-----------------------------------------------------------------------------
(* The page.                                                               *)

ShowNewOrders ==
    /\ arrivals > 0 /\ drawer = Nobody
    /\ arrivals' = 0
    /\ UNCHANGED <<kitchen, watch, noticed, drawer, details, confirming, sent, lapses, barred>>

OpenOrder(o) ==
    /\ drawer = Nobody /\ kitchen[o] # "absent"
    /\ drawer' = o
    /\ details' = [details EXCEPT ![o] = Fetch(@, kitchen[o])]
    /\ UNCHANGED <<kitchen, watch, noticed, arrivals, confirming, sent, lapses, barred>>

CloseOrder ==
    /\ drawer # Nobody /\ sent = Unsent
    /\ drawer' = Nobody /\ confirming' = NoCommand
    /\ UNCHANGED <<kitchen, watch, noticed, arrivals, details, sent, lapses, barred>>

Send(c) ==
    /\ sent = Unsent
    /\ sent' = [command |-> c, order |-> drawer, result |-> NoCommand]
    /\ UNCHANGED <<kitchen, watch, noticed, arrivals, drawer, details, lapses, barred>>

\* The buttons for the status on screen; two of them ask first.
PressCommand(c) ==
    /\ drawer # Nobody /\ sent = Unsent
    /\ confirming = NoCommand \/ c = "setEstimate"
    /\ Usable(details[drawer]) /\ details[drawer].data \in From(c)
    /\ IF c \in Confirmed
       THEN /\ confirming' = c
            /\ UNCHANGED <<kitchen, watch, noticed, arrivals, drawer, details,
                           sent, lapses, barred>>
       ELSE Send(c) /\ UNCHANGED confirming

ConfirmCommand ==
    /\ confirming # NoCommand /\ Usable(details[drawer])
    /\ Send(confirming)
    /\ confirming' = NoCommand

KeepIt ==
    /\ confirming # NoCommand /\ sent = Unsent /\ Usable(details[drawer])
    /\ confirming' = NoCommand
    /\ UNCHANGED <<kitchen, watch, noticed, arrivals, drawer, details, sent,
                   lapses, barred>>

\* A success puts the returned detail in its query and invalidates the lists,
\* and the watch unless it only set the estimate; a failure invalidates
\* everything on the board.
TakeResult ==
    LET failed == sent.result \in {"refused", "lost"}
    IN  /\ sent # Unsent /\ sent.result # NoCommand
        /\ watch' = IF failed \/ sent.command # "setEstimate"
                    THEN Refetch(watch, Newest(Submitted)) ELSE watch
        /\ details' = [details EXCEPT ![drawer] =
                          IF failed THEN Refetch(@, kitchen[drawer]) ELSE Write(@, sent.result)]
        /\ barred' = IF sent.result = "refused"
                     THEN [sent EXCEPT !.result = NoCommand] ELSE barred
        /\ sent' = Unsent
        /\ UNCHANGED <<kitchen, noticed, arrivals, drawer, confirming, lapses>>

OrderDeskNext ==
    \/ \E o \in Tickets : MoveElsewhere(o)
    \/ RunCommand
    \/ LoseCommand
    \/ PollWatch
    \/ PollDetail
    \/ FailRead
    \/ \E o \in Tickets : LandDetail(o)
    \/ LandWatch
    \/ ShowNewOrders
    \/ \E o \in Opened : OpenOrder(o)
    \/ CloseOrder
    \/ \E c \in InUse : PressCommand(c)
    \/ ConfirmCommand
    \/ KeepIt
    \/ TakeResult

\* The intervals tick and the server answers; people are not obliged to do
\* anything.
OrderDeskFairness ==
    /\ WF_orderDeskVars(PollWatch)
    /\ WF_orderDeskVars(PollDetail)
    /\ WF_orderDeskVars(LandWatch)
    /\ \A o \in Tickets : WF_orderDeskVars(LandDetail(o))

OrderDeskSpec == OrderDeskInit /\ [][OrderDeskNext]_orderDeskVars
FairOrderDeskSpec == OrderDeskSpec /\ OrderDeskFairness

-----------------------------------------------------------------------------

\* A command that was refused because the order had moved is not offered again
\* on the word of an older answer: after the refetch that follows a refusal, no
\* poll that was under way before it puts the old status back on screen.
RefusedStaysRefused ==
    barred # Unsent =>
        LET q == details[barred.order]
        IN  ~UnderWay(q) /\ Usable(q) => q.data \notin From(barred.command)

\* "Impossible to miss": an order that stays among the newest submitted ones is
\* in the end noticed, whatever view or order is on screen, and whichever
\* answers were lost or overtaken.
NewOrderIsNoticed ==
    \A o \in Tickets :
        []<>(o \in Newest(Submitted) => noticed # NoData /\ o \in noticed)

\* The alert counts an order once.
CountedOnce == noticed = NoData \/ arrivals <= Cardinality(noticed)

\* An open drawer ends with the status that the order has.
DrawerCatchesUp == []<>(drawer # Nobody => details[drawer].data = kitchen[drawer])

\* "The drawer offers exactly these and nothing else": a command that waits to be
\* confirmed is one that is legal for the status on screen.
OffersOnlyLegal ==
    confirming # NoCommand /\ Usable(details[drawer])
        => details[drawer].data \in From(confirming)

=============================================================================
