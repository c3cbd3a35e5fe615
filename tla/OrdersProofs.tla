---------------------------- MODULE OrdersProofs ----------------------------
(***************************************************************************)
(* Safety of Orders.tla for every number of requests, keys, slots and      *)
(* caps.  The argument is one inductive invariant: who holds which lock    *)
(* (Holders), what a session may still rely on because it holds it         *)
(* (Knowledge), and what the committed rows therefore look like (Ledger).  *)
(***************************************************************************)
EXTENDS Orders, FiniteSetTheorems, TLAPS

(* A session past its lock acquisition still holds the lock, and knows     *)
(* what it was asked.                                                      *)
PlacementHolds(p) ==
    /\ pc[p] # "idle" => req[p] \in Request
    /\ pc[p] \in {"reserve", "insert"} => bizLock = p
    /\ pc[p] = "insert" => plan[p] \in Plan
    /\ p \in Placed => pc[p] = "done"

CommandHolds(c) ==
    /\ pc[c] # "idle" => act[c] \in Task
    /\ pc[c] = "read" => act[c].edge = CustomerCancel
    /\ pc[c] = "row" => act[c].edge # CustomerCancel
    /\ pc[c] \in {"read", "flush"} /\ act[c].edge = CustomerCancel => bizLock = c
    /\ pc[c] = "flush" /\ act[c].edge # CustomerCancel => rowLock[act[c].order] = c
    /\ reply[c] = "cancelled" => pc[c] = "done"

Holders == /\ \A p \in Ids : PlacementHolds(p)
           /\ \A c \in Commands : CommandHolds(c)

(* What was read under a lock is still true when it is used.               *)
PlacementKnows(p) ==
    /\ pc[p] \in {"reserve", "insert"} => shop.status = "active"
    /\ pc[p] = "insert" => /\ plan[p].number = Cardinality(Placed) + 1
                           /\ plan[p].slot \in Offered(req[p].zone)
                           /\ ~Full(plan[p].slot)

CommandKnows(c) ==
    pc[c] = "flush" => LET status == orders[act[c].order].status
                       IN  IF act[c].edge = None THEN status \in EstimateLegal
                                                 ELSE status = act[c].edge.from

Knowledge == /\ \A p \in Ids : PlacementKnows(p)
             /\ \A c \in Commands : CommandKnows(c)

Ledger == /\ Numbers = 1..Cardinality(Placed)
          /\ OneOrderPerKey
          /\ TrailExplainsStatus
          /\ CancelledForGood

Safe == TypeOK /\ Holders /\ Knowledge /\ Ledger
-----------------------------------------------------------------------------
(* A step that leaves the committed rows alone leaves everything that is   *)
(* said about them alone.                                                  *)
LEMMA RowsUnchanged ==
    ASSUME UNCHANGED <<orders, shop>>
    PROVE  /\ Placed' = Placed
           /\ Numbers' = Numbers
           /\ \A zone : Offered(zone)' = Offered(zone)
           /\ \A slot : Full(slot)' = Full(slot)
           /\ OneOrderPerKey' = OneOrderPerKey
           /\ TrailExplainsStatus' = TrailExplainsStatus
BY DEF Placed, Numbers, Offered, Full, Standing, OneOrderPerKey, TrailExplainsStatus

(* Ending a request without a write gives up what it held and nothing      *)
(* else; "cancelled" may be said only of a cancelled order.               *)
LEMMA AnswerSafe ==
    ASSUME Safe, NEW t \in Txns, InProgress(t),
           NEW answer \in Replies, Answer(t, answer),
           answer = "cancelled" =>
               t \in Commands /\ orders[act[t].order].status = "cancelled",
           UNCHANGED <<orders, shop, req, plan, act, histVars>>
    PROVE  Safe'
<1>1. TypeOK'
  BY OrdersConstants DEF Safe, TypeOK, Answer, Txns, histVars, Stages
<1>2. Holders'
  <2>1. \A p \in Ids : PlacementHolds(p)'
    BY RowsUnchanged, OrdersConstants
       DEF Safe, TypeOK, Holders, PlacementHolds, Answer, Txns, InProgress
  <2>2. \A c \in Commands : CommandHolds(c)'
    BY OrdersConstants
       DEF Safe, TypeOK, Holders, CommandHolds, Answer, Txns, InProgress, Task
  <2> QED
    BY <2>1, <2>2 DEF Holders
<1>3. Knowledge'
  BY RowsUnchanged, OrdersConstants
     DEF Safe, TypeOK, Knowledge, PlacementKnows, CommandKnows, Answer, Txns
<1>4. Ledger'
  BY RowsUnchanged, OrdersConstants
     DEF Safe, TypeOK, Ledger, CancelledForGood, Answer, Txns
<1> QED
  BY <1>1, <1>2, <1>3, <1>4 DEF Safe

(* A check is a read: only the request's own stage and answer change, and  *)
(* no stage that means holding a lock is entered.                          *)
LEMMA CheckSafe ==
    ASSUME Safe, NEW p \in Ids,
           \/ CheckEntitlement(p) \/ CheckPickup(p) \/ LookupKey(p)
           \/ CheckPause(p) \/ PriceCart(p)
    PROVE  Safe'
<1>1. /\ pc[p] \in {"entitlement", "pickup", "lookup", "pause", "cart"}
      /\ \/ \E next \in {"pickup", "lookup", "pause", "cart", "lock"} :
               Advance(p, next) /\ UNCHANGED <<bizLock, rowLock>>
         \/ \E answer \in Replies \ {"cancelled"} : Answer(p, answer)
      /\ UNCHANGED <<orders, shop, req, plan, act, histVars>>
  BY DEF CheckEntitlement, CheckPickup, LookupKey, CheckPause, PriceCart, Check,
         Replies, Replay
<1>2. CASE \E answer \in Replies \ {"cancelled"} : Answer(p, answer)
  BY <1>1, <1>2, AnswerSafe DEF Txns, InProgress
<1>3. CASE \E next \in {"pickup", "lookup", "pause", "cart", "lock"} :
               Advance(p, next) /\ UNCHANGED <<bizLock, rowLock>>
  <2>1. TypeOK'
    BY <1>1, <1>3, OrdersConstants DEF Safe, TypeOK, Advance, Txns, histVars, Stages
  <2>2. Holders'
    BY <1>1, <1>3, RowsUnchanged, OrdersConstants
       DEF Safe, TypeOK, Holders, PlacementHolds, CommandHolds, Advance, Txns
  <2>3. Knowledge'
    BY <1>1, <1>3, RowsUnchanged, OrdersConstants
       DEF Safe, TypeOK, Knowledge, PlacementKnows, CommandKnows, Advance, Txns
  <2>4. Ledger'
    BY <1>1, <1>3, RowsUnchanged DEF Safe, Ledger, CancelledForGood, Advance
  <2> QED
    BY <2>1, <2>2, <2>3, <2>4 DEF Safe
<1> QED
  BY <1>1, <1>2, <1>3

LEMMA BeginPlacementSafe ==
    ASSUME Safe, NEW p \in Ids, NEW key \in Keys, NEW want \in Slots \cup {Asap},
           BeginPlacement(p, key, want)
    PROVE  Safe'
<1>1. [key |-> key, want |-> want, zone |-> shop.zone] \in Request
  BY DEF Request, Safe, TypeOK, ShopState
<1>2. TypeOK'
  BY <1>1 DEF Safe, TypeOK, BeginPlacement, Advance, Txns, dbVars, Stages
<1>3. Holders'
  BY <1>1, RowsUnchanged, OrdersConstants
     DEF Safe, TypeOK, Holders, PlacementHolds, CommandHolds, BeginPlacement, Advance,
         Txns, dbVars
<1>4. Knowledge'
  BY RowsUnchanged, OrdersConstants
     DEF Safe, TypeOK, Knowledge, PlacementKnows, CommandKnows, BeginPlacement, Advance,
         Txns, dbVars
<1>5. Ledger'
  BY RowsUnchanged DEF Safe, Ledger, CancelledForGood, BeginPlacement, Advance, dbVars
<1> QED
  BY <1>2, <1>3, <1>4, <1>5 DEF Safe

LEMMA LockForPlacementSafe ==
    ASSUME Safe, NEW p \in Ids, LockForPlacement(p)
    PROVE  Safe'
<1>1. CASE Answer(p, "not_found")
  BY <1>1, AnswerSafe DEF LockForPlacement, Txns, InProgress, Replies
<1>2. CASE ~Answer(p, "not_found")
  <2>1. /\ pc[p] = "lock"
        /\ bizLock = None /\ bizLock' = p
        /\ shop.status = "active"
        /\ pc' = [pc EXCEPT ![p] = "reserve"]
        /\ UNCHANGED <<orders, shop, rowLock, req, plan, act, reply, histVars>>
    BY <1>2 DEF LockForPlacement, CanLockBusiness, Advance
  <2>2. TypeOK'
    BY <2>1 DEF Safe, TypeOK, Txns, histVars, Stages
  <2>3. Holders'
    BY <2>1, RowsUnchanged, OrdersConstants
       DEF Safe, TypeOK, Holders, PlacementHolds, CommandHolds, Txns
  <2>4. Knowledge'
    BY <2>1, RowsUnchanged, OrdersConstants
       DEF Safe, TypeOK, Knowledge, PlacementKnows, CommandKnows, Txns
  <2>5. Ledger'
    BY <2>1, RowsUnchanged DEF Safe, Ledger, CancelledForGood
  <2> QED
    BY <2>2, <2>3, <2>4, <2>5 DEF Safe
<1> QED
  BY <1>1, <1>2
-----------------------------------------------------------------------------
(* Counting.                                                               *)

LEMMA PlacedIsFinite ==
    /\ IsFiniteSet(Placed) /\ Cardinality(Placed) \in Nat
    /\ \A slot : IsFiniteSet(Standing(slot)) /\ Cardinality(Standing(slot)) \in Nat
<1>1. Placed \subseteq Ids /\ \A slot : Standing(slot) \subseteq Ids
  BY DEF Placed, Standing
<1> QED
  BY <1>1, BookConstants, FS_Subset, FS_CardinalityType

LEMMA MaxOfInterval ==
    ASSUME NEW n \in Nat \ {0}
    PROVE  Max(1..n) = n
BY DEF Max

(* Behind the lock MAX + 1 is the number of orders plus one.               *)
LEMMA NextNumberIsNext ==
    ASSUME Numbers = 1..Cardinality(Placed)
    PROVE  NextNumber = Cardinality(Placed) + 1
<1>1. CASE Placed = {}
  BY <1>1, FS_EmptySet DEF NextNumber
<1>2. CASE Placed # {}
  <2>1. Cardinality(Placed) \in Nat \ {0}
    BY <1>2, PlacedIsFinite, FS_EmptySet
  <2> QED
    BY <1>2, <2>1, MaxOfInterval DEF NextNumber
<1> QED
  BY <1>1, <1>2

LEMMA ReserveSafe ==
    ASSUME Safe, NEW p \in Ids, Reserve(p)
    PROVE  Safe'
<1>1. CASE Answer(p, "slot_unavailable") /\ UNCHANGED plan
  BY <1>1, AnswerSafe DEF Reserve, Txns, InProgress, Replies
<1>2. CASE \E slot \in Promises(req[p]) :
             /\ ~Full(slot)
             /\ plan' = [plan EXCEPT ![p] = [slot |-> slot, number |-> NextNumber]]
             /\ Advance(p, "insert")
             /\ UNCHANGED <<bizLock, rowLock>>
  <2>1. PICK slot \in Promises(req[p]) :
             /\ ~Full(slot)
             /\ plan' = [plan EXCEPT ![p] = [slot |-> slot, number |-> NextNumber]]
             /\ Advance(p, "insert")
             /\ UNCHANGED <<bizLock, rowLock>>
    BY <1>2
  <2>2. pc[p] = "reserve" /\ UNCHANGED <<orders, shop, req, act, histVars>>
    BY DEF Reserve
  <2>3. slot \in Offered(req[p].zone) /\ slot \in Slots
    <3>1. slot \in Offered(req[p].zone)
      BY <2>1 DEF Promises
    <3>2. req[p].zone \in Zones
      BY <2>2 DEF Safe, Holders, PlacementHolds, Request
    <3>3. \A w \in shop.hours : Clock[req[p].zone][w] \in Slots
      BY <3>2, BookConstants DEF Safe, TypeOK, ShopState
    <3> QED
      BY <3>1, <3>3 DEF Offered
  <2>4. NextNumber = Cardinality(Placed) + 1 /\ NextNumber \in Nat
    BY NextNumberIsNext, PlacedIsFinite DEF Safe, Ledger
  <2>5. [slot |-> slot, number |-> NextNumber] \in Plan
    BY <2>3, <2>4 DEF Plan
  <2>6. TypeOK'
    BY <2>1, <2>2, <2>5 DEF Safe, TypeOK, Advance, Txns, histVars, Stages
  <2>7. Holders'
    BY <2>1, <2>2, <2>5, RowsUnchanged, OrdersConstants
       DEF Safe, TypeOK, Holders, PlacementHolds, CommandHolds, Advance, Txns
  <2>8. Knowledge'
    <3>1. \A q \in Ids : PlacementKnows(q)'
      BY <2>1, <2>2, <2>3, <2>4, RowsUnchanged
         DEF Safe, TypeOK, Knowledge, PlacementKnows, Advance, Txns
    <3>2. \A c \in Commands : CommandKnows(c)'
      BY <2>1, <2>2, OrdersConstants
         DEF Safe, TypeOK, Knowledge, CommandKnows, Advance, Txns
    <3> QED
      BY <3>1, <3>2 DEF Knowledge
  <2>9. Ledger'
    BY <2>1, <2>2, RowsUnchanged DEF Safe, Ledger, CancelledForGood, Advance
  <2> QED
    BY <2>6, <2>7, <2>8, <2>9 DEF Safe
<1> QED
  BY <1>1, <1>2 DEF Reserve
-----------------------------------------------------------------------------
(* Writing.                                                                *)

(* What a new row does to the ledger.                                      *)
LEMMA NewRow ==
    ASSUME Safe, NEW p \in Ids, p \notin Placed,
           NEW key \in Keys, NEW want \in Slots \cup {Asap}, NEW zone \in Zones,
           NEW slot \in Slots,
           \A q \in Placed : orders[q].key # key,
           orders' = [orders EXCEPT ![p] =
                         NewOrder(key, want, zone, slot, Cardinality(Placed) + 1)]
    PROVE  /\ orders' \in [Ids -> OrderRow]
           /\ Placed' = Placed \cup {p}
           /\ Cardinality(Placed') = Cardinality(Placed) + 1
           /\ Numbers' = 1..Cardinality(Placed')
           /\ OneOrderPerKey'
           /\ TrailExplainsStatus'
<1> DEFINE new == NewOrder(key, want, zone, slot, Cardinality(Placed) + 1)
<1>1. /\ new.status = "submitted" /\ new.key = key
      /\ new.number = Cardinality(Placed) + 1
      /\ new.trail = <<[from |-> None, to |-> "submitted"]>>
  BY DEF NewOrder
<1>2. new \in OrderRow
  BY PlacedIsFinite DEF NewOrder, OrderRow, Event, Statuses
<1>3. /\ orders'[p] = new
      /\ \A q \in Ids \ {p} : orders'[q] = orders[q]
  BY DEF Safe, TypeOK
<1>4. orders' \in [Ids -> OrderRow]
  BY <1>2 DEF Safe, TypeOK
<1> HIDE DEF new
<1>5. Placed' = Placed \cup {p}
  BY <1>1, <1>3 DEF Placed
<1>6. Cardinality(Placed') = Cardinality(Placed) + 1
  BY <1>5, PlacedIsFinite, FS_AddElement
<1>7. Numbers' = Numbers \cup {Cardinality(Placed) + 1}
  <2>1. Numbers' = {orders'[o].number : o \in Placed \cup {p}}
    BY <1>5 DEF Numbers
  <2>2. orders'[p].number = Cardinality(Placed) + 1
    BY <1>1, <1>3
  <2>3. \A o \in Placed : orders'[o].number = orders[o].number
    BY <1>3 DEF Placed
  <2> QED
    BY <2>1, <2>2, <2>3 DEF Numbers
<1>8. Numbers' = 1..Cardinality(Placed')
  BY <1>6, <1>7, PlacedIsFinite DEF Safe, Ledger
<1>9. OneOrderPerKey'
  BY <1>1, <1>3, <1>5 DEF Safe, Ledger, OneOrderPerKey, Placed
<1>10. TrailExplainsStatus'
  <2> SUFFICES ASSUME NEW o \in Placed'
               PROVE  Explains(orders'[o].trail, orders'[o].status)
    BY DEF TrailExplainsStatus
  <2>1. CASE o = p
    BY <1>1, <1>3, <2>1 DEF Explains
  <2>2. CASE o # p
    BY <1>3, <1>5, <2>2 DEF Safe, Ledger, TrailExplainsStatus, Placed
  <2> QED
    BY <2>1, <2>2
<1> QED
  BY <1>4, <1>5, <1>6, <1>8, <1>9, <1>10

LEMMA InsertSafe ==
    ASSUME Safe, NEW p \in Ids, Insert(p)
    PROVE  Safe'
<1>1. CASE \E answer \in {"server_error", Replay(p)} :
             Answer(p, answer) /\ UNCHANGED orders
  BY <1>1, AnswerSafe DEF Insert, Txns, InProgress, Replies, Replay
<1>2. CASE /\ ~NumberCollides(p) /\ ~KeyCollides(p)
           /\ orders' = [orders EXCEPT ![p] =
                 NewOrder(req[p].key, req[p].want, req[p].zone, plan[p].slot, plan[p].number)]
           /\ Answer(p, "created")
  <2>1. /\ pc[p] = "insert" /\ bizLock = p
        /\ UNCHANGED <<shop, req, plan, act, histVars>>
        /\ req[p] \in Request /\ plan[p] \in Plan
        /\ plan[p].number = Cardinality(Placed) + 1
        /\ p \notin Placed
    BY DEF Insert, Safe, Holders, PlacementHolds, Knowledge, PlacementKnows
  <2>2. /\ req[p].key \in Keys /\ req[p].want \in Slots \cup {Asap}
        /\ req[p].zone \in Zones /\ plan[p].slot \in Slots
        /\ \A q \in Placed : orders[q].key # req[p].key
    BY <1>2, <2>1 DEF Request, Plan, KeyCollides, OrdersOf
  <2>3. /\ orders' \in [Ids -> OrderRow]
        /\ Placed' = Placed \cup {p}
        /\ Numbers' = 1..Cardinality(Placed')
        /\ OneOrderPerKey'
        /\ TrailExplainsStatus'
    BY <1>2, <2>1, <2>2, NewRow
  <2>4. /\ bizLock' = None /\ rowLock' = rowLock
        /\ pc' = [pc EXCEPT ![p] = "done"]
        /\ reply' = [reply EXCEPT ![p] = "created"]
    BY <1>2, <2>1, OrdersConstants DEF Answer, Safe, TypeOK
  <2>5. TypeOK'
    BY <2>1, <2>3, <2>4 DEF Safe, TypeOK, Txns, histVars, Stages, Replies
  <2>6. Holders'
    <3>1. \A q \in Ids : PlacementHolds(q)'
      BY <2>1, <2>3, <2>4 DEF Safe, TypeOK, Holders, PlacementHolds, Txns
    <3>2. \A c \in Commands : CommandHolds(c)'
      BY <2>1, <2>4, OrdersConstants DEF Safe, TypeOK, Holders, CommandHolds, Txns
    <3> QED
      BY <3>1, <3>2 DEF Holders
  <2>7. Knowledge'
    <3>1. \A q \in Ids : PlacementKnows(q)'
      BY <2>1, <2>4 DEF Safe, TypeOK, Holders, PlacementHolds, PlacementKnows, Txns
    <3>2. ASSUME NEW c \in Commands
          PROVE  CommandKnows(c)'
      <4>1. CASE pc[c] = "flush"
        <5>1. act[c] \in Task /\ CommandKnows(c)
          BY <4>1 DEF Safe, Holders, CommandHolds, Knowledge
        <5>2. orders[act[c].order].status # "absent"
          BY <4>1, <5>1
             DEF CommandKnows, EstimateLegal, Task, Machine, MemberTransitions,
                 CustomerCancel, Edge
        <5>3. act[c].order \in Ids /\ act[c].order # p
          BY <2>1, <5>1, <5>2 DEF Task, Placed
        <5>4. orders'[act[c].order] = orders[act[c].order]
          BY <1>2, <5>3 DEF Safe, TypeOK
        <5> QED
          BY <2>1, <4>1, <5>1, <5>4 DEF CommandKnows
      <4>2. CASE pc[c] # "flush"
        BY <2>4, <4>2, OrdersConstants DEF CommandKnows, Safe, TypeOK, Txns
      <4> QED
        BY <4>1, <4>2
    <3> QED
      BY <3>1, <3>2 DEF Knowledge
  <2>8. CancelledForGood'
    BY <1>2, <2>1, <2>4, OrdersConstants
       DEF Safe, TypeOK, Ledger, CancelledForGood, Placed, Txns, Holders, CommandHolds, Task
  <2> QED
    BY <2>3, <2>5, <2>6, <2>7, <2>8 DEF Safe, Ledger
<1> QED
  BY <1>1, <1>2 DEF Insert
-----------------------------------------------------------------------------
(* Commands, up to their commit.                                           *)

(* The machine as the commands use it.                                     *)
LEMMA MachineEdges ==
    /\ CustomerCancel \in Machine
    /\ CustomerCancel.from = "submitted" /\ CustomerCancel.to = "cancelled"
    /\ CustomerCancel \notin MemberTransitions
    /\ \A e \in Machine : /\ e.from \in {"submitted", "accepted", "preparing", "ready"}
                          /\ e.to \in Statuses \ {"submitted"}
                          /\ e \in MemberTransitions \/ e = CustomerCancel
                          /\ e.to \in {"cancelled", "rejected"} => TakesBusinessLock(e)
BY DEF Machine, MemberTransitions, CustomerCancel, Edge, Statuses, TakesBusinessLock,
       SlotReleasing

LEMMA BeginCommandSafe ==
    ASSUME Safe, NEW c \in Commands, NEW task \in Tasks, BeginCommand(c, task)
    PROVE  Safe'
<1>1. /\ pc[c] = "idle"
      /\ act' = [act EXCEPT ![c] = task]
      /\ \E stage \in {"lock", "row"} :
            /\ pc' = [pc EXCEPT ![c] = stage]
            /\ stage = "row" => task.edge # CustomerCancel
      /\ UNCHANGED <<dbVars, req, plan, reply, histVars>>
  BY OrdersConstants, MachineEdges DEF BeginCommand, Advance, TakesBusinessLock
<1>2. task \in Task
  BY DEF Tasks
<1>3. TypeOK'
  BY <1>1, <1>2 DEF Safe, TypeOK, Txns, dbVars, histVars, Stages
<1>4. Holders'
  <2>1. \A p \in Ids : PlacementHolds(p)'
    BY <1>1, RowsUnchanged, OrdersConstants
       DEF Safe, TypeOK, Holders, PlacementHolds, Txns, dbVars
  <2>2. \A d \in Commands : CommandHolds(d)'
    BY <1>1, <1>2 DEF Safe, TypeOK, Holders, CommandHolds, Txns, dbVars
  <2> QED
    BY <2>1, <2>2 DEF Holders
<1>5. Knowledge'
  <2>1. \A p \in Ids : PlacementKnows(p)'
    BY <1>1, RowsUnchanged, OrdersConstants
       DEF Safe, TypeOK, Knowledge, PlacementKnows, Txns, dbVars
  <2>2. \A d \in Commands : CommandKnows(d)'
    BY <1>1 DEF Safe, TypeOK, Knowledge, CommandKnows, Txns, dbVars
  <2> QED
    BY <2>1, <2>2 DEF Knowledge
<1>6. Ledger'
  BY <1>1, RowsUnchanged
     DEF Safe, TypeOK, Ledger, CancelledForGood, Holders, CommandHolds, dbVars
<1> QED
  BY <1>3, <1>4, <1>5, <1>6 DEF Safe

(* A command that moves on and writes nothing: it has to hold and to know  *)
(* what its new stage promises.                                            *)
LEMMA CommandAdvances ==
    ASSUME Safe, NEW c \in Commands, InProgress(c),
           NEW stage \in {"read", "row", "flush"}, Advance(c, stage),
           UNCHANGED <<orders, shop, req, plan, act, histVars>>,
           \/ bizLock = None /\ bizLock' = c /\ rowLock' = rowLock
           \/ bizLock' = bizLock /\ rowLock' = rowLock
           \/ /\ bizLock' = bizLock
              /\ rowLock[act[c].order] = None
              /\ rowLock' = [rowLock EXCEPT ![act[c].order] = c],
           CommandHolds(c)', CommandKnows(c)'
    PROVE  Safe'
<1>1. /\ pc' = [pc EXCEPT ![c] = stage]
      /\ reply' = reply
      /\ act[c] \in Task
  BY DEF Advance, Safe, Holders, CommandHolds, InProgress
<1>2. TypeOK'
  BY <1>1 DEF Safe, TypeOK, Txns, histVars, Stages, Task
<1>3. Holders'
  <2>1. \A p \in Ids : PlacementHolds(p)'
    BY <1>1, RowsUnchanged, OrdersConstants
       DEF Safe, TypeOK, Holders, PlacementHolds, Txns
  <2>2. ASSUME NEW d \in Commands, d # c
        PROVE  CommandHolds(d)'
    BY <1>1, <2>2, OrdersConstants
       DEF Safe, TypeOK, Holders, CommandHolds, Txns, Task
  <2> QED
    BY <2>1, <2>2 DEF Holders
<1>4. Knowledge'
  <2>1. \A p \in Ids : PlacementKnows(p)'
    BY <1>1, RowsUnchanged, OrdersConstants
       DEF Safe, TypeOK, Knowledge, PlacementKnows, Txns
  <2>2. ASSUME NEW d \in Commands, d # c
        PROVE  CommandKnows(d)'
    BY <1>1, <2>2 DEF Safe, TypeOK, Knowledge, CommandKnows, Txns
  <2> QED
    BY <2>1, <2>2 DEF Knowledge
<1>5. Ledger'
  BY <1>1, RowsUnchanged DEF Safe, Ledger, CancelledForGood
<1> QED
  BY <1>2, <1>3, <1>4, <1>5 DEF Safe

LEMMA LockForReleaseSafe ==
    ASSUME Safe, NEW c \in Commands, LockForRelease(c)
    PROVE  Safe'
<1>1. CASE Answer(c, "not_found")
  BY <1>1, AnswerSafe DEF LockForRelease, Txns, InProgress, Replies
<1>2. CASE ~Answer(c, "not_found")
  <2> DEFINE stage == IF act[c].edge = CustomerCancel THEN "read" ELSE "row"
  <2>1. /\ pc[c] = "lock" /\ bizLock = None /\ bizLock' = c
        /\ Advance(c, stage)
        /\ UNCHANGED <<orders, shop, rowLock, req, plan, act, histVars>>
    BY <1>2 DEF LockForRelease, CanLockBusiness
  <2>2. pc' = [pc EXCEPT ![c] = stage] /\ reply' = reply
    BY <2>1 DEF Advance
  <2>3. CommandHolds(c)' /\ CommandKnows(c)'
    BY <2>1, <2>2 DEF Safe, TypeOK, Holders, CommandHolds, CommandKnows, Txns
  <2> QED
    BY <2>1, <2>3, CommandAdvances DEF InProgress
<1> QED
  BY <1>1, <1>2

LEMMA LockOrderSafe ==
    ASSUME Safe, NEW c \in Commands, LockOrder(c)
    PROVE  Safe'
<1>1. /\ pc[c] = "row" /\ rowLock[act[c].order] = None
      /\ UNCHANGED <<orders, shop, req, plan, act, histVars>>
  BY DEF LockOrder, CanLockOrder
<1>2. CASE \E answer \in {"conflict", "unchanged"} : Answer(c, answer)
  BY <1>1, <1>2, AnswerSafe DEF Txns, InProgress, Replies
<1>3. CASE ~ \E answer \in {"conflict", "unchanged"} : Answer(c, answer)
  <2>1. /\ IF act[c].edge = None
               THEN orders[act[c].order].status \in EstimateLegal
               ELSE orders[act[c].order].status = act[c].edge.from
        /\ rowLock' = [rowLock EXCEPT ![act[c].order] = c]
        /\ Advance(c, "flush")
        /\ bizLock' = bizLock
    BY <1>3 DEF LockOrder
  <2>2. pc' = [pc EXCEPT ![c] = "flush"] /\ reply' = reply
    BY <2>1 DEF Advance
  <2>3. act[c].order \in Ids /\ act[c].edge # CustomerCancel
    BY <1>1 DEF Safe, Holders, CommandHolds, Task
  <2>4. CommandHolds(c)' /\ CommandKnows(c)'
    BY <1>1, <2>1, <2>2, <2>3
       DEF Safe, TypeOK, Holders, CommandHolds, CommandKnows, Txns
  <2> QED
    BY <1>1, <2>1, <2>4, CommandAdvances DEF InProgress
<1> QED
  BY <1>2, <1>3

LEMMA ReadByTokenSafe ==
    ASSUME Safe, NEW c \in Commands, ReadByToken(c)
    PROVE  Safe'
<1> DEFINE status == orders[act[c].order].status
<1>1. /\ pc[c] = "read"
      /\ UNCHANGED <<orders, shop, req, plan, act, histVars>>
  BY DEF ReadByToken
<1>2. CASE status = "submitted" /\ Advance(c, "flush") /\ UNCHANGED <<bizLock, rowLock>>
  <2>1. pc' = [pc EXCEPT ![c] = "flush"] /\ reply' = reply
    BY <1>2 DEF Advance
  <2>2. act[c].edge = CustomerCancel /\ act[c].edge # None
    BY <1>1, OrdersConstants, MachineEdges DEF Safe, Holders, CommandHolds
  <2>3. CommandHolds(c)' /\ CommandKnows(c)'
    BY <1>1, <1>2, <2>1, <2>2, MachineEdges
       DEF Safe, TypeOK, Holders, CommandHolds, CommandKnows, Txns
  <2> QED
    BY <1>1, <1>2, <2>3, CommandAdvances DEF InProgress
<1>3. CASE status = "cancelled" /\ Answer(c, "cancelled")
  BY <1>1, <1>3, AnswerSafe DEF Txns, InProgress, Replies
<1>4. CASE Answer(c, "conflict")
  BY <1>1, <1>4, AnswerSafe DEF Txns, InProgress, Replies
<1> QED
  BY <1>2, <1>3, <1>4 DEF ReadByToken
-----------------------------------------------------------------------------
(* The commits of the commands.                                            *)

(* One more event at the end of a timeline.                                *)
LEMMA MovedRow ==
    ASSUME NEW order \in OrderRow, NEW e \in Machine, order.status = e.from,
           Explains(order.trail, order.status)
    PROVE  LET moved == Moved(order, e.from, e.to)
           IN  /\ moved \in OrderRow
               /\ moved.status = e.to
               /\ moved.key = order.key
               /\ moved.number = order.number
               /\ moved.estimate = order.estimate
               /\ Explains(moved.trail, moved.status)
<1> DEFINE event == [from |-> e.from, to |-> e.to]
           moved == Moved(order, e.from, e.to)
           trail == order.trail
<1>1. e.from \in Statuses /\ e.to \in Statuses
  BY MachineEdges DEF Statuses
<1>2. event \in Event
  BY <1>1 DEF Event
<1>3. /\ order.trail \in Seq(Event)
      /\ moved = [order EXCEPT !.status = e.to, !.trail = Append(trail, event)]
  BY DEF OrderRow, Moved
<1>4. Append(trail, event) \in Seq(Event)
  BY <1>2, <1>3
<1>5. /\ moved \in OrderRow
      /\ moved.status = e.to
      /\ moved.key = order.key
      /\ moved.number = order.number
      /\ moved.estimate = order.estimate
      /\ moved.trail = Append(trail, event)
  BY <1>1, <1>3, <1>4 DEF OrderRow
<1>6. Explains(Append(trail, event), e.to)
  <2> DEFINE longer == Append(trail, event)
  <2>1. /\ Len(trail) \in Nat \ {0}
        /\ Len(longer) = Len(trail) + 1
        /\ longer[Len(trail) + 1] = event
        /\ \A i \in 1..Len(trail) : longer[i] = trail[i]
    BY <1>2, <1>3 DEF Explains
  <2> HIDE DEF longer
  <2>2. /\ trail[1] = [from |-> None, to |-> "submitted"]
        /\ trail[Len(trail)].to = e.from
        /\ \A i \in 2..Len(trail) :
              /\ trail[i].from = trail[i - 1].to
              /\ \E f \in Machine : f.from = trail[i].from /\ f.to = trail[i].to
    BY DEF Explains
  <2>3. longer # <<>> /\ longer[1] = trail[1]
    BY <2>1 DEF longer
  <2>4. ASSUME NEW i \in 2..Len(longer)
        PROVE  /\ longer[i].from = longer[i - 1].to
               /\ \E f \in Machine : f.from = longer[i].from /\ f.to = longer[i].to
    <3>1. CASE i \in 2..Len(trail)
      <4>1. i \in 1..Len(trail) /\ i - 1 \in 1..Len(trail)
        BY <2>1, <3>1
      <4>2. longer[i] = trail[i] /\ longer[i - 1] = trail[i - 1]
        BY <2>1, <4>1
      <4> QED
        BY <2>2, <3>1, <4>2
    <3>2. CASE i = Len(trail) + 1
      BY <2>1, <2>2, <3>2
    <3> QED
      BY <2>1, <2>4, <3>1, <3>2
  <2>5. longer[Len(longer)].to = e.to
    BY <2>1
  <2> QED
    BY <2>2, <2>3, <2>4, <2>5 DEF Explains, longer
<1> QED
  BY <1>5, <1>6

(* A command that rewrites its order's row and ends: nobody else relies on *)
(* that row, because everybody who does holds its lock or the Business's.  *)
LEMMA RewriteSafe ==
    ASSUME Safe, NEW c \in Commands, pc[c] = "flush",
           bizLock \in {None, c}, rowLock[act[c].order] \in {None, c},
           NEW row \in OrderRow,
           row.status # "absent",
           row.key = orders[act[c].order].key,
           row.number = orders[act[c].order].number,
           Explains(row.trail, row.status),
           orders[act[c].order].status \notin {"absent", "cancelled"},
           orders' = [orders EXCEPT ![act[c].order] = row],
           NEW answer \in Replies, Answer(c, answer),
           answer = "cancelled" => row.status = "cancelled",
           UNCHANGED <<shop, req, plan, act, histVars>>
    PROVE  Safe'
<1> DEFINE o == act[c].order
<1>1. /\ act[c] \in Task /\ o \in Ids /\ o \in Placed
      /\ CommandHolds(c)
  BY DEF Safe, Holders, CommandHolds, Task, Placed
<1>2. /\ orders'[o] = row
      /\ \A q \in Ids \ {o} : orders'[q] = orders[q]
      /\ orders' \in [Ids -> OrderRow]
  BY <1>1 DEF Safe, TypeOK
<1>3. /\ pc' = [pc EXCEPT ![c] = "done"]
      /\ reply' = [reply EXCEPT ![c] = answer]
      /\ bizLock' = None
      /\ rowLock' = [q \in Ids |-> IF rowLock[q] = c THEN None ELSE rowLock[q]]
  BY DEF Answer
<1> HIDE DEF o
<1>4. Placed' = Placed
  BY <1>1, <1>2 DEF Placed
<1>5. /\ \A q \in Placed : /\ orders'[q].number = orders[q].number
                           /\ orders'[q].key = orders[q].key
      /\ Numbers' = Numbers
  <2>1. \A q \in Placed : /\ orders'[q].number = orders[q].number
                          /\ orders'[q].key = orders[q].key
    BY <1>1, <1>2 DEF Placed, o
  <2>2. Numbers' = {orders'[q].number : q \in Placed}
    BY <1>4 DEF Numbers
  <2> QED
    BY <2>1, <2>2 DEF Numbers
<1>6. TypeOK'
  BY <1>2, <1>3 DEF Safe, TypeOK, Txns, histVars, Stages
<1>7. Holders'
  <2>1. \A p \in Ids : PlacementHolds(p)'
    BY <1>3, <1>4, OrdersConstants DEF Safe, TypeOK, Holders, PlacementHolds, Txns
  <2>2. ASSUME NEW d \in Commands
        PROVE  CommandHolds(d)'
    BY <1>3, OrdersConstants DEF Safe, TypeOK, Holders, CommandHolds, Txns, Task
  <2> QED
    BY <2>1, <2>2 DEF Holders
<1>8. Knowledge'
  <2>1. ASSUME NEW p \in Ids
        PROVE  PlacementKnows(p)'
    <3>1. bizLock # p
      BY OrdersConstants
    <3> QED
      BY <1>3, <3>1, OrdersConstants
         DEF Safe, TypeOK, Holders, PlacementHolds, PlacementKnows, Txns
  <2>2. ASSUME NEW d \in Commands
        PROVE  CommandKnows(d)'
    <3>1. CASE pc[d] = "flush" /\ d # c
      <4>1. CommandHolds(d) /\ CommandKnows(d) /\ act[d] \in Task /\ act[d].order \in Ids
        BY <3>1 DEF Safe, Holders, Knowledge, CommandHolds, Task
      <4>2. rowLock[act[d].order] = d
        BY <3>1, <4>1, OrdersConstants DEF CommandHolds
      <4>3. act[d].order # o
        BY <3>1, <4>2, OrdersConstants DEF o
      <4> QED
        BY <1>2, <3>1, <4>1, <4>3 DEF CommandKnows
    <3>2. CASE ~(pc[d] = "flush" /\ d # c)
      BY <1>3, <3>2 DEF Safe, TypeOK, CommandKnows, Txns
    <3> QED
      BY <3>1, <3>2
  <2> QED
    BY <2>1, <2>2 DEF Knowledge
<1>9. OneOrderPerKey'
  BY <1>4, <1>5 DEF Safe, Ledger, OneOrderPerKey
<1>10. TrailExplainsStatus'
  BY <1>1, <1>2, <1>4 DEF Safe, Ledger, TrailExplainsStatus, Placed
<1>11. ASSUME NEW d \in Commands, reply'[d] = "cancelled"
       PROVE  orders'[act'[d].order].status = "cancelled"
  <2>1. CASE d = c
    BY <1>2, <1>3, <1>11, <2>1 DEF Safe, TypeOK, Txns, o
  <2>2. CASE d # c
    <3>1. reply[d] = "cancelled" /\ pc[d] = "done"
      BY <1>3, <1>11, <2>2 DEF Safe, TypeOK, Holders, CommandHolds, Txns
    <3>2. act[d].order \in Ids /\ orders[act[d].order].status = "cancelled"
      BY <3>1 DEF Safe, Holders, CommandHolds, Ledger, CancelledForGood, Task
    <3>3. act[d].order # o
      BY <3>2 DEF o
    <3> QED
      BY <1>2, <3>2, <3>3
  <2> QED
    BY <2>1, <2>2
<1> QED
  BY <1>4, <1>5, <1>6, <1>7, <1>8, <1>9, <1>10, <1>11
     DEF Safe, Ledger, CancelledForGood

LEMMA CommitTransitionSafe ==
    ASSUME Safe, NEW c \in Commands, CommitTransition(c)
    PROVE  Safe'
<1> DEFINE order == orders[act[c].order]
           edge  == act[c].edge
           moved == Moved(order, edge.from, edge.to)
<1>1. /\ pc[c] = "flush" /\ edge \in MemberTransitions
      /\ bizLock \in {None, c}
      /\ orders' = [orders EXCEPT ![act[c].order] = moved]
      /\ Answer(c, "moved")
      /\ UNCHANGED <<shop, req, plan, act, histVars>>
  BY DEF CommitTransition, CanReferenceBusiness
<1>2. edge \in Machine /\ edge # CustomerCancel /\ edge # None
  BY <1>1, MachineEdges, OrdersConstants DEF Machine
<1>3. /\ act[c].order \in Ids /\ order \in OrderRow
      /\ order.status = edge.from
      /\ rowLock[act[c].order] = c
  BY <1>1, <1>2 DEF Safe, TypeOK, Holders, CommandHolds, Knowledge, CommandKnows, Task
<1>4. order.status \notin {"absent", "cancelled"} /\ act[c].order \in Placed
  BY <1>2, <1>3, MachineEdges DEF Placed
<1>5. Explains(order.trail, order.status)
  BY <1>4 DEF Safe, Ledger, TrailExplainsStatus
<1>6. /\ moved \in OrderRow
      /\ moved.status = edge.to /\ edge.to # "absent"
      /\ moved.key = order.key
      /\ moved.number = order.number
      /\ Explains(moved.trail, moved.status)
  BY <1>2, <1>3, <1>5, MovedRow, MachineEdges DEF Statuses
<1> HIDE DEF moved
<1> QED
  BY <1>1, <1>3, <1>4, <1>6, RewriteSafe DEF Replies

LEMMA CommitCancelSafe ==
    ASSUME Safe, NEW c \in Commands, CommitCancel(c)
    PROVE  Safe'
<1> DEFINE order == orders[act[c].order]
           moved == Moved(order, "submitted", "cancelled")
<1>1. /\ pc[c] = "flush" /\ act[c].edge = CustomerCancel
      /\ rowLock[act[c].order] = None
      /\ orders' = [orders EXCEPT ![act[c].order] = moved]
      /\ Answer(c, "cancelled")
      /\ UNCHANGED <<shop, req, plan, act, histVars>>
  BY DEF CommitCancel, CanLockOrder
<1>2. CustomerCancel \in Machine /\ CustomerCancel # None
  BY MachineEdges, OrdersConstants
<1>3. /\ act[c].order \in Ids /\ order \in OrderRow
      /\ order.status = "submitted"
      /\ bizLock = c
  BY <1>1, <1>2, MachineEdges
     DEF Safe, TypeOK, Holders, CommandHolds, Knowledge, CommandKnows, Task
<1>4. Explains(order.trail, order.status)
  BY <1>3 DEF Safe, Ledger, TrailExplainsStatus, Placed
<1>5. /\ moved \in OrderRow
      /\ moved.status = "cancelled"
      /\ moved.key = order.key
      /\ moved.number = order.number
      /\ Explains(moved.trail, moved.status)
  BY <1>2, <1>3, <1>4, MovedRow, MachineEdges
<1> HIDE DEF moved
<1> QED
  BY <1>1, <1>3, <1>5, RewriteSafe DEF Replies

LEMMA CommitEstimateSafe ==
    ASSUME Safe, NEW c \in Commands, CommitEstimate(c)
    PROVE  Safe'
<1> DEFINE order == orders[act[c].order]
           row   == [order EXCEPT !.estimate = act[c].estimate]
<1>1. /\ pc[c] = "flush" /\ act[c].edge = None
      /\ bizLock \in {None, c}
      /\ orders' = [orders EXCEPT ![act[c].order] = row]
      /\ Answer(c, "estimated")
      /\ UNCHANGED <<shop, req, plan, act, histVars>>
  BY DEF CommitEstimate, CanReferenceBusiness
<1>2. /\ act[c] \in Task /\ act[c].order \in Ids /\ order \in OrderRow
      /\ order.status \in EstimateLegal
      /\ rowLock[act[c].order] = c
  BY <1>1, OrdersConstants, MachineEdges
     DEF Safe, TypeOK, Holders, CommandHolds, Knowledge, CommandKnows, Task
<1>3. Explains(order.trail, order.status)
  BY <1>2 DEF Safe, Ledger, TrailExplainsStatus, Placed, EstimateLegal
<1>4. /\ row \in OrderRow
      /\ row.status = order.status
      /\ row.key = order.key
      /\ row.number = order.number
      /\ row.trail = order.trail
  BY <1>2 DEF OrderRow, Task
<1> HIDE DEF row
<1> QED
  BY <1>1, <1>2, <1>3, <1>4, RewriteSafe DEF Replies, EstimateLegal
-----------------------------------------------------------------------------
(* The restaurant's own writes and the failures.                           *)

(* A reconfiguration finds the Business row free, so no placement is past  *)
(* its lock.                                                               *)
LEMMA EditSafe ==
    ASSUME Safe, NEW newShop \in ShopState, Edit(newShop)
    PROVE  Safe'
<1>1. /\ bizLock = None /\ edits' = edits + 1 /\ edits < MaxEdits
      /\ shop' = newShop
      /\ sawOpen' \in [Ids -> BOOLEAN]
      /\ UNCHANGED <<orders, bizLock, rowLock, reqVars, prior>>
  BY DEF Edit, Safe, TypeOK, InProgress
<1>2. Placed' = Placed /\ Numbers' = Numbers
  BY <1>1 DEF Placed, Numbers
<1>3. TypeOK'
  BY <1>1, OrdersConstants DEF Safe, TypeOK, reqVars
<1>4. Holders'
  BY <1>1, <1>2 DEF Safe, Holders, PlacementHolds, CommandHolds, reqVars
<1>5. Knowledge'
  <2>1. \A p \in Ids : PlacementKnows(p)'
    BY <1>1, OrdersConstants DEF Safe, Holders, PlacementHolds, PlacementKnows, reqVars
  <2>2. \A c \in Commands : CommandKnows(c)'
    BY <1>1 DEF Safe, Knowledge, CommandKnows, reqVars
  <2> QED
    BY <2>1, <2>2 DEF Knowledge
<1>6. Ledger'
  BY <1>1, <1>2
     DEF Safe, Ledger, OneOrderPerKey, TrailExplainsStatus, CancelledForGood, reqVars
<1> QED
  BY <1>3, <1>4, <1>5, <1>6 DEF Safe

LEMMA EnvironmentEdits ==
    ASSUME Safe, Environment
    PROVE  \E newShop \in ShopState : Edit(newShop)
<1>1. shop \in ShopState
  BY DEF Safe, TypeOK
<1> QED
  BY <1>1 DEF Environment, SetEntitlement, SetFulfillment, SetSchedule, SetTimezone,
              SetOrderingPause, Suspend, Reactivate, Close, ShopState

LEMMA FailureSafe ==
    ASSUME Safe, NEW t \in Txns, DeadlockAbort(t) \/ Crash(t)
    PROVE  Safe'
<1>1. InProgress(t)
  BY DEF DeadlockAbort, Deadlocked, WaitsFor, Crash, InProgress
<1> QED
  BY <1>1, AnswerSafe DEF DeadlockAbort, Crash, Replies
-----------------------------------------------------------------------------
(* The invariant.                                                          *)

LEMMA InitSafe ==
    ASSUME Init
    PROVE  Safe
<1>1. Placed = {} /\ Numbers = {} /\ Cardinality(Placed) = 0
  BY FS_EmptySet DEF Init, BookInit, Placed, Numbers, NoOrder
<1>2. NoOrder \in OrderRow
  BY DEF NoOrder, OrderRow, Event
<1>3. TypeOK
  BY <1>2, OrdersConstants
     DEF Init, BookInit, TypeOK, Txns, Stages, Replies
<1>4. Holders
  BY <1>1 DEF Init, Holders, PlacementHolds, CommandHolds, Txns
<1>5. Knowledge
  BY DEF Init, Knowledge, PlacementKnows, CommandKnows, Txns
<1>6. Ledger
  BY <1>1 DEF Init, Ledger, OneOrderPerKey, TrailExplainsStatus, CancelledForGood, Txns
<1> QED
  BY <1>3, <1>4, <1>5, <1>6 DEF Safe

LEMMA NextSafe ==
    ASSUME Safe, [Next]_vars
    PROVE  Safe'
<1>1. ASSUME NEW p \in Ids, NEW key \in Keys, NEW want \in Slots \cup {Asap},
             BeginPlacement(p, key, want)
      PROVE  Safe'
  BY <1>1, BeginPlacementSafe
<1>2. ASSUME NEW p \in Ids, Placement(p)
      PROVE  Safe'
  BY <1>2, CheckSafe, LockForPlacementSafe, ReserveSafe, InsertSafe DEF Placement
<1>3. ASSUME NEW c \in Commands, NEW task \in Tasks, BeginCommand(c, task)
      PROVE  Safe'
  BY <1>3, BeginCommandSafe
<1>4. ASSUME NEW c \in Commands, Command(c)
      PROVE  Safe'
  BY <1>4, LockForReleaseSafe, LockOrderSafe, ReadByTokenSafe, CommitTransitionSafe,
     CommitEstimateSafe, CommitCancelSafe DEF Command
<1>5. ASSUME NEW t \in Txns, DeadlockAbort(t) \/ Crash(t)
      PROVE  Safe'
  BY <1>5, FailureSafe
<1>6. CASE Environment
  BY <1>6, EnvironmentEdits, EditSafe
<1>7. CASE UNCHANGED vars
  <2>1. UNCHANGED <<orders, shop, bizLock, rowLock, pc, req, plan, act, reply, histVars>>
    BY <1>7 DEF vars, dbVars, reqVars
  <2>2. TypeOK' /\ Holders'
    BY <2>1, RowsUnchanged
       DEF Safe, TypeOK, histVars, Holders, PlacementHolds, CommandHolds
  <2>3. Knowledge' /\ Ledger'
    BY <2>1, RowsUnchanged
       DEF Safe, Knowledge, PlacementKnows, CommandKnows, Ledger, CancelledForGood
  <2> QED
    BY <2>2, <2>3 DEF Safe
<1> QED
  BY <1>1, <1>2, <1>3, <1>4, <1>5, <1>6, <1>7 DEF Next

(* Whatever requests overlap, fail and retry: locks, what was read under   *)
(* them, and the ledger stay consistent (the inductive invariant).         *)
THEOREM SafeAlways == Spec => []Safe
BY InitSafe, NextSafe, PTL DEF Spec

(* Every variable keeps its type, so no request is ever at a stage or      *)
(* gives an answer the code does not have.                                 *)
THEOREM TypeCorrect == Spec => []TypeOK
<1>1. Safe => TypeOK
  BY DEF Safe
<1> QED
  BY <1>1, SafeAlways, PTL

(* place_order: for every idempotency key at most one order ever exists.   *)
THEOREM NoDuplicateOrders == Spec => []OneOrderPerKey
<1>1. Safe => OneOrderPerKey
  BY DEF Safe, Ledger
<1> QED
  BY <1>1, SafeAlways, PTL

(* next_order_number: the numbers are 1..n at every moment, and the number *)
(* a placement computed is still the next one when it inserts.             *)
THEOREM NumbersWithoutGaps == Spec => []NumbersAreDense
<1>1. Safe => NumbersAreDense
  BY DEF Safe, Ledger, Knowledge, PlacementKnows, NumbersAreDense
<1> QED
  BY <1>1, SafeAlways, PTL

(* The event timeline of every order is a path of the status machine that  *)
(* ends at the status on the row.                                          *)
THEOREM TimelinesAreHonest == Spec => []TrailExplainsStatus
<1>1. Safe => TrailExplainsStatus
  BY DEF Safe, Ledger
<1> QED
  BY <1>1, SafeAlways, PTL

(* cancel_by_token: an order whose customer was told "cancelled" is        *)
(* cancelled from then on.                                                 *)
THEOREM CancellationStands == Spec => []CancelledForGood
<1>1. Safe => CancelledForGood
  BY DEF Safe, Ledger
<1> QED
  BY <1>1, SafeAlways, PTL
-----------------------------------------------------------------------------
(* What a single step may do to the ledger.                                *)

(* Only the commits write an order row, and the restaurant's own writes    *)
(* only its settings.                                                      *)
LEMMA StepCases ==
    ASSUME Safe, [Next]_vars
    PROVE  \/ UNCHANGED <<orders, shop>>
           \/ \E newShop \in ShopState : Edit(newShop)
           \/ \E p \in Ids : Insert(p) /\ orders' # orders
           \/ \E c \in Commands : \/ CommitTransition(c)
                                  \/ CommitEstimate(c)
                                  \/ CommitCancel(c)
<1>1. ASSUME NEW p \in Ids, NEW key \in Keys, NEW want \in Slots \cup {Asap},
             BeginPlacement(p, key, want)
      PROVE  UNCHANGED <<orders, shop>>
  BY <1>1 DEF BeginPlacement, dbVars
<1>2. ASSUME NEW p \in Ids, Placement(p)
      PROVE  \/ UNCHANGED <<orders, shop>>
             \/ Insert(p) /\ orders' # orders
  BY <1>2 DEF Placement, CheckEntitlement, CheckPickup, LookupKey, CheckPause, PriceCart,
              Check, LockForPlacement, Reserve, Insert
<1>3. ASSUME NEW c \in Commands, NEW task \in Tasks, BeginCommand(c, task)
      PROVE  UNCHANGED <<orders, shop>>
  BY <1>3 DEF BeginCommand, dbVars
<1>4. ASSUME NEW c \in Commands, Command(c)
      PROVE  \/ UNCHANGED <<orders, shop>>
             \/ CommitTransition(c) \/ CommitEstimate(c) \/ CommitCancel(c)
  BY <1>4 DEF Command, LockForRelease, LockOrder, ReadByToken
<1>5. ASSUME NEW t \in Txns, DeadlockAbort(t) \/ Crash(t)
      PROVE  UNCHANGED <<orders, shop>>
  BY <1>5 DEF DeadlockAbort, Crash
<1>6. CASE Environment
  BY <1>6, EnvironmentEdits
<1>7. CASE UNCHANGED vars
  BY <1>7 DEF vars, dbVars
<1> QED
  BY <1>1, <1>2, <1>3, <1>4, <1>5, <1>6, <1>7 DEF Next

(* A placement that commits is the ledger's Place, at that very moment.    *)
LEMMA InsertPlaces ==
    ASSUME Safe, NEW p \in Ids, Insert(p), orders' # orders
    PROVE  /\ req[p] \in Request /\ plan[p] \in Plan
           /\ Place(p, req[p].key, req[p].want, req[p].zone, plan[p].slot)
<1>1. /\ pc[p] = "insert" /\ ~KeyCollides(p)
      /\ orders' = [orders EXCEPT ![p] =
            NewOrder(req[p].key, req[p].want, req[p].zone, plan[p].slot, plan[p].number)]
      /\ shop' = shop
  BY DEF Insert
<1>2. /\ req[p] \in Request /\ plan[p] \in Plan /\ p \notin Placed
      /\ shop.status = "active"
      /\ plan[p].number = Cardinality(Placed) + 1
      /\ plan[p].slot \in Offered(req[p].zone)
      /\ ~Full(plan[p].slot)
  BY <1>1 DEF Safe, Holders, PlacementHolds, Knowledge, PlacementKnows
<1>3. \A q \in Placed : orders[q].key # req[p].key
  BY <1>1 DEF KeyCollides, OrdersOf
<1> QED
  BY <1>1, <1>2, <1>3 DEF Place

(* A member command or a cancellation that commits is one move, or one     *)
(* estimate, of the ledger.                                                *)
LEMMA CommitMoves ==
    ASSUME Safe, NEW c \in Commands,
           CommitTransition(c) \/ CommitEstimate(c) \/ CommitCancel(c)
    PROVE  /\ act[c] \in Task
           /\ \/ act[c].edge \in Machine /\ Move(act[c].order, act[c].edge)
              \/ SetEstimate(act[c].order, act[c].estimate)
<1>1. act[c] \in Task /\ CommandKnows(c) /\ pc[c] = "flush"
  BY DEF Safe, Holders, CommandHolds, Knowledge, CommitTransition, CommitEstimate,
         CommitCancel
<1>2. CASE CommitTransition(c)
  BY <1>1, <1>2, MachineEdges, OrdersConstants
     DEF CommitTransition, CommandKnows, Move, Machine
<1>3. CASE CommitCancel(c)
  BY <1>1, <1>3, MachineEdges, OrdersConstants DEF CommitCancel, CommandKnows, Move
<1>4. CASE CommitEstimate(c)
  BY <1>1, <1>4 DEF CommitEstimate, CommandKnows, SetEstimate
<1> QED
  BY <1>2, <1>3, <1>4

LEMMA EditReconfigures ==
    ASSUME NEW newShop \in ShopState, Edit(newShop)
    PROVE  Reconfigure
BY DEF Edit, Reconfigure

(* The transactions implement the ledger: every step a client can observe  *)
(* in the committed rows is one Place, Move, SetEstimate or Reconfigure.   *)
THEOREM TransactionsImplementBook == Spec => BookSpec
<1>1. Init => BookInit
  BY DEF Init
<1>2. ASSUME Safe, [Next]_vars
      PROVE  [BookNext]_bookVars
  <2>1. CASE UNCHANGED <<orders, shop>>
    BY <2>1 DEF bookVars
  <2>2. CASE \E newShop \in ShopState : Edit(newShop)
    BY <2>2, EditReconfigures DEF BookNext
  <2>3. ASSUME NEW p \in Ids, Insert(p), orders' # orders
        PROVE  BookNext
    BY <1>2, <2>3, InsertPlaces DEF BookNext, Request, Plan
  <2>4. ASSUME NEW c \in Commands,
               CommitTransition(c) \/ CommitEstimate(c) \/ CommitCancel(c)
        PROVE  BookNext
    BY <1>2, <2>4, CommitMoves DEF BookNext, Task
  <2> QED
    BY <1>2, <2>1, <2>2, <2>3, <2>4, StepCases
<1> QED
  BY <1>1, <1>2, SafeAlways, PTL DEF Spec, BookSpec

(* The throttle: an order that takes its place fits under the cap.         *)
LEMMA PlaceWithinCap ==
    ASSUME Safe, NEW p \in Ids, NEW key, NEW want, NEW zone, NEW slot,
           Place(p, key, want, zone, slot),
           shop.cap # NoCap
    PROVE  Cardinality(Standing(slot)') <= shop.cap
<1>1. /\ p \notin Placed
      /\ orders'[p].status = "submitted"
      /\ \A q \in Ids \ {p} : orders'[q] = orders[q]
  BY DEF Place, NewOrder, Safe, TypeOK
<1>2. Standing(slot)' \subseteq Standing(slot) \cup {p}
  BY <1>1 DEF Standing, Placed
<1>3. p \notin Standing(slot)
  BY <1>1 DEF Standing
<1>4. /\ IsFiniteSet(Standing(slot) \cup {p})
      /\ Cardinality(Standing(slot) \cup {p}) = Cardinality(Standing(slot)) + 1
  BY <1>3, PlacedIsFinite, FS_AddElement
<1>5. /\ Cardinality(Standing(slot)') <= Cardinality(Standing(slot)) + 1
      /\ Cardinality(Standing(slot)') \in Nat
  BY <1>2, <1>4, FS_Subset, FS_CardinalityType
<1>6. shop.cap \in Nat /\ Cardinality(Standing(slot)) < shop.cap
  BY BookConstants, PlacedIsFinite DEF Place, Full, Safe, TypeOK, ShopState
<1> QED
  BY <1>5, <1>6, PlacedIsFinite

(* place_order: the lifecycle, the offered slots and the cap all hold at   *)
(* the moment the order is committed, whatever was edited meanwhile.       *)
THEOREM OrdersFitTheOffer == Spec => PlacedWithinOffer
<1> DEFINE Fits == \A p \in Ids, slot \in Slots :
               p \notin Placed /\ p \in Placed' /\ orders'[p].slot = slot =>
                   /\ shop.status = "active"
                   /\ slot \in Offered(orders'[p].zone)
                   /\ shop.cap # NoCap => Cardinality(Standing(slot)') <= shop.cap
<1>1. ASSUME Safe, [Next]_vars
      PROVE  Fits
  <2> SUFFICES ASSUME NEW p \in Ids, NEW slot \in Slots,
                      p \notin Placed, p \in Placed', orders'[p].slot = slot
               PROVE  /\ shop.status = "active"
                      /\ slot \in Offered(orders'[p].zone)
                      /\ shop.cap # NoCap => Cardinality(Standing(slot)') <= shop.cap
    OBVIOUS
  <2>1. ASSUME NEW q \in Ids, Insert(q), orders' # orders
        PROVE  \E key, want, zone : Place(p, key, want, zone, slot)
    <3>1. Place(q, req[q].key, req[q].want, req[q].zone, plan[q].slot)
      BY <1>1, <2>1, InsertPlaces
    <3>2. p = q
      BY <1>1, <3>1 DEF Place, Placed, Safe, TypeOK
    <3>3. plan[q].slot = slot
      BY <1>1, <3>1, <3>2 DEF Place, NewOrder, Safe, TypeOK
    <3> QED
      BY <3>1, <3>2, <3>3
  <2>2. ASSUME NEW c \in Commands,
               CommitTransition(c) \/ CommitEstimate(c) \/ CommitCancel(c)
        PROVE  FALSE
    <3>1. /\ act[c] \in Task
          /\ \/ act[c].edge \in Machine /\ Move(act[c].order, act[c].edge)
             \/ SetEstimate(act[c].order, act[c].estimate)
      BY <1>1, <2>2, CommitMoves
    <3>2. CASE act[c].edge \in Machine /\ Move(act[c].order, act[c].edge)
      <4>1. act[c].order # p
        BY <3>2, MachineEdges DEF Move, Placed
      <4> QED
        BY <1>1, <3>2, <4>1 DEF Move, Placed, Safe, TypeOK
    <3>3. CASE SetEstimate(act[c].order, act[c].estimate)
      BY <1>1, <3>3 DEF SetEstimate, Placed, EstimateLegal, Safe, TypeOK
    <3> QED
      BY <3>1, <3>2, <3>3
  <2>3. PICK key, want, zone : Place(p, key, want, zone, slot)
    BY <1>1, <2>1, <2>2, StepCases DEF Edit, Placed
  <2>4. orders'[p].zone = zone
    BY <1>1, <2>3 DEF Place, NewOrder, Safe, TypeOK
  <2> QED
    BY <1>1, <2>3, <2>4, PlaceWithinCap DEF Place
<1> QED
  BY <1>1, SafeAlways, PTL DEF Spec, PlacedWithinOffer

(* set_estimate: the promised time moves only while the kitchen owns the   *)
(* order.                                                                  *)
THEOREM EstimatesStayInKitchen == Spec => EstimateOnlyInKitchen
<1> DEFINE Kept == \A o \in Placed : orders'[o].estimate # orders[o].estimate =>
                                          orders[o].status \in EstimateLegal
<1>1. ASSUME Safe, [Next]_vars
      PROVE  Kept
  <2>1. ASSUME NEW p \in Ids, Insert(p), orders' # orders
        PROVE  Kept
    BY <1>1, <2>1, InsertPlaces DEF Place, Placed, Safe, TypeOK
  <2>2. ASSUME NEW c \in Commands,
               CommitTransition(c) \/ CommitEstimate(c) \/ CommitCancel(c)
        PROVE  Kept
    <3>1. act[c] \in Task /\ act[c].order \in Ids
      BY <1>1, <2>2, CommitMoves DEF Task
    <3>2. CASE Move(act[c].order, act[c].edge)
      BY <1>1, <3>1, <3>2 DEF Move, Moved, Safe, TypeOK, OrderRow, Placed
    <3>3. CASE SetEstimate(act[c].order, act[c].estimate)
      BY <1>1, <3>1, <3>3 DEF SetEstimate, Safe, TypeOK, Placed
    <3> QED
      BY <1>1, <2>2, <3>2, <3>3, CommitMoves
  <2> QED
    BY <1>1, <2>1, <2>2, StepCases DEF Edit
<1> QED
  BY <1>1, SafeAlways, PTL DEF Spec, EstimateOnlyInKitchen
-----------------------------------------------------------------------------
(* What a placement lived through.  The two properties about the history   *)
(* variables need to know where a request can be, given its history: one   *)
(* that is past the look at the pause has seen ordering open, and one      *)
(* whose order was there from the start does not get past the lookup.      *)

Unpaused(p) ==
    /\ InProgress(p) /\ ~shop.paused => sawOpen[p]
    /\ pc[p] \in {"cart", "lock", "reserve", "insert"} => sawOpen[p]
    /\ p \in Placed => sawOpen[p]

Retries(p) ==
    /\ pc[p] # "done" => reply[p] = "none"
    /\ prior[p] =>
          /\ pc[p] \in {"entitlement", "pickup", "lookup", "done"}
          /\ OrdersLike(req[p]) # {}
          /\ reply[p] \in {"none", "replayed", "not_found", "lost"}

Remembered == \A p \in Ids : Unpaused(p) /\ Retries(p)

(* An order stays the order of its key, and of what was wanted.            *)
LEMMA RowsKeepTheirKeys ==
    ASSUME Safe, [Next]_vars, NEW q \in Placed
    PROVE  /\ q \in Placed'
           /\ orders'[q].key = orders[q].key
           /\ orders'[q].want = orders[q].want
<1>1. orders \in [Ids -> OrderRow] /\ q \in Ids /\ orders[q].status # "absent"
  BY DEF Safe, TypeOK, Placed
<1>2. ASSUME NEW p \in Ids, Insert(p), orders' # orders
      PROVE  orders'[q] = orders[q]
  BY <1>1, <1>2, InsertPlaces DEF Place
<1>3. ASSUME NEW c \in Commands,
             CommitTransition(c) \/ CommitEstimate(c) \/ CommitCancel(c)
      PROVE  /\ orders'[q].status # "absent"
             /\ orders'[q].key = orders[q].key
             /\ orders'[q].want = orders[q].want
  <2>1. CASE act[c].edge \in Machine /\ Move(act[c].order, act[c].edge)
    <3>1. act[c].edge.to # "absent"
      BY <2>1, MachineEdges DEF Statuses
    <3>2. orders[q] \in OrderRow
      BY <1>1
    <3> QED
      BY <1>1, <2>1, <3>1, <3>2 DEF Move, Moved, OrderRow
  <2>2. CASE SetEstimate(act[c].order, act[c].estimate)
    BY <1>1, <2>2 DEF SetEstimate, OrderRow
  <2> QED
    BY <1>3, <2>1, <2>2, CommitMoves
<1> QED
  BY <1>1, <1>2, <1>3, StepCases DEF Edit, Placed

LEMMA OrdersLikeStay ==
    ASSUME Safe, [Next]_vars, NEW r, OrdersLike(r) # {}
    PROVE  OrdersLike(r)' # {}
<1>1. PICK q \in Placed : orders[q].key = r.key /\ orders[q].want = r.want
  BY DEF OrdersLike, OrdersOf
<1>2. q \in Placed' /\ orders'[q].key = r.key /\ orders'[q].want = r.want
  BY <1>1, RowsKeepTheirKeys
<1> QED
  BY <1>2 DEF OrdersLike, OrdersOf

(* A placement that only moves on, or is answered, and what it may say.    *)
LEMMA ChecksRemember ==
    ASSUME Safe, Remembered, [Next]_vars, NEW p \in Ids, Placement(p)
    PROVE  Remembered'
<1>1. /\ UNCHANGED <<shop, req, histVars>>
      /\ pc \in [Txns -> Stages] /\ reply \in [Txns -> Replies] /\ p \in Txns
      /\ pc[p] # "done"
  BY DEF Placement, CheckEntitlement, CheckPickup, LookupKey, CheckPause, PriceCart,
         Check, LockForPlacement, Reserve, Insert, Safe, TypeOK, Txns
<1>2. \A t \in Txns \ {p} : pc'[t] = pc[t] /\ reply'[t] = reply[t]
  BY <1>1 DEF Placement, CheckEntitlement, CheckPickup, LookupKey, CheckPause, PriceCart,
         Check, LockForPlacement, Reserve, Insert, Answer, Advance
<1>3. \A q \in Ids \ {p} : q \in Placed' => q \in Placed
  BY InsertPlaces DEF Placement, CheckEntitlement, CheckPickup, LookupKey, CheckPause,
     PriceCart, Check, LockForPlacement, Reserve, Insert, Placed, Place, Safe, TypeOK
<1>4. ASSUME NEW q \in Ids, q # p
      PROVE  Unpaused(q)' /\ Retries(q)'
  BY <1>1, <1>2, <1>3, <1>4, OrdersLikeStay
     DEF Remembered, Unpaused, Retries, InProgress, Txns, histVars
<1>5. Unpaused(p)'
  BY <1>1 DEF Remembered, Unpaused, InProgress, histVars, Placement, CheckEntitlement,
     CheckPickup, LookupKey, CheckPause, PriceCart, Check, LockForPlacement, Reserve,
     Insert, Answer, Advance, Placed
<1>6. Retries(p)'
  <2>1. CASE ~prior[p]
    BY <1>1, <2>1 DEF Remembered, Retries, histVars, Placement, CheckEntitlement,
       CheckPickup, LookupKey, CheckPause, PriceCart, Check, LockForPlacement, Reserve,
       Insert, Answer, Advance
  <2>2. CASE prior[p]
    <3>1. /\ pc[p] \in {"entitlement", "pickup", "lookup"} /\ OrdersLike(req[p]) # {}
          /\ reply[p] = "none"
      BY <1>1, <2>2 DEF Remembered, Retries
    <3>2. OrdersOf(req[p].key) # {}
      BY <3>1 DEF OrdersLike
    <3>3. OrdersLike(req[p])' # {}
      BY <1>1, <3>1, OrdersLikeStay
    <3>4. CheckEntitlement(p) \/ CheckPickup(p) \/ LookupKey(p)
      BY <3>1 DEF Placement, CheckPause, PriceCart, Check, LockForPlacement, Reserve, Insert
    <3> QED
      BY <1>1, <3>1, <3>2, <3>3, <3>4
         DEF Retries, CheckEntitlement, CheckPickup, LookupKey, Check, Answer, Advance, Replay
  <2> QED
    BY <2>1, <2>2
<1> QED
  BY <1>4, <1>5, <1>6 DEF Remembered

LEMMA NextRemembers ==
    ASSUME Safe, Remembered, [Next]_vars
    PROVE  Remembered'
<1>1. pc \in [Txns -> Stages] /\ reply \in [Txns -> Replies] /\ orders \in [Ids -> OrderRow]
  BY DEF Safe, TypeOK
<1>2. ASSUME NEW p \in Ids, NEW key \in Keys, NEW want \in Slots \cup {Asap},
             BeginPlacement(p, key, want)
      PROVE  Remembered'
  <2>1. /\ UNCHANGED <<orders, shop, reply>> /\ pc[p] = "idle"
        /\ pc' = [pc EXCEPT ![p] = "entitlement"]
        /\ req' = [req EXCEPT ![p] = req'[p]]
        /\ prior' = [prior EXCEPT ![p] = OrdersLike(req'[p]) # {}]
        /\ sawOpen' = [sawOpen EXCEPT ![p] = ~shop.paused]
    BY <1>2 DEF BeginPlacement, Advance, dbVars, Safe, TypeOK
  <2>2. \A r : OrdersLike(r)' = OrdersLike(r)
    BY <2>1 DEF OrdersLike, OrdersOf, Placed
  <2>3. Placed' = Placed /\ p \notin Placed
    BY <2>1 DEF Placed, Safe, Holders, PlacementHolds
  <2>4. ASSUME NEW q \in Ids, q # p
        PROVE  Unpaused(q)' /\ Retries(q)'
    BY <1>1, <2>1, <2>2, <2>3, <2>4
       DEF Remembered, Unpaused, Retries, InProgress, Txns, Safe, TypeOK
  <2>5. Unpaused(p)'
    BY <1>1, <2>1, <2>3 DEF Unpaused, InProgress, Txns, Safe, TypeOK
  <2>6. Retries(p)'
    BY <1>1, <2>1, <2>2 DEF Remembered, Retries, Txns, Safe, TypeOK
  <2> QED
    BY <2>4, <2>5, <2>6 DEF Remembered
<1>3. ASSUME NEW p \in Ids, Placement(p)
      PROVE  Remembered'
  BY <1>3, ChecksRemember
<1>4. ASSUME NEW c \in Commands,
             \/ \E task \in Tasks : BeginCommand(c, task)
             \/ Command(c)
      PROVE  Remembered'
  <2>1. /\ UNCHANGED <<shop, req, prior, sawOpen>>
        /\ \A p \in Ids : pc'[p] = pc[p] /\ reply'[p] = reply[p]
    BY <1>1, <1>4, OrdersConstants
       DEF BeginCommand, Command, LockForRelease, LockOrder, ReadByToken, CommitTransition,
           CommitEstimate, CommitCancel, Answer, Advance, dbVars, histVars, Txns
  <2>2. Placed' \subseteq Placed
    <3>1. CASE UNCHANGED orders
      BY <3>1 DEF Placed
    <3>2. CASE CommitTransition(c) \/ CommitEstimate(c) \/ CommitCancel(c)
      <4>1. CASE act[c].edge \in Machine /\ Move(act[c].order, act[c].edge)
        BY <1>1, <4>1, MachineEdges DEF Move, Placed
      <4>2. CASE SetEstimate(act[c].order, act[c].estimate)
        BY <1>1, <4>2 DEF SetEstimate, EstimateLegal, Placed
      <4> QED
        BY <3>2, <4>1, <4>2, CommitMoves
    <3> QED
      BY <1>4, <3>1, <3>2 DEF BeginCommand, Command, LockForRelease, LockOrder, ReadByToken,
         dbVars
  <2> QED
    BY <2>1, <2>2, OrdersLikeStay DEF Remembered, Unpaused, Retries, InProgress
<1>5. ASSUME NEW t \in Txns, DeadlockAbort(t) \/ Crash(t)
      PROVE  Remembered'
  <2>1. /\ UNCHANGED <<orders, shop, req, prior, sawOpen>>
        /\ pc' = [pc EXCEPT ![t] = "done"]
        /\ \/ reply' = [reply EXCEPT ![t] = "lost"]
           \/ /\ pc[t] \in {"lock", "row", "flush"}
              /\ reply' = [reply EXCEPT ![t] = "server_error"]
    BY <1>5 DEF DeadlockAbort, Deadlocked, WaitsFor, Crash, Answer, histVars
  <2>2. Placed' = Placed
    BY <2>1 DEF Placed
  <2> QED
    BY <1>1, <2>1, <2>2, OrdersLikeStay DEF Remembered, Unpaused, Retries, InProgress, Txns
<1>6. ASSUME NEW newShop \in ShopState, Edit(newShop)
      PROVE  Remembered'
  <2>1. /\ UNCHANGED <<orders, pc, reply, req, prior>> /\ shop' = newShop
        /\ sawOpen' = [p \in Ids |-> sawOpen[p] \/ (InProgress(p) /\ ~newShop.paused)]
    BY <1>6 DEF Edit, reqVars
  <2>2. Placed' = Placed
    BY <2>1 DEF Placed
  <2> QED
    BY <2>1, <2>2, OrdersLikeStay DEF Remembered, Unpaused, Retries, InProgress
<1>7. CASE UNCHANGED vars
  <2>1. UNCHANGED <<orders, shop, pc, reply, req, prior, sawOpen>>
    BY <1>7 DEF vars, dbVars, reqVars, histVars
  <2>2. Placed' = Placed
    BY <2>1 DEF Placed
  <2> QED
    BY <2>1, <2>2, OrdersLikeStay DEF Remembered, Unpaused, Retries, InProgress
<1> QED
  BY <1>2, <1>3, <1>4, <1>5, <1>6, <1>7, EnvironmentEdits DEF Next

LEMMA InitRemembers ==
    ASSUME Init
    PROVE  Remembered
BY DEF Init, BookInit, NoOrder, Remembered, Unpaused, Retries, InProgress, Placed, Txns

(* place_order: a pause that was in force from before a request arrived    *)
(* until it committed lets no order through, although the pause is read    *)
(* before the lock.                                                        *)
THEOREM PausesAreHonoured == Spec => []PauseHonoured
<1>1. Remembered => PauseHonoured
  BY DEF Remembered, Unpaused, PauseHonoured, Placed
<1> QED
  BY <1>1, InitRemembers, NextRemembers, SafeAlways, PTL DEF Spec

(* _replay: a retry whose order stood when it was sent is never refused    *)
(* for anything a customer could act on.                                   *)
THEOREM RetriesFindTheirOrder == Spec => []RetryFindsItsOrder
<1>1. Remembered => RetryFindsItsOrder
  BY DEF Remembered, Retries, RetryFindsItsOrder
<1> QED
  BY <1>1, InitRemembers, NextRemembers, SafeAlways, PTL DEF Spec
=============================================================================
