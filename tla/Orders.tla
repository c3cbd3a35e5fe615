------------------------------- MODULE Orders -------------------------------
(***************************************************************************)
(* The orders domain as the database sees it.  Every HTTP request is one   *)
(* session running at READ COMMITTED: a step is a statement (or a run of   *)
(* statements during which nothing another session does can matter), a     *)
(* plain SELECT sees what is committed at that moment, SELECT ... FOR      *)
(* UPDATE waits for the row, and COMMIT publishes the writes and releases  *)
(* the locks at once.                                                      *)
(*                                                                         *)
(* A placement p inserts the order with identity p, so Ids is the set of   *)
(* placement requests; a client that retries sends another placement with  *)
(* the same key.  Commands are the other requests: the member transitions, *)
(* the estimate and the customer's cancellation.                           *)
(*                                                                         *)
(* Locks.  FOR UPDATE on the Business row is exclusive (bizLock).  Every   *)
(* audit_events INSERT references that row, and PostgreSQL locks the       *)
(* referenced row FOR KEY SHARE, which waits while another session holds   *)
(* it FOR UPDATE.  The key-share lock is taken in the flush that the       *)
(* COMMIT runs and nothing is waited for after it, so it appears as a      *)
(* guard (CanReferenceBusiness) and needs no variable.  FOR UPDATE on an   *)
(* order row, and the row lock of its UPDATE, are rowLock.                 *)
(***************************************************************************)
EXTENDS OrderBook, FiniteSetsExt

CONSTANTS Commands,   \* member and customer requests about existing orders
          MaxEdits    \* bound on the reconfigurations of the restaurant

ASSUME OrdersConstants ==
    /\ IsFiniteSet(Commands)
    /\ Ids \cap Commands = {}
    /\ None \notin Ids \cup Commands \cup Machine
    /\ MaxEdits \in Nat

Txns == Ids \cup Commands

VARIABLES bizLock,    \* who holds the Business row FOR UPDATE
          rowLock,    \* who holds each order row
          pc,         \* where each request is
          req,        \* what each placement asks for
          plan,       \* the slot and number a placement resolved under the lock
          act,        \* what each command does
          reply,      \* how each request was answered
          prior,      \* history: a placement whose key had its order from the start
          sawOpen,    \* history: ordering was unpaused at some time since it began
          edits       \* reconfigurations so far

dbVars   == <<orders, shop, bizLock, rowLock>>
reqVars  == <<pc, req, plan, act, reply>>
histVars == <<prior, sawOpen, edits>>
vars     == <<dbVars, reqVars, histVars>>
-----------------------------------------------------------------------------
(* Requests, their progress and their answers.                             *)

(* A request carries the timezone that Host resolution found.              *)
Request == [key : Keys, want : Slots \cup {Asap}, zone : Zones]
Plan    == [slot : Slots, number : Nat]
Task    == [edge : Machine \cup {None}, order : Ids,
            estimate : Estimates \cup {None}]

Stages == {"idle", "entitlement", "pickup", "lookup", "pause", "cart", "lock",
           "reserve", "insert", "row", "read", "flush", "done"}

Replies == {"none", "created", "replayed", "key_reused", "not_found", "paused",
            "cart_refused", "slot_unavailable", "moved", "estimated", "unchanged",
            "cancelled", "conflict", "server_error", "lost"}

TypeOK ==
    /\ orders  \in [Ids -> OrderRow]
    /\ shop    \in ShopState
    /\ bizLock \in Txns \cup {None}
    /\ rowLock \in [Ids -> Commands \cup {None}]
    /\ pc      \in [Txns -> Stages]
    /\ req     \in [Ids -> Request \cup {None}]
    /\ plan    \in [Ids -> Plan \cup {None}]
    /\ act     \in [Commands -> Task \cup {None}]
    /\ reply   \in [Txns -> Replies]
    /\ prior   \in [Ids -> BOOLEAN]
    /\ sawOpen \in [Ids -> BOOLEAN]
    /\ edits   \in 0..MaxEdits

Init ==
    /\ BookInit
    /\ bizLock = None
    /\ rowLock = [o \in Ids |-> None]
    /\ pc      = [t \in Txns |-> "idle"]
    /\ req     = [p \in Ids |-> None]
    /\ plan    = [p \in Ids |-> None]
    /\ act     = [c \in Commands |-> None]
    /\ reply   = [t \in Txns |-> "none"]
    /\ prior   = [p \in Ids |-> FALSE]
    /\ sawOpen = [p \in Ids |-> FALSE]
    /\ edits   = 0

InProgress(t) == pc[t] \notin {"idle", "done"}

Advance(t, stage) == /\ pc' = [pc EXCEPT ![t] = stage]
                     /\ UNCHANGED reply

(* Mutant: the session is returned to the pool with its transaction open.  *)
AnswerKeepingLocks(t, answer) ==
    /\ pc'    = [pc EXCEPT ![t] = "done"]
    /\ reply' = [reply EXCEPT ![t] = answer]
    /\ UNCHANGED <<bizLock, rowLock>>

(* Answering ends the session: COMMIT or ROLLBACK releases its locks.      *)
Answer(t, answer) ==
    /\ pc'      = [pc EXCEPT ![t] = "done"]
    /\ reply'   = [reply EXCEPT ![t] = answer]
    /\ bizLock' = IF bizLock = t THEN None ELSE bizLock
    /\ rowLock' = [o \in Ids |-> IF rowLock[o] = t THEN None ELSE rowLock[o]]

(* Mutants: the row is read without FOR UPDATE, or nothing references it.  *)
NoBusinessLock(t)      == t \in Txns
NoBusinessReference(t) == t \in Txns
NoOrderLock(o)         == o \in Ids

CanLockBusiness(t)      == bizLock = None
CanReferenceBusiness(t) == bizLock \in {None, t}
CanLockOrder(o)         == rowLock[o] = None
-----------------------------------------------------------------------------
(* Placement.                                                              *)

(* The committed order of a key, if there is one.                          *)
OrdersOf(key) == {q \in Placed : orders[q].key = key}

(* The order a retry of this very request refers to.                       *)
OrdersLike(r) == {q \in OrdersOf(r.key) : orders[q].want = r.want}

(* Host resolution finds only an active restaurant, and its timezone is    *)
(* not read again.                                                         *)
BeginPlacement(p, key, want) ==
    /\ pc[p] = "idle"
    /\ shop.status = "active"
    /\ req'     = [req EXCEPT ![p] = [key |-> key, want |-> want, zone |-> shop.zone]]
    /\ prior'   = [prior EXCEPT ![p] = OrdersLike(req'[p]) # {}]
    /\ sawOpen' = [sawOpen EXCEPT ![p] = ~shop.paused]
    /\ Advance(p, "entitlement")
    /\ UNCHANGED <<dbVars, plan, act, edits>>

(* A read that either lets the request go on or answers it.                *)
Check(p, stage, passes, next, refusal) ==
    /\ pc[p] = stage
    /\ \/ /\ passes
          /\ Advance(p, next)
          /\ UNCHANGED <<bizLock, rowLock>>
       \/ /\ ~passes
          /\ Answer(p, refusal)
    /\ UNCHANGED <<orders, shop, req, plan, act, histVars>>

CheckEntitlement(p) ==
    Check(p, "entitlement", shop.entitled, "pickup", "not_found")

(* Mutant: the pause is looked at before the replay lookup.                *)
CheckPickupAndPause(p) ==
    Check(p, "pickup", shop.pickup /\ ~shop.paused, "lookup", "paused")

CheckPickup(p) == Check(p, "pickup", shop.pickup, "lookup", "not_found")

(* Mutant: a key reused for another order falls through to a raw error.    *)
ReplayUnhandled(p) == IF OrdersLike(req[p]) # {} THEN "replayed" ELSE "unhandled"

(* A stored key answers with its order, or refuses a different request.    *)
Replay(p) == IF OrdersLike(req[p]) # {} THEN "replayed" ELSE "key_reused"

LookupKey(p) ==
    Check(p, "lookup", OrdersOf(req[p].key) = {}, "pause", Replay(p))

(* Mutant: the pause only decorates the page.                              *)
CheckPauseNever(p) == Check(p, "pause", TRUE, "cart", "paused")

CheckPause(p) == Check(p, "pause", ~shop.paused, "cart", "paused")

(* Catalog view and pricing: a stale cart or a changed total refuses.      *)
PriceCart(p) ==
    \E fresh \in BOOLEAN : Check(p, "cart", fresh, "lock", "cart_refused")

(* Mutant: the lifecycle seen at Host resolution is trusted.               *)
LockWithoutLifecycle(p) ==
    /\ pc[p] = "lock"
    /\ CanLockBusiness(p)
    /\ bizLock' = p
    /\ Advance(p, "reserve")
    /\ UNCHANGED <<orders, shop, rowLock, req, plan, act, histVars>>

LockForPlacement(p) ==
    /\ pc[p] = "lock"
    /\ CanLockBusiness(p)
    /\ \/ /\ shop.status = "active"
          /\ bizLock' = p
          /\ Advance(p, "reserve")
          /\ UNCHANGED rowLock
       \/ /\ shop.status # "active"
          /\ Answer(p, "not_found")
    /\ UNCHANGED <<orders, shop, req, plan, act, histVars>>

(* The instants this request may be promised: which of the offered slots   *)
(* ASAP resolves to is the slot arithmetic's business, not this module's.  *)
Promises(r) ==
    IF r.want = Asap THEN {s \in Offered(r.zone) : shop.asap}
                     ELSE {r.want} \cap Offered(r.zone)

(* Mutant: numbering looks only at the orders that still stand.            *)
NextStandingNumber ==
    LET standing == {orders[o].number : o \in UNION {Standing(s) : s \in Slots}}
    IN  IF standing = {} THEN 1 ELSE Max(standing) + 1

NextNumber == IF Placed = {} THEN 1 ELSE Max(Numbers) + 1

Reserve(p) ==
    /\ pc[p] = "reserve"
    /\ \/ \E slot \in Promises(req[p]) :
             /\ ~Full(slot)
             /\ plan' = [plan EXCEPT ![p] = [slot |-> slot, number |-> NextNumber]]
             /\ Advance(p, "insert")
             /\ UNCHANGED <<bizLock, rowLock>>
       \/ /\ \/ Promises(req[p]) = {}
             \/ \E slot \in Promises(req[p]) : Full(slot)
          /\ Answer(p, "slot_unavailable")
          /\ UNCHANGED plan
    /\ UNCHANGED <<orders, shop, req, act, histVars>>

(* The unique constraints an INSERT can run into.                          *)
NumberCollides(p) == plan[p].number \in Numbers

(* Mutant: idempotency_keys has no unique constraint.                      *)
KeyNeverCollides(p) == p \notin Ids

KeyCollides(p) == OrdersOf(req[p].key) # {}

(* Order, lines, event, outbox, idempotency row and audit in one COMMIT.   *)
(* The number's unique constraint is hit first and is not handled; the     *)
(* key's is, by reloading the winner.                                      *)
Insert(p) ==
    /\ pc[p] = "insert"
    /\ \/ /\ NumberCollides(p)
          /\ Answer(p, "server_error")
          /\ UNCHANGED orders
       \/ /\ ~NumberCollides(p) /\ KeyCollides(p)
          /\ Answer(p, Replay(p))
          /\ UNCHANGED orders
       \/ /\ ~NumberCollides(p) /\ ~KeyCollides(p)
          /\ orders' = [orders EXCEPT ![p] =
                NewOrder(req[p].key, req[p].want, req[p].zone, plan[p].slot, plan[p].number)]
          /\ Answer(p, "created")
    /\ UNCHANGED <<shop, req, plan, act, histVars>>

Placement(p) ==
    \/ CheckEntitlement(p) \/ CheckPickup(p) \/ LookupKey(p) \/ CheckPause(p)
    \/ PriceCart(p) \/ LockForPlacement(p) \/ Reserve(p) \/ Insert(p)
-----------------------------------------------------------------------------
(* Commands about an existing order.                                       *)

TakesBusinessLock(edge) == edge = CustomerCancel \/ edge.to \in SlotReleasing

BeginCommand(c, task) ==
    /\ pc[c] = "idle"
    /\ task.order \in Placed
    /\ task.edge = CustomerCancel => shop.status = "active"
    /\ act' = [act EXCEPT ![c] = task]
    /\ Advance(c, IF task.edge # None /\ TakesBusinessLock(task.edge)
                  THEN "lock" ELSE "row")
    /\ UNCHANGED <<dbVars, req, plan, histVars>>

(* Only the customer's path looks at the lifecycle.                        *)
LockForRelease(c) ==
    /\ pc[c] = "lock"
    /\ CanLockBusiness(c)
    /\ \/ /\ act[c].edge = CustomerCancel => shop.status = "active"
          /\ bizLock' = c
          /\ Advance(c, IF act[c].edge = CustomerCancel THEN "read" ELSE "row")
          /\ UNCHANGED rowLock
       \/ /\ act[c].edge = CustomerCancel /\ shop.status # "active"
          /\ Answer(c, "not_found")
    /\ UNCHANGED <<orders, shop, req, plan, act, histVars>>

(* SELECT ... FOR UPDATE: the status is read from the locked row.          *)
LockOrder(c) ==
    LET o      == act[c].order
        status == orders[o].status
        legal  == IF act[c].edge = None THEN status \in EstimateLegal
                                        ELSE status = act[c].edge.from
        same   == act[c].edge = None /\ orders[o].estimate = act[c].estimate
    IN  /\ pc[c] = "row"
        /\ CanLockOrder(o)
        /\ \/ /\ legal /\ ~same
              /\ rowLock' = [rowLock EXCEPT ![o] = c]
              /\ Advance(c, "flush")
              /\ UNCHANGED bizLock
           \/ ~legal /\ Answer(c, "conflict")
           \/ legal /\ same /\ Answer(c, "unchanged")
        /\ UNCHANGED <<orders, shop, req, plan, act, histVars>>

(* The customer's path reads the order without locking its row.            *)
ReadByToken(c) ==
    LET status == orders[act[c].order].status
    IN  /\ pc[c] = "read"
        /\ \/ status = "submitted" /\ Advance(c, "flush") /\ UNCHANGED <<bizLock, rowLock>>
           \/ status = "cancelled" /\ Answer(c, "cancelled")
           \/ status \notin {"submitted", "cancelled"} /\ Answer(c, "conflict")
        /\ UNCHANGED <<orders, shop, req, plan, act, histVars>>

(* Flush and COMMIT of a member command: UPDATE, event and audit rows.     *)
CommitTransition(c) ==
    /\ pc[c] = "flush"
    /\ act[c].edge \in MemberTransitions
    /\ CanReferenceBusiness(c)
    /\ orders' = [orders EXCEPT ![act[c].order] =
                     Moved(@, act[c].edge.from, act[c].edge.to)]
    /\ Answer(c, "moved")
    /\ UNCHANGED <<shop, req, plan, act, histVars>>

CommitEstimate(c) ==
    /\ pc[c] = "flush"
    /\ act[c].edge = None
    /\ CanReferenceBusiness(c)
    /\ orders' = [orders EXCEPT ![act[c].order].estimate = act[c].estimate]
    /\ Answer(c, "estimated")
    /\ UNCHANGED <<shop, req, plan, act, histVars>>

(* The customer's UPDATE names the order by id only: it waits for the row  *)
(* and then writes, whatever the row has become.                           *)
CommitCancel(c) ==
    /\ pc[c] = "flush"
    /\ act[c].edge = CustomerCancel
    /\ CanLockOrder(act[c].order)
    /\ orders' = [orders EXCEPT ![act[c].order] = Moved(@, "submitted", "cancelled")]
    /\ Answer(c, "cancelled")
    /\ UNCHANGED <<shop, req, plan, act, histVars>>

Command(c) ==
    \/ LockForRelease(c) \/ LockOrder(c) \/ ReadByToken(c)
    \/ CommitTransition(c) \/ CommitEstimate(c) \/ CommitCancel(c)
-----------------------------------------------------------------------------
(* The rest of the restaurant: each write takes the Business row FOR       *)
(* UPDATE, waits for nothing while holding it and commits, so it is one    *)
(* step that needs the row free.                                           *)
Edit(newShop) ==
    /\ bizLock = None
    /\ edits < MaxEdits
    /\ shop.status # "closed"
    /\ newShop # shop
    /\ shop'    = newShop
    /\ edits'   = edits + 1
    /\ sawOpen' = [p \in Ids |-> sawOpen[p] \/ (InProgress(p) /\ ~newShop.paused)]
    /\ UNCHANGED <<orders, bizLock, rowLock, reqVars, prior>>

SetEntitlement(granted) == Edit([shop EXCEPT !.entitled = granted])

SetFulfillment(pickup, asap, cap) ==
    Edit([shop EXCEPT !.pickup = pickup, !.asap = asap, !.cap = cap])

(* Weekly hours and dated exceptions both end in another set of times.     *)
SetSchedule(walls) == Edit([shop EXCEPT !.hours = walls])

SetTimezone(zone) == Edit([shop EXCEPT !.zone = zone])

SetOrderingPause(paused) == Edit([shop EXCEPT !.paused = paused])

Suspend    == shop.status = "active" /\ Edit([shop EXCEPT !.status = "suspended"])
Reactivate == shop.status = "suspended" /\ Edit([shop EXCEPT !.status = "active"])
Close      == shop.status = "suspended" /\ Edit([shop EXCEPT !.status = "closed"])

Environment ==
    \/ \E granted \in BOOLEAN : SetEntitlement(granted)
    \/ \E pickup, asap \in BOOLEAN, cap \in Caps : SetFulfillment(pickup, asap, cap)
    \/ \E walls \in SUBSET Walls : SetSchedule(walls)
    \/ \E zone \in Zones : SetTimezone(zone)
    \/ \E paused \in BOOLEAN : SetOrderingPause(paused)
    \/ Suspend \/ Reactivate \/ Close
-----------------------------------------------------------------------------
(* Failures.                                                               *)

(* Who t waits for, and which lock it waits at.                            *)
WaitsFor(t) ==
    CASE pc[t] = "lock" -> {bizLock} \ {None}
      [] pc[t] = "row"  -> {rowLock[act[t].order]} \ {None}
      [] pc[t] = "flush" /\ act[t].edge = CustomerCancel ->
             {rowLock[act[t].order]} \ {None}
      [] pc[t] = "flush" /\ act[t].edge # CustomerCancel -> {bizLock} \ {None, t}
      [] OTHER -> {}

(* Only a holder of the Business row waits for an order row, and a holder  *)
(* of an order row waits for nothing but the Business row: cycles have     *)
(* length two.                                                             *)
Deadlocked(t) == \E u \in WaitsFor(t) : t \in WaitsFor(u)

(* PostgreSQL rolls one session of the cycle back; the request is a 500.   *)
DeadlockAbort(t) ==
    /\ Deadlocked(t)
    /\ Answer(t, "server_error")
    /\ UNCHANGED <<orders, shop, req, plan, act, histVars>>

(* The worker or its connection dies before COMMIT: everything rolls back. *)
Crash(t) ==
    /\ InProgress(t)
    /\ Answer(t, "lost")
    /\ UNCHANGED <<orders, shop, req, plan, act, histVars>>
-----------------------------------------------------------------------------
Tasks == {task \in Task : task.edge # None => task.estimate = None}

Next ==
    \/ \E p \in Ids, key \in Keys, want \in Slots \cup {Asap} :
          BeginPlacement(p, key, want)
    \/ \E p \in Ids : Placement(p)
    \/ \E c \in Commands, task \in Tasks : BeginCommand(c, task)
    \/ \E c \in Commands : Command(c)
    \/ \E t \in Txns : DeadlockAbort(t) \/ Crash(t)
    \/ Environment

Spec == Init /\ [][Next]_vars

(* A worker thread runs a request to its end, and PostgreSQL breaks every  *)
(* lock cycle.  Nothing obliges a client to call, a restaurant to edit its *)
(* settings or a worker to crash.                                          *)
Fairness ==
    /\ \A p \in Ids : WF_vars(Placement(p))
    /\ \A c \in Commands : WF_vars(Command(c))
    /\ \A t \in Txns : WF_vars(DeadlockAbort(t))

FairSpec == Spec /\ Fairness
-----------------------------------------------------------------------------
(* Properties.                                                             *)

(* "An idempotency key prevents duplicates": however placements with one   *)
(* key overlap, fail and retry, at most one order exists for it.           *)
OneOrderPerKey ==
    \A o, q \in Placed : orders[o].key = orders[q].key => o = q

(* next_order_number: MAX + 1 is race-free under the Business lock, so the *)
(* numbers are 1..n, no placement ever dies on the number's unique         *)
(* constraint, and no number is handed out twice.                          *)
NumbersAreDense ==
    /\ Numbers = 1..Cardinality(Placed)
    /\ \A p \in Ids : pc[p] = "insert" => plan[p].number = Cardinality(Placed) + 1

(* A timeline that starts with the submission, whose events continue from  *)
(* where the previous one ended along an edge of the machine.              *)
Explains(trail, status) ==
    /\ trail # <<>>
    /\ trail[1] = [from |-> None, to |-> "submitted"]
    /\ \A i \in 2..Len(trail) :
          /\ trail[i].from = trail[i - 1].to
          /\ \E e \in Machine : e.from = trail[i].from /\ e.to = trail[i].to
    /\ trail[Len(trail)].to = status

(* Every order's timeline explains the status on its row: no transition is *)
(* lost or applied twice although cancel_by_token reads the row without a  *)
(* lock.                                                                   *)
TrailExplainsStatus ==
    \A o \in Placed : Explains(orders[o].trail, orders[o].status)

(* A customer who was told "cancelled" is never cooked for: the answer of  *)
(* cancel_by_token stays true whatever the kitchen does at the same time.  *)
CancelledForGood ==
    \A c \in Commands :
        reply[c] = "cancelled" => orders[act[c].order].status = "cancelled"

(* An honest retry, sent after its first attempt committed, is answered    *)
(* with that order or, when ordering is no longer offered, the neutral     *)
(* 404; a pause, a stale cart or a full slot never stands in the way.      *)
RetryFindsItsOrder ==
    \A p \in Ids : prior[p] => reply[p] \in {"none", "replayed", "not_found", "lost"}

(* A pause that was in force from before a request arrived until it        *)
(* committed lets no order through.                                        *)
PauseHonoured == \A p \in Placed : sawOpen[p]

(* Every order is born into an active restaurant, on an instant that the   *)
(* schedule of that very moment offers in the zone written on the order,   *)
(* and within max_orders_per_slot, although all three can change while the *)
(* request is being served.                                                *)
PlacedWithinOffer ==
    [][\A p \in Ids, slot \in Slots :
           p \notin Placed /\ p \in Placed' /\ orders'[p].slot = slot =>
               /\ shop.status = "active"
               /\ slot \in Offered(orders'[p].zone)
               /\ shop.cap # NoCap => Cardinality(Standing(slot)') <= shop.cap]_vars

(* The estimate moves only while the kitchen owns the order, however the   *)
(* command races mark-ready.                                               *)
EstimateOnlyInKitchen ==
    [][\A o \in Placed : orders'[o].estimate # orders[o].estimate =>
           orders[o].status \in EstimateLegal]_vars

(* Every request that began is answered, deadlocks included.               *)
EveryRequestAnswered == \A t \in Txns : InProgress(t) ~> pc[t] = "done"

(* ADR-026: of two concurrent identical submissions the loser observes the *)
(* unique violation and returns the winner's order.  It is never told the  *)
(* slot is gone while the order it asked for stands on that slot.          *)
DuplicateIsReplayed ==
    [][\A p \in Ids : reply'[p] = "slot_unavailable" /\ reply[p] = "none" =>
           OrdersLike(req[p]) = {}]_vars

(* set_timezone: the change re-interprets every stored local wall time and *)
(* every instant computed from them.  No order is promised an instant that *)
(* the schedule does not offer in the restaurant's timezone.               *)
PromisedOnSchedule ==
    [][\A p \in Ids : p \notin Placed /\ p \in Placed' =>
           orders'[p].slot \in Offered(shop.zone)]_vars

(* ADR-027: the lock order is acyclic.                                     *)
LockOrderAcyclic == \A t \in Txns : ~Deadlocked(t)
=============================================================================
