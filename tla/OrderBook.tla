----------------------------- MODULE OrderBook -----------------------------
(***************************************************************************)
(* What the orders domain promises a restaurant and its customers, with no *)
(* transactions and no locks: a ledger in which an order is placed in one  *)
(* step, moves along the status machine in one step, and changes in no     *)
(* other way.  Orders.tla, the model of the SQL transactions, implements   *)
(* this specification.                                                     *)
(***************************************************************************)
EXTENDS Integers, Sequences, FiniteSets

CONSTANTS Ids,        \* identities of the orders that may come to exist
          Keys,       \* idempotency keys chosen by checkouts
          Slots,      \* pickup instants (UTC)
          Walls,      \* pickup times on the wall clock, as the schedule stores them
          Zones,      \* timezones
          Clock,      \* the instant of each wall time in each zone
          Caps,       \* values of max_orders_per_slot, NoCap included
          Estimates,  \* values of estimated_ready_at
          Asap,       \* the "as soon as possible" pickup kind
          NoCap,      \* max_orders_per_slot IS NULL
          None        \* NULL in any other column

ASSUME BookConstants ==
    /\ IsFiniteSet(Ids)
    /\ NoCap \in Caps
    /\ NoCap \notin Nat
    /\ \A cap \in Caps \ {NoCap} : cap \in Nat \ {0}
    /\ Clock \in [Zones -> [Walls -> Slots]]
    /\ Asap \notin Slots
    /\ None \notin Keys \cup Slots \cup Zones \cup Estimates \cup {Asap}

VARIABLES orders,     \* the committed order rows with their event timelines
          shop        \* the committed Business, settings and schedule rows

bookVars == <<orders, shop>>
-----------------------------------------------------------------------------
(* The status vocabulary and the machine as data.                          *)

Statuses == {"submitted", "accepted", "preparing", "ready", "completed",
             "rejected", "cancelled"}

SlotReleasing == {"cancelled", "rejected"}

EstimateLegal == {"accepted", "preparing"}

Edge(name, from, to) == [name |-> name, from |-> from, to |-> to]

MemberTransitions ==
    {Edge("accept", "submitted", "accepted"),
     Edge("reject", "submitted", "rejected"),
     Edge("start-preparing", "accepted", "preparing"),
     Edge("mark-ready", "preparing", "ready"),
     Edge("complete", "ready", "completed"),
     Edge("cancel", "submitted", "cancelled")}

CustomerCancel == Edge("cancel-by-token", "submitted", "cancelled")

Machine == MemberTransitions \cup {CustomerCancel}

(* A timeline row; the submitted row has no from_status.                   *)
Event == [from : Statuses \cup {None}, to : Statuses]

(* An id whose row does not exist has status "absent".  The idempotency    *)
(* row (key, digest of what was asked) commits with the order and never    *)
(* changes, so it is kept with the order.                                  *)
OrderRow == [status   : Statuses \cup {"absent"},
             key      : Keys \cup {None},
             want     : Slots \cup {Asap, None},
             zone     : Zones \cup {None},
             slot     : Slots \cup {None},
             number   : Nat,
             estimate : Estimates \cup {None},
             trail    : Seq(Event)]

NoOrder == [status |-> "absent", key |-> None, want |-> None, zone |-> None,
            slot |-> None, number |-> 0, estimate |-> None, trail |-> <<>>]

NewOrder(key, want, zone, slot, number) ==
    [status |-> "submitted", key |-> key, want |-> want, zone |-> zone,
     slot |-> slot, number |-> number, estimate |-> None,
     trail |-> <<[from |-> None, to |-> "submitted"]>>]

Moved(order, from, to) ==
    [order EXCEPT !.status = to,
                  !.trail  = Append(@, [from |-> from, to |-> to])]

Placed == {o \in Ids : orders[o].status # "absent"}

Standing(slot) ==
    {o \in Placed : orders[o].slot = slot /\ orders[o].status \notin SlotReleasing}

Numbers == {orders[o].number : o \in Placed}

(* The throttle: is this slot's capacity used up?                          *)
Full(slot) == shop.cap # NoCap /\ Cardinality(Standing(slot)) >= shop.cap

(* The instants the schedule offers, read in a zone.  Disabling pickup     *)
(* empties the list.                                                       *)
Offered(zone) == IF shop.pickup THEN {Clock[zone][w] : w \in shop.hours} ELSE {}
-----------------------------------------------------------------------------
ShopState == [status   : {"active", "suspended", "closed"},
              entitled : BOOLEAN,
              pickup   : BOOLEAN,
              asap     : BOOLEAN,
              paused   : BOOLEAN,
              cap      : Caps,
              zone     : Zones,
              hours    : SUBSET Walls]

BookInit == /\ orders = [o \in Ids |-> NoOrder]
            /\ shop \in ShopState
            /\ shop.status = "active"

(* One order is born: for a key nobody used, on a pickup instant with      *)
(* capacity left that the schedule offers in the zone written on the       *)
(* order, of an active restaurant, with the next number.                   *)
Place(o, key, want, zone, slot) ==
    /\ o \notin Placed
    /\ \A q \in Placed : orders[q].key # key
    /\ shop.status = "active"
    /\ slot \in Offered(zone)
    /\ ~Full(slot)
    /\ orders' = [orders EXCEPT ![o] =
                     NewOrder(key, want, zone, slot, Cardinality(Placed) + 1)]
    /\ UNCHANGED shop

Move(o, edge) ==
    /\ orders[o].status = edge.from
    /\ orders' = [orders EXCEPT ![o] = Moved(@, edge.from, edge.to)]
    /\ UNCHANGED shop

SetEstimate(o, estimate) ==
    /\ orders[o].status \in EstimateLegal
    /\ orders' = [orders EXCEPT ![o].estimate = estimate]
    /\ UNCHANGED shop

(* The restaurant reconfigures itself; closing is final.                   *)
Reconfigure ==
    /\ shop.status # "closed"
    /\ shop' \in ShopState
    /\ UNCHANGED orders

BookNext ==
    \/ \E o \in Ids, key \in Keys, want \in Slots \cup {Asap}, zone \in Zones,
          slot \in Slots : Place(o, key, want, zone, slot)
    \/ \E o \in Ids, edge \in Machine : Move(o, edge)
    \/ \E o \in Ids, estimate \in Estimates \cup {None} : SetEstimate(o, estimate)
    \/ Reconfigure

BookSpec == BookInit /\ [][BookNext]_bookVars
=============================================================================
