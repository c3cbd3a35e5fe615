------------------------------ MODULE Checkout ------------------------------
(***************************************************************************)
(* The checkout page of the storefront against the server's placement of    *)
(* orders. A submission is a request on a network that may lose it, lose    *)
(* its answer, or let the server handle it after the page has given up. The *)
(* page holds one idempotency key per submission content: it is minted at   *)
(* submit, kept across retries, and dropped by every edit and by every      *)
(* refusal that asks for another command.                                   *)
(*                                                                          *)
(* The server is the one of module Orders, reduced to the order of its      *)
(* checks and to its answers; each request is handled in one step.          *)
(***************************************************************************)
EXTENDS Cart

CONSTANTS
    SaleMenus,      \* the catalogs the restaurant may sell from
    Slots,          \* pickup instants
    Details,        \* what a visitor may enter: name, phone, consents, ...
    Nothing,        \* no key, no slot, no details, no token, no request
    Keys,           \* bound: the idempotency keys that are ever minted
    MaxWire,        \* bound: requests on the network at once
    MaxEdits,       \* bound: changes the visitor makes
    MaxVisits,      \* bound: times the checkout page is opened
    MaxShopChanges, \* bound: changes the restaurant makes
    MaxFaults       \* bound: failures of the connection

ASSUME CheckoutConstants ==
    /\ Nothing \notin Keys \cup Slots \cup Details
    /\ MaxWire \in Nat \ {0}
    /\ SaleMenus \subseteq [Items -> ItemFacts]

VARIABLES
    shop,           \* the restaurant: catalog, ordering gate, free slots
    orders,         \* the orders of this visitor, with their idempotency rows
    stored,         \* the cart in localStorage
    page,           \* the page the visitor is on, with the tracking token
    form,           \* the state of the checkout form
    wire,           \* requests the server has not handled
    waiting,        \* the request the page awaits
    answer,         \* the server's answer to it, on its way back
    used,           \* how much of each bound is used
    attempt,        \* history: counts the contents the visitor decided on
    refused,        \* history: attempts whose key a refusal dropped, or whose
                    \* total came from a refusal
    pinned          \* history: bodies sent under the held key

checkoutVars == <<shop, orders, stored, page, form, wire, waiting, answer, used,
                  attempt, refused, pinned>>

-----------------------------------------------------------------------------

PickupKinds == {"asap", "scheduled"}
SubmitKinds == {"idle", "submitting", "refreshing", "stale", "price-changed",
                "slot-unavailable", "key-reused", "paused", "gone", "failed"}

\* The placement payload without its key.
Body == [lines : Seq([choice : Choice, quantity : 1 .. MaxQuantity]),
         details : Details, kind : PickupKinds, slot : Slots \cup {Nothing},
         total : Nat]

SubmittedRequest == [tag : 1 .. MaxWire, key : Keys, body : Body, attempt : Nat]

ASSUME NothingIsNoRequest == Nothing \notin SubmittedRequest

ShopState == [catalog : SaleMenus, gate : {"open", "paused", "off"}, asap : BOOLEAN,
              free : SUBSET Slots]

FormState == [cart : Seq(Line), details : Details \cup {Nothing}, kind : PickupKinds,
              slot : Slots \cup {Nothing}, slots : SUBSET Slots,
              submit : [kind : SubmitKinds, total : Nat], key : Keys \cup {Nothing}]

CheckoutTypeOK ==
    /\ shop \in ShopState
    /\ \A i \in DOMAIN orders :
          /\ orders[i].key \in Keys /\ orders[i].body \in Body
          /\ orders[i].attempt \in 0 .. attempt
    /\ stored = Foreign \/ IsCart(stored)
    /\ page.at \in {"away", "checkout", "track"}
    /\ form \in FormState /\ IsCart(form.cart)
    /\ wire \subseteq SubmittedRequest
    /\ waiting \in SubmittedRequest \cup {Nothing}
    /\ (waiting # Nothing) <=> (form.submit.kind = "submitting")
    /\ pinned \subseteq Body
    /\ refused \subseteq 0 .. attempt

Idle == [kind |-> "idle", total |-> 0]

NewForm(lines) ==
    [cart |-> lines, details |-> Nothing, slot |-> Nothing,
     kind |-> IF shop.asap THEN "asap" ELSE "scheduled",
     slots |-> {}, submit |-> Idle, key |-> Nothing]

\* A line that the menu page composes from the current catalog (see Shopping).
Ordinary(i) ==
    [choice |-> [item |-> i, options |-> {}, note |-> CHOOSE n \in Notes : TRUE],
     unit |-> UnitPrice(shop.catalog[i], {}), quantity |-> 1]

CheckoutInit ==
    /\ shop \in [catalog : SaleMenus, gate : {"open"}, asap : BOOLEAN, free : {Slots}]
    /\ orders = << >>
    /\ stored \in {EmptyCart, Foreign} \cup
                  {<<Ordinary(i)>> : i \in {j \in Items : Orderable(shop.catalog[j])}}
    /\ page = [at |-> "away", token |-> Nothing]
    /\ form = NewForm(EmptyCart)
    /\ wire = {} /\ waiting = Nothing /\ answer = Nothing
    /\ used = [edits |-> 0, visits |-> 0, changes |-> 0, faults |-> 0]
    /\ attempt = 0 /\ refused = {} /\ pinned = {}

\* After a price_changed refusal the authoritative total is what is displayed
\* and submitted; in every other state it is the cart's own total.
Displayed(f) ==
    IF f.submit.kind = "price-changed" THEN f.submit.total ELSE CartTotal(f.cart)

\* A submission is pending until the slots are listed again after a refusal.
Pending == form.submit.kind \in {"submitting", "refreshing"}

FormShown == page.at = "checkout" /\ (form.cart # EmptyCart \/ Pending)

-----------------------------------------------------------------------------
(* The pages.                                                              *)

\* On the menu page, a line joins the stored cart at the current price. The
\* checkout page of another tab does not hear of it.
AddFromMenu(i) ==
    /\ used.edits < MaxEdits
    /\ Orderable(shop.catalog[i])
    /\ stored' = AddLine(Parsed(stored), Ordinary(i))
    /\ used' = [used EXCEPT !.edits = @ + 1]
    /\ UNCHANGED <<shop, orders, page, form, wire, waiting, answer, attempt, refused, pinned>>

\* The page exists only while ordering is on and not paused. Its form starts
\* empty, with the stored cart and the slots listed at that time.
OpenCheckout ==
    /\ page.at # "checkout" /\ shop.gate = "open"
    /\ used.visits < MaxVisits
    /\ used' = [used EXCEPT !.visits = @ + 1]
    /\ page' = [at |-> "checkout", token |-> Nothing]
    /\ \E listed \in {shop.free, {}} :
          form' = [NewForm(Parsed(stored)) EXCEPT !.slots = listed]
    /\ attempt' = attempt + 1 /\ pinned' = {}
    /\ UNCHANGED <<shop, orders, stored, wire, waiting, answer, refused>>

\* Leaving or reloading forgets the form, the held key and the awaited answer.
LeaveCheckout ==
    /\ page.at = "checkout"
    /\ page' = [at |-> "away", token |-> Nothing]
    /\ form' = NewForm(EmptyCart)
    /\ waiting' = Nothing /\ answer' = Nothing /\ pinned' = {}
    /\ UNCHANGED <<shop, orders, stored, wire, used, attempt, refused>>

\* Every payload-relevant change drops the held key (invalidateKey).
Edit(f) ==
    /\ FormShown
    /\ used.edits < MaxEdits
    /\ used' = [used EXCEPT !.edits = @ + 1]
    /\ form' = [f EXCEPT !.key = Nothing]
    /\ pinned' = {}
    /\ attempt' = attempt + 1
    /\ UNCHANGED <<shop, orders, page, wire, waiting, answer, refused>>

\* Mutant: changing the cart keeps the held key.
UpdateCartKeepingKey(lines) ==
    /\ FormShown
    /\ used.edits < MaxEdits
    /\ used' = [used EXCEPT !.edits = @ + 1]
    /\ form' = [form EXCEPT !.cart = lines,
                            !.submit = IF Pending THEN @ ELSE Idle]
    /\ stored' = lines
    /\ attempt' = attempt + 1
    /\ UNCHANGED <<shop, orders, page, wire, waiting, answer, refused, pinned>>

\* A change of the cart is saved, and returns a refusal to the idle state; an
\* edit while a submission is pending leaves it pending.
UpdateCart(lines) ==
    /\ Edit([form EXCEPT !.cart = lines,
                         !.submit = IF Pending THEN @ ELSE Idle])
    /\ stored' = lines

EditCart ==
    \E i \in DOMAIN form.cart :
        \/ \E quantity \in {form.cart[i].quantity - 1, form.cart[i].quantity + 1} :
              quantity \in 1 .. MaxQuantity /\ UpdateCart(SetLineQuantity(form.cart, i, quantity))
        \/ UpdateCart(RemoveLine(form.cart, i))

EditDetails ==
    /\ \E d \in Details \cup {Nothing} :
          d # form.details /\ Edit([form EXCEPT !.details = d])
    /\ UNCHANGED stored

ChoosePickup ==
    /\ \E kind \in PickupKinds :
          /\ kind # form.kind
          /\ kind = "asap" => shop.asap
          /\ Edit([form EXCEPT !.kind = kind])
    /\ UNCHANGED stored

ChooseSlot ==
    /\ form.kind = "scheduled"
    /\ \E s \in form.slots \cup {Nothing} : s # form.slot /\ Edit([form EXCEPT !.slot = s])
    /\ UNCHANGED stored

Complete(f) ==
    /\ f.details # Nothing
    /\ f.kind = "scheduled" => f.slot # Nothing

\* A random key is one that nothing known to the server carries.
Unused == {k \in Keys : /\ \A i \in DOMAIN orders : orders[i].key # k
                        /\ \A r \in wire : r.key # k}
FreshKey == CHOOSE k \in Unused : TRUE

\* Mutant: every submission mints a key of its own.
AlwaysFresh(f) == FreshKey

HeldOrFresh(f) == IF f.key = Nothing THEN FreshKey ELSE f.key

BodyOf(f) ==
    [lines |-> PlacementLines(f.cart), details |-> f.details, kind |-> f.kind,
     slot |-> IF f.kind = "scheduled" THEN f.slot ELSE Nothing, total |-> Displayed(f)]

\* Only one submission is pending at a time: its button is disabled meanwhile.
\* Random keys do not run out; Keys is the bound.
Submit ==
    /\ FormShown
    /\ ~Pending
    /\ Complete(form)
    /\ form.key = Nothing => Unused # {}
    /\ \E tag \in 1 .. MaxWire :
          /\ \A r \in wire : r.tag # tag
          /\ \A smaller \in 1 .. tag - 1 : \E r \in wire : r.tag = smaller
          /\ LET r == [tag |-> tag, key |-> HeldOrFresh(form), body |-> BodyOf(form),
                       attempt |-> attempt]
             IN  /\ wire' = wire \cup {r}
                 /\ waiting' = r
                 /\ pinned' = pinned \cup {r.body}
                 /\ form' = [form EXCEPT !.key = r.key,
                                         !.submit = [kind |-> "submitting", total |-> 0]]
    /\ refused' = IF form.submit.kind = "price-changed"
                  THEN refused \cup {attempt} ELSE refused
    /\ UNCHANGED <<shop, orders, stored, page, answer, used, attempt>>

-----------------------------------------------------------------------------
(* The server.                                                             *)

Ordered(key) == {i \in DOMAIN orders : orders[i].key = key}

Refused(kind, total) == [kind |-> kind, total |-> total]

\* The checks of place_order in their order; "created" if all pass.
Verdict(r) ==
    IF shop.gate = "off" THEN "gone"
    ELSE IF Ordered(r.key) # {}
         THEN IF \E i \in Ordered(r.key) : orders[i].body = r.body
              THEN "replayed" ELSE "key-reused"
    ELSE IF shop.gate = "paused" THEN "paused"
    ELSE IF CartProblems(shop.catalog, r.body.lines) # {} THEN "stale"
    ELSE IF PricedTotal(shop.catalog, r.body.lines) # r.body.total THEN "price-changed"
    ELSE IF (r.body.kind = "scheduled" /\ r.body.slot \notin shop.free) \/ shop.free = {}
         THEN "slot-unavailable"
    ELSE "created"

\* The answer goes to the page if it still waits for this request. An order may
\* be the last its slot takes.
Handle(r) ==
    /\ r \in wire
    /\ wire' = wire \ {r}
    /\ answer' = IF form.submit.kind = "submitting" /\ waiting = r
                 THEN Refused(Verdict(r), PricedTotal(shop.catalog, r.body.lines))
                 ELSE answer
    /\ IF Verdict(r) = "created"
       THEN /\ orders' = Append(orders, [key |-> r.key, body |-> r.body,
                                         attempt |-> r.attempt])
            /\ \E left \in {shop.free, shop.free \ {r.body.slot}} :
                  shop' = [shop EXCEPT !.free = left]
       ELSE UNCHANGED <<orders, shop>>
    /\ UNCHANGED <<stored, page, form, waiting, used, attempt, refused, pinned>>

\* The restaurant changes its menu, its gate, or which slots are free.
ChangeShop ==
    /\ used.changes < MaxShopChanges
    /\ used' = [used EXCEPT !.changes = @ + 1]
    /\ \/ \E c \in SaleMenus \ {shop.catalog} : shop' = [shop EXCEPT !.catalog = c]
       \/ \E g \in {"open", "paused", "off"} \ {shop.gate} : shop' = [shop EXCEPT !.gate = g]
       \/ \E s \in Slots :
             shop' = [shop EXCEPT !.free = IF s \in @ THEN @ \ {s} ELSE @ \cup {s}]
    /\ UNCHANGED <<orders, stored, page, form, wire, waiting, answer, attempt, refused, pinned>>

-----------------------------------------------------------------------------
(* The answers.                                                            *)

Show(kind, total) == [form EXCEPT !.submit = [kind |-> kind, total |-> total]]
Drop(f) == [f EXCEPT !.key = Nothing]

\* Mutant: the authoritative total of a price_changed refusal is not adopted.
ForgetTotal(kind, total) == Show(kind, CartTotal(form.cart))

ShowRefusal(kind, total) == Show(kind, total)

\* The order exists: the stored cart is cleared and the visitor goes to the
\* tracker. The token is disclosed only by the answer that created the order.
ReceiveAnswer ==
    /\ answer # Nothing
    /\ waiting' = Nothing /\ answer' = Nothing
    /\ IF answer.kind \in {"created", "replayed"}
       THEN /\ stored' = EmptyCart
            /\ page' = [at |-> "track",
                        token |-> IF answer.kind = "created" THEN waiting.key ELSE Nothing]
            /\ form' = NewForm(EmptyCart)
            /\ pinned' = {}
            /\ UNCHANGED refused
       ELSE /\ form' =
                 CASE answer.kind \in {"stale", "key-reused"} -> Drop(Show(answer.kind, 0))
                   [] answer.kind = "price-changed" ->
                          Drop(ShowRefusal(answer.kind, answer.total))
                   [] answer.kind = "slot-unavailable" ->
                          [Drop(Show("refreshing", 0)) EXCEPT !.slot = Nothing]
                   [] answer.kind \in {"paused", "gone"} -> Show(answer.kind, 0)
            /\ pinned' = IF form'.key = Nothing THEN {} ELSE pinned
            /\ refused' = IF answer.kind \in {"stale", "price-changed", "slot-unavailable"}
                          THEN refused \cup {waiting.attempt} ELSE refused
            /\ UNCHANGED <<stored, page>>
    /\ UNCHANGED <<shop, orders, wire, used, attempt>>

\* After slot_unavailable the listing is fetched before the refusal is shown; a
\* failed fetch lists nothing.
RefreshSlots ==
    /\ form.submit.kind = "refreshing"
    /\ \E listed \in {shop.free, {}} :
          form' = [Show("slot-unavailable", 0) EXCEPT !.slots = listed]
    /\ UNCHANGED <<shop, orders, stored, page, wire, waiting, answer, used, attempt,
                   refused, pinned>>

\* The connection fails: the answer is lost, or the request is lost, or the
\* request is still on its way to the server.
LoseConnection ==
    /\ waiting # Nothing
    /\ used.faults < MaxFaults
    /\ used' = [used EXCEPT !.faults = @ + 1]
    /\ form' = Show("failed", 0)
    /\ waiting' = Nothing /\ answer' = Nothing
    /\ wire' \in {wire, wire \ {waiting}}
    /\ UNCHANGED <<shop, orders, stored, page, attempt, refused, pinned>>

CheckoutNext ==
    \/ \E i \in Items : AddFromMenu(i)
    \/ OpenCheckout
    \/ LeaveCheckout
    \/ EditCart
    \/ EditDetails
    \/ ChoosePickup
    \/ ChooseSlot
    \/ Submit
    \/ \E r \in wire : Handle(r)
    \/ ChangeShop
    \/ ReceiveAnswer
    \/ RefreshSlots
    \/ LoseConnection

\* The server handles what reaches it and the page's callbacks run. A visitor who
\* wants the order presses the button again.
CheckoutFairness ==
    /\ WF_checkoutVars(\E r \in wire : Handle(r))
    /\ WF_checkoutVars(ReceiveAnswer)
    /\ WF_checkoutVars(RefreshSlots)
    /\ WF_checkoutVars(Submit)

CheckoutSpec == CheckoutInit /\ [][CheckoutNext]_checkoutVars
FairCheckoutSpec == CheckoutSpec /\ CheckoutFairness

-----------------------------------------------------------------------------

\* One key, one content: whatever was sent under the key the page still holds is
\* what the form says now, except for the total. So a retry is never refused
\* because some edit path, before, during or after a submission, forgot to drop
\* the key (handleSubmit, invalidateKey).
HeldKeyPinsContent ==
    form.key # Nothing =>
        \A body \in pinned : [body EXCEPT !.total = 0] = [BodyOf(form) EXCEPT !.total = 0]

Duplicate(i, j) == i # j /\ orders[i].attempt = orders[j].attempt

\* A retry is safe: however often the same content is submitted, whatever is
\* lost, even if the server handles a request after the page gave up on it, and
\* whatever the restaurant changes meanwhile, at most one order comes of it,
\* unless a refusal asked for another command or changed the total.
RetryIsSafe ==
    \A i, j \in DOMAIN orders : Duplicate(i, j) => orders[i].attempt \in refused

\* The page promises after a failure that retrying will not create a duplicate
\* order ("If you retry, you will not be charged twice or create a duplicate
\* order"), whatever the restaurant does meanwhile.
NoDuplicateOnRetry == \A i, j \in DOMAIN orders : ~Duplicate(i, j)

\* Submitting a complete and orderable form again and again leads to the order:
\* every refusal changes what the next submission says, and no combination of
\* lost answers, held keys, adopted totals and refreshed slots keeps a visitor
\* in a loop of refusals.
Acceptable ==
    /\ page.at = "checkout" /\ form.cart # EmptyCart
    /\ Complete(form)
    /\ shop.gate = "open" /\ shop.free # {}
    /\ form.kind = "scheduled" => form.slot \in shop.free
    /\ CartProblems(shop.catalog, PlacementLines(form.cart)) = {}

PersistencePays == []<>~Acceptable

=============================================================================
