--------------------------- MODULE CustomerProofs ---------------------------
(***************************************************************************)
(* The two sides of the counter together. Of the checkout, for any menus,   *)
(* visitors, faults and number of keys: all submissions of one content,      *)
(* whether they became orders or are still on the network, carry the same   *)
(* key and the same body (OneStory), no key speaks for two contents         *)
(* (KeysTellApart), and the form still says what it last submitted           *)
(* (FormAgrees): all this until a refusal asks for another command. It holds *)
(* of the checkout among the other pages, which rest while it moves. Of the  *)
(* order board and the rendering of the public pages, for any bounds: of the *)
(* board, that what it was told of an order is a status the order has had,   *)
(* and orders never go back (Known); of a page, that what it is made of was  *)
(* so at some time since its request.                                        *)
(***************************************************************************)
EXTENDS MCCustomer, DataFacts

-----------------------------------------------------------------------------
(* The checkout (Checkout).                                                  *)

\* What the form submits if no refusal has set the total.
Content(f) ==
    [lines |-> PlacementLines(f.cart), details |-> f.details, kind |-> f.kind,
     slot |-> IF f.kind = "scheduled" THEN f.slot ELSE Nothing, total |-> CartTotal(f.cart)]

\* Every submission that the server has or may still get.
Known(x) == [key |-> x.key, body |-> x.body, attempt |-> x.attempt]
Sent == {Known(r) : r \in wire} \cup {Known(orders[i]) : i \in DOMAIN orders}

FormShape ==
    /\ DOMAIN form = {"cart", "details", "kind", "slot", "slots", "submit", "key"}
    /\ form = [field \in DOMAIN form |-> form[field]]
    /\ form.key \in Keys \cup {Nothing}

OrdersShape ==
    \E n \in Nat : DOMAIN orders = 1 .. n /\ orders = [i \in 1 .. n |-> orders[i]]

SentShape == \A x \in Sent : x.key \in Keys /\ x.attempt \in 0 .. attempt

\* While an answer is awaited; a form that was edited meanwhile holds no key.
Awaiting ==
    /\ form.submit.kind = "submitting" =>
          /\ page.at = "checkout"
          /\ waiting.attempt # attempt => form.key = Nothing
    /\ answer # Nothing =>
          /\ form.submit.kind = "submitting"
          /\ answer.kind \in {"gone", "replayed", "key-reused", "paused", "stale",
                              "price-changed", "slot-unavailable", "created"}
          /\ answer.kind = "key-reused" => waiting.attempt \in refused

KeyPerOrder == \A i, j \in DOMAIN orders : orders[i].key = orders[j].key => i = j

KeysTellApart ==
    /\ \A x, y \in Sent : x.key = y.key => x.attempt = y.attempt
    /\ \A x \in Sent : x.key = form.key => x.attempt = attempt

OneStory == \A x, y \in Sent :
    x.attempt = y.attempt /\ x.attempt \notin refused => x.key = y.key /\ x.body = y.body

FormAgrees == \A x \in Sent :
    page.at = "checkout" /\ x.attempt = attempt /\ attempt \notin refused
        => x.key = form.key /\ x.body = Content(form)

Pins ==
    /\ form.key = Nothing => pinned = {}
    /\ \A body \in pinned : [body EXCEPT !.total = 0] = [Content(form) EXCEPT !.total = 0]

Honest ==
    /\ attempt \in Nat
    /\ FormShape /\ OrdersShape /\ SentShape
    /\ Awaiting
    /\ KeyPerOrder /\ KeysTellApart
    /\ OneStory /\ FormAgrees
    /\ Pins

-----------------------------------------------------------------------------
(* What the invariant gives.                                                *)

LEMMA HonestIsPinned ==
    ASSUME Honest PROVE HeldKeyPinsContent
<1>1. [BodyOf(form) EXCEPT !.total = 0] = [Content(form) EXCEPT !.total = 0]
  BY DEF BodyOf, Content
<1> QED BY <1>1 DEF Honest, Pins, HeldKeyPinsContent

LEMMA HonestIsSafe ==
    ASSUME Honest PROVE RetryIsSafe
<1> SUFFICES ASSUME NEW i \in DOMAIN orders, NEW j \in DOMAIN orders, Duplicate(i, j),
                    orders[i].attempt \notin refused
             PROVE  FALSE
  BY DEF RetryIsSafe
<1>1. Known(orders[i]) \in Sent /\ Known(orders[j]) \in Sent
  BY DEF Sent
<1>2. orders[i].key = orders[j].key
  BY <1>1 DEF Honest, OneStory, Known, Duplicate
<1> QED BY <1>2 DEF Honest, KeyPerOrder, Duplicate

-----------------------------------------------------------------------------
(* Steps that send nothing. The orders are as they were, and the network    *)
(* may have lost a request.                                                 *)

Quiet == orders' = orders /\ wire' \subseteq wire

LEMMA QuietSends ==
    ASSUME Quiet
    PROVE  /\ Sent' \subseteq Sent
           /\ OrdersShape => OrdersShape'
           /\ KeyPerOrder => KeyPerOrder'
BY DEF Quiet, Sent, OrdersShape, KeyPerOrder

\* The form is left alone, or what it shows of a refusal changes.
SameForm ==
    /\ DOMAIN form' = DOMAIN form /\ form' = [field \in DOMAIN form' |-> form'[field]]
    /\ form'.cart = form.cart /\ form'.details = form.details
    /\ form'.kind = form.kind /\ form'.slot = form.slot /\ form'.key = form.key

LEMMA SameContent ==
    ASSUME SameForm PROVE Content(form') = Content(form)
BY DEF SameForm, Content

\* A step that keeps the content, the key and the place, and adds refusals.
LEMMA SameFormHonest ==
    ASSUME Honest, Quiet, SameForm, UNCHANGED <<attempt, pinned>>,
           page' = page, refused \subseteq refused', Awaiting'
    PROVE  Honest'
<1>1. Sent' \subseteq Sent /\ OrdersShape' /\ KeyPerOrder'
  BY QuietSends DEF Honest
<1>2. Content(form)' = Content(form)
  BY SameContent DEF Content
<1>3. FormShape' /\ SentShape'
  BY <1>1 DEF Honest, FormShape, SentShape, SameForm
<1>4. KeysTellApart' /\ OneStory' /\ FormAgrees'
  BY <1>1, <1>2 DEF Honest, KeysTellApart, OneStory, FormAgrees, SameForm
<1>5. Pins'
  BY <1>2 DEF Honest, Pins, SameForm
<1> QED BY <1>1, <1>3, <1>4, <1>5 DEF Honest

\* A step after which the form holds no key and nothing is pinned, because the
\* visitor left, decided on another content, or was refused the one sent.
LEMMA DroppedHonest ==
    ASSUME Honest, Quiet, refused \subseteq refused', pinned' = {},
           DOMAIN form' = {"cart", "details", "kind", "slot", "slots", "submit", "key"},
           form' = [field \in DOMAIN form' |-> form'[field]],
           form'.key = Nothing, Nothing \notin Keys,
           attempt' \in {attempt, attempt + 1},
           attempt' = attempt => \/ page'.at # "checkout"
                                 \/ attempt \in refused'
                                 \/ page' = page /\ form.key = Nothing,
           Awaiting'
    PROVE  Honest'
<1>1. Sent' \subseteq Sent /\ OrdersShape' /\ KeyPerOrder'
  BY QuietSends DEF Honest
<1>2. attempt' \in Nat /\ FormShape' /\ SentShape' /\ Pins'
  BY <1>1 DEF Honest, FormShape, SentShape, Pins
<1>3. KeysTellApart'
  BY <1>1 DEF Honest, KeysTellApart, SentShape
<1>4. OneStory'
  BY <1>1 DEF Honest, OneStory
<1>5. FormAgrees'
  <2> SUFFICES ASSUME NEW x \in Sent', page'.at = "checkout", x.attempt = attempt',
                      attempt' \notin refused'
               PROVE  FALSE
    BY DEF FormAgrees
  <2>1. x \in Sent /\ x.key \in Keys /\ x.attempt \in 0 .. attempt
    BY <1>1 DEF Honest, SentShape
  <2>2. attempt' = attempt /\ page' = page /\ form.key = Nothing
    BY <2>1 DEF Honest
  <2>3. x.key = form.key
    BY <2>1, <2>2 DEF Honest, FormAgrees
  <2> QED BY <2>1, <2>2, <2>3
<1> QED BY <1>1, <1>2, <1>3, <1>4, <1>5 DEF Honest

-----------------------------------------------------------------------------
(* The steps, one by one.                                                   *)

LEMMA EditHonest ==
    ASSUME Honest, Nothing \notin Keys, NEW f, Edit(f),
           DOMAIN f = DOMAIN form, f = [field \in DOMAIN f |-> f[field]],
           f.submit.kind = "submitting" <=> form.submit.kind = "submitting"
    PROVE  Honest'
<1>1. /\ form' = [f EXCEPT !.key = Nothing] /\ attempt' = attempt + 1 /\ pinned' = {}
      /\ UNCHANGED <<orders, page, wire, waiting, answer, refused>>
  BY DEF Edit
<1>2. /\ DOMAIN form' = {"cart", "details", "kind", "slot", "slots", "submit", "key"}
      /\ form' = [field \in DOMAIN form' |-> form'[field]]
      /\ form'.key = Nothing /\ form'.submit = f.submit
  BY <1>1 DEF Honest, FormShape
<1>3. Awaiting'
  BY <1>1, <1>2 DEF Honest, Awaiting
<1>4. attempt' # attempt
  BY <1>1 DEF Honest
<1> QED BY <1>1, <1>2, <1>3, <1>4, DroppedHonest DEF Quiet

LEMMA UpdateCartHonest ==
    ASSUME Honest, Nothing \notin Keys, NEW lines, UpdateCart(lines)
    PROVE  Honest'
<1> DEFINE f == [form EXCEPT !.cart = lines, !.submit = IF Pending THEN @ ELSE Idle]
<1>1. DOMAIN f = DOMAIN form /\ f = [field \in DOMAIN f |-> f[field]]
  BY DEF Honest, FormShape
<1>2. f.submit = IF Pending THEN form.submit ELSE Idle
  BY DEF Honest, FormShape
<1>3. f.submit.kind = "submitting" <=> form.submit.kind = "submitting"
  BY <1>2 DEF Pending, Idle
<1>4. Edit(f)
  BY DEF UpdateCart
<1> HIDE DEF f
<1> QED BY <1>1, <1>3, <1>4, EditHonest

LEMMA EditsHonest ==
    ASSUME Honest, Nothing \notin Keys,
           EditCart \/ EditDetails \/ ChoosePickup \/ ChooseSlot
    PROVE  Honest'
<1>1. CASE EditCart
  BY <1>1, UpdateCartHonest DEF EditCart
<1>2. ASSUME NEW d, Edit([form EXCEPT !.details = d]) PROVE Honest'
  BY <1>2, EditHonest DEF Honest, FormShape
<1>3. ASSUME NEW kind, Edit([form EXCEPT !.kind = kind]) PROVE Honest'
  BY <1>3, EditHonest DEF Honest, FormShape
<1>4. ASSUME NEW s, Edit([form EXCEPT !.slot = s]) PROVE Honest'
  BY <1>4, EditHonest DEF Honest, FormShape
<1> QED BY <1>1, <1>2, <1>3, <1>4 DEF EditDetails, ChoosePickup, ChooseSlot

LEMMA VisitsHonest ==
    ASSUME Honest, Nothing \notin Keys, OpenCheckout \/ LeaveCheckout
    PROVE  Honest'
<1>1. CASE OpenCheckout
  <2>1. /\ page' = [at |-> "checkout", token |-> Nothing]
        /\ attempt' = attempt + 1 /\ pinned' = {} /\ page.at # "checkout"
        /\ UNCHANGED <<orders, wire, waiting, answer, refused>>
    BY <1>1 DEF OpenCheckout
  <2>2. PICK listed : form' = [NewForm(Parsed(stored)) EXCEPT !.slots = listed]
    BY <1>1 DEF OpenCheckout
  <2>3. /\ DOMAIN form' = {"cart", "details", "kind", "slot", "slots", "submit", "key"}
        /\ form' = [field \in DOMAIN form' |-> form'[field]]
        /\ form'.key = Nothing /\ form'.submit = Idle
    BY <2>2 DEF NewForm
  <2>4. Awaiting'
    BY <2>1, <2>3 DEF Honest, Awaiting, Idle
  <2> QED BY <2>1, <2>3, <2>4, DroppedHonest DEF Quiet, Honest
<1>2. CASE LeaveCheckout
  <2>1. /\ page' = [at |-> "away", token |-> Nothing] /\ pinned' = {} /\ answer' = Nothing
        /\ form' = NewForm(EmptyCart)
        /\ UNCHANGED <<orders, wire, attempt, refused>>
    BY <1>2 DEF LeaveCheckout
  <2>2. /\ DOMAIN form' = {"cart", "details", "kind", "slot", "slots", "submit", "key"}
        /\ form' = [field \in DOMAIN form' |-> form'[field]]
        /\ form'.key = Nothing /\ form'.submit = Idle
    BY <2>1 DEF NewForm
  <2>3. Awaiting'
    BY <2>1, <2>2 DEF Awaiting, Idle
  <2> QED BY <2>1, <2>2, <2>3, DroppedHonest DEF Quiet
<1> QED BY <1>1, <1>2

LEMMA SubmitHonest ==
    ASSUME Honest, Nothing \notin Keys, Submit
    PROVE  Honest'
<1>1. /\ page.at = "checkout" /\ form.submit.kind # "submitting"
      /\ form.key = Nothing => Unused # {}
      /\ refused' = IF form.submit.kind = "price-changed"
                    THEN refused \cup {attempt} ELSE refused
      /\ UNCHANGED <<orders, page, answer, attempt>>
  BY DEF Submit, FormShown, Pending
<1>2. PICK tag \in 1 .. MaxWire :
         LET r == [tag |-> tag, key |-> HeldOrFresh(form), body |-> BodyOf(form),
                   attempt |-> attempt]
         IN  /\ wire' = wire \cup {r} /\ waiting' = r /\ pinned' = pinned \cup {r.body}
             /\ form' = [form EXCEPT !.key = r.key,
                                     !.submit = [kind |-> "submitting", total |-> 0]]
  BY DEF Submit
<1> DEFINE key == HeldOrFresh(form)
           new == [key |-> key, body |-> BodyOf(form), attempt |-> attempt]
<1>3. /\ key \in Keys
      /\ form.key # Nothing => key = form.key
      /\ form.key = Nothing => \A x \in Sent : x.key # key
  <2>1. CASE form.key # Nothing
    BY <2>1 DEF Honest, FormShape, HeldOrFresh
  <2>2. CASE form.key = Nothing
    <3>1. key \in Unused
      BY <1>1, <2>2 DEF HeldOrFresh, FreshKey
    <3> QED BY <2>2, <3>1 DEF Unused, Sent, Known
  <2> QED BY <2>1, <2>2
<1>4. Sent' = Sent \cup {new}
  BY <1>1, <1>2 DEF Sent, Known
<1>5. /\ pinned' = pinned \cup {BodyOf(form)}
      /\ DOMAIN form' = DOMAIN form /\ form' = [field \in DOMAIN form' |-> form'[field]]
      /\ form'.cart = form.cart /\ form'.details = form.details
      /\ form'.kind = form.kind /\ form'.slot = form.slot /\ form'.key = key
      /\ form'.submit.kind = "submitting" /\ waiting'.attempt = attempt
  BY <1>2 DEF Honest, FormShape
<1>6. Content(form)' = Content(form)
  BY <1>5 DEF Content
<1>7. form.submit.kind # "price-changed" => BodyOf(form) = Content(form)
  BY DEF BodyOf, Content, Displayed
<1>8. [BodyOf(form) EXCEPT !.total = 0] = [Content(form) EXCEPT !.total = 0]
  BY DEF BodyOf, Content
<1> HIDE DEF key
<1>9. FormShape' /\ SentShape' /\ OrdersShape' /\ KeyPerOrder'
  BY <1>1, <1>3, <1>4, <1>5 DEF Honest, FormShape, SentShape, OrdersShape, KeyPerOrder
<1>10. Awaiting'
  BY <1>1, <1>5 DEF Honest, Awaiting
<1>11. KeysTellApart'
  <2>1. \A x \in Sent : x.key = key => x.attempt = attempt
    BY <1>3 DEF Honest, KeysTellApart
  <2> QED BY <1>1, <1>4, <1>5, <2>1 DEF Honest, KeysTellApart
<1>12. \A x \in Sent : x.attempt = attempt /\ attempt \notin refused'
                         => x.key = key /\ x.body = new.body /\ x.body = Content(form)
  <2> SUFFICES ASSUME NEW x \in Sent, x.attempt = attempt, attempt \notin refused'
               PROVE  x.key = key /\ x.body = new.body /\ x.body = Content(form)
    OBVIOUS
  <2>1. attempt \notin refused /\ form.submit.kind # "price-changed"
    BY <1>1
  <2>2. x.key = form.key /\ x.body = Content(form)
    BY <1>1, <2>1 DEF Honest, FormAgrees
  <2>3. form.key # Nothing
    BY <2>2 DEF Honest, SentShape
  <2> QED BY <1>3, <1>7, <2>1, <2>2, <2>3
<1>13. attempt \notin refused' => new.body = Content(form)
  BY <1>1, <1>7
<1>14. OneStory'
  BY <1>1, <1>4, <1>12 DEF Honest, OneStory
<1>15. FormAgrees'
  BY <1>1, <1>4, <1>5, <1>6, <1>12, <1>13 DEF FormAgrees
<1>16. Pins'
  BY <1>3, <1>5, <1>6, <1>8 DEF Honest, Pins
<1> QED BY <1>1, <1>9, <1>10, <1>11, <1>14, <1>15, <1>16 DEF Honest

LEMMA HandleHonest ==
    ASSUME Honest, NEW r \in wire, Handle(r)
    PROVE  Honest'
<1>1. /\ wire' = wire \ {r}
      /\ answer' = IF form.submit.kind = "submitting" /\ waiting = r
                   THEN Refused(Verdict(r), PricedTotal(shop.catalog, r.body.lines))
                   ELSE answer
      /\ UNCHANGED <<page, form, waiting, attempt, refused, pinned>>
  BY DEF Handle
<1>2. Known(r) \in Sent
  BY DEF Sent
<1>3. Awaiting'
  <2>1. /\ Verdict(r) \in {"gone", "replayed", "key-reused", "paused", "stale",
                            "price-changed", "slot-unavailable", "created"}
        /\ Verdict(r) = "key-reused" => \E i \in Ordered(r.key) : orders[i].body # r.body
    BY DEF Verdict
  <2>2. ASSUME Verdict(r) = "key-reused" PROVE r.attempt \in refused
    <3>1. PICK i \in DOMAIN orders : orders[i].key = r.key /\ orders[i].body # r.body
      BY <2>1, <2>2 DEF Ordered
    <3>2. Known(orders[i]) \in Sent
      BY DEF Sent
    <3>3. orders[i].attempt = r.attempt
      BY <1>2, <3>1, <3>2 DEF Honest, KeysTellApart, Known
    <3> QED BY <1>2, <3>1, <3>2, <3>3 DEF Honest, OneStory, Known
  <2>3. CASE form.submit.kind = "submitting" /\ waiting = r
    BY <1>1, <2>1, <2>2, <2>3 DEF Honest, Awaiting, Refused
  <2>4. CASE ~(form.submit.kind = "submitting" /\ waiting = r)
    BY <1>1, <2>4 DEF Honest, Awaiting
  <2> QED BY <2>3, <2>4
<1>4. CASE Verdict(r) # "created"
  <2>1. Quiet /\ SameForm
    BY <1>1, <1>4 DEF Handle, Quiet, SameForm, Honest, FormShape
  <2> QED BY <1>1, <1>3, <2>1, SameFormHonest
<1>5. CASE Verdict(r) = "created"
  <2> DEFINE order == [key |-> r.key, body |-> r.body, attempt |-> r.attempt]
  <2>1. PICK n \in Nat : DOMAIN orders = 1 .. n /\ orders = [i \in 1 .. n |-> orders[i]]
    BY DEF Honest, OrdersShape
  <2>2. orders' = Append(orders, order)
    BY <1>5 DEF Handle
  <2>3. /\ DOMAIN orders' = 1 .. (n + 1) /\ orders' = [i \in 1 .. (n + 1) |-> orders'[i]]
        /\ \A i \in 1 .. n : orders'[i] = orders[i]
        /\ orders'[n + 1] = order
    <3> DEFINE S == {orders[i] : i \in 1 .. n} \cup {order}
    <3>1. orders \in [1 .. n -> S]
      BY <2>1
    <3>2. orders \in Seq(S) /\ order \in S
      BY <3>1, SeqDef
    <3>3. Len(orders) = n
      BY <2>1, <3>2, LenProperties
    <3> HIDE DEF S, order
    <3>4. /\ Append(orders, order) \in Seq(S)
          /\ Len(Append(orders, order)) = n + 1
          /\ \A i \in 1 .. n : Append(orders, order)[i] = orders[i]
          /\ Append(orders, order)[n + 1] = order
      BY <3>2, <3>3, AppendProperties
    <3> QED BY <2>2, <3>4, LenProperties
  <2>4. Known(order) = Known(r)
    BY DEF Known
  <2> HIDE DEF order
  <2>5. Sent' \subseteq Sent
    <3>1. ASSUME NEW i \in DOMAIN orders' PROVE Known(orders'[i]) \in Sent
      BY <1>2, <2>1, <2>3, <2>4 DEF Sent
    <3> QED BY <1>1, <3>1 DEF Sent, Known
  <2>6. \A i \in 1 .. n : orders[i].key # order.key
    <3>1. Ordered(r.key) = {}
      BY <1>5 DEF Verdict
    <3> QED BY <2>1, <3>1 DEF Ordered, order
  <2>7. OrdersShape' /\ KeyPerOrder'
    <3>1. OrdersShape'
      BY <2>3 DEF OrdersShape
    <3>2. ASSUME NEW i \in DOMAIN orders', NEW j \in DOMAIN orders',
                 orders'[i].key = orders'[j].key
          PROVE  i = j
      BY <2>1, <2>3, <2>6, <3>2 DEF Honest, KeyPerOrder
    <3> QED BY <3>1, <3>2 DEF KeyPerOrder
  <2>8. Content(form)' = Content(form)
    BY <1>1 DEF Content
  <2>9. FormShape' /\ SentShape' /\ Pins'
    BY <1>1, <2>5, <2>8 DEF Honest, FormShape, SentShape, Pins
  <2>10. KeysTellApart' /\ OneStory' /\ FormAgrees'
    BY <1>1, <2>5, <2>8 DEF Honest, KeysTellApart, OneStory, FormAgrees
  <2> QED BY <1>1, <1>3, <2>7, <2>9, <2>10 DEF Honest
<1> QED BY <1>4, <1>5

LEMMA AnswerHonest ==
    ASSUME Honest, Nothing \notin Keys, ReceiveAnswer
    PROVE  Honest'
<1>1. /\ answer # Nothing /\ answer' = Nothing
      /\ UNCHANGED <<orders, wire, attempt>>
  BY DEF ReceiveAnswer
<1>2. /\ form.submit.kind = "submitting" /\ page.at = "checkout"
      /\ waiting.attempt # attempt => form.key = Nothing
      /\ answer.kind \in {"gone", "replayed", "key-reused", "paused", "stale",
                          "price-changed", "slot-unavailable", "created"}
      /\ answer.kind = "key-reused" => waiting.attempt \in refused
  BY <1>1 DEF Honest, Awaiting
<1>3. CASE answer.kind \in {"created", "replayed"}
  <2>1. /\ page'.at = "track" /\ form' = NewForm(EmptyCart) /\ pinned' = {} /\ refused' = refused
    BY <1>3 DEF ReceiveAnswer
  <2>2. /\ DOMAIN form' = {"cart", "details", "kind", "slot", "slots", "submit", "key"}
        /\ form' = [field \in DOMAIN form' |-> form'[field]]
        /\ form'.key = Nothing /\ form'.submit = Idle
    BY <2>1 DEF NewForm
  <2>3. Awaiting'
    BY <1>1, <2>2 DEF Awaiting, Idle
  <2> QED BY <1>1, <2>1, <2>2, <2>3, DroppedHonest DEF Quiet
<1>4. ASSUME answer.kind \notin {"created", "replayed"}
      PROVE  /\ refused \subseteq refused' /\ page' = page
             /\ pinned' = IF form'.key = Nothing THEN {} ELSE pinned
             /\ answer.kind \in {"stale", "price-changed", "slot-unavailable"}
                   => waiting.attempt \in refused'
  BY <1>4 DEF ReceiveAnswer
<1>5. CASE answer.kind \in {"stale", "key-reused", "price-changed", "slot-unavailable"}
  <2>1. \E total : \E kind \in {"stale", "key-reused", "price-changed", "refreshing"} :
           \/ form' = Drop(Show(kind, total))
           \/ form' = [Drop(Show(kind, total)) EXCEPT !.slot = Nothing]
    BY <1>5 DEF ReceiveAnswer, ShowRefusal
  <2>2. /\ DOMAIN form' = {"cart", "details", "kind", "slot", "slots", "submit", "key"}
        /\ form' = [field \in DOMAIN form' |-> form'[field]]
        /\ form'.key = Nothing /\ form'.submit.kind # "submitting"
    <3>1. PICK total : \E kind \in {"stale", "key-reused", "price-changed", "refreshing"} :
             \/ form' = Drop(Show(kind, total))
             \/ form' = [Drop(Show(kind, total)) EXCEPT !.slot = Nothing]
      BY <2>1
    <3>2. PICK kind \in {"stale", "key-reused", "price-changed", "refreshing"} :
             \/ form' = Drop(Show(kind, total))
             \/ form' = [Drop(Show(kind, total)) EXCEPT !.slot = Nothing]
      BY <3>1
    <3>3. DOMAIN form = {"cart", "details", "kind", "slot", "slots", "submit", "key"}
      BY DEF Honest, FormShape
    <3>4. CASE form' = Drop(Show(kind, total))
      BY <3>3, <3>4 DEF Drop, Show
    <3>5. CASE form' = [Drop(Show(kind, total)) EXCEPT !.slot = Nothing]
      BY <3>3, <3>5 DEF Drop, Show
    <3> QED BY <3>2, <3>4, <3>5
  <2>3. Awaiting'
    BY <1>1, <2>2 DEF Awaiting
  <2>4. attempt \in refused' \/ form.key = Nothing
    BY <1>2, <1>4, <1>5
  <2> QED BY <1>1, <1>4, <1>5, <2>2, <2>3, <2>4, DroppedHonest DEF Quiet
<1>6. CASE answer.kind \in {"paused", "gone"}
  <2>1. form' = Show(answer.kind, 0)
    BY <1>6 DEF ReceiveAnswer
  <2>2. SameForm /\ form'.submit.kind # "submitting"
    BY <1>6, <2>1 DEF Show, SameForm, Honest, FormShape
  <2>3. Awaiting'
    BY <1>1, <2>2 DEF Awaiting
  <2>4. pinned' = pinned
    BY <1>4, <1>6, <2>2 DEF SameForm, Honest, Pins
  <2> QED BY <1>1, <1>4, <1>6, <2>2, <2>3, <2>4, SameFormHonest DEF Quiet
<1> QED BY <1>2, <1>3, <1>5, <1>6

LEMMA FailureHonest ==
    ASSUME Honest, LoseConnection
    PROVE  Honest'
<1>1. /\ form' = Show("failed", 0) /\ answer' = Nothing /\ wire' \subseteq wire
      /\ UNCHANGED <<orders, page, attempt, refused, pinned>>
  BY DEF LoseConnection
<1>2. SameForm /\ form'.submit.kind # "submitting"
  BY <1>1 DEF Show, SameForm, Honest, FormShape
<1>3. Awaiting'
  BY <1>1, <1>2 DEF Awaiting
<1> QED BY <1>1, <1>2, <1>3, SameFormHonest DEF Quiet

LEMMA RefreshHonest ==
    ASSUME Honest, RefreshSlots
    PROVE  Honest'
<1>1. /\ form.submit.kind = "refreshing"
      /\ UNCHANGED <<orders, page, wire, waiting, answer, attempt, refused, pinned>>
  BY DEF RefreshSlots
<1>2. PICK listed : form' = [Show("slot-unavailable", 0) EXCEPT !.slots = listed]
  BY DEF RefreshSlots
<1>3. SameForm /\ form'.submit.kind # "submitting"
  BY <1>2 DEF Show, SameForm, Honest, FormShape
<1>4. Awaiting'
  BY <1>1, <1>3 DEF Honest, Awaiting
<1> QED BY <1>1, <1>3, <1>4, SameFormHonest DEF Quiet

LEMMA RestHonest ==
    ASSUME Honest, UNCHANGED <<orders, page, form, wire, waiting, answer, attempt, refused, pinned>>
    PROVE  Honest'
<1>1. Awaiting'
  BY DEF Honest, Awaiting
<1>2. Quiet /\ SameForm
  BY DEF Honest, FormShape, Quiet, SameForm
<1> QED BY <1>1, <1>2, SameFormHonest

LEMMA NextHonest ==
    ASSUME Honest, [CheckoutNext]_checkoutVars
    PROVE  Honest'
<1>1. Nothing \notin Keys
  BY CheckoutConstants
<1>2. CASE \E i \in Items : AddFromMenu(i)
  BY <1>2, RestHonest DEF AddFromMenu
<1>3. CASE ChangeShop
  BY <1>3, RestHonest DEF ChangeShop
<1>4. CASE UNCHANGED checkoutVars
  BY <1>4, RestHonest DEF checkoutVars
<1> QED
  BY <1>1, <1>2, <1>3, <1>4, EditsHonest, VisitsHonest, SubmitHonest, HandleHonest,
     AnswerHonest, FailureHonest, RefreshHonest DEF CheckoutNext

LEMMA InitHonest ==
    ASSUME CheckoutInit PROVE Honest
<1>1. /\ Sent = {} /\ OrdersShape /\ KeyPerOrder
  BY DEF CheckoutInit, Sent, OrdersShape, KeyPerOrder
<1>2. /\ FormShape /\ form.key = Nothing /\ form.submit.kind = "idle"
  BY DEF CheckoutInit, NewForm, FormShape, Idle
<1> QED
  BY <1>1, <1>2 DEF CheckoutInit, Honest, SentShape, Awaiting, KeysTellApart, OneStory,
                    FormAgrees, Pins

-----------------------------------------------------------------------------
(* The theorems.                                                            *)

(* Whatever is lost, retried, edited meanwhile or changed by the restaurant, *)
(* a content that no refusal spoke against becomes at most one order.       *)
THEOREM RetriesAreSafe == CheckoutSpec => []RetryIsSafe
<1>1. CheckoutInit => Honest
  BY InitHonest
<1>2. Honest /\ [CheckoutNext]_checkoutVars => Honest'
  BY NextHonest
<1>3. Honest => RetryIsSafe
  BY HonestIsSafe
<1> QED BY <1>1, <1>2, <1>3, PTL DEF CheckoutSpec

(* Every path that changes the content drops the key it was submitted under. *)
THEOREM KeysPinContents == CheckoutSpec => []HeldKeyPinsContent
<1>1. CheckoutInit => Honest
  BY InitHonest
<1>2. Honest /\ [CheckoutNext]_checkoutVars => Honest'
  BY NextHonest
<1>3. Honest => HeldKeyPinsContent
  BY HonestIsPinned
<1> QED BY <1>1, <1>2, <1>3, PTL DEF CheckoutSpec

-----------------------------------------------------------------------------
(* The checkout among the other pages.                                       *)

LEMMA CheckoutSteps == [CustomerNext]_customerVars => [CheckoutNext]_checkoutVars
BY DEF CustomerNext, Shops, ChecksOut, Tracks, OnBoard, Lists, OnNotices, OnServer,
       customerVars, browserVars

(* A submission that no refusal spoke against becomes at most one order,     *)
(* whatever is lost (CheckoutForm.tsx).                                      *)
THEOREM RetriesStaySafe == CustomerSpec => []RetryIsSafe
<1>1. CustomerInit => CheckoutInit
  BY DEF CustomerInit
<1> QED BY <1>1, CheckoutSteps, RetriesAreSafe, PTL DEF CustomerSpec, CheckoutSpec

(* Whatever changes what the form would submit drops the key it is submitted *)
(* under (CheckoutForm.tsx).                                                 *)
THEOREM KeysStayPinned == CustomerSpec => []HeldKeyPinsContent
<1>1. CustomerInit => CheckoutInit
  BY DEF CustomerInit
<1> QED BY <1>1, CheckoutSteps, KeysPinContents, PTL DEF CustomerSpec, CheckoutSpec

-----------------------------------------------------------------------------
(* The menu page (Cart, Shopping): what its folds compute.                   *)

LEMMA UnitPriceType ==
    ASSUME NEW facts \in ItemFacts, NEW chosen \in SUBSET Options
    PROVE  UnitPrice(facts, chosen) \in Nat
<1> DEFINE pick == [s \in SUBSET chosen |-> CHOOSE o \in s : TRUE]
           plus == [p \in chosen \X Nat |-> p[2] + facts.delta[p[1]]]
           Sums(f) == f = [s \in SUBSET chosen |->
                              IF s = {} THEN facts.price
                              ELSE LET o == CHOOSE o \in s : TRUE
                                   IN  f[s \ {o}] + facts.delta[o]]
<1>1. IsFiniteSet(chosen) /\ facts.price \in Nat /\ \A o \in chosen : facts.delta[o] \in Nat
  BY CartConstants, FS_Subset DEF ItemFacts
<1>2. \A s \in SUBSET chosen : s # {} => pick[s] \in s
  OBVIOUS
<1>3. plus \in [chosen \X Nat -> Nat]
  BY <1>1
<1>4. PICK f \in [SUBSET chosen -> Nat] : Folds(f, chosen, facts.price, pick, plus)
  <2> HIDE DEF pick, plus
  <2> QED BY <1>1, <1>2, <1>3, FoldExists
<1>5. \A s \in SUBSET chosen : s # {} =>
          f[s] = f[s \ {CHOOSE o \in s : TRUE}] + facts.delta[CHOOSE o \in s : TRUE]
  BY <1>2, <1>4 DEF Folds
<1>6. Sums(f)
  BY <1>4, <1>5 DEF Folds
<1> DEFINE F == CHOOSE g : Sums(g)
<1>7. UnitPrice(facts, chosen) = F[chosen]
  BY Zenon DEF UnitPrice, FoldSet, MapThenFoldSet
<1>8. Sums(F)
  <2> HIDE DEF Sums
  <2> QED BY <1>6
<1> DEFINE Good == {s \in SUBSET chosen : F[s] \in Nat}
<1>9. SUBSET chosen \subseteq Good
  <2> HIDE DEF F
  <2>1. {} \in Good
    BY <1>1, <1>8
  <2>2. ASSUME NEW s \in SUBSET chosen, s # {}
        PROVE  \E o \in s : s \ {o} \in Good => s \in Good
    <3> DEFINE o == CHOOSE o \in s : TRUE
    <3>1. o \in s
      BY <2>2
    <3>2. F[s] = F[s \ {o}] + facts.delta[o]
      BY <1>8, <2>2
    <3>3. s \ {o} \in Good => s \in Good
      BY <1>1, <3>1, <3>2
    <3> HIDE DEF o, Good
    <3> QED BY <3>1, <3>3
  <2> HIDE DEF Good
  <2> QED BY <1>1, <2>1, <2>2, SubsetInduction
<1> QED BY <1>7, <1>9

LEMMA CartShape ==
    ASSUME NEW lines, IsCart(lines)
    PROVE  /\ Len(lines) \in Nat /\ DOMAIN lines = 1 .. Len(lines) /\ Len(lines) <= MaxLines
           /\ \A i \in DOMAIN lines :
                /\ lines[i] \in Line /\ lines[i].choice \in Choice /\ lines[i].unit \in Nat
                /\ lines[i].quantity \in 1 .. MaxQuantity
<1>1. \A i \in DOMAIN lines : lines[i] \in Line
  BY DEF IsCart
<1> QED BY <1>1 DEF IsCart, Line

\* The folds of the cart are sums of what its lines weigh.
LEMMA CartFolds ==
    ASSUME NEW lines, NEW n \in Nat, DOMAIN lines = 1 .. n
    PROVE  /\ CartItemCount(lines) = SumOf([i \in 1 .. n |-> lines[i].quantity])
           /\ CartTotal(lines) = SumOf([i \in 1 .. n |-> lines[i].unit * lines[i].quantity])
<1> DEFINE D == 1 .. n
           counts == [i \in D |-> lines[i].quantity]
           prices == [i \in D |-> lines[i].unit * lines[i].quantity]
<1>1. \A s \in SUBSET D : s # {} => Max(s) \in D
  BY MaxOfPositions
<1>2. CartItemCount(lines) = SumOf(counts)
  <2> DEFINE Step(f, s) == IF s = {} THEN 0 ELSE LET i == Max(s) IN f[s \ {i}] + lines[i].quantity
  <2>1. CartItemCount(lines) = (CHOOSE f : f = [s \in SUBSET D |-> Step(f, s)])[D]
    BY Zenon DEF CartItemCount, FoldLeft, MapThenFoldSet
  <2>2. SumOf(counts) = (CHOOSE f : f = [s \in SUBSET D |-> SumStep(f, counts, s)])[D]
    BY Zenon DEF SumOf
  <2>3. \A f : [s \in SUBSET D |-> Step(f, s)] = [s \in SUBSET D |-> SumStep(f, counts, s)]
    <3>1. \A f : \A s \in SUBSET D : Step(f, s) = SumStep(f, counts, s)
      BY <1>1 DEF SumStep
    <3> HIDE DEF Step, D
    <3> QED BY <3>1
  <2>4. (CHOOSE f : f = [s \in SUBSET D |-> Step(f, s)])
          = (CHOOSE f : f = [s \in SUBSET D |-> SumStep(f, counts, s)])
    <3> HIDE DEF Step, D, counts
    <3> QED BY <2>3
  <2> QED BY <2>1, <2>2, <2>4
<1>3. CartTotal(lines) = SumOf(prices)
  <2> DEFINE Step(f, s) == IF s = {} THEN 0
                           ELSE LET i == Max(s) IN f[s \ {i}] + lines[i].unit * lines[i].quantity
  <2>1. CartTotal(lines) = (CHOOSE f : f = [s \in SUBSET D |-> Step(f, s)])[D]
    BY Zenon DEF CartTotal, FoldLeft, MapThenFoldSet
  <2>2. SumOf(prices) = (CHOOSE f : f = [s \in SUBSET D |-> SumStep(f, prices, s)])[D]
    BY Zenon DEF SumOf
  <2>3. \A f : [s \in SUBSET D |-> Step(f, s)] = [s \in SUBSET D |-> SumStep(f, prices, s)]
    <3>1. \A f : \A s \in SUBSET D : Step(f, s) = SumStep(f, prices, s)
      BY <1>1 DEF SumStep
    <3> HIDE DEF Step, D
    <3> QED BY <3>1
  <2>4. (CHOOSE f : f = [s \in SUBSET D |-> Step(f, s)])
          = (CHOOSE f : f = [s \in SUBSET D |-> SumStep(f, prices, s)])
    <3> HIDE DEF Step, D, prices
    <3> QED BY <2>3
  <2> QED BY <2>1, <2>2, <2>4
<1> QED BY <1>2, <1>3

LEMMA PricedFold ==
    ASSUME NEW m, NEW placed, NEW n \in Nat, DOMAIN placed = 1 .. n
    PROVE  PricedTotal(m, placed)
             = SumOf([i \in 1 .. n |->
                        UnitPrice(m[placed[i].choice.item], placed[i].choice.options) * placed[i].quantity])
<1> DEFINE D == 1 .. n
           Weight(i) == UnitPrice(m[placed[i].choice.item], placed[i].choice.options) * placed[i].quantity
           prices == [i \in D |-> Weight(i)]
           Step(f, s) == IF s = {} THEN 0 ELSE LET i == Max(s) IN f[s \ {i}] + Weight(i)
<1>1. \A s \in SUBSET D : s # {} => Max(s) \in D
  BY MaxOfPositions
<1>2. PricedTotal(m, placed) = (CHOOSE f : f = [s \in SUBSET D |-> Step(f, s)])[D]
  BY Zenon DEF PricedTotal, FoldLeft, MapThenFoldSet
<1>3. SumOf(prices) = (CHOOSE f : f = [s \in SUBSET D |-> SumStep(f, prices, s)])[D]
  BY Zenon DEF SumOf
<1>4. \A f : [s \in SUBSET D |-> Step(f, s)] = [s \in SUBSET D |-> SumStep(f, prices, s)]
  <2> HIDE DEF Weight
  <2>1. \A f : \A s \in SUBSET D : Step(f, s) = SumStep(f, prices, s)
    BY <1>1 DEF SumStep
  <2> HIDE DEF Step, D
  <2> QED BY <2>1
<1>5. (CHOOSE f : f = [s \in SUBSET D |-> Step(f, s)])
        = (CHOOSE f : f = [s \in SUBSET D |-> SumStep(f, prices, s)])
  <2> HIDE DEF Step, D, prices
  <2> QED BY <1>4
<1> QED BY <1>2, <1>3, <1>5

LEMMA CartSums ==
    ASSUME NEW lines, IsCart(lines)
    PROVE  /\ CartItemCount(lines) \in 0 .. MaxLines * MaxQuantity
           /\ CartTotal(lines) \in Nat
<1> DEFINE n == Len(lines)
           counts == [i \in 1 .. n |-> lines[i].quantity]
           prices == [i \in 1 .. n |-> lines[i].unit * lines[i].quantity]
<1>1. /\ n \in Nat /\ DOMAIN lines = 1 .. n /\ n <= MaxLines
      /\ \A i \in 1 .. n : lines[i].quantity \in 1 .. MaxQuantity /\ lines[i].unit \in Nat
  BY CartShape
<1>2. \A i \in 1 .. n : counts[i] \in 0 .. MaxQuantity /\ prices[i] \in Nat
  BY <1>1, CartConstants
<1>3. SumOf(counts) \in 0 .. n * MaxQuantity
  <2>1. DOMAIN counts = 1 .. n
    OBVIOUS
  <2> HIDE DEF counts, n
  <2> QED BY <1>1, <1>2, <2>1, SumIsBounded, CartConstants
<1>4. SumOf(prices) \in Nat
  <2>1. DOMAIN prices = 1 .. n
    OBVIOUS
  <2> HIDE DEF prices, n
  <2> QED BY <1>1, <1>2, <2>1, SumIsNatural
<1>5. n * MaxQuantity <= MaxLines * MaxQuantity
  BY <1>1, CartConstants
<1>6. CartItemCount(lines) = SumOf(counts) /\ CartTotal(lines) = SumOf(prices)
  BY <1>1, CartFolds
<1> HIDE DEF counts, prices, n
<1> QED BY <1>1, <1>3, <1>4, <1>5, <1>6, CartConstants

LEMMA PricedTotalType ==
    ASSUME NEW m \in [Items -> ItemFacts],
           NEW placed \in Seq([choice : Choice, quantity : 1 .. MaxQuantity])
    PROVE  PricedTotal(m, placed) \in Nat
<1> DEFINE n == Len(placed)
           prices == [i \in 1 .. n |->
                        UnitPrice(m[placed[i].choice.item], placed[i].choice.options) * placed[i].quantity]
<1>1. /\ n \in Nat /\ DOMAIN placed = 1 .. n
      /\ \A i \in 1 .. n : placed[i].choice \in Choice /\ placed[i].quantity \in Nat
  <2> DEFINE P == [choice : Choice, quantity : 1 .. MaxQuantity]
  <2>1. n \in Nat /\ DOMAIN placed = 1 .. n /\ \A i \in 1 .. n : placed[i] \in P
    <3>1. placed \in Seq(P)
      OBVIOUS
    <3> HIDE DEF P
    <3> QED BY <3>1
  <2> QED BY <2>1, CartConstants
<1>2. \A i \in 1 .. n : UnitPrice(m[placed[i].choice.item], placed[i].choice.options) \in Nat
  <2> TAKE i \in 1 .. n
  <2>1. m[placed[i].choice.item] \in ItemFacts /\ placed[i].choice.options \in SUBSET Options
    BY <1>1 DEF Choice
  <2> QED BY <2>1, UnitPriceType
<1>3. DOMAIN prices = 1 .. n /\ \A i \in 1 .. n : prices[i] \in Nat
  BY <1>1, <1>2
<1>4. SumOf(prices) \in Nat
  <2> HIDE DEF prices, n
  <2> QED BY <1>1, <1>3, SumIsNatural
<1> QED BY <1>1, <1>4, PricedFold

\* A line that joins a cart is a line of it, or has gone into one of the same
\* choice, which keeps its price; the other lines stay.
LEMMA AddLineKeeps ==
    ASSUME NEW lines, IsCart(lines), NEW line \in Line
    PROVE  /\ IsCart(AddLine(lines, line))
           /\ \A i \in DOMAIN AddLine(lines, line) :
                \/ AddLine(lines, line)[i] = line
                \/ i \in DOMAIN lines /\ AddLine(lines, line)[i].choice = lines[i].choice
                                      /\ AddLine(lines, line)[i].unit = lines[i].unit
<1> DEFINE added == AddLine(lines, line)
           same == SameChoice(lines, line)
<1>1. CASE same # {}
  <2> DEFINE i == CHOOSE j \in same : \A k \in same : j <= k
             sum == Smaller(lines[i].quantity + line.quantity, MaxQuantity)
  <2>1. i \in DOMAIN lines
    <3>1. same \subseteq Nat
      BY CartShape DEF SameChoice
    <3>2. \E j \in same : \A k \in same : j <= k
      <4> HIDE DEF same
      <4> QED BY <1>1, <3>1, LeastNumber
    <3>3. i \in same
      <4> HIDE DEF same
      <4> QED BY <3>2
    <3> QED BY <3>3 DEF SameChoice
  <2>2. added = [lines EXCEPT ![i].quantity = sum]
    BY <1>1 DEF AddLine
  <2>3. sum \in 1 .. MaxQuantity
    <3> HIDE DEF i
    <3> QED BY <2>1, CartShape, CartConstants DEF Smaller, Line
  <2> HIDE DEF i, sum, added
  <2>4. /\ lines \in Seq(Line) /\ Len(lines) <= MaxLines /\ lines[i] \in Line
        /\ DOMAIN lines = 1 .. Len(lines)
    BY <2>1, CartShape DEF IsCart
  <2>5. [lines[i] EXCEPT !.quantity = sum] \in Line
    BY <2>3, <2>4 DEF Line
  <2>6. added = [lines EXCEPT ![i] = [lines[i] EXCEPT !.quantity = sum]]
    BY <2>2
  <2>7. added \in Seq(Line) /\ Len(added) = Len(lines) /\ DOMAIN added = DOMAIN lines
    BY <2>1, <2>4, <2>5, <2>6, ExceptSeq
  <2>8. \A k \in DOMAIN lines : added[k].choice = lines[k].choice /\ added[k].unit = lines[k].unit
    BY <2>1, <2>4, <2>6, CartShape DEF Line
  <2> QED BY <2>4, <2>7, <2>8 DEF IsCart, added
<1>2. CASE same = {} /\ Len(lines) < MaxLines
  <2>1. added = Append(lines, line)
    BY <1>2 DEF AddLine
  <2>2. lines \in Seq(Line)
    BY DEF IsCart
  <2> QED BY <1>2, <2>1, <2>2, CartConstants DEF IsCart
<1>3. CASE same = {} /\ ~(Len(lines) < MaxLines)
  BY <1>3 DEF AddLine
<1> QED BY <1>1, <1>2, <1>3

\* The server makes of the placement the total of the cart, if it makes of every
\* line the price the cart has.
LEMMA SameTotal ==
    ASSUME NEW m, NEW lines, IsCart(lines),
           \A i \in DOMAIN lines :
              lines[i].unit = UnitPrice(m[lines[i].choice.item], lines[i].choice.options)
    PROVE  CartTotal(lines) = PricedTotal(m, PlacementLines(lines))
<1> DEFINE n == Len(lines)
           placed == PlacementLines(lines)
<1>1. n \in Nat /\ DOMAIN lines = 1 .. n
  BY CartShape
<1>2. /\ DOMAIN placed = 1 .. n
      /\ \A i \in 1 .. n : placed[i].choice = lines[i].choice /\ placed[i].quantity = lines[i].quantity
  BY <1>1 DEF PlacementLines
<1>3. PricedTotal(m, placed)
        = SumOf([i \in 1 .. n |->
                   UnitPrice(m[placed[i].choice.item], placed[i].choice.options) * placed[i].quantity])
  <2> HIDE DEF placed, n
  <2> QED BY <1>1, <1>2, PricedFold
<1>4. CartTotal(lines) = SumOf([i \in 1 .. n |-> lines[i].unit * lines[i].quantity])
  BY <1>1, CartFolds
<1>5. [i \in 1 .. n |-> UnitPrice(m[placed[i].choice.item], placed[i].choice.options) * placed[i].quantity]
        = [i \in 1 .. n |-> lines[i].unit * lines[i].quantity]
  <2> HIDE DEF placed, n
  <2> QED BY <1>1, <1>2
<1> QED BY <1>3, <1>4, <1>5

-----------------------------------------------------------------------------
(* What the picker composes from a menu, the server takes from that menu.    *)

Offered(facts) == UNION {g.open : g \in ShownGroups(facts)}

SoundLine(m, line) ==
    LET facts == m[line.choice.item]
        chosen == line.choice.options
    IN  /\ Orderable(facts)
        /\ chosen \subseteq Offered(facts)
        /\ \A g \in ShownGroups(facts) : GroupSatisfied(g, chosen)
        /\ line.unit = UnitPrice(facts, chosen)

LEMMA SoundLinesHaveNoProblems ==
    ASSUME NEW m \in Menus, NEW line, line.choice \in Choice, SoundLine(m, line),
           NEW placed, placed.choice = line.choice
    PROVE  LineProblems(m, placed) = {}
<1> DEFINE facts == m[line.choice.item]
           chosen == line.choice.options
<1>1. /\ facts \in ItemFacts /\ chosen \in SUBSET Options
      /\ \A g \in facts.groups : /\ g \in Group /\ g.open \subseteq g.options
                                 /\ \A h \in facts.groups \ {g} : g.options \cap h.options = {}
  <2>1. line.choice.item \in Items /\ chosen \in SUBSET Options
    BY DEF Choice
  <2>2. facts \in ItemFacts
    BY <2>1, ShoppingConstants
  <2>3. facts.groups \subseteq Group
    BY <2>2 DEF ItemFacts
  <2> QED BY <2>1, <2>2, <2>3, ShoppingConstants
<1>2. /\ Orderable(facts) /\ chosen \subseteq Offered(facts)
      /\ \A g \in ShownGroups(facts) : GroupSatisfied(g, chosen)
  BY DEF SoundLine
<1> HIDE DEF facts, chosen
<1>3. chosen \subseteq OpenOptions(facts)
  BY <1>2 DEF Offered, OpenOptions, ShownGroups
<1>4. ASSUME NEW g \in facts.groups
      PROVE  LET count == Cardinality(chosen \cap g.options)
             IN  ~(count < g.min \/ ~WithinMax(g, count))
  <2>1. g.min \in Nat /\ g.max \in Nat
    BY <1>1, <1>4 DEF Group
  <2>2. CASE Satisfiable(g)
    <3>1. g \in ShownGroups(facts)
      BY <1>4, <2>2 DEF ShownGroups
    <3>2. chosen \cap g.options \subseteq g.open
      <4> SUFFICES ASSUME NEW o \in chosen \cap g.options PROVE o \in g.open
        OBVIOUS
      <4>1. PICK h \in ShownGroups(facts) : o \in h.open
        BY <1>2 DEF Offered
      <4>2. h \in facts.groups /\ o \in h.options
        BY <1>1, <4>1 DEF ShownGroups
      <4>3. h = g
        BY <1>1, <1>4, <4>2
      <4> QED BY <4>1, <4>3
    <3>3. chosen \cap g.options = chosen \cap g.open
      BY <1>1, <1>4, <3>2
    <3>4. Cardinality(chosen \cap g.open) \in Nat
      BY <1>1, CartConstants, FS_Subset, FS_CardinalityType
    <3>5. GroupSatisfied(g, chosen)
      BY <1>2, <3>1
    <3> QED BY <2>1, <3>3, <3>4, <3>5 DEF GroupSatisfied
  <2>3. CASE ~Satisfiable(g)
    <3>1. g.min = 0
      BY <1>2, <1>4, <2>1, <2>3 DEF Orderable
    <3>2. chosen \cap g.options = {}
      <4> SUFFICES ASSUME NEW o \in chosen \cap g.options PROVE FALSE
        OBVIOUS
      <4>1. PICK h \in ShownGroups(facts) : o \in h.open
        BY <1>2 DEF Offered
      <4>2. h \in facts.groups /\ o \in h.options /\ Satisfiable(h)
        BY <1>1, <4>1 DEF ShownGroups
      <4>3. h = g
        BY <1>1, <1>4, <4>2
      <4> QED BY <2>3, <4>2, <4>3
    <3>3. Cardinality(chosen \cap g.options) = 0
      BY <3>2, FS_EmptySet
    <3> QED BY <2>1, <3>1, <3>3 DEF WithinMax
  <2> QED BY <2>2, <2>3
<1>5. facts.visible /\ facts.available
  BY <1>2 DEF Orderable
<1>6. LineProblems(m, placed) =
        IF ~facts.visible THEN {"item_unknown"}
        ELSE IF ~facts.available THEN {"item_unavailable"}
        ELSE IF ~Orderable(facts) THEN {"item_not_orderable"}
        ELSE IF ~chosen \subseteq OpenOptions(facts)
             THEN {IF o \in OptionsOf(facts) THEN "option_unavailable" ELSE "option_unknown" :
                      o \in chosen \ OpenOptions(facts)}
        ELSE IF \E g \in facts.groups :
                    LET count == Cardinality(chosen \cap g.options)
                    IN  count < g.min \/ ~WithinMax(g, count)
             THEN {"selection_rule"}
        ELSE {}
  BY DEF LineProblems, facts, chosen
<1>7. ~\E g \in facts.groups :
          LET count == Cardinality(chosen \cap g.options)
          IN  count < g.min \/ ~WithinMax(g, count)
  BY <1>4
<1> QED BY <1>2, <1>3, <1>5, <1>6, <1>7

LEMMA CartEditsKeep ==
    ASSUME NEW lines, IsCart(lines), NEW i \in DOMAIN lines
    PROVE  /\ \A quantity \in 1 .. MaxQuantity : IsCart(SetLineQuantity(lines, i, quantity))
           /\ IsCart(RemoveLine(lines, i))
<1>1. /\ lines \in Seq(Line) /\ Len(lines) \in Nat /\ Len(lines) <= MaxLines
      /\ i \in 1 .. Len(lines) /\ lines[i] \in Line
  BY CartShape DEF IsCart
<1>2. ASSUME NEW quantity \in 1 .. MaxQuantity
      PROVE  IsCart(SetLineQuantity(lines, i, quantity))
  <2>1. [lines[i] EXCEPT !.quantity = quantity] \in Line
    BY <1>1 DEF Line
  <2>2. SetLineQuantity(lines, i, quantity) = [lines EXCEPT ![i] = [lines[i] EXCEPT !.quantity = quantity]]
    BY <1>1 DEF SetLineQuantity
  <2> QED BY <1>1, <2>1, <2>2, ExceptSeq DEF IsCart
<1>3. IsCart(RemoveLine(lines, i))
  BY <1>1, RemoveAtKeeps, CartConstants DEF IsCart, RemoveLine
<1> QED BY <1>2, <1>3

\* What an edit leaves are lines that were there, with another quantity at most.
LEMMA CartEditsKeepChoices ==
    ASSUME NEW lines, IsCart(lines), NEW i \in DOMAIN lines, NEW edited,
           \/ edited = RemoveLine(lines, i)
           \/ \E quantity \in 1 .. MaxQuantity : edited = SetLineQuantity(lines, i, quantity)
    PROVE  \A k \in DOMAIN edited : \E j \in DOMAIN lines :
              edited[k].choice = lines[j].choice /\ edited[k].unit = lines[j].unit
<1>1. /\ lines \in Seq(Line) /\ Len(lines) \in Nat /\ DOMAIN lines = 1 .. Len(lines)
      /\ \A k \in DOMAIN lines : lines[k] \in Line
  BY CartShape DEF IsCart
<1>2. CASE edited = RemoveLine(lines, i)
  <2>1. /\ edited \in Seq(Line) /\ Len(edited) = Len(lines) - 1
        /\ \A k \in 1 .. Len(lines) - 1 : edited[k] = IF k < i THEN lines[k] ELSE lines[k + 1]
    BY <1>1, <1>2, RemoveAtKeeps DEF RemoveLine
  <2>2. ASSUME NEW k \in DOMAIN edited
        PROVE  \E j \in DOMAIN lines : edited[k] = lines[j]
    <3>1. k \in 1 .. Len(lines) - 1 /\ k \in DOMAIN lines /\ k + 1 \in DOMAIN lines
      BY <1>1, <2>1, <2>2
    <3> QED BY <2>1, <3>1
  <2> QED BY <2>2
<1>3. CASE \E quantity \in 1 .. MaxQuantity : edited = SetLineQuantity(lines, i, quantity)
  <2>1. PICK quantity \in 1 .. MaxQuantity :
           edited = [lines EXCEPT ![i] = [lines[i] EXCEPT !.quantity = quantity]]
    BY <1>1, <1>3 DEF SetLineQuantity
  <2>2. DOMAIN edited = DOMAIN lines
    BY <2>1
  <2>3. \A k \in DOMAIN lines : edited[k].choice = lines[k].choice /\ edited[k].unit = lines[k].unit
    BY <1>1, <2>1 DEF Line
  <2> QED BY <2>2, <2>3
<1> QED BY <1>2, <1>3

\* What is picked is offered by the menu on the page; what is stored, and what
\* the checkout page holds, was composed, line by line, from the menus named.
PickIsSound ==
    dialog # Closed =>
        Orderable(shown[dialog.item]) /\ dialog.selected \subseteq Offered(shown[dialog.item])

ComposedFrom(lines, from) ==
    /\ lines # EmptyCart => from # {}
    /\ \A m \in Menus : from = {m} => \A i \in DOMAIN lines : SoundLine(m, lines[i])

CartIsSound == ComposedFrom(Parsed(storage), bases)

CopyIsSound == ComposedFrom(tab.lines, tab.from)

ShoppingInv == ShoppingTypeOK /\ PickIsSound /\ CartIsSound /\ CopyIsSound

LEMMA OfferedAreOptions ==
    ASSUME NEW m \in Menus, NEW i \in Items
    PROVE  /\ m[i] \in ItemFacts /\ m[i].groups \subseteq Group
           /\ Offered(m[i]) \subseteq Options
<1>1. m[i] \in ItemFacts
  BY ShoppingConstants
<1>2. m[i].groups \subseteq Group
  BY <1>1 DEF ItemFacts
<1> QED BY <1>1, <1>2 DEF Group, Offered, ShownGroups

LEMMA StoredCart ==
    ASSUME ShoppingTypeOK
    PROVE  IsCart(Parsed(storage)) /\ CartItemCount(Parsed(storage)) \in 0 .. MaxLines * MaxQuantity
<1>1. IsCart(EmptyCart)
  BY CartConstants DEF IsCart, EmptyCart
<1>2. IsCart(Parsed(storage))
  BY <1>1 DEF Parsed, ShoppingTypeOK
<1> QED BY <1>2, CartSums

LEMMA Dialogs ==
    ASSUME ShoppingTypeOK, dialog # Closed
    PROVE  /\ dialog \in Picking /\ dialog.item \in Items /\ dialog.selected \in SUBSET Options
           /\ dialog.quantity \in 1 .. MaxQuantity /\ dialog.note \in Notes
BY DEF ShoppingTypeOK, Picking

LEMMA ShoppingInitInv == ShoppingInit => ShoppingInv
<1> SUFFICES ASSUME ShoppingInit PROVE ShoppingInv
  OBVIOUS
<1>1. IsCart(EmptyCart)
  BY CartConstants DEF IsCart, EmptyCart
<1>2. ShoppingTypeOK
  BY <1>1, CartConstants, ShoppingConstants DEF ShoppingInit, ShoppingTypeOK, NoCopy
<1>3. Parsed(storage) = EmptyCart
  BY DEF ShoppingInit, Parsed
<1> QED BY <1>2, <1>3 DEF ShoppingInit, ShoppingInv, PickIsSound, CartIsSound, CopyIsSound,
                          ComposedFrom, NoCopy, EmptyCart

LEMMA AddToCartInv ==
    ASSUME ShoppingInv, AddToCart
    PROVE  ShoppingInv'
<1> USE DEF ShoppingInv
<1> DEFINE lines == Parsed(storage)
           added == AddLine(lines, Composed)
           facts == shown[dialog.item]
<1>1. /\ shown \in Menus /\ dialog \in Picking
      /\ dialog.item \in Items /\ dialog.selected \in SUBSET Options
      /\ dialog.quantity \in 1 .. MaxQuantity /\ dialog.note \in Notes
  BY Dialogs DEF AddToCart, ShoppingTypeOK
<1>2. facts \in ItemFacts
  BY <1>1, OfferedAreOptions
<1>3. Composed \in Line
  BY <1>1, <1>2, UnitPriceType DEF Composed, Line, Choice
<1>4. SoundLine(shown, Composed)
  <2>1. Orderable(facts) /\ dialog.selected \subseteq Offered(facts)
    BY DEF AddToCart, PickIsSound
  <2> QED BY <2>1 DEF AddToCart, PickIsValid, SoundLine, Composed
<1>5. IsCart(lines)
  BY StoredCart
<1>6. IsCart(added) /\ CartItemCount(added) \in 0 .. MaxLines * MaxQuantity
  BY <1>3, <1>5, AddLineKeeps, CartSums
<1>7. dialog' = Closed /\ UNCHANGED <<menu, shown, tab, loads>>
  BY DEF AddToCart
<1>8. CASE ~CanAdd(lines, Composed)
  BY <1>7, <1>8 DEF AddToCart, ShoppingTypeOK, PickIsSound, CartIsSound, CopyIsSound, ComposedFrom
<1>9. CASE CanAdd(lines, Composed)
  <2>1. /\ storage' = added /\ badge' = CartItemCount(added) /\ note' = "added"
        /\ bases' = (IF lines = EmptyCart THEN {} ELSE bases) \cup {shown}
    BY <1>9 DEF AddToCart
  <2>2. ShoppingTypeOK'
    <3> HIDE DEF added, lines
    <3> QED BY <1>1, <1>6, <1>7, <2>1 DEF ShoppingTypeOK
  <2>3. CASE storage' = Foreign
    BY <1>7, <2>1, <2>2, <2>3 DEF PickIsSound, CartIsSound, CopyIsSound, ComposedFrom, Parsed, EmptyCart
  <2>4. CASE storage' # Foreign
    <3>1. Parsed(storage') = added
      BY <2>1, <2>4 DEF Parsed
    <3>2. ASSUME NEW m \in Menus, bases' = {m}, NEW i \in DOMAIN added
          PROVE  SoundLine(m, added[i])
      <4>1. m = shown
        BY <2>1, <3>2
      <4>2. CASE added[i] = Composed
        BY <1>4, <4>1, <4>2
      <4>3. CASE /\ i \in DOMAIN lines /\ added[i].choice = lines[i].choice
                 /\ added[i].unit = lines[i].unit
        <5>1. lines # EmptyCart
          BY <4>3 DEF EmptyCart
        <5>2. bases = {m}
          BY <2>1, <3>2, <5>1 DEF CartIsSound, ComposedFrom
        <5>3. SoundLine(m, lines[i])
          BY <4>3, <5>2 DEF CartIsSound, ComposedFrom
        <5> HIDE DEF added, lines
        <5> QED BY <4>3, <5>3 DEF SoundLine
      <4> QED BY <1>3, <1>5, <3>2, <4>2, <4>3, AddLineKeeps
    <3>3. bases' # {}
      BY <2>1
    <3>4. CartIsSound'
      <4> HIDE DEF added, lines
      <4> QED BY <3>1, <3>2, <3>3 DEF CartIsSound, ComposedFrom
    <3> QED BY <1>7, <2>2, <3>4 DEF PickIsSound, CopyIsSound, ComposedFrom
  <2> QED BY <2>3, <2>4
<1> QED BY <1>8, <1>9

\* The whole copy is saved, with one line changed or gone.
LEMMA EditTabInv ==
    ASSUME ShoppingInv, NEW i \in DOMAIN tab.lines, EditTab(i)
    PROVE  ShoppingInv'
<1> USE DEF ShoppingInv
<1>1. IsCart(tab.lines) /\ tab.from \subseteq Menus
  BY DEF ShoppingTypeOK
<1>2. PICK lines :
         /\ UpdateTab(lines)
         /\ \/ lines = RemoveLine(tab.lines, i)
            \/ \E quantity \in 1 .. MaxQuantity : lines = SetLineQuantity(tab.lines, i, quantity)
  BY DEF EditTab
<1>3. IsCart(lines)
  BY <1>1, <1>2, CartEditsKeep
<1>4. \A k \in DOMAIN lines : \E j \in DOMAIN tab.lines :
         lines[k].choice = tab.lines[j].choice /\ lines[k].unit = tab.lines[j].unit
  BY <1>1, <1>2, CartEditsKeepChoices
<1>5. ComposedFrom(lines, tab.from)
  <2>1. tab.from # {}
    <3>1. tab.lines # EmptyCart
      BY DEF EmptyCart
    <3> QED BY <3>1 DEF CopyIsSound, ComposedFrom
  <2>2. ASSUME NEW m \in Menus, tab.from = {m}, NEW k \in DOMAIN lines
        PROVE  SoundLine(m, lines[k])
    <3>1. PICK j \in DOMAIN tab.lines :
             lines[k].choice = tab.lines[j].choice /\ lines[k].unit = tab.lines[j].unit
      BY <1>4
    <3>2. SoundLine(m, tab.lines[j])
      BY <2>2 DEF CopyIsSound, ComposedFrom
    <3> QED BY <3>1, <3>2 DEF SoundLine
  <2> QED BY <2>1, <2>2 DEF ComposedFrom
<1>6. /\ tab'.lines = lines /\ tab'.from = tab.from /\ storage' = lines /\ bases' = tab.from
      /\ UNCHANGED <<menu, shown, dialog, badge, note, loads>>
  BY <1>2 DEF UpdateTab
<1>7. CopyIsSound'
  BY <1>5, <1>6 DEF CopyIsSound, ComposedFrom
<1>8. CartIsSound'
  <2>1. Parsed(storage)' = lines \/ Parsed(storage)' = EmptyCart
    BY <1>6 DEF Parsed
  <2>2. ComposedFrom(EmptyCart, tab.from)
    BY DEF ComposedFrom, EmptyCart
  <2> QED BY <1>5, <1>6, <2>1, <2>2 DEF CartIsSound, ComposedFrom
<1> QED BY <1>1, <1>3, <1>6, <1>7, <1>8 DEF ShoppingTypeOK, PickIsSound

LEMMA ShoppingNextInv ==
    ASSUME ShoppingInv, [ShoppingNext]_shoppingVars
    PROVE  ShoppingInv'
<1> USE DEF ShoppingInv
<1>1. CASE ChangeMenu
  BY <1>1 DEF ChangeMenu, ShoppingTypeOK, PickIsSound, CartIsSound, CopyIsSound, ComposedFrom
<1>2. CASE LoadMenu
  BY <1>2, StoredCart, ShoppingConstants DEF LoadMenu, ShoppingTypeOK, PickIsSound, CartIsSound, CopyIsSound, ComposedFrom
<1>3. ASSUME NEW i \in Items, NEW request \in Notes, OpenPicker(i, request)
      PROVE  ShoppingInv'
  <2>1. dialog' \in Picking
    BY <1>3, CartConstants DEF OpenPicker, Picking
  <2>2. dialog'.item = i /\ dialog'.selected = {}
    BY <1>3 DEF OpenPicker
  <2> QED BY <1>3, <2>1, <2>2 DEF OpenPicker, ShoppingTypeOK, PickIsSound, CartIsSound, CopyIsSound, ComposedFrom
<1>4. ASSUME NEW g, NEW o \in g.open, Pick(g, o)
      PROVE  ShoppingInv'
  <2>1. shown \in Menus /\ dialog \in Picking /\ dialog.item \in Items /\ dialog.selected \in SUBSET Options
    BY <1>4, Dialogs DEF Pick, ShoppingTypeOK
  <2>2. o \in Offered(shown[dialog.item]) /\ o \in Options
    BY <1>4, <2>1, OfferedAreOptions DEF Pick, Offered
  <2>3. /\ Toggled(dialog.selected, g, o) \in SUBSET Options
        /\ Toggled(dialog.selected, g, o) \subseteq dialog.selected \cup {o}
    BY <2>1, <2>2 DEF Toggled
  <2>4. dialog' = [dialog EXCEPT !.selected = Toggled(dialog.selected, g, o)]
    BY <1>4 DEF Pick
  <2>5. /\ dialog' \in Picking /\ dialog'.item = dialog.item
        /\ dialog'.selected = Toggled(dialog.selected, g, o)
    BY <2>1, <2>3, <2>4 DEF Picking
  <2>6. shown' = shown /\ UNCHANGED <<menu, storage, tab, badge, note, loads, bases>>
    BY <1>4 DEF Pick
  <2>7. PickIsSound'
    BY <1>4, <2>2, <2>3, <2>5, <2>6 DEF Pick, PickIsSound
  <2> QED BY <2>5, <2>6, <2>7 DEF ShoppingTypeOK, CartIsSound, CopyIsSound, ComposedFrom
<1>5. ASSUME NEW quantity \in 1 .. MaxQuantity, ChangeQuantity(quantity)
      PROVE  ShoppingInv'
  <2>1. dialog \in Picking
    BY <1>5, Dialogs DEF ChangeQuantity
  <2>2. dialog' = [dialog EXCEPT !.quantity = quantity]
    BY <1>5 DEF ChangeQuantity
  <2>3. dialog' \in Picking /\ dialog'.item = dialog.item /\ dialog'.selected = dialog.selected
    BY <2>1, <2>2 DEF Picking
  <2> QED BY <1>5, <2>3 DEF ChangeQuantity, ShoppingTypeOK, PickIsSound, CartIsSound, CopyIsSound, ComposedFrom
<1>6. CASE ClosePicker
  BY <1>6 DEF ClosePicker, ShoppingTypeOK, PickIsSound, CartIsSound, CopyIsSound, ComposedFrom
<1>7. CASE AddToCart
  BY <1>7, AddToCartInv
<1>8. CASE ClearedElsewhere
  <2>1. IsCart(EmptyCart) /\ Parsed(EmptyCart) = EmptyCart
    BY CartConstants DEF IsCart, EmptyCart, Parsed
  <2> QED BY <1>8, <2>1 DEF ClearedElsewhere, ShoppingTypeOK, PickIsSound, CartIsSound, CopyIsSound,
                            ComposedFrom, EmptyCart
<1>9. CASE OpenTab
  <2>1. tab'.lines = Parsed(storage) /\ tab'.from = bases /\ IsCart(Parsed(storage))
    BY <1>9, StoredCart DEF OpenTab
  <2> QED BY <1>9, <2>1 DEF OpenTab, ShoppingTypeOK, PickIsSound, CartIsSound, CopyIsSound, ComposedFrom
<1>10. ASSUME NEW i \in DOMAIN tab.lines, EditTab(i) PROVE ShoppingInv'
  BY <1>10, EditTabInv
<1>11. CASE UNCHANGED shoppingVars
  BY <1>11 DEF shoppingVars, ShoppingTypeOK, PickIsSound, CartIsSound, CopyIsSound, ComposedFrom
<1> QED BY <1>1, <1>2, <1>3, <1>4, <1>5, <1>6, <1>7, <1>8, <1>9, <1>10, <1>11 DEF ShoppingNext

LEMMA SoundCartsAreAccepted ==
    ASSUME NEW lines, IsCart(lines), menu \in Menus, NEW from, from \subseteq {menu},
           ComposedFrom(lines, from)
    PROVE  AcceptedAsShown(lines)
<1> DEFINE placed == PlacementLines(lines)
<1>1. \A i \in DOMAIN lines : SoundLine(menu, lines[i])
  <2>1. CASE from = {}
    BY <2>1 DEF ComposedFrom, EmptyCart
  <2>2. CASE from = {menu}
    BY <2>2 DEF ComposedFrom
  <2> QED BY <2>1, <2>2
<1>2. CartTotal(lines) = PricedTotal(menu, placed)
  BY <1>1, SameTotal DEF SoundLine
<1>3. \A i \in DOMAIN placed : LineProblems(menu, placed[i]) = {}
  <2> TAKE i \in DOMAIN placed
  <2>1. i \in DOMAIN lines /\ placed[i].choice = lines[i].choice
    BY DEF PlacementLines
  <2>2. lines[i].choice \in Choice
    BY <2>1, CartShape
  <2> HIDE DEF placed
  <2> QED BY <1>1, <2>1, <2>2, SoundLinesHaveNoProblems
<1>4. CartProblems(menu, placed) = IF PricedTotal(menu, placed) > MaxTotal THEN {"total_bounds"} ELSE {}
  <2> HIDE DEF placed
  <2> DEFINE ofLines == UNION {LineProblems(menu, placed[i]) : i \in DOMAIN placed}
  <2>1. ofLines = {}
    BY <1>3
  <2>2. CartProblems(menu, placed) = IF ofLines = {} /\ PricedTotal(menu, placed) > MaxTotal
                                     THEN {"total_bounds"} ELSE ofLines
    BY DEF CartProblems
  <2> QED BY <2>1, <2>2
<1> QED BY <1>2, <1>4 DEF AcceptedAsShown

LEMMA ShoppingInvImplies == ShoppingInv => CartAsShownIsAccepted
<1> SUFFICES ASSUME ShoppingInv PROVE CartAsShownIsAccepted
  OBVIOUS
<1>1. IsCart(Parsed(storage)) /\ IsCart(tab.lines) /\ menu \in Menus
  BY StoredCart DEF ShoppingInv, ShoppingTypeOK
<1>2. bases \subseteq {menu} => AcceptedAsShown(Parsed(storage))
  BY <1>1, SoundCartsAreAccepted DEF ShoppingInv, CartIsSound
<1>3. tab.from \subseteq {menu} => AcceptedAsShown(tab.lines)
  BY <1>1, SoundCartsAreAccepted DEF ShoppingInv, CopyIsSound
<1> QED BY <1>2, <1>3 DEF CartAsShownIsAccepted

LEMMA ShoppingSteps == [CustomerNext]_customerVars => [ShoppingNext]_shoppingVars
BY DEF CustomerNext, Shops, ChecksOut, Tracks, OnBoard, Lists, OnNotices, OnServer,
       customerVars, browserVars

(* A cart, stored or on the checkout page, that was composed from the menu   *)
(* the restaurant still sells from is accepted at the total that the visitor *)
(* is shown, unless that is beyond the server's bound, for any menus, number *)
(* of lines and quantities: no sequence of clicks, merged lines, lines       *)
(* changed or removed in another tab and pages loaded again leaves the       *)
(* browser with a cart of which price_cart refuses a line or which it prices *)
(* differently (ModifierPickerDialog.tsx, CheckoutForm.tsx, cart.ts,         *)
(* pricing.py).                                                              *)
THEOREM ShownIsAccepted == CustomerSpec => []CartAsShownIsAccepted
<1>1. CustomerInit => ShoppingInv
  BY ShoppingInitInv DEF CustomerInit
<1>2. ShoppingInv /\ [CustomerNext]_customerVars => ShoppingInv'
  BY ShoppingSteps, ShoppingNextInv
<1> QED BY <1>1, <1>2, ShoppingInvImplies, PTL DEF CustomerSpec

-----------------------------------------------------------------------------
(* What the checkout, its requests and the orders hold.                      *)


Verdicts == {"gone", "replayed", "key-reused", "paused", "stale", "price-changed",
             "slot-unavailable", "created"}

CheckoutTyped ==
    /\ CheckoutTypeOK
    /\ waiting # Nothing => waiting.attempt \in 0 .. attempt
    /\ answer # Nothing => answer.kind \in Verdicts /\ answer.total \in Nat

LEMMA EmptyCartIsCart == IsCart(EmptyCart)
BY CartConstants DEF IsCart, EmptyCart

LEMMA NewFormType ==
    ASSUME NEW lines, IsCart(lines)
    PROVE  /\ NewForm(lines) \in FormState /\ IsCart(NewForm(lines).cart)
           /\ NewForm(lines).submit.kind # "submitting"
BY DEF NewForm, FormState, IsCart, PickupKinds, SubmitKinds, Idle

LEMMA ShopMenu ==
    ASSUME shop \in ShopState
    PROVE  shop.catalog \in [Items -> ItemFacts]
BY CheckoutConstants DEF ShopState

LEMMA OrdinaryIsLine ==
    ASSUME shop \in ShopState, NEW i \in Items
    PROVE  Ordinary(i) \in Line
<1>1. UnitPrice(shop.catalog[i], {}) \in Nat
  BY ShopMenu, UnitPriceType
<1>2. (CHOOSE n \in Notes : TRUE) \in Notes
  BY CartConstants
<1> QED BY <1>1, <1>2, CartConstants DEF Ordinary, Line, Choice

LEMMA PlacementLinesType ==
    ASSUME NEW lines, IsCart(lines)
    PROVE  PlacementLines(lines) \in Seq([choice : Choice, quantity : 1 .. MaxQuantity])
<1> DEFINE P == [choice : Choice, quantity : 1 .. MaxQuantity]
<1>1. \A i \in DOMAIN lines : [choice |-> lines[i].choice, quantity |-> lines[i].quantity] \in P
  BY CartShape
<1>2. \A i \in DOMAIN lines : PlacementLines(lines)[i] \in P
  BY <1>1 DEF PlacementLines
<1>3. PlacementLines(lines) \in [1 .. Len(lines) -> P] /\ Len(lines) \in Nat
  BY <1>2, CartShape DEF PlacementLines
<1> HIDE DEF P
<1>4. PlacementLines(lines) \in Seq(P)
  BY <1>3
<1> QED BY <1>4 DEF P

LEMMA FormFields ==
    ASSUME NEW f \in FormState
    PROVE  /\ f.details \in Details \cup {Nothing} /\ f.kind \in PickupKinds
           /\ f.slot \in Slots \cup {Nothing} /\ f.slots \in SUBSET Slots
           /\ f.submit \in [kind : SubmitKinds, total : Nat] /\ f.submit.kind \in SubmitKinds
           /\ f.submit.total \in Nat
           /\ f.key \in Keys \cup {Nothing}
BY DEF FormState

LEMMA DisplayedType ==
    ASSUME NEW f \in FormState, IsCart(f.cart)
    PROVE  Displayed(f) \in Nat
BY FormFields, CartSums DEF Displayed

LEMMA BodyType ==
    ASSUME NEW f \in FormState, IsCart(f.cart), f.details # Nothing
    PROVE  BodyOf(f) \in Body
BY FormFields, PlacementLinesType, DisplayedType DEF BodyOf, Body

LEMMA EditTypes ==
    ASSUME Honest, CheckoutTyped, NEW f \in FormState, IsCart(f.cart), Edit(f),
           f.submit.kind = "submitting" <=> form.submit.kind = "submitting",
           stored' = Foreign \/ IsCart(stored')
    PROVE  CheckoutTyped'
<1>1. /\ form' = [f EXCEPT !.key = Nothing] /\ attempt' = attempt + 1 /\ pinned' = {}
      /\ UNCHANGED <<shop, orders, page, wire, waiting, answer, refused>>
  BY DEF Edit
<1>2. form' \in FormState /\ form'.cart = f.cart /\ form'.submit = f.submit
  BY <1>1 DEF FormState
<1>3. attempt \in Nat
  BY DEF Honest
<1>4. /\ \A i \in DOMAIN orders : orders[i].attempt \in 0 .. attempt'
      /\ refused \subseteq 0 .. attempt'
      /\ waiting # Nothing => waiting.attempt \in 0 .. attempt'
  BY <1>1, <1>3 DEF CheckoutTyped, CheckoutTypeOK
<1> QED BY <1>1, <1>2, <1>4 DEF CheckoutTyped, CheckoutTypeOK

LEMMA UpdateCartTypes ==
    ASSUME Honest, CheckoutTyped, NEW lines, IsCart(lines), UpdateCart(lines)
    PROVE  CheckoutTyped'
<1> DEFINE f == [form EXCEPT !.cart = lines, !.submit = IF Pending THEN @ ELSE Idle]
<1>1. form \in FormState
  BY DEF CheckoutTyped, CheckoutTypeOK
<1>2. /\ f \in FormState /\ f.cart = lines
      /\ f.submit = IF Pending THEN form.submit ELSE Idle
  BY <1>1 DEF FormState, IsCart, Idle, SubmitKinds
<1>3. f.submit.kind = "submitting" <=> form.submit.kind = "submitting"
  BY <1>2 DEF Pending, Idle
<1>4. Edit(f) /\ stored' = lines
  BY DEF UpdateCart
<1> HIDE DEF f
<1> QED BY <1>2, <1>3, <1>4, EditTypes

LEMMA EditsType ==
    ASSUME Honest, CheckoutTyped, EditCart \/ EditDetails \/ ChoosePickup \/ ChooseSlot
    PROVE  CheckoutTyped'
<1>1. form \in FormState /\ IsCart(form.cart) /\ (stored = Foreign \/ IsCart(stored))
  BY DEF CheckoutTyped, CheckoutTypeOK
<1>2. CASE EditCart
  BY <1>1, <1>2, CartEditsKeep, UpdateCartTypes DEF EditCart
<1>3. CASE EditDetails
  <2>1. PICK d \in Details \cup {Nothing} : Edit([form EXCEPT !.details = d])
    BY <1>3 DEF EditDetails
  <2> DEFINE f == [form EXCEPT !.details = d]
  <2>2. f \in FormState /\ f.cart = form.cart /\ f.submit = form.submit
    BY <1>1 DEF FormState
  <2>3. stored' = stored
    BY <1>3 DEF EditDetails
  <2> HIDE DEF f
  <2> QED BY <1>1, <2>1, <2>2, <2>3, EditTypes DEF f
<1>4. CASE ChoosePickup
  <2>1. PICK kind \in PickupKinds : Edit([form EXCEPT !.kind = kind])
    BY <1>4 DEF ChoosePickup
  <2> DEFINE f == [form EXCEPT !.kind = kind]
  <2>2. f \in FormState /\ f.cart = form.cart /\ f.submit = form.submit
    BY <1>1 DEF FormState
  <2>3. stored' = stored
    BY <1>4 DEF ChoosePickup
  <2> HIDE DEF f
  <2> QED BY <1>1, <2>1, <2>2, <2>3, EditTypes DEF f
<1>5. CASE ChooseSlot
  <2>1. PICK s \in form.slots \cup {Nothing} : Edit([form EXCEPT !.slot = s])
    BY <1>5 DEF ChooseSlot
  <2> DEFINE f == [form EXCEPT !.slot = s]
  <2>2. f \in FormState /\ f.cart = form.cart /\ f.submit = form.submit
    BY <1>1 DEF FormState
  <2>3. stored' = stored
    BY <1>5 DEF ChooseSlot
  <2> HIDE DEF f
  <2> QED BY <1>1, <2>1, <2>2, <2>3, EditTypes DEF f
<1> QED BY <1>2, <1>3, <1>4, <1>5

LEMMA VisitsType ==
    ASSUME Honest, CheckoutTyped, OpenCheckout \/ LeaveCheckout
    PROVE  CheckoutTyped'
<1>1. /\ shop \in ShopState /\ (stored = Foreign \/ IsCart(stored))
      /\ UNCHANGED <<shop, orders, stored, wire, refused>>
  BY DEF CheckoutTyped, CheckoutTypeOK, OpenCheckout, LeaveCheckout
<1>2. attempt \in Nat
  BY DEF Honest
<1>3. CASE OpenCheckout
  <2>1. PICK listed \in {shop.free, {}} : form' = [NewForm(Parsed(stored)) EXCEPT !.slots = listed]
    BY <1>3 DEF OpenCheckout
  <2>2. NewForm(Parsed(stored)) \in FormState /\ NewForm(Parsed(stored)).submit.kind # "submitting"
        /\ IsCart(NewForm(Parsed(stored)).cart)
    BY <1>1, EmptyCartIsCart, NewFormType DEF Parsed
  <2>3. listed \in SUBSET Slots
    BY <1>1, <2>1 DEF ShopState
  <2>4. form' \in FormState /\ IsCart(form'.cart) /\ form'.submit.kind # "submitting"
    BY <2>1, <2>2, <2>3 DEF FormState
  <2>5. form.submit.kind # "submitting" /\ waiting = Nothing /\ waiting' = Nothing
        /\ answer' = answer
    BY <1>3 DEF OpenCheckout, Honest, Awaiting, CheckoutTyped, CheckoutTypeOK
  <2>6. attempt' = attempt + 1 /\ pinned' = {} /\ page'.at = "checkout"
    BY <1>3 DEF OpenCheckout
  <2>7. /\ \A i \in DOMAIN orders : orders[i].attempt \in 0 .. attempt'
        /\ refused \subseteq 0 .. attempt'
    BY <1>2, <2>6 DEF CheckoutTyped, CheckoutTypeOK
  <2> QED BY <1>1, <2>4, <2>5, <2>6, <2>7 DEF CheckoutTyped, CheckoutTypeOK
<1>4. CASE LeaveCheckout
  <2>1. /\ form' = NewForm(EmptyCart) /\ waiting' = Nothing /\ answer' = Nothing /\ pinned' = {}
        /\ attempt' = attempt /\ page'.at = "away"
    BY <1>4 DEF LeaveCheckout
  <2>2. NewForm(EmptyCart) \in FormState /\ NewForm(EmptyCart).submit.kind # "submitting"
        /\ IsCart(NewForm(EmptyCart).cart)
    BY EmptyCartIsCart, NewFormType
  <2> QED BY <1>1, <2>1, <2>2 DEF CheckoutTyped, CheckoutTypeOK
<1> QED BY <1>3, <1>4

LEMMA AddFromMenuTypes ==
    ASSUME Honest, CheckoutTyped, NEW item \in Items, AddFromMenu(item)
    PROVE  CheckoutTyped'
<1>1. /\ stored' = AddLine(Parsed(stored), Ordinary(item))
      /\ UNCHANGED <<shop, orders, page, form, wire, waiting, answer, attempt, refused, pinned>>
  BY DEF AddFromMenu
<1>2. IsCart(Parsed(stored)) /\ Ordinary(item) \in Line
  BY EmptyCartIsCart, OrdinaryIsLine DEF Parsed, CheckoutTyped, CheckoutTypeOK
<1>3. IsCart(stored')
  BY <1>1, <1>2, AddLineKeeps
<1> QED BY <1>1, <1>3 DEF CheckoutTyped, CheckoutTypeOK

LEMMA SubmitTypes ==
    ASSUME Honest, CheckoutTyped, Submit
    PROVE  CheckoutTyped'
<1>1. form \in FormState /\ IsCart(form.cart) /\ attempt \in Nat /\ Nothing \notin Keys
  BY CheckoutConstants DEF CheckoutTyped, CheckoutTypeOK, Honest
<1>2. /\ page.at = "checkout" /\ form.details # Nothing
      /\ refused' \subseteq refused \cup {attempt}
      /\ UNCHANGED <<shop, orders, stored, page, answer, attempt>>
  BY DEF Submit, FormShown, Complete
<1>3. PICK tag \in 1 .. MaxWire :
         LET r == [tag |-> tag, key |-> HeldOrFresh(form), body |-> BodyOf(form),
                   attempt |-> attempt]
         IN  /\ wire' = wire \cup {r} /\ waiting' = r /\ pinned' = pinned \cup {r.body}
             /\ form' = [form EXCEPT !.key = r.key,
                                     !.submit = [kind |-> "submitting", total |-> 0]]
  BY DEF Submit
<1> DEFINE key == HeldOrFresh(form)
           body == BodyOf(form)
           r == [tag |-> tag, key |-> key, body |-> body, attempt |-> attempt]
<1>4. key \in Keys
  <2>1. form.key = Nothing => Unused # {}
    BY DEF Submit
  <2>2. form.key = Nothing => FreshKey \in Keys
    BY <2>1 DEF FreshKey, Unused
  <2> QED BY <1>1, <2>2, FormFields DEF HeldOrFresh
<1>5. body \in Body
  BY <1>1, <1>2, BodyType
<1> HIDE DEF key, body
<1>6. r \in SubmittedRequest /\ r # Nothing /\ r.attempt = attempt
  BY <1>1, <1>4, <1>5, NothingIsNoRequest DEF SubmittedRequest
<1>7. /\ wire' = wire \cup {r} /\ waiting' = r /\ pinned' = pinned \cup {body}
      /\ form' = [form EXCEPT !.key = key, !.submit = [kind |-> "submitting", total |-> 0]]
  BY <1>3 DEF key, body
<1> HIDE DEF r
<1>8. form' \in FormState /\ form'.cart = form.cart /\ form'.submit.kind = "submitting"
  BY <1>1, <1>4, <1>7 DEF FormState, SubmitKinds
<1> QED BY <1>1, <1>2, <1>5, <1>6, <1>7, <1>8 DEF CheckoutTyped, CheckoutTypeOK

LEMMA HandleTypes ==
    ASSUME Honest, CheckoutTyped, NEW r \in wire, Handle(r)
    PROVE  CheckoutTyped'
<1>1. /\ wire' = wire \ {r}
      /\ UNCHANGED <<stored, page, form, waiting, attempt, refused, pinned>>
  BY DEF Handle
<1>2. /\ shop \in ShopState /\ r \in SubmittedRequest /\ r.body \in Body /\ r.key \in Keys
      /\ shop.catalog \in [Items -> ItemFacts]
      /\ r.body.lines \in Seq([choice : Choice, quantity : 1 .. MaxQuantity])
  BY ShopMenu DEF CheckoutTyped, CheckoutTypeOK, SubmittedRequest, Body
<1>3. PricedTotal(shop.catalog, r.body.lines) \in Nat
  BY <1>2, PricedTotalType
<1>4. Verdict(r) \in Verdicts
  BY DEF Verdict, Verdicts
<1>5. answer' # Nothing => answer'.kind \in Verdicts /\ answer'.total \in Nat
  BY <1>3, <1>4 DEF Handle, Refused, CheckoutTyped
<1>6. /\ \A i \in DOMAIN orders' :
            /\ orders'[i].key \in Keys /\ orders'[i].body \in Body
            /\ orders'[i].attempt \in 0 .. attempt
      /\ shop' \in ShopState
  <2>1. CASE Verdict(r) = "created"
    <3>1. r.attempt \in 0 .. attempt
      <4>1. Known(r) \in Sent
        BY DEF Sent
      <4>2. Known(r).attempt = r.attempt
        BY DEF Known
      <4> QED BY <4>1, <4>2 DEF Honest, SentShape
    <3> DEFINE new == [key |-> r.key, body |-> r.body, attempt |-> r.attempt]
    <3>2. orders' = Append(orders, new)
          /\ \E left \in {shop.free, shop.free \ {r.body.slot}} : shop' = [shop EXCEPT !.free = left]
      BY <2>1 DEF Handle
    <3>3. PICK n \in Nat : DOMAIN orders = 1 .. n /\ orders = [i \in 1 .. n |-> orders[i]]
      BY DEF Honest, OrdersShape
    <3> HIDE DEF new
    <3>4. DOMAIN orders' = 1 .. n + 1 /\ orders'[n + 1] = new
          /\ \A i \in 1 .. n : orders'[i] = orders[i]
      BY <3>2, <3>3
    <3>5. \A i \in 1 .. n + 1 : i = n + 1 \/ i \in 1 .. n
      BY <3>3
    <3>6. new.key \in Keys /\ new.body \in Body /\ new.attempt \in 0 .. attempt
      BY <1>2, <3>1 DEF new
    <3>7. shop' \in ShopState
      BY <1>2, <3>2 DEF ShopState
    <3> QED BY <3>3, <3>4, <3>5, <3>6, <3>7 DEF CheckoutTyped, CheckoutTypeOK
  <2>2. CASE Verdict(r) # "created"
    BY <1>2, <2>2 DEF Handle, CheckoutTyped, CheckoutTypeOK
  <2> QED BY <2>1, <2>2
<1> QED BY <1>1, <1>5, <1>6 DEF CheckoutTyped, CheckoutTypeOK

LEMMA ShopTypes ==
    ASSUME Honest, CheckoutTyped, ChangeShop
    PROVE  CheckoutTyped'
<1>1. shop \in ShopState
  BY DEF CheckoutTyped, CheckoutTypeOK
<1>2. shop' \in ShopState
  BY <1>1 DEF ChangeShop, ShopState
<1> QED BY <1>2 DEF ChangeShop, CheckoutTyped, CheckoutTypeOK

LEMMA ShownTypes ==
    ASSUME form \in FormState, NEW kind \in SubmitKinds, NEW total \in Nat
    PROVE  /\ Show(kind, total) \in FormState /\ Show(kind, total).cart = form.cart
           /\ Show(kind, total).submit.kind = kind
           /\ Show(kind, total).key = form.key
           /\ Drop(Show(kind, total)) \in FormState /\ Drop(Show(kind, total)).cart = form.cart
           /\ Drop(Show(kind, total)).submit.kind = kind
BY DEF Show, Drop, FormState

LEMMA AnswerTypes ==
    ASSUME Honest, CheckoutTyped, ReceiveAnswer
    PROVE  CheckoutTyped'
<1>1. /\ form \in FormState /\ IsCart(form.cart) /\ answer.kind \in Verdicts /\ answer.total \in Nat
      /\ form.submit.kind = "submitting" /\ waiting # Nothing /\ waiting.attempt \in 0 .. attempt
      /\ waiting' = Nothing /\ answer' = Nothing /\ page.at = "checkout"
      /\ UNCHANGED <<shop, orders, wire, attempt>>
  BY DEF ReceiveAnswer, Honest, Awaiting, CheckoutTyped, CheckoutTypeOK
<1>2. CASE answer.kind \in {"created", "replayed"}
  <2>1. form' = NewForm(EmptyCart) /\ stored' = EmptyCart /\ pinned' = {} /\ refused' = refused
        /\ page'.at = "track"
    BY <1>2 DEF ReceiveAnswer
  <2>2. form' \in FormState /\ IsCart(form'.cart) /\ form'.submit.kind # "submitting"
    BY <2>1, EmptyCartIsCart, NewFormType
  <2> QED BY <1>1, <2>1, <2>2, EmptyCartIsCart DEF CheckoutTyped, CheckoutTypeOK
<1>3. CASE answer.kind \notin {"created", "replayed"}
  <2>1. /\ form' =
             CASE answer.kind \in {"stale", "key-reused"} -> Drop(Show(answer.kind, 0))
               [] answer.kind = "price-changed" -> Drop(ShowRefusal(answer.kind, answer.total))
               [] answer.kind = "slot-unavailable" ->
                      [Drop(Show("refreshing", 0)) EXCEPT !.slot = Nothing]
               [] answer.kind \in {"paused", "gone"} -> Show(answer.kind, 0)
        /\ pinned' \subseteq pinned /\ refused' \subseteq refused \cup {waiting.attempt}
        /\ stored' = stored /\ page' = page
    BY <1>3 DEF ReceiveAnswer
  <2>2. form' \in FormState /\ form'.cart = form.cart /\ form'.submit.kind # "submitting"
    <3>1. CASE answer.kind \in {"stale", "key-reused"}
      <4>1. answer.kind \in SubmitKinds
        BY <3>1 DEF SubmitKinds
      <4>2. form' = Drop(Show(answer.kind, 0))
        BY <2>1, <3>1
      <4> QED BY <1>1, <3>1, <4>1, <4>2, ShownTypes
    <3>2. CASE answer.kind = "price-changed"
      <4>1. answer.kind \in SubmitKinds
        BY <3>2 DEF SubmitKinds
      <4>2. form' = Drop(Show(answer.kind, answer.total))
        BY <2>1, <3>2 DEF ShowRefusal
      <4> QED BY <1>1, <3>2, <4>1, <4>2, ShownTypes
    <3>3. CASE answer.kind = "slot-unavailable"
      <4> DEFINE g == Drop(Show("refreshing", 0))
      <4>1. g \in FormState /\ g.cart = form.cart /\ g.submit.kind = "refreshing"
        BY <1>1, ShownTypes DEF SubmitKinds
      <4>2. form' = [g EXCEPT !.slot = Nothing]
        BY <2>1, <3>3
      <4> HIDE DEF g
      <4> QED BY <4>1, <4>2 DEF FormState
    <3>4. CASE answer.kind \in {"paused", "gone"}
      <4>1. answer.kind \in SubmitKinds
        BY <3>4 DEF SubmitKinds
      <4>2. form' = Show(answer.kind, 0)
        BY <2>1, <3>4
      <4> QED BY <1>1, <3>4, <4>1, <4>2, ShownTypes
    <3> QED BY <1>1, <1>3, <3>1, <3>2, <3>3, <3>4 DEF Verdicts
  <2> QED BY <1>1, <2>1, <2>2 DEF CheckoutTyped, CheckoutTypeOK
<1> QED BY <1>2, <1>3

LEMMA RefreshTypes ==
    ASSUME Honest, CheckoutTyped, RefreshSlots
    PROVE  CheckoutTyped'
<1>1. form \in FormState /\ IsCart(form.cart) /\ shop \in ShopState
  BY DEF CheckoutTyped, CheckoutTypeOK
<1>2. PICK listed \in {shop.free, {}} : form' = [Show("slot-unavailable", 0) EXCEPT !.slots = listed]
  BY DEF RefreshSlots
<1> DEFINE g == Show("slot-unavailable", 0)
<1>3. g \in FormState /\ g.cart = form.cart /\ g.submit.kind = "slot-unavailable"
  BY <1>1, ShownTypes DEF SubmitKinds
<1>4. listed \in SUBSET Slots
  BY <1>1, <1>2 DEF ShopState
<1>5. form' = [g EXCEPT !.slots = listed]
  BY <1>2
<1> HIDE DEF g
<1>6. form' \in FormState /\ form'.cart = form.cart /\ form'.submit.kind = "slot-unavailable"
  BY <1>3, <1>4, <1>5 DEF FormState
<1>7. /\ form.submit.kind = "refreshing"
      /\ UNCHANGED <<shop, orders, stored, page, wire, waiting, answer, attempt, refused, pinned>>
  BY DEF RefreshSlots
<1> QED BY <1>6, <1>7 DEF CheckoutTyped, CheckoutTypeOK

LEMMA FailureTypes ==
    ASSUME Honest, CheckoutTyped, LoseConnection
    PROVE  CheckoutTyped'
<1>1. form \in FormState
  BY DEF CheckoutTyped, CheckoutTypeOK
<1>2. /\ form' = Show("failed", 0) /\ waiting' = Nothing /\ answer' = Nothing
      /\ wire' \subseteq wire
      /\ UNCHANGED <<shop, orders, stored, page, attempt, refused, pinned>>
  BY DEF LoseConnection
<1>3. form' \in FormState /\ form'.cart = form.cart /\ form'.submit.kind = "failed"
  BY <1>1, <1>2, ShownTypes DEF SubmitKinds
<1> QED BY <1>2, <1>3 DEF CheckoutTyped, CheckoutTypeOK

LEMMA CheckoutNextTypes ==
    ASSUME Honest, CheckoutTyped, [CheckoutNext]_checkoutVars
    PROVE  CheckoutTyped'
<1>1. CASE UNCHANGED checkoutVars
  BY <1>1 DEF checkoutVars, CheckoutTyped, CheckoutTypeOK
<1> QED
  BY <1>1, EditsType, VisitsType, AddFromMenuTypes, SubmitTypes, HandleTypes, ShopTypes,
     AnswerTypes, RefreshTypes, FailureTypes DEF CheckoutNext

LEMMA CheckoutInitTypes ==
    ASSUME CheckoutInit PROVE CheckoutTyped
<1>1. shop \in ShopState
  BY DEF CheckoutInit, ShopState
<1>2. form \in FormState /\ IsCart(form.cart) /\ form.submit.kind # "submitting"
  BY EmptyCartIsCart, NewFormType DEF CheckoutInit
<1>3. stored = Foreign \/ IsCart(stored)
  <2>1. ASSUME NEW i \in Items PROVE IsCart(<<Ordinary(i)>>)
    <3> DEFINE line == Ordinary(i)
    <3>1. line \in Line
      BY <1>1, OrdinaryIsLine
    <3> HIDE DEF line
    <3>2. <<line>> \in Seq(Line) /\ Len(<<line>>) = 1
      BY <3>1
    <3> QED BY <3>2, CartConstants DEF IsCart, line
  <2> QED BY <2>1, EmptyCartIsCart DEF CheckoutInit
<1> QED BY <1>1, <1>2, <1>3 DEF CheckoutInit, CheckoutTyped, CheckoutTypeOK

-----------------------------------------------------------------------------
(* The order board: what may become of an order.                             *)

Tickets == Board!Tickets
Stages == Board!Stages

\* The statuses of an order from the time on that it has one.
Onwards(s) ==
    CASE s = "absent" -> Stages
      [] s = "submitted" -> Stages \ {"absent"}
      [] s = "accepted" -> {"accepted", "preparing", "ready", "completed"}
      [] s = "preparing" -> {"preparing", "ready", "completed"}
      [] s = "ready" -> {"ready", "completed"}
      [] OTHER -> {s}

\* A command that is not legal any more.
Over(c, s) == s \in Stages /\ \A r \in Onwards(s) : r \notin Board!From(c)

LEMMA OrdersGoOn ==
    ASSUME NEW c \in Board!Commands, NEW s \in Stages, s \in Board!From(c)
    PROVE  /\ Board!To(c, s) \in Stages \ {"absent"}
           /\ \A r \in Stages : s \in Onwards(r) => Board!To(c, s) \in Onwards(r)
BY DEF Board!Commands, Board!From, Board!To, Onwards, Stages, Board!Stages

LEMMA OnwardsIsTransitive ==
    ASSUME NEW r \in Stages, NEW s \in Onwards(r)
    PROVE  s \in Stages /\ Onwards(s) \subseteq Onwards(r)
BY DEF Onwards, Stages, Board!Stages

LEMMA OnceOverAlwaysOver ==
    ASSUME NEW c \in Board!Commands
    PROVE  /\ Board!From(c) \subseteq Stages \ {"absent"}
           /\ \A r \in Board!From(c) : \A s \in Onwards(r) : s \notin Board!From(c) => Over(c, s)
           /\ \A r \in Stages : Over(c, r) => \A s \in Onwards(r) : Over(c, s)
           /\ \A s \in Stages : Over(c, s) => s \notin Board!From(c)
<1>1. Board!From(c) \subseteq Stages \ {"absent"}
  BY DEF Board!Commands, Board!From, Stages, Board!Stages
<1>2. ASSUME NEW r \in Board!From(c), NEW s \in Onwards(r), s \notin Board!From(c)
      PROVE  Over(c, s)
  <2>1. CASE c \in {"accept", "reject", "cancel"}
    BY <1>2, <2>1 DEF Board!From, Onwards, Over, Stages, Board!Stages
  <2>2. CASE c \in {"startPreparing", "markReady", "complete", "setEstimate"}
    BY <1>2, <2>2 DEF Board!From, Onwards, Over, Stages, Board!Stages
  <2> QED BY <2>1, <2>2 DEF Board!Commands
<1>3. ASSUME NEW r \in Stages, Over(c, r), NEW s \in Onwards(r)
      PROVE  Over(c, s)
  BY <1>3, OnwardsIsTransitive DEF Over
<1>4. \A s \in Stages : s \in Onwards(s)
  BY DEF Onwards, Stages, Board!Stages
<1> QED BY <1>1, <1>2, <1>3, <1>4 DEF Over

\* What was told of an order, and whether it was right at some time.
HasBeen(o, s) == s \in Stages \ {"absent"} /\ kitchen[o] \in Onwards(s)
Tells(q, o) ==
    /\ DOMAIN q = {"data", "failed", "flight"}
    /\ q = [part \in DOMAIN q |-> q[part]]
    /\ q.data # Nothing => HasBeen(o, q.data)
    /\ q.flight # Nothing => HasBeen(o, q.flight)
WasLegal(c, o) == c \in Board!Commands /\ \E s \in Board!From(c) : HasBeen(o, s)

SentIsSound ==
    sent # Board!Unsent =>
        /\ DOMAIN sent = {"command", "order", "result"}
        /\ sent = [part \in DOMAIN sent |-> sent[part]]
        /\ drawer \in Tickets /\ sent.order = drawer /\ details[drawer].data # Nothing
        /\ WasLegal(sent.command, drawer)
        /\ sent.result = "refused" => Over(sent.command, kitchen[drawer])
        /\ sent.result \notin {"none", "refused", "lost"} => HasBeen(drawer, sent.result)

\* Nothing that may come on screen is from before a command was refused.
Forgets(q, c) ==
    /\ q.flight \notin Board!From(c)
    /\ q.flight = Nothing /\ ~q.failed => q.data \notin Board!From(c)
RefusalIsKnown ==
    barred # Board!Unsent =>
        /\ barred.order \in Tickets /\ barred.command \in Board!Commands
        /\ Over(barred.command, kitchen[barred.order])
        /\ Forgets(details[barred.order], barred.command)
        /\ sent # Board!Unsent /\ sent.order = barred.order
              => sent.result \notin Board!From(barred.command)

BoardKnows ==
    /\ kitchen \in [Tickets -> Stages]
    /\ DOMAIN details = Tickets /\ details = [o \in Tickets |-> details[o]]
    /\ \A o \in Tickets : Tells(details[o], o)
    /\ drawer \in Tickets \cup {0} /\ (drawer # 0 => kitchen[drawer] # "absent")
    /\ confirming # "none" => drawer \in Tickets /\ WasLegal(confirming, drawer)
    /\ SentIsSound
    /\ RefusalIsKnown

-----------------------------------------------------------------------------
LEMMA BoardStarts ==
    ASSUME Board!OrderDeskInit PROVE BoardKnows
<1>1. /\ kitchen \in [Tickets -> Stages] /\ drawer = 0 /\ confirming = "none"
      /\ sent = Board!Unsent /\ barred = Board!Unsent
      /\ details = [o \in Tickets |-> Board!NotAsked]
  BY DEF Board!OrderDeskInit, Board!Nobody, Board!NoCommand, Tickets, Stages, Board!Stages
<1>2. \A o \in Tickets : Tells(details[o], o)
  BY <1>1 DEF Tells, Board!NotAsked
<1> QED BY <1>1, <1>2 DEF BoardKnows, SentIsSound, RefusalIsKnown

\* What is asked now is right now, and new.
LEMMA QueriesTell ==
    ASSUME NEW o \in Tickets, kitchen \in [Tickets -> Stages], NEW q, Tells(q, o),
           kitchen[o] # "absent"
    PROVE  /\ Tells(Board!Fetch(q, kitchen[o]), o) /\ Tells(Board!Refetch(q, kitchen[o]), o)
           /\ Tells(Board!Fail(q), o)
           /\ \A r \in {Board!Fetch(q, kitchen[o]), Board!Refetch(q, kitchen[o]), Board!Fail(q)} :
                 r.data = q.data
           /\ q.flight # Nothing =>
                 \A s \in Board!Answers(q, kitchen[o]) : Board!Land(q, s).data # Nothing
           /\ \A s : HasBeen(o, s) => Tells(Board!Write(q, s), o)
           /\ q.flight # Nothing =>
                 \A s \in Board!Answers(q, kitchen[o]) : Tells(Board!Land(q, s), o)
<1>1. HasBeen(o, kitchen[o])
  BY DEF HasBeen, Onwards, Stages, Board!Stages
<1>2. \A s : HasBeen(o, s) => s # Nothing
  BY CounterConstants DEF Board!OrderDeskConstants, HasBeen, Stages
<1> QED BY <1>1, <1>2 DEF Tells, Board!Fetch, Board!Refetch, Board!Fail, Board!Write, Board!Answers,
                    Board!Land, Board!UnderWay

LEMMA QueriesForget ==
    ASSUME NEW c \in Board!Commands, NEW o \in Tickets, kitchen \in [Tickets -> Stages],
           Over(c, kitchen[o]), NEW q, Tells(q, o)
    PROVE  /\ q.data # Nothing => Forgets(Board!Refetch(q, kitchen[o]), c)
           /\ Forgets(q, c) =>
                 /\ Forgets(Board!Fetch(q, kitchen[o]), c)
                 /\ Forgets(Board!Refetch(q, kitchen[o]), c)
                 /\ Forgets(Board!Fail(q), c)
                 /\ \A s : s \notin Board!From(c) => Forgets(Board!Write(q, s), c)
                 /\ \A s \in Board!Answers(q, kitchen[o]) : Forgets(Board!Land(q, s), c)
<1>1. kitchen[o] \notin Board!From(c) /\ Nothing \notin Board!From(c) /\ kitchen[o] # Nothing
  BY OnceOverAlwaysOver, CounterConstants DEF Board!OrderDeskConstants, Stages
<1> QED BY <1>1 DEF Tells, Forgets, Board!Fetch, Board!Refetch, Board!Fail, Board!Write,
                    Board!Answers, Board!Land, Board!UnderWay

\* The orders move on, on the server, and nothing else does.
LEMMA OrdersMove ==
    ASSUME BoardKnows, NEW o \in Tickets, NEW s \in Stages \ {"absent"},
           s \in Onwards(kitchen[o]), kitchen' = [kitchen EXCEPT ![o] = s],
           UNCHANGED <<drawer, details, confirming, barred>>
    PROVE  /\ kitchen' \in [Tickets -> Stages]
           /\ \A p \in Tickets : kitchen'[p] \in Onwards(kitchen[p])
           /\ drawer' \in Tickets \cup {0} /\ (drawer' # 0 => kitchen'[drawer'] # "absent")
           /\ \A p \in Tickets : \A r : HasBeen(p, r) => HasBeen(p, r)'
           /\ \A p \in Tickets, c \in Board!Commands :
                 Over(c, kitchen[p]) => Over(c, kitchen'[p])
           /\ \A p \in Tickets : \A c : WasLegal(c, p) => WasLegal(c, p)'
           /\ SentIsSound /\ sent' = sent => SentIsSound'
           /\ \A p \in Tickets : Tells(details[p], p)'
<1>1. kitchen \in [Tickets -> Stages]
  BY DEF BoardKnows
<1>2. kitchen' \in [Tickets -> Stages]
  BY <1>1
<1>3. \A p \in Tickets : kitchen'[p] \in Onwards(kitchen[p])
  <2>1. \A r \in Stages : r \in Onwards(r)
    BY DEF Onwards, Stages, Board!Stages
  <2> QED BY <1>1, <2>1
<1>9. drawer' \in Tickets \cup {0} /\ (drawer' # 0 => kitchen'[drawer'] # "absent")
  BY <1>1, <1>2 DEF BoardKnows, Stages
<1>4. \A p \in Tickets : \A r : HasBeen(p, r) => HasBeen(p, r)'
  BY <1>3, OnwardsIsTransitive DEF HasBeen
<1>5. \A p \in Tickets, c \in Board!Commands : Over(c, kitchen[p]) => Over(c, kitchen'[p])
  BY <1>1, <1>3, OnceOverAlwaysOver
<1>6. \A p \in Tickets : \A c : WasLegal(c, p) => WasLegal(c, p)'
  BY <1>4 DEF WasLegal
<1>7. SentIsSound /\ sent' = sent => SentIsSound'
  BY <1>4, <1>5, <1>6 DEF SentIsSound, WasLegal
<1>8. \A p \in Tickets : Tells(details[p], p)'
  BY <1>4 DEF BoardKnows, Tells
<1> QED BY <1>2, <1>3, <1>9, <1>4, <1>5, <1>6, <1>7, <1>8

LEMMA MoveKeeps ==
    ASSUME BoardKnows, NEW o \in Tickets, Board!MoveElsewhere(o), InUse \subseteq Board!Commands
    PROVE  BoardKnows'
<1>1. PICK s \in Stages \ {"absent"} :
         s \in Onwards(kitchen[o]) /\ kitchen' = [kitchen EXCEPT ![o] = s]
  <2>1. CASE kitchen[o] = "absent" /\ kitchen' = [kitchen EXCEPT ![o] = "submitted"]
    BY <2>1 DEF Onwards, Stages, Board!Stages
  <2>2. ASSUME NEW c \in InUse, kitchen[o] \in Board!From(c),
               kitchen' = [kitchen EXCEPT ![o] = Board!To(c, @)]
        PROVE  \E s \in Stages \ {"absent"} :
                  s \in Onwards(kitchen[o]) /\ kitchen' = [kitchen EXCEPT ![o] = s]
    <3>1. kitchen[o] \in Stages /\ kitchen[o] \in Onwards(kitchen[o])
      BY DEF BoardKnows, Onwards, Stages, Board!Stages
    <3> QED BY <2>2, <3>1, OrdersGoOn
  <2> QED BY <2>1, <2>2 DEF Board!MoveElsewhere
<1>2. UNCHANGED <<drawer, details, confirming, barred, sent>>
  BY DEF Board!MoveElsewhere
<1> QED BY <1>1, <1>2, OrdersMove DEF BoardKnows, RefusalIsKnown

LEMMA RunKeeps ==
    ASSUME BoardKnows, Board!RunCommand
    PROVE  BoardKnows'
<1>1. /\ sent # Board!Unsent /\ sent.result = "none" /\ drawer \in Tickets /\ sent.order = drawer
      /\ DOMAIN sent = {"command", "order", "result"}
      /\ sent = [part \in DOMAIN sent |-> sent[part]]
      /\ sent.command \in Board!Commands /\ kitchen[drawer] \in Stages
      /\ details[drawer].data # Nothing
      /\ WasLegal(sent.command, drawer)
      /\ UNCHANGED <<drawer, details, confirming, barred>>
  BY DEF Board!RunCommand, Board!NoCommand, BoardKnows, SentIsSound, WasLegal
<1>2. CASE kitchen[drawer] \in Board!From(sent.command)
  <2>0. PICK s : s = Board!To(sent.command, kitchen[drawer])
    OBVIOUS
  <2>1. /\ s \in Stages \ {"absent"} /\ s \in Onwards(kitchen[drawer])
        /\ kitchen[drawer] \in Onwards(kitchen[drawer])
    BY <1>1, <1>2, <2>0, OrdersGoOn DEF Onwards, Stages, Board!Stages
  <2>2. kitchen' = [kitchen EXCEPT ![drawer] = s] /\ sent' = [sent EXCEPT !.result = s]
    BY <1>1, <1>2, <2>0 DEF Board!RunCommand
  <2>3. HasBeen(drawer, s)'
    <3>1. kitchen'[drawer] = s /\ s \in Onwards(s)
      BY <1>1, <2>1, <2>2 DEF BoardKnows, Onwards, Stages, Board!Stages
    <3> QED BY <1>1, <2>1, <3>1 DEF HasBeen
  <2>4. SentIsSound'
    BY <1>1, <2>1, <2>2, <2>3, OrdersMove DEF SentIsSound, Stages, Board!Stages
  <2>5. RefusalIsKnown'
    <3>1. barred # Board!Unsent /\ barred.order = drawer => s \notin Board!From(barred.command)
      BY <1>1, <2>1, OnceOverAlwaysOver DEF BoardKnows, RefusalIsKnown, Over
    <3> QED BY <1>1, <2>1, <2>2, <3>1, OrdersMove DEF BoardKnows, RefusalIsKnown
  <2> QED BY <1>1, <2>1, <2>2, <2>4, <2>5, OrdersMove DEF BoardKnows
<1>3. CASE kitchen[drawer] \notin Board!From(sent.command)
  <2>1. sent' = [sent EXCEPT !.result = "refused"] /\ kitchen' = kitchen
    BY <1>1, <1>3 DEF Board!RunCommand
  <2>2. Over(sent.command, kitchen[drawer])
    BY <1>1, <1>3, OnceOverAlwaysOver DEF WasLegal, HasBeen
  <2>3. SentIsSound'
    BY <1>1, <2>1, <2>2 DEF SentIsSound, WasLegal, HasBeen
  <2>4. RefusalIsKnown'
    <3>1. barred # Board!Unsent => "refused" \notin Board!From(barred.command)
      BY OnceOverAlwaysOver DEF BoardKnows, RefusalIsKnown, Stages, Board!Stages
    <3> QED BY <1>1, <2>1, <3>1 DEF BoardKnows, RefusalIsKnown
  <2> QED BY <1>1, <2>1, <2>3, <2>4 DEF BoardKnows, WasLegal, HasBeen, Tells
<1> QED BY <1>2, <1>3

\* While the orders rest, one detail is asked for or answered.
LEMMA OneDetail ==
    ASSUME BoardKnows, NEW o \in Tickets, NEW q, Tells(q, o),
           details[o].data # Nothing => q.data # Nothing, details' = [details EXCEPT ![o] = q],
           barred # Board!Unsent /\ barred.order = o => Forgets(q, barred.command),
           UNCHANGED <<kitchen, confirming, sent, barred>>,
           drawer' = drawer \/ (drawer = 0 /\ drawer' = o /\ kitchen[o] # "absent")
    PROVE  BoardKnows'
<1>1. DOMAIN details' = Tickets /\ details' = [p \in Tickets |-> details'[p]]
      /\ \A p \in Tickets : details'[p] = IF p = o THEN q ELSE details[p]
  BY DEF BoardKnows
<1>2. \A p \in Tickets : Tells(details[p], p)'
  BY <1>1 DEF BoardKnows, Tells, HasBeen
<1>3. 0 \notin Tickets
  BY DEF Tickets, Board!Tickets
<1>4. SentIsSound' /\ RefusalIsKnown'
  BY <1>1, <1>3 DEF BoardKnows, SentIsSound, RefusalIsKnown, WasLegal, HasBeen
<1>5. drawer' \in Tickets \cup {0} /\ (drawer' # 0 => kitchen'[drawer'] # "absent")
      /\ (confirming' # "none" => drawer' \in Tickets /\ WasLegal(confirming, drawer)')
  BY <1>3 DEF BoardKnows, WasLegal, HasBeen
<1> QED BY <1>1, <1>2, <1>4, <1>5 DEF BoardKnows

LEMMA DetailSteps ==
    ASSUME BoardKnows,
           \/ Board!PollDetail
           \/ \E o \in Tickets : Board!LandDetail(o)
           \/ \E o \in Tickets : Board!OpenOrder(o)
           \/ \E o \in Tickets : /\ details[o].flight # Nothing
                                 /\ details' = [details EXCEPT ![o] = Board!Fail(@)]
                                 /\ UNCHANGED <<kitchen, confirming, sent, barred, drawer>>
    PROVE  BoardKnows'
<1>1. \A o \in Tickets : kitchen \in [Tickets -> Stages] /\ Tells(details[o], o)
  BY DEF BoardKnows
<1>2. \A o \in Tickets :
         barred # Board!Unsent /\ barred.order = o
            => /\ Over(barred.command, kitchen[o]) /\ barred.command \in Board!Commands
               /\ Forgets(details[o], barred.command)
  BY DEF BoardKnows, RefusalIsKnown
<1>3. CASE Board!PollDetail
  <2>1. /\ drawer \in Tickets /\ kitchen[drawer] # "absent"
        /\ details' = [details EXCEPT ![drawer] = Board!Fetch(details[drawer], kitchen[drawer])]
        /\ UNCHANGED <<kitchen, confirming, sent, barred, drawer>>
    BY <1>3 DEF Board!PollDetail, Board!Nobody, BoardKnows
  <2>2. /\ Tells(Board!Fetch(details[drawer], kitchen[drawer]), drawer)
        /\ Board!Fetch(details[drawer], kitchen[drawer]).data = details[drawer].data
    BY <1>1, <2>1, QueriesTell
  <2>3. barred # Board!Unsent /\ barred.order = drawer
           => Forgets(Board!Fetch(details[drawer], kitchen[drawer]), barred.command)
    BY <1>1, <1>2, <2>1, QueriesForget
  <2> QED BY <2>1, <2>2, <2>3, OneDetail
<1>4. ASSUME NEW o \in Tickets, Board!LandDetail(o)
      PROVE  BoardKnows'
  <2>1. /\ details[o].flight # Nothing
        /\ UNCHANGED <<kitchen, confirming, sent, barred, drawer>>
    BY <1>4 DEF Board!LandDetail, Board!UnderWay
  <2>2. PICK s \in Board!Answers(details[o], kitchen[o]) :
           details' = [details EXCEPT ![o] = Board!Land(details[o], s)]
    BY <1>4 DEF Board!LandDetail
  <2>3. kitchen[o] # "absent"
    BY <1>1, <2>1 DEF Tells, HasBeen, Onwards, Stages, Board!Stages
  <2>4. Tells(Board!Land(details[o], s), o)
    BY <1>1, <2>1, <2>3, QueriesTell
  <2>5. Board!Land(details[o], s).data # Nothing
    <3>1. \A r \in Board!Answers(details[o], kitchen[o]) : Board!Land(details[o], r).data # Nothing
      BY <1>1, <2>1, <2>3, QueriesTell
    <3> QED BY <3>1
  <2>6. barred # Board!Unsent /\ barred.order = o => Forgets(Board!Land(details[o], s), barred.command)
    BY <1>1, <1>2, QueriesForget
  <2> QED BY <2>1, <2>2, <2>4, <2>5, <2>6, OneDetail
<1>5. ASSUME NEW o \in Tickets, Board!OpenOrder(o)
      PROVE  BoardKnows'
  <2>1. /\ drawer = 0 /\ drawer' = o /\ kitchen[o] # "absent"
        /\ details' = [details EXCEPT ![o] = Board!Fetch(details[o], kitchen[o])]
        /\ UNCHANGED <<kitchen, confirming, sent, barred>>
    BY <1>5 DEF Board!OpenOrder, Board!Nobody
  <2>2. /\ Tells(Board!Fetch(details[o], kitchen[o]), o)
        /\ Board!Fetch(details[o], kitchen[o]).data = details[o].data
    BY <1>1, <2>1, QueriesTell
  <2>3. barred # Board!Unsent /\ barred.order = o
           => Forgets(Board!Fetch(details[o], kitchen[o]), barred.command)
    BY <1>1, <1>2, QueriesForget
  <2> QED BY <2>1, <2>2, <2>3, OneDetail
<1>6. ASSUME NEW o \in Tickets, details[o].flight # Nothing,
             details' = [details EXCEPT ![o] = Board!Fail(details[o])],
             UNCHANGED <<kitchen, confirming, sent, barred, drawer>>
      PROVE  BoardKnows'
  <2>1. kitchen[o] # "absent"
    BY <1>1, <1>6 DEF Tells, HasBeen, Onwards, Stages, Board!Stages
  <2>2. Tells(Board!Fail(details[o]), o) /\ Board!Fail(details[o]).data = details[o].data
    BY <1>1, <2>1, QueriesTell
  <2>3. barred # Board!Unsent /\ barred.order = o => Forgets(Board!Fail(details[o]), barred.command)
    BY <1>1, <1>2, QueriesForget
  <2> QED BY <1>6, <2>2, <2>3, OneDetail
<1> QED BY <1>3, <1>4, <1>5, <1>6

\* While orders and details rest.
LEMMA TalkKeeps ==
    ASSUME BoardKnows, UNCHANGED <<kitchen, details, barred>>,
           drawer' = drawer \/ drawer' = 0, confirming' # "none" => drawer' \in Tickets /\ WasLegal(confirming', drawer'),
           SentIsSound',
           barred # Board!Unsent /\ sent' # Board!Unsent /\ sent'.order = barred.order
               => sent'.result \notin Board!From(barred.command)
    PROVE  BoardKnows'
<1>1. \A c, o : WasLegal(c, o) <=> WasLegal(c, o)'
  BY DEF WasLegal, HasBeen
<1>2. \A o \in Tickets : Tells(details[o], o)'
  BY DEF BoardKnows, Tells, HasBeen
<1>3. RefusalIsKnown'
  BY DEF BoardKnows, RefusalIsKnown
<1> QED BY <1>1, <1>2, <1>3 DEF BoardKnows, WasLegal, HasBeen

LEMMA NoAnswerYet ==
    ASSUME BoardKnows, barred # Board!Unsent
    PROVE  "none" \notin Board!From(barred.command) /\ "lost" \notin Board!From(barred.command)
BY OnceOverAlwaysOver DEF BoardKnows, RefusalIsKnown, Stages, Board!Stages

\* The buttons are those of a status that the order has had.
LEMMA SendKeeps ==
    ASSUME BoardKnows, NEW c, drawer \in Tickets, WasLegal(c, drawer),
           details[drawer].data # Nothing, Board!Send(c),
           confirming' \in {confirming, "none"}
    PROVE  BoardKnows'
<1>1. /\ sent' = [command |-> c, order |-> drawer, result |-> "none"]
      /\ UNCHANGED <<kitchen, drawer, details, barred>>
  BY DEF Board!Send, Board!NoCommand
<1>2. SentIsSound'
  BY <1>1 DEF SentIsSound, WasLegal, HasBeen
<1> QED BY <1>1, <1>2, NoAnswerYet, TalkKeeps DEF BoardKnows

LEMMA PageSteps ==
    ASSUME BoardKnows, InUse \subseteq Board!Commands,
           \/ \E c \in InUse : Board!PressCommand(c)
           \/ Board!ConfirmCommand \/ Board!KeepIt \/ Board!CloseOrder \/ Board!LoseCommand
    PROVE  BoardKnows'
<1>1. ASSUME NEW c \in InUse, Board!PressCommand(c) PROVE BoardKnows'
  <2>1. drawer \in Tickets /\ WasLegal(c, drawer) /\ details[drawer].data # Nothing
    BY <1>1 DEF Board!PressCommand, Board!Nobody, Board!Usable, BoardKnows, Tells, WasLegal
  <2>2. CASE c \in Board!Confirmed
    <3>1. confirming' = c /\ UNCHANGED <<kitchen, details, barred, drawer, sent>>
      BY <1>1, <2>2 DEF Board!PressCommand
    <3>2. SentIsSound'
      BY <3>1 DEF BoardKnows, SentIsSound, WasLegal, HasBeen
    <3> QED BY <2>1, <3>1, <3>2, TalkKeeps DEF BoardKnows, RefusalIsKnown
  <2>3. CASE c \notin Board!Confirmed
    BY <1>1, <2>1, <2>3, SendKeeps DEF Board!PressCommand
  <2> QED BY <2>2, <2>3
<1>2. CASE Board!ConfirmCommand
  BY <1>2, SendKeeps DEF Board!ConfirmCommand, Board!NoCommand, Board!Usable, BoardKnows
<1>3. CASE Board!KeepIt \/ Board!CloseOrder
  <2>1. /\ confirming' = "none" /\ UNCHANGED <<kitchen, details, barred, sent>> /\ sent = Board!Unsent
        /\ drawer' \in {drawer, 0}
    BY <1>3 DEF Board!KeepIt, Board!CloseOrder, Board!NoCommand, Board!Nobody
  <2> QED BY <2>1, TalkKeeps DEF SentIsSound
<1>4. CASE Board!LoseCommand
  <2>1. /\ sent # Board!Unsent /\ sent' = [sent EXCEPT !.result = "lost"]
        /\ UNCHANGED <<kitchen, drawer, details, confirming, barred>>
    BY <1>4 DEF Board!LoseCommand
  <2>2. SentIsSound'
    BY <2>1 DEF BoardKnows, SentIsSound, WasLegal, HasBeen
  <2>3. sent'.result = "lost"
    BY <2>1 DEF BoardKnows, SentIsSound
  <2> QED BY <2>1, <2>2, <2>3, NoAnswerYet, TalkKeeps DEF BoardKnows
<1> QED BY <1>1, <1>2, <1>3, <1>4

\* A refusal is told, and the detail that was on screen is asked for again.
LEMMA TakeKeeps ==
    ASSUME BoardKnows, Board!TakeResult
    PROVE  BoardKnows'
<1> DEFINE o == drawer
           q == IF sent.result \in {"refused", "lost"} THEN Board!Refetch(details[o], kitchen[o])
                ELSE Board!Write(details[o], sent.result)
<1>1. /\ sent # Board!Unsent /\ sent.result # "none" /\ sent' = Board!Unsent
      /\ details' = [details EXCEPT ![o] = q]
      /\ barred' = IF sent.result = "refused" THEN [sent EXCEPT !.result = "none"] ELSE barred
      /\ UNCHANGED <<kitchen, drawer, confirming>>
  BY DEF Board!TakeResult, Board!NoCommand
<1>2. /\ o \in Tickets /\ sent.order = o /\ WasLegal(sent.command, o)
      /\ sent.result = "refused" => Over(sent.command, kitchen[o])
      /\ sent.result \notin {"refused", "lost"} => HasBeen(o, sent.result)
      /\ kitchen[o] # "absent" /\ kitchen \in [Tickets -> Stages] /\ Tells(details[o], o)
      /\ details[o].data # Nothing
  BY <1>1 DEF BoardKnows, SentIsSound, Tickets, Board!Tickets
<1>3. Tells(q, o)
  BY <1>2, QueriesTell
<1>4. /\ DOMAIN details' = Tickets /\ details' = [p \in Tickets |-> details'[p]]
      /\ \A p \in Tickets : details'[p] = IF p = o THEN q ELSE details[p]
  BY <1>1 DEF BoardKnows
<1>5. \A p \in Tickets : Tells(details[p], p)'
  <2>1. \A p \in Tickets : Tells(details'[p], p)
    BY <1>3, <1>4 DEF BoardKnows
  <2> QED BY <1>1, <2>1 DEF Tells, HasBeen
<1>6. RefusalIsKnown'
  <2>1. CASE sent.result = "refused"
    <3>1. barred'.order = o /\ barred'.command = sent.command
      BY <1>1, <1>2, <2>1 DEF BoardKnows, SentIsSound
    <3>2. Forgets(q, sent.command)
      BY <1>2, <2>1, QueriesForget DEF WasLegal
    <3> HIDE DEF q
    <3>3. sent' = Board!Unsent' /\ details'[o] = q
      BY <1>1, <1>2, <1>4 DEF Board!Unsent
    <3>4. Over(barred'.command, kitchen'[barred'.order])
      BY <1>1, <1>2, <2>1, <3>1
    <3>5. Forgets(details'[barred'.order], barred'.command)
      BY <1>1, <1>2, <1>4, <3>1, <3>2
    <3> QED BY <1>2, <3>1, <3>3, <3>4, <3>5 DEF RefusalIsKnown, WasLegal, Forgets
  <2>2. CASE sent.result # "refused"
    <3>1. barred # Board!Unsent /\ barred.order = o => Forgets(q, barred.command)
      BY <1>1, <1>2, <2>2, QueriesForget DEF BoardKnows, RefusalIsKnown
    <3> QED BY <1>1, <1>4, <2>2, <3>1 DEF BoardKnows, RefusalIsKnown
  <2> QED BY <2>1, <2>2
<1> QED BY <1>1, <1>4, <1>5, <1>6 DEF BoardKnows, SentIsSound, WasLegal, HasBeen

LEMMA BoardGoesOn ==
    ASSUME BoardKnows, [Board!OrderDeskNext]_(Board!orderDeskVars)
    PROVE  BoardKnows'
<1>1. InUse \subseteq Board!Commands /\ Opened \subseteq Tickets
  BY CounterConstants DEF Board!OrderDeskConstants, Tickets, Board!Tickets
<1>2. CASE \E o \in Board!Tickets : Board!MoveElsewhere(o)
  BY <1>1, <1>2, MoveKeeps DEF Tickets
<1>3. CASE Board!PollWatch \/ Board!LandWatch \/ Board!ShowNewOrders \/ UNCHANGED Board!orderDeskVars
  <2>1. UNCHANGED <<kitchen, details, drawer, confirming, sent, barred>>
    BY <1>3 DEF Board!PollWatch, Board!LandWatch, Board!ShowNewOrders, Board!orderDeskVars
  <2> QED BY <2>1 DEF BoardKnows, SentIsSound, RefusalIsKnown, Tells, WasLegal, HasBeen
<1>4. CASE Board!FailRead
  <2>1. UNCHANGED <<kitchen, confirming, sent, barred, drawer>>
    BY <1>4 DEF Board!FailRead
  <2>2. CASE UNCHANGED details
    BY <2>1, <2>2 DEF BoardKnows, SentIsSound, RefusalIsKnown, Tells, WasLegal, HasBeen
  <2>3. CASE \E o \in Tickets : /\ details[o].flight # Nothing
                                /\ details' = [details EXCEPT ![o] = Board!Fail(@)]
    BY <2>1, <2>3, DetailSteps
  <2> QED BY <1>4, <2>2, <2>3 DEF Board!FailRead, Board!UnderWay, Tickets
<1>5. CASE Board!PollDetail \/ (\E o \in Board!Tickets : Board!LandDetail(o))
           \/ (\E o \in Opened : Board!OpenOrder(o))
  BY <1>1, <1>5, DetailSteps DEF Tickets
<1>6. CASE \/ \E c \in InUse : Board!PressCommand(c)
           \/ Board!ConfirmCommand \/ Board!KeepIt \/ Board!CloseOrder \/ Board!LoseCommand
  BY <1>1, <1>6, PageSteps
<1> QED BY <1>2, <1>3, <1>4, <1>5, <1>6, RunKeeps, TakeKeeps DEF Board!OrderDeskNext

LEMMA BoardSteps ==
    [CustomerNext]_customerVars => [Board!OrderDeskNext]_(Board!orderDeskVars)
BY DEF CustomerNext, Shops, ChecksOut, Tracks, OnBoard, Lists, OnNotices, OnServer, Browsing,
       customerVars, roomVars, boardVars, Board!orderDeskVars

(* A command that was refused because the order had moved is not offered     *)
(* again on the word of an older answer (OrdersPage.tsx, useOrderCommand).   *)
LEMMA RefusalsAreKept == CustomerSpec => []Board!RefusedStaysRefused
<1>1. CustomerInit => BoardKnows
  BY BoardStarts DEF CustomerInit
<1>2. BoardKnows /\ [CustomerNext]_customerVars => BoardKnows'
  BY BoardSteps, BoardGoesOn
<1>3. BoardKnows => Board!RefusedStaysRefused
  BY DEF BoardKnows, RefusalIsKnown, Forgets, Board!RefusedStaysRefused,
         Board!UnderWay, Board!Usable
<1> QED BY <1>1, <1>2, <1>3, PTL DEF CustomerSpec

-----------------------------------------------------------------------------
(* The watch of the board: the alert counts what joined the orders it has    *)
(* seen, and those are finitely many.                                        *)

WatchCounts ==
    /\ DOMAIN watch = {"data", "failed", "flight"}
    /\ watch = [part \in DOMAIN watch |-> watch[part]]
    /\ watch.flight # Nothing => watch.flight \subseteq Tickets
    /\ noticed = Nothing => arrivals = 0
    /\ noticed # Nothing =>
          noticed \subseteq Tickets /\ arrivals \in Nat /\ arrivals <= Cardinality(noticed)

LEMMA NewestAreOrders == Board!Newest(Board!Submitted) \subseteq Tickets
BY DEF Board!Newest, Board!Submitted, Tickets

LEMMA OrdersAreFinite == \A set \in SUBSET Tickets : IsFiniteSet(set) /\ Cardinality(set) \in Nat
<1>1. IsFiniteSet(Tickets)
  BY FS_Interval, CounterConstants DEF Board!OrderDeskConstants, Tickets, Board!Tickets
<1> QED BY <1>1, FS_Subset, FS_CardinalityType

LEMMA BoardCardinality == \A set : Board!Cardinality(set) = Cardinality(set)
BY DEF Board!Cardinality, Cardinality, Board!IsFiniteSet, IsFiniteSet

LEMMA LandWatchCounts ==
    ASSUME WatchCounts, Board!LandWatch
    PROVE  WatchCounts'
<1>1. PICK ids \in SUBSET Tickets :
         /\ watch' = Board!Land(watch, ids)
         /\ IF noticed = Nothing THEN noticed' = ids /\ arrivals' = arrivals
            ELSE noticed' = noticed \cup ids /\ arrivals' = arrivals + Cardinality(ids \ noticed)
  BY NewestAreOrders, BoardCardinality DEF Board!LandWatch, Board!Answers, Board!UnderWay, Board!Remembered, WatchCounts
<1>2. Nothing \notin SUBSET Tickets
  BY CounterConstants DEF Board!OrderDeskConstants, Tickets, Board!Tickets
<1>3. CASE noticed = Nothing
  <2>1. Cardinality(ids) \in Nat /\ arrivals = 0
    BY <1>3, OrdersAreFinite DEF WatchCounts
  <2> QED BY <1>1, <1>2, <1>3, <2>1 DEF WatchCounts, Board!Land
<1>4. CASE noticed # Nothing
  <2> DEFINE new == ids \ noticed
  <2>1. /\ noticed \subseteq Tickets /\ noticed \cup new \subseteq Tickets
        /\ new \subseteq Tickets /\ noticed \cap new = {}
        /\ noticed \cup ids = noticed \cup new
    BY <1>4 DEF WatchCounts
  <2>2. Cardinality(noticed \cup new) = Cardinality(noticed) + Cardinality(new)
    BY <2>1, OrdersAreFinite, FS_Union, FS_EmptySet
  <2>3. /\ Cardinality(noticed) \in Nat /\ Cardinality(new) \in Nat
        /\ arrivals \in Nat /\ arrivals <= Cardinality(noticed)
    BY <1>4, <2>1, OrdersAreFinite DEF WatchCounts
  <2>4. noticed' = noticed \cup new /\ arrivals' = arrivals + Cardinality(new)
    BY <1>1, <1>4, <2>1
  <2> HIDE DEF new
  <2>5. arrivals' \in Nat /\ arrivals' <= Cardinality(noticed')
    BY <2>2, <2>3, <2>4
  <2> QED BY <1>1, <1>2, <2>1, <2>4, <2>5 DEF WatchCounts, Board!Land
<1> QED BY <1>3, <1>4

LEMMA WatchGoesOn ==
    ASSUME WatchCounts, [Board!OrderDeskNext]_(Board!orderDeskVars)
    PROVE  WatchCounts'
<1>1. ASSUME UNCHANGED <<noticed, arrivals>>,
             \/ UNCHANGED watch \/ watch' = Board!Fail(watch)
             \/ watch' = Board!Fetch(watch, Board!Newest(Board!Submitted))
             \/ watch' = Board!Refetch(watch, Board!Newest(Board!Submitted))
      PROVE  WatchCounts'
  <2>1. UNCHANGED watch \/ watch' = Board!Fail(watch)
        \/ \E ids \in SUBSET Tickets : watch' = Board!Fetch(watch, ids) \/ watch' = Board!Refetch(watch, ids)
    BY <1>1, NewestAreOrders
  <2> QED BY <1>1, <2>1 DEF WatchCounts, Board!Fail, Board!Fetch, Board!Refetch, Board!UnderWay
<1>2. CASE Board!ShowNewOrders
  <2>1. arrivals' = 0 /\ UNCHANGED <<watch, noticed>>
    BY <1>2 DEF Board!ShowNewOrders
  <2> QED BY <2>1, OrdersAreFinite DEF WatchCounts
<1>3. CASE Board!PollWatch \/ Board!FailRead \/ Board!TakeResult
  BY <1>1, <1>3 DEF Board!PollWatch, Board!FailRead, Board!TakeResult
<1>4. CASE \/ \E o \in Board!Tickets : Board!MoveElsewhere(o) \/ Board!LandDetail(o)
           \/ \E o \in Opened : Board!OpenOrder(o)
           \/ \E c \in InUse : Board!PressCommand(c)
           \/ Board!RunCommand \/ Board!LoseCommand \/ Board!PollDetail \/ Board!CloseOrder
           \/ Board!ConfirmCommand \/ Board!KeepIt \/ UNCHANGED Board!orderDeskVars
  <2>1. UNCHANGED <<noticed, arrivals, watch>>
    BY <1>4 DEF Board!MoveElsewhere, Board!LandDetail, Board!OpenOrder, Board!PressCommand, Board!Send,
                Board!RunCommand, Board!LoseCommand, Board!PollDetail, Board!CloseOrder,
                Board!ConfirmCommand, Board!KeepIt, Board!orderDeskVars
  <2> QED BY <1>1, <2>1
<1> QED BY <1>2, <1>3, <1>4, LandWatchCounts DEF Board!OrderDeskNext

(* The alert counts an order once (OrdersPage.tsx, the watch for new orders). *)
LEMMA AlertsCountOnce == CustomerSpec => []Board!CountedOnce
<1>1. CustomerInit => WatchCounts
  <2>1. Board!OrderDeskInit => WatchCounts
    BY NewestAreOrders DEF Board!OrderDeskInit, WatchCounts, Board!Fetch, Board!NotAsked, Board!UnderWay
  <2> QED BY <2>1 DEF CustomerInit
<1>2. WatchCounts /\ [CustomerNext]_customerVars => WatchCounts'
  BY BoardSteps, WatchGoesOn
<1>3. WatchCounts => Board!CountedOnce
  BY BoardCardinality DEF WatchCounts, Board!CountedOnce
<1> QED BY <1>1, <1>2, <1>3, PTL DEF CustomerSpec

(* Both: no older answer offers a refused command again, and the alert       *)
(* counts an order once.                                                     *)
THEOREM BoardKeepsTrue == CustomerSpec => []BoardStaysTrue
BY RefusalsAreKept, AlertsCountOnce, PTL DEF BoardStaysTrue

\* What the queries, the drawer and the command under way hold.

BoardTyped ==
    /\ watch \in Board!Queries(SUBSET Tickets)
    /\ details \in [Tickets -> Board!Queries(Stages \ {"absent"})]
    /\ confirming \in Board!Confirmed \cup {"none"}
    /\ sent \in Board!Sent \cup {Board!Unsent}

LEMMA QueriesType ==
    ASSUME NEW D, NEW q \in Board!Queries(D), NEW now \in D
    PROVE  /\ Board!Fetch(q, now) \in Board!Queries(D)
           /\ Board!Refetch(q, now) \in Board!Queries(D)
           /\ Board!Land(q, now) \in Board!Queries(D)
           /\ Board!Write(q, now) \in Board!Queries(D)
           /\ q.flight # Nothing => q.flight \in D
BY DEF Board!Queries, Board!Fetch, Board!Refetch, Board!Land, Board!Write

LEMMA FailedQuery ==
    ASSUME NEW D, NEW q \in Board!Queries(D)
    PROVE  Board!Fail(q) \in Board!Queries(D)
BY DEF Board!Queries, Board!Fail

LEMMA BoardTypesGoOn ==
    ASSUME BoardKnows, BoardTyped, [Board!OrderDeskNext]_(Board!orderDeskVars)
    PROVE  BoardTyped'
<1> DEFINE D == Stages \ {"absent"}
           W == SUBSET Tickets
           now == Board!Newest(Board!Submitted)
<1>1. /\ watch \in Board!Queries(W) /\ details \in [Tickets -> Board!Queries(D)] /\ now \in W
      /\ drawer # 0 => drawer \in Tickets /\ kitchen[drawer] \in D
      /\ kitchen \in [Tickets -> Stages]
  BY NewestAreOrders DEF BoardTyped, BoardKnows
<1> HIDE DEF D, W, now
<1>2. CASE \/ \E o \in Board!Tickets : Board!MoveElsewhere(o)
           \/ Board!ShowNewOrders \/ Board!CloseOrder \/ Board!KeepIt
           \/ UNCHANGED Board!orderDeskVars
  BY <1>2 DEF Board!MoveElsewhere, Board!ShowNewOrders, Board!CloseOrder, Board!KeepIt,
              Board!orderDeskVars, BoardTyped, Board!NoCommand
<1>3. CASE Board!RunCommand
  <2>1. UNCHANGED <<watch, details, confirming>>
    BY <1>3 DEF Board!RunCommand
  <2>2. sent \in Board!Sent /\ sent.order \in Tickets /\ sent.command \in Board!Commands
    BY <1>3 DEF Board!RunCommand, BoardTyped, Board!Sent, Tickets
  <2>3. CASE kitchen[sent.order] \in Board!From(sent.command)
    <3> DEFINE s == Board!To(sent.command, kitchen[sent.order])
    <3>1. s \in Stages \ {"absent"}
      BY <1>1, <2>2, <2>3, OrdersGoOn
    <3>2. sent' = [sent EXCEPT !.result = s]
      BY <1>3, <2>3 DEF Board!RunCommand
    <3> HIDE DEF s
    <3>3. sent' \in Board!Sent
      BY <2>2, <3>1, <3>2 DEF Board!Sent, Stages
    <3> QED BY <2>1, <3>3 DEF BoardTyped
  <2>4. CASE kitchen[sent.order] \notin Board!From(sent.command)
    <3>1. sent' = [sent EXCEPT !.result = "refused"]
      BY <1>3, <2>4 DEF Board!RunCommand
    <3>2. sent' \in Board!Sent
      BY <2>2, <3>1 DEF Board!Sent
    <3> QED BY <2>1, <3>2 DEF BoardTyped
  <2> QED BY <2>3, <2>4
<1>4. CASE Board!LoseCommand
  <2>1. UNCHANGED <<watch, details, confirming>> /\ sent \in Board!Sent
        /\ sent' = [sent EXCEPT !.result = "lost"]
    BY <1>4 DEF Board!LoseCommand, BoardTyped
  <2>2. sent' \in Board!Sent
    BY <2>1 DEF Board!Sent
  <2> QED BY <2>1, <2>2 DEF BoardTyped
<1>5. CASE Board!PollWatch
  <2>1. watch' = Board!Fetch(watch, now) /\ UNCHANGED <<details, confirming, sent>>
    BY <1>5 DEF Board!PollWatch, now
  <2>2. watch' \in Board!Queries(W)
    BY <1>1, <2>1, QueriesType
  <2> QED BY <2>1, <2>2 DEF BoardTyped, W
<1>6. ASSUME NEW o \in Tickets, NEW q \in Board!Queries(D), details' = [details EXCEPT ![o] = q],
             UNCHANGED <<watch, confirming, sent>>
      PROVE  BoardTyped'
  <2>1. details' \in [Tickets -> Board!Queries(D)]
    BY <1>1, <1>6
  <2> QED BY <1>6, <2>1 DEF BoardTyped, D
<1>7. CASE Board!PollDetail
  <2>1. drawer \in Tickets /\ kitchen[drawer] \in D
        /\ details' = [details EXCEPT ![drawer] = Board!Fetch(details[drawer], kitchen[drawer])]
    BY <1>1, <1>7 DEF Board!PollDetail, Board!Nobody
  <2>2. Board!Fetch(details[drawer], kitchen[drawer]) \in Board!Queries(D)
    BY <1>1, <2>1, QueriesType
  <2> QED BY <1>6, <1>7, <2>1, <2>2 DEF Board!PollDetail
<1>8. CASE \E o \in Board!Tickets : Board!LandDetail(o)
  <2>1. PICK o \in Tickets : Board!LandDetail(o)
    BY <1>8 DEF Tickets
  <2>2. PICK got \in {details[o].flight, kitchen[o]} :
           details' = [details EXCEPT ![o] = Board!Land(details[o], got)]
    BY <1>1, <2>1 DEF Board!LandDetail, Board!Answers
  <2>3. details[o].flight # Nothing /\ HasBeen(o, details[o].flight)
    BY <2>1 DEF Board!LandDetail, Board!UnderWay, BoardKnows, Tells
  <2>4. details[o].flight \in D /\ kitchen[o] \in D
    BY <1>1, <2>3 DEF HasBeen, Onwards, D, Stages, Board!Stages
  <2>5. Board!Land(details[o], got) \in Board!Queries(D)
    BY <1>1, <2>2, <2>4, QueriesType
  <2> QED BY <1>6, <2>1, <2>2, <2>5 DEF Board!LandDetail
<1>9. CASE Board!FailRead
  <2>1. CASE watch' = Board!Fail(watch) /\ UNCHANGED details
    <3>1. watch' \in Board!Queries(W)
      BY <1>1, <2>1, FailedQuery
    <3> QED BY <1>9, <2>1, <3>1 DEF Board!FailRead, BoardTyped, W
  <2>2. ASSUME NEW o \in Tickets, details' = [details EXCEPT ![o] = Board!Fail(details[o])], UNCHANGED watch
        PROVE  BoardTyped'
    <3>1. Board!Fail(details[o]) \in Board!Queries(D)
      BY <1>1, FailedQuery
    <3> QED BY <1>6, <1>9, <2>2, <3>1 DEF Board!FailRead
  <2>3. \/ watch' = Board!Fail(watch) /\ UNCHANGED details
        \/ \E o \in Tickets : details' = [details EXCEPT ![o] = Board!Fail(details[o])] /\ UNCHANGED watch
    BY <1>1, <1>9 DEF Board!FailRead, Tickets
  <2> QED BY <2>1, <2>2, <2>3
<1>10. CASE Board!LandWatch
  <2>1. PICK ids \in {watch.flight, now} : watch' = Board!Land(watch, ids)
    BY <1>10 DEF Board!LandWatch, Board!Answers, now
  <2>2. watch.flight \in W
    BY <1>1, <1>10, QueriesType DEF Board!LandWatch, Board!UnderWay
  <2>3. watch' \in Board!Queries(W)
    BY <1>1, <2>1, <2>2, QueriesType
  <2> QED BY <1>10, <2>3 DEF Board!LandWatch, BoardTyped, W
<1>11. CASE \E o \in Opened : Board!OpenOrder(o)
  <2>1. PICK o \in Tickets : Board!OpenOrder(o)
    BY <1>11, CounterConstants DEF Board!OrderDeskConstants, Tickets, Board!Tickets
  <2>2. /\ details' = [details EXCEPT ![o] = Board!Fetch(details[o], kitchen[o])]
        /\ kitchen[o] \in D
    BY <1>1, <2>1 DEF Board!OpenOrder, D
  <2>3. Board!Fetch(details[o], kitchen[o]) \in Board!Queries(D)
    BY <1>1, <2>2, QueriesType
  <2> QED BY <1>6, <2>1, <2>2, <2>3 DEF Board!OpenOrder
<1>12. ASSUME NEW c \in Board!Commands, drawer \in Tickets, Board!Send(c),
              confirming' \in {confirming, "none"}
       PROVE  BoardTyped'
  <2>1. sent' \in Board!Sent /\ UNCHANGED <<watch, details>>
    BY <1>12 DEF Board!Send, Board!Sent, Tickets, Board!NoCommand
  <2> QED BY <1>12, <2>1 DEF BoardTyped
<1>13. CASE \E c \in InUse : Board!PressCommand(c)
  <2>1. PICK c \in InUse : Board!PressCommand(c)
    BY <1>13
  <2>2. c \in Board!Commands /\ drawer \in Tickets
    BY <1>1, <2>1, CounterConstants DEF Board!OrderDeskConstants, Board!PressCommand, Board!Nobody
  <2>3. CASE c \in Board!Confirmed
    BY <2>1, <2>3 DEF Board!PressCommand, BoardTyped
  <2>4. CASE c \notin Board!Confirmed
    BY <1>12, <2>1, <2>2, <2>4 DEF Board!PressCommand
  <2> QED BY <2>3, <2>4
<1>14. CASE Board!ConfirmCommand
  <2>1. confirming # "none" /\ Board!Send(confirming) /\ confirming' = "none"
    BY <1>14 DEF Board!ConfirmCommand, Board!NoCommand
  <2>2. confirming \in Board!Commands /\ drawer \in Tickets
    BY <2>1 DEF BoardTyped, BoardKnows, Board!Confirmed, Board!Commands
  <2> QED BY <1>12, <2>1, <2>2
<1>15. CASE Board!TakeResult
  <2>1. /\ sent # Board!Unsent /\ sent.result # "none" /\ sent' = Board!Unsent
        /\ watch' = Board!Refetch(watch, now) \/ watch' = watch
        /\ confirming' = confirming
        /\ details' = [details EXCEPT ![drawer] =
              IF sent.result \in {"refused", "lost"} THEN Board!Refetch(details[drawer], kitchen[drawer])
              ELSE Board!Write(details[drawer], sent.result)]
    BY <1>1, <1>15 DEF Board!TakeResult, Board!NoCommand, now
  <2>2. /\ drawer \in Tickets /\ kitchen[drawer] \in D
        /\ sent.result \notin {"none", "refused", "lost"} => sent.result \in D
    BY <1>1, <2>1, CounterConstants DEF BoardKnows, SentIsSound, HasBeen, D, Board!Tickets, Tickets, Board!OrderDeskConstants
  <2>3. watch' \in Board!Queries(W)
    BY <1>1, <2>1, QueriesType
  <2>4. /\ Board!Refetch(details[drawer], kitchen[drawer]) \in Board!Queries(D)
        /\ sent.result \in D => Board!Write(details[drawer], sent.result) \in Board!Queries(D)
    BY <1>1, <2>2, QueriesType
  <2>5. details' \in [Tickets -> Board!Queries(D)]
    BY <1>1, <2>1, <2>2, <2>4
  <2> QED BY <2>1, <2>3, <2>5 DEF BoardTyped, D, W
<1> QED
  BY <1>2, <1>3, <1>4, <1>5, <1>7, <1>8, <1>9, <1>10, <1>11, <1>13, <1>14, <1>15 DEF Board!OrderDeskNext

LEMMA BoardTypesStart ==
    ASSUME Board!OrderDeskInit PROVE BoardTyped
<1>1. watch \in Board!Queries(SUBSET Tickets)
  BY NewestAreOrders DEF Board!OrderDeskInit, Board!Fetch, Board!NotAsked, Board!UnderWay, Board!Queries
<1> QED BY <1>1 DEF Board!OrderDeskInit, BoardTyped, Board!NotAsked, Board!Queries, Tickets, Board!NoCommand

LEMMA BoardTypes ==
    ASSUME BoardKnows, BoardTyped, WatchCounts PROVE Board!OrderDeskTypeOK
<1>1. arrivals \in 0 .. MaxOrders
  <2>1. CASE noticed = Nothing
    BY <2>1, CounterConstants DEF WatchCounts, Board!OrderDeskConstants
  <2>2. CASE noticed # Nothing
    <3>1. IsFiniteSet(Tickets) /\ Cardinality(Tickets) = MaxOrders
      BY FS_Interval, CounterConstants DEF Board!OrderDeskConstants, Tickets, Board!Tickets
    <3>2. Cardinality(noticed) \in Nat /\ Cardinality(noticed) <= MaxOrders
      BY <2>2, <3>1, FS_Subset, OrdersAreFinite DEF WatchCounts
    <3> QED BY <2>2, <3>2, CounterConstants DEF WatchCounts, Board!OrderDeskConstants
  <2> QED BY <2>1, <2>2
<1>2. noticed \in {Nothing} \cup SUBSET Tickets
  BY DEF WatchCounts
<1>3. sent # Board!Unsent => sent.order = drawer
  BY DEF BoardKnows, SentIsSound
<1>4. drawer = 0 => confirming = "none"
  BY CounterConstants DEF BoardKnows, Tickets, Board!Tickets, Board!OrderDeskConstants
<1> QED BY <1>1, <1>2, <1>3, <1>4 DEF BoardKnows, BoardTyped, Board!OrderDeskTypeOK, Tickets, Stages, Board!Nobody, Board!NoCommand

-----------------------------------------------------------------------------
(* The tracker: what it holds.                                               *)

Flight == [ask : {"read", "cancel"}, answer : Answers \cup {"none"}]

LEMMA FlightsType ==
    ASSUME TrackerTypeOK, NEW i \in DOMAIN flights
    PROVE  /\ Len(flights) \in Nat /\ i \in 1 .. Len(flights) /\ flights[i] \in Flight
           /\ \A got \in Answers : [flights EXCEPT ![i].answer = got] \in Seq(Flight)
                                      /\ Len([flights EXCEPT ![i].answer = got]) = Len(flights)
<1>1. flights \in Seq(Flight) /\ i \in 1 .. Len(flights) /\ Len(flights) \in Nat
  BY DEF TrackerTypeOK, Flight
<1>2. flights[i] \in Flight
  <2> HIDE DEF Flight
  <2> QED BY <1>1
<1>3. ASSUME NEW got \in Answers
      PROVE  /\ [flights EXCEPT ![i].answer = got] \in Seq(Flight)
             /\ Len([flights EXCEPT ![i].answer = got]) = Len(flights)
  <2> DEFINE f == [flights[i] EXCEPT !.answer = got]
  <2>1. f \in Flight
    BY <1>2 DEF Flight
  <2>2. [flights EXCEPT ![i].answer = got] = [flights EXCEPT ![i] = f]
    BY <1>1
  <2> HIDE DEF f, Flight
  <2> QED BY <1>1, <2>1, <2>2, ExceptSeq
<1> QED BY <1>1, <1>2, <1>3

LEMMA AppendedFlight ==
    ASSUME NEW rest \in Seq(Flight), NEW what \in {"read", "cancel"}
    PROVE  Append(rest, Asked(what)) \in Seq(Flight) /\ Len(Append(rest, Asked(what))) = Len(rest) + 1
<1>1. Asked(what) \in Flight
  BY DEF Asked, Flight
<1> DEFINE f == Asked(what)
<1> HIDE DEF f, Flight
<1>2. f \in Flight
  BY <1>1 DEF f
<1>3. Append(rest, f) \in Seq(Flight) /\ Len(Append(rest, f)) = Len(rest) + 1
  BY <1>2
<1> QED BY <1>3 DEF f

LEMMA TrackerGoesOn ==
    ASSUME TrackerTypeOK, [TrackerNext]_trackerVars
    PROVE  TrackerTypeOK'
<1>1. flights \in Seq(Flight) /\ Len(flights) <= MaxFlights /\ MaxFlights \in Nat
  BY TrackerConstants DEF TrackerTypeOK, Flight
<1>2. ASSUME UNCHANGED <<view, polling, tooLate, flights, calm>>,
             status' \in OrderStatuses, visible' \in BOOLEAN, cancelling' \in BOOLEAN
      PROVE  TrackerTypeOK'
  BY <1>2 DEF TrackerTypeOK
<1>3. CASE MoveOrder
  <2>1. After(status) \subseteq OrderStatuses
    BY DEF TrackerTypeOK, After, OrderStatuses, OpenStatuses, TerminalStatuses
  <2> QED BY <1>2, <1>3, <2>1 DEF MoveOrder, TrackerTypeOK
<1>4. CASE CloseOrReopen \/ AskToCancel \/ KeepOrder \/ UNCHANGED trackerVars
  <2>1. visible' \in BOOLEAN /\ cancelling' \in BOOLEAN /\ status' = status
    BY <1>4 DEF CloseOrReopen, AskToCancel, KeepOrder, trackerVars, TrackerTypeOK
  <2>2. UNCHANGED <<view, polling, tooLate, flights, calm>>
    BY <1>4 DEF CloseOrReopen, AskToCancel, KeepOrder, trackerVars
  <2>3. status \in OrderStatuses
    BY DEF TrackerTypeOK
  <2> QED BY <1>2, <2>1, <2>2, <2>3
<1>5. ASSUME UNCHANGED <<visible, view, polling, tooLate, calm>>,
             status' \in OrderStatuses, cancelling' \in BOOLEAN,
             flights' \in Seq(Flight), Len(flights') <= MaxFlights
      PROVE  TrackerTypeOK'
  BY <1>5 DEF TrackerTypeOK, Flight
<1>6. ASSUME NEW i \in DOMAIN flights, AnswerTracking(i) PROVE TrackerTypeOK'
  <2>1. AnswerOf(flights[i]) \in Answers
    BY DEF AnswerOf, Answers, TrackerTypeOK, OrderStatuses, OpenStatuses, TerminalStatuses
  <2>2. status' \in OrderStatuses
    BY <1>6 DEF AnswerTracking, TrackerTypeOK, OrderStatuses, TerminalStatuses
  <2>3. cancelling' \in BOOLEAN
    BY <1>6 DEF AnswerTracking, TrackerTypeOK
  <2>4. flights' \in Seq(Flight) /\ Len(flights') = Len(flights)
    BY <1>6, <2>1, FlightsType DEF AnswerTracking
  <2> QED BY <1>1, <1>5, <1>6, <2>2, <2>3, <2>4 DEF AnswerTracking
<1>7. ASSUME NEW i \in DOMAIN flights, LoseTracking(i) PROVE TrackerTypeOK'
  <2>1. "lost" \in Answers
    BY DEF Answers
  <2>2. flights' \in Seq(Flight) /\ Len(flights') = Len(flights)
    BY <1>7, <2>1, FlightsType DEF LoseTracking
  <2>3. status \in OrderStatuses /\ cancelling \in BOOLEAN
    BY DEF TrackerTypeOK
  <2> QED BY <1>1, <1>5, <1>7, <2>2, <2>3 DEF LoseTracking
<1>8. CASE Tick \/ ConfirmCancel
  <2>1. PICK what \in {"read", "cancel"} : flights' = Append(flights, Asked(what))
    BY <1>8 DEF Tick, ConfirmCancel
  <2>2. Len(flights) < MaxFlights /\ cancelling' \in BOOLEAN /\ status' \in OrderStatuses
    BY <1>8 DEF Tick, ConfirmCancel, TrackerTypeOK
  <2>3. flights' \in Seq(Flight) /\ Len(flights') <= MaxFlights
    BY <1>1, <2>1, <2>2, AppendedFlight
  <2> QED BY <1>5, <1>8, <2>2, <2>3 DEF Tick, ConfirmCancel
<1>9. ASSUME NEW i \in DOMAIN flights, TakeAnswer(i) PROVE TrackerTypeOK'
  <2> DEFINE f == flights[i]
             rest == RemoveAt(flights, i)
  <2>1. /\ f \in Flight /\ f.answer # "none"
        /\ view' = IF f.answer \in OrderStatuses THEN f.answer
                   ELSE IF f.answer = "404" THEN "not-found"
                   ELSE IF f.ask = "read" /\ view \notin OrderStatuses THEN "unavailable"
                   ELSE view
        /\ polling' = (polling /\ ~StopsPolling(f.answer))
        /\ tooLate' = (tooLate \/ f.answer = "409")
        /\ flights' = IF f.answer = "409" THEN ReadAgain(rest) ELSE rest
        /\ UNCHANGED <<status, visible, cancelling, closings, losses, calm>>
    BY <1>9, FlightsType DEF TakeAnswer
  <2>2. rest \in Seq(Flight) /\ Len(rest) = Len(flights) - 1 /\ Len(flights) \in Nat
    BY <1>1, FlightsType, RemoveAtKeeps
  <2> HIDE DEF f, rest
  <2>3. flights' \in Seq(Flight) /\ Len(flights') <= MaxFlights
    <3>1. CASE f.answer = "409"
      <4>1. flights' = Append(rest, Asked("read"))
        BY <2>1, <3>1 DEF ReadAgain
      <4>2. flights' \in Seq(Flight) /\ Len(flights') = Len(rest) + 1
        BY <2>2, <4>1, AppendedFlight
      <4> QED BY <1>1, <2>2, <4>2
    <3>2. CASE f.answer # "409"
      BY <1>1, <2>1, <2>2, <3>2
    <3> QED BY <3>1, <3>2
  <2>4. view' \in OrderStatuses \cup {"loading", "not-found", "unavailable"}
    BY <2>1 DEF TrackerTypeOK
  <2>5. {visible', polling', cancelling', tooLate', calm'} \subseteq BOOLEAN
    BY <2>1 DEF TrackerTypeOK
  <2>6. polling' => view' # "not-found"
    BY <2>1 DEF TrackerTypeOK, StopsPolling, OrderStatuses, OpenStatuses, TerminalStatuses
  <2> QED BY <2>1, <2>3, <2>4, <2>5, <2>6 DEF TrackerTypeOK, Flight
<1> QED BY <1>3, <1>4, <1>6, <1>7, <1>8, <1>9 DEF TrackerNext

LEMMA TrackerStarts ==
    ASSUME TrackerInit \/ Followed PROVE TrackerTypeOK
<1>1. flights \in Seq(Flight) /\ Len(flights) <= MaxFlights
  <2> HIDE DEF Flight
  <2>1. flights = << >>
    BY DEF TrackerInit, Followed
  <2> QED BY <2>1, TrackerConstants
<1>2. {visible, polling, cancelling, tooLate, calm} \subseteq BOOLEAN
  BY DEF TrackerInit, Followed
<1>3. /\ status \in OrderStatuses /\ view \in OrderStatuses \cup {"loading", "not-found", "unavailable"}
      /\ polling => view # "not-found"
  BY DEF TrackerInit, Followed, OrderStatuses, OpenStatuses, TerminalStatuses
<1> QED BY <1>1, <1>2, <1>3 DEF TrackerTypeOK, Flight

-----------------------------------------------------------------------------
(* The public pages: how the restaurant was at some time since the request.  *)

WasUp == \E s \in since : s.active
WasHidden(l) == \E s \in since : ~s.active \/ (l = "storefront" /\ s.version = 0)
WasSo(l, data) ==
    /\ WasUp
    /\ l = "storefront" => \E s \in since : s.version = data.version
    /\ l = "availability" => \E s \in since : s.ordering = data

\* A read under way is awaited by the request that it is for.
SocketTells(key) ==
    /\ "phase" \in DOMAIN sockets[key]
    /\ sockets[key].phase = "none" => sockets[key] = Rendered!Unasked
    /\ sockets[key].phase # "none" =>
          Rendered!Rendering /\ key \in DOMAIN memo /\ memo[key] = Rendered!Awaited
    /\ sockets[key].phase = "resolved" => WasUp
    /\ sockets[key].phase = "answered" =>
          IF sockets[key].answer.ok THEN WasSo(key[1], sockets[key].answer.data)
          ELSE sockets[key].answer.status = 404 => WasHidden(key[1])

ResultTells(l, result) ==
    /\ result.kind \in {"ok", "not-found", "unavailable"}
    /\ result.kind = "ok" => WasSo(l, result.data)
    /\ result.kind = "not-found" /\ asked.host => WasHidden(l)

\* What the parts of a document are made of.
FirstRead == <<"storefront", "all">>
AroundIsOfFront(part) ==
    part # Rendered!Waiting =>
        /\ Rendered!Known(FirstRead)
        /\ memo[FirstRead].kind = "ok" => part = [kind |-> "shown", version |-> memo[FirstRead].data.version]
BodyIsOfItsTime(body) ==
    /\ body.kind = "shown" =>
        /\ Rendered!Known(FirstRead) /\ memo[FirstRead].kind = "ok" /\ body.version = memo[FirstRead].data.version
        /\ asked.page = "order" => \E s \in since : s.ordering = body.ordering
        /\ asked.page \in {"home", "menu"} =>
              \E s \in since : (s.ordering = "off") = (body.ordering = "off")
    /\ body.kind \in {"not-found", "plain"} /\ asked.host =>
        \E s \in since : ~s.active \/ s.version = 0 \/ (asked.page = "order" /\ s.ordering = "off")

RequestKnows ==
    /\ DOMAIN sockets = Rendered!Cells /\ sockets = [key \in Rendered!Cells |-> sockets[key]]
    /\ \A key \in Rendered!Cells : SocketTells(key)
    /\ \A key \in DOMAIN memo : memo[key] # Rendered!Awaited => ResultTells(key[1], memo[key])
    /\ Rendered!Rendering => site \in since
    /\ DOMAIN parts = Rendered!Parts /\ parts = [p \in Rendered!Parts |-> parts[p]]
    /\ Rendered!Rendering =>
          /\ AroundIsOfFront(parts.layout) /\ AroundIsOfFront(parts.metadata)
          /\ BodyIsOfItsTime(parts.body)

LEMMA RequestIsKnown ==
    ASSUME RequestKnows PROVE Rendered!PageIsOneOfItsTime
<1>1. ASSUME Rendered!Done
      PROVE  /\ Rendered!Rendering /\ BodyIsOfItsTime(parts.body)
             /\ AroundIsOfFront(parts.layout) /\ AroundIsOfFront(parts.metadata)
             /\ asked.page \in Rendered!Pages =>
                   parts.layout # Rendered!Waiting /\ parts.metadata # Rendered!Waiting
             /\ Rendered!Known(FirstRead) => ResultTells("storefront", memo[FirstRead])
  BY <1>1 DEF Rendered!Done, RequestKnows, Rendered!ToRender, Rendered!Parts, Rendered!Known, FirstRead
<1>2. Rendered!PageIsOneVersion
  BY <1>1 DEF Rendered!PageIsOneVersion, AroundIsOfFront, BodyIsOfItsTime
<1>3. Rendered!PageIsOfItsTime
  BY <1>1 DEF Rendered!PageIsOfItsTime, BodyIsOfItsTime, ResultTells, WasSo, WasUp, Rendered!NoVersion
<1> QED BY <1>2, <1>3 DEF Rendered!PageIsOneOfItsTime

LEMMA SiteStartsKnown ==
    ASSUME Rendered!SiteInit PROVE RequestKnows
BY DEF Rendered!SiteInit, RequestKnows, SocketTells, Rendered!Rendering, Rendered!NoRequest,
       Rendered!Unasked

\* While the restaurant and the request stay, so does what was told, of a read
\* and of what was made of it.
LEMMA ReadStays ==
    ASSUME RequestKnows, UNCHANGED <<site, asked, since, parts>>,
           \A key \in DOMAIN memo : memo[key] # Rendered!Awaited => key \in DOMAIN memo' /\ memo'[key] = memo[key],
           \A key \in DOMAIN memo' :
              memo'[key] # Rendered!Awaited => ResultTells(key[1], memo'[key]),
           DOMAIN sockets' = Rendered!Cells, sockets' = [key \in Rendered!Cells |-> sockets'[key]],
           \A key \in Rendered!Cells : SocketTells(key)'
    PROVE  RequestKnows'
<1>1. \A l, result : ResultTells(l, result) <=> ResultTells(l, result)'
  BY DEF ResultTells, WasSo, WasUp, WasHidden
<1>2. Rendered!Known(FirstRead) => Rendered!Known(FirstRead)' /\ memo'[FirstRead] = memo[FirstRead]
  BY DEF Rendered!Known, FirstRead
<1>3. \A part : AroundIsOfFront(part) => AroundIsOfFront(part)'
  BY <1>2 DEF AroundIsOfFront
<1>4. \A body : BodyIsOfItsTime(body) => BodyIsOfItsTime(body)'
  BY <1>2 DEF BodyIsOfItsTime
<1>5. Rendered!Rendering <=> Rendered!Rendering'
  BY DEF Rendered!Rendering
<1> QED BY <1>1, <1>3, <1>4, <1>5 DEF RequestKnows

LEMMA ReadKeeps ==
    ASSUME RequestKnows, NEW part \in Rendered!Parts, NEW l \in Rendered!Loaders, Rendered!Read(part, l)
    PROVE  RequestKnows'
<1> DEFINE key == Rendered!Key(l, part)
<1>1. /\ UNCHANGED <<site, asked, since, parts>>
      /\ key \notin DOMAIN memo /\ key \in Rendered!Cells /\ key[1] = l
      /\ Rendered!Rendering
      /\ DOMAIN memo' = DOMAIN memo \cup {key} /\ \A k \in DOMAIN memo : memo'[k] = memo[k]
      /\ \/ /\ asked.host /\ memo'[key] = Rendered!Awaited
            /\ sockets' = [sockets EXCEPT ![key] = [phase |-> "sent", timer |-> TRUE]]
         \/ ~asked.host /\ memo'[key] = Rendered!NotFound /\ sockets' = sockets
  <2>1. Rendered!Rendering
    BY DEF Rendered!Read, Rendered!Needs, Rendered!ToRender, Rendered!Rendering, Rendered!NoRequest,
           Rendered!Pages
  <2>2. key = <<l, "all">>
    BY DEF Rendered!Key
  <2>3. key \in Rendered!Cells /\ key[1] = l
    BY <2>2 DEF Rendered!Cells
  <2> QED BY <2>1, <2>3 DEF Rendered!Read
<1> HIDE DEF key
<1>2. \A k \in DOMAIN memo' : memo'[k] # Rendered!Awaited => ResultTells(k[1], memo'[k])
  BY <1>1 DEF RequestKnows, ResultTells, Rendered!NotFound
<1>3. DOMAIN sockets' = Rendered!Cells /\ sockets' = [k \in Rendered!Cells |-> sockets'[k]]
  BY <1>1 DEF RequestKnows
<1>4. ASSUME NEW k \in Rendered!Cells PROVE SocketTells(k)'
  <2>1. SocketTells(k)
    BY DEF RequestKnows
  <2>2. sockets'[k] = sockets[k] \/ (k = key /\ sockets'[k] = [phase |-> "sent", timer |-> TRUE] /\ memo'[key] = Rendered!Awaited)
    BY <1>1 DEF RequestKnows
  <2> QED BY <1>1, <2>1, <2>2 DEF SocketTells, Rendered!Rendering, WasSo, WasUp, WasHidden
<1> QED BY <1>1, <1>2, <1>3, <1>4, ReadStays

\* The backend looks the restaurant up, and then reads, as it is.
LEMMA BackendKeeps ==
    ASSUME RequestKnows, NEW key \in Rendered!Cells,
           Rendered!Resolve(key) \/ Rendered!BackendAnswers(key)
    PROVE  RequestKnows'
<1>1. PICK read : /\ sockets' = [sockets EXCEPT ![key] = read]
                  /\ "phase" \in DOMAIN read /\ read.phase \in {"resolved", "answered"}
                  /\ read.phase = "resolved" => site.active
                  /\ read.phase = "answered" =>
                        \/ ~site.active /\ read.answer = Rendered!Failure(404)
                        \/ sockets[key].phase = "resolved" /\ read.answer = Rendered!AnswerTo(key[1])
  <2> DEFINE answered(a) == [phase |-> "answered", timer |-> TRUE, answer |-> a]
             resolved == [sockets[key] EXCEPT !.phase = "resolved"]
  <2>1. CASE Rendered!Resolve(key) /\ site.active
    <3>1. sockets' = [sockets EXCEPT ![key] = resolved]
      BY <2>1 DEF Rendered!Resolve
    <3>2. "phase" \in DOMAIN resolved /\ resolved.phase = "resolved"
      BY DEF RequestKnows, SocketTells
    <3> HIDE DEF resolved
    <3> QED BY <2>1, <3>1, <3>2
  <2>2. CASE Rendered!Resolve(key) /\ ~site.active
    <3>1. sockets' = [sockets EXCEPT ![key] = answered(Rendered!Failure(404))]
      BY <2>2 DEF Rendered!Resolve, Rendered!Answer
    <3>2. PICK r : r = answered(Rendered!Failure(404))
      OBVIOUS
    <3>3. "phase" \in DOMAIN r /\ r.phase = "answered" /\ r.answer = Rendered!Failure(404)
      BY <3>2
    <3> QED BY <2>2, <3>1, <3>2, <3>3
  <2>3. CASE Rendered!BackendAnswers(key)
    <3>1. sockets[key].phase = "resolved" /\ sockets' = [sockets EXCEPT ![key] = answered(Rendered!AnswerTo(key[1]))]
      BY <2>3 DEF Rendered!BackendAnswers, Rendered!Answer
    <3>2. PICK r : r = answered(Rendered!AnswerTo(key[1]))
      OBVIOUS
    <3>3. "phase" \in DOMAIN r /\ r.phase = "answered" /\ r.answer = Rendered!AnswerTo(key[1])
      BY <3>2
    <3> QED BY <3>1, <3>2, <3>3
  <2> QED BY <2>1, <2>2, <2>3
<1>2. UNCHANGED <<site, asked, since, parts, memo>> /\ sockets[key].phase \in {"sent", "resolved"}
  BY DEF Rendered!Resolve, Rendered!BackendAnswers, Rendered!Answer
<1>3. /\ \A k \in Rendered!Cells : SocketTells(k)
      /\ Rendered!Rendering /\ site \in since /\ key \in DOMAIN memo /\ memo[key] = Rendered!Awaited
  BY <1>2 DEF RequestKnows, SocketTells
<1>4. read.phase = "answered" =>
         IF read.answer.ok THEN WasSo(key[1], read.answer.data)
         ELSE read.answer.status = 404 => WasHidden(key[1])
  <2>1. CASE ~site.active /\ read.answer = Rendered!Failure(404)
    BY <1>3, <2>1 DEF WasHidden, Rendered!Failure
  <2>2. CASE sockets[key].phase = "resolved" /\ read.answer = Rendered!AnswerTo(key[1])
    <3>1. WasUp
      BY <1>3, <2>2 DEF SocketTells
    <3>2. key[1] \in {"storefront", "menu", "availability"}
      BY DEF Rendered!Cells, Rendered!Loaders
    <3> QED BY <1>3, <2>2, <3>1, <3>2
            DEF WasSo, WasHidden, Rendered!AnswerTo, Rendered!PublishedStorefront,
                Rendered!PublicAvailability, Rendered!Success, Rendered!Failure, Rendered!NoVersion
  <2> QED BY <1>1, <2>1, <2>2
<1>5. ASSUME NEW k \in Rendered!Cells PROVE SocketTells(k)'
  <2>1. sockets'[k] = IF k = key THEN read ELSE sockets[k]
    BY <1>1 DEF RequestKnows
  <2>2. CASE k = key
    BY <1>1, <1>2, <1>3, <1>4, <2>1, <2>2 DEF SocketTells, Rendered!Rendering, WasSo, WasUp, WasHidden
  <2>3. CASE k # key
    BY <1>2, <1>3, <2>1, <2>3 DEF SocketTells, Rendered!Rendering, WasSo, WasUp, WasHidden
  <2> QED BY <2>2, <2>3
<1>6. /\ DOMAIN sockets' = Rendered!Cells /\ sockets' = [k \in Rendered!Cells |-> sockets'[k]]
      /\ \A k \in DOMAIN memo' : memo'[k] # Rendered!Awaited => ResultTells(k[1], memo'[k])
  BY <1>1, <1>2 DEF RequestKnows
<1> QED BY <1>2, <1>5, <1>6, ReadStays

\* Only an answer is told as one; a failure is an outage.
LEMMA SettleKeeps ==
    ASSUME RequestKnows, NEW key \in Rendered!Cells,
           Rendered!EndAnswer(key) \/ Rendered!FailRead(key) \/ Rendered!Timeout(key)
    PROVE  RequestKnows'
<1>1. PICK result : /\ Rendered!Settle(key, result)
                    /\ sockets[key].phase # "none"
                    /\ IF result.ok THEN WasSo(key[1], result.data)
                       ELSE result.status = 404 => WasHidden(key[1])
  <2>1. SocketTells(key)
    BY DEF RequestKnows
  <2>2. CASE Rendered!EndAnswer(key)
    BY <2>1, <2>2 DEF Rendered!EndAnswer, SocketTells
  <2>3. ASSUME NEW code \in {0, 500}, Rendered!Settle(key, Rendered!Failure(code)),
               sockets[key] # Rendered!Unasked
        PROVE  \E result : /\ Rendered!Settle(key, result)
                           /\ sockets[key].phase # "none"
                           /\ IF result.ok THEN WasSo(key[1], result.data)
                              ELSE result.status = 404 => WasHidden(key[1])
    <3>1. ~Rendered!Failure(code).ok /\ Rendered!Failure(code).status # 404
      BY DEF Rendered!Failure
    <3>2. sockets[key].phase # "none"
      BY <2>1, <2>3 DEF SocketTells
    <3> QED BY <2>3, <3>1, <3>2
  <2> QED BY <2>2, <2>3 DEF Rendered!FailRead, Rendered!Timeout, Rendered!NoStatus
<1>2. /\ UNCHANGED <<site, asked, since, parts>>
      /\ memo' = [memo EXCEPT ![key] = Rendered!ToStorefrontResult(result)]
      /\ sockets' = [sockets EXCEPT ![key] = Rendered!Unasked]
  BY <1>1 DEF Rendered!Settle
<1>3. key \in DOMAIN memo /\ memo[key] = Rendered!Awaited
  BY <1>1 DEF RequestKnows, SocketTells
<1>4. DOMAIN memo' = DOMAIN memo
      /\ \A k \in DOMAIN memo : memo'[k] = IF k = key THEN Rendered!ToStorefrontResult(result) ELSE memo[k]
  BY <1>2, <1>3
<1>5. ResultTells(key[1], Rendered!ToStorefrontResult(result))
  <2>1. CASE result.ok
    BY <1>1, <2>1 DEF ResultTells, Rendered!ToStorefrontResult, Rendered!Ok
  <2>2. CASE ~result.ok /\ result.status = 404
    BY <1>1, <2>2 DEF ResultTells, Rendered!ToStorefrontResult, Rendered!NotFound
  <2>3. CASE ~result.ok /\ result.status # 404
    BY <2>3 DEF ResultTells, Rendered!ToStorefrontResult, Rendered!Unavailable
  <2> QED BY <2>1, <2>2, <2>3
<1>6. \A k \in DOMAIN memo' : memo'[k] # Rendered!Awaited => ResultTells(k[1], memo'[k])
  BY <1>4, <1>5 DEF RequestKnows
<1>7. DOMAIN sockets' = Rendered!Cells /\ sockets' = [k \in Rendered!Cells |-> sockets'[k]]
  BY <1>2 DEF RequestKnows
<1>8. ASSUME NEW k \in Rendered!Cells PROVE SocketTells(k)'
  <2>1. CASE k = key
    <3>1. sockets'[k] = Rendered!Unasked
      BY <1>2, <2>1 DEF RequestKnows
    <3> QED BY <3>1 DEF SocketTells, Rendered!Unasked
  <2>2. CASE k # key
    <3>1. sockets'[k] = sockets[k] /\ SocketTells(k)
      BY <1>2, <2>2 DEF RequestKnows
    <3> QED BY <1>2, <1>4, <2>2, <3>1 DEF SocketTells, Rendered!Rendering, WasSo, WasUp, WasHidden
  <2> QED BY <2>1, <2>2
<1> QED BY <1>2, <1>3, <1>4, <1>6, <1>7, <1>8, ReadStays

\* A request begins with nothing, in the restaurant of that moment.
LEMMA AskKeeps ==
    ASSUME RequestKnows, NEW path \in Rendered!Pages \cup Rendered!Files, NEW host \in BOOLEAN,
           Rendered!Ask(path, host)
    PROVE  RequestKnows'
<1>1. /\ ~Rendered!Rendering /\ since' = {site} /\ UNCHANGED <<site, sockets>>
      /\ parts' = [p \in Rendered!Parts |-> Rendered!Waiting]
      /\ memo' = [key \in {} |-> Rendered!Awaited]
  BY DEF Rendered!Ask
<1>2. \A key \in Rendered!Cells : SocketTells(key)'
  <2>1. \A key \in Rendered!Cells : sockets'[key] = Rendered!Unasked
    BY <1>1 DEF RequestKnows, SocketTells
  <2> QED BY <2>1 DEF SocketTells, Rendered!Unasked
<1>3. DOMAIN memo' = {}
  BY <1>1
<1>4. AroundIsOfFront(Rendered!Waiting)' /\ BodyIsOfItsTime(Rendered!Waiting)'
  BY DEF AroundIsOfFront, BodyIsOfItsTime, Rendered!Waiting
<1>5. /\ DOMAIN parts' = Rendered!Parts /\ parts' = [p \in Rendered!Parts |-> parts'[p]]
      /\ parts'.layout = Rendered!Waiting /\ parts'.metadata = Rendered!Waiting
      /\ parts'.body = Rendered!Waiting
  BY <1>1 DEF Rendered!Parts
<1> QED BY <1>1, <1>2, <1>3, <1>4, <1>5 DEF RequestKnows, AroundIsOfFront, BodyIsOfItsTime

\* What was so at some time since the request stays so.
LEMMA ChangeKeeps ==
    ASSUME RequestKnows, NEW new, Rendered!Changes(new)
    PROVE  RequestKnows'
<1>1. /\ UNCHANGED <<asked, sockets, memo, parts>>
      /\ site' = new /\ since' = since \cup {new}
  BY DEF Rendered!Changes
<1>2. \A l, data : WasSo(l, data) => WasSo(l, data)'
  BY <1>1 DEF WasSo, WasUp
<1>3. \A l : WasHidden(l) => WasHidden(l)'
  BY <1>1 DEF WasHidden
<1>4. \A key : SocketTells(key) => SocketTells(key)'
  BY <1>1, <1>2, <1>3 DEF SocketTells, WasUp, Rendered!Rendering
<1>5. \A l, result : ResultTells(l, result) => ResultTells(l, result)'
  BY <1>1, <1>2, <1>3 DEF ResultTells
<1>6. \A part : AroundIsOfFront(part) => AroundIsOfFront(part)'
  BY <1>1 DEF AroundIsOfFront, Rendered!Known
<1>7. \A body : BodyIsOfItsTime(body) => BodyIsOfItsTime(body)'
  BY <1>1 DEF BodyIsOfItsTime, Rendered!Known
<1> QED BY <1>1, <1>4, <1>5, <1>6, <1>7 DEF RequestKnows, Rendered!Rendering

\* A part is made of what was read; the others stay.
LEMMA PartKeeps ==
    ASSUME RequestKnows, NEW p \in Rendered!Parts, NEW part, parts' = [parts EXCEPT ![p] = part],
           UNCHANGED <<site, asked, sockets, memo, since>>,
           Rendered!Rendering => IF p = "body" THEN BodyIsOfItsTime(part) ELSE AroundIsOfFront(part)
    PROVE  RequestKnows'
<1>1. /\ DOMAIN parts' = Rendered!Parts /\ parts' = [q \in Rendered!Parts |-> parts'[q]]
      /\ \A q \in Rendered!Parts : parts'[q] = IF q = p THEN part ELSE parts[q]
  BY DEF RequestKnows
<1>2. \A x : /\ SocketTells(x) <=> SocketTells(x)'
             /\ AroundIsOfFront(x) <=> AroundIsOfFront(x)'
             /\ BodyIsOfItsTime(x) <=> BodyIsOfItsTime(x)'
             /\ \A l : ResultTells(l, x) <=> ResultTells(l, x)'
  BY DEF SocketTells, AroundIsOfFront, BodyIsOfItsTime, ResultTells, Rendered!Rendering,
         Rendered!Known, WasSo, WasUp, WasHidden
<1> QED BY <1>1, <1>2 DEF RequestKnows, Rendered!Rendering, Rendered!Parts

LEMMA AroundKeeps ==
    ASSUME RequestKnows, NEW p \in Rendered!Parts, Rendered!RenderAround(p)
    PROVE  RequestKnows'
<1>1. /\ p # "body" /\ Rendered!Known(FirstRead)
      /\ parts' = [parts EXCEPT ![p] =
                      IF memo[FirstRead].kind = "ok"
                      THEN [kind |-> "shown", version |-> memo[FirstRead].data.version]
                      ELSE Rendered!Became("plain")]
      /\ UNCHANGED <<site, asked, sockets, memo, since>>
  BY DEF Rendered!RenderAround, Rendered!Storefront, Rendered!Key, FirstRead
<1>2. AroundIsOfFront(IF memo[FirstRead].kind = "ok"
                      THEN [kind |-> "shown", version |-> memo[FirstRead].data.version]
                      ELSE Rendered!Became("plain"))
  BY <1>1 DEF AroundIsOfFront
<1> QED BY <1>1, <1>2, PartKeeps

\* Whatever is not found is hidden, or not published.
LEMMA GiveUpKeeps ==
    ASSUME RequestKnows, Rendered!GiveUpBody
    PROVE  RequestKnows'
<1>1. PICK l : /\ Rendered!Known(<<l, "all">>) /\ memo[<<l, "all">>].kind # "ok"
               /\ parts' = [parts EXCEPT !["body"] = memo[<<l, "all">>]]
  BY DEF Rendered!GiveUpBody, Rendered!Key
<1>2. ResultTells(l, memo[<<l, "all">>])
  <2>1. <<l, "all">> \in DOMAIN memo /\ memo[<<l, "all">>] # Rendered!Awaited
    BY <1>1 DEF Rendered!Known
  <2> QED BY <2>1 DEF RequestKnows
<1>3. BodyIsOfItsTime(memo[<<l, "all">>])
  BY <1>1, <1>2 DEF BodyIsOfItsTime, ResultTells, WasHidden
<1>4. UNCHANGED <<site, asked, sockets, memo, since>>
  BY DEF Rendered!GiveUpBody
<1> QED BY <1>1, <1>3, <1>4, PartKeeps DEF Rendered!Parts

LEMMA BodyKeeps ==
    ASSUME RequestKnows, Rendered!RenderBody
    PROVE  RequestKnows'
<1> DEFINE ordering == memo[<<"availability", "all">>].data
           body == CASE asked.page \in {"home", "menu"} -> Rendered!Shown(Rendered!Offers(ordering))
                     [] asked.page = "order" -> Rendered!OrderPage(ordering)
                     [] asked.page = "track" -> Rendered!Shown("untold")
<1>1. /\ asked.page \in {"home", "menu", "order", "track"}
      /\ Rendered!Known(FirstRead) /\ memo[FirstRead].kind = "ok"
      /\ parts' = [parts EXCEPT !["body"] = body]
      /\ UNCHANGED <<site, asked, sockets, memo, since>>
  BY DEF Rendered!RenderBody, Rendered!Pages, Rendered!Storefront, Rendered!Key, FirstRead
<1>2. asked.page \in {"home", "menu", "order"} => \E s \in since : s.ordering = ordering
  <2>1. asked.page \in {"home", "menu", "order"} =>
           /\ <<"availability", "all">> \in DOMAIN memo
           /\ memo[<<"availability", "all">>] # Rendered!Awaited
           /\ memo[<<"availability", "all">>].kind = "ok"
    BY DEF Rendered!RenderBody, Rendered!Alongside, Rendered!HomeReads, Rendered!Key, Rendered!Known
  <2> QED BY <2>1 DEF RequestKnows, ResultTells, WasSo
<1>3. \A o : /\ Rendered!Shown(o).kind = "shown" /\ Rendered!Shown(o).ordering = o
             /\ Rendered!Shown(o).version = memo[FirstRead].data.version
  BY DEF Rendered!Shown, Rendered!Storefront, Rendered!Key, FirstRead
<1> HIDE DEF ordering
<1>4. CASE asked.page \in {"home", "menu"}
  <2>1. body = Rendered!Shown(Rendered!Offers(ordering))
    BY <1>4
  <2>2. (ordering = "off") = (Rendered!Offers(ordering) = "off")
    BY DEF Rendered!Offers
  <2>3. BodyIsOfItsTime(body)
    BY <1>1, <1>2, <1>3, <1>4, <2>1, <2>2 DEF BodyIsOfItsTime
  <2> QED BY <1>1, <2>3, PartKeeps DEF Rendered!Parts
<1>5. CASE asked.page = "order"
  <2>1. body = IF ordering = "off" THEN Rendered!NotFound ELSE Rendered!Shown(ordering)
    BY <1>5 DEF Rendered!OrderPage
  <2>2. BodyIsOfItsTime(body)
    BY <1>1, <1>2, <1>3, <1>5, <2>1 DEF BodyIsOfItsTime, Rendered!NotFound
  <2> QED BY <1>1, <2>2, PartKeeps DEF Rendered!Parts
<1>6. CASE asked.page = "track"
  <2>1. body = Rendered!Shown("untold")
    BY <1>6
  <2>2. BodyIsOfItsTime(body)
    BY <1>1, <1>3, <1>6, <2>1 DEF BodyIsOfItsTime
  <2> QED BY <1>1, <2>2, PartKeeps DEF Rendered!Parts
<1> QED BY <1>1, <1>4, <1>5, <1>6

LEMMA FileKeeps ==
    ASSUME RequestKnows, Rendered!RenderFile
    PROVE  RequestKnows'
<1> DEFINE body == IF asked.page = "robots" THEN Rendered!RobotsTxt(memo[FirstRead])
                   ELSE Rendered!Sitemap(memo[FirstRead])
<1>1. /\ asked.page \in {"robots", "sitemap"} /\ Rendered!Known(FirstRead)
      /\ parts' = [parts EXCEPT !["body"] = body]
      /\ UNCHANGED <<site, asked, sockets, memo, since>>
  BY DEF Rendered!RenderFile, Rendered!Files, Rendered!Storefront, Rendered!Key, FirstRead
<1>2. ResultTells("storefront", memo[FirstRead])
  BY <1>1 DEF RequestKnows, Rendered!Known, FirstRead
<1>3. Rendered!Shown("untold").kind = "shown"
      /\ Rendered!Shown("untold").version = memo[FirstRead].data.version
  BY DEF Rendered!Shown, Rendered!Storefront, Rendered!Key, FirstRead
<1>4. \/ body = Rendered!Unavailable
      \/ memo[FirstRead].kind = "ok" /\ body = Rendered!Shown("untold")
      \/ memo[FirstRead].kind = "not-found" /\ body \in {Rendered!Became("plain"), Rendered!NotFound}
  BY <1>2 DEF ResultTells, Rendered!RobotsTxt, Rendered!Sitemap
<1> HIDE DEF body
<1>5. BodyIsOfItsTime(body)
  BY <1>1, <1>2, <1>3, <1>4
     DEF BodyIsOfItsTime, ResultTells, WasHidden, Rendered!Became, Rendered!NotFound, Rendered!Unavailable
<1> QED BY <1>1, <1>5, PartKeeps DEF Rendered!Parts

LEMMA DeliverKeeps ==
    ASSUME RequestKnows, Rendered!Deliver
    PROVE  RequestKnows'
<1>1. /\ asked' = Rendered!NoRequest /\ sockets' = [key \in Rendered!Cells |-> Rendered!Unasked]
      /\ UNCHANGED <<site, memo, parts, since>>
  BY DEF Rendered!Deliver
<1>2. ~Rendered!Rendering' /\ ~asked'.host
  BY <1>1 DEF Rendered!Rendering, Rendered!NoRequest
<1>3. \A key \in Rendered!Cells : SocketTells(key)'
  BY <1>1 DEF SocketTells, Rendered!Unasked
<1>4. \A l, result : ResultTells(l, result) => ResultTells(l, result)'
  BY <1>1, <1>2 DEF ResultTells, WasSo, WasUp
<1> QED BY <1>1, <1>2, <1>3, <1>4 DEF RequestKnows

LEMMA RequestGoesOn ==
    ASSUME RequestKnows, [Rendered!SiteNext]_(Rendered!siteVars)
    PROVE  RequestKnows'
<1>1. CASE UNCHANGED Rendered!siteVars
  BY <1>1 DEF Rendered!siteVars, RequestKnows, SocketTells, AroundIsOfFront, BodyIsOfItsTime,
              ResultTells, Rendered!Rendering, Rendered!Known, WasSo, WasUp, WasHidden
<1>2. CASE Rendered!Change
  BY <1>2, ChangeKeeps DEF Rendered!Change, Rendered!Publish, Rendered!Transition, Rendered!LetOrders
<1>3. CASE Rendered!Renders
  BY <1>3, AroundKeeps, GiveUpKeeps, BodyKeeps, FileKeeps, DeliverKeeps DEF Rendered!Renders
<1> QED BY <1>1, <1>2, <1>3, AskKeeps, ReadKeeps, BackendKeeps, SettleKeeps
        DEF Rendered!SiteNext, Rendered!Reads, Rendered!Times

LEMMA SiteSteps ==
    [CustomerNext]_customerVars => [Rendered!SiteNext]_(Rendered!siteVars)
BY DEF CustomerNext, Shops, ChecksOut, Tracks, OnBoard, Lists, OnNotices, OnServer, Browsing,
       customerVars, siteVars, Rendered!siteVars

(* A page is of one version, and nothing on it, nor its 404, is of a time    *)
(* before its request, whatever is published, paused or suspended while it   *)
(* renders and whichever reads fail (storefrontData.ts, layout.tsx).         *)
THEOREM PagesAreOfTheirTime == CustomerSpec => []PageIsOneOfItsTime
<1>1. CustomerInit => RequestKnows
  BY SiteStartsKnown DEF CustomerInit
<1>2. RequestKnows /\ [CustomerNext]_customerVars => RequestKnows'
  BY SiteSteps, RequestGoesOn
<1>3. RequestKnows => PageIsOneOfItsTime
  BY RequestIsKnown DEF PageIsOneOfItsTime
<1> QED BY <1>1, <1>2, <1>3, PTL DEF CustomerSpec

-----------------------------------------------------------------------------
(* What the reads and the parts of a page hold.                              *)

Phases == {"none", "sent", "resolved", "answered"}
Kinds == {"waiting", "shown", "plain", "not-found", "unavailable"}
AnswerIsOf(l, got) == got.ok => got.data \in Rendered!Data(l)
AwaitsSocket(key) ==
    Rendered!Rendering => (memo[key] = Rendered!Awaited) = (sockets[key].phase # "none")

SiteTyped ==
    /\ site \in Rendered!Sites /\ since \subseteq Rendered!Sites
    /\ asked = Rendered!NoRequest \/ asked \in [page : Rendered!Pages \cup Rendered!Files, host : BOOLEAN]
    /\ \A key \in Rendered!Cells :
          /\ sockets[key].phase \in Phases
          /\ sockets[key].phase = "answered" => AnswerIsOf(key[1], sockets[key].answer)
    /\ DOMAIN memo \subseteq Rendered!Cells
    /\ \A key \in DOMAIN memo : memo[key] \in Rendered!Results(key[1]) /\ AwaitsSocket(key)
    /\ \A p \in Rendered!Parts : parts[p].kind \in Kinds
    /\ requests \in 0 .. MaxRequests /\ siteEvents \in 0 .. MaxSiteEvents

LEMMA ResultsDiffer ==
    /\ \A l, d : Rendered!Ok(d) # Rendered!Awaited /\ (d \in Rendered!Data(l) => Rendered!Ok(d) \in Rendered!Results(l))
    /\ Rendered!NotFound # Rendered!Awaited /\ Rendered!Unavailable # Rendered!Awaited
    /\ \A l : {Rendered!NotFound, Rendered!Unavailable, Rendered!Awaited} \subseteq Rendered!Results(l)
<1>1. /\ \A d : Rendered!Ok(d).kind = "ok" /\ Rendered!NotFound.kind = "not-found"
      /\ Rendered!Unavailable.kind = "unavailable" /\ Rendered!Awaited.kind = "awaited"
  BY DEF Rendered!Ok, Rendered!NotFound, Rendered!Unavailable, Rendered!Awaited
<1> QED BY <1>1 DEF Rendered!Results

LEMMA SiteNumbers == MaxVersion \in Nat /\ MaxRequests \in Nat /\ MaxSiteEvents \in Nat
BY CounterConstants DEF Rendered!SiteConstants

LEMMA AskTypes ==
    ASSUME RequestKnows, SiteTyped,
           NEW path \in Rendered!Pages \cup Rendered!Files, NEW host \in BOOLEAN, Rendered!Ask(path, host)
    PROVE  SiteTyped'
<1>1. /\ asked' = [page |-> path, host |-> host] /\ since' = {site}
      /\ parts' = [p \in Rendered!Parts |-> Rendered!Waiting]
      /\ memo' = [key \in {} |-> Rendered!Awaited] /\ requests < MaxRequests /\ requests' = requests + 1
      /\ UNCHANGED <<site, sockets, siteEvents>>
  BY DEF Rendered!Ask
<1>2. \A p \in Rendered!Parts : parts'[p].kind \in Kinds
  BY <1>1 DEF Rendered!Waiting, Kinds
<1>3. requests' \in 0 .. MaxRequests
  BY <1>1, SiteNumbers DEF SiteTyped
<1> QED BY <1>1, <1>2, <1>3 DEF SiteTyped

LEMMA ReadTypes ==
    ASSUME RequestKnows, SiteTyped, NEW part \in Rendered!Parts, NEW l \in Rendered!Loaders, Rendered!Read(part, l)
    PROVE  SiteTyped'
<1> DEFINE key == Rendered!Key(l, part)
<1>1. key \in Rendered!Cells /\ key[1] = l
  BY DEF Rendered!Key, Rendered!Cells
<1>2. /\ UNCHANGED <<site, asked, since, parts, requests, siteEvents>> /\ key \notin DOMAIN memo
      /\ DOMAIN memo' = DOMAIN memo \cup {key} /\ \A k \in DOMAIN memo : memo'[k] = memo[k]
      /\ \/ /\ memo'[key] = Rendered!Awaited
            /\ sockets' = [sockets EXCEPT ![key] = [phase |-> "sent", timer |-> TRUE]]
         \/ memo'[key] = Rendered!NotFound /\ sockets' = sockets
  BY DEF Rendered!Read
<1> HIDE DEF key
<1>3. /\ DOMAIN sockets = Rendered!Cells /\ sockets[key].phase = "none"
  BY <1>1, <1>2 DEF RequestKnows, SocketTells, SiteTyped
<1>4. \A k \in Rendered!Cells : k # key => sockets'[k] = sockets[k]
  BY <1>2, <1>3
<1>5. \/ memo'[key] = Rendered!Awaited /\ sockets'[key].phase = "sent"
      \/ memo'[key] = Rendered!NotFound /\ sockets'[key].phase = "none"
  BY <1>1, <1>2, <1>3
<1>6. memo'[key] \in Rendered!Results(key[1]) /\ AwaitsSocket(key)'
  BY <1>5, ResultsDiffer DEF AwaitsSocket
<1>7. \A k \in DOMAIN memo : memo'[k] \in Rendered!Results(k[1]) /\ AwaitsSocket(k)'
  BY <1>2, <1>4 DEF SiteTyped, AwaitsSocket, Rendered!Rendering
<1>8. \A k \in Rendered!Cells :
          /\ sockets'[k].phase \in Phases
          /\ sockets'[k].phase = "answered" => AnswerIsOf(k[1], sockets'[k].answer)
  BY <1>4, <1>5 DEF SiteTyped, Phases
<1> QED BY <1>1, <1>2, <1>6, <1>7, <1>8 DEF SiteTyped

LEMMA BackendTypes ==
    ASSUME RequestKnows, SiteTyped, NEW key \in Rendered!Cells,
           Rendered!Resolve(key) \/ Rendered!BackendAnswers(key)
    PROVE  SiteTyped'
<1>1. /\ UNCHANGED <<site, asked, since, parts, memo, requests, siteEvents>>
      /\ sockets[key].phase \in {"sent", "resolved"}
      /\ DOMAIN sockets = Rendered!Cells /\ "phase" \in DOMAIN sockets[key]
  BY DEF Rendered!Resolve, Rendered!BackendAnswers, Rendered!Answer, RequestKnows, SocketTells
<1>2. AnswerIsOf(key[1], Rendered!Failure(404)) /\ AnswerIsOf(key[1], Rendered!AnswerTo(key[1]))
  <2>1. key[1] \in {"storefront", "menu", "availability"}
    BY DEF Rendered!Cells, Rendered!Loaders
  <2>2. site \in Rendered!Sites /\ ~Rendered!Failure(404).ok
    BY DEF SiteTyped, Rendered!Failure
  <2>3. \A d : Rendered!Success(d).data = d
    BY DEF Rendered!Success
  <2>4. CASE key[1] = "storefront"
    <3>1. CASE site.version = 0
      BY <2>2, <2>4, <3>1 DEF AnswerIsOf, Rendered!AnswerTo, Rendered!PublishedStorefront, Rendered!NoVersion, Rendered!Failure
    <3>2. CASE site.version # 0
      <4>1. [version |-> site.version, menu |-> site.menu] \in Rendered!Data("storefront")
        BY <2>2, <3>2, SiteNumbers DEF Rendered!Data, Rendered!Sites
      <4> QED BY <2>2, <2>3, <2>4, <3>2, <4>1 DEF AnswerIsOf, Rendered!AnswerTo, Rendered!PublishedStorefront, Rendered!NoVersion
    <3> QED BY <3>1, <3>2
  <2>5. CASE key[1] = "menu"
    BY <2>2, <2>3, <2>5 DEF AnswerIsOf, Rendered!AnswerTo, Rendered!Data
  <2>6. CASE key[1] = "availability"
    BY <2>2, <2>3, <2>6 DEF AnswerIsOf, Rendered!AnswerTo, Rendered!Data, Rendered!PublicAvailability, Rendered!Sites
  <2> QED BY <2>1, <2>4, <2>5, <2>6
<1>3. PICK read : /\ sockets' = [sockets EXCEPT ![key] = read]
                  /\ read.phase \in {"resolved", "answered"}
                  /\ read.phase = "answered" => AnswerIsOf(key[1], read.answer)
  <2> DEFINE answered(a) == [phase |-> "answered", timer |-> TRUE, answer |-> a]
             resolved == [sockets[key] EXCEPT !.phase = "resolved"]
  <2>1. resolved.phase = "resolved" /\ \A a : answered(a).phase = "answered" /\ answered(a).answer = a
    BY <1>1
  <2>2. \/ sockets' = [sockets EXCEPT ![key] = resolved]
        \/ sockets' = [sockets EXCEPT ![key] = answered(Rendered!Failure(404))]
        \/ sockets' = [sockets EXCEPT ![key] = answered(Rendered!AnswerTo(key[1]))]
    BY DEF Rendered!Resolve, Rendered!BackendAnswers, Rendered!Answer
  <2> HIDE DEF answered, resolved
  <2> QED BY <1>2, <2>1, <2>2
<1>4. \A k \in Rendered!Cells : sockets'[k] = IF k = key THEN read ELSE sockets[k]
  BY <1>1, <1>3
<1>5. \A k \in DOMAIN memo : AwaitsSocket(k)'
  <2>1. \A k \in DOMAIN memo : k \in Rendered!Cells /\ AwaitsSocket(k)
    BY DEF SiteTyped
  <2> QED BY <1>1, <1>3, <1>4, <2>1 DEF AwaitsSocket, Rendered!Rendering
<1>6. \A k \in Rendered!Cells :
          /\ sockets'[k].phase \in Phases
          /\ sockets'[k].phase = "answered" => AnswerIsOf(k[1], sockets'[k].answer)
  BY <1>3, <1>4 DEF SiteTyped, Phases
<1> QED BY <1>1, <1>5, <1>6 DEF SiteTyped

LEMMA SettleTypes ==
    ASSUME RequestKnows, SiteTyped, NEW key \in Rendered!Cells,
           Rendered!EndAnswer(key) \/ Rendered!FailRead(key) \/ Rendered!Timeout(key)
    PROVE  SiteTyped'
<1>1. PICK result : Rendered!Settle(key, result) /\ AnswerIsOf(key[1], result)
  <2>1. CASE Rendered!EndAnswer(key)
    BY <2>1 DEF Rendered!EndAnswer, SiteTyped
  <2>2. CASE Rendered!FailRead(key) \/ Rendered!Timeout(key)
    <3>1. PICK code : Rendered!Settle(key, Rendered!Failure(code))
      BY <2>2 DEF Rendered!FailRead, Rendered!Timeout
    <3>2. ~Rendered!Failure(code).ok
      BY DEF Rendered!Failure
    <3> QED BY <3>1, <3>2 DEF AnswerIsOf
  <2> QED BY <2>1, <2>2
<1> DEFINE became == Rendered!ToStorefrontResult(result)
<1>2. /\ UNCHANGED <<site, asked, since, parts, requests>> /\ siteEvents' \in 0 .. MaxSiteEvents
      /\ memo' = [memo EXCEPT ![key] = became] /\ sockets' = [sockets EXCEPT ![key] = Rendered!Unasked]
      /\ DOMAIN sockets = Rendered!Cells
  BY <1>1, SiteNumbers DEF Rendered!Settle, Rendered!EndAnswer, Rendered!FailRead, Rendered!Timeout, Rendered!Events,
                           SiteTyped, RequestKnows
<1>3. became \in Rendered!Results(key[1]) /\ became # Rendered!Awaited
  BY <1>1, ResultsDiffer DEF Rendered!ToStorefrontResult, AnswerIsOf
<1> HIDE DEF became
<1>4. \A k \in Rendered!Cells : sockets'[k] = IF k = key THEN Rendered!Unasked ELSE sockets[k]
  BY <1>2
<1>5. DOMAIN memo' = DOMAIN memo /\ \A k \in DOMAIN memo : memo'[k] = IF k = key THEN became ELSE memo[k]
  BY <1>2
<1>6. Rendered!Unasked.phase = "none"
  BY DEF Rendered!Unasked
<1>7. \A k \in DOMAIN memo : memo'[k] \in Rendered!Results(k[1]) /\ AwaitsSocket(k)'
  <2>1. \A k \in DOMAIN memo : k \in Rendered!Cells /\ memo[k] \in Rendered!Results(k[1]) /\ AwaitsSocket(k)
    BY DEF SiteTyped
  <2> QED BY <1>2, <1>3, <1>4, <1>5, <1>6, <2>1 DEF AwaitsSocket, Rendered!Rendering
<1>8. \A k \in Rendered!Cells :
          /\ sockets'[k].phase \in Phases
          /\ sockets'[k].phase = "answered" => AnswerIsOf(k[1], sockets'[k].answer)
  BY <1>4, <1>6 DEF SiteTyped, Phases
<1> QED BY <1>2, <1>5, <1>7, <1>8 DEF SiteTyped

LEMMA ChangeTypes ==
    ASSUME SiteTyped, Rendered!Change
    PROVE  SiteTyped'
<1>1. PICK new : Rendered!Changes(new) /\ new \in Rendered!Sites
  <2>1. site \in Rendered!Sites
    BY DEF SiteTyped
  <2>2. ASSUME Rendered!Publish
        PROVE  \E new \in Rendered!Sites : Rendered!Changes(new)
    <3>1. PICK m \in BOOLEAN : Rendered!Changes([site EXCEPT !.version = site.version + 1, !.menu = m])
      BY <2>2 DEF Rendered!Publish
    <3>2. [site EXCEPT !.version = site.version + 1, !.menu = m] \in Rendered!Sites
      <4>1. site.version + 1 \in 0 .. MaxVersion
        BY <2>1, <2>2, SiteNumbers DEF Rendered!Publish, Rendered!Sites
      <4> DEFINE v == site.version + 1
      <4> HIDE DEF v
      <4>2. v \in 0 .. MaxVersion => [site EXCEPT !.version = v, !.menu = m] \in Rendered!Sites
        BY <2>1 DEF Rendered!Sites
      <4> QED BY <4>1, <4>2 DEF v
    <3> QED BY <3>1, <3>2
  <2>3. ASSUME Rendered!Transition \/ Rendered!LetOrders
        PROVE  \E new \in Rendered!Sites : Rendered!Changes(new)
    <3>1. [site EXCEPT !.active = ~site.active] \in Rendered!Sites
      BY <2>1 DEF Rendered!Sites
    <3>2. \A o \in {"off", "on", "paused"} : [site EXCEPT !.ordering = o] \in Rendered!Sites
      BY <2>1 DEF Rendered!Sites
    <3> QED BY <2>3, <3>1, <3>2 DEF Rendered!Transition, Rendered!LetOrders
  <2> QED BY <2>2, <2>3 DEF Rendered!Change
<1>2. /\ site' = new /\ since' = since \cup {new} /\ siteEvents' \in 0 .. MaxSiteEvents
      /\ UNCHANGED <<asked, sockets, memo, parts, requests>>
  BY <1>1, SiteNumbers DEF Rendered!Changes, Rendered!Events, SiteTyped
<1> QED BY <1>1, <1>2 DEF SiteTyped, AwaitsSocket, Rendered!Rendering

LEMMA PartTypes ==
    ASSUME RequestKnows, SiteTyped, NEW p \in Rendered!Parts, NEW part, part.kind \in Kinds,
           parts' = [parts EXCEPT ![p] = part],
           UNCHANGED <<site, asked, sockets, memo, since, requests, siteEvents>>
    PROVE  SiteTyped'
<1>1. \A q \in Rendered!Parts : parts'[q].kind \in Kinds
  BY DEF RequestKnows, SiteTyped
<1> QED BY <1>1 DEF SiteTyped, AwaitsSocket, Rendered!Rendering

LEMMA KindsOfParts ==
    /\ Rendered!NotFound.kind \in Kinds /\ Rendered!Unavailable.kind \in Kinds
    /\ \A o : Rendered!Shown(o).kind \in Kinds
    /\ \A v : [kind |-> "shown", version |-> v].kind \in Kinds
    /\ Rendered!Became("plain").kind \in Kinds
BY DEF Kinds, Rendered!NotFound, Rendered!Unavailable, Rendered!Shown, Rendered!Became

LEMMA RenderTypes ==
    ASSUME RequestKnows, SiteTyped, Rendered!Renders
    PROVE  SiteTyped'
<1>1. ASSUME NEW p \in Rendered!Parts, Rendered!RenderAround(p) PROVE SiteTyped'
  <2>1. PICK part : part.kind \in Kinds /\ parts' = [parts EXCEPT ![p] = part]
    BY <1>1, KindsOfParts DEF Rendered!RenderAround
  <2> QED BY <1>1, <2>1, PartTypes DEF Rendered!RenderAround
<1>2. "body" \in Rendered!Parts
  BY DEF Rendered!Parts
<1>3. CASE Rendered!GiveUpBody
  <2>1. PICK key : /\ key \in DOMAIN memo /\ memo[key] # Rendered!Awaited /\ memo[key].kind # "ok"
                   /\ parts' = [parts EXCEPT !["body"] = memo[key]]
    BY <1>3 DEF Rendered!GiveUpBody, Rendered!Known
  <2>2. memo[key].kind \in Kinds
    BY <2>1 DEF RequestKnows, ResultTells, Kinds
  <2> QED BY <1>2, <1>3, <2>1, <2>2, PartTypes DEF Rendered!GiveUpBody
<1>4. CASE Rendered!RenderBody
  <2>1. asked.page \in {"home", "menu", "order", "track"}
    BY <1>4 DEF Rendered!RenderBody, Rendered!Pages
  <2>2. PICK part : part.kind \in Kinds /\ parts' = [parts EXCEPT !["body"] = part]
    BY <1>4, <2>1, KindsOfParts DEF Rendered!RenderBody, Rendered!OrderPage
  <2> QED BY <1>2, <1>4, <2>2, PartTypes DEF Rendered!RenderBody
<1>5. CASE Rendered!RenderFile
  <2>1. ResultTells("storefront", memo[FirstRead])
    BY <1>5 DEF Rendered!RenderFile, RequestKnows, Rendered!Known, Rendered!Key, FirstRead
  <2>2. PICK part : part.kind \in Kinds /\ parts' = [parts EXCEPT !["body"] = part]
    BY <1>5, <2>1, KindsOfParts
       DEF Rendered!RenderFile, ResultTells, Rendered!RobotsTxt, Rendered!Sitemap, Rendered!Storefront, Rendered!Key, FirstRead
  <2> QED BY <1>2, <1>5, <2>2, PartTypes DEF Rendered!RenderFile
<1>6. CASE Rendered!Deliver
  <2>1. /\ asked' = Rendered!NoRequest /\ sockets' = [key \in Rendered!Cells |-> Rendered!Unasked]
        /\ UNCHANGED <<site, memo, parts, since, requests, siteEvents>>
    BY <1>6 DEF Rendered!Deliver
  <2>2. \A key \in Rendered!Cells : sockets'[key].phase = "none"
    BY <2>1 DEF Rendered!Unasked
  <2> QED BY <2>1, <2>2 DEF SiteTyped, AwaitsSocket, Rendered!Rendering, Phases
<1> QED BY <1>1, <1>3, <1>4, <1>5, <1>6 DEF Rendered!Renders

LEMMA SiteTypesGoOn ==
    ASSUME RequestKnows, SiteTyped, [Rendered!SiteNext]_(Rendered!siteVars)
    PROVE  SiteTyped'
<1>1. CASE UNCHANGED Rendered!siteVars
  BY <1>1 DEF Rendered!siteVars, SiteTyped, AwaitsSocket, Rendered!Rendering
<1> QED BY <1>1, AskTypes, ReadTypes, BackendTypes, SettleTypes, ChangeTypes, RenderTypes
        DEF Rendered!SiteNext, Rendered!Reads, Rendered!Times

LEMMA SiteTypesStart ==
    ASSUME Rendered!SiteInit PROVE SiteTyped
<1>1. site \in Rendered!Sites
  BY CounterConstants DEF Rendered!SiteInit, Rendered!SiteConstants
<1>2. \A key \in Rendered!Cells : sockets[key].phase = "none"
  BY DEF Rendered!SiteInit, Rendered!Unasked
<1>3. \A p \in Rendered!Parts : parts[p].kind \in Kinds
  BY DEF Rendered!SiteInit, Rendered!Waiting, Kinds
<1> QED BY <1>1, <1>2, <1>3, SiteNumbers DEF Rendered!SiteInit, SiteTyped, Phases

LEMMA SiteTypes ==
    ASSUME RequestKnows, SiteTyped PROVE Rendered!SiteTypeOK
BY DEF RequestKnows, SiteTyped, Rendered!SiteTypeOK, Phases, Kinds, AwaitsSocket

-----------------------------------------------------------------------------
(* The list that is read a page at a time.                                   *)

LEMMA ListOperators ==
    /\ \A x : List!Cardinality(x) = Cardinality(x) /\ List!Range(x) = Range(x)
    /\ \A x : List!Last(x) = x[Len(x)] /\ List!FlattenSeq(x) = FlattenSeq(x)
<1>1. \A x : List!Cardinality(x) = Cardinality(x)
  BY DEF List!Cardinality, Cardinality, List!IsFiniteSet, IsFiniteSet
<1>2. \A x : List!Range(x) = Range(x)
  BY DEF List!Range, Range
<1>3. \A x : List!Last(x) = x[Len(x)]
  BY DEF List!Last
<1>4. \A x : List!FlattenSeq(x) = FlattenSeq(x)
  BY Zenon DEF List!FlattenSeq, FlattenSeq
<1> QED BY <1>1, <1>2, <1>3, <1>4

LEMMA DescendingIs ==
    ASSUME NEW T, T \subseteq Nat, IsFiniteSet(T)
    PROVE  /\ List!Descending(T) \in [1 .. Cardinality(T) -> T] /\ Cardinality(T) \in Nat
           /\ Range(List!Descending(T)) = T /\ Descends(List!Descending(T))
<1>1. List!Descending(T) = CHOOSE s \in [1 .. Cardinality(T) -> T] : Range(s) = T /\ Descends(s)
  <2>1. \A s : List!Range(s) = Range(s)
    BY ListOperators
  <2>2. List!Cardinality(T) = Cardinality(T)
    BY ListOperators
  <2> DEFINE P(s) == List!Range(s) = T /\ \A i, k \in DOMAIN s : i < k => s[i] > s[k]
             Q(s) == Range(s) = T /\ Descends(s)
  <2>3. \A s : P(s) <=> Q(s)
    BY <2>1 DEF Descends
  <2>4. List!Descending(T) = CHOOSE s \in [1 .. Cardinality(T) -> T] : P(s)
    BY <2>2 DEF List!Descending
  <2> HIDE DEF P, Q
  <2>5. List!Descending(T) = CHOOSE s \in [1 .. Cardinality(T) -> T] : Q(s)
    BY <2>3, <2>4
  <2> QED BY <2>5 DEF Q
<1>2. \E s \in [1 .. Cardinality(T) -> T] : Range(s) = T /\ Descends(s)
  BY DescentExists
<1>3. Cardinality(T) \in Nat
  BY FS_CardinalityType
<1> QED BY <1>1, <1>2, <1>3

RowSet == [state : List!RowStates, matches : BOOLEAN, steady : BOOLEAN]
Entries == Seq(RowSet)

LEMMA NumberedFacts ==
    ASSUME entries \in Entries
    PROVE  /\ Len(entries) \in Nat /\ List!Numbered = 1 .. Len(entries)
           /\ List!Numbered \subseteq Nat \ {0}
           /\ \A T \in SUBSET List!Numbered : T \subseteq Nat /\ IsFiniteSet(T)
<1>1. Len(entries) \in Nat /\ List!Numbered = 1 .. Len(entries)
  BY DEF Entries, List!Numbered
<1>2. IsFiniteSet(1 .. Len(entries))
  BY <1>1, FS_Interval
<1>3. ASSUME NEW T \in SUBSET (1 .. Len(entries)) PROVE T \subseteq Nat /\ IsFiniteSet(T)
  <2>1. IsFiniteSet(T)
    <3> DEFINE I == 1 .. Len(entries)
    <3>1. IsFiniteSet(I) /\ T \subseteq I
      BY <1>2
    <3> HIDE DEF I
    <3> QED BY <3>1, FS_Subset
  <2> QED BY <1>1, <2>1
<1>4. 1 .. Len(entries) \subseteq Nat \ {0}
  BY <1>1
<1> QED BY <1>1, <1>3, <1>4

\* What the answer to a request for one page holds.
Answer(p, M, cursor) ==
    /\ p = [rows |-> p.rows, next |-> p.next]
    /\ p.rows \in Seq(Nat) /\ Len(p.rows) <= ListPage /\ Descends(p.rows)
    /\ Range(p.rows) \subseteq M
    /\ p.next \in Nat /\ (p.next = 0 \/ p.next \in Range(p.rows))
    /\ \A n \in M : n >= p.next => n \in Range(p.rows)
    /\ \A n \in Range(p.rows) : n >= p.next

LEMMA PageIs ==
    ASSUME entries \in Entries, NEW cursor \in Nat
    PROVE  Answer(List!Page(cursor), {n \in List!Matching : n < cursor}, cursor)
<1> DEFINE M == {n \in List!Matching : n < cursor}
           d == List!Descending(M)
           k == IF Len(d) < ListPage THEN Len(d) ELSE ListPage
           rows == SubSeq(d, 1, k)
           p == List!Page(cursor)
<1>1. M \subseteq Nat /\ IsFiniteSet(M)
  <2>1. M \in SUBSET List!Numbered
    BY DEF List!Matching
  <2> HIDE DEF M
  <2> QED BY <2>1, NumberedFacts
<1>2. p = [rows |-> rows, next |-> IF Len(rows) = ListPage THEN rows[Len(rows)] ELSE 0]
  <2>1. List!Last(rows) = rows[Len(rows)]
    BY ListOperators
  <2> QED BY <2>1 DEF List!Page, List!End
<1> HIDE DEF M
<1>3. /\ d \in [1 .. Cardinality(M) -> M] /\ Cardinality(M) \in Nat
      /\ Range(d) = M /\ Descends(d)
  BY <1>1, DescendingIs
<1> HIDE DEF d
<1>4. d \in Seq(M) /\ Len(d) = Cardinality(M) /\ DOMAIN d = 1 .. Len(d) /\ Len(d) \in Nat
  BY <1>3
<1>5. k \in 0 .. Len(d) /\ k <= ListPage /\ (k = Len(d) \/ k = ListPage) /\ k \in Nat
  <2>1. ListPage \in Nat
    BY RoomConstants DEF List!PageConstants
  <2> QED BY <1>4, <2>1
<1>6. /\ rows \in Seq(Nat) /\ Len(rows) = k /\ DOMAIN rows = 1 .. k
      /\ \A i \in 1 .. k : rows[i] = d[i]
  <2> HIDE DEF k
  <2>1. \A i \in 1 .. k : d[i] \in Nat
    <3>1. \A i \in 1 .. k : i \in 1 .. Len(d)
      BY <1>4, <1>5
    <3>2. \A i \in 1 .. Len(d) : d[i] \in M
      BY <1>3, <1>4
    <3> QED BY <1>1, <3>1, <3>2
  <2>2. /\ rows \in Seq(Nat) /\ Len(rows) = IF 1 <= k THEN k - 1 + 1 ELSE 0
        /\ \A i \in 1 .. k - 1 + 1 : rows[i] = d[1 + i - 1]
    BY <1>5, <2>1, SubSeqProperties
  <2>3. \A i \in 1 .. k : i \in 1 .. k - 1 + 1 /\ 1 + i - 1 = i
    BY <1>5
  <2>4. (IF 1 <= k THEN k - 1 + 1 ELSE 0) = k
    BY <1>5
  <2>5. \A i \in 1 .. k : rows[i] = d[i]
    BY <2>2, <2>3
  <2> HIDE DEF rows
  <2> QED BY <2>2, <2>4, <2>5
<1> HIDE DEF rows, k, p
<1>7. DOMAIN rows = 1 .. k /\ \A i \in 1 .. k : i \in DOMAIN d /\ d[i] \in M /\ d[i] \in Nat
  <2>1. \A i \in 1 .. k : i \in 1 .. Len(d)
    BY <1>4, <1>5
  <2>2. \A i \in 1 .. Len(d) : d[i] \in M
    BY <1>3, <1>4
  <2> QED BY <1>1, <1>4, <1>6, <2>1, <2>2
<1>8. rows \in Seq(Nat) /\ Descends(rows) /\ Range(rows) \subseteq M
  <2>1. rows \in Seq(Nat)
    BY <1>6
  <2>2. Descends(rows)
    BY <1>3, <1>6, <1>7 DEF Descends
  <2>3. Range(rows) \subseteq M
    BY <1>6, <1>7 DEF Range
  <2> QED BY <2>1, <2>2, <2>3
<1>9. \A n \in M : \E j \in 1 .. Len(d) : n = d[j]
  BY <1>3, <1>4 DEF Range
<1>10. CASE k = ListPage
  <2>1. ListPage \in Nat \ {0}
    BY RoomConstants DEF List!PageConstants
  <2>2. k \in 1 .. k /\ p.rows = rows /\ p.next = rows[k] /\ rows[k] = d[k] /\ k \in DOMAIN d
    BY <1>2, <1>5, <1>6, <1>7, <1>10, <2>1
  <2>3. p.next \in Nat /\ p.next \in Range(rows)
    BY <1>7, <2>2 DEF Range
  <2>4. ASSUME NEW n \in M, n >= p.next PROVE n \in Range(rows)
    <3>1. PICK j \in 1 .. Len(d) : n = d[j]
      BY <1>9
    <3>2. j \in DOMAIN d /\ d[j] \in Nat
      BY <1>1, <1>4, <3>1
    <3>3. ~(k < j)
      <4>1. k < j => d[k] > d[j]
        BY <1>3, <2>2, <3>2 DEF Descends
      <4> QED BY <1>7, <2>2, <2>4, <3>1, <3>2, <4>1
    <3>4. j \in 1 .. k
      BY <1>5, <3>1, <3>3
    <3> QED BY <1>6, <1>7, <3>1, <3>4 DEF Range
  <2>5. \A n \in Range(rows) : n >= p.next
    <3>1. \A j \in 1 .. k : j = k \/ j < k
      BY <1>5
    <3>2. \A j \in 1 .. k : j < k => d[j] > d[k]
      BY <1>3, <1>7, <2>2 DEF Descends
    <3>3. \A j \in 1 .. k : rows[j] >= p.next
      BY <1>6, <1>7, <2>2, <3>1, <3>2
    <3> QED BY <1>7, <3>3 DEF Range
  <2>6. p = [rows |-> p.rows, next |-> p.next]
    BY <1>2
  <2> QED BY <1>5, <1>6, <1>8, <2>2, <2>3, <2>4, <2>5, <2>6 DEF Answer, M, p
<1>11. CASE k # ListPage
  <2>1. k = Len(d) /\ p.rows = rows /\ p.next = 0
    BY <1>2, <1>5, <1>6, <1>11
  <2>2. \A n \in M : n \in Range(rows)
    BY <1>6, <1>7, <1>9, <2>1 DEF Range
  <2>3. \A n \in Range(rows) : n >= p.next
    <3>1. \A n \in Nat : n >= 0
      OBVIOUS
    <3>2. Range(rows) \subseteq Nat
      BY <1>1, <1>8
    <3> QED BY <2>1, <3>1, <3>2
  <2>4. p = [rows |-> p.rows, next |-> p.next]
    BY <1>2
  <2> QED BY <1>5, <1>6, <1>8, <2>1, <2>2, <2>3, <2>4 DEF Answer, M, p
<1> QED BY <1>10, <1>11

PageSet == [rows : Seq(Nat), next : Nat]
Low(pages) == IF pages = << >> THEN MaxEntries + 1 ELSE pages[Len(pages)].next
OnIt(pages) == UNION {Range(pages[i].rows) : i \in DOMAIN pages}

PageFits(p, N) ==
    /\ Len(p.rows) <= ListPage /\ Descends(p.rows) /\ Range(p.rows) \subseteq N
    /\ p.next = 0 \/ (p.next \in N /\ p.rows # << >>)

\* The pages make one list; only the last one is perhaps empty, and leads nowhere.
PagesFit(pages, N) ==
    /\ pages \in Seq(PageSet)
    /\ \A i \in DOMAIN pages : PageFits(pages[i], N) /\ (i < Len(pages) => pages[i].next # 0)
    /\ \A i, k \in DOMAIN pages : i < k =>
          \A x \in Range(pages[i].rows), y \in Range(pages[k].rows) : x > y
    /\ \A i \in DOMAIN pages : \A x \in Range(pages[i].rows) : x >= Low(pages)
    /\ Low(pages) + Len(pages) <= MaxEntries + 1

LEMMA MoreNumbers ==
    ASSUME NEW pages, NEW N, NEW N2, N \subseteq N2, PagesFit(pages, N)
    PROVE  PagesFit(pages, N2)
<1>1. \A p : PageFits(p, N) => PageFits(p, N2)
  BY DEF PageFits
<1> QED BY <1>1 DEF PagesFit

LEMMA NoPagesFit ==
    ASSUME NEW N
    PROVE  PagesFit(<< >>, N) /\ Low(<< >>) = MaxEntries + 1 /\ OnIt(<< >>) = {}
<1>1. << >> \in Seq(PageSet) /\ DOMAIN << >> = {} /\ Len(<< >>) = 0
  OBVIOUS
<1>2. MaxEntries \in Nat
  BY RoomConstants DEF List!PageConstants
<1> QED BY <1>1, <1>2 DEF PagesFit, Low, OnIt

LEMMA LowIsNumber ==
    ASSUME NEW pages \in Seq(PageSet)
    PROVE  Low(pages) \in Nat
<1>1. MaxEntries \in Nat
  BY RoomConstants DEF List!PageConstants
<1>2. CASE pages # << >>
  <2>1. pages[Len(pages)] \in PageSet
    BY <1>2
  <2> QED BY <1>2, <2>1 DEF Low, PageSet
<1> QED BY <1>1, <1>2 DEF Low

LEMMA OnePageMore ==
    ASSUME NEW pages, NEW N, N \subseteq Nat \ {0}, PagesFit(pages, N), Low(pages) # 0,
           NEW p, NEW M, M \subseteq {n \in N : n < Low(pages)}, Answer(p, M, Low(pages))
    PROVE  /\ PagesFit(Append(pages, p), N) /\ Low(Append(pages, p)) = p.next
           /\ p.next < Low(pages) /\ p.next \in Nat /\ Low(pages) \in Nat
           /\ OnIt(Append(pages, p)) = OnIt(pages) \cup Range(p.rows)
           /\ Append(pages, p)[1] = IF pages = << >> THEN p ELSE pages[1]
           /\ Append(pages, p) # << >> /\ Len(Append(pages, p)) = Len(pages) + 1
<1> DEFINE more == Append(pages, p)
           l == Len(pages) + 1
<1>1. pages \in Seq(PageSet) /\ p \in PageSet
  BY DEF Answer, PagesFit, PageSet
<1>2. /\ more \in Seq(PageSet) /\ Len(more) = l /\ DOMAIN more = 1 .. l /\ more # << >>
      /\ more[l] = p /\ Len(pages) \in Nat /\ DOMAIN pages = 1 .. Len(pages)
      /\ \A i \in 1 .. Len(pages) : more[i] = pages[i]
  BY <1>1, AppendProperties
<1> HIDE DEF more
<1>3. Low(more) = p.next /\ Low(pages) \in Nat /\ p.next \in Nat
  BY <1>1, <1>2, LowIsNumber DEF Low, PageSet
<1>4. /\ \A x \in Range(p.rows) : x \in N /\ x \in Nat /\ x < Low(pages) /\ x >= p.next
      /\ p.next = 0 \/ p.next \in Range(p.rows)
  BY DEF Answer
<1>5. p.next < Low(pages)
  BY <1>3, <1>4
<1>6. PageFits(p, N)
  <2>1. p.next = 0 \/ (p.next \in N /\ p.rows # << >>)
    BY <1>4 DEF Range
  <2> QED BY <1>4, <2>1 DEF Answer, PageFits
<1>7. \A i \in 1 .. l : i = l \/ (i \in 1 .. Len(pages) /\ i < l)
  BY <1>2
<1>8. ASSUME NEW i \in DOMAIN more PROVE PageFits(more[i], N) /\ (i < Len(more) => more[i].next # 0)
  <2>1. CASE i = l
    BY <1>2, <1>6, <2>1
  <2>2. CASE i \in 1 .. Len(pages)
    <3>1. PageFits(pages[i], N) /\ more[i] = pages[i]
      BY <1>2, <2>2 DEF PagesFit
    <3>2. CASE i < Len(pages)
      BY <1>2, <2>2, <3>1, <3>2 DEF PagesFit
    <3>3. CASE i = Len(pages)
      BY <1>2, <2>2, <3>1, <3>3 DEF Low
    <3> QED BY <1>2, <2>2, <3>2, <3>3
  <2> QED BY <1>2, <1>7, <2>1, <2>2
<1>9. ASSUME NEW i \in DOMAIN pages, NEW x \in Range(pages[i].rows)
      PROVE  x \in N /\ x \in Nat /\ x >= Low(pages)
  <2>1. PageFits(pages[i], N)
    BY DEF PagesFit
  <2> QED BY <2>1 DEF PagesFit, PageFits
<1>10. ASSUME NEW i \in DOMAIN more, NEW k \in DOMAIN more, i < k,
              NEW x \in Range(more[i].rows), NEW y \in Range(more[k].rows)
       PROVE  x > y
  <2>1. i \in DOMAIN pages /\ more[i] = pages[i]
    BY <1>2, <1>7, <1>10
  <2>2. CASE k = l
    <3>1. y \in Range(p.rows) /\ x \in Range(pages[i].rows)
      BY <1>2, <2>1, <2>2
    <3>2. y \in Nat /\ y < Low(pages) /\ x \in Nat /\ x >= Low(pages)
      BY <1>4, <1>9, <2>1, <3>1
    <3> QED BY <1>3, <3>2
  <2>3. CASE k \in 1 .. Len(pages)
    BY <1>2, <1>10, <2>1, <2>3 DEF PagesFit
  <2> QED BY <1>2, <1>7, <2>2, <2>3
<1>11. ASSUME NEW i \in DOMAIN more, NEW x \in Range(more[i].rows)
       PROVE  x >= Low(more)
  <2>1. CASE i = l
    BY <1>2, <1>3, <1>4, <2>1
  <2>2. CASE i \in 1 .. Len(pages)
    <3>1. x \in Nat /\ x >= Low(pages)
      BY <1>2, <1>9, <2>2
    <3> QED BY <1>3, <1>5, <3>1
  <2> QED BY <1>2, <1>7, <2>1, <2>2
<1>12. Low(more) + Len(more) <= MaxEntries + 1
  <2>1. Low(pages) + Len(pages) <= MaxEntries + 1 /\ MaxEntries \in Nat
    BY RoomConstants DEF List!PageConstants, PagesFit
  <2> QED BY <1>2, <1>3, <1>5, <2>1
<1>13. OnIt(more) = OnIt(pages) \cup Range(p.rows)
  <2>1. \A x : x \in OnIt(more) => x \in OnIt(pages) \cup Range(p.rows)
    BY <1>2, <1>7 DEF OnIt
  <2>2. \A x : x \in OnIt(pages) => x \in OnIt(more)
    <3>1. \A i \in DOMAIN pages : i \in DOMAIN more
      BY <1>2
    <3> QED BY <1>2, <3>1 DEF OnIt
  <2>3. \A x : x \in Range(p.rows) => x \in OnIt(more)
    <3>1. l \in DOMAIN more
      BY <1>2
    <3> QED BY <1>2, <3>1 DEF OnIt
  <2> QED BY <2>1, <2>2, <2>3
<1>14. more[1] = IF pages = << >> THEN p ELSE pages[1]
  <2>1. pages = << >> => l = 1
    BY <1>2
  <2>2. pages # << >> => 1 \in 1 .. Len(pages)
    BY <1>1, <1>2
  <2> QED BY <1>2, <2>1, <2>2
<1>15. PagesFit(more, N)
  BY <1>2, <1>8, <1>10, <1>11, <1>12 DEF PagesFit
<1> QED BY <1>2, <1>3, <1>5, <1>13, <1>14, <1>15 DEF more

Committed(rows) == {n \in DOMAIN rows : rows[n].state = "committed" /\ rows[n].matches}
Steady(rows, n) == rows[n].steady /\ rows[n].matches

\* Nothing is lost of what matched when the first page was asked for, nor of the
\* orders that match unchanged and are below the first on the list.
ListFits(pages, since0, rows, kind) ==
    /\ PagesFit(pages, DOMAIN rows)
    /\ since0 \subseteq Committed(rows) /\ \A n \in since0 : n >= Low(pages) => n \in OnIt(pages)
    /\ kind = "orders" /\ pages # << >> /\ pages[1].rows # << >> =>
         \A n \in DOMAIN rows : n >= Low(pages) /\ Steady(rows, n) /\ n < pages[1].rows[1] => n \in OnIt(pages)

LEMMA FirstIsNumbered ==
    ASSUME NEW pages, NEW N, PagesFit(pages, N), pages # << >>, pages[1].rows # << >>
    PROVE  pages[1].rows[1] \in N
<1>1. 1 \in DOMAIN pages /\ pages \in Seq(PageSet)
  BY DEF PagesFit
<1>2. pages[1] \in PageSet /\ Range(pages[1].rows) \subseteq N
  BY <1>1 DEF PagesFit, PageFits
<1>3. pages[1].rows \in Seq(Nat)
  BY <1>2 DEF PageSet
<1>4. 1 \in DOMAIN pages[1].rows
  BY <1>3
<1> QED BY <1>2, <1>4 DEF Range

LEMMA RowsGoOn ==
    ASSUME NEW pages, NEW since0, NEW rows, NEW kind, ListFits(pages, since0, rows, kind),
           NEW since2, NEW rows2, DOMAIN rows \subseteq DOMAIN rows2,
           since2 \subseteq since0, since2 \subseteq Committed(rows2), DOMAIN rows2 \subseteq Nat,
           \A n \in DOMAIN rows2 : Steady(rows2, n) =>
              \/ n \in DOMAIN rows /\ Steady(rows, n)
              \/ \A m \in DOMAIN rows : n > m
    PROVE  ListFits(pages, since2, rows2, kind)
<1>1. PagesFit(pages, DOMAIN rows) /\ PagesFit(pages, DOMAIN rows2)
  BY MoreNumbers DEF ListFits
<1>2. \A n \in since2 : n >= Low(pages) => n \in OnIt(pages)
  BY DEF ListFits
<1>3. ASSUME kind = "orders", pages # << >>, pages[1].rows # << >>,
             NEW n \in DOMAIN rows2, n >= Low(pages), Steady(rows2, n), n < pages[1].rows[1]
      PROVE  n \in OnIt(pages)
  <2>1. pages[1].rows[1] \in DOMAIN rows
    BY <1>1, <1>3, FirstIsNumbered
  <2>2. n \in Nat /\ pages[1].rows[1] \in Nat
    BY <2>1
  <2>3. ~(n > pages[1].rows[1])
    BY <1>3, <2>2
  <2>4. n \in DOMAIN rows /\ Steady(rows, n)
    BY <1>3, <2>1, <2>3
  <2> QED BY <1>3, <2>4 DEF ListFits
<1> QED BY <1>1, <1>2, <1>3 DEF ListFits

LEMMA PageGoesOn ==
    ASSUME NEW pages, NEW since0, NEW rows, NEW kind, ListFits(pages, since0, rows, kind),
           DOMAIN rows \subseteq Nat \ {0}, \A n \in DOMAIN rows : n <= MaxEntries,
           kind = "orders" => \A n \in DOMAIN rows : rows[n].state = "committed",
           Low(pages) # 0, NEW p, Answer(p, {n \in Committed(rows) : n < Low(pages)}, Low(pages))
    PROVE  ListFits(Append(pages, p), since0, rows, kind)
<1> DEFINE M == {n \in Committed(rows) : n < Low(pages)}
           more == Append(pages, p)
<1>1. /\ M \subseteq {n \in DOMAIN rows : n < Low(pages)} /\ Answer(p, M, Low(pages))
      /\ PagesFit(pages, DOMAIN rows)
  BY DEF ListFits, Committed
<1>2. \A n : n \in M <=> n \in Committed(rows) /\ n < Low(pages)
  OBVIOUS
<1> HIDE DEF M
<1>3. /\ PagesFit(more, DOMAIN rows) /\ Low(more) = p.next
      /\ p.next < Low(pages) /\ p.next \in Nat /\ Low(pages) \in Nat
      /\ OnIt(more) = OnIt(pages) \cup Range(p.rows)
      /\ more[1] = IF pages = << >> THEN p ELSE pages[1]
  BY <1>1, OnePageMore
<1> HIDE DEF more
<1>4. ASSUME NEW n \in Committed(rows), n >= p.next, n >= Low(pages) => n \in OnIt(pages)
      PROVE  n \in OnIt(more)
  <2>1. n \in Nat
    BY DEF Committed
  <2>2. CASE n >= Low(pages)
    BY <1>3, <1>4, <2>2
  <2>3. CASE ~(n >= Low(pages))
    <3>1. n \in M
      BY <1>2, <1>3, <2>1, <2>3
    <3>2. n \in Range(p.rows)
      BY <1>1, <1>4, <3>1 DEF Answer
    <3> QED BY <1>3, <3>2
  <2> QED BY <2>2, <2>3
<1>5. \A n \in since0 : n >= Low(more) => n \in OnIt(more)
  BY <1>3, <1>4 DEF ListFits
<1>6. ASSUME kind = "orders", more # << >>, more[1].rows # << >>,
             NEW n \in DOMAIN rows, n >= Low(more), Steady(rows, n), n < more[1].rows[1]
      PROVE  n \in OnIt(more)
  <2>1. n \in Committed(rows) /\ n >= p.next
    BY <1>3, <1>6 DEF Committed, Steady
  <2>2. CASE pages # << >>
    <3>1. n >= Low(pages) => n \in OnIt(pages)
      BY <1>3, <1>6, <2>2 DEF ListFits
    <3> QED BY <1>4, <2>1, <3>1
  <2>3. CASE pages = << >>
    <3>1. ~(n >= Low(pages))
      <4>1. MaxEntries \in Nat /\ n \in Nat /\ n <= MaxEntries
        BY RoomConstants DEF List!PageConstants
      <4> QED BY <2>3, <4>1 DEF Low
    <3> QED BY <1>4, <2>1, <3>1
  <2> QED BY <2>2, <2>3
<1>7. since0 \subseteq Committed(rows)
  BY DEF ListFits
<1> QED BY <1>3, <1>5, <1>6, <1>7 DEF ListFits, more

PagesAreRead ==
    /\ entries \in Entries /\ Len(entries) <= MaxEntries /\ stream \in {"orders", "audit"}
    /\ stream = "orders" => \A n \in DOMAIN entries : entries[n].state = "committed"
    /\ onList = [pages |-> onList.pages, since |-> onList.since]
    /\ ListFits(onList.pages, onList.since, entries, stream)
    /\ reading = [pages |-> reading.pages, since |-> reading.since, want |-> reading.want]
    /\ ListFits(reading.pages, reading.since, entries, stream)
    /\ reading.want \in 0 .. MaxEntries + 1
    /\ reading.want > 0 => Low(reading.pages) # 0 /\ Len(reading.pages) < reading.want
    /\ pageEvents \in 0 .. MaxPageEvents

LEMMA RowFacts ==
    ASSUME PagesAreRead
    PROVE  /\ DOMAIN entries = 1 .. Len(entries) /\ DOMAIN entries \subseteq Nat \ {0}
           /\ \A n \in DOMAIN entries : n <= MaxEntries
           /\ Len(entries) \in Nat /\ MaxEntries \in Nat
           /\ List!Numbered = DOMAIN entries /\ List!Matching = Committed(entries)
           /\ \A list : List!Cursor(list) = Low(list.pages)
<1>1. MaxEntries \in Nat
  BY RoomConstants DEF List!PageConstants
<1>2. DOMAIN entries = 1 .. Len(entries) /\ Len(entries) \in Nat /\ Len(entries) <= MaxEntries
  BY DEF PagesAreRead, Entries
<1>3. List!Numbered = DOMAIN entries /\ List!Matching = Committed(entries)
  BY DEF List!Numbered, List!Matching, Committed
<1>4. \A list : List!Cursor(list) = Low(list.pages)
  BY ListOperators DEF List!Cursor, Low, List!Newest
<1> QED BY <1>1, <1>2, <1>3, <1>4

LEMMA RowIs ==
    ASSUME PagesAreRead, NEW n \in List!Numbered
    PROVE  n \in DOMAIN entries /\ entries[n] \in RowSet
<1>1. entries \in Seq(RowSet)
  BY DEF PagesAreRead, Entries, RowSet
<1>2. DOMAIN entries = 1 .. Len(entries) /\ n \in DOMAIN entries
  BY RowFacts
<1> HIDE DEF RowSet
<1>3. entries[n] \in RowSet
  BY <1>1, <1>2
<1> QED BY <1>2, <1>3

LEMMA RowChangeKeeps ==
    ASSUME PagesAreRead, entries' \in Entries, Len(entries') <= MaxEntries, stream' = stream,
           stream = "orders" => \A n \in DOMAIN entries' : entries'[n].state = "committed",
           DOMAIN entries \subseteq DOMAIN entries', DOMAIN entries' \subseteq Nat,
           NEW gone, onList' = List!Without(onList, gone), reading' = List!Without(reading, gone),
           \A n \in Committed(entries) : n # gone => n \in Committed(entries'),
           \A n \in DOMAIN entries' : Steady(entries', n) =>
              \/ n \in DOMAIN entries /\ Steady(entries, n)
              \/ \A m \in DOMAIN entries : n > m,
           pageEvents' \in 0 .. MaxPageEvents
    PROVE  PagesAreRead'
<1>1. /\ onList' = [pages |-> onList.pages, since |-> onList.since \ {gone}]
      /\ reading' = [pages |-> reading.pages, since |-> reading.since \ {gone}, want |-> reading.want]
  BY DEF PagesAreRead, List!Without
<1>2. ASSUME NEW pages, NEW since0, ListFits(pages, since0, entries, stream)
      PROVE  ListFits(pages, since0 \ {gone}, entries', stream)
  <2>1. since0 \ {gone} \subseteq Committed(entries')
    BY <1>2 DEF ListFits
  <2> DEFINE rows2 == entries'
             since2 == since0 \ {gone}
  <2>2. /\ DOMAIN entries \subseteq DOMAIN rows2 /\ since2 \subseteq since0 /\ since2 \subseteq Committed(rows2)
        /\ DOMAIN rows2 \subseteq Nat
        /\ \A n \in DOMAIN rows2 : Steady(rows2, n) =>
              \/ n \in DOMAIN entries /\ Steady(entries, n)
              \/ \A m \in DOMAIN entries : n > m
    BY <2>1
  <2> HIDE DEF rows2, since2
  <2>3. ListFits(pages, since2, rows2, stream)
    BY <1>2, <2>2, RowsGoOn
  <2> QED BY <2>3 DEF rows2, since2
<1>3. /\ ListFits(onList.pages, onList.since \ {gone}, entries', stream)
      /\ ListFits(reading.pages, reading.since \ {gone}, entries', stream)
  BY <1>2 DEF PagesAreRead
<1>4. /\ onList'.pages = onList.pages /\ onList'.since = onList.since \ {gone}
      /\ reading'.pages = reading.pages /\ reading'.since = reading.since \ {gone}
      /\ reading'.want = reading.want
  BY <1>1
<1>5. /\ onList' = [pages |-> onList'.pages, since |-> onList'.since]
      /\ reading' = [pages |-> reading'.pages, since |-> reading'.since, want |-> reading'.want]
  BY <1>1, <1>4
<1>6. /\ ListFits(onList'.pages, onList'.since, entries', stream')
      /\ ListFits(reading'.pages, reading'.since, entries', stream')
  BY <1>3, <1>4
<1> QED BY <1>4, <1>5, <1>6 DEF PagesAreRead

LEMMA SameLists ==
    ASSUME PagesAreRead, NEW gone, gone \notin Committed(entries), UNCHANGED <<onList, reading>>
    PROVE  onList' = List!Without(onList, gone) /\ reading' = List!Without(reading, gone)
<1>1. gone \notin onList.since /\ gone \notin reading.since
  BY DEF PagesAreRead, ListFits
<1>2. onList.since \ {gone} = onList.since /\ reading.since \ {gone} = reading.since
  BY <1>1
<1> QED BY <1>2 DEF PagesAreRead, List!Without

LEMMA AddEntryKeeps ==
    ASSUME PagesAreRead, List!AddEntry
    PROVE  PagesAreRead'
<1>1. PICK m \in BOOLEAN :
        entries' = Append(entries, List!Entry(IF stream = "orders" THEN "committed" ELSE "written", m))
  BY DEF List!AddEntry
<1> DEFINE e == List!Entry(IF stream = "orders" THEN "committed" ELSE "written", m)
           l == Len(entries) + 1
<1>2. e \in RowSet /\ (stream = "orders" => e.state = "committed")
  BY DEF List!Entry, RowSet, List!RowStates
<1> HIDE DEF e
<1>3. entries \in Seq(RowSet)
  BY DEF PagesAreRead, Entries, RowSet
<1>4. /\ entries' \in Seq(RowSet) /\ Len(entries') = l /\ DOMAIN entries' = 1 .. l
      /\ entries'[l] = e /\ \A n \in 1 .. Len(entries) : entries'[n] = entries[n]
  BY <1>1, <1>2, <1>3, AppendProperties DEF e
<1>5. /\ DOMAIN entries = 1 .. Len(entries) /\ Len(entries) \in Nat /\ l <= MaxEntries
      /\ \A n \in 1 .. l : n = l \/ n \in 1 .. Len(entries)
      /\ \A n \in 1 .. Len(entries) : l > n /\ n \in 1 .. l
  BY RowFacts DEF List!AddEntry
<1>6. l \notin Committed(entries)
  BY <1>5 DEF Committed
<1>7. onList' = List!Without(onList, l) /\ reading' = List!Without(reading, l)
  BY <1>6, SameLists DEF List!AddEntry
<1>8. entries' \in Entries /\ Len(entries') <= MaxEntries
  BY <1>4, <1>5 DEF Entries, RowSet
<1>9. stream = "orders" => \A n \in DOMAIN entries' : entries'[n].state = "committed"
  BY <1>2, <1>4, <1>5 DEF PagesAreRead
<1>10. \A n \in Committed(entries) : n # l => n \in Committed(entries')
  BY <1>4, <1>5 DEF Committed
<1>11. \A n \in DOMAIN entries' : Steady(entries', n) =>
         \/ n \in DOMAIN entries /\ Steady(entries, n)
         \/ \A k \in DOMAIN entries : n > k
  BY <1>4, <1>5 DEF Steady
<1>12. DOMAIN entries \subseteq DOMAIN entries' /\ DOMAIN entries' \subseteq Nat
  BY <1>4, <1>5
<1>13. stream' = stream /\ pageEvents' \in 0 .. MaxPageEvents
  BY DEF List!AddEntry, PagesAreRead
<1> HIDE DEF l
<1> QED BY <1>7, <1>8, <1>9, <1>10, <1>11, <1>12, <1>13, RowChangeKeeps

LEMMA RowEdits ==
    ASSUME PagesAreRead, NEW n \in DOMAIN entries, NEW e \in RowSet, entries' = [entries EXCEPT ![n] = e]
    PROVE  /\ entries' \in Entries /\ Len(entries') = Len(entries)
           /\ DOMAIN entries' = DOMAIN entries /\ entries'[n] = e
           /\ \A k \in DOMAIN entries : k # n => entries'[k] = entries[k]
<1>1. entries \in Seq(RowSet)
  BY DEF PagesAreRead, Entries, RowSet
<1>2. entries' \in Seq(RowSet) /\ Len(entries') = Len(entries) /\ DOMAIN entries' = DOMAIN entries
  BY <1>1
<1> QED BY <1>1, <1>2 DEF Entries, RowSet

LEMMA EndTransactionKeeps ==
    ASSUME PagesAreRead, NEW n \in List!Numbered, List!EndTransaction(n)
    PROVE  PagesAreRead'
<1>1. PICK st \in {"committed", "rolledBack"} : entries' = [entries EXCEPT ![n].state = st]
  BY DEF List!EndTransaction
<1>2. n \in DOMAIN entries /\ entries[n] \in RowSet /\ entries[n].state = "written"
  BY RowIs DEF List!EndTransaction
<1> DEFINE e == [entries[n] EXCEPT !.state = st]
<1>3. e \in RowSet /\ e.matches = entries[n].matches /\ e.steady = entries[n].steady
  BY <1>2 DEF RowSet, List!RowStates
<1>4. entries' = [entries EXCEPT ![n] = e]
  BY <1>1
<1> HIDE DEF e
<1>5. /\ entries' \in Entries /\ Len(entries') = Len(entries)
      /\ DOMAIN entries' = DOMAIN entries /\ entries'[n] = e
      /\ \A k \in DOMAIN entries : k # n => entries'[k] = entries[k]
  BY <1>2, <1>3, <1>4, RowEdits
<1>6. n \notin Committed(entries) /\ stream # "orders"
  BY <1>2 DEF Committed, PagesAreRead
<1>7. onList' = List!Without(onList, n) /\ reading' = List!Without(reading, n)
  BY <1>6, SameLists DEF List!EndTransaction
<1>8. \A k \in Committed(entries) : k # n => k \in Committed(entries')
  BY <1>5 DEF Committed
<1>9. \A k \in DOMAIN entries' : Steady(entries', k) => k \in DOMAIN entries /\ Steady(entries, k)
  BY <1>3, <1>5 DEF Steady
<1>10. stream' = stream /\ pageEvents' \in 0 .. MaxPageEvents /\ Len(entries') <= MaxEntries
  BY <1>5 DEF List!EndTransaction, PagesAreRead
<1>11. DOMAIN entries \subseteq DOMAIN entries' /\ DOMAIN entries' \subseteq Nat
  BY <1>5, RowFacts
<1> QED BY <1>5, <1>6, <1>7, <1>8, <1>9, <1>10, <1>11, RowChangeKeeps

LEMMA MoveOrderKeeps ==
    ASSUME PagesAreRead, NEW n \in List!Numbered, List!MoveOrder(n)
    PROVE  PagesAreRead'
<1>1. /\ entries' = [entries EXCEPT ![n].matches = ~@, ![n].steady = FALSE]
      /\ onList' = List!Without(onList, n) /\ reading' = List!Without(reading, n)
      /\ stream' = stream /\ pageEvents < MaxPageEvents /\ pageEvents' = pageEvents + 1
  BY DEF List!MoveOrder, List!Happens
<1>2. n \in DOMAIN entries /\ entries[n] \in RowSet
  BY RowIs
<1> DEFINE e == [entries[n] EXCEPT !.matches = ~@, !.steady = FALSE]
<1>3. e \in RowSet /\ ~e.steady /\ e.state = entries[n].state
  BY <1>2 DEF RowSet, List!RowStates
<1>4. entries' = [entries EXCEPT ![n] = e]
  BY <1>1, <1>2
<1> HIDE DEF e
<1>5. /\ entries' \in Entries /\ Len(entries') = Len(entries)
      /\ DOMAIN entries' = DOMAIN entries /\ entries'[n] = e
      /\ \A k \in DOMAIN entries : k # n => entries'[k] = entries[k]
  BY <1>2, <1>3, <1>4, RowEdits
<1>6. stream = "orders" => \A k \in DOMAIN entries' : entries'[k].state = "committed"
  BY <1>2, <1>3, <1>5 DEF PagesAreRead
<1>7. \A k \in Committed(entries) : k # n => k \in Committed(entries')
  BY <1>5 DEF Committed
<1>8. \A k \in DOMAIN entries' : Steady(entries', k) => k \in DOMAIN entries /\ Steady(entries, k)
  BY <1>3, <1>5 DEF Steady
<1>9. pageEvents' \in 0 .. MaxPageEvents /\ Len(entries') <= MaxEntries
  BY <1>1, <1>5, RoomConstants DEF PagesAreRead, List!PageConstants
<1>10. DOMAIN entries \subseteq DOMAIN entries' /\ DOMAIN entries' \subseteq Nat
  BY <1>5, RowFacts
<1> QED BY <1>1, <1>5, <1>6, <1>7, <1>8, <1>9, <1>10, RowChangeKeeps

\* A fetch begins with no page, and a list that was never fetched has none.
LEMMA NothingRead ==
    ASSUME NEW rows, NEW kind, NEW since0, since0 \subseteq Committed(rows),
           \A n \in DOMAIN rows : n \in Nat /\ n <= MaxEntries
    PROVE  ListFits(<< >>, since0, rows, kind)
<1>1. PagesFit(<< >>, DOMAIN rows) /\ Low(<< >>) = MaxEntries + 1
  BY NoPagesFit
<1>2. \A n \in since0 : ~(n >= MaxEntries + 1)
  <2>1. MaxEntries \in Nat
    BY RoomConstants DEF List!PageConstants
  <2> QED BY <2>1 DEF Committed
<1> QED BY <1>1, <1>2 DEF ListFits

LEMMA ListIsFetched ==
    ASSUME PagesAreRead, List!Refetch \/ List!LoadOlder \/ List!FailPage
    PROVE  PagesAreRead'
<1>1. MaxEntries \in Nat /\ \A n \in DOMAIN entries : n \in Nat /\ n <= MaxEntries
  BY RowFacts
<1>2. /\ onList.pages \in Seq(PageSet) /\ Len(onList.pages) \in Nat
      /\ Low(onList.pages) \in Nat
      /\ Low(onList.pages) + Len(onList.pages) <= MaxEntries + 1
  <2>1. onList.pages \in Seq(PageSet) /\ Low(onList.pages) + Len(onList.pages) <= MaxEntries + 1
    BY DEF PagesAreRead, ListFits, PagesFit
  <2> QED BY <2>1, LowIsNumber
<1>3. CASE List!Refetch
  <2> DEFINE w == IF onList.pages = << >> THEN 1 ELSE Len(onList.pages)
  <2>1. reading' = [pages |-> << >>, since |-> Committed(entries), want |-> w]
    BY <1>3, RowFacts DEF List!Refetch, List!Afresh
  <2>2. w \in 0 .. MaxEntries + 1 /\ w > 0
    <3>1. onList.pages # << >> => Len(onList.pages) > 0
      BY <1>2
    <3> QED BY <1>1, <1>2, <3>1
  <2> HIDE DEF w
  <2>3. ListFits(<< >>, Committed(entries), entries, stream)
    BY <1>1, NothingRead
  <2>4. Low(<< >>) # 0 /\ Len(<< >>) < w
    BY <1>1, <2>2 DEF Low
  <2>5. reading'.pages = << >> /\ reading'.since = Committed(entries) /\ reading'.want = w
        /\ reading' = [pages |-> reading'.pages, since |-> reading'.since, want |-> reading'.want]
    BY <2>1
  <2>6. UNCHANGED <<stream, entries, onList, pageEvents>>
    BY <1>3 DEF List!Refetch
  <2> QED BY <2>2, <2>3, <2>4, <2>5, <2>6 DEF PagesAreRead
<1>4. CASE List!LoadOlder
  <2> DEFINE w == Len(onList.pages) + 1
  <2>1. /\ reading' = [pages |-> onList.pages, since |-> onList.since, want |-> w]
        /\ Low(onList.pages) # 0
    BY <1>4, RowFacts DEF List!LoadOlder, List!End
  <2>2. w \in 0 .. MaxEntries + 1 /\ Len(onList.pages) < w
    BY <1>1, <1>2, <2>1
  <2> HIDE DEF w
  <2>3. reading'.pages = onList.pages /\ reading'.since = onList.since /\ reading'.want = w
        /\ reading' = [pages |-> reading'.pages, since |-> reading'.since, want |-> reading'.want]
    BY <2>1
  <2>4. UNCHANGED <<stream, entries, onList, pageEvents>>
    BY <1>4 DEF List!LoadOlder
  <2> QED BY <2>1, <2>2, <2>3, <2>4 DEF PagesAreRead
<1>5. CASE List!FailPage
  <2>1. /\ reading' = [pages |-> << >>, since |-> {}, want |-> 0]
        /\ UNCHANGED <<stream, entries, onList>>
        /\ pageEvents < MaxPageEvents /\ pageEvents' = pageEvents + 1
    BY <1>5 DEF List!FailPage, List!Idle, List!Happens
  <2>2. ListFits(<< >>, {}, entries, stream)
    BY <1>1, NothingRead
  <2>3. reading'.pages = << >> /\ reading'.since = {} /\ reading'.want = 0
        /\ reading' = [pages |-> reading'.pages, since |-> reading'.since, want |-> reading'.want]
    BY <2>1
  <2>4. reading'.want \in 0 .. MaxEntries + 1 /\ ~(reading'.want > 0)
    BY <1>1, <2>3
  <2>5. pageEvents' \in 0 .. MaxPageEvents
    BY <2>1, RoomConstants DEF PagesAreRead, List!PageConstants
  <2> QED BY <2>1, <2>2, <2>3, <2>4, <2>5 DEF PagesAreRead
<1> QED BY <1>3, <1>4, <1>5

LEMMA PageIsTaken ==
    ASSUME PagesAreRead, List!TakePage
    PROVE  PagesAreRead'
<1> DEFINE pages == reading.pages
           p == List!Page(Low(pages))
           more == Append(pages, p)
           got == [pages |-> more, since |-> reading.since, want |-> reading.want]
<1>1. /\ reading.want > 0 /\ UNCHANGED <<stream, entries, pageEvents>>
      /\ IF p.next = 0 \/ Len(more) = reading.want
         THEN onList' = [pages |-> more, since |-> reading.since]
              /\ reading' = [pages |-> << >>, since |-> {}, want |-> 0]
         ELSE onList' = onList /\ reading' = got
  <2>1. [reading EXCEPT !.pages = Append(@, p)] = got
    BY DEF PagesAreRead
  <2>2. Low(more) = p.next
    <3>1. pages \in Seq(PageSet)
      BY DEF PagesAreRead, ListFits, PagesFit
    <3>2. Len(more) = Len(pages) + 1 /\ more # << >> /\ more[Len(pages) + 1] = p
      BY <3>1
    <3> HIDE DEF more, p
    <3> QED BY <3>2 DEF Low
  <2>3. List!Cursor(reading) = Low(pages) /\ List!Cursor(got) = Low(got.pages)
    BY RowFacts
  <2>4. got.pages = more /\ got.since = reading.since
    OBVIOUS
  <2> HIDE DEF got
  <2>5. got = [reading EXCEPT !.pages = Append(@, List!Page(List!Cursor(reading)))]
    BY <2>1, <2>3
  <2> HIDE DEF p
  <2>6. /\ reading.want > 0 /\ UNCHANGED <<stream, entries, pageEvents>>
        /\ IF List!Cursor(got) = 0 \/ Len(got.pages) = reading.want
           THEN onList' = [pages |-> got.pages, since |-> got.since] /\ reading' = List!Idle
           ELSE onList' = onList /\ reading' = got
    BY <2>5 DEF List!TakePage, List!End
  <2> QED BY <2>2, <2>3, <2>4, <2>6 DEF List!Idle
<1>2. /\ Low(pages) # 0 /\ Len(pages) < reading.want /\ reading.want \in 0 .. MaxEntries + 1
      /\ ListFits(pages, reading.since, entries, stream)
  BY <1>1 DEF PagesAreRead
<1>3. Low(pages) \in Nat /\ pages \in Seq(PageSet)
  BY <1>2, LowIsNumber DEF ListFits, PagesFit
<1>4. Answer(p, {n \in Committed(entries) : n < Low(pages)}, Low(pages))
  <2>1. {n \in List!Matching : n < Low(pages)} = {n \in Committed(entries) : n < Low(pages)}
    BY RowFacts
  <2> HIDE DEF p
  <2>2. Answer(p, {n \in List!Matching : n < Low(pages)}, Low(pages))
    BY <1>3, PageIs DEF PagesAreRead, p
  <2> QED BY <2>1, <2>2
<1> HIDE DEF p
<1>5. ListFits(more, reading.since, entries, stream)
  <2>1. /\ DOMAIN entries \subseteq Nat \ {0} /\ \A n \in DOMAIN entries : n <= MaxEntries
        /\ stream = "orders" => \A n \in DOMAIN entries : entries[n].state = "committed"
    BY RowFacts DEF PagesAreRead
  <2> HIDE DEF pages
  <2> QED BY <1>2, <1>4, <2>1, PageGoesOn
<1>6. /\ Len(more) = Len(pages) + 1 /\ Len(pages) \in Nat /\ Low(more) = p.next
  <2>1. Len(more) = Len(pages) + 1 /\ more # << >> /\ more[Len(pages) + 1] = p /\ Len(pages) \in Nat
    BY <1>3
  <2> HIDE DEF more
  <2> QED BY <2>1 DEF Low
<1> HIDE DEF more
<1>7. CASE p.next = 0 \/ Len(more) = reading.want
  <2>1. /\ onList' = [pages |-> more, since |-> reading.since]
        /\ reading' = [pages |-> << >>, since |-> {}, want |-> 0]
    BY <1>1, <1>7
  <2>2. ListFits(<< >>, {}, entries, stream)
    BY NothingRead, RowFacts
  <2>3. /\ reading'.pages = << >> /\ reading'.since = {} /\ reading'.want = 0
        /\ reading' = [pages |-> reading'.pages, since |-> reading'.since, want |-> reading'.want]
        /\ onList'.pages = more /\ onList'.since = reading.since
        /\ onList' = [pages |-> onList'.pages, since |-> onList'.since]
    BY <2>1
  <2>4. reading'.want \in 0 .. MaxEntries + 1 /\ ~(reading'.want > 0)
    BY <2>3, RowFacts
  <2> QED BY <1>1, <1>5, <2>2, <2>3, <2>4 DEF PagesAreRead
<1>8. CASE ~(p.next = 0 \/ Len(more) = reading.want)
  <2>1. onList' = onList /\ reading' = got
    BY <1>1, <1>8
  <2>2. /\ reading'.pages = more /\ reading'.since = reading.since /\ reading'.want = reading.want
        /\ reading' = [pages |-> reading'.pages, since |-> reading'.since, want |-> reading'.want]
    BY <2>1
  <2>3. Low(more) # 0 /\ Len(more) < reading.want
    <3>1. reading.want \in Int
      BY <1>2, RowFacts
    <3> QED BY <1>2, <1>6, <1>8, <3>1
  <2> HIDE DEF got
  <2> QED BY <1>1, <1>2, <1>5, <2>1, <2>2, <2>3 DEF PagesAreRead
<1> QED BY <1>7, <1>8

LEMMA ListGoesOn ==
    ASSUME PagesAreRead, [List!PageNext]_(List!pageVars)
    PROVE  PagesAreRead'
<1>1. CASE UNCHANGED List!pageVars
  BY <1>1 DEF List!pageVars, PagesAreRead
<1> QED BY <1>1, AddEntryKeeps, EndTransactionKeeps, MoveOrderKeeps, ListIsFetched, PageIsTaken
        DEF List!PageNext

LEMMA ListStarts ==
    ASSUME List!PageInit
    PROVE  PagesAreRead
<1>1. PICK n \in 0 .. MaxEntries : entries = [i \in 1 .. n |-> List!Entry("committed", TRUE)]
  BY DEF List!PageInit
<1> DEFINE e == List!Entry("committed", TRUE)
<1>2. e \in RowSet /\ e.state = "committed"
  BY DEF List!Entry, RowSet, List!RowStates
<1> HIDE DEF e
<1>3. n \in Nat /\ n <= MaxEntries /\ MaxEntries \in Nat /\ MaxPageEvents \in Nat
  BY RoomConstants DEF List!PageConstants
<1>4. entries \in Seq(RowSet) /\ Len(entries) = n /\ DOMAIN entries = 1 .. n
      /\ \A i \in 1 .. n : entries[i].state = "committed"
  <2>1. entries = [i \in 1 .. n |-> e]
    BY <1>1 DEF e
  <2>2. entries \in [1 .. n -> RowSet] /\ \A i \in 1 .. n : entries[i] = e
    BY <1>2, <2>1
  <2>3. entries \in Seq(RowSet)
    BY <1>3, <2>2
  <2>4. DOMAIN entries = 1 .. n
    BY <2>1
  <2>5. Len(entries) = n
    BY <1>3, <2>3, <2>4, LenProperties
  <2> QED BY <1>2, <2>2, <2>3, <2>4, <2>5
<1>5. List!Matching \subseteq Committed(entries)
  BY DEF List!Matching, Committed, List!Numbered
<1> DEFINE w == IF onList.pages = << >> THEN 1 ELSE Len(onList.pages)
<1>6. /\ onList = [pages |-> << >>, since |-> {}]
      /\ reading = [pages |-> << >>, since |-> List!Matching, want |-> w]
  BY DEF List!PageInit, List!NoPages, List!Afresh
<1>7. w = 1
  BY <1>6
<1> HIDE DEF w
<1>8. /\ onList.pages = << >> /\ onList.since = {} /\ onList = [pages |-> onList.pages, since |-> onList.since]
      /\ reading.pages = << >> /\ reading.since = List!Matching /\ reading.want = 1
      /\ reading = [pages |-> reading.pages, since |-> reading.since, want |-> reading.want]
  BY <1>6, <1>7
<1>9. ListFits(<< >>, {}, entries, stream) /\ ListFits(<< >>, List!Matching, entries, stream)
  BY <1>3, <1>4, <1>5, NothingRead
<1>10. Low(<< >>) # 0 /\ Len(<< >>) < 1 /\ 1 \in 0 .. MaxEntries + 1 /\ 0 \in 0 .. MaxPageEvents
  BY <1>3 DEF Low
<1> QED BY <1>3, <1>4, <1>8, <1>9, <1>10 DEF PagesAreRead, Entries, RowSet, List!PageInit

LEMMA ListTypes ==
    ASSUME PagesAreRead
    PROVE  List!PageTypeOK
<1> DEFINE a == onList.pages
           b == reading.pages
           all == a \o b
<1>1. /\ a \in Seq(PageSet) /\ b \in Seq(PageSet)
      /\ \A i \in DOMAIN a : PageFits(a[i], DOMAIN entries)
      /\ \A i \in DOMAIN b : PageFits(b[i], DOMAIN entries)
  BY DEF PagesAreRead, ListFits, PagesFit
<1> HIDE DEF a, b
<1>2. \A p \in Range(all) : PageFits(p, DOMAIN entries)
  <2>1. /\ all \in Seq(PageSet) /\ Len(all) = Len(a) + Len(b) /\ Len(a) \in Nat /\ Len(b) \in Nat
        /\ \A i \in 1 .. Len(a) + Len(b) : all[i] = IF i <= Len(a) THEN a[i] ELSE b[i - Len(a)]
    BY <1>1, ConcatProperties
  <2>2. DOMAIN all = 1 .. Len(a) + Len(b) /\ DOMAIN a = 1 .. Len(a) /\ DOMAIN b = 1 .. Len(b)
    BY <1>1, <2>1
  <2> HIDE DEF all
  <2>3. \A i \in 1 .. Len(a) + Len(b) : IF i <= Len(a) THEN i \in 1 .. Len(a) ELSE i - Len(a) \in 1 .. Len(b)
    BY <2>1
  <2>4. ASSUME NEW i \in DOMAIN all PROVE PageFits(all[i], DOMAIN entries)
    <3>1. CASE i <= Len(a)
      BY <1>1, <2>1, <2>2, <2>3, <3>1
    <3>2. CASE ~(i <= Len(a))
      <4>1. PICK k : k = i - Len(a)
        OBVIOUS
      <4>2. k \in DOMAIN b /\ all[i] = b[k]
        BY <2>1, <2>2, <2>3, <3>2, <4>1
      <4> QED BY <1>1, <4>2
    <3> QED BY <3>1, <3>2
  <2> QED BY <2>4 DEF Range
<1>3. \A p \in List!Range(all) : Len(p.rows) <= ListPage /\ List!Range(p.rows) \subseteq List!Numbered
                                /\ p.next \in {List!End} \cup List!Numbered
  BY <1>2, ListOperators, RowFacts DEF PageFits, List!End
<1>4. onList.since \subseteq List!Numbered /\ reading.since \subseteq List!Numbered
  BY RowFacts DEF PagesAreRead, ListFits, Committed
<1> QED BY <1>3, <1>4 DEF PagesAreRead, List!PageTypeOK, Entries, RowSet, a, b

LEMMA ListIsOne ==
    ASSUME PagesAreRead
    PROVE  List!PagesAreOneList
<1> DEFINE pages == onList.pages
           w == [i \in DOMAIN pages |-> pages[i].rows]
           n == Len(pages)
<1>1. /\ PagesFit(pages, DOMAIN entries) /\ pages \in Seq(PageSet)
      /\ n \in Nat /\ DOMAIN pages = 1 .. n /\ (pages = << >> <=> n = 0)
  BY DEF PagesAreRead, ListFits, PagesFit
<1>2. List!OnScreen = FlattenSeq(w)
  BY ListOperators DEF List!OnScreen
<1>3. Len(w) = n /\ DOMAIN w = 1 .. n
  BY <1>1
<1>4. /\ \A i \in 1 .. n : w[i] \in Seq(Nat) /\ Descends(w[i]) /\ w[i] = pages[i].rows
      /\ \A i, k \in 1 .. n : i < k => \A x \in Range(w[i]), y \in Range(w[k]) : x > y
  <2>1. \A i \in 1 .. n : pages[i] \in PageSet /\ PageFits(pages[i], DOMAIN entries)
    BY <1>1 DEF PagesFit
  <2>2. \A i \in 1 .. n : w[i] = pages[i].rows
    BY <1>1
  <2> HIDE DEF w
  <2>3. \A i \in 1 .. n : w[i] \in Seq(Nat) /\ Descends(w[i])
    BY <2>1, <2>2 DEF PageSet, PageFits
  <2> QED BY <1>1, <2>2, <2>3 DEF PagesFit
<1>5. List!Cursor(onList) = Low(pages) /\ List!Newest = MaxEntries + 1
  BY RowFacts DEF List!Newest
<1> HIDE DEF w
<1>6. CASE n = 0
  <2>1. List!Covered = {}
    BY <1>1, <1>5, <1>6 DEF List!Covered, Low
  <2>2. List!OnScreen = w /\ DOMAIN w = {}
    BY <1>2, <1>3, <1>6 DEF FlattenSeq
  <2> QED BY <2>1, <2>2 DEF List!PagesAreOneList
<1>7. CASE n # 0
  <2>1. /\ List!OnScreen \in Seq(Nat) /\ Descends(List!OnScreen)
        /\ Range(List!OnScreen) = UNION {Range(w[i]) : i \in 1 .. n}
        /\ w[1] # << >> => List!OnScreen[1] = w[1][1]
    <3> HIDE DEF n
    <3> QED BY <1>1, <1>2, <1>3, <1>4, <1>7, FlattenDescends
  <2>2. Range(List!OnScreen) = OnIt(pages)
    BY <1>1, <1>4, <2>1 DEF OnIt
  <2>3. onList.since \cap List!Covered \subseteq Range(List!OnScreen)
    BY <1>5, <2>2 DEF List!Covered, PagesAreRead, ListFits
  <2>4. ASSUME stream = "orders", List!OnScreen # << >>, NEW k \in List!Covered,
               entries[k].steady, entries[k].matches, k < List!OnScreen[1]
        PROVE  k \in Range(List!OnScreen)
    <3>1. 1 \in 1 .. n /\ w[1] = pages[1].rows /\ w[1] \in Seq(Nat)
      BY <1>1, <1>4, <1>7
    <3>2. w[1] # << >>
      <4>1. SUFFICES ASSUME w[1] = << >> PROVE FALSE
        OBVIOUS
      <4>2. pages[1].next = 0 /\ ~(1 < n)
        <5>1. PageFits(pages[1], DOMAIN entries) /\ (1 < n => pages[1].next # 0)
          BY <1>1, <3>1 DEF PagesFit
        <5> QED BY <3>1, <4>1, <5>1 DEF PageFits
      <4>3. n = 1
        <5> HIDE DEF n, pages
        <5> QED BY <1>1, <1>7, <4>2
      <4>4. Range(List!OnScreen) = {}
        <5>1. Range(w[1]) = {}
          BY <4>1 DEF Range
        <5>2. \A i \in 1 .. n : Range(w[i]) = {}
          BY <4>3, <5>1
        <5> QED BY <2>1, <5>2
      <4>5. 1 \in DOMAIN List!OnScreen
        BY <2>1, <2>4
      <4> QED BY <4>4, <4>5 DEF Range
    <3>3. k \in DOMAIN entries /\ k >= Low(pages) /\ Steady(entries, k)
      BY <1>5, <2>4, RowFacts DEF List!Covered, Steady
    <3>4. pages # << >> /\ pages[1].rows # << >> /\ k < pages[1].rows[1]
      BY <1>1, <1>7, <2>1, <2>4, <3>1, <3>2
    <3>5. k \in OnIt(pages)
      BY <2>4, <3>3, <3>4 DEF PagesAreRead, ListFits
    <3> QED BY <2>2, <3>5
  <2>5. \A x : List!Range(x) = Range(x)
    BY ListOperators
  <2>6. \A i, k \in DOMAIN List!OnScreen : i < k => List!OnScreen[i] > List!OnScreen[k]
    BY <2>1 DEF Descends
  <2> QED BY <2>3, <2>4, <2>5, <2>6 DEF List!PagesAreOneList
<1> QED BY <1>6, <1>7

LEMMA ListSteps ==
    [CustomerNext]_customerVars => [List!PageNext]_(List!pageVars)
BY DEF CustomerNext, Shops, ChecksOut, Tracks, OnBoard, Lists, OnNotices, OnServer, Browsing,
       customerVars, roomVars, pageVars, List!pageVars

(* The pages of a list, each read at its own time while rows are added and   *)
(* orders move, are one list: no row twice, in the order of the numbers, and *)
(* none lost that matched all the time (list_orders, _apply_common_filters). *)
THEOREM PagesMakeOneList == CustomerSpec => []PagesAreOneList
<1>1. CustomerInit => PagesAreRead
  BY ListStarts DEF CustomerInit
<1>2. PagesAreRead /\ [CustomerNext]_customerVars => PagesAreRead'
  BY ListSteps, ListGoesOn
<1>3. PagesAreRead => PagesAreOneList
  BY ListIsOne DEF PagesAreOneList
<1> QED BY <1>1, <1>2, <1>3, PTL DEF CustomerSpec

-----------------------------------------------------------------------------
(* The notices.                                                              *)

Rises(s) == \A i, k \in DOMAIN s : i < k => s[i] < s[k]
DropNumber(s, id) == IF id \in Range(s) THEN RemoveAt(s, CHOOSE i \in DOMAIN s : s[i] = id) ELSE s

LEMMA RegionOperators ==
    /\ \A x : Region!Range(x) = Range(x)
    /\ \A id : Region!Without(id) = DropNumber(items, id)
    /\ \A s, t : Region!IsPrefix(s, t) <=> IsPrefix(s, t)
<1>1. \A x : Region!Range(x) = Range(x)
  BY DEF Region!Range, Range
<1>2. \A s, i : Region!RemoveAt(s, i) = RemoveAt(s, i)
  BY DEF Region!RemoveAt, RemoveAt
<1>3. \A s, t : Region!IsPrefix(s, t) <=> IsPrefix(s, t)
  BY DEF Region!IsPrefix, IsPrefix
<1> QED BY <1>1, <1>2, <1>3 DEF Region!Without, DropNumber

LEMMA DropNumberTakesOne ==
    ASSUME NEW s \in Seq(Nat), Rises(s), NEW id \in Range(s)
    PROVE  /\ DropNumber(s, id) \in Seq(Nat) /\ Rises(DropNumber(s, id)) /\ Len(DropNumber(s, id)) = Len(s) - 1
           /\ Range(DropNumber(s, id)) = Range(s) \ {id}
           /\ id = s[1] => \A k \in 1 .. Len(s) - 1 : DropNumber(s, id)[k] = s[k + 1]
<1> DEFINE i == CHOOSE j \in DOMAIN s : s[j] = id
           r == RemoveAt(s, i)
<1>1. Len(s) \in Nat /\ DOMAIN s = 1 .. Len(s)
  OBVIOUS
<1>2. i \in 1 .. Len(s) /\ s[i] = id
  BY <1>1 DEF Range
<1> HIDE DEF i
<1>3. /\ r \in Seq(Nat) /\ Len(r) = Len(s) - 1
      /\ \A k \in 1 .. Len(s) - 1 : r[k] = IF k < i THEN s[k] ELSE s[k + 1]
  BY <1>2, RemoveAtKeeps
<1>4. DropNumber(s, id) = r
  BY DEF DropNumber, i
<1> HIDE DEF r
<1>5. DOMAIN r = 1 .. Len(s) - 1 /\ \A k \in 1 .. Len(s) - 1 : k \in 1 .. Len(s) /\ k + 1 \in 1 .. Len(s)
  BY <1>1, <1>3
<1>6. \A j, k \in 1 .. Len(s) : (j < k => s[j] < s[k]) /\ s[j] \in Nat
  BY <1>1 DEF Rises
<1> DEFINE from(k) == IF k < i THEN k ELSE k + 1
<1>7. \A k \in 1 .. Len(s) - 1 : from(k) \in 1 .. Len(s) /\ from(k) # i /\ r[k] = s[from(k)]
  <2> TAKE k \in 1 .. Len(s) - 1
  <2>1. k \in Nat /\ i \in Nat
    BY <1>1, <1>2
  <2>2. from(k) \in 1 .. Len(s) /\ from(k) # i
    BY <1>5, <2>1
  <2>3. r[k] = s[from(k)]
    BY <1>3
  <2> QED BY <2>2, <2>3
<1>8. \A j, k \in 1 .. Len(s) - 1 : j < k => from(j) < from(k)
  BY <1>1, <1>2
<1>9. \A m \in 1 .. Len(s) : m # i => \E k \in 1 .. Len(s) - 1 : from(k) = m
  <2> TAKE m \in 1 .. Len(s)
  <2>1. CASE m < i
    <3>1. m \in 1 .. Len(s) - 1 /\ from(m) = m
      BY <1>1, <1>2, <2>1
    <3> QED BY <3>1
  <2>2. CASE m > i
    <3>1. m - 1 \in 1 .. Len(s) - 1 /\ from(m - 1) = m
      BY <1>1, <1>2, <2>2
    <3> QED BY <3>1
  <2> QED BY <1>1, <1>2, <2>1, <2>2
<1> HIDE DEF from
<1>10. Rises(r)
  BY <1>5, <1>6, <1>7, <1>8 DEF Rises
<1>11. Range(r) = Range(s) \ {id}
  <2>1. \A k \in 1 .. Len(s) : k # i => s[k] # id
    <3> TAKE k \in 1 .. Len(s)
    <3>1. k < i \/ k = i \/ k > i
      BY <1>1, <1>2
    <3>2. (k < i => s[k] < s[i]) /\ (i < k => s[i] < s[k]) /\ s[k] \in Nat /\ s[i] \in Nat
      BY <1>2, <1>6
    <3> QED BY <1>2, <3>1, <3>2
  <2>2. \A x \in Range(r) : x \in Range(s) \ {id}
    BY <1>1, <1>5, <1>7, <2>1 DEF Range
  <2>3. ASSUME NEW x \in Range(s) \ {id} PROVE x \in Range(r)
    <3>1. PICK m \in 1 .. Len(s) : s[m] = x /\ m # i
      BY <1>1, <1>2 DEF Range
    <3>2. PICK k \in 1 .. Len(s) - 1 : from(k) = m
      BY <1>9, <3>1
    <3>3. r[k] = x /\ k \in DOMAIN r
      BY <1>5, <1>7, <3>1, <3>2
    <3> QED BY <3>3 DEF Range
  <2> QED BY <2>2, <2>3
<1>12. ASSUME id = s[1] PROVE i = 1
  <2>1. 1 \in 1 .. Len(s)
    BY <1>1, <1>2
  <2>2. 1 < i => s[1] < s[i]
    BY <1>2, <1>6, <2>1
  <2> QED BY <1>1, <1>2, <1>6, <1>12, <2>1, <2>2
<1>13. id = s[1] => \A k \in 1 .. Len(s) - 1 : r[k] = s[k + 1]
  BY <1>3, <1>12
<1> QED BY <1>3, <1>4, <1>10, <1>11, <1>13

NoticesRise ==
    /\ items \in Seq(Region!Ids) /\ Rises(items) /\ Len(items) <= MaxVisible
    /\ nextId \in 0 .. MaxNotices /\ \A i \in DOMAIN items : items[i] <= nextId
    /\ held \in BOOLEAN
    /\ effect \in [oldest : Region!Ids \cup {Region!None}, held : BOOLEAN]
    /\ timer \in Region!Ids \cup {Region!None} /\ timer <= nextId
    /\ \A i \in DOMAIN items : timer <= items[i]
    /\ pointer \in BOOLEAN /\ focus \in {Region!None} \cup Range(items)
    /\ moves \in 0 .. MaxMoves

LEMMA NoticeFacts ==
    ASSUME NoticesRise
    PROVE  /\ items \in Seq(Nat) /\ Len(items) \in Nat /\ DOMAIN items = 1 .. Len(items)
           /\ Range(items) \subseteq Region!Ids /\ Region!Ids = 1 .. MaxNotices
           /\ MaxNotices \in Nat /\ MaxVisible \in Nat \ {0} /\ MaxMoves \in Nat
           /\ \A i \in DOMAIN items : items[i] \in Region!Ids /\ items[i] \in Nat
<1>1. MaxNotices \in Nat /\ MaxVisible \in Nat \ {0} /\ MaxMoves \in Nat
  BY RoomConstants DEF Region!NoticeConstants
<1>2. Region!Ids = 1 .. MaxNotices /\ Region!Ids \subseteq Nat
  BY <1>1 DEF Region!Ids
<1> HIDE DEF Region!Ids
<1>3. items \in Seq(Region!Ids)
  BY DEF NoticesRise
<1>4. Len(items) \in Nat /\ DOMAIN items = 1 .. Len(items) /\ \A i \in DOMAIN items : items[i] \in Region!Ids
  BY <1>3
<1>5. items \in Seq(Nat)
  <2>1. \A i \in 1 .. Len(items) : items[i] \in Nat
    BY <1>2, <1>4
  <2>2. items = [i \in 1 .. Len(items) |-> items[i]]
    BY <1>3
  <2>3. items \in [1 .. Len(items) -> Nat]
    BY <2>1, <2>2
  <2> QED BY <1>4, <2>3
<1> QED BY <1>1, <1>2, <1>4, <1>5 DEF Range

\* Where the first notice is, everything later has a larger number.
LEMMA OldestIsLeast ==
    ASSUME NEW s \in Seq(Region!Ids), Rises(s)
    PROVE  /\ Region!Oldest(s) \in Region!Ids \cup {Region!None}
           /\ \A i \in DOMAIN s : Region!Oldest(s) <= s[i]
           /\ s # << >> => Region!Oldest(s) = s[1] /\ Head(s) = s[1] /\ 1 \in DOMAIN s
<1>1. MaxNotices \in Nat
  BY RoomConstants DEF Region!NoticeConstants
<1>2. Len(s) \in Nat /\ DOMAIN s = 1 .. Len(s) /\ \A i \in DOMAIN s : s[i] \in Region!Ids
  OBVIOUS
<1>3. CASE s = << >>
  BY <1>2, <1>3 DEF Region!Oldest
<1>4. CASE s # << >>
  <2>1. 1 \in DOMAIN s /\ Head(s) = s[1]
    BY <1>2, <1>4
  <2>2. \A i \in DOMAIN s : s[i] \in Nat
    BY <1>1, <1>2 DEF Region!Ids
  <2>3. \A i \in DOMAIN s : i = 1 \/ 1 < i
    BY <1>2
  <2>4. \A i \in DOMAIN s : s[1] <= s[i]
    BY <2>1, <2>2, <2>3 DEF Rises
  <2> QED BY <1>2, <1>4, <2>1, <2>4 DEF Region!Oldest
<1> QED BY <1>3, <1>4

\* Notices that may be on screen when no number above top was given, with a
\* timer for none later than the first.
Displayable(s, top, due) ==
    /\ s \in Seq(Region!Ids) /\ Rises(s) /\ Len(s) <= MaxVisible
    /\ \A i \in DOMAIN s : s[i] <= top /\ due <= s[i]

LEMMA FewerNotices ==
    ASSUME NoticesRise, NEW id
    PROVE  /\ Displayable(DropNumber(items, id), nextId, timer)
           /\ Range(DropNumber(items, id)) = Range(items) \ {id}
<1>1. CASE id \notin Range(items)
  BY <1>1 DEF DropNumber, Displayable, NoticesRise
<1>2. CASE id \in Range(items)
  <2> DEFINE s == DropNumber(items, id)
  <2>1. /\ s \in Seq(Nat) /\ Rises(s) /\ Len(s) = Len(items) - 1 /\ Range(s) = Range(items) \ {id}
    BY <1>2, NoticeFacts, DropNumberTakesOne DEF NoticesRise
  <2> HIDE DEF s
  <2>2. \A i \in DOMAIN s : \E k \in DOMAIN items : s[i] = items[k]
    BY <2>1 DEF Range
  <2>3. \A i \in DOMAIN s : s[i] \in Region!Ids /\ s[i] <= nextId /\ timer <= s[i]
    BY <2>2, NoticeFacts DEF NoticesRise
  <2>4. s \in Seq(Region!Ids)
    <3>1. DOMAIN s = 1 .. Len(s) /\ Len(s) \in Nat /\ s = [i \in 1 .. Len(s) |-> s[i]]
      BY <2>1
    <3>2. s \in [1 .. Len(s) -> Region!Ids]
      BY <2>3, <3>1
    <3> QED BY <3>1, <3>2
  <2>5. Len(s) <= MaxVisible
    BY <2>1, NoticeFacts DEF NoticesRise
  <2> QED BY <2>1, <2>3, <2>4, <2>5 DEF Displayable, s
<1> QED BY <1>1, <1>2

LEMMA OneNoticeMore ==
    ASSUME NoticesRise, nextId < MaxNotices,
           NEW x, x = nextId + 1, NEW s, s = Append(items, x)
    PROVE  /\ Displayable(Region!Newest(s), x, timer)
           /\ Len(items) < MaxVisible => Region!Newest(s) = s
           /\ Len(items) = MaxVisible =>
                /\ Region!Newest(s) = Tail(s) /\ Len(Tail(s)) = Len(items)
                /\ \A k \in 1 .. Len(items) - 1 : Tail(s)[k] = items[k + 1]
           /\ Len(items) < MaxVisible \/ Len(items) = MaxVisible
<1> DEFINE l == Len(items)
           t == Tail(s)
<1>1. /\ x \in Region!Ids /\ x \in Nat /\ nextId < x /\ timer \in Nat /\ timer <= x /\ nextId \in Nat
      /\ l \in Nat /\ MaxVisible \in Nat \ {0} /\ l <= MaxVisible
  BY NoticeFacts DEF NoticesRise, Region!None
<1>2. /\ s \in Seq(Region!Ids) /\ Len(s) = l + 1 /\ DOMAIN s = 1 .. l + 1 /\ s # << >>
      /\ s[l + 1] = x /\ \A k \in 1 .. l : s[k] = items[k]
  BY <1>1, AppendProperties DEF NoticesRise
<1>3. /\ DOMAIN items = 1 .. l
      /\ \A k \in 1 .. l : items[k] \in Nat /\ items[k] <= nextId /\ timer <= items[k]
  BY NoticeFacts DEF NoticesRise
<1>4. \A k \in 1 .. l + 1 : k = l + 1 \/ k \in 1 .. l
  BY <1>1
<1>5. \A k \in 1 .. l + 1 : s[k] \in Nat /\ s[k] <= x /\ timer <= s[k]
  BY <1>1, <1>2, <1>3, <1>4
<1>6. ASSUME NEW j \in 1 .. l + 1, NEW k \in 1 .. l + 1, j < k PROVE s[j] < s[k]
  <2>1. j \in 1 .. l
    BY <1>1, <1>6
  <2>2. CASE k = l + 1
    BY <1>1, <1>2, <1>3, <2>1, <2>2
  <2>3. CASE k \in 1 .. l
    BY <1>2, <1>3, <1>6, <2>1, <2>3 DEF NoticesRise, Rises
  <2> QED BY <1>4, <2>2, <2>3
<1>7. CASE l < MaxVisible
  <2>1. Len(s) <= MaxVisible
    BY <1>1, <1>2, <1>7
  <2>2. Region!Newest(s) = s
    BY <2>1 DEF Region!Newest
  <2>3. Displayable(s, x, timer)
    BY <1>2, <1>5, <1>6, <2>1 DEF Displayable, Rises
  <2>4. ~(l = MaxVisible)
    BY <1>1, <1>7
  <2> QED BY Zenon, <1>7, <2>2, <2>3, <2>4
<1>8. CASE l = MaxVisible
  <2>1. ~(Len(s) <= MaxVisible)
    BY <1>1, <1>2, <1>8
  <2>2. Region!Newest(s) = t
    BY <2>1 DEF Region!Newest
  <2>3. /\ t \in Seq(Region!Ids) /\ Len(t) = l /\ DOMAIN t = 1 .. l
        /\ \A k \in 1 .. l : t[k] = s[k + 1]
    <3>1. t \in Seq(Region!Ids) /\ Len(t) = Len(s) - 1 /\ \A k \in 1 .. Len(t) : t[k] = s[k + 1]
      BY <1>2, HeadTailProperties
    <3>2. Len(s) - 1 = l
      BY <1>1, <1>2
    <3> HIDE DEF t, l
    <3> QED BY <3>1, <3>2
  <2> HIDE DEF t
  <2>4. \A k \in 1 .. l : k + 1 \in 1 .. l + 1
    BY <1>1
  <2>5. \A k \in 1 .. l : t[k] <= x /\ timer <= t[k]
    BY <1>5, <2>3, <2>4
  <2>6. \A j, k \in 1 .. l : j < k => t[j] < t[k]
    <3>1. \A j, k \in 1 .. l : j < k => j + 1 < k + 1
      BY <1>1
    <3> QED BY <1>6, <2>3, <2>4, <3>1
  <2>7. Displayable(t, x, timer)
    BY <1>1, <1>8, <2>3, <2>5, <2>6 DEF Displayable, Rises
  <2>8. \A k \in 1 .. l - 1 : t[k] = items[k + 1]
    <3>1. \A k \in 1 .. l - 1 : k \in 1 .. l /\ k + 1 \in 1 .. l
      BY <1>1
    <3> QED BY <1>2, <2>3, <3>1
  <2>9. ~(l < MaxVisible) /\ Len(t) = l
    BY <1>1, <1>8, <2>3
  <2> QED BY Zenon, <1>8, <2>2, <2>7, <2>8, <2>9 DEF t
<1> QED BY <1>1, <1>7, <1>8

\* The timer that an effect sets is for the oldest of its notices, or for none.
LEMMA EffectFits ==
    ASSUME NEW s, NEW top, NEW due, Displayable(s, top, due), NEW hold \in BOOLEAN, top \in Nat,
           NEW d, d = Region!Dependencies(s, hold)
    PROVE  /\ d \in [oldest : Region!Ids \cup {Region!None}, held : BOOLEAN]
           /\ Region!TimerOf(d) \in Region!Ids \cup {Region!None} /\ Region!TimerOf(d) <= top
           /\ Displayable(s, top, Region!TimerOf(d))
<1>1. /\ Region!Oldest(s) \in Region!Ids \cup {Region!None}
      /\ \A i \in DOMAIN s : Region!Oldest(s) <= s[i]
      /\ s # << >> => Region!Oldest(s) = s[1] /\ 1 \in DOMAIN s
  BY OldestIsLeast DEF Displayable
<1>2. d = [oldest |-> Region!Oldest(s), held |-> hold]
  BY DEF Region!Dependencies
<1>3. Region!TimerOf(d) = IF hold THEN Region!None ELSE Region!Oldest(s)
  BY <1>2 DEF Region!TimerOf
<1>4. \A i \in DOMAIN s : s[i] \in Nat
  <2>1. MaxNotices \in Nat
    BY RoomConstants DEF Region!NoticeConstants
  <2> QED BY <2>1 DEF Displayable, Region!Ids
<1>5. Region!Oldest(s) <= top
  <2>1. CASE s = << >>
    BY <2>1 DEF Region!Oldest, Region!None
  <2> QED BY <1>1, <2>1 DEF Displayable
<1>6. \A i \in DOMAIN s : Region!None <= s[i]
  BY <1>4 DEF Region!None
<1>7. Region!None <= top
  BY DEF Region!None
<1> QED BY <1>1, <1>2, <1>3, <1>5, <1>6, <1>7 DEF Displayable

LEMMA ScreenChanges ==
    ASSUME NoticesRise, Displayable(items', nextId', timer'),
           nextId' \in 0 .. MaxNotices, held' \in BOOLEAN,
           effect' \in [oldest : Region!Ids \cup {Region!None}, held : BOOLEAN],
           timer' \in Region!Ids \cup {Region!None}, timer' <= nextId',
           pointer' \in BOOLEAN, focus' \in {Region!None} \cup Range(items'), moves' \in 0 .. MaxMoves
    PROVE  NoticesRise'
BY DEF Displayable, NoticesRise, Region!Ids, Region!None, Rises, Range

LEMMA RendersNow ==
    ASSUME NoticesRise, NEW s, Displayable(s, nextId, timer), NEW hold \in BOOLEAN, Region!RenderNow(s, hold)
    PROVE  /\ items' = s /\ held' = hold /\ Displayable(s, nextId, timer')
           /\ effect' \in [oldest : Region!Ids \cup {Region!None}, held : BOOLEAN]
           /\ timer' \in Region!Ids \cup {Region!None} /\ timer' <= nextId
<1> DEFINE d == Region!Dependencies(s, hold)
<1>1. nextId \in Nat /\ timer \in Region!Ids \cup {Region!None} /\ timer <= nextId
  BY NoticeFacts DEF NoticesRise
<1>2. /\ items' = s /\ held' = hold /\ effect' = d
      /\ timer' = timer \/ timer' = Region!TimerOf(d)
  BY DEF Region!RenderNow
<1>3. /\ d \in [oldest : Region!Ids \cup {Region!None}, held : BOOLEAN]
      /\ Region!TimerOf(d) \in Region!Ids \cup {Region!None} /\ Region!TimerOf(d) <= nextId
      /\ Displayable(s, nextId, Region!TimerOf(d))
  BY <1>1, EffectFits
<1> HIDE DEF d
<1> QED BY <1>1, <1>2, <1>3

LEMMA ShownNow ==
    ASSUME NoticesRise
    PROVE  Displayable(items, nextId, timer)
BY DEF NoticesRise, Displayable

LEMMA NoticesGoOn ==
    ASSUME NoticesRise, [Region!NoticeNext]_(Region!noticeVars)
    PROVE  NoticesRise'
<1>1. nextId \in Nat /\ timer \in Region!Ids \cup {Region!None} /\ Region!None \in Nat
  BY NoticeFacts DEF NoticesRise, Region!None
<1>2. \A s : Region!FocusIn(s) \in {Region!None} \cup Range(s)
  BY RegionOperators DEF Region!FocusIn
<1>3. CASE UNCHANGED Region!noticeVars
  BY <1>3 DEF Region!noticeVars, Region!userVars, NoticesRise
<1>4. CASE Region!Notify
  <2>1. /\ nextId < MaxNotices /\ nextId' = nextId + 1 /\ items' = Region!Newest(Append(items, nextId + 1))
        /\ UNCHANGED <<held, effect, timer, pointer, moves>> /\ focus' = Region!FocusIn(items')
    BY <1>4 DEF Region!Notify, Region!Render
  <2>2. Displayable(items', nextId', timer')
    BY <2>1, OneNoticeMore
  <2>3. nextId' \in 0 .. MaxNotices /\ timer' <= nextId'
    BY <1>1, <2>1, NoticeFacts DEF NoticesRise, Region!None
  <2> QED BY <1>2, <2>1, <2>2, <2>3, ScreenChanges DEF NoticesRise
<1>5. CASE Region!RunEffect
  <2> DEFINE d == Region!Dependencies(items, held)
  <2>1. effect' = d /\ timer' = Region!TimerOf(d) /\ UNCHANGED <<items, nextId, held, pointer, focus, moves>>
    BY <1>5 DEF Region!RunEffect, Region!userVars
  <2>2. /\ d \in [oldest : Region!Ids \cup {Region!None}, held : BOOLEAN]
        /\ Region!TimerOf(d) \in Region!Ids \cup {Region!None} /\ Region!TimerOf(d) <= nextId
        /\ Displayable(items, nextId, Region!TimerOf(d))
    BY <1>1, ShownNow, EffectFits DEF NoticesRise
  <2> HIDE DEF d
  <2> QED BY <2>1, <2>2, ScreenChanges DEF NoticesRise
<1>6. CASE Region!FireTimer
  <2>1. /\ timer' = Region!None /\ items' = DropNumber(items, timer) /\ focus' = Region!FocusIn(items')
        /\ UNCHANGED <<nextId, held, effect, pointer, moves>>
    BY <1>6, RegionOperators DEF Region!FireTimer
  <2>2. Displayable(items', nextId, timer)
    BY <2>1, FewerNotices
  <2>3. Displayable(items', nextId, Region!None) /\ Region!None <= nextId
    BY <1>1, <2>2, NoticeFacts DEF Displayable, Region!None
  <2> QED BY <1>1, <1>2, <2>1, <2>3, ScreenChanges DEF NoticesRise
<1>7. ASSUME NEW id \in Region!Range(items), Region!Dismiss(id)
      PROVE  NoticesRise'
  <2>1. /\ Region!RenderNow(DropNumber(items, id), held) /\ focus' = Region!FocusIn(items')
        /\ UNCHANGED <<nextId, pointer, moves>>
    BY <1>7, RegionOperators DEF Region!Dismiss
  <2>2. Displayable(DropNumber(items, id), nextId, timer)
    BY FewerNotices
  <2> DEFINE s == DropNumber(items, id)
  <2> HIDE DEF s
  <2>3. /\ items' = s /\ held' = held /\ Displayable(s, nextId, timer')
        /\ effect' \in [oldest : Region!Ids \cup {Region!None}, held : BOOLEAN]
        /\ timer' \in Region!Ids \cup {Region!None} /\ timer' <= nextId
    <3>1. held \in BOOLEAN /\ Region!RenderNow(s, held) /\ Displayable(s, nextId, timer)
      BY <2>1, <2>2 DEF NoticesRise, s
    <3> QED BY <3>1, RendersNow
  <2> QED BY <1>2, <2>1, <2>3, ScreenChanges DEF NoticesRise
<1>8. ASSUME NEW id \in Region!Range(items), Region!FocusOn(id)
      PROVE  NoticesRise'
  <2>1. /\ Region!RenderNow(items, TRUE) /\ focus' = id /\ UNCHANGED <<nextId, pointer>>
        /\ moves < MaxMoves /\ moves' = moves + 1
    BY <1>8 DEF Region!FocusOn, Region!Moves
  <2>2. /\ items' = items /\ held' = TRUE /\ Displayable(items, nextId, timer')
        /\ effect' \in [oldest : Region!Ids \cup {Region!None}, held : BOOLEAN]
        /\ timer' \in Region!Ids \cup {Region!None} /\ timer' <= nextId
    BY <2>1, ShownNow, RendersNow
  <2>3. moves' \in 0 .. MaxMoves /\ focus' \in Range(items')
    BY <2>1, <2>2, NoticeFacts, RegionOperators DEF NoticesRise
  <2> QED BY <2>1, <2>2, <2>3, ScreenChanges DEF NoticesRise
<1>9. CASE Region!Blur
  <2>1. /\ Region!RenderNow(items, FALSE) /\ focus' = Region!None /\ UNCHANGED <<nextId, pointer>>
        /\ moves < MaxMoves /\ moves' = moves + 1
    BY <1>9 DEF Region!Blur, Region!Moves
  <2>2. /\ items' = items /\ held' = FALSE /\ Displayable(items, nextId, timer')
        /\ effect' \in [oldest : Region!Ids \cup {Region!None}, held : BOOLEAN]
        /\ timer' \in Region!Ids \cup {Region!None} /\ timer' <= nextId
    BY <2>1, ShownNow, RendersNow
  <2>3. moves' \in 0 .. MaxMoves
    BY <2>1, NoticeFacts DEF NoticesRise
  <2> QED BY <2>1, <2>2, <2>3, ScreenChanges DEF NoticesRise
<1>10. CASE Region!PointerEnters \/ Region!PointerLeaves
  <2>1. /\ UNCHANGED <<items, nextId, effect, timer, focus>> /\ held' \in BOOLEAN /\ pointer' \in BOOLEAN
        /\ moves < MaxMoves /\ moves' = moves + 1
    BY <1>10 DEF Region!PointerEnters, Region!PointerLeaves, Region!Moves, Region!Render
  <2>2. moves' \in 0 .. MaxMoves
    BY <2>1, NoticeFacts DEF NoticesRise
  <2> QED BY <2>1, <2>2, ShownNow, ScreenChanges DEF NoticesRise
<1> QED BY <1>3, <1>4, <1>5, <1>6, <1>7, <1>8, <1>9, <1>10 DEF Region!NoticeNext

LEMMA PrefixOf ==
    ASSUME NEW S, NEW s \in Seq(S), NEW t \in Seq(S), Len(s) <= Len(t), \A k \in 1 .. Len(s) : s[k] = t[k]
    PROVE  IsPrefix(s, t)
<1> DEFINE l == Len(s)
           a == SubSeq(s, 1, l)
           b == SubSeq(t, 1, l)
<1>1. l \in Nat /\ Len(t) \in Nat /\ \A k \in 1 .. l : s[k] \in S /\ t[k] \in S
  OBVIOUS
<1> HIDE DEF l
<1>2. /\ a \in Seq(S) /\ Len(a) = (IF 1 <= l THEN l - 1 + 1 ELSE 0) /\ \A k \in 1 .. l - 1 + 1 : a[k] = s[1 + k - 1]
      /\ b \in Seq(S) /\ Len(b) = (IF 1 <= l THEN l - 1 + 1 ELSE 0) /\ \A k \in 1 .. l - 1 + 1 : b[k] = t[1 + k - 1]
  BY <1>1, SubSeqProperties
<1> HIDE DEF a, b
<1>3. \A k \in 1 .. l : k \in 1 .. l - 1 + 1 /\ 1 + k - 1 = k
  BY <1>1
<1>4. /\ Len(a) = l /\ Len(b) = l /\ \A k \in 1 .. l : a[k] = s[k] /\ b[k] = t[k]
  BY <1>1, <1>2, <1>3
<1>5. \A k \in 1 .. l : a[k] = b[k]
  BY <1>4 DEF l
<1>6. a = b
  BY <1>2, <1>4, <1>5, SeqEqual
<1> QED BY <1>6 DEF IsPrefix, a, b, l

\* What OneGoesForAReason says of a step in which these notices go.
Leave(gone) ==
    /\ Region!Cardinality(gone) <= 1
    /\ \A id \in gone :
         \/ id = Head(items) /\ id = timer /\ timer' = Region!None
         \/ id = Head(items) /\ Len(items) = MaxVisible /\ nextId' > nextId
         \/ pointer \/ focus = id
    /\ \E keep \in {Region!Without(id) : id \in gone} \cup {items} : Region!IsPrefix(keep, items')
OneGoes == Leave(Region!Range(items) \ Region!Range(items'))

LEMMA NoneGoes ==
    ASSUME NoticesRise, Len(items) <= Len(items'), items' \in Seq(Nat),
           \A k \in 1 .. Len(items) : items'[k] = items[k]
    PROVE  OneGoes
<1>1. Range(items) \subseteq Range(items')
  <2>1. \A k \in 1 .. Len(items) : k \in DOMAIN items'
    BY NoticeFacts
  <2> QED BY <2>1, NoticeFacts DEF Range
<1>2. IsPrefix(items, items')
  BY NoticeFacts, PrefixOf
<1>3. Region!Range(items) \ Region!Range(items') = {}
  BY <1>1, RegionOperators
<1>4. Region!Cardinality({}) = 0
  <2>1. \A x : Region!Cardinality(x) = Cardinality(x)
    BY DEF Region!Cardinality, Cardinality, Region!IsFiniteSet, IsFiniteSet
  <2> QED BY <2>1, FS_EmptySet
<1>5. Region!IsPrefix(items, items')
  BY <1>2, RegionOperators
<1>6. Leave({})
  BY <1>4, <1>5 DEF Leave
<1> QED BY <1>3, <1>6 DEF OneGoes

LEMMA JustOneGoes ==
    ASSUME NEW id \in Range(items), Range(items') = Range(items) \ {id} \/ Range(items) \ Range(items') = {id},
           \/ id = Head(items) /\ id = timer /\ timer' = Region!None
           \/ id = Head(items) /\ Len(items) = MaxVisible /\ nextId' > nextId
           \/ pointer \/ focus = id,
           IsPrefix(DropNumber(items, id), items')
    PROVE  OneGoes
<1>1. Region!Range(items) \ Region!Range(items') = {id}
  BY RegionOperators
<1>2. Region!Cardinality({id}) <= 1
  <2>1. \A x : Region!Cardinality(x) = Cardinality(x)
    BY DEF Region!Cardinality, Cardinality, Region!IsFiniteSet, IsFiniteSet
  <2>2. Cardinality({id}) = 1
    BY FS_Singleton
  <2> QED BY <2>1, <2>2
<1>3. Region!IsPrefix(Region!Without(id), items')
  BY RegionOperators
<1>4. Leave({id})
  BY <1>2, <1>3 DEF Leave
<1> QED BY <1>1, <1>4 DEF OneGoes

LEMMA NoticesLeaveOneByOne ==
    ASSUME NoticesRise, Region!NoticeNext
    PROVE  OneGoes
<1>0. \A id \in Range(items) :
        /\ DropNumber(items, id) \in Seq(Nat) /\ Rises(DropNumber(items, id)) /\ Len(DropNumber(items, id)) = Len(items) - 1
        /\ Range(DropNumber(items, id)) = Range(items) \ {id}
        /\ id = items[1] => \A k \in 1 .. Len(items) - 1 : DropNumber(items, id)[k] = items[k + 1]
  BY NoticeFacts, DropNumberTakesOne DEF NoticesRise
<1>1. CASE items' = items
  BY <1>1, NoneGoes, NoticeFacts
<1>2. ASSUME NEW id \in Range(items), items' = DropNumber(items, id),
             \/ id = Head(items) /\ id = timer /\ timer' = Region!None
             \/ pointer \/ focus = id
      PROVE  OneGoes
  <2>1. items' \in Seq(Nat) /\ Range(items') = Range(items) \ {id}
    BY <1>0, <1>2
  <2>2. IsPrefix(items', items')
    BY <2>1, PrefixOf
  <2> QED BY <1>2, <2>1, <2>2, JustOneGoes
<1>3. CASE Region!Notify
  <2> DEFINE x == nextId + 1
             s == Append(items, x)
  <2>1. nextId < MaxNotices /\ nextId' = x /\ items' = Region!Newest(s)
    BY <1>3 DEF Region!Notify, Region!Render
  <2>2. x > nextId /\ \A k \in DOMAIN items : items[k] < x
    BY NoticeFacts DEF NoticesRise
  <2> HIDE DEF x
  <2>3. /\ s \in Seq(Nat) /\ Len(s) = Len(items) + 1 /\ \A k \in 1 .. Len(items) : s[k] = items[k]
    <3>1. x \in Nat
      BY NoticeFacts DEF x, NoticesRise
    <3> QED BY <3>1, NoticeFacts, AppendProperties
  <2> HIDE DEF s
  <2>4. /\ Len(items) < MaxVisible => Region!Newest(s) = s
        /\ Len(items) = MaxVisible =>
             /\ Region!Newest(s) = Tail(s) /\ Len(Tail(s)) = Len(items)
             /\ \A k \in 1 .. Len(items) - 1 : Tail(s)[k] = items[k + 1]
        /\ Len(items) < MaxVisible \/ Len(items) = MaxVisible
    BY <2>1, OneNoticeMore DEF x, s
  <2>5. CASE Len(items) < MaxVisible
    <3>1. items' = s
      BY <2>1, <2>4, <2>5
    <3> QED BY <2>3, <3>1, NoneGoes, NoticeFacts
  <2>6. CASE Len(items) = MaxVisible
    <3> DEFINE id == items[1]
               t == Tail(s)
               l == Len(items)
    <3>1. /\ items' = t /\ Len(t) = l /\ \A k \in 1 .. l - 1 : t[k] = items[k + 1]
          /\ t \in Seq(Nat) /\ \A k \in 1 .. Len(t) : t[k] = s[k + 1]
      <4>1. s # << >>
        BY <2>3, NoticeFacts
      <4> QED BY <2>1, <2>3, <2>4, <2>6, <4>1, HeadTailProperties
    <3> HIDE DEF t
    <3>2. l \in Nat \ {0} /\ DOMAIN items = 1 .. l /\ 1 \in 1 .. l
      BY <2>6, NoticeFacts
    <3>3. id \in Range(items) /\ id = Head(items)
      BY <3>2 DEF Range, NoticesRise
    <3>4. IsPrefix(DropNumber(items, id), t)
      <4>1. /\ DropNumber(items, id) \in Seq(Nat) /\ Len(DropNumber(items, id)) = l - 1
            /\ \A k \in 1 .. l - 1 : DropNumber(items, id)[k] = items[k + 1]
        BY <1>0, <3>3
      <4>2. Len(DropNumber(items, id)) <= Len(t)
        BY <3>1, <3>2, <4>1
      <4>3. \A k \in 1 .. Len(DropNumber(items, id)) : DropNumber(items, id)[k] = t[k]
        BY <3>1, <4>1
      <4> QED BY <3>1, <4>1, <4>2, <4>3, PrefixOf
    <3>5. Range(items) \ Range(items') = {id}
      <4>1. DOMAIN t = 1 .. l /\ t[l] = x
        <5>1. l \in 1 .. Len(t) /\ s[l + 1] = x
          BY <3>1, <3>2, NoticeFacts DEF s
        <5> QED BY <3>1, <5>1
      <4>2. \A k \in 1 .. l : k = l \/ k \in 1 .. l - 1
        <5> HIDE DEF l
        <5> QED BY <3>2
      <4>3. \A k \in 1 .. l : t[k] # id
        <5> TAKE k \in 1 .. l
        <5>1. CASE k = l
          BY <2>2, <3>2, <4>1, <5>1, NoticeFacts
        <5>2. CASE k \in 1 .. l - 1
          <6>1. k + 1 \in 1 .. l /\ 1 < k + 1
            BY <3>2, <5>2
          <6>2. items[1] < items[k + 1]
            BY <3>2, <6>1 DEF NoticesRise, Rises
          <6> QED BY <3>1, <3>2, <5>2, <6>1, <6>2, NoticeFacts
        <5> QED BY <4>2, <5>1, <5>2
      <4>4. \A k \in 1 .. l : k # 1 => items[k] \in Range(t)
        <5> TAKE k \in 1 .. l
        <5>1. k # 1 => k - 1 \in 1 .. l - 1 /\ k - 1 \in 1 .. l /\ (k - 1) + 1 = k
          BY <3>2
        <5>2. \A j \in 1 .. l - 1 : j \in 1 .. l
          BY <3>2
        <5>3. \A j \in 1 .. l - 1 : items[j + 1] \in Range(t)
          BY <3>1, <4>1, <5>2 DEF Range
        <5>4. PICK j : j = k - 1
          OBVIOUS
        <5> QED BY <5>1, <5>3, <5>4
      <4>5. id \notin Range(t)
        BY <4>1, <4>3 DEF Range
      <4>6. \A y \in Range(items) : y = id \/ y \in Range(t)
        BY <3>2, <4>4 DEF Range
      <4> QED BY <3>1, <3>3, <4>5, <4>6
    <3>6. nextId' > nextId
      BY <2>1, <2>2
    <3> HIDE DEF id
    <3> QED BY <2>6, <3>1, <3>3, <3>4, <3>5, <3>6, JustOneGoes
  <2> QED BY <2>4, <2>5, <2>6
<1>4. CASE Region!FireTimer
  <2>1. timer' = Region!None /\ items' = DropNumber(items, timer)
    BY <1>4, RegionOperators DEF Region!FireTimer
  <2>2. CASE timer \notin Range(items)
    BY <1>1, <2>1, <2>2 DEF DropNumber
  <2>3. CASE timer \in Range(items)
    <3>1. PICK i \in DOMAIN items : items[i] = timer
      BY <2>3 DEF Range
    <3>2. Len(items) \in Nat /\ DOMAIN items = 1 .. Len(items) /\ i \in Nat /\ 1 <= i
      BY NoticeFacts
    <3>3. 1 \in DOMAIN items /\ Head(items) = items[1]
      BY <3>2 DEF NoticesRise
    <3>4. timer <= items[1] /\ (1 < i => items[1] < items[i]) /\ items[1] \in Nat
      BY <3>3, NoticeFacts DEF NoticesRise, Rises
    <3>5. i = 1
      <4>1. items[i] \in Nat
        BY NoticeFacts
      <4> QED BY <3>1, <3>2, <3>4, <4>1
    <3>6. timer = Head(items)
      BY <3>1, <3>3, <3>5
    <3> QED BY <1>2, <2>1, <2>3, <3>6
  <2> QED BY <2>2, <2>3
<1>5. ASSUME NEW id \in Region!Range(items), Region!Dismiss(id)
      PROVE  OneGoes
  <2>1. items' = DropNumber(items, id) /\ (pointer \/ focus = id) /\ id \in Range(items)
    BY <1>5, RegionOperators DEF Region!Dismiss, Region!RenderNow
  <2> QED BY <1>2, <2>1
<1>6. CASE \/ Region!RunEffect \/ (\E id \in Region!Range(items) : Region!FocusOn(id))
           \/ Region!PointerEnters \/ Region!PointerLeaves \/ Region!Blur
  BY <1>1, <1>6 DEF Region!RunEffect, Region!FocusOn, Region!PointerEnters, Region!PointerLeaves,
     Region!Blur, Region!Render, Region!RenderNow
<1> QED BY <1>3, <1>4, <1>5, <1>6 DEF Region!NoticeNext

LEMMA NoticesStart ==
    ASSUME Region!NoticeInit
    PROVE  NoticesRise
<1>1. MaxNotices \in Nat /\ MaxVisible \in Nat /\ MaxMoves \in Nat
  BY RoomConstants DEF Region!NoticeConstants
<1>2. /\ items = << >> /\ nextId = 0 /\ held = FALSE /\ timer = 0
      /\ effect = [oldest |-> 0, held |-> FALSE] /\ pointer = FALSE /\ focus = 0 /\ moves = 0
  BY DEF Region!NoticeInit, Region!Dependencies, Region!Oldest, Region!None
<1>3. << >> \in Seq(Region!Ids) /\ DOMAIN << >> = {} /\ Len(<< >>) = 0 /\ Rises(<< >>)
  BY DEF Rises
<1>4. 0 \in 0 .. MaxNotices /\ 0 <= MaxVisible /\ 0 \in 0 .. MaxMoves
  BY <1>1
<1>5. [oldest |-> 0, held |-> FALSE] \in [oldest : Region!Ids \cup {0}, held : BOOLEAN]
  OBVIOUS
<1>6. held \in BOOLEAN /\ pointer \in BOOLEAN
  BY <1>2
<1>7. effect \in [oldest : Region!Ids \cup {0}, held : BOOLEAN]
  BY <1>2, <1>5
<1>8. items \in Seq(Region!Ids) /\ DOMAIN items = {} /\ Len(items) <= MaxVisible /\ Rises(items)
  BY <1>2, <1>3, <1>4
<1>9. nextId \in 0 .. MaxNotices /\ moves \in 0 .. MaxMoves /\ timer <= nextId
  BY <1>2, <1>4
<1>10. timer \in Region!Ids \cup {0} /\ focus \in {0} \cup Range(items)
  BY <1>2
<1> QED BY <1>6, <1>7, <1>8, <1>9, <1>10 DEF NoticesRise, Region!None

LEMMA NoticeTypes ==
    ASSUME NoticesRise
    PROVE  Region!NoticeTypeOK
BY RegionOperators DEF NoticesRise, Region!NoticeTypeOK

LEMMA RegionSteps ==
    [CustomerNext]_customerVars => [Region!NoticeNext]_(Region!noticeVars)
BY DEF CustomerNext, Shops, ChecksOut, Tracks, OnBoard, Lists, OnNotices, OnServer, Browsing,
       customerVars, roomVars, noticeVars, Region!noticeVars, Region!userVars

(* A notice leaves for a reason of its own: its timeout, one too many, or    *)
(* its button; no step takes two, and the timeout that was set for one takes *)
(* no other, whatever ran in between (NotificationProvider).                 *)
THEOREM NoticesGoForAReason == CustomerSpec => OneGoesForAReason
<1>1. CustomerInit => NoticesRise
  BY NoticesStart DEF CustomerInit
<1>2. NoticesRise /\ [CustomerNext]_customerVars => NoticesRise'
  BY RegionSteps, NoticesGoOn
<1>3. NoticesRise /\ [CustomerNext]_customerVars => [OneGoes]_(Region!noticeVars)
  BY RegionSteps, NoticesLeaveOneByOne
<1>4. CustomerSpec => [][OneGoes]_(Region!noticeVars)
  BY <1>1, <1>2, <1>3, PTL DEF CustomerSpec
<1> QED BY <1>4, PTL DEF OneGoes, Leave, OneGoesForAReason, Region!OneGoesForAReason

-----------------------------------------------------------------------------
(* The pages together.                                                       *)

LEMMA TrackerSteps == [CustomerNext]_customerVars => [TrackerNext]_trackerVars
BY DEF CustomerNext, Shops, ChecksOut, Tracks, OnBoard, Lists, OnNotices, OnServer,
       customerVars, browserVars

CustomerTyped ==
    /\ ShoppingInv /\ Honest /\ CheckoutTyped /\ TrackerTypeOK
    /\ BoardKnows /\ WatchCounts /\ BoardTyped
    /\ PagesAreRead /\ NoticesRise /\ RequestKnows /\ SiteTyped

LEMMA CustomerTypesStart == CustomerInit => CustomerTyped
<1> SUFFICES ASSUME CustomerInit PROVE CustomerTyped
  OBVIOUS
<1>1. ShoppingInv /\ Honest /\ CheckoutTyped
  BY ShoppingInitInv, InitHonest, CheckoutInitTypes DEF CustomerInit
<1>2. TrackerTypeOK
  BY TrackerStarts DEF CustomerInit
<1>3. WatchCounts
  BY NewestAreOrders DEF CustomerInit, Board!OrderDeskInit, WatchCounts, Board!Fetch, Board!NotAsked, Board!UnderWay
<1>4. BoardKnows /\ BoardTyped
  BY BoardStarts, BoardTypesStart DEF CustomerInit
<1>5. PagesAreRead /\ NoticesRise
  BY ListStarts, NoticesStart DEF CustomerInit
<1>6. RequestKnows /\ SiteTyped
  BY SiteStartsKnown, SiteTypesStart DEF CustomerInit
<1> QED BY <1>1, <1>2, <1>3, <1>4, <1>5, <1>6 DEF CustomerTyped

LEMMA CustomerTypesGoOn == CustomerTyped /\ [CustomerNext]_customerVars => CustomerTyped'
<1> SUFFICES ASSUME CustomerTyped, [CustomerNext]_customerVars PROVE CustomerTyped'
  OBVIOUS
<1>1. ShoppingInv'
  BY ShoppingSteps, ShoppingNextInv DEF CustomerTyped
<1>2. Honest' /\ CheckoutTyped'
  BY CheckoutSteps, NextHonest, CheckoutNextTypes DEF CustomerTyped
<1>3. TrackerTypeOK'
  BY TrackerSteps, TrackerGoesOn DEF CustomerTyped
<1>4. BoardKnows' /\ WatchCounts' /\ BoardTyped'
  BY BoardSteps, BoardGoesOn, WatchGoesOn, BoardTypesGoOn DEF CustomerTyped
<1>5. PagesAreRead'
  BY ListSteps, ListGoesOn DEF CustomerTyped
<1>6. NoticesRise'
  BY RegionSteps, NoticesGoOn DEF CustomerTyped
<1>7. RequestKnows' /\ SiteTyped'
  BY SiteSteps, RequestGoesOn, SiteTypesGoOn DEF CustomerTyped
<1> QED BY <1>1, <1>2, <1>3, <1>4, <1>5, <1>6, <1>7 DEF CustomerTyped

(* What every page and the server keep stays within its types, for any       *)
(* menus, orders, pages and bounds: no fold of the cart, answer, page of a   *)
(* list, notice or read of the server leaves them.                           *)
THEOREM CustomerTypes == CustomerSpec => []CustomerTypeOK
<1>1. CustomerTyped => CustomerTypeOK
  <2> SUFFICES ASSUME CustomerTyped PROVE CustomerTypeOK
    OBVIOUS
  <2>1. ShoppingTypeOK /\ CheckoutTypeOK /\ TrackerTypeOK
    BY DEF CustomerTyped, ShoppingInv, CheckoutTyped
  <2>2. Board!OrderDeskTypeOK
    BY BoardTypes DEF CustomerTyped
  <2>3. List!PageTypeOK /\ Region!NoticeTypeOK
    BY ListTypes, NoticeTypes DEF CustomerTyped
  <2>4. Rendered!SiteTypeOK
    BY SiteTypes DEF CustomerTyped
  <2> QED BY <2>1, <2>2, <2>3, <2>4 DEF CustomerTypeOK
<1> QED BY <1>1, CustomerTypesStart, CustomerTypesGoOn, PTL DEF CustomerSpec

=============================================================================
