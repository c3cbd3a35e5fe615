------------------------------ MODULE Shopping ------------------------------
(***************************************************************************)
(* The menu page: a visitor picks options in the dialog of an item and adds *)
(* the line to the cart in the browser's storage, while the restaurant      *)
(* changes its catalog and a checkout page in another tab changes its own   *)
(* copy of the cart, saves it whole, and empties the cart when the order is *)
(* placed. The menu page keeps showing the menu it was rendered with until  *)
(* it is loaded again.                                                      *)
(***************************************************************************)
EXTENDS Cart

CONSTANTS
    Menus,          \* the catalogs the restaurant may sell from
    MaxLoads        \* bound: how often the menu page is loaded

\* An option is a row of one group, and a group offers options of its own.
ASSUME ShoppingConstants ==
    /\ Menus \subseteq [Items -> ItemFacts]
    /\ MaxLoads \in Nat \ {0}
    /\ \A m \in Menus : \A i \in Items : \A g \in m[i].groups :
          /\ g.open \subseteq g.options
          /\ \A h \in m[i].groups \ {g} : g.options \cap h.options = {}

VARIABLES
    menu,           \* the catalog in the database
    shown,          \* the catalog the page was rendered from
    dialog,         \* the picker: closed, or an item with what is selected
    storage,        \* the cart in localStorage
    tab,            \* the copy of the cart on the checkout page, and its bases
    badge,          \* the number on the cart link
    note,           \* what the last add said
    loads,
    bases           \* history: the catalogs the stored lines were composed from

shoppingVars == <<menu, shown, dialog, storage, tab, badge, note, loads, bases>>

NoCopy == [lines |-> EmptyCart, from |-> {}]
Closed == [item |-> "none"]
Picking == [item : Items, selected : SUBSET Options, quantity : 1 .. MaxQuantity,
            note : Notes]

ShoppingTypeOK ==
    /\ menu \in Menus /\ shown \in Menus
    /\ dialog \in {Closed} \cup Picking
    /\ storage = Foreign \/ IsCart(storage)
    /\ IsCart(tab.lines) /\ tab.from \subseteq Menus
    /\ badge \in 0 .. MaxLines * MaxQuantity
    /\ note \in {"none", "added", "full"}
    /\ loads \in 1 .. MaxLoads
    /\ bases \subseteq Menus

ShoppingInit ==
    /\ menu \in Menus /\ shown = menu
    /\ dialog = Closed
    /\ storage \in {Foreign, EmptyCart} /\ tab = NoCopy
    /\ badge = 0
    /\ note = "none"
    /\ loads = 1
    /\ bases = {}

\* The restaurant changes prices, availability or groups.
ChangeMenu ==
    /\ menu' \in Menus \ {menu}
    /\ loads < MaxLoads
    /\ UNCHANGED <<shown, dialog, storage, tab, badge, note, loads, bases>>

\* The page is rendered again; the cart link counts the stored cart.
LoadMenu ==
    /\ loads < MaxLoads
    /\ loads' = loads + 1
    /\ shown' = menu
    /\ dialog' = Closed
    /\ note' = "none"
    /\ badge' = CartItemCount(Parsed(storage))
    /\ UNCHANGED <<menu, storage, tab, bases>>

\* Only orderable items have the button; the dialog opens with nothing selected.
OpenPicker(i, request) ==
    /\ dialog = Closed
    /\ Orderable(shown[i])
    /\ dialog' = [item |-> i, selected |-> {}, quantity |-> 1, note |-> request]
    /\ note' = "none"
    /\ UNCHANGED <<menu, shown, storage, tab, badge, loads, bases>>

Pick(g, o) ==
    /\ dialog # Closed
    /\ g \in ShownGroups(shown[dialog.item]) /\ o \in g.open
    /\ dialog' = [dialog EXCEPT !.selected = Toggled(@, g, o)]
    /\ UNCHANGED <<menu, shown, storage, tab, badge, note, loads, bases>>

ChangeQuantity(quantity) ==
    /\ dialog # Closed
    /\ quantity \in {dialog.quantity - 1, dialog.quantity + 1} \cap 1 .. MaxQuantity
    /\ dialog' = [dialog EXCEPT !.quantity = quantity]
    /\ UNCHANGED <<menu, shown, storage, tab, badge, note, loads, bases>>

ClosePicker ==
    /\ dialog # Closed
    /\ dialog' = Closed
    /\ UNCHANGED <<menu, shown, storage, tab, badge, note, loads, bases>>

Composed ==
    [choice |-> [item |-> dialog.item, options |-> dialog.selected, note |-> dialog.note],
     unit |-> UnitPrice(shown[dialog.item], dialog.selected),
     quantity |-> dialog.quantity]

PickIsValid ==
    \A g \in ShownGroups(shown[dialog.item]) : GroupSatisfied(g, dialog.selected)

\* "Add": the line joins the cart that is stored at this moment.
AddToCart ==
    /\ dialog # Closed
    /\ PickIsValid
    /\ LET lines == Parsed(storage)
           added == AddLine(lines, Composed)
       IN  IF CanAdd(lines, Composed)
           THEN /\ storage' = added
                /\ badge' = CartItemCount(added)
                /\ note' = "added"
                /\ bases' = (IF lines = EmptyCart THEN {} ELSE bases) \cup {shown}
           ELSE /\ note' = "full"
                /\ UNCHANGED <<storage, badge, bases>>
    /\ dialog' = Closed
    /\ UNCHANGED <<menu, shown, tab, loads>>

(* The checkout page; the menu page hears only of its own window.           *)

\* It is opened, or loaded again, with the cart that is stored at this moment.
OpenTab ==
    /\ tab' = [lines |-> Parsed(storage), from |-> bases]
    /\ UNCHANGED <<menu, shown, dialog, storage, badge, note, loads, bases>>

\* A line has another quantity, or goes; what the menu page added since is lost.
UpdateTab(lines) ==
    /\ tab' = [lines |-> lines, from |-> tab.from]
    /\ storage' = lines /\ bases' = tab.from
    /\ UNCHANGED <<menu, shown, dialog, badge, note, loads>>

EditTab(i) ==
    \/ \E quantity \in {tab.lines[i].quantity - 1, tab.lines[i].quantity + 1} \cap 1 .. MaxQuantity :
          UpdateTab(SetLineQuantity(tab.lines, i, quantity))
    \/ UpdateTab(RemoveLine(tab.lines, i))

\* The order is placed, here or on another such page: the stored cart goes.
ClearedElsewhere ==
    /\ storage \notin {Foreign, EmptyCart}
    /\ storage' = EmptyCart
    /\ bases' = {}
    /\ UNCHANGED <<menu, shown, dialog, tab, badge, note, loads>>

ShoppingNext ==
    \/ ChangeMenu
    \/ LoadMenu
    \/ \E i \in Items, request \in Notes : OpenPicker(i, request)
    \/ \E i \in Items : \E g \in shown[i].groups : \E o \in g.open : Pick(g, o)
    \/ \E quantity \in 1 .. MaxQuantity : ChangeQuantity(quantity)
    \/ ClosePicker
    \/ AddToCart
    \/ OpenTab
    \/ \E i \in DOMAIN tab.lines : EditTab(i)
    \/ ClearedElsewhere

ShoppingSpec == ShoppingInit /\ [][ShoppingNext]_shoppingVars

-----------------------------------------------------------------------------

\* The server's pricing (price_cart) refuses none of the lines, and comes to the
\* total that the visitor is shown: only its bound on a total may refuse the cart.
AcceptedAsShown(lines) ==
    /\ PricedTotal(menu, PlacementLines(lines)) = CartTotal(lines)
    /\ CartProblems(menu, PlacementLines(lines)) =
          IF CartTotal(lines) > MaxTotal THEN {"total_bounds"} ELSE {}

\* A cart, stored or on the checkout page, whose lines were all composed from the
\* catalog the restaurant still sells from is accepted at exactly the total the
\* visitor is shown, unless that is beyond the server's bound: the picker's local
\* rules, the merging of lines, and the lines changed, removed and saved by the
\* page of another tab never make something that the server refuses or prices
\* differently.
CartAsShownIsAccepted ==
    /\ bases \subseteq {menu} => AcceptedAsShown(Parsed(storage))
    /\ tab.from \subseteq {menu} => AcceptedAsShown(tab.lines)

=============================================================================
