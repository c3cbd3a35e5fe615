------------------------------ MODULE MenuDesk ------------------------------
(***************************************************************************)
(* The menu overview of the control center: dialogs for categories, the     *)
(* lists in which categories or items are arranged, and the sold-out        *)
(* buttons, all over one tree of the menu, while other administrators       *)
(* change the menu. The page has one command under way at a time.           *)
(***************************************************************************)
EXTENDS Query, Catalog

CONSTANTS
    MenuStarts,     \* the menus a behaviour may start from
    MaxMenuEvents   \* bound: commands that change the menu, requests that fail

ASSUME MenuDeskConstants ==
    /\ \A m \in MenuStarts : IsMenu(m) /\ MenuIsSound(m)
    /\ MaxMenuEvents \in Nat

VARIABLES
    catalog,        \* the menu on the server
    tree,           \* the query for it
    manages,        \* whether the member may change more than availability
    dialog,         \* the dialog for a category
    arranging,      \* what is being arranged
    order,          \* the list in which it is, while it is on screen
    searching,      \* whether the search narrows the items
    call,           \* the command under way
    menuEvents      \* how many commands changed the menu or requests failed

menuPage == <<manages, dialog, arranging, order, searching>>
menuDeskVars == <<catalog, tree, menuPage, call, menuEvents>>

-----------------------------------------------------------------------------
(* The page.                                                               *)

NoDialog == [mode |-> "none"]
Adding(title) == [mode |-> "create", form |-> [title |-> title]]
Editing(c, was, form) == [mode |-> "edit", category |-> c, was |-> was, form |-> form]
Deleting(c) == [mode |-> "delete", category |-> c]

Fields == [title : Titles, visible : BOOLEAN]
FieldsOf(section) == [title |-> section.title, visible |-> section.visible]

Dialogs == {NoDialog} \cup {Adding(t) : t \in Titles} \cup {Deleting(c) : c \in Categories}
           \cup {Editing(c, w, f) : c \in Categories, w \in Fields, f \in Fields}

Nothing == "nothing"
AllCategories == "categories"
NoOrder == NoData

Idle == [do |-> "none"]
Asked(q) == [q |-> q, phase |-> "sent"]
Pending == call # Idle

Page == tree.data
CanWrite == Usable(tree) /\ manages

\* What a list that mounts now would start with.
Entries(m) == IF arranging = AllCategories THEN CategoryOrder(m) ELSE DishOrder(m, arranging)
ListOnPage(t) ==
    /\ Usable(t)
    /\ arranging = AllCategories \/ arranging \in DOMAIN t.data.sections
\* The list keeps its order while it is on screen, and starts anew after it was not.
OrderOver(t) == IF ~ListOnPage(t) THEN NoOrder ELSE IF order = NoOrder THEN Entries(t.data) ELSE order

MenuDeskTypeOK ==
    /\ IsMenu(catalog)
    /\ \A m \in {tree.data, tree.flight} \ {NoData} : IsMenu(m)
    /\ manages \in BOOLEAN /\ searching \in BOOLEAN
    /\ dialog \in Dialogs
    /\ arranging \in Categories \cup {AllCategories, Nothing}
    /\ order # NoOrder <=> ListOnPage(tree)
    /\ order # NoOrder => IsInjective(order)
    /\ Pending => call.phase \in {"sent", "done", "refused", "lost", "settling"}

MenuDeskInit ==
    /\ catalog \in MenuStarts
    /\ tree = Fetch(NotAsked, catalog)
    /\ manages \in BOOLEAN
    /\ dialog = NoDialog /\ arranging = Nothing /\ order = NoOrder /\ searching = FALSE
    /\ call = Idle
    /\ menuEvents = 0

-----------------------------------------------------------------------------
(* The server.                                                             *)

\* What other administrators do.
Elsewhere(m) ==
    UNION {
        {[do |-> "createCategory", title |-> t] : t \in Titles},
        {[do |-> "updateCategory", category |-> c, change |-> change] :
            c \in Categories, change \in [{"title"} -> Titles] \cup [{"visible"} -> BOOLEAN]},
        {[do |-> "deleteCategory", category |-> c] : c \in Categories},
        {[do |-> "reorderCategories", order |-> Reverse(CategoryOrder(m))]},
        {[do |-> "createItem", category |-> c] : c \in Categories},
        {[do |-> "updateItem", item |-> i, change |-> [section |-> c]] : i \in Dishes, c \in Categories},
        {[do |-> "deleteItem", item |-> i] : i \in Dishes},
        {[do |-> "reorderItems", category |-> c, order |-> Reverse(DishOrder(m, c))] : c \in Categories}}

\* What a successful command is answered with.
Reorders == {"reorderCategories", "reorderItems"}
Carried(q, m) ==
    CASE q.do \in Reorders       -> m
      [] q.do = "updateItem"     -> m.dishes[q.item]
      [] q.do = "createItem"     -> CHOOSE i \in DOMAIN m.dishes : i \notin DOMAIN catalog.dishes
      [] q.do = "createCategory" -> CHOOSE c \in DOMAIN m.sections : c \notin DOMAIN catalog.sections
      [] OTHER                   -> NoData

Counted(happened) ==
    /\ menuEvents' = IF happened THEN menuEvents + 1 ELSE menuEvents
    /\ menuEvents' <= MaxMenuEvents

ChangeElsewhere ==
    /\ \E q \in Elsewhere(catalog) : catalog' \in Run(catalog, q) \ {catalog}
    /\ Counted(catalog' # catalog)
    /\ UNCHANGED <<tree, menuPage, call>>

RunMenuCommand ==
    /\ Pending /\ call.phase = "sent"
    /\ LET menus == Run(catalog, call.q)
       IN  \/ /\ catalog' \in menus
              /\ call' = [q |-> call.q, phase |-> "done",
                          answer |-> Carried(call.q, catalog')]
              /\ Counted(catalog' # catalog)
           \/ /\ menus = {}
              /\ call' = [call EXCEPT !.phase = "refused"]
              /\ UNCHANGED <<catalog, menuEvents>>
    /\ UNCHANGED <<tree, menuPage>>

LoseMenuCommand ==
    /\ Counted(TRUE)
    /\ Pending /\ call.phase \in {"sent", "done", "refused"}
    /\ call' = [q |-> call.q, phase |-> "lost"]
    /\ UNCHANGED <<catalog, tree, menuPage>>

-----------------------------------------------------------------------------
(* The tree.                                                               *)

Seen(t) == tree' = t /\ order' = OrderOver(t)

LandTree ==
    /\ UnderWay(tree)
    /\ \E menu \in Answers(tree, catalog) : Seen(Land(tree, menu))
    /\ UNCHANGED <<catalog, manages, dialog, arranging, searching, call, menuEvents>>

\* The page shows the error instead of the menu; what it was doing waits behind.
FailTree ==
    /\ Counted(TRUE)
    /\ UnderWay(tree) /\ Seen(Fail(tree))
    /\ UNCHANGED <<catalog, manages, dialog, arranging, searching, call>>

\* "Try again", or a connection that comes back.
AskAgain ==
    /\ ~UnderWay(tree) /\ tree' = Refetch(tree, catalog)
    /\ UNCHANGED <<catalog, menuPage, call, menuEvents>>

-----------------------------------------------------------------------------
(* Categories.                                                             *)

\* Mutant: the whole form is sent.
WholeForm(was, form) == form

\* Only what differs from the category as the dialog was opened on it is sent.
Changes(was, form) == [f \in {g \in DOMAIN was : form[g] # was[g]} |-> form[f]]

OpenCategoryDialog ==
    /\ CanWrite /\ dialog = NoDialog /\ ~Pending
    /\ dialog' \in {Adding(t) : t \in Titles}
                   \cup {Deleting(c) : c \in {d \in DOMAIN Page.sections : DishesIn(Page, d) = {}}}
                   \cup {Editing(c, FieldsOf(Page.sections[c]), FieldsOf(Page.sections[c])) :
                            c \in DOMAIN Page.sections}
    /\ UNCHANGED <<catalog, tree, manages, arranging, order, searching, call, menuEvents>>

TypeInDialog ==
    /\ Usable(tree) /\ dialog.mode = "edit" /\ ~Pending
    /\ \E form \in Fields : form # dialog.form /\ dialog' = [dialog EXCEPT !.form = form]
    /\ UNCHANGED <<catalog, tree, manages, arranging, order, searching, call, menuEvents>>

CancelDialog ==
    /\ Usable(tree) /\ dialog # NoDialog /\ ~Pending
    /\ dialog' = NoDialog
    /\ UNCHANGED <<catalog, tree, manages, arranging, order, searching, call, menuEvents>>

\* An edit that changes nothing closes the dialog without a request.
SubmitCategory ==
    /\ Usable(tree) /\ dialog.mode \in {"create", "edit"} /\ ~Pending
    /\ IF dialog.mode = "edit" /\ Changes(dialog.was, dialog.form) = << >>
       THEN dialog' = NoDialog /\ UNCHANGED call
       ELSE /\ call' = Asked(
                 IF dialog.mode = "create" THEN [do |-> "createCategory", title |-> dialog.form.title]
                 ELSE [do |-> "updateCategory", category |-> dialog.category,
                       change |-> Changes(dialog.was, dialog.form)])
            /\ UNCHANGED dialog
    /\ UNCHANGED <<catalog, tree, manages, arranging, order, searching, menuEvents>>

ConfirmDelete ==
    /\ Usable(tree) /\ dialog.mode = "delete" /\ ~Pending
    /\ call' = Asked([do |-> "deleteCategory", category |-> dialog.category])
    /\ UNCHANGED <<catalog, tree, menuPage, menuEvents>>

\* The sold-out button asks for the opposite of what it shows.
ToggleAvailability(i) ==
    /\ Usable(tree) /\ dialog = NoDialog /\ ~Pending
    /\ i \in DOMAIN Page.dishes
    /\ call' = Asked([do |-> "setAvailability", item |-> i, available |-> ~Page.dishes[i].available])
    /\ UNCHANGED <<catalog, tree, menuPage, menuEvents>>

Search ==
    /\ Usable(tree) /\ dialog = NoDialog /\ DOMAIN Page.sections # {}
    /\ searching' = ~searching
    /\ UNCHANGED <<catalog, tree, manages, dialog, arranging, order, call, menuEvents>>

-----------------------------------------------------------------------------
(* Arranging.                                                              *)

\* A permutation over a search would be inexact, so it is not offered.
StartArranging(where) ==
    /\ CanWrite /\ dialog = NoDialog /\ arranging = Nothing
    /\ IF where = AllCategories THEN Cardinality(DOMAIN Page.sections) > 1
       ELSE /\ where \in DOMAIN Page.sections
            /\ Cardinality(DishesIn(Page, where)) > 1 /\ ~searching
    /\ arranging' = where
    /\ order' = IF where = AllCategories THEN CategoryOrder(Page) ELSE DishOrder(Page, where)
    /\ UNCHANGED <<catalog, tree, manages, dialog, searching, call, menuEvents>>

CancelArranging ==
    /\ order # NoOrder /\ dialog = NoDialog /\ ~Pending
    /\ arranging' = Nothing /\ order' = NoOrder
    /\ UNCHANGED <<catalog, tree, manages, dialog, searching, call, menuEvents>>

MovedUp(items, n) ==
    [k \in DOMAIN items |-> IF k = n THEN items[n - 1] ELSE IF k = n - 1 THEN items[n] ELSE items[k]]

MoveEntry(n) ==
    /\ order # NoOrder /\ dialog = NoDialog /\ ~Pending
    /\ n \in 2 .. Len(order)
    /\ order' = MovedUp(order, n)
    /\ UNCHANGED <<catalog, tree, manages, dialog, arranging, searching, call, menuEvents>>

SaveOrder ==
    /\ order # NoOrder /\ dialog = NoDialog /\ ~Pending
    /\ order # Entries(Page)
    /\ call' = Asked(IF arranging = AllCategories THEN [do |-> "reorderCategories", order |-> order]
                     ELSE [do |-> "reorderItems", category |-> arranging, order |-> order])
    /\ UNCHANGED <<catalog, tree, menuPage, menuEvents>>

-----------------------------------------------------------------------------
(* The answer to a command.                                                *)

\* A reorder brings the menu with it, and its list closes.
TakeNewOrder ==
    /\ Pending /\ call.q.do \in Reorders /\ call.phase = "done"
    /\ tree' = Write(tree, call.answer)
    /\ arranging' = Nothing /\ order' = NoOrder /\ call' = Idle
    /\ UNCHANGED <<catalog, manages, dialog, searching, menuEvents>>

\* "The menu changed while you were reordering": the list closes, the menu is read.
RefuseOrder ==
    /\ Pending /\ call.q.do \in Reorders /\ call.phase \in {"refused", "lost"}
    /\ tree' = Refetch(tree, catalog)
    /\ arranging' = Nothing /\ order' = NoOrder /\ call' = Idle
    /\ UNCHANGED <<catalog, manages, dialog, searching, menuEvents>>

\* Any other success reads the menu first, and then tells the page.
TakeSuccess ==
    /\ Pending /\ call.q.do \notin Reorders /\ call.phase = "done"
    /\ tree' = Refetch(tree, catalog)
    /\ call' = [call EXCEPT !.phase = "settling"]
    /\ UNCHANGED <<catalog, menuPage, menuEvents>>

Settle ==
    /\ Pending /\ call.phase = "settling" /\ ~UnderWay(tree)
    /\ dialog' = NoDialog /\ call' = Idle
    /\ UNCHANGED <<catalog, tree, manages, arranging, order, searching, menuEvents>>

\* The dialog stays with its error, except that of a deletion, after which the
\* menu is read.
TakeFailure ==
    /\ Pending /\ call.q.do \notin Reorders /\ call.phase \in {"refused", "lost"}
    /\ IF call.q.do = "deleteCategory"
       THEN dialog' = NoDialog /\ tree' = Refetch(tree, catalog)
       ELSE UNCHANGED <<dialog, tree>>
    /\ call' = Idle
    /\ UNCHANGED <<catalog, manages, arranging, order, searching, menuEvents>>

MenuDeskNext ==
    \/ ChangeElsewhere
    \/ RunMenuCommand
    \/ LoseMenuCommand
    \/ LandTree
    \/ FailTree
    \/ AskAgain
    \/ OpenCategoryDialog
    \/ TypeInDialog
    \/ CancelDialog
    \/ SubmitCategory
    \/ ConfirmDelete
    \/ \E i \in Dishes : ToggleAvailability(i)
    \/ Search
    \/ \E where \in Categories \cup {AllCategories} : StartArranging(where)
    \/ CancelArranging
    \/ \E n \in 2 .. Cardinality(Dishes) : MoveEntry(n)
    \/ SaveOrder
    \/ TakeNewOrder
    \/ RefuseOrder
    \/ TakeSuccess
    \/ Settle
    \/ TakeFailure

MenuDeskSpec == MenuDeskInit /\ [][MenuDeskNext]_menuDeskVars

-----------------------------------------------------------------------------

\* Whatever administrators do at the same time, the positions of categories and
\* items stay 0, 1, 2 and so on, no item loses its category, no two categories
\* share a name, and no more items are featured than may be.
MenuStaysSound == MenuIsSound(catalog)

\* A category that is edited over an older tree keeps what another administrator
\* has made of the fields that were left alone in the dialog.
EditKeepsTheRest ==
    [][RunMenuCommand /\ call.q.do = "updateCategory" /\ call'.phase = "done" =>
          \A f \in DOMAIN dialog.was :
             dialog.form[f] = dialog.was[f]
                => catalog'.sections[call.q.category][f] = catalog.sections[call.q.category][f]]_menuDeskVars
=============================================================================
