------------------------------ MODULE ItemDesk ------------------------------
(***************************************************************************)
(* The pages of one menu item: the editor of an item, and the form for a    *)
(* new one. They share the tree and the commands of MenuDesk. The editor's  *)
(* form takes its values from the item in the tree again whenever they      *)
(* differ from the ones that it took before, and from the answer to a save. *)
(* Of the fields of an item, its category and whether it is featured stand  *)
(* for all.                                                                 *)
(***************************************************************************)
EXTENDS MenuDesk

VARIABLES
    page,           \* the page on screen: an item's, the new item's, or another
    values,         \* what the form shows
    base,           \* what it was last set to: a difference is an unsaved change
    adopted,        \* the values of the tree that it took last
    aside           \* a dialog over the page

itemVars == <<page, values, base, adopted, aside>>
itemDeskVars == <<menuDeskVars, itemVars>>

New == "new"
Away == "away"
NoSection == "no category"
ASSUME PagesDiffer == {New, Away} \cap Dishes = {}

FormValues == [section : Categories \cup {NoSection}, featured : BOOLEAN]
ValuesOf(dish) == [section |-> dish.section, featured |-> dish.featured]
EmptyValues(section) == [section |-> section, featured |-> FALSE]
Dirty == values # base

Asides == {"none", "delete", "leave"} \cup Titles

ItemDeskTypeOK ==
    /\ MenuDeskTypeOK
    /\ page \in Dishes \cup {New, Away}
    /\ {values, base} \subseteq FormValues
    /\ adopted \in FormValues \cup {NoData}
    /\ aside \in Asides

ItemDeskInit ==
    /\ MenuDeskInit
    /\ page \in DOMAIN catalog.dishes \cup {New}
    /\ values = EmptyValues(NoSection) /\ base = values
    /\ adopted = NoData
    /\ aside = "none"

OnItem == page \in Dishes
ItemFound(t) == OnItem /\ t.data # NoData /\ page \in DOMAIN t.data.dishes
Open == page # Away /\ aside = "none" /\ IF OnItem THEN ItemFound(tree) ELSE tree.data # NoData
Item == tree.data.dishes[page]
ItemOfTree(t) == ValuesOf(t.data.dishes[page])

SetForm(v) == values' = v /\ base' = v

-----------------------------------------------------------------------------
(* The form over the tree.                                                 *)

\* Mutant: the form takes its values once.
AdoptOnce(t) ==
    IF ItemFound(t) /\ adopted = NoData
    THEN SetForm(ItemOfTree(t)) /\ adopted' = ItemOfTree(t)
    ELSE UNCHANGED <<values, base, adopted>>

AdoptItem(t) ==
    IF ItemFound(t) /\ adopted # ItemOfTree(t)
    THEN SetForm(ItemOfTree(t)) /\ adopted' = ItemOfTree(t)
    ELSE UNCHANGED <<values, base, adopted>>

\* The new item's form is opened for a category, which is chosen when the tree
\* has it, unless another one was chosen by then.
Preselect(t) ==
    /\ UNCHANGED adopted
    /\ \/ UNCHANGED <<values, base>>
       \/ /\ base.section = NoSection
          /\ \E c \in DOMAIN t.data.sections :
                /\ base' = EmptyValues(c)
                /\ values' = IF Dirty THEN values ELSE base'

ReadItem ==
    /\ LandTree
    /\ IF page = New THEN Preselect(tree') ELSE AdoptItem(tree')
    /\ UNCHANGED <<page, aside>>

\* The item stays on screen over the data that there was.
FailToRead == FailTree /\ UNCHANGED itemVars

Type(v) ==
    /\ Open /\ manages /\ v # values
    /\ v.section \in DOMAIN Page.sections \cup {values.section}
    /\ page = New => ~v.featured
    /\ values' = v
    /\ UNCHANGED <<menuDeskVars, page, base, adopted, aside>>

Discard ==
    /\ Open /\ OnItem /\ Dirty /\ ~Pending
    /\ SetForm(ItemOfTree(tree))
    /\ UNCHANGED <<menuDeskVars, page, adopted, aside>>

-----------------------------------------------------------------------------
(* Commands.                                                               *)

\* toItemUpdate: what differs from the item in the tree.
Update(form, dish) == Changes(ValuesOf(dish), form)

Ask(q) ==
    /\ ~Pending /\ call' = Asked(q)
    /\ UNCHANGED <<catalog, tree, menuPage, menuEvents, values, base, adopted>>

\* With nothing to send the page only says so.
Save ==
    /\ Open /\ OnItem /\ manages /\ Dirty /\ Update(values, Item) # << >>
    /\ Ask([do |-> "updateItem", item |-> page, change |-> Update(values, Item),
            over |-> ValuesOf(Item)])
    /\ UNCHANGED <<page, aside>>

Add ==
    /\ Open /\ page = New /\ values.section # NoSection
    /\ Ask([do |-> "createItem", category |-> values.section])
    /\ UNCHANGED <<page, aside>>

Toggle ==
    /\ Open /\ OnItem
    /\ Ask([do |-> "setAvailability", item |-> page, available |-> ~Item.available])
    /\ UNCHANGED <<page, aside>>

DeleteThis ==
    /\ OnItem /\ ItemFound(tree) /\ aside = "delete"
    /\ Ask([do |-> "deleteItem", item |-> page])
    /\ UNCHANGED <<page, aside>>

AddSection ==
    /\ page # Away /\ aside \in Titles
    /\ Ask([do |-> "createCategory", title |-> aside])
    /\ UNCHANGED <<page, aside>>

\* The dialogs: to delete the item, to create a category, and to leave.
OpenAside ==
    /\ Open /\ manages
    /\ aside' \in (IF OnItem THEN {"delete"} ELSE {}) \cup Titles
    /\ UNCHANGED <<menuDeskVars, page, values, base, adopted>>

CancelAside ==
    /\ aside # "none" /\ ~Pending
    /\ aside' = "none"
    /\ UNCHANGED <<menuDeskVars, page, values, base, adopted>>

\* Unsaved changes are asked about before the page is left.
Leave ==
    /\ page # Away
    /\ \/ aside = "none" /\ ~Dirty /\ page' = Away /\ UNCHANGED aside
       \/ aside = "none" /\ Dirty /\ aside' = "leave" /\ UNCHANGED page
       \/ aside = "leave" /\ page' = Away /\ aside' = "none"
    /\ UNCHANGED <<menuDeskVars, values, base, adopted>>

-----------------------------------------------------------------------------
(* Answers. A success has read the tree again before the page hears of it.  *)

ReadAgainFirst == TakeSuccess /\ UNCHANGED itemVars

Answered(do) ==
    /\ page # Away /\ Pending /\ call.phase = "settling" /\ call.q.do = do /\ ~UnderWay(tree)
    /\ call' = Idle
    /\ UNCHANGED <<catalog, menuPage, menuEvents>>

\* The form shows the answer, which the tree may be ahead of.
Saved ==
    /\ Answered("updateItem")
    /\ SetForm(ValuesOf(call.answer))
    /\ UNCHANGED <<tree, page, adopted, aside>>

\* The editor of the new item opens, and reads the tree.
Added ==
    /\ Answered("createItem")
    /\ page' = call.answer
    /\ IF page' \in DOMAIN tree.data.dishes
       THEN adopted' = ValuesOf(tree.data.dishes[page']) /\ SetForm(adopted')
       ELSE adopted' = NoData /\ SetForm(EmptyValues(NoSection))
    /\ tree' = Refetch(tree, catalog)
    /\ UNCHANGED aside

Deleted ==
    /\ Answered("deleteItem")
    /\ page' = Away /\ aside' = "none"
    /\ UNCHANGED <<tree, values, base, adopted>>

SectionAdded ==
    /\ Answered("createCategory")
    /\ values' = [values EXCEPT !.section = call.answer] /\ aside' = "none"
    /\ UNCHANGED <<tree, page, base, adopted>>

Toggled == Answered("setAvailability") /\ UNCHANGED <<tree, itemVars>>

\* At the limit of featured items the form is set back to the item it was sent
\* over; that, what is gone, and a deletion that fails read the tree.
Failed ==
    /\ page # Away /\ Pending /\ call.phase \in {"refused", "lost"}
    /\ call' = Idle
    /\ \/ /\ call.q.do = "updateItem" /\ call.phase = "refused"
          /\ tree' = Refetch(tree, catalog)
          /\ \/ UNCHANGED <<values, base>>
             \/ "featured" \in DOMAIN call.q.change /\ call.q.change.featured /\ SetForm(call.q.over)
          /\ UNCHANGED aside
       \/ /\ call.q.do = "deleteItem"
          /\ tree' = Refetch(tree, catalog) /\ aside' = "none"
          /\ UNCHANGED <<values, base>>
       \/ /\ \/ call.q.do \in {"createItem", "createCategory", "setAvailability"}
             \/ call.q.do = "updateItem" /\ call.phase = "lost"
          /\ UNCHANGED <<tree, aside, values, base>>
    /\ UNCHANGED <<catalog, menuPage, menuEvents, page, adopted>>

\* Nobody hears of an answer on a page that was left.
Unheard ==
    /\ page = Away /\ Pending /\ call.phase \in {"refused", "lost", "settling"}
    /\ call' = Idle
    /\ UNCHANGED <<catalog, tree, menuPage, menuEvents, itemVars>>

ItemDeskNext ==
    \/ (ChangeElsewhere \/ RunMenuCommand \/ LoseMenuCommand) /\ UNCHANGED itemVars
    \/ AskAgain /\ UNCHANGED itemVars
    \/ ReadItem
    \/ FailToRead
    \/ \E v \in FormValues : Type(v)
    \/ Discard
    \/ Save
    \/ Add
    \/ Toggle
    \/ DeleteThis
    \/ AddSection
    \/ OpenAside
    \/ CancelAside
    \/ Leave
    \/ ReadAgainFirst
    \/ Saved
    \/ Added
    \/ Deleted
    \/ SectionAdded
    \/ Toggled
    \/ Failed
    \/ Unheard

ItemDeskSpec == ItemDeskInit /\ [][ItemDeskNext]_itemDeskVars

-----------------------------------------------------------------------------

\* "Sending an unchanged field is not harmless: it would overwrite whatever
\* another administrator committed in the meantime": a save sends only what was
\* changed in the form since it took the values of the tree. It is not stated for
\* a form that was last set from an answer (Saved, Failed): that one may be older
\* than the tree, and then the next save sends the difference as well.
SendsOnlyWhatWasTyped ==
    [][call = Idle /\ call' # Idle /\ call'.q.do = "updateItem" /\ base = adopted =>
          \A f \in DOMAIN call'.q.change : values[f] # base[f]]_itemDeskVars
=============================================================================
