------------------------------- MODULE Catalog -------------------------------
(***************************************************************************)
(* The menu on the server: categories and items with the positions that     *)
(* order them. Every command locks the business first, so each of them is   *)
(* one step. An operation is given as the menus it may make of the menu m:  *)
(* one, or none when it is refused.                                         *)
(***************************************************************************)
EXTENDS Tables

CONSTANTS
    Categories,     \* bound: the categories that may exist
    Dishes,         \* bound: the items that may exist
    Titles,         \* the names of categories
    FeaturedLimit   \* how many items may be featured

ASSUME CatalogConstants ==
    FeaturedLimit \in Nat /\ IsFiniteSet(Categories) /\ IsFiniteSet(Dishes)

Section == [title : Titles, visible : BOOLEAN, place : Nat]
Dish == [section : Categories, place : Nat, featured : BOOLEAN, available : BOOLEAN]

IsMenu(m) ==
    /\ m = [sections |-> m.sections, dishes |-> m.dishes]
    /\ DOMAIN m.sections \subseteq Categories /\ DOMAIN m.dishes \subseteq Dishes
    /\ m.sections \in [DOMAIN m.sections -> Section]
    /\ m.dishes \in [DOMAIN m.dishes -> Dish]

Refused == {}

DishesIn(m, c) == {i \in DOMAIN m.dishes : m.dishes[i].section = c}
Featured(m) == {i \in DOMAIN m.dishes : m.dishes[i].featured}

CategoryOrder(m) ==
    SetToSortSeq(DOMAIN m.sections, LAMBDA c, d : m.sections[c].place < m.sections[d].place)
DishOrder(m, c) ==
    SetToSortSeq(DishesIn(m, c), LAMBDA i, j : m.dishes[i].place < m.dishes[j].place)

Without(f, x) == [y \in DOMAIN f \ {x} |-> f[y]]

-----------------------------------------------------------------------------
(* Categories.                                                             *)

TitleTaken(m, title, others) == \E c \in others : m.sections[c].title = title

\* There is room for so many categories.
CreateCategory(m, title) ==
    IF TitleTaken(m, title, DOMAIN m.sections) THEN Refused
    ELSE {[m EXCEPT !.sections = With(@, c, [title |-> title, visible |-> TRUE,
                                             place |-> Cardinality(DOMAIN @)])] :
          c \in Categories \ DOMAIN m.sections}

\* Only the fields of the change are written.
UpdateCategory(m, c, change) ==
    IF \/ c \notin DOMAIN m.sections
       \/ "title" \in DOMAIN change /\ TitleTaken(m, change.title, DOMAIN m.sections \ {c})
    THEN Refused
    ELSE {[m EXCEPT !.sections[c] = Merge(@, change)]}

\* Mutant: the positions after the deleted category stay.
DeleteLeavingGap(m, c) ==
    IF c \notin DOMAIN m.sections \/ DishesIn(m, c) # {} THEN Refused
    ELSE {[m EXCEPT !.sections = Without(@, c)]}

\* Only an empty category is deleted, and the gap it leaves is closed.
DeleteCategory(m, c) ==
    IF c \notin DOMAIN m.sections \/ DishesIn(m, c) # {} THEN Refused
    ELSE {[m EXCEPT !.sections = [d \in DOMAIN @ \ {c} |-> CloseGap(@[d], @[c].place)]]}

\* The order has to name exactly the categories that there are.
ReorderCategories(m, order) ==
    IF ~Arranges(order, DOMAIN m.sections) THEN Refused
    ELSE {[m EXCEPT !.sections =
             [c \in DOMAIN @ |-> [@[c] EXCEPT !.place = IndexOf(order, c) - 1]]]}

-----------------------------------------------------------------------------
(* Items.                                                                  *)

CreateItem(m, c) ==
    IF c \notin DOMAIN m.sections THEN Refused
    ELSE {[m EXCEPT !.dishes =
             With(@, i, [section |-> c, place |-> Cardinality(DishesIn(m, c)),
                         featured |-> FALSE, available |-> TRUE])] :
          i \in Dishes \ DOMAIN m.dishes}

\* An item that moves goes to the end of its new category, and the gap that it
\* leaves is closed.
MovedTo(m, i, c) ==
    LET old == m.dishes[i]
    IN  [j \in DOMAIN m.dishes |->
            IF j = i THEN [old EXCEPT !.section = c, !.place = Cardinality(DishesIn(m, c))]
            ELSE IF m.dishes[j].section = old.section THEN CloseGap(m.dishes[j], old.place)
            ELSE m.dishes[j]]

\* A change of an item: its section, whether it is featured. The limit counts
\* under the lock.
UpdateItem(m, i, change) ==
    LET moving == "section" \in DOMAIN change /\ change.section # m.dishes[i].section
        featuring == "featured" \in DOMAIN change /\ change.featured /\ ~m.dishes[i].featured
        moved == IF moving THEN MovedTo(m, i, change.section) ELSE m.dishes
    IN  IF \/ i \notin DOMAIN m.dishes
           \/ moving /\ change.section \notin DOMAIN m.sections
           \/ featuring /\ Cardinality(Featured(m)) >= FeaturedLimit
        THEN Refused
        ELSE {[m EXCEPT !.dishes = [moved EXCEPT ![i] = Merge(@, change)]]}

DeleteItem(m, i) ==
    IF i \notin DOMAIN m.dishes THEN Refused
    ELSE {[m EXCEPT !.dishes =
             [j \in DOMAIN @ \ {i} |->
                IF @[j].section = @[i].section THEN CloseGap(@[j], @[i].place) ELSE @[j]]]}

ReorderItems(m, c, order) ==
    IF c \notin DOMAIN m.sections \/ ~Arranges(order, DishesIn(m, c)) THEN Refused
    ELSE {[m EXCEPT !.dishes =
             [i \in DOMAIN @ |-> IF @[i].section # c THEN @[i]
                                 ELSE [@[i] EXCEPT !.place = IndexOf(order, i) - 1]]]}

SetAvailability(m, i, available) ==
    IF i \notin DOMAIN m.dishes THEN Refused
    ELSE {[m EXCEPT !.dishes[i].available = available]}

-----------------------------------------------------------------------------
(* A command of an administrator.                                          *)

Run(m, q) ==
    CASE q.do = "createCategory"    -> CreateCategory(m, q.title)
      [] q.do = "updateCategory"    -> UpdateCategory(m, q.category, q.change)
      [] q.do = "deleteCategory"    -> DeleteCategory(m, q.category)
      [] q.do = "reorderCategories" -> ReorderCategories(m, q.order)
      [] q.do = "createItem"        -> CreateItem(m, q.category)
      [] q.do = "updateItem"        -> UpdateItem(m, q.item, q.change)
      [] q.do = "deleteItem"        -> DeleteItem(m, q.item)
      [] q.do = "reorderItems"      -> ReorderItems(m, q.category, q.order)
      [] q.do = "setAvailability"   -> SetAvailability(m, q.item, q.available)

\* The positions of the categories, and of the items of a category, are
\* 0, 1, 2 and so on without a gap; every item is in a category that exists.
DenselyPlaced(m) ==
    /\ Dense(m.sections, DOMAIN m.sections)
    /\ \A c \in DOMAIN m.sections : Dense(m.dishes, DishesIn(m, c))
    /\ \A i \in DOMAIN m.dishes : m.dishes[i].section \in DOMAIN m.sections

\* No two categories share a name, and no more items are featured than may be.
MenuIsSound(m) ==
    /\ DenselyPlaced(m)
    /\ \A c, d \in DOMAIN m.sections : m.sections[c].title = m.sections[d].title => c = d
    /\ Cardinality(Featured(m)) <= FeaturedLimit
=============================================================================
