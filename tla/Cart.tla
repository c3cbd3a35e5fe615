-------------------------------- MODULE Cart --------------------------------
(***************************************************************************)
(* The guest cart of the storefront, the choices its picker offers, and the *)
(* pricing the server applies to it. Everything here is a pure value: the   *)
(* cart is a sequence of lines, a line is a choice with the unit price the  *)
(* visitor was shown, and a catalog is what the restaurant sells.           *)
(***************************************************************************)
EXTENDS Naturals, Sequences, FiniteSets, SequencesExt

CONSTANTS
    Items,          \* menu items
    Options,        \* options of modifier groups
    Notes,          \* special requests of a line, the empty one included
    Foreign,        \* a stored value that is not a cart of this schema
    MaxLines,       \* MAX_CART_LINES
    MaxQuantity,    \* MAX_LINE_QUANTITY
    MaxTotal        \* MAX_TOTAL_MINOR of the server

ASSUME CartConstants ==
    /\ MaxLines \in Nat \ {0}
    /\ MaxQuantity \in Nat \ {0}
    /\ MaxTotal \in Nat
    /\ IsFiniteSet(Options) /\ Notes # {}

-----------------------------------------------------------------------------
(* The catalog. A maximum of 0 stands for "no maximum".                    *)

Unlimited == 0

Group == [min : Nat, max : Nat, options : SUBSET Options, open : SUBSET Options]

ItemFacts == [visible : BOOLEAN, available : BOOLEAN, price : Nat,
              delta : [Options -> Nat], groups : SUBSET Group]

WithinMax(g, n) == g.max = Unlimited \/ n <= g.max

Satisfiable(g) ==
    LET active == Cardinality(g.open)
    IN  active >= 1 /\ g.min <= active /\ (g.max = Unlimited \/ g.max <= active)

\* What the public menu shows of an item: the groups a guest can complete, with
\* the options that are available.
ShownGroups(facts) == {g \in facts.groups : Satisfiable(g)}

Orderable(facts) ==
    /\ facts.visible /\ facts.available
    /\ \A g \in facts.groups : g.min >= 1 => Satisfiable(g)

-----------------------------------------------------------------------------
(* The picker.                                                             *)

\* A group with exactly one choice behaves like radio buttons; otherwise a
\* click toggles, and a click beyond the maximum does nothing.
Toggled(selected, g, o) ==
    IF g.min = 1 /\ g.max = 1 THEN (selected \ g.open) \cup {o}
    ELSE IF o \in selected THEN selected \ {o}
    ELSE IF WithinMax(g, Cardinality(selected \cap g.open) + 1) THEN selected \cup {o}
    ELSE selected

\* Mutant: the minimum of a group is not enforced.
GroupWithoutMinimum(g, selected) == WithinMax(g, Cardinality(selected \cap g.open))

GroupSatisfied(g, selected) ==
    LET count == Cardinality(selected \cap g.open)
    IN  count >= g.min /\ WithinMax(g, count)

UnitPrice(facts, chosen) ==
    FoldSet(LAMBDA o, sum : sum + facts.delta[o], facts.price, chosen)

-----------------------------------------------------------------------------
(* The cart.                                                               *)

Choice == [item : Items, options : SUBSET Options, note : Notes]
Line == [choice : Choice, unit : Nat, quantity : 1 .. MaxQuantity]

EmptyCart == << >>

IsCart(lines) ==
    /\ lines \in Seq(Line)
    /\ Len(lines) <= MaxLines

\* Mutant: merging forgets the bound on the quantity.
Uncapped(m, n) == m

Smaller(m, n) == IF m <= n THEN m ELSE n

\* A line with the same choice absorbs the quantity, up to the bound and at its
\* own price; a new choice is appended unless the cart is full.
SameChoice(lines, line) == {i \in DOMAIN lines : lines[i].choice = line.choice}

CanAdd(lines, line) == SameChoice(lines, line) # {} \/ Len(lines) < MaxLines

AddLine(lines, line) ==
    IF SameChoice(lines, line) # {}
    THEN LET i == CHOOSE j \in SameChoice(lines, line) :
                      \A k \in SameChoice(lines, line) : j <= k
         IN  [lines EXCEPT ![i].quantity = Smaller(@ + line.quantity, MaxQuantity)]
    ELSE IF Len(lines) < MaxLines THEN Append(lines, line) ELSE lines

SetLineQuantity(lines, i, quantity) ==
    IF quantity \in 1 .. MaxQuantity THEN [lines EXCEPT ![i].quantity = quantity] ELSE lines

RemoveLine(lines, i) == RemoveAt(lines, i)

CartTotal(lines) == FoldLeft(LAMBDA sum, l : sum + l.unit * l.quantity, 0, lines)
CartItemCount(lines) == FoldLeft(LAMBDA sum, l : sum + l.quantity, 0, lines)

\* The payload's lines: references and quantities, never prices.
PlacementLines(lines) ==
    [i \in DOMAIN lines |-> [choice |-> lines[i].choice, quantity |-> lines[i].quantity]]

\* What another version of the site left in the browser's storage is dropped.
Parsed(raw) == IF raw = Foreign THEN EmptyCart ELSE raw

-----------------------------------------------------------------------------
(* The server's pricing of a submitted cart.                               *)

OptionsOf(facts) == UNION {g.options : g \in facts.groups}
OpenOptions(facts) == UNION {g.open : g \in facts.groups}

LineProblems(catalog, line) ==
    LET facts == catalog[line.choice.item]
        chosen == line.choice.options
    IN  IF ~facts.visible THEN {"item_unknown"}
        ELSE IF ~facts.available THEN {"item_unavailable"}
        ELSE IF ~Orderable(facts) THEN {"item_not_orderable"}
        ELSE IF ~chosen \subseteq OpenOptions(facts)
             THEN {IF o \in OptionsOf(facts) THEN "option_unavailable" ELSE "option_unknown" :
                      o \in chosen \ OpenOptions(facts)}
        ELSE IF \E g \in facts.groups :
                    LET count == Cardinality(chosen \cap g.options)
                    IN  count < g.min \/ ~WithinMax(g, count)
             THEN {"selection_rule"}
        ELSE {}

PricedTotal(catalog, lines) ==
    FoldLeft(LAMBDA sum, l :
                 sum + UnitPrice(catalog[l.choice.item], l.choice.options) * l.quantity,
             0, lines)

\* Every reason why the cart cannot be ordered; none if it can.
CartProblems(catalog, lines) ==
    LET ofLines == UNION {LineProblems(catalog, lines[i]) : i \in DOMAIN lines}
    IN  IF ofLines = {} /\ PricedTotal(catalog, lines) > MaxTotal
        THEN {"total_bounds"} ELSE ofLines

=============================================================================
