------------------------------- MODULE Tables -------------------------------
(***************************************************************************)
(* Rows of the database that stand in an order of their own: each has a     *)
(* place, counted from 0. Categories, items, groups and choices do.         *)
(***************************************************************************)
EXTENDS Naturals, FiniteSets, SequencesExt

With(f, x, v) == [y \in DOMAIN f \cup {x} |-> IF y = x THEN v ELSE f[y]]
Merge(old, change) == [k \in DOMAIN old |-> IF k \in DOMAIN change THEN change[k] ELSE old[k]]

\* A row behind the one that went moves up.
CloseGap(row, gap) == IF row.place > gap THEN [row EXCEPT !.place = @ - 1] ELSE row

\* An order names each row once, and its place is where it names it.
Arranges(order, set) == order \in [1 .. Cardinality(set) -> set] /\ ToSet(order) = set
IndexOf(order, x) == CHOOSE n \in DOMAIN order : order[n] = x

\* The places are 0, 1, 2 and so on without a gap.
Dense(table, ids) == {table[x].place : x \in ids} = 0 .. Cardinality(ids) - 1
=============================================================================
