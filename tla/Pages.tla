--------------------------------- MODULE Pages ---------------------------------
(***************************************************************************)
(* A list that is read one page at a time, newest first: the orders of the  *)
(* board, or the audit trail. A page starts below the number of the last    *)
(* entry of the page before it; the pages that are loaded are asked for     *)
(* again one after another, while entries are added and orders change the   *)
(* status that the list is filtered by. One filter, which is not changed.   *)
(***************************************************************************)
EXTENDS Naturals, Sequences, FiniteSets, SequencesExt

CONSTANTS
    PageSize,       \* entries of one answer
    MaxEntries,     \* bound: entries ever numbered
    MaxPageEvents   \* bound: changes of a status, requests that fail

PageConstants == PageSize \in Nat \ {0} /\ MaxEntries \in Nat /\ MaxPageEvents \in Nat

VARIABLES
    stream,         \* "orders" or "audit"
    entries,        \* the rows, by number
    onList,         \* the pages on screen
    reading,        \* the pages of the fetch under way
    pageEvents      \* how much of the bound was used

pageVars == <<stream, entries, onList, reading, pageEvents>>

-----------------------------------------------------------------------------

\* An order is numbered and committed under the lock of the business; an audit
\* row has its number before its transaction commits.
RowStates == {"written", "committed", "rolledBack"}
Entry(state, matches) == [state |-> state, matches |-> matches, steady |-> TRUE]
Numbered == DOMAIN entries
Matching == {n \in Numbered : entries[n].state = "committed" /\ entries[n].matches}

End == 0        \* no further page
Newest == MaxEntries + 1

Descending(numbers) ==
    CHOOSE s \in [1 .. Cardinality(numbers) -> numbers] :
        Range(s) = numbers /\ \A i, k \in DOMAIN s : i < k => s[i] > s[k]

\* Mutant: the entry that the cursor names is on both pages.
PageFrom(cursor) ==
    LET below == Descending({n \in Matching : n <= cursor})
        rows == SubSeq(below, 1, IF Len(below) < PageSize THEN Len(below) ELSE PageSize)
    IN  [rows |-> rows, next |-> IF Len(rows) = PageSize THEN Last(rows) ELSE End]

Page(cursor) ==
    LET below == Descending({n \in Matching : n < cursor})
        rows == SubSeq(below, 1, IF Len(below) < PageSize THEN Len(below) ELSE PageSize)
    IN  [rows |-> rows, next |-> IF Len(rows) = PageSize THEN Last(rows) ELSE End]

\* Since when entries have been on the list of an answer: those that matched
\* when its first page was asked for, and have ever since.
NoPages == [pages |-> << >>, since |-> {}]
Afresh == [pages |-> << >>, since |-> Matching, want |-> IF onList.pages = << >> THEN 1 ELSE Len(onList.pages)]
Idle == [pages |-> << >>, since |-> {}, want |-> 0]
Cursor(list) == IF list.pages = << >> THEN Newest ELSE Last(list.pages).next

Without(list, n) == [list EXCEPT !.since = @ \ {n}]
Happens == pageEvents < MaxPageEvents /\ pageEvents' = pageEvents + 1

PageInit ==
    /\ stream \in {"orders", "audit"}
    /\ \E n \in 0 .. MaxEntries : entries = [i \in 1 .. n |-> Entry("committed", TRUE)]
    /\ onList = NoPages /\ reading = Afresh
    /\ pageEvents = 0

(* The rows. *)
AddEntry ==
    /\ Len(entries) < MaxEntries
    /\ \E matches \in BOOLEAN :
        entries' = Append(entries, Entry(IF stream = "orders" THEN "committed" ELSE "written", matches))
    /\ UNCHANGED <<stream, onList, reading, pageEvents>>

EndTransaction(n) ==
    /\ entries[n].state = "written"
    /\ \E state \in {"committed", "rolledBack"} : entries' = [entries EXCEPT ![n].state = state]
    /\ UNCHANGED <<stream, onList, reading, pageEvents>>

\* A command moves an order into the status the list shows, or out of it.
MoveOrder(n) ==
    /\ stream = "orders" /\ Happens
    /\ entries' = [entries EXCEPT ![n].matches = ~@, ![n].steady = FALSE]
    /\ onList' = Without(onList, n) /\ reading' = Without(reading, n)
    /\ UNCHANGED stream

(* The list. It polls, is refreshed by hand, and is asked for again after a  *)
(* command; an earlier fetch is given up.                                    *)
Refetch ==
    /\ reading' = Afresh
    /\ UNCHANGED <<stream, entries, onList, pageEvents>>

LoadOlder ==
    /\ onList.pages # << >> /\ Cursor(onList) # End
    /\ reading.want <= Len(onList.pages)
    /\ reading' = [pages |-> onList.pages, since |-> onList.since, want |-> Len(onList.pages) + 1]
    /\ UNCHANGED <<stream, entries, onList, pageEvents>>

\* The list is shown when the last page has come.
TakePage ==
    /\ reading.want > 0
    /\ LET got == [reading EXCEPT !.pages = Append(@, Page(Cursor(reading)))] IN
        IF Cursor(got) = End \/ Len(got.pages) = reading.want
        THEN onList' = [pages |-> got.pages, since |-> got.since] /\ reading' = Idle
        ELSE onList' = onList /\ reading' = got
    /\ UNCHANGED <<stream, entries, pageEvents>>

FailPage ==
    /\ reading.want > 0 /\ Happens /\ reading' = Idle
    /\ UNCHANGED <<stream, entries, onList>>

PageNext ==
    \/ AddEntry \/ Refetch \/ LoadOlder \/ TakePage \/ FailPage
    \/ \E n \in Numbered : EndTransaction(n) \/ MoveOrder(n)

-----------------------------------------------------------------------------

PageTypeOK ==
    /\ stream \in {"orders", "audit"}
    /\ entries \in Seq([state : RowStates, matches : BOOLEAN, steady : BOOLEAN])
    /\ Len(entries) <= MaxEntries
    /\ onList.since \subseteq Numbered /\ reading.since \subseteq Numbered
    /\ \A p \in Range(onList.pages \o reading.pages) :
        Len(p.rows) <= PageSize /\ Range(p.rows) \subseteq Numbered /\ p.next \in {End} \cup Numbered
    /\ reading.want \in 0 .. MaxEntries + 1
    /\ pageEvents \in 0 .. MaxPageEvents

OnScreen == FlattenSeq([i \in DOMAIN onList.pages |-> onList.pages[i].rows])
Covered == {n \in Numbered : Cursor(onList) # Newest /\ n >= Cursor(onList)}

(* The pages make one list, though each was read at its own time: no entry   *)
(* is on it twice, their order is that of the numbers, and no entry is lost  *)
(* between two pages or at the end that matched all the time (list_orders,   *)
(* _apply_common_filters). A new order comes before the first page.          *)
PagesAreOneList ==
    /\ \A i, k \in DOMAIN OnScreen : i < k => OnScreen[i] > OnScreen[k]
    /\ onList.since \cap Covered \subseteq Range(OnScreen)
    /\ stream = "orders" /\ OnScreen # << >> =>
        \A n \in Covered : entries[n].steady /\ entries[n].matches /\ n < OnScreen[1] => n \in Range(OnScreen)

=============================================================================
