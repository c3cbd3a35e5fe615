------------------------------- MODULE Query -------------------------------
(***************************************************************************)
(* The control center's cache of server state (TanStack Query, with no      *)
(* retries and nothing ever fresh): a query keeps the last data it was      *)
(* given, and at most one fetch whose answer still counts. A fetch under    *)
(* way carries what the server had when it was asked; its answer may be     *)
(* that, or what the server has when it lands.                              *)
(***************************************************************************)
EXTENDS Naturals

CONSTANT NoData     \* a query that was never answered, a fetch not under way

Queries(D) == [data : D \cup {NoData}, failed : BOOLEAN, flight : D \cup {NoData}]

NotAsked == [data |-> NoData, failed |-> FALSE, flight |-> NoData]

UnderWay(q) == q.flight # NoData

\* A mount, a tick of the polling interval or "Try again": one fetch at a time.
Fetch(q, now) == IF UnderWay(q) THEN q ELSE [q EXCEPT !.flight = now]

\* Mutant: the fetch under way is joined, whatever it will answer.
Joined(q, now) == Fetch(q, now)

\* Invalidation of a query on screen: a fetch under way is abandoned for a new
\* one, except that a first fetch is joined.
Refetch(q, now) == IF q.data = NoData THEN Fetch(q, now) ELSE [q EXCEPT !.flight = now]

\* What may land, and how: a failure leaves the data there was.
Answers(q, now) == {q.flight, now}
Land(q, answer) == [data |-> answer, failed |-> FALSE, flight |-> NoData]
Fail(q) == [q EXCEPT !.failed = TRUE, !.flight = NoData]

\* setQueryData: a fetch under way goes on, and its answer lands later.
Write(q, v) == [q EXCEPT !.data = v, !.failed = FALSE]

Usable(q) == q.data # NoData /\ ~q.failed

=============================================================================
