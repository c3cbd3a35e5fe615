----------------------------- MODULE Storefront -----------------------------
(***************************************************************************)
(* The composition versions of one restaurant and the commands on them.    *)
(* Every command takes the Business row FOR UPDATE before it looks at      *)
(* anything and keeps it until it commits, so a command is one step; the   *)
(* flushes inside it are a sequence of tables, each of which must satisfy  *)
(* the constraints of the table.  What is not serialized is the editor: it *)
(* reads the draft, works on it for as long as it likes, and sends the     *)
(* lock_version it read along with its command.                            *)
(***************************************************************************)
EXTENDS Integers, Sequences, FiniteSets, FiniteSetsExt

CONSTANTS Editors,         \* owners and managers, each with one open page
          Configs,         \* storefront compositions
          Variants,        \* structural designs the platform assigns
          DefaultConfig,   \* the registry's initial composition
          DefaultVariant,  \* the design of a first draft
          None,            \* no draft, no config
          LossyNetwork,    \* may an answer get lost?
          MaxRows,         \* bound on the version rows
          MaxLock          \* bound on lock_version

ASSUME StorefrontConstants ==
    /\ DefaultConfig \in Configs
    /\ DefaultVariant \in Variants
    /\ None \notin Configs \cup Variants \cup Editors
    /\ LossyNetwork \in BOOLEAN
    /\ MaxRows \in Nat /\ MaxLock \in Nat

VARIABLES versions,   \* the committed storefront_versions rows, by id
          closed,     \* is the business closed?
          seen,       \* the draft each editor works from
          answer      \* the latest answer to a command

vars == <<versions, closed, seen, answer>>
-----------------------------------------------------------------------------
(* Rows.  A number or a source of 0 is NULL: ids and numbers start at 1.   *)

States == {"draft", "published", "archived"}

Version == [state : States, number : Nat, config : Configs, variant : Variants,
            lock : 0..MaxLock, source : Nat]

RowsIn(state) == {i \in DOMAIN versions : versions[i].state = state}

(* What an editor is shown of the draft; which row it is does not leave    *)
(* the server, and is kept here to state the properties.                   *)
DraftView == [row : Nat, config : Configs, variant : Variants, lock : 0..MaxLock]

Shown(table) ==
    LET drafts == {i \in DOMAIN table : table[i].state = "draft"}
    IN  IF drafts = {} THEN None
        ELSE LET d == CHOOSE i \in drafts : TRUE
             IN  [row |-> d, config |-> table[d].config,
                  variant |-> table[d].variant, lock |-> table[d].lock]

Answers == {"none", "saved", "unchanged", "published", "restored", "assigned",
            "stale", "refused", "constraint"}

(* The answers that carry the draft.                                       *)
DraftAnswers == {"saved", "unchanged", "published", "restored"}

TypeOK ==
    /\ versions \in Seq(Version)
    /\ closed \in BOOLEAN
    /\ seen \in [Editors -> DraftView \cup {None}]
    /\ answer \in [to : Editors \cup {None}, what : Answers]

Init ==
    /\ versions = <<>>
    /\ closed = FALSE
    /\ seen = [u \in Editors |-> None]
    /\ answer = [to |-> None, what |-> "none"]

(* The partial unique indexes and the checks of the table.                 *)
Storable(table) ==
    /\ \A i, j \in DOMAIN table : i # j =>
          /\ table[i].state = table[j].state => table[i].state = "archived"
          /\ table[i].number = table[j].number => table[i].number = 0
    /\ \A i \in DOMAIN table :
          /\ (table[i].state = "draft") <=> (table[i].number = 0)
          /\ table[i].source # i

Tell(u, what) == /\ answer' = [to |-> u, what |-> what]
                 /\ UNCHANGED <<versions, closed>>

(* A transaction given as the tables its flushes produce.                  *)
Transaction(u, flushes, what) ==
    \/ /\ \A i \in DOMAIN flushes : Storable(flushes[i])
       /\ versions' = flushes[Len(flushes)]
       /\ answer' = [to |-> u, what |-> what]
       /\ UNCHANGED closed
    \/ /\ \E i \in DOMAIN flushes : ~Storable(flushes[i])
       /\ Tell(u, "constraint")
-----------------------------------------------------------------------------
(* Statements.                                                             *)

(* Mutant: a first draft is stored before it has a composition.            *)
FirstDraftEmpty(config, variant) ==
    [state |-> "draft", number |-> 0, config |-> None, variant |-> variant,
     lock |-> 0, source |-> 0]

FirstDraft(config, variant) ==
    [state |-> "draft", number |-> 0, config |-> config, variant |-> variant,
     lock |-> 0, source |-> 0]

(* Mutant: numbers are minted by counting rows, drafts included.           *)
NextNumberByRows == Len(versions) + 1

NextNumber == Max({0} \cup {versions[i].number : i \in DOMAIN versions}) + 1

Edited(d, config) ==
    [versions EXCEPT ![d].config = config, ![d].lock = @ + 1]

(* Mutant: the predecessor is left published.                              *)
ArchivedNever(table) == table

Archived(table) ==
    [i \in DOMAIN table |->
        IF table[i].state = "published" THEN [table[i] EXCEPT !.state = "archived"]
                                        ELSE table[i]]

Promoted(table, d, number) ==
    [table EXCEPT ![d].state = "published", ![d].number = number]

(* Mutant: the seeded draft is a copy of the row, provenance included.     *)
SeededAsCopy(table, d) ==
    Append(table, [table[d] EXCEPT !.state = "draft", !.number = 0, !.lock = 0])

Seeded(table, d) ==
    Append(table, [state |-> "draft", number |-> 0, config |-> table[d].config,
                   variant |-> table[d].variant, lock |-> 0, source |-> d])

(* Mutant: the wrong row's lock_version moves.                             *)
RestoredLockingSource(d, s) ==
    [versions EXCEPT ![d].config  = versions[s].config,
                     ![d].variant = versions[s].variant,
                     ![d].source  = s,
                     ![s].lock    = @ + 1]

Restored(d, s) ==
    [versions EXCEPT ![d].config  = versions[s].config,
                     ![d].variant = versions[s].variant,
                     ![d].source  = s,
                     ![d].lock    = @ + 1]

(* Mutant: a design assignment is invisible to the token.                  *)
AssignedQuietly(d, variant) == [versions EXCEPT ![d].variant = variant]

Assigned(d, variant) ==
    [versions EXCEPT ![d].variant = variant, ![d].lock = @ + 1]
-----------------------------------------------------------------------------
(* Commands, as the server runs them.  A token is the expected_lock_version *)
(* of the request, None when it is absent.                                 *)

(* The draft a token still speaks of.                                      *)
Matching(token) == {d \in RowsIn("draft") : versions[d].lock = token}

(* Every write is refused once the business is closed.                     *)
RefuseClosed(u) == closed /\ Tell(u, "refused")

PutDraft(u, token, config) ==
    /\ ~closed
    /\ \/ /\ token = None /\ RowsIn("draft") = {}
          /\ Len(versions) < MaxRows
          /\ Transaction(u, <<Append(versions, FirstDraft(config, DefaultVariant))>>, "saved")
       \/ /\ IF token = None THEN RowsIn("draft") # {} ELSE Matching(token) = {}
          /\ Tell(u, "stale")
       \/ \E d \in Matching(token) :
             \/ /\ versions[d].config = config
                /\ Tell(u, "unchanged")
             \/ /\ versions[d].config # config
                /\ versions[d].lock < MaxLock
                /\ Transaction(u, <<Edited(d, config)>>, "saved")

(* A referenced image that is unknown or has expired refuses the save.     *)
MediaUnavailable(u, token) ==
    /\ ~closed
    /\ \/ token = None /\ RowsIn("draft") = {}
       \/ Matching(token) # {}
    /\ Tell(u, "refused")

Publish(u, token) ==
    /\ ~closed
    /\ \/ /\ Matching(token) = {}
          /\ Tell(u, "stale")
       \/ \E d \in Matching(token) :
             LET archived == Archived(versions)
                 promoted == Promoted(archived, d, NextNumber)
             IN  /\ Len(versions) < MaxRows
                 /\ Transaction(u, <<archived, promoted, Seeded(promoted, d)>>, "published")

RestoreVersion(u, token, s) ==
    /\ ~closed
    /\ versions[s].state = "archived"
    /\ \/ /\ Matching(token) = {}
          /\ Tell(u, "stale")
       \/ \E d \in Matching(token) :
             /\ versions[d].lock < MaxLock
             /\ Transaction(u, <<Restored(d, s)>>, "restored")

(* The platform's command names no lock_version.                           *)
AssignDesign(variant) ==
    /\ ~closed
    /\ \/ /\ RowsIn("draft") = {}
          /\ Len(versions) < MaxRows
          /\ Transaction(None, <<Append(versions, FirstDraft(DefaultConfig, variant))>>, "assigned")
       \/ \E d \in RowsIn("draft") :
             /\ versions[d].variant # variant
             /\ versions[d].lock < MaxLock
             /\ Transaction(None, <<Assigned(d, variant)>>, "assigned")

Close == /\ ~closed
         /\ closed' = TRUE
         /\ UNCHANGED <<versions, answer>>
-----------------------------------------------------------------------------
(* Editors that keep what they read together with its token.               *)
Token(u) == IF seen[u] = None THEN None ELSE seen[u].lock

ReadOverview(u) ==
    /\ seen' = [seen EXCEPT ![u] = Shown(versions)]
    /\ UNCHANGED <<versions, closed, answer>>

EditorCommand(u) ==
    \/ RefuseClosed(u)
    \/ \E config \in Configs : PutDraft(u, Token(u), config)
    \/ MediaUnavailable(u, Token(u))
    \/ seen[u] # None /\ Publish(u, Token(u))
    \/ seen[u] # None /\ \E s \in DOMAIN versions : RestoreVersion(u, Token(u), s)

(* A command that succeeds answers with the draft, if the answer arrives.  *)
Shows(u) ==
    \/ /\ answer'.what \in DraftAnswers
       /\ seen' = [seen EXCEPT ![u] = Shown(versions')]
    \/ /\ answer'.what \in DraftAnswers => LossyNetwork
       /\ UNCHANGED seen

Next ==
    \/ \E u \in Editors : ReadOverview(u) \/ (EditorCommand(u) /\ Shows(u))
    \/ \E variant \in Variants : AssignDesign(variant) /\ UNCHANGED seen
    \/ Close /\ UNCHANGED seen

Spec == Init /\ [][Next]_vars
-----------------------------------------------------------------------------
(* Properties.                                                             *)

(* service_support: under the Business lock the singletons and the numbers *)
(* cannot race, so no command ever dies on a unique index, and every       *)
(* intermediate flush of publish is storable.                              *)
ConstraintsNeverFire == answer.what # "constraint"

(* Numbers are minted at publication and only there: they are 1..n, and    *)
(* the public site serves the highest of them.                             *)
HistoryIsDense ==
    LET numbered == {i \in DOMAIN versions : versions[i].number # 0}
    IN  /\ {versions[i].number : i \in numbered} = 1..Cardinality(numbered)
        /\ \A i \in numbered : versions[i].state = "published"
                                 <=> versions[i].number = Cardinality(numbered)

(* What the workspace says of a draft's origin is true: "started from the  *)
(* published version" while its source is published, and then, as long as  *)
(* nobody touched it, with its very content; "restored from version N"     *)
(* when the source is archived, which takes an effective restore.          *)
ProvenanceHolds ==
    \A d \in RowsIn("draft") : versions[d].source # 0 =>
        LET source == versions[versions[d].source]
        IN  /\ source.state # "draft"
            /\ source.state = "archived" => versions[d].lock > 0
            /\ versions[d].lock = 0 =>
                  /\ versions[d].config = source.config
                  /\ versions[d].variant = source.variant

(* Published and archived rows are never mutated, and nothing is unpublished: *)
(* a row's content is final once it has a number, and what is live stays   *)
(* live until something else is.                                           *)
HistoryIsImmutable ==
    [][/\ \A i \in DOMAIN versions : versions[i].state # "draft" =>
             /\ [versions[i] EXCEPT !.state = "archived"]
                    = [versions'[i] EXCEPT !.state = "archived"]
             /\ versions[i].state = "archived" => versions'[i].state = "archived"
       /\ RowsIn("published") # {} => RowsIn("published")' # {}]_vars

(* The row an editor's accepted write falls on still holds what the editor *)
(* had in front of it.                                                     *)
BasedOn(u, d) == /\ seen[u] # None
                 /\ seen[u].config = versions[d].config
                 /\ seen[u].variant = versions[d].variant

Accepted(u) == versions' # versions /\ answer'.to = u

(* Within the life of one draft the token does its work: whatever saves,   *)
(* restores and assignments come in between, an accepted write of a draft  *)
(* that was read replaces what was read, and an owner publishes what was   *)
(* read.                                                                   *)
StaleWriteRefused ==
    [][\A u \in Editors, d \in RowsIn("draft") :
          Accepted(u) /\ seen[u] # None /\ seen[u].row = d => BasedOn(u, d)]_vars

(* ADR-020: a stale write is a 409 carrying the current value, never a     *)
(* silent overwrite.                                                       *)
NeverASilentOverwrite ==
    [][\A u \in Editors, d \in RowsIn("draft") : Accepted(u) => BasedOn(u, d)]_vars
=============================================================================
