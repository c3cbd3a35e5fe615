-------------------------- MODULE StorefrontProofs --------------------------
(***************************************************************************)
(* Safety of Storefront.tla, and of the draft composer and the sections    *)
(* desk in front of it, for every number of editors, compositions,         *)
(* sections and versions.  The properties of the versions follow from one picture of the table: the              *)
(* rows stand in the order of their numbers, row i has number i, the last  *)
(* row is the draft and the one before it is published (Ranked); every row *)
(* descends from an earlier one (Descent); and what an editor remembers of *)
(* the current draft is exact while the tokens agree (Memory).             *)
(***************************************************************************)
EXTENDS DraftComposer, SectionDesk, DataFacts, SequenceTheorems, FiniteSetTheorems, TLAPS

Ranked(table) ==
    \A i \in DOMAIN table :
        IF i = Len(table)
        THEN table[i].state = "draft" /\ table[i].number = 0
        ELSE /\ table[i].number = i
             /\ table[i].state = IF i + 1 = Len(table) THEN "published" ELSE "archived"

Descent(table) ==
    \A i \in DOMAIN table :
        /\ table[i].source \in 0..(i - 1)
        /\ i = Len(table) /\ table[i].source # 0 =>
              /\ table[i].source + 1 < i => table[i].lock > 0
              /\ table[i].lock = 0 =>
                    /\ table[i].config = table[table[i].source].config
                    /\ table[i].variant = table[table[i].source].variant

GoodTable(table) == table \in Seq(Version) /\ Ranked(table) /\ Descent(table)

Memory ==
    \A u \in Editors : seen[u] # None =>
        /\ seen[u].row \in 1..Len(versions)
        /\ seen[u].row = Len(versions) =>
              /\ seen[u].lock <= versions[Len(versions)].lock
              /\ seen[u].lock = versions[Len(versions)].lock => BasedOn(u, Len(versions))

Safe == /\ TypeOK
        /\ GoodTable(versions)
        /\ Memory
        /\ ConstraintsNeverFire
-----------------------------------------------------------------------------
(* What the picture says of the operators.                                 *)

LEMMA SeqFacts ==
    ASSUME NEW table \in Seq(Version)
    PROVE  /\ Len(table) \in Nat
           /\ DOMAIN table = 1..Len(table)
           /\ \A i \in 1..Len(table) : table[i] \in Version
           /\ table # <<>> <=> Len(table) > 0
<1>1. /\ Len(table) \in Nat
      /\ DOMAIN table = 1..Len(table)
      /\ \A i \in 1..Len(table) : table[i] \in Version
  BY LenProperties, ElementOfSeq
<1>2. table # <<>> => Len(table) \in Nat \ {0}
  BY EmptySeq
<1>3. table = <<>> => Len(table) = 0
  BY EmptySeq
<1> QED
  BY <1>1, <1>2, <1>3

LEMMA GoodIsStorable ==
    ASSUME NEW table, GoodTable(table)
    PROVE  Storable(table)
<1>1. /\ Len(table) \in Nat
      /\ DOMAIN table = 1..Len(table)
  BY SeqFacts DEF GoodTable
<1>2. ASSUME NEW i \in DOMAIN table, NEW j \in DOMAIN table, i # j
      PROVE  /\ table[i].state = table[j].state => table[i].state = "archived"
             /\ table[i].number = table[j].number => table[i].number = 0
  BY <1>1, <1>2 DEF GoodTable, Ranked
<1>3. ASSUME NEW i \in DOMAIN table
      PROVE  /\ (table[i].state = "draft") <=> (table[i].number = 0)
             /\ table[i].source # i
  BY <1>1 DEF GoodTable, Ranked, Descent
<1> QED
  BY <1>2, <1>3 DEF Storable

LEMMA TheDraft ==
    ASSUME NEW table, GoodTable(table)
    PROVE  {i \in DOMAIN table : table[i].state = "draft"}
               = IF table = <<>> THEN {} ELSE {Len(table)}
<1>1. /\ Len(table) \in Nat
      /\ DOMAIN table = 1..Len(table)
      /\ table # <<>> <=> Len(table) > 0
  BY SeqFacts DEF GoodTable
<1> QED
  BY <1>1 DEF GoodTable, Ranked

LEMMA ShowsTheDraft ==
    ASSUME NEW table, GoodTable(table)
    PROVE  Shown(table) = IF table = <<>> THEN None
                          ELSE [row |-> Len(table), config |-> table[Len(table)].config,
                                variant |-> table[Len(table)].variant,
                                lock |-> table[Len(table)].lock]
  BY TheDraft DEF Shown

LEMMA MaxOfInterval ==
    ASSUME NEW n \in Nat, n > 0
    PROVE  Max(0..(n - 1)) = n - 1
<1>1. n - 1 \in 0..(n - 1) /\ \A y \in 0..(n - 1) : n - 1 >= y
  OBVIOUS
<1>2. ASSUME NEW x \in 0..(n - 1), \A y \in 0..(n - 1) : x >= y
      PROVE  x = n - 1
  BY <1>1, <1>2
<1> QED
  BY <1>1, <1>2 DEF Max

LEMMA NumbersSoFar ==
    ASSUME GoodTable(versions), versions # <<>>
    PROVE  /\ NextNumber = Len(versions)
           /\ {i \in DOMAIN versions : versions[i].number # 0} = 1..(Len(versions) - 1)
           /\ {versions[i].number : i \in 1..(Len(versions) - 1)} = 1..(Len(versions) - 1)
<1> SUFFICES ASSUME NEW n \in Nat, n > 0, n = Len(versions), DOMAIN versions = 1..n
             PROVE  /\ NextNumber = n
                    /\ {i \in 1..n : versions[i].number # 0} = 1..(n - 1)
                    /\ {versions[i].number : i \in 1..(n - 1)} = 1..(n - 1)
  BY SeqFacts DEF GoodTable
<1>1. \A i \in 1..n : versions[i].number = IF i = n THEN 0 ELSE i
  BY DEF GoodTable, Ranked
<1>2. {0} \cup {versions[i].number : i \in 1..n} = 0..(n - 1)
  <2>1. ASSUME NEW k \in 0..(n - 1), k # 0
        PROVE  k \in {versions[i].number : i \in 1..n}
    <3>1. k \in 1..n /\ k # n
      BY <2>1
    <3>2. versions[k].number = k
      BY <1>1, <3>1
    <3> QED
      BY <3>1, <3>2
  <2>2. ASSUME NEW i \in 1..n
        PROVE  versions[i].number \in 0..(n - 1)
    BY <1>1
  <2> QED
    BY <2>1, <2>2
<1>3. NextNumber = n
  <2>1. NextNumber = Max({0} \cup {versions[i].number : i \in 1..n}) + 1
    BY DEF NextNumber
  <2>2. NextNumber = Max(0..(n - 1)) + 1
    BY <1>2, <2>1
  <2>3. Max(0..(n - 1)) = n - 1
    BY MaxOfInterval
  <2> QED
    BY <2>2, <2>3
<1>4. {i \in 1..n : versions[i].number # 0} = 1..(n - 1)
  BY <1>1
<1>5. {versions[i].number : i \in 1..(n - 1)} = 1..(n - 1)
  <2>1. \A i \in 1..(n - 1) : versions[i].number = i
    BY <1>1
  <2> QED
    BY <2>1
<1> QED
  BY <1>3, <1>4, <1>5
-----------------------------------------------------------------------------
(* The tables the commands leave behind.                                   *)

Row(state, number, config, variant, lock, source) ==
    [state |-> state, number |-> number, config |-> config,
     variant |-> variant, lock |-> lock, source |-> source]

(* A draft whose token moved on, in place of the draft.                    *)
Touched(table, row) ==
    /\ table # <<>>
    /\ row \in Version
    /\ row.state = "draft"
    /\ row.number = 0
    /\ row.lock = table[Len(table)].lock + 1
    /\ row.source \in 0..(Len(table) - 1)

LEMMA FirstDraftIsGood ==
    ASSUME versions \in Seq(Version), versions = <<>>,
           NEW config \in Configs, NEW variant \in Variants
    PROVE  GoodTable(Append(versions, FirstDraft(config, variant)))
<1> DEFINE first == FirstDraft(config, variant)
           table == Append(versions, first)
<1>1. first \in Version /\ first.state = "draft" /\ first.number = 0 /\ first.source = 0
  BY StorefrontConstants DEF FirstDraft, Version, States
<1>2. /\ table \in Seq(Version)
      /\ Len(table) = 1
      /\ table[1] = first
  BY <1>1, AppendProperties, EmptySeq
<1>3. DOMAIN table = 1..1
  BY <1>2, SeqFacts
<1> QED
  BY <1>1, <1>2, <1>3 DEF GoodTable, Ranked, Descent

LEMMA TouchedIsGood ==
    ASSUME GoodTable(versions), NEW row, Touched(versions, row)
    PROVE  LET table == [versions EXCEPT ![Len(versions)] = row]
           IN  /\ GoodTable(table)
               /\ Len(table) = Len(versions)
               /\ table[Len(versions)] = row
               /\ \A i \in 1..(Len(versions) - 1) : table[i] = versions[i]
<1> DEFINE table == [versions EXCEPT ![Len(versions)] = row]
<1>1. /\ Len(versions) \in Nat
      /\ Len(versions) > 0
      /\ \A i \in 1..Len(versions) : versions[i] \in Version
  BY SeqFacts DEF GoodTable, Touched
<1>2. /\ table \in Seq(Version)
      /\ Len(table) = Len(versions)
      /\ \A i \in 1..Len(versions) : table[i] = IF i = Len(versions) THEN row ELSE versions[i]
  BY <1>1, ExceptSeq DEF GoodTable, Touched
<1>3. DOMAIN table = 1..Len(versions) /\ DOMAIN versions = 1..Len(versions)
  BY <1>2, SeqFacts DEF GoodTable
<1> HIDE DEF table
<1>4. Ranked(table)
  BY <1>1, <1>2, <1>3 DEF GoodTable, Ranked, Touched
<1>5. row.lock > 0
  BY <1>1 DEF Touched, Version
<1>6. Descent(table)
  <2> SUFFICES ASSUME NEW n \in Nat, n > 0, n = Len(versions), n = Len(table),
                      DOMAIN table = 1..n, DOMAIN versions = 1..n
               PROVE  Descent(table)
    BY <1>1, <1>2, <1>3
  <2>1. ASSUME NEW i \in 1..n, i # n
        PROVE  table[i].source \in 0..(i - 1)
    <3>1. table[i] = versions[i]
      BY <1>2, <2>1
    <3>2. versions[i].source \in 0..(i - 1)
      BY DEF GoodTable, Descent
    <3> QED
      BY <3>1, <3>2
  <2>2. /\ table[n].source \in 0..(n - 1)
        /\ table[n].lock > 0
        /\ table[n].lock # 0
    <3>1. table[n] = row
      BY <1>2
    <3> QED
      BY <1>5, <3>1 DEF Touched
  <2> QED
    BY <2>1, <2>2 DEF Descent
<1>7. /\ GoodTable(table)
      /\ Len(table) = Len(versions)
      /\ table[Len(versions)] = row
      /\ \A i \in 1..(Len(versions) - 1) : table[i] = versions[i]
  BY <1>1, <1>2, <1>4, <1>6 DEF GoodTable
<1> QED
  BY <1>7 DEF table

(* Which rows the three commands that edit the draft put in its place.     *)
LEMMA EditsTouch ==
    ASSUME GoodTable(versions), versions # <<>>, versions[Len(versions)].lock < MaxLock
    PROVE  LET n == Len(versions)
               d == versions[Len(versions)]
           IN  /\ \A config \in Configs :
                     LET row == Row("draft", 0, config, d.variant, d.lock + 1, d.source)
                     IN  /\ Touched(versions, row)
                         /\ Edited(n, config) = [versions EXCEPT ![n] = row]
               /\ \A variant \in Variants :
                     LET row == Row("draft", 0, d.config, variant, d.lock + 1, d.source)
                     IN  /\ Touched(versions, row)
                         /\ Assigned(n, variant) = [versions EXCEPT ![n] = row]
               /\ \A s \in 1..(n - 1) :
                     LET row == Row("draft", 0, versions[s].config, versions[s].variant, d.lock + 1, s)
                     IN  /\ Touched(versions, row)
                         /\ Restored(n, s) = [versions EXCEPT ![n] = row]
<1> SUFFICES ASSUME NEW n \in Nat, n = Len(versions), n > 0, DOMAIN versions = 1..n,
                    NEW d \in Version, d = versions[n], d.lock < MaxLock,
                    \A i \in 1..n : versions[i] \in Version
             PROVE  /\ \A config \in Configs :
                         LET row == Row("draft", 0, config, d.variant, d.lock + 1, d.source)
                         IN  /\ Touched(versions, row)
                             /\ Edited(n, config) = [versions EXCEPT ![n] = row]
                    /\ \A variant \in Variants :
                         LET row == Row("draft", 0, d.config, variant, d.lock + 1, d.source)
                         IN  /\ Touched(versions, row)
                             /\ Assigned(n, variant) = [versions EXCEPT ![n] = row]
                    /\ \A s \in 1..(n - 1) :
                         LET row == Row("draft", 0, versions[s].config, versions[s].variant, d.lock + 1, s)
                         IN  /\ Touched(versions, row)
                             /\ Restored(n, s) = [versions EXCEPT ![n] = row]
  BY SeqFacts DEF GoodTable
<1>1. /\ d.state = "draft" /\ d.number = 0
      /\ d.source \in 0..(n - 1)
      /\ d.lock + 1 \in 0..MaxLock
  BY StorefrontConstants DEF GoodTable, Ranked, Descent, Version
<1>2. ASSUME NEW config \in Configs, NEW variant \in Variants, NEW source \in 0..(n - 1)
      PROVE  Touched(versions, Row("draft", 0, config, variant, d.lock + 1, source))
  BY <1>1 DEF Touched, Row, Version, States
<1>3. d = Row("draft", 0, d.config, d.variant, d.lock, d.source)
  BY <1>1 DEF Version, Row
<1>4. ASSUME NEW config \in Configs
      PROVE  Edited(n, config)
               = [versions EXCEPT ![n] = Row("draft", 0, config, d.variant, d.lock + 1, d.source)]
  <2>1. Edited(n, config) = [[versions EXCEPT ![n].config = config] EXCEPT ![n].lock = d.lock + 1]
    BY DEF Edited
  <2>2. Edited(n, config) = [versions EXCEPT ![n] = [[d EXCEPT !.config = config]
                                                          EXCEPT !.lock = d.lock + 1]]
    BY <2>1
  <2>3. [d EXCEPT !.config = config] = Row("draft", 0, config, d.variant, d.lock, d.source)
    BY <1>3 DEF Row
  <2>4. [Row("draft", 0, config, d.variant, d.lock, d.source) EXCEPT !.lock = d.lock + 1]
           = Row("draft", 0, config, d.variant, d.lock + 1, d.source)
    BY DEF Row
  <2> QED
    BY <2>2, <2>3, <2>4
<1>5. ASSUME NEW variant \in Variants
      PROVE  Assigned(n, variant)
               = [versions EXCEPT ![n] = Row("draft", 0, d.config, variant, d.lock + 1, d.source)]
  <2>1. Assigned(n, variant) = [[versions EXCEPT ![n].variant = variant] EXCEPT ![n].lock = d.lock + 1]
    BY DEF Assigned
  <2>2. Assigned(n, variant) = [versions EXCEPT ![n] = [[d EXCEPT !.variant = variant]
                                                            EXCEPT !.lock = d.lock + 1]]
    BY <2>1
  <2>3. [d EXCEPT !.variant = variant] = Row("draft", 0, d.config, variant, d.lock, d.source)
    BY <1>3 DEF Row
  <2>4. [Row("draft", 0, d.config, variant, d.lock, d.source) EXCEPT !.lock = d.lock + 1]
           = Row("draft", 0, d.config, variant, d.lock + 1, d.source)
    BY DEF Row
  <2> QED
    BY <2>2, <2>3, <2>4
<1>6. ASSUME NEW s \in 1..(n - 1)
      PROVE  Restored(n, s)
               = [versions EXCEPT ![n] = Row("draft", 0, versions[s].config, versions[s].variant,
                                             d.lock + 1, s)]
  <2> DEFINE c == versions[s].config
             v == versions[s].variant
  <2>1. Restored(n, s) = [[[[versions EXCEPT ![n].config = c] EXCEPT ![n].variant = v]
                                EXCEPT ![n].source = s] EXCEPT ![n].lock = d.lock + 1]
    BY DEF Restored
  <2> HIDE DEF c, v
  <2>2. Restored(n, s) = [versions EXCEPT ![n] = [[[[d EXCEPT !.config = c] EXCEPT !.variant = v]
                                                       EXCEPT !.source = s] EXCEPT !.lock = d.lock + 1]]
    BY <2>1
  <2>3. [d EXCEPT !.config = c] = Row("draft", 0, c, d.variant, d.lock, d.source)
    BY <1>3 DEF Row
  <2>4. [Row("draft", 0, c, d.variant, d.lock, d.source) EXCEPT !.variant = v]
           = Row("draft", 0, c, v, d.lock, d.source)
    BY DEF Row
  <2>5. [Row("draft", 0, c, v, d.lock, d.source) EXCEPT !.source = s]
           = Row("draft", 0, c, v, d.lock, s)
    BY DEF Row
  <2>6. [Row("draft", 0, c, v, d.lock, s) EXCEPT !.lock = d.lock + 1]
           = Row("draft", 0, c, v, d.lock + 1, s)
    BY DEF Row
  <2>7. [[d EXCEPT !.config = c] EXCEPT !.variant = v] = Row("draft", 0, c, v, d.lock, d.source)
    BY <2>3, <2>4
  <2>8. [[[d EXCEPT !.config = c] EXCEPT !.variant = v] EXCEPT !.source = s]
           = Row("draft", 0, c, v, d.lock, s)
    BY <2>5, <2>7
  <2>9. [[[[d EXCEPT !.config = c] EXCEPT !.variant = v] EXCEPT !.source = s]
             EXCEPT !.lock = d.lock + 1]
           = Row("draft", 0, c, v, d.lock + 1, s)
    BY <2>6, <2>8
  <2>10. Restored(n, s) = [versions EXCEPT ![n] = Row("draft", 0, c, v, d.lock + 1, s)]
    BY <2>2, <2>9
  <2> QED
    BY <2>10 DEF c, v
<1>7. \A s \in 1..(n - 1) : versions[s].config \in Configs /\ versions[s].variant \in Variants
  BY DEF Version
<1>8. d.config \in Configs /\ d.variant \in Variants
  BY DEF Version
<1> QED
  BY <1>1, <1>2, <1>4, <1>5, <1>6, <1>7, <1>8

(* A publication archives what is live, makes the draft the highest number *)
(* and seeds its successor; each of the three flushes can be stored.       *)
SameContent(r, s) == /\ r.config = s.config /\ r.variant = s.variant
                     /\ r.lock = s.lock /\ r.source = s.source

LEMMA SameButState ==
    ASSUME NEW r \in Version, NEW s \in Version, SameContent(s, r), r.number = s.number
    PROVE  [r EXCEPT !.state = "archived"] = [s EXCEPT !.state = "archived"]
<1>1. ASSUME NEW v \in Version
      PROVE  [v EXCEPT !.state = "archived"]
               = Row("archived", v.number, v.config, v.variant, v.lock, v.source)
  BY DEF Version, Row
<1> QED
  BY <1>1 DEF SameContent

LEMMA ArchivedRows ==
    ASSUME GoodTable(versions), versions # <<>>,
           NEW n \in Nat, n = Len(versions), DOMAIN versions = 1..n
    PROVE  /\ Archived(versions) \in Seq(Version)
           /\ Len(Archived(versions)) = n
           /\ Archived(versions)[n] = versions[n]
           /\ \A i \in 1..(n - 1) :
                 /\ Archived(versions)[i].state = "archived"
                 /\ Archived(versions)[i].number = i
                 /\ SameContent(Archived(versions)[i], versions[i])
<1> DEFINE archived == Archived(versions)
<1>1. n > 0 /\ \A i \in 1..n : versions[i] \in Version
  BY SeqFacts DEF GoodTable
<1>2. ASSUME NEW i \in 1..n
      PROVE  /\ [versions[i] EXCEPT !.state = "archived"] \in Version
             /\ [versions[i] EXCEPT !.state = "archived"].state = "archived"
             /\ [versions[i] EXCEPT !.state = "archived"].number = versions[i].number
             /\ SameContent([versions[i] EXCEPT !.state = "archived"], versions[i])
  BY <1>1 DEF Version, States, SameContent
<1>3. archived = [i \in 1..n |-> IF versions[i].state = "published"
                                 THEN [versions[i] EXCEPT !.state = "archived"]
                                 ELSE versions[i]]
  BY DEF Archived
<1>4. archived \in [1..n -> Version]
  BY <1>1, <1>2, <1>3
<1>5. archived \in Seq(Version) /\ Len(archived) = n
  <2>1. archived \in Seq(Version)
    BY <1>4, SeqDef
  <2>2. DOMAIN archived = 1..n /\ DOMAIN archived = 1..Len(archived) /\ Len(archived) \in Nat
    BY <1>4, <2>1, SeqFacts
  <2> QED
    BY <2>1, <2>2
<1>6. archived[n] = versions[n]
  <2>1. versions[n].state = "draft"
    BY <1>1 DEF GoodTable, Ranked
  <2> QED
    BY <1>1, <1>3, <2>1
<1>7. ASSUME NEW i \in 1..(n - 1)
      PROVE  /\ archived[i].state = "archived"
             /\ archived[i].number = i
             /\ SameContent(archived[i], versions[i])
  <2>1. versions[i].number = i /\ versions[i].state \in {"published", "archived"}
    BY DEF GoodTable, Ranked
  <2>2. CASE versions[i].state = "published"
    <3>1. archived[i] = [versions[i] EXCEPT !.state = "archived"]
      BY <1>3, <2>2
    <3> QED
      BY <1>2, <2>1, <3>1
  <2>3. CASE versions[i].state = "archived"
    <3>1. archived[i] = versions[i]
      BY <1>3, <2>3
    <3> QED
      BY <2>1, <2>3, <3>1 DEF SameContent
  <2> QED
    BY <2>1, <2>2, <2>3
<1> QED
  BY <1>5, <1>6, <1>7

LEMMA PublishedRows ==
    ASSUME GoodTable(versions), versions # <<>>
    PROVE  LET n        == Len(versions)
               archived == Archived(versions)
               promoted == Promoted(archived, n, NextNumber)
               seeded   == Seeded(promoted, n)
           IN  /\ Storable(archived) /\ Storable(promoted) /\ GoodTable(seeded)
               /\ Len(seeded) = n + 1
               /\ \A i \in 1..n :
                     /\ SameContent(seeded[i], versions[i])
                     /\ seeded[i].number = i
                     /\ seeded[i].state = IF i = n THEN "published" ELSE "archived"
<1> SUFFICES ASSUME NEW n \in Nat, n = Len(versions), DOMAIN versions = 1..n,
                    NEW archived, archived = Archived(versions),
                    NEW promoted, promoted = Promoted(archived, n, NextNumber),
                    NEW seeded, seeded = Seeded(promoted, n)
             PROVE  /\ Storable(archived) /\ Storable(promoted) /\ GoodTable(seeded)
                    /\ Len(seeded) = n + 1
                    /\ \A i \in 1..n :
                          /\ SameContent(seeded[i], versions[i])
                          /\ seeded[i].number = i
                          /\ seeded[i].state = IF i = n THEN "published" ELSE "archived"
  BY SeqFacts DEF GoodTable
<1>1. /\ n > 0
      /\ \A i \in 1..n : versions[i] \in Version
      /\ versions[n].state = "draft" /\ versions[n].number = 0
  BY SeqFacts DEF GoodTable, Ranked
<1>2. /\ archived \in Seq(Version)
      /\ Len(archived) = n
      /\ DOMAIN archived = 1..n
      /\ archived[n] = versions[n]
      /\ \A i \in 1..(n - 1) : /\ archived[i].state = "archived"
                               /\ archived[i].number = i
                               /\ SameContent(archived[i], versions[i])
  BY ArchivedRows, SeqFacts
<1>3. \A i \in 1..n : versions[i].source \in 0..(i - 1)
  BY DEF GoodTable, Descent
<1> DEFINE promotedRow == Row("published", n, versions[n].config, versions[n].variant,
                       versions[n].lock, versions[n].source)
           next == Row("draft", 0, versions[n].config, versions[n].variant, 0, n)
<1>4. promotedRow \in Version /\ next \in Version
  BY <1>1, StorefrontConstants DEF Version, States, Row
<1>5. promoted = [archived EXCEPT ![n] = promotedRow]
  <2>1. promoted = [[archived EXCEPT ![n].state = "published"] EXCEPT ![n].number = n]
    BY NumbersSoFar DEF Promoted
  <2>2. promoted = [archived EXCEPT ![n] = [[versions[n] EXCEPT !.state = "published"]
                                                EXCEPT !.number = n]]
    BY <1>1, <1>2, <2>1
  <2>3. [versions[n] EXCEPT !.state = "published"]
          = Row("published", 0, versions[n].config, versions[n].variant,
                versions[n].lock, versions[n].source)
    BY <1>1 DEF Version, Row
  <2>4. [Row("published", 0, versions[n].config, versions[n].variant,
             versions[n].lock, versions[n].source) EXCEPT !.number = n] = promotedRow
    BY DEF Row
  <2> QED
    BY <2>2, <2>3, <2>4
<1>6. /\ promoted \in Seq(Version)
      /\ Len(promoted) = n
      /\ DOMAIN promoted = 1..n
      /\ \A i \in 1..n : promoted[i] = IF i = n THEN promotedRow ELSE archived[i]
  <2>1. n \in 1..Len(archived)
    BY <1>1, <1>2
  <2>2. /\ promoted \in Seq(Version)
        /\ Len(promoted) = n
        /\ \A i \in 1..n : promoted[i] = IF i = n THEN promotedRow ELSE archived[i]
    BY <1>2, <1>4, <1>5, <2>1, ExceptSeq
  <2> QED
    BY <2>2, SeqFacts
<1>7. /\ promotedRow.state = "published" /\ promotedRow.number = n
      /\ promotedRow.source = versions[n].source /\ SameContent(promotedRow, versions[n])
      /\ next.state = "draft" /\ next.number = 0 /\ next.source = n /\ next.lock = 0
      /\ next.config = promotedRow.config /\ next.variant = promotedRow.variant
  BY DEF Row, SameContent
<1> HIDE DEF promotedRow, next
<1>8. /\ seeded \in Seq(Version)
      /\ Len(seeded) = n + 1
      /\ DOMAIN seeded = 1..(n + 1)
      /\ \A i \in 1..n : seeded[i] = promoted[i]
      /\ seeded[n + 1] = next
  <2>1. promoted[n] = promotedRow
    BY <1>1, <1>6
  <2>2. seeded = Append(promoted, next)
    BY <2>1 DEF Seeded, promotedRow, next, Row
  <2> QED
    BY <1>4, <1>6, <2>2, AppendProperties, SeqFacts
<1>9. \A i \in 1..(n - 1) : archived[i].source \in 0..(i - 1)
  <2>1. \A i \in 1..(n - 1) : i \in 1..n
    OBVIOUS
  <2>2. \A i \in 1..(n - 1) : archived[i].source = versions[i].source
    BY <1>2 DEF SameContent
  <2> QED
    BY <1>3, <2>1, <2>2
<1>10. Storable(archived)
  <2>1. ASSUME NEW i \in 1..n
        PROVE  /\ archived[i].number = IF i = n THEN 0 ELSE i
               /\ archived[i].state = IF i = n THEN "draft" ELSE "archived"
               /\ archived[i].source \in 0..(i - 1)
    <3>1. CASE i = n
      BY <1>1, <1>2, <1>3, <3>1
    <3>2. CASE i # n
      BY <1>2, <1>9, <3>2
    <3> QED
      BY <3>1, <3>2
  <2>2. ASSUME NEW i \in 1..n, NEW j \in 1..n, i # j
        PROVE  /\ archived[i].state = archived[j].state => archived[i].state = "archived"
               /\ archived[i].number = archived[j].number => archived[i].number = 0
    BY <2>1, <2>2
  <2>3. ASSUME NEW i \in 1..n
        PROVE  /\ (archived[i].state = "draft") <=> (archived[i].number = 0)
               /\ archived[i].source # i
    BY <2>1
  <2> QED
    BY <1>2, <2>2, <2>3 DEF Storable
<1>11. \A i \in 1..n : /\ promoted[i].number = i
                       /\ promoted[i].state = IF i = n THEN "published" ELSE "archived"
                       /\ promoted[i].source \in 0..(i - 1)
                       /\ SameContent(promoted[i], versions[i])
  <2>1. ASSUME NEW i \in 1..n
        PROVE  /\ promoted[i].number = i
               /\ promoted[i].state = IF i = n THEN "published" ELSE "archived"
               /\ promoted[i].source \in 0..(i - 1)
               /\ SameContent(promoted[i], versions[i])
    <3>1. CASE i = n
      <4>1. promoted[i] = promotedRow /\ versions[i].source \in 0..(i - 1)
        BY <1>3, <1>6, <3>1
      <4> QED
        BY <1>7, <3>1, <4>1
    <3>2. CASE i # n
      <4>1. i \in 1..(n - 1) /\ promoted[i] = archived[i]
        BY <1>6, <3>2
      <4> QED
        BY <1>2, <1>9, <3>2, <4>1
    <3> QED
      BY <3>1, <3>2
  <2> QED
    BY <2>1
<1>12. Storable(promoted)
  BY <1>6, <1>11 DEF Storable
<1>13. Ranked(seeded)
  BY <1>7, <1>8, <1>11 DEF Ranked
<1>14. Descent(seeded)
  <2>1. ASSUME NEW i \in 1..n
        PROVE  seeded[i].source \in 0..(i - 1) /\ i # n + 1
    BY <1>8, <1>11
  <2>2. /\ seeded[n + 1].source = n
        /\ seeded[n + 1].config = seeded[seeded[n + 1].source].config
        /\ seeded[n + 1].variant = seeded[seeded[n + 1].source].variant
    BY <1>1, <1>6, <1>7, <1>8
  <2>3. /\ seeded[n + 1].source = n
        /\ n \in 0..((n + 1) - 1) /\ ~(n + 1 < n + 1)
    BY <1>7, <1>8
  <2> DEFINE Springs(i) ==
        /\ seeded[i].source \in 0..(i - 1)
        /\ i = n + 1 /\ seeded[i].source # 0 =>
              /\ seeded[i].source + 1 < i => seeded[i].lock > 0
              /\ seeded[i].lock = 0 =>
                    /\ seeded[i].config = seeded[seeded[i].source].config
                    /\ seeded[i].variant = seeded[seeded[i].source].variant
  <2>4. ASSUME NEW i \in 1..n
        PROVE  Springs(i)
    BY <2>1
  <2>5. Springs(n + 1)
    BY <2>2, <2>3
  <2>6. \A i \in 1..(n + 1) : Springs(i)
    BY <2>4, <2>5
  <2> QED
    BY <1>8, <2>6 DEF Descent
<1> QED
  BY <1>8, <1>10, <1>11, <1>12, <1>13, <1>14 DEF GoodTable
-----------------------------------------------------------------------------
(* What a step does to the table: it stores a first draft, replaces the    *)
(* draft by a touched one, publishes, or leaves the table alone.           *)

Created == /\ versions = <<>>
           /\ \E config \in Configs, variant \in Variants :
                 versions' = Append(versions, FirstDraft(config, variant))

Changed == \E row : /\ Touched(versions, row)
                    /\ versions' = [versions EXCEPT ![Len(versions)] = row]

Published ==
    LET archived == Archived(versions)
        promoted == Promoted(archived, Len(versions), NextNumber)
    IN  /\ versions # <<>>
        /\ versions' = Seeded(promoted, Len(versions))

TableStep == Created \/ Changed \/ Published \/ UNCHANGED versions

(* The draft of the table, if there is one, carries this token.            *)
Agrees(token) == versions # <<>> => versions[Len(versions)].lock = token

LEMMA DraftsOfTheTable ==
    ASSUME GoodTable(versions), NEW token
    PROVE  /\ RowsIn("draft") = IF versions = <<>> THEN {} ELSE {Len(versions)}
           /\ \A d \in Matching(token) :
                 d = Len(versions) /\ versions # <<>> /\ Agrees(token)
           /\ \A d \in RowsIn("draft") : d = Len(versions) /\ versions # <<>>
  BY TheDraft DEF RowsIn, Matching, Agrees

(* A transaction all of whose tables can be stored commits the last one.   *)
LEMMA OneFlush ==
    ASSUME NEW u, NEW table, NEW what, Storable(table), Transaction(u, <<table>>, what)
    PROVE  versions' = table /\ answer' = [to |-> u, what |-> what] /\ UNCHANGED closed
  BY DEF Transaction

LEMMA ThreeFlushes ==
    ASSUME NEW u, NEW t1, NEW t2, NEW t3, NEW what, Storable(t1), Storable(t2), Storable(t3),
           Transaction(u, <<t1, t2, t3>>, what)
    PROVE  versions' = t3 /\ answer' = [to |-> u, what |-> what] /\ UNCHANGED closed
  BY DEF Transaction

LEMMA CreateCommits ==
    ASSUME GoodTable(versions), versions = <<>>, NEW config \in Configs, NEW variant \in Variants,
           NEW u, NEW what, Transaction(u, <<Append(versions, FirstDraft(config, variant))>>, what)
    PROVE  Created /\ answer' = [to |-> u, what |-> what] /\ UNCHANGED closed
<1>1. Storable(Append(versions, FirstDraft(config, variant)))
  BY FirstDraftIsGood, GoodIsStorable DEF GoodTable
<1> QED
  BY <1>1, OneFlush DEF Created

LEMMA ChangeCommits ==
    ASSUME GoodTable(versions), NEW row, Touched(versions, row),
           NEW table, table = [versions EXCEPT ![Len(versions)] = row],
           NEW u, NEW what, Transaction(u, <<table>>, what)
    PROVE  Changed /\ answer' = [to |-> u, what |-> what] /\ UNCHANGED closed
<1>1. Storable(table)
  BY TouchedIsGood, GoodIsStorable
<1>2. versions' = table /\ answer' = [to |-> u, what |-> what] /\ UNCHANGED closed
  BY <1>1, OneFlush
<1>3. Changed
  BY <1>2 DEF Changed
<1> QED
  BY <1>2, <1>3

LEMMA PublishCommits ==
    ASSUME GoodTable(versions), versions # <<>>, NEW u, NEW what,
           NEW archived, archived = Archived(versions),
           NEW promoted, promoted = Promoted(archived, Len(versions), NextNumber),
           Transaction(u, <<archived, promoted, Seeded(promoted, Len(versions))>>, what)
    PROVE  Published /\ answer' = [to |-> u, what |-> what] /\ UNCHANGED closed
<1>1. Storable(archived) /\ Storable(promoted) /\ GoodTable(Seeded(promoted, Len(versions)))
  BY PublishedRows
<1>2. Storable(Seeded(promoted, Len(versions)))
  BY <1>1, GoodIsStorable
<1> QED
  BY <1>1, <1>2, ThreeFlushes DEF Published

(* What a command does: a table step that, if it changes the table, is one *)
(* the token agrees with.                                                  *)
Served(u, token) ==
    /\ TableStep
    /\ closed' = closed
    /\ answer' \in [to : {u}, what : Answers \ {"constraint"}]
    /\ versions' # versions => Agrees(token)

LEMMA TellServes ==
    ASSUME NEW u, NEW token, NEW what \in Answers \ {"constraint"}, Tell(u, what)
    PROVE  Served(u, token)
  BY DEF Tell, Served, TableStep

LEMMA PutDraftServes ==
    ASSUME GoodTable(versions), NEW u, NEW token, NEW config \in Configs,
           PutDraft(u, token, config)
    PROVE  Served(u, token)
<1>1. CASE /\ token = None /\ RowsIn("draft") = {}
           /\ Transaction(u, <<Append(versions, FirstDraft(config, DefaultVariant))>>, "saved")
  <2>1. versions = <<>>
    BY <1>1, DraftsOfTheTable
  <2>2. Created /\ answer' = [to |-> u, what |-> "saved"] /\ UNCHANGED closed
    BY <1>1, <2>1, CreateCommits, StorefrontConstants
  <2> QED
    BY <2>1, <2>2 DEF Served, TableStep, Agrees, Answers
<1>2. CASE Tell(u, "stale")
  BY <1>2, TellServes DEF Answers
<1>3. ASSUME NEW d \in Matching(token), versions[d].config = config, Tell(u, "unchanged")
      PROVE  Served(u, token)
  BY <1>3, TellServes DEF Answers
<1>4. ASSUME NEW d \in Matching(token), versions[d].lock < MaxLock,
             Transaction(u, <<Edited(d, config)>>, "saved")
      PROVE  Served(u, token)
  <2>1. d = Len(versions) /\ versions # <<>> /\ Agrees(token)
    BY DraftsOfTheTable
  <2>2. PICK row : Touched(versions, row) /\ Edited(d, config) = [versions EXCEPT ![Len(versions)] = row]
    BY <1>4, <2>1, EditsTouch
  <2>3. Changed /\ answer' = [to |-> u, what |-> "saved"] /\ UNCHANGED closed
    BY <1>4, <2>2, ChangeCommits
  <2> QED
    BY <2>1, <2>3 DEF Served, TableStep, Answers
<1> QED
  BY <1>1, <1>2, <1>3, <1>4 DEF PutDraft

LEMMA PublishServes ==
    ASSUME GoodTable(versions), NEW u, NEW token, Publish(u, token)
    PROVE  Served(u, token)
<1>1. CASE Tell(u, "stale")
  BY <1>1, TellServes DEF Answers
<1>2. ASSUME NEW d \in Matching(token),
             LET archived == Archived(versions)
                 promoted == Promoted(archived, d, NextNumber)
             IN  Transaction(u, <<archived, promoted, Seeded(promoted, d)>>, "published")
      PROVE  Served(u, token)
  <2>1. d = Len(versions) /\ versions # <<>> /\ Agrees(token)
    BY DraftsOfTheTable
  <2>2. Published /\ answer' = [to |-> u, what |-> "published"] /\ UNCHANGED closed
    BY <1>2, <2>1, PublishCommits
  <2> QED
    BY <2>1, <2>2 DEF Served, TableStep, Answers
<1> QED
  BY <1>1, <1>2 DEF Publish

LEMMA RestoreServes ==
    ASSUME GoodTable(versions), NEW u, NEW token, NEW s \in DOMAIN versions,
           RestoreVersion(u, token, s)
    PROVE  Served(u, token)
<1>1. CASE Tell(u, "stale")
  BY <1>1, TellServes DEF Answers
<1>2. ASSUME NEW d \in Matching(token), versions[d].lock < MaxLock,
             versions[s].state = "archived",
             Transaction(u, <<Restored(d, s)>>, "restored")
      PROVE  Served(u, token)
  <2>1. d = Len(versions) /\ versions # <<>> /\ Agrees(token)
    BY DraftsOfTheTable
  <2>2. s \in 1..(Len(versions) - 1)
    <3>1. Len(versions) \in Nat /\ s \in 1..Len(versions)
      BY SeqFacts DEF GoodTable
    <3>2. s # Len(versions)
      BY <1>2, <3>1 DEF GoodTable, Ranked
    <3> QED
      BY <3>1, <3>2
  <2>3. PICK row : Touched(versions, row) /\ Restored(d, s) = [versions EXCEPT ![Len(versions)] = row]
    BY <1>2, <2>1, <2>2, EditsTouch
  <2>4. Changed /\ answer' = [to |-> u, what |-> "restored"] /\ UNCHANGED closed
    BY <1>2, <2>3, ChangeCommits
  <2> QED
    BY <2>1, <2>4 DEF Served, TableStep, Answers
<1> QED
  BY <1>1, <1>2 DEF RestoreVersion

LEMMA AssignServes ==
    ASSUME GoodTable(versions), NEW variant \in Variants, AssignDesign(variant)
    PROVE  TableStep /\ closed' = closed /\ answer' = [to |-> None, what |-> "assigned"]
<1>1. CASE /\ RowsIn("draft") = {}
           /\ Transaction(None, <<Append(versions, FirstDraft(DefaultConfig, variant))>>, "assigned")
  <2>1. versions = <<>>
    BY <1>1, DraftsOfTheTable
  <2>2. Created /\ answer' = [to |-> None, what |-> "assigned"] /\ UNCHANGED closed
    BY <1>1, <2>1, CreateCommits, StorefrontConstants
  <2> QED
    BY <2>2 DEF TableStep
<1>2. ASSUME NEW d \in RowsIn("draft"), versions[d].lock < MaxLock,
             Transaction(None, <<Assigned(d, variant)>>, "assigned")
      PROVE  TableStep /\ closed' = closed /\ answer' = [to |-> None, what |-> "assigned"]
  <2>1. d = Len(versions) /\ versions # <<>>
    BY DraftsOfTheTable
  <2>2. PICK row : Touched(versions, row) /\ Assigned(d, variant) = [versions EXCEPT ![Len(versions)] = row]
    BY <1>2, <2>1, EditsTouch
  <2>3. Changed /\ answer' = [to |-> None, what |-> "assigned"] /\ UNCHANGED closed
    BY <1>2, <2>2, ChangeCommits
  <2> QED
    BY <2>3 DEF TableStep
<1> QED
  BY <1>1, <1>2 DEF AssignDesign
-----------------------------------------------------------------------------
(* What a step does to the editors: each keeps what it has, or is shown    *)
(* the draft as it now is; whoever changes the table agrees with it.       *)
Step ==
    /\ TableStep
    /\ closed' \in BOOLEAN
    /\ answer' \in [to : Editors \cup {None}, what : Answers]
    /\ answer'.what # "constraint"
    /\ seen' \in [Editors -> DraftView \cup {None, Shown(versions')}]
    /\ \A u \in Editors : seen'[u] = seen[u] \/ seen'[u] = Shown(versions')
    /\ \A u \in Editors : Accepted(u) => Agrees(Token(u))

LEMMA CommandServes ==
    ASSUME Safe, NEW u \in Editors, EditorCommand(u)
    PROVE  Served(u, Token(u))
<1>1. CASE RefuseClosed(u)
  BY <1>1, TellServes DEF RefuseClosed, Answers
<1>2. CASE \E config \in Configs : PutDraft(u, Token(u), config)
  BY <1>2, PutDraftServes DEF Safe
<1>3. CASE MediaUnavailable(u, Token(u))
  BY <1>3, TellServes DEF MediaUnavailable, Answers
<1>4. CASE Publish(u, Token(u))
  BY <1>4, PublishServes DEF Safe
<1>5. CASE \E s \in DOMAIN versions : RestoreVersion(u, Token(u), s)
  BY <1>5, RestoreServes DEF Safe
<1> QED
  BY <1>1, <1>2, <1>3, <1>4, <1>5 DEF EditorCommand

LEMMA NextIsAStep ==
    ASSUME Safe, [Next]_vars
    PROVE  Step
<1> USE DEF Safe, TypeOK
<1>0. seen \in [Editors -> DraftView \cup {None}]
  OBVIOUS
<1>1. ASSUME NEW u \in Editors, ReadOverview(u)
      PROVE  Step
  <2>1. /\ seen' \in [Editors -> DraftView \cup {None, Shown(versions')}]
        /\ \A v \in Editors : seen'[v] = seen[v] \/ seen'[v] = Shown(versions')
    BY <1>0, <1>1 DEF ReadOverview
  <2>2. UNCHANGED <<versions, closed, answer>>
    BY <1>1 DEF ReadOverview
  <2> QED
    BY <2>1, <2>2 DEF Step, TableStep, Accepted, ConstraintsNeverFire
<1>2. ASSUME NEW u \in Editors, EditorCommand(u), Shows(u)
      PROVE  Step
  <2>1. Served(u, Token(u))
    BY <1>2, CommandServes
  <2>2. /\ seen' \in [Editors -> DraftView \cup {None, Shown(versions')}]
        /\ \A v \in Editors : seen'[v] = seen[v] \/ seen'[v] = Shown(versions')
    BY <1>0, <1>2 DEF Shows
  <2>3. answer'.to = u /\ answer'.what # "constraint"
        /\ answer' \in [to : Editors \cup {None}, what : Answers]
    BY <2>1 DEF Served
  <2>4. \A v \in Editors : Accepted(v) => Agrees(Token(v))
    BY <2>1, <2>3 DEF Served, Accepted
  <2> QED
    BY <2>1, <2>2, <2>3, <2>4 DEF Step, Served
<1>3. ASSUME NEW variant \in Variants, AssignDesign(variant), UNCHANGED seen
      PROVE  Step
  <2>1. TableStep /\ closed' = closed /\ answer' = [to |-> None, what |-> "assigned"]
    BY <1>3, AssignServes
  <2>2. \A u \in Editors : ~Accepted(u)
    BY <2>1, StorefrontConstants DEF Accepted
  <2> QED
    BY <1>0, <1>3, <2>1, <2>2 DEF Step, Answers
<1>4. CASE Close /\ UNCHANGED seen
  BY <1>0, <1>4 DEF Close, Step, TableStep, Accepted, ConstraintsNeverFire
<1>5. CASE UNCHANGED vars
  BY <1>0, <1>5 DEF vars, Step, TableStep, Accepted, ConstraintsNeverFire
<1> QED
  BY <1>1, <1>2, <1>3, <1>4, <1>5 DEF Next

(* The table after a publication, and after any step.                      *)
LEMMA PublishedTable ==
    ASSUME GoodTable(versions), Published
    PROVE  /\ GoodTable(versions')
           /\ Len(versions') = Len(versions) + 1
           /\ \A i \in 1..Len(versions) :
                 /\ SameContent(versions'[i], versions[i])
                 /\ versions'[i].number = i
                 /\ versions'[i].state = IF i = Len(versions) THEN "published" ELSE "archived"
  BY PublishedRows DEF Published

LEMMA StepKeepsTheTable ==
    ASSUME GoodTable(versions), TableStep
    PROVE  GoodTable(versions')
<1>1. CASE Created
  BY <1>1, FirstDraftIsGood DEF Created, GoodTable
<1>2. CASE Changed
  BY <1>2, TouchedIsGood DEF Changed
<1>3. CASE Published
  BY <1>3, PublishedTable
<1>4. CASE UNCHANGED versions
  BY <1>4
<1> QED
  BY <1>1, <1>2, <1>3, <1>4 DEF TableStep

LEMMA ShownHasItsType ==
    ASSUME NEW table, GoodTable(table)
    PROVE  Shown(table) \in DraftView \cup {None}
<1>1. CASE table = <<>>
  BY <1>1, ShowsTheDraft
<1>2. CASE table # <<>>
  <2>1. Len(table) \in Nat /\ table[Len(table)] \in Version
    BY <1>2, SeqFacts DEF GoodTable
  <2> QED
    BY <1>2, <2>1, ShowsTheDraft DEF DraftView, Version
<1> QED
  BY <1>1, <1>2

LEMMA StepKeepsMemory ==
    ASSUME Safe, Step
    PROVE  Memory'
<1> SUFFICES ASSUME NEW u \in Editors, seen'[u] # None
             PROVE  /\ seen'[u].row \in 1..Len(versions')
                    /\ seen'[u].row = Len(versions') =>
                          /\ seen'[u].lock <= versions'[Len(versions')].lock
                          /\ seen'[u].lock = versions'[Len(versions')].lock =>
                                /\ seen'[u].config = versions'[Len(versions')].config
                                /\ seen'[u].variant = versions'[Len(versions')].variant
  BY DEF Memory, BasedOn
<1>1. GoodTable(versions')
  BY StepKeepsTheTable DEF Safe, Step
<1>2. CASE seen'[u] = Shown(versions')
  <2>1. versions' # <<>>
    BY <1>1, <1>2, ShowsTheDraft
  <2>2. /\ seen'[u].row = Len(versions')
        /\ seen'[u].lock = versions'[Len(versions')].lock
        /\ seen'[u].config = versions'[Len(versions')].config
        /\ seen'[u].variant = versions'[Len(versions')].variant
    BY <1>1, <1>2, <2>1, ShowsTheDraft
  <2>3. Len(versions') \in 1..Len(versions') /\ versions'[Len(versions')].lock \in Int
    <3>1. versions' \in Seq(Version)
      BY <1>1 DEF GoodTable
    <3>2. /\ Len(versions') \in 1..Len(versions')
          /\ versions'[Len(versions')] \in Version
      BY <2>1, <3>1, SeqFacts
    <3> QED
      BY <3>2 DEF Version
  <2> QED
    BY <2>2, <2>3
<1>3. CASE seen'[u] = seen[u]
  <2>1. /\ seen[u].row \in 1..Len(versions)
        /\ seen[u].row = Len(versions) =>
              /\ seen[u].lock <= versions[Len(versions)].lock
              /\ seen[u].lock = versions[Len(versions)].lock => BasedOn(u, Len(versions))
    BY <1>3 DEF Safe, Memory
  <2>2. versions # <<>> /\ Len(versions) \in Nat /\ DOMAIN versions = 1..Len(versions)
        /\ seen[u].lock \in Int /\ versions[Len(versions)].lock \in Int
    <3>1. Len(versions) \in Nat /\ DOMAIN versions = 1..Len(versions)
      BY SeqFacts DEF Safe, GoodTable
    <3>2. versions # <<>> /\ versions[Len(versions)] \in Version
      BY <2>1, SeqFacts DEF Safe, GoodTable
    <3>3. seen[u] \in DraftView
      BY <1>3 DEF Safe, TypeOK
    <3> QED
      BY <3>1, <3>2, <3>3 DEF Version, DraftView
  <2>3. CASE Changed
    <3>1. PICK row : Touched(versions, row) /\ versions' = [versions EXCEPT ![Len(versions)] = row]
      BY <2>3 DEF Changed
    <3>2. Len(versions') = Len(versions) /\ versions'[Len(versions)] = row
      BY <3>1, TouchedIsGood DEF Safe
    <3>3. row.lock = versions[Len(versions)].lock + 1
      BY <3>1 DEF Touched
    <3> QED
      BY <1>3, <2>1, <2>2, <3>2, <3>3
  <2>4. CASE Published
    <3>1. Len(versions') = Len(versions) + 1
      BY <2>4, PublishedTable DEF Safe
    <3> QED
      BY <1>3, <2>1, <2>2, <3>1
  <2>5. CASE UNCHANGED versions
    BY <1>3, <2>1, <2>5 DEF BasedOn
  <2> QED
    BY <2>2, <2>3, <2>4, <2>5 DEF Step, TableStep, Created
<1> QED
  BY <1>2, <1>3 DEF Step

LEMMA StepKeepsTypes ==
    ASSUME Safe, Step
    PROVE  TypeOK'
<1>1. GoodTable(versions')
  BY StepKeepsTheTable DEF Safe, Step
<1>2. Shown(versions') \in DraftView \cup {None}
  <2>1. CASE versions' = <<>>
    BY <1>1, <2>1, ShowsTheDraft
  <2>2. CASE versions' # <<>>
    <3>1. Len(versions') \in Nat /\ versions'[Len(versions')] \in Version
      BY <1>1, <2>2, SeqFacts DEF GoodTable
    <3> QED
      BY <1>1, <2>2, <3>1, ShowsTheDraft DEF DraftView, Version
  <2> QED
    BY <2>1, <2>2
<1>3. seen' \in [Editors -> DraftView \cup {None}]
  BY <1>2 DEF Step, Safe, TypeOK
<1> QED
  BY <1>1, <1>3 DEF Step, TypeOK, GoodTable
-----------------------------------------------------------------------------
(* Before the first command there is no row to be wrong about.             *)
LEMMA InitIsSafe ==
    ASSUME Init PROVE Safe
<1>1. versions \in Seq(Version) /\ Len(versions) = 0 /\ DOMAIN versions = {}
  BY EmptySeq, SeqFacts DEF Init
<1>2. GoodTable(versions)
  BY <1>1 DEF GoodTable, Ranked, Descent
<1>3. TypeOK
  BY <1>1 DEF Init, TypeOK, Answers
<1>4. Memory
  BY DEF Init, Memory
<1>5. ConstraintsNeverFire
  BY DEF Init, ConstraintsNeverFire
<1> QED
  BY <1>2, <1>3, <1>4, <1>5 DEF Safe

(* Storefront keeps its picture of the table, of the types and of what the *)
(* editors remember, and no command dies on a constraint.                  *)
THEOREM StorefrontIsSafe == Spec => []Safe
<1>1. Init => Safe
  BY InitIsSafe
<1>2. Safe /\ [Next]_vars => Safe'
  <2> SUFFICES ASSUME Safe, [Next]_vars PROVE Safe'
    OBVIOUS
  <2>1. Step
    BY NextIsAStep
  <2>2. ConstraintsNeverFire'
    BY <2>1 DEF Step, ConstraintsNeverFire
  <2> QED
    BY <2>1, <2>2, StepKeepsTheTable, StepKeepsMemory, StepKeepsTypes DEF Safe, Step
<1> QED
  BY <1>1, <1>2, PTL DEF Spec

(* Every variable keeps its type, and every row fits its columns.          *)
THEOREM StorefrontTypes == Spec => []TypeOK
<1>1. Safe => TypeOK
  BY DEF Safe
<1> QED
  BY <1>1, StorefrontIsSafe, PTL

(* Under the Business lock no flush of any command violates an index.      *)
THEOREM StorefrontConstraints == Spec => []ConstraintsNeverFire
<1>1. Safe => ConstraintsNeverFire
  BY DEF Safe
<1> QED
  BY <1>1, StorefrontIsSafe, PTL

(* Published numbers are 1..n and the live version has the highest.        *)
THEOREM StorefrontHistory == Spec => []HistoryIsDense
<1>1. Safe => HistoryIsDense
  <2> SUFFICES ASSUME GoodTable(versions) PROVE HistoryIsDense
    BY DEF Safe
  <2>1. CASE versions = <<>>
    <3>1. {i \in DOMAIN versions : versions[i].number # 0} = {}
      BY <2>1
    <3>2. Cardinality({}) = 0 /\ 1..0 = {}
      BY FS_EmptySet
    <3> QED
      BY <3>1, <3>2 DEF HistoryIsDense
  <2>2. CASE versions # <<>>
    <3> SUFFICES ASSUME NEW n \in Nat, n > 0, n = Len(versions), DOMAIN versions = 1..n
                 PROVE  HistoryIsDense
      BY <2>2, SeqFacts DEF GoodTable
    <3>1. {i \in DOMAIN versions : versions[i].number # 0} = 1..(n - 1)
      BY <2>2, NumbersSoFar
    <3>2. {versions[i].number : i \in 1..(n - 1)} = 1..(n - 1)
      BY <2>2, NumbersSoFar
    <3>3. Cardinality(1..(n - 1)) = n - 1
      BY FS_Interval
    <3>4. \A i \in 1..(n - 1) : versions[i].state = "published" <=> versions[i].number = n - 1
      BY DEF GoodTable, Ranked
    <3> QED
      BY <3>1, <3>2, <3>3, <3>4 DEF HistoryIsDense
  <2> QED
    BY <2>1, <2>2
<1> QED
  BY <1>1, StorefrontIsSafe, PTL

(* What the workspace says of a draft's origin is true.                    *)
THEOREM StorefrontProvenance == Spec => []ProvenanceHolds
<1>1. Safe => ProvenanceHolds
  <2> SUFFICES ASSUME GoodTable(versions),
                      NEW d \in RowsIn("draft"), versions[d].source # 0
               PROVE  LET source == versions[versions[d].source]
                      IN  /\ source.state # "draft"
                          /\ source.state = "archived" => versions[d].lock > 0
                          /\ versions[d].lock = 0 =>
                                /\ versions[d].config = source.config
                                /\ versions[d].variant = source.variant
    BY DEF Safe, ProvenanceHolds
  <2> SUFFICES ASSUME NEW n \in Nat, n > 0, n = Len(versions), DOMAIN versions = 1..n, d = n
               PROVE  LET source == versions[versions[d].source]
                      IN  /\ source.state # "draft"
                          /\ source.state = "archived" => versions[d].lock > 0
                          /\ versions[d].lock = 0 =>
                                /\ versions[d].config = source.config
                                /\ versions[d].variant = source.variant
    BY SeqFacts, DraftsOfTheTable DEF GoodTable
  <2>1. versions[n].source \in 1..(n - 1)
    BY DEF GoodTable, Descent
  <2>2. \A i \in 1..(n - 1) : versions[i].state = IF i + 1 = n THEN "published" ELSE "archived"
    BY DEF GoodTable, Ranked
  <2>3. /\ versions[n].source + 1 < n => versions[n].lock > 0
        /\ versions[n].lock = 0 =>
              /\ versions[n].config = versions[versions[n].source].config
              /\ versions[n].variant = versions[versions[n].source].variant
    BY DEF GoodTable, Descent
  <2> QED
    BY <2>1, <2>2, <2>3
<1> QED
  BY <1>1, StorefrontIsSafe, PTL

(* A row's content is final once it has a number, and what is live stays   *)
(* live until something else is.                                           *)
THEOREM StorefrontImmutability == Spec => HistoryIsImmutable
<1> DEFINE Immutable ==
      /\ \A i \in DOMAIN versions : versions[i].state # "draft" =>
            /\ [versions[i] EXCEPT !.state = "archived"]
                   = [versions'[i] EXCEPT !.state = "archived"]
            /\ versions[i].state = "archived" => versions'[i].state = "archived"
      /\ RowsIn("published") # {} => RowsIn("published")' # {}
<1>1. Safe /\ [Next]_vars => Immutable
  <2> SUFFICES ASSUME Safe, [Next]_vars PROVE Immutable
    OBVIOUS
  <2>1. Step /\ GoodTable(versions) /\ GoodTable(versions')
    BY NextIsAStep, StepKeepsTheTable DEF Safe, Step
  <2>2. CASE Created
    <3>1. DOMAIN versions = {}
      BY <2>2 DEF Created
    <3> QED
      BY <3>1 DEF RowsIn
  <2>3. CASE UNCHANGED versions
    BY <2>3 DEF RowsIn
  <2>4. CASE Changed
    <3> SUFFICES ASSUME NEW n \in Nat, n > 0, n = Len(versions), DOMAIN versions = 1..n,
                        n = Len(versions'), DOMAIN versions' = 1..n,
                        \A i \in 1..(n - 1) : versions'[i] = versions[i]
                 PROVE  Immutable
      BY <2>1, <2>4, SeqFacts, TouchedIsGood DEF Changed, Touched, GoodTable
    <3>1. versions[n].state = "draft"
      BY <2>1 DEF GoodTable, Ranked
    <3>2. \A i \in DOMAIN versions : versions[i].state # "draft" => versions'[i] = versions[i]
      BY <3>1
    <3>3. \A i \in RowsIn("published") : i \in RowsIn("published")'
      BY <3>1, <3>2 DEF RowsIn
    <3> QED
      BY <3>2, <3>3
  <2>5. CASE Published
    <3> SUFFICES ASSUME NEW n \in Nat, n > 0, n = Len(versions), DOMAIN versions = 1..n,
                        DOMAIN versions' = 1..(n + 1),
                        \A i \in 1..n : versions[i] \in Version /\ versions'[i] \in Version
                 PROVE  Immutable
      BY <2>1, <2>5, SeqFacts, PublishedTable DEF Published, GoodTable
    <3>1. \A i \in 1..n :
             /\ SameContent(versions'[i], versions[i])
             /\ versions'[i].number = i
             /\ versions'[i].state = IF i = n THEN "published" ELSE "archived"
      BY <2>1, <2>5, PublishedTable
    <3>2. versions[n].state = "draft" /\ \A i \in 1..(n - 1) : versions[i].number = i
      BY <2>1 DEF GoodTable, Ranked
    <3>3. ASSUME NEW i \in 1..(n - 1)
          PROVE  [versions[i] EXCEPT !.state = "archived"] = [versions'[i] EXCEPT !.state = "archived"]
      <4>1. /\ versions[i] \in Version /\ versions'[i] \in Version
            /\ SameContent(versions'[i], versions[i])
            /\ versions[i].number = versions'[i].number
        BY <3>1, <3>2
      <4> QED
        BY <4>1, SameButState
    <3>4. n \in RowsIn("published")'
      BY <3>1 DEF RowsIn
    <3> QED
      BY <3>1, <3>2, <3>3, <3>4
  <2> QED
    BY <2>1, <2>2, <2>3, <2>4, <2>5 DEF Step, TableStep
<1> QED
  BY <1>1, StorefrontIsSafe, PTL DEF Spec, HistoryIsImmutable

(* Within the life of one draft an accepted write replaces what its editor *)
(* had read.                                                               *)
THEOREM StorefrontTokens == Spec => StaleWriteRefused
<1> DEFINE Refused ==
      \A u \in Editors, d \in RowsIn("draft") :
          Accepted(u) /\ seen[u] # None /\ seen[u].row = d => BasedOn(u, d)
<1>1. Safe /\ [Next]_vars => Refused
  <2> SUFFICES ASSUME Safe, [Next]_vars,
                      NEW u \in Editors, NEW d \in RowsIn("draft"),
                      Accepted(u), seen[u] # None, seen[u].row = d
               PROVE  BasedOn(u, d)
    OBVIOUS
  <2>1. d = Len(versions) /\ versions # <<>>
    BY DraftsOfTheTable DEF Safe
  <2>2. versions[d].lock = Token(u)
    BY <2>1, NextIsAStep DEF Step, Agrees
  <2> QED
    BY <2>1, <2>2 DEF Token, Safe, Memory
<1> QED
  BY <1>1, StorefrontIsSafe, PTL DEF Spec, StaleWriteRefused

-----------------------------------------------------------------------------
(* The draft composer implements Storefront, for any editors, compositions  *)
(* and versions: with the query cache as what an editor has seen, every     *)
(* step of a composer is a step of an editor or none. The invariant is the  *)
(* picture of the table, with the types of the page.                        *)

ComposerSafe == ComposerTypeOK /\ GoodTable(versions)

\* What the abstract editor has seen.
Remembers(u) == IF u \in Composers THEN Cached(u) ELSE seen[u]

-----------------------------------------------------------------------------
(* A command leaves the table good whatever token it carries.               *)

LEMMA ServedSafe ==
    ASSUME ComposerSafe, NEW u \in Editors, NEW token, Served(u, token)
    PROVE  /\ GoodTable(versions') /\ closed' \in BOOLEAN
           /\ answer' \in [to : Editors \cup {None}, what : Answers]
           /\ Shown(versions') \in DraftView \cup {None}
<1>1. GoodTable(versions')
  BY StepKeepsTheTable DEF ComposerSafe, Served
<1>2. Shown(versions') \in DraftView \cup {None}
  BY <1>1, ShownHasItsType
<1> QED BY <1>1, <1>2 DEF Served, ComposerSafe, ComposerTypeOK, TypeOK

LEMMA RefusalServes ==
    ASSUME NEW u, NEW token, RefuseClosed(u) \/ MediaUnavailable(u, token)
    PROVE  Served(u, token)
BY TellServes DEF RefuseClosed, MediaUnavailable, Answers

LEMMA ComposerNextSafe ==
    ASSUME ComposerConstants, ComposerSafe, [ComposerNext]_composerVars
    PROVE  ComposerSafe'
<1>1. /\ GoodTable(versions) /\ versions \in Seq(Version) /\ closed \in BOOLEAN
      /\ seen \in [Editors -> DraftView \cup {None}]
      /\ answer \in [to : Editors \cup {None}, what : Answers]
      /\ cache \in [Composers -> DraftView \cup {None, Unfetched}]
      /\ mounted \in SUBSET Composers /\ conflict \in SUBSET mounted
      /\ \A u \in mounted : cache[u] # Unfetched
      /\ Composers \subseteq Editors /\ Unfetched \notin DraftView \cup {None}
      /\ Shown(versions) \in DraftView \cup {None}
  BY ShownHasItsType DEF ComposerSafe, ComposerTypeOK, TypeOK, ComposerConstants
<1> DEFINE Store == /\ GoodTable(versions) /\ closed \in BOOLEAN
                    /\ answer \in [to : Editors \cup {None}, what : Answers]
           Pages == /\ seen \in [Editors -> DraftView \cup {None}]
                    /\ cache \in [Composers -> DraftView \cup {None, Unfetched}]
                    /\ mounted \in SUBSET Composers /\ conflict \in SUBSET mounted
                    /\ \A u \in mounted : cache[u] # Unfetched
<1>2. ASSUME Store', Pages' PROVE ComposerSafe'
  BY <1>2 DEF ComposerSafe, ComposerTypeOK, TypeOK, GoodTable
<1>3. UNCHANGED <<versions, closed, answer>> => Store'
  BY <1>1
<1>4. ASSUME NEW u \in Composers, Refetch(u) \/ Mount(u) \/ Leave(u) \/ Reload(u)
      PROVE  ComposerSafe'
  <2>1. UNCHANGED <<versions, closed, answer>>
    BY <1>4 DEF Refetch, Mount, Leave, Reload, vars
  <2>2. CASE Refetch(u)
    BY <1>1, <1>2, <1>3, <2>1, <2>2 DEF Refetch, vars
  <2>3. CASE Mount(u)
    BY <1>1, <1>2, <1>3, <2>1, <2>3 DEF Mount
  <2>4. CASE Leave(u)
    BY <1>1, <1>2, <1>3, <2>1, <2>4 DEF Leave, vars
  <2>5. CASE Reload(u)
    BY <1>1, <1>2, <1>3, <2>1, <2>5 DEF Reload
  <2> QED BY <1>4, <2>2, <2>3, <2>4, <2>5
<1>5. ASSUME NEW u \in Composers, NEW config \in Configs, SaveDraft(u, config)
      PROVE  ComposerSafe'
  <2>1. Served(u, CachedToken(u))
    BY <1>1, <1>5, PutDraftServes, RefusalServes DEF SaveDraft
  <2>2. Store' /\ Shown(versions') \in DraftView \cup {None}
    BY <1>1, <2>1, ServedSafe
  <2>3. u \in mounted /\ mounted' = mounted
    BY <1>5 DEF SaveDraft
  <2>4. CASE /\ seen' = [seen EXCEPT ![u] = Shown(versions')] /\ cache' = Merged(u)
             /\ UNCHANGED conflict
    BY <1>1, <1>2, <2>2, <2>3, <2>4 DEF Merged
  <2>5. CASE Unanswered(u)
    BY <1>1, <1>2, <2>2, <2>3, <2>5 DEF Unanswered
  <2> QED BY <1>5, <2>4, <2>5 DEF SaveDraft
<1>6. ASSUME NEW u \in Composers, PublishDraft(u)
      PROVE  ComposerSafe'
  <2>1. Served(u, CachedToken(u))
    BY <1>1, <1>6, PublishServes, RefusalServes DEF PublishDraft
  <2>2. Store' /\ Shown(versions') \in DraftView \cup {None}
    BY <1>1, <2>1, ServedSafe
  <2>3. u \in mounted /\ mounted' = mounted
    BY <1>6 DEF PublishDraft
  <2>4. CASE cache' = Merged(u) /\ UNCHANGED <<seen, conflict>>
    BY <1>1, <1>2, <2>2, <2>3, <2>4 DEF Merged
  <2>5. CASE Unanswered(u)
    BY <1>1, <1>2, <2>2, <2>3, <2>5 DEF Unanswered
  <2> QED BY <1>6, <2>4, <2>5 DEF PublishDraft
<1>7. ASSUME NEW u \in Editors \ Composers, ReadOverview(u), UNCHANGED pageVars
      PROVE  ComposerSafe'
  BY <1>1, <1>2, <1>3, <1>7 DEF ReadOverview, pageVars
<1>8. ASSUME NEW u \in Editors \ Composers, EditorCommand(u), Shows(u), UNCHANGED pageVars
      PROVE  ComposerSafe'
  <2>1. Served(u, Token(u))
    BY <1>1, <1>8, PutDraftServes, PublishServes, RestoreServes, RefusalServes DEF EditorCommand
  <2>2. Store' /\ Shown(versions') \in DraftView \cup {None}
    BY <1>1, <2>1, ServedSafe
  <2> QED BY <1>1, <1>2, <1>8, <2>2 DEF Shows, pageVars
<1>9. ASSUME NEW variant \in Variants, AssignDesign(variant), UNCHANGED <<seen, pageVars>>
      PROVE  ComposerSafe'
  <2>1. TableStep /\ closed' = closed /\ answer' = [to |-> None, what |-> "assigned"]
    BY <1>1, <1>9, AssignServes
  <2>2. GoodTable(versions')
    BY <1>1, <2>1, StepKeepsTheTable
  <2> QED BY <1>1, <1>2, <1>9, <2>1, <2>2 DEF Answers, pageVars
<1>10. CASE Close /\ UNCHANGED <<seen, pageVars>>
  BY <1>1, <1>2, <1>10 DEF Close, pageVars
<1>11. CASE UNCHANGED composerVars
  BY <1>1, <1>2, <1>11 DEF composerVars, vars, pageVars
<1> QED BY <1>4, <1>5, <1>6, <1>7, <1>8, <1>9, <1>10, <1>11 DEF ComposerNext

-----------------------------------------------------------------------------
(* The statements of the server do not look at what editors have seen.      *)

LEMMA SameStatements ==
    /\ \A table : Server!Shown(table) = Shown(table)
    /\ \A u, what : Tell(u, what) => Server!Tell(u, what)
    /\ \A u : RefuseClosed(u) => Server!RefuseClosed(u)
    /\ \A u, token, config : PutDraft(u, token, config) => Server!PutDraft(u, token, config)
    /\ \A u, token : MediaUnavailable(u, token) => Server!MediaUnavailable(u, token)
    /\ \A u, token : Publish(u, token) => Server!Publish(u, token)
    /\ \A u, token, s : RestoreVersion(u, token, s) => Server!RestoreVersion(u, token, s)
    /\ \A variant : AssignDesign(variant) => Server!AssignDesign(variant)
    /\ Close => Server!Close
<1>1. \A table : Server!Shown(table) = Shown(table)
  BY DEF Server!Shown, Shown
<1>2. \A u, what : Tell(u, what) => Server!Tell(u, what)
  BY DEF Server!Tell, Tell
<1>3. \A table : Server!Storable(table) = Storable(table)
  BY DEF Server!Storable, Storable
<1>4. \A u, flushes, what : Transaction(u, flushes, what) => Server!Transaction(u, flushes, what)
  BY <1>2, <1>3 DEF Server!Transaction, Transaction
<1>5. /\ \A state : Server!RowsIn(state) = RowsIn(state)
      /\ \A config, variant : Server!FirstDraft(config, variant) = FirstDraft(config, variant)
      /\ \A d, config : Server!Edited(d, config) = Edited(d, config)
  BY DEF Server!RowsIn, RowsIn, Server!FirstDraft, FirstDraft, Server!Edited, Edited
<1>14. Server!NextNumber = NextNumber
  BY DEF Server!NextNumber, NextNumber, Server!Max, Max
<1>15. /\ \A table : Server!Archived(table) = Archived(table)
       /\ \A table, d, n : Server!Promoted(table, d, n) = Promoted(table, d, n)
  BY DEF Server!Archived, Archived, Server!Promoted, Promoted
<1>16. \A table, d : Server!Seeded(table, d) = Seeded(table, d)
  BY DEF Server!Seeded, Seeded
<1>17. /\ \A d, s : Server!Restored(d, s) = Restored(d, s)
       /\ \A d, variant : Server!Assigned(d, variant) = Assigned(d, variant)
  BY DEF Server!Restored, Restored, Server!Assigned, Assigned
<1>6. \A token : Server!Matching(token) = Matching(token)
  BY <1>5 DEF Server!Matching, Matching
<1>7. \A u : RefuseClosed(u) => Server!RefuseClosed(u)
  BY <1>2 DEF Server!RefuseClosed, RefuseClosed
<1>8. \A u, token, config : PutDraft(u, token, config) => Server!PutDraft(u, token, config)
  BY <1>2, <1>4, <1>5, <1>6 DEF Server!PutDraft, PutDraft
<1>9. \A u, token : MediaUnavailable(u, token) => Server!MediaUnavailable(u, token)
  BY <1>2, <1>5, <1>6 DEF Server!MediaUnavailable, MediaUnavailable
<1>10. \A u, token : Publish(u, token) => Server!Publish(u, token)
  BY <1>2, <1>4, <1>5, <1>6, <1>14, <1>15, <1>16 DEF Server!Publish, Publish
<1>11. \A u, token, s : RestoreVersion(u, token, s) => Server!RestoreVersion(u, token, s)
  BY <1>2, <1>4, <1>5, <1>6, <1>17 DEF Server!RestoreVersion, RestoreVersion
<1>12. \A variant : AssignDesign(variant) => Server!AssignDesign(variant)
  BY <1>4, <1>5, <1>17 DEF Server!AssignDesign, AssignDesign
<1>13. Close => Server!Close
  BY DEF Server!Close, Close
<1> QED BY <1>1, <1>2, <1>7, <1>8, <1>9, <1>10, <1>11, <1>12, <1>13

(* An abstract command of u that answers, and what it leaves u with.        *)

LEMMA AbstractCommand ==
    ASSUME NEW u \in Editors,
           \/ Server!RefuseClosed(u)
           \/ \E config \in Configs : Server!PutDraft(u, Server!Token(u), config)
           \/ Server!MediaUnavailable(u, Server!Token(u))
           \/ Remembers(u) # None /\ Server!Publish(u, Server!Token(u))
           \/ Remembers(u) # None /\ \E s \in DOMAIN versions :
                  Server!RestoreVersion(u, Server!Token(u), s)
    PROVE  Server!EditorCommand(u)
BY DEF Server!EditorCommand, Remembers

LEMMA ComposerStepsRefine ==
    ASSUME ComposerConstants, ComposerSafe, [ComposerNext]_composerVars
    PROVE  [Server!Next]_(Server!vars)
<1> DEFINE memory == [u \in Editors |-> IF u \in Composers THEN Cached(u) ELSE seen[u]]
<1>1. /\ GoodTable(versions) /\ versions \in Seq(Version)
      /\ seen \in [Editors -> DraftView \cup {None}]
      /\ cache \in [Composers -> DraftView \cup {None, Unfetched}]
      /\ mounted \in SUBSET Composers /\ conflict \in SUBSET mounted
      /\ \A u \in mounted : cache[u] # Unfetched
      /\ Composers \subseteq Editors /\ Unfetched \notin DraftView \cup {None}
      /\ Shown(versions) \in DraftView \cup {None}
      /\ Shown(versions') \in DraftView \cup {None}
  BY ComposerNextSafe, ShownHasItsType DEF ComposerSafe, ComposerTypeOK, TypeOK, ComposerConstants
<1>2. memory' = memory /\ UNCHANGED <<versions, closed, answer>> => UNCHANGED Server!vars
  BY DEF Server!vars
<1>3. ASSUME NEW u \in Composers,
             cache' = [cache EXCEPT ![u] = Shown(versions')],
             \A v \in Editors \ Composers : seen'[v] = seen[v]
      PROVE  memory' = [memory EXCEPT ![u] = Server!Shown(versions')]
  <2>1. Cached(u)' = Shown(versions')
    BY <1>1, <1>3 DEF Cached
  <2>2. \A v \in Composers : v # u => Cached(v)' = Cached(v)
    BY <1>1, <1>3 DEF Cached
  <2>3. Server!Shown(versions') = Shown(versions')
    BY SameStatements
  <2> QED BY <1>1, <1>3, <2>1, <2>2, <2>3
<1>4. ASSUME cache' = cache, \A v \in Editors \ Composers : seen'[v] = seen[v]
      PROVE  memory' = memory
  BY <1>4 DEF Cached
<1>5. ASSUME NEW u \in mounted
      PROVE  /\ u \in Composers /\ u \in Editors
             /\ memory[u] = cache[u] /\ Remembers(u) = cache[u]
             /\ CachedToken(u) = Server!Token(u)
  BY <1>1, <1>5 DEF Cached, CachedToken, Remembers, Server!Token
<1>6. ASSUME NEW u \in Composers, Refetch(u) \/ Reload(u)
      PROVE  Server!ReadOverview(u)
  <2>1. UNCHANGED <<versions, closed, answer>>
    BY <1>6 DEF Refetch, Reload, vars
  <2>2. cache' = [cache EXCEPT ![u] = Shown(versions')]
    BY <1>6, <2>1 DEF Refetch, Reload
  <2>3. \A v \in Editors \ Composers : seen'[v] = seen[v]
    BY <1>1, <1>6 DEF Refetch, Reload, vars
  <2> QED BY <1>3, <2>1, <2>2, <2>3 DEF Server!ReadOverview
<1>7. ASSUME NEW u \in Composers, Mount(u) \/ Leave(u)
      PROVE  UNCHANGED Server!vars
  <2>1. UNCHANGED <<versions, closed, answer, cache>>
    BY <1>7 DEF Mount, Leave, vars
  <2>2. \A v \in Editors \ Composers : seen'[v] = seen[v]
    BY <1>1, <1>7 DEF Mount, Leave, vars
  <2> QED BY <1>2, <1>4, <2>1, <2>2
<1>8. ASSUME NEW u \in mounted, Unanswered(u)
      PROVE  Server!Shows(u)
  <2>1. memory' = memory
    BY <1>4, <1>8 DEF Unanswered
  <2>2. answer'.what \in Server!DraftAnswers => LossyNetwork
    BY <1>8 DEF Unanswered, DraftAnswers, Server!DraftAnswers
  <2> QED BY <2>1, <2>2 DEF Server!Shows
<1>9. ASSUME NEW u \in mounted, answer'.what \in DraftAnswers, cache' = Merged(u),
             \A v \in Editors \ Composers : seen'[v] = seen[v]
      PROVE  Server!Shows(u)
  <2>1. memory' = [memory EXCEPT ![u] = Server!Shown(versions')]
    BY <1>3, <1>5, <1>9 DEF Merged
  <2> QED BY <1>9, <2>1 DEF Server!Shows, DraftAnswers, Server!DraftAnswers
<1>10. ASSUME NEW u \in Composers, NEW config \in Configs, SaveDraft(u, config)
       PROVE  Server!EditorCommand(u) /\ Server!Shows(u)
  <2>1. u \in mounted
    BY <1>10 DEF SaveDraft
  <2>2. Server!EditorCommand(u)
    BY <1>5, <1>10, <2>1, SameStatements, AbstractCommand DEF SaveDraft
  <2>3. CASE /\ answer'.what \in DraftAnswers
             /\ seen' = [seen EXCEPT ![u] = Shown(versions')]
             /\ cache' = Merged(u)
    BY <1>1, <1>9, <2>1, <2>2, <2>3
  <2>4. CASE Unanswered(u)
    BY <1>8, <2>1, <2>2, <2>4
  <2> QED BY <1>10, <2>3, <2>4 DEF SaveDraft
<1>11. ASSUME NEW u \in Composers, PublishDraft(u)
       PROVE  Server!EditorCommand(u) /\ Server!Shows(u)
  <2>1. u \in mounted /\ cache[u] # None
    BY <1>11 DEF PublishDraft
  <2>2. Server!EditorCommand(u)
    BY <1>5, <1>11, <2>1, SameStatements, AbstractCommand DEF PublishDraft
  <2>3. CASE answer'.what \in DraftAnswers /\ cache' = Merged(u) /\ UNCHANGED seen
    BY <1>9, <2>1, <2>2, <2>3
  <2>4. CASE Unanswered(u)
    BY <1>8, <2>1, <2>2, <2>4
  <2> QED BY <1>11, <2>3, <2>4 DEF PublishDraft
<1>12. ASSUME NEW u \in Editors \ Composers, cache' = cache,
              seen' = [seen EXCEPT ![u] = Shown(versions')]
       PROVE  memory' = [memory EXCEPT ![u] = Server!Shown(versions')]
  <2>1. \A v \in Composers : Cached(v)' = Cached(v)
    BY <1>12 DEF Cached
  <2>2. Server!Shown(versions') = Shown(versions')
    BY SameStatements
  <2> QED BY <1>1, <1>12, <2>1, <2>2
<1>13. ASSUME NEW u \in Editors \ Composers, ReadOverview(u), UNCHANGED pageVars
       PROVE  Server!ReadOverview(u)
  BY <1>12, <1>13 DEF ReadOverview, Server!ReadOverview, pageVars
<1>14. ASSUME NEW u \in Editors \ Composers, EditorCommand(u), Shows(u), UNCHANGED pageVars
       PROVE  Server!EditorCommand(u) /\ Server!Shows(u)
  <2>1. Token(u) = Server!Token(u) /\ Remembers(u) = seen[u]
    BY DEF Token, Server!Token, Remembers
  <2>2. Server!EditorCommand(u)
    BY <1>14, <2>1, SameStatements, AbstractCommand DEF EditorCommand
  <2>3. CASE answer'.what \in DraftAnswers /\ seen' = [seen EXCEPT ![u] = Shown(versions')]
    BY <1>12, <1>14, <2>2, <2>3 DEF Server!Shows, DraftAnswers, Server!DraftAnswers, pageVars
  <2>4. CASE (answer'.what \in DraftAnswers => LossyNetwork) /\ UNCHANGED seen
    BY <1>4, <1>14, <2>2, <2>4 DEF Server!Shows, DraftAnswers, Server!DraftAnswers, pageVars
  <2> QED BY <1>14, <2>3, <2>4 DEF Shows
<1>15. ASSUME NEW variant \in Variants, AssignDesign(variant), UNCHANGED <<seen, pageVars>>
       PROVE  Server!AssignDesign(variant) /\ memory' = memory
  BY <1>4, <1>15, SameStatements DEF pageVars
<1>16. CASE Close /\ UNCHANGED <<seen, pageVars>>
  <2>1. Server!Close /\ memory' = memory
    BY <1>4, <1>16, SameStatements DEF pageVars
  <2> QED BY <2>1 DEF Server!Next
<1>17. CASE UNCHANGED composerVars
  BY <1>2, <1>4, <1>17 DEF composerVars, vars, pageVars
<1>18. ASSUME NEW u \in Editors,
              Server!ReadOverview(u) \/ (Server!EditorCommand(u) /\ Server!Shows(u))
       PROVE  Server!Next
  BY <1>18 DEF Server!Next
<1>19. ASSUME NEW u \in Composers,
              \/ Refetch(u) \/ Mount(u) \/ Leave(u) \/ Reload(u) \/ PublishDraft(u)
              \/ \E config \in Configs : SaveDraft(u, config)
       PROVE  [Server!Next]_(Server!vars)
  BY <1>1, <1>6, <1>7, <1>10, <1>11, <1>18, <1>19
<1>20. ASSUME NEW variant \in Variants, AssignDesign(variant), UNCHANGED <<seen, pageVars>>
       PROVE  Server!Next
  BY <1>15, <1>20 DEF Server!Next
<1>21. ASSUME NEW u \in Editors \ Composers,
              ReadOverview(u) \/ (EditorCommand(u) /\ Shows(u)), UNCHANGED pageVars
       PROVE  Server!Next
  BY <1>13, <1>14, <1>18, <1>21
<1> QED BY <1>16, <1>17, <1>19, <1>20, <1>21 DEF ComposerNext

LEMMA ComposerStartsSafe ==
    ASSUME ComposerConstants, ComposerInit
    PROVE  ComposerSafe /\ Server!Init
<1>1. Safe
  BY InitIsSafe DEF ComposerInit
<1>2. ComposerSafe
  BY <1>1 DEF ComposerInit, ComposerSafe, ComposerTypeOK, Safe
<1>3. [u \in Editors |-> IF u \in Composers THEN Cached(u) ELSE seen[u]]
          = [u \in Editors |-> None]
  BY DEF ComposerInit, Init, Cached
<1>4. Server!Init
  BY <1>3 DEF ComposerInit, Init, Server!Init
<1> QED BY <1>2, <1>4

(* Whatever a composer and its cache do, every value has its type, and no   *)
(* composer on screen is without data.                                      *)
THEOREM ComposerTypes ==
    ASSUME ComposerConstants
    PROVE  ComposerSpec => []ComposerTypeOK
<1>1. ComposerSafe /\ [ComposerNext]_composerVars => ComposerSafe'
  BY ComposerNextSafe
<1>2. ComposerInit => ComposerSafe
  BY ComposerStartsSafe
<1>3. ComposerSafe => ComposerTypeOK
  BY DEF ComposerSafe
<1> QED BY <1>1, <1>2, <1>3, PTL DEF ComposerSpec

(* A composer is an editor whose memory is the query cache: refetches,      *)
(* mounts, reloads and lost answers in any order are reads, commands or     *)
(* stutters of the editor the server's guarantees are stated for.           *)
THEOREM ComposerIsAnEditor ==
    ASSUME ComposerConstants
    PROVE  ComposerSpec => CacheIsTheEditor
<1>1. ComposerSafe /\ [ComposerNext]_composerVars => ComposerSafe'
  BY ComposerNextSafe
<1>2. ComposerInit => ComposerSafe /\ Server!Init
  BY ComposerStartsSafe
<1>3. ComposerSafe /\ [ComposerNext]_composerVars => [Server!Next]_(Server!vars)
  BY ComposerStepsRefine
<1> QED BY <1>1, <1>2, <1>3, PTL DEF ComposerSpec, CacheIsTheEditor, Server!Spec

-----------------------------------------------------------------------------
(* The sections of the composer.                                             *)

LEMMA SectionConstantsHold ==
    ASSUME SectionConstants
    PROVE
    /\ Lead \in Kinds /\ Optional \subseteq Kinds /\ DefaultBrand \in Brands
    /\ Absent \notin Headings /\ Absent \notin Photos /\ Absent \notin Draft
    /\ MaxImages \in Nat /\ MaxEdits \in Nat /\ MaxSectionEvents \in Nat
BY DEF SectionConstants

LEMMA ListsStayTyped ==
    ASSUME NEW s \in Seq(Section)
    PROVE  /\ \A n \in DOMAIN s : /\ RemoveAt(s, n) \in Seq(Section)
                                  /\ Len(RemoveAt(s, n)) <= Len(s)
                                  /\ [s EXCEPT ![n].shown = ~@] \in Seq(Section)
                                  /\ Len([s EXCEPT ![n].shown = ~@]) = Len(s)
           /\ \A n \in 2 .. Len(s) : /\ Raised(s, n) \in Seq(Section)
                                     /\ Len(Raised(s, n)) = Len(s)
<1>1. ASSUME NEW n \in DOMAIN s
      PROVE  /\ RemoveAt(s, n) \in Seq(Section)
             /\ Len(RemoveAt(s, n)) <= Len(s)
  <2>1. n \in 1 .. Len(s)
    OBVIOUS
  <2>2. RemoveAt(s, n) = RemoveAt(s, n)
    BY DEF RemoveAt, RemoveAt
  <2> DEFINE S == Section
  <2> HIDE DEF S
  <2>3. s \in Seq(S)
    BY DEF S
  <2>4. RemoveAt(s, n) \in Seq(S) /\ Len(RemoveAt(s, n)) = Len(s) - 1
    BY <2>1, <2>3, RemoveAtKeeps
  <2> QED BY <2>2, <2>4 DEF S
<1>2. ASSUME NEW n \in DOMAIN s
      PROVE  /\ [s EXCEPT ![n].shown = ~@] \in Seq(Section)
             /\ Len([s EXCEPT ![n].shown = ~@]) = Len(s)
  <2> DEFINE r == [s[n] EXCEPT !.shown = ~s[n].shown]
  <2>1. s[n] \in Section
    OBVIOUS
  <2>2. r \in Section
    BY <2>1 DEF Section
  <2> HIDE DEF r
  <2>3. [s EXCEPT ![n] = r] \in Seq(Section) /\ Len([s EXCEPT ![n] = r]) = Len(s)
    BY <2>2
  <2> QED BY <2>3 DEF r
<1>3. ASSUME NEW n \in 2 .. Len(s)
      PROVE  Raised(s, n) \in Seq(Section) /\ Len(Raised(s, n)) = Len(s)
  BY DEF Raised
<1> QED BY <1>1, <1>2, <1>3

LEMMA ConfigsOfDrafts ==
    ASSUME SectionConstants, NEW d \in Draft \cup {Absent}
    PROVE  /\ ConfigOf(d) \in Config
           /\ d # Absent => ConfigOf(d) = d.config /\ d \in Draft
<1>1. FirstConfig \in Config
  BY SectionConstantsHold DEF FirstConfig, Config
<1>2. ASSUME d # Absent PROVE ConfigOf(d) = d.config /\ d \in Draft /\ d.config \in Config
  BY <1>2 DEF ConfigOf, Draft
<1> QED BY <1>1, <1>2 DEF ConfigOf

LEMMA ConfigsStayTyped ==
    ASSUME NEW c \in Config
    PROVE  /\ c.sections \in Seq(Section)
           /\ \A s \in Seq(Section) : /\ [c EXCEPT !.sections = s] \in Config
                                               /\ [c EXCEPT !.sections = s].sections = s
           /\ \A b \in Brands : /\ [c EXCEPT !.brand = b] \in Config
                                /\ [c EXCEPT !.brand = b].sections = c.sections
BY DEF Config

LEMMA SavedOverIsADraft ==
    ASSUME SectionConstants, draft \in Draft \cup {Absent}, NEW c \in Config
    PROVE  /\ SavedOver(c) \in Draft /\ SavedOver(c).config = c
           /\ draft # Absent => /\ SavedOver(c).source = draft.source
                                /\ SavedOver(c).lock = draft.lock + 1
<1>1. CASE draft = Absent
  BY <1>1 DEF SavedOver, Draft
<1>2. CASE draft # Absent
  <2>1. draft \in Draft
    BY <1>2
  <2>2. SavedOver(c) = [draft EXCEPT !.lock = draft.lock + 1, !.config = c]
    BY <1>2 DEF SavedOver
  <2>3. draft.lock \in Nat /\ draft.source \in Nat
    BY <2>1 DEF Draft
  <2> DEFINE k == draft.lock + 1
             e == [draft EXCEPT !.lock = k, !.config = c]
  <2>4. k \in Nat
    BY <2>3
  <2> HIDE DEF k
  <2>5. e \in Draft
    BY <2>1, <2>4 DEF Draft
  <2>6. e.config = c /\ e.source = draft.source /\ e.lock = k
    BY <2>1 DEF Draft
  <2>7. SavedOver(c) = e
    BY <2>2 DEF k
  <2> HIDE DEF e
  <2> QED BY <2>5, <2>6, <2>7 DEF k
<1> QED BY <1>1, <1>2

-----------------------------------------------------------------------------
(* The dialog.                                                               *)

LEMMA FormsAreTyped ==
    /\ \A section \in Section : FormOf(section) \in Form
    /\ \A kind \in Kinds : SeedOf(kind) \in Section
    /\ \A kind \in Kinds, form \in Form : SectionOf(kind, form) \in Section
<1>1. ASSUME NEW section \in Section PROVE FormOf(section) \in Form
  <2>1. [says |-> section.heading, padded |-> FALSE] \in Text
    BY DEF Section, Text
  <2>2. section.images \in Seq(Photos)
    BY DEF Section
  <2>3. section.images # <<>> => Head(section.images) \in Photos
    BY <2>2
  <2>4. (IF section.kind = Lead THEN <<>> ELSE section.images) \in Seq(Photos)
    BY <2>2
  <2>5. section.shown \in BOOLEAN
    BY DEF Section
  <2> QED BY <2>1, <2>3, <2>4, <2>5 DEF FormOf, Form
<1>2. ASSUME NEW kind \in Kinds PROVE SeedOf(kind) \in Section
  BY DEF SeedOf, Section
<1>3. ASSUME NEW kind \in Kinds, NEW form \in Form
      PROVE  SectionOf(kind, form) \in Section
  <2>1. form.heading.says \in Headings \cup {Absent}
    BY DEF Form, Text
  <2>2. form.shown \in BOOLEAN /\ form.images \in Seq(Photos) /\ form.image \in Photos \cup {Absent}
    BY DEF Form
  <2>3. (IF kind # Lead THEN form.images
         ELSE IF form.image = Absent THEN <<>> ELSE <<form.image>>) \in Seq(Photos)
    BY <2>2
  <2> QED BY <2>1, <2>2, <2>3 DEF SectionOf, Section
<1> QED BY <1>1, <1>2, <1>3

OpenDialogs ==
    [mode : {"add", "edit"}, place : Nat, kind : Kinds, was : Form, form : Form,
     flagged : BOOLEAN, picking : 0 .. Single, leaving : BOOLEAN]

LEMMA DialogIsOpen ==
    ASSUME sectionDialog \in Dialogs, sectionDialog # NoDialog
    PROVE  sectionDialog \in OpenDialogs
BY DEF Dialogs, OpenDialogs

LEMMA KindNowIsAKind ==
    ASSUME SectionConstants, sectionDialog \in Dialogs, composition \in Config
    PROVE  sectionDialog # NoDialog => KindNow \in Kinds
<1> SUFFICES ASSUME sectionDialog # NoDialog PROVE KindNow \in Kinds
  OBVIOUS
<1>1. sectionDialog.kind \in Kinds
  BY DialogIsOpen DEF OpenDialogs
<1>2. ASSUME sectionDialog.place \in DOMAIN composition.sections
      PROVE  composition.sections[sectionDialog.place].kind \in Kinds
  <2>1. composition.sections \in Seq(Section)
    BY DEF Config
  <2>2. composition.sections[sectionDialog.place] \in Section
    BY <1>2, <2>1
  <2> QED BY <2>2 DEF Section
<1> QED BY <1>1, <1>2, SectionConstantsHold DEF KindNow

DialogKept(d, e) == e \in OpenDialogs /\ e.mode = d.mode /\ e.place = d.place

LEMMA DialogsStayTyped ==
    ASSUME NEW d \in OpenDialogs
    PROVE  /\ \A t \in Text : DialogKept(d, [d EXCEPT !.form.heading = t, !.flagged = FALSE])
           /\ DialogKept(d, [d EXCEPT !.form.shown = ~@])
           /\ \A n \in 0 .. Single : DialogKept(d, [d EXCEPT !.picking = n])
           /\ \A p \in Photos \cup {Absent}, l \in Seq(Photos), n \in 0 .. Single : DialogKept(d, [d EXCEPT !.picking = n, !.form.image = p, !.form.images = l])
           /\ \A p \in Photos \cup {Absent} : DialogKept(d, [d EXCEPT !.form.image = p])
           /\ \A l \in Seq(Photos) : DialogKept(d, [d EXCEPT !.form.images = l])
           /\ \A b \in BOOLEAN : DialogKept(d, [d EXCEPT !.leaving = b])
<1>1. d.form \in Form
  BY DEF OpenDialogs
<1>2. ASSUME NEW t \in Text PROVE DialogKept(d, [d EXCEPT !.form.heading = t, !.flagged = FALSE])
  <2> DEFINE g == [d.form EXCEPT !.heading = t]
  <2>1. g \in Form
    BY <1>1 DEF Form
  <2>2. [d EXCEPT !.form.heading = t, !.flagged = FALSE] = [[d EXCEPT !.form = g] EXCEPT !.flagged = FALSE]
    OBVIOUS
  <2> HIDE DEF g
  <2>3. DialogKept(d, [[d EXCEPT !.form = g] EXCEPT !.flagged = FALSE])
    BY <2>1 DEF OpenDialogs, DialogKept
  <2> QED BY <2>2, <2>3
<1>3. DialogKept(d, [d EXCEPT !.form.shown = ~@])
  <2> DEFINE g == [d.form EXCEPT !.shown = ~d.form.shown]
  <2>1. g \in Form
    BY <1>1 DEF Form
  <2>2. [d EXCEPT !.form.shown = ~@] = [d EXCEPT !.form = g]
    OBVIOUS
  <2> HIDE DEF g
  <2>3. DialogKept(d, [d EXCEPT !.form = g])
    BY <2>1 DEF OpenDialogs, DialogKept
  <2> QED BY <2>2, <2>3
<1>4. ASSUME NEW n \in 0 .. Single PROVE DialogKept(d, [d EXCEPT !.picking = n])
  BY DEF OpenDialogs, DialogKept
<1>5. ASSUME NEW p \in Photos \cup {Absent}, NEW l \in Seq(Photos), NEW n \in 0 .. Single
      PROVE  DialogKept(d, [d EXCEPT !.picking = n, !.form.image = p, !.form.images = l])
  <2> DEFINE g == [d.form EXCEPT !.image = p, !.images = l]
             e == [d EXCEPT !.picking = n]
  <2>1. g \in Form
    BY <1>1 DEF Form
  <2>2. [d EXCEPT !.picking = n, !.form.image = p, !.form.images = l] = [e EXCEPT !.form = g]
    BY DEF OpenDialogs
  <2> HIDE DEF g
  <2>3. DialogKept(d, [e EXCEPT !.form = g])
    BY <2>1 DEF OpenDialogs, DialogKept
  <2> QED BY <2>2, <2>3
<1>6. ASSUME NEW p \in Photos \cup {Absent} PROVE DialogKept(d, [d EXCEPT !.form.image = p])
  <2> DEFINE g == [d.form EXCEPT !.image = p]
  <2>1. g \in Form
    BY <1>1 DEF Form
  <2>2. [d EXCEPT !.form.image = p] = [d EXCEPT !.form = g]
    OBVIOUS
  <2> HIDE DEF g
  <2>3. DialogKept(d, [d EXCEPT !.form = g])
    BY <2>1 DEF OpenDialogs, DialogKept
  <2> QED BY <2>2, <2>3
<1>7. ASSUME NEW l \in Seq(Photos) PROVE DialogKept(d, [d EXCEPT !.form.images = l])
  <2> DEFINE g == [d.form EXCEPT !.images = l]
  <2>1. g \in Form
    BY <1>1 DEF Form
  <2>2. [d EXCEPT !.form.images = l] = [d EXCEPT !.form = g]
    OBVIOUS
  <2> HIDE DEF g
  <2>3. DialogKept(d, [d EXCEPT !.form = g])
    BY <2>1 DEF OpenDialogs, DialogKept
  <2> QED BY <2>2, <2>3
<1>8. ASSUME NEW b \in BOOLEAN PROVE DialogKept(d, [d EXCEPT !.leaving = b])
  BY DEF OpenDialogs, DialogKept
<1> QED BY <1>2, <1>3, <1>4, <1>5, <1>6, <1>7, <1>8

LEMMA OpenedIsTyped ==
    ASSUME SectionConstants, NEW mode \in {"add", "edit"}, NEW place \in Nat, NEW section \in Section
    PROVE  LET d == DialogOver(mode, place, section)
           IN  d \in OpenDialogs /\ d.mode = mode /\ d.place = place
<1>1. FormOf(section) \in Form
  BY FormsAreTyped
<1>2. section.kind \in Kinds
  BY DEF Section
<1>3. 0 \in 0 .. Single
  BY SectionConstantsHold DEF Single
<1>4. (mode = "edit" /\ place \in faults) \in BOOLEAN
  OBVIOUS
<1> QED BY <1>1, <1>2, <1>3, <1>4 DEF DialogOver, OpenDialogs, Nobody

\* What an action of the dialog leaves in front of the list.
DialogActions ==
    \/ OpenSection \/ TypeHeading \/ ShowOrHide \/ OpenPicker
    \/ Pick \/ RemovePhoto \/ MovePhoto
    \/ CloseSection \/ AnswerLeaving

Stays == sectionDialog # NoDialog /\ sectionDialog'.mode = sectionDialog.mode
                                           /\ sectionDialog'.place = sectionDialog.place
Opens ==
    /\ OnList /\ CanEdit
    /\ \/ sectionDialog'.mode = "edit" /\ sectionDialog'.place \in DOMAIN composition.sections
       \/ /\ sectionDialog'.mode = "add"
          /\ Saving => Len(composition.sections) <= Len(sending.config.sections)

LEMMA DialogStep ==
    ASSUME SectionConstants, sectionDialog \in Dialogs, composition \in Config, DialogActions
    PROVE  \/ sectionDialog' = NoDialog
           \/ sectionDialog' \in OpenDialogs /\ (Stays \/ Opens)
<1>1. ASSUME InDialog \/ sectionDialog # NoDialog
      PROVE  sectionDialog \in OpenDialogs /\ sectionDialog.form.images \in Seq(Photos)
             /\ sectionDialog.form.image \in Photos \cup {Absent} /\ sectionDialog # NoDialog
  <2>1. sectionDialog \in OpenDialogs /\ sectionDialog # NoDialog
    BY <1>1, DialogIsOpen DEF InDialog
  <2>2. sectionDialog.form \in Form
    BY <2>1 DEF OpenDialogs
  <2> QED BY <2>1, <2>2 DEF Form
<1>2. CASE OpenSection
  <2>1. CASE \E n \in DOMAIN composition.sections :
                sectionDialog' = DialogOver("edit", n, composition.sections[n])
    <3>1. PICK n \in DOMAIN composition.sections :
                sectionDialog' = DialogOver("edit", n, composition.sections[n])
      BY <2>1
    <3>2. composition.sections \in Seq(Section)
      BY ConfigsStayTyped
    <3>3. n \in Nat /\ composition.sections[n] \in Section
      BY <3>2
    <3>4. sectionDialog' \in OpenDialogs /\ sectionDialog'.mode = "edit" /\ sectionDialog'.place = n
      BY <3>1, <3>3, OpenedIsTyped
    <3> QED BY <1>2, <3>4 DEF Opens, OpenSection
  <2>2. CASE /\ Saving => Len(composition.sections) <= Len(sending.config.sections)
             /\ \E kind \in Kinds \ KindsIn(composition.sections) :
                   sectionDialog' = DialogOver("add", 0, SeedOf(kind))
    <3>1. PICK kind \in Kinds : sectionDialog' = DialogOver("add", 0, SeedOf(kind))
      BY <2>2
    <3>2. sectionDialog' \in OpenDialogs /\ sectionDialog'.mode = "add"
      BY <3>1, FormsAreTyped, OpenedIsTyped
    <3> QED BY <1>2, <2>2, <3>2 DEF Opens, OpenSection
  <2> QED BY <1>2, <2>1, <2>2 DEF OpenSection
<1>3. CASE TypeHeading
  <2>1. InDialog
    BY <1>3 DEF TypeHeading
  <2>2. PICK t \in Text : sectionDialog' = [sectionDialog EXCEPT !.form.heading = t, !.flagged = FALSE]
    BY <1>3 DEF TypeHeading
  <2>3. DialogKept(sectionDialog, sectionDialog')
    BY <1>1, <2>1, <2>2, DialogsStayTyped
  <2> QED BY <1>1, <2>1, <2>3 DEF DialogKept, Stays
<1>4. CASE ShowOrHide
  BY <1>1, <1>4, DialogsStayTyped DEF DialogKept, ShowOrHide, Stays
<1>5. CASE OpenPicker
  <2>1. PICK n \in 1 .. Single : sectionDialog' = [sectionDialog EXCEPT !.picking = n]
    BY <1>5 DEF OpenPicker
  <2>2. n \in 0 .. Single
    BY SectionConstantsHold DEF Single
  <2> QED BY <1>1, <1>5, <2>1, <2>2, DialogsStayTyped DEF DialogKept, OpenPicker, Stays
<1>6. CASE Pick
  <2>1. sectionDialog # NoDialog
    BY <1>6 DEF Pick
  <2>2. Nobody \in 0 .. Single
    BY SectionConstantsHold DEF Single, Nobody
  <2>3. CASE sectionDialog' = [sectionDialog EXCEPT !.picking = Nobody]
    BY <1>1, <2>1, <2>2, <2>3, DialogsStayTyped DEF DialogKept, Stays
  <2>4. CASE \E p \in Photos :
             sectionDialog' = [sectionDialog EXCEPT
                !.picking = Nobody,
                !.form.image = IF sectionDialog.picking = Single THEN p ELSE @,
                !.form.images = IF sectionDialog.picking = Single THEN @
                                ELSE IF sectionDialog.picking = Several THEN Append(@, p)
                                ELSE [@ EXCEPT ![sectionDialog.picking] = p]]
    <3> DEFINE k == sectionDialog.picking
               l == sectionDialog.form.images
    <3>1. PICK p \in Photos :
             sectionDialog' = [sectionDialog EXCEPT
                !.picking = Nobody,
                !.form.image = IF k = Single THEN p ELSE sectionDialog.form.image,
                !.form.images = IF k = Single THEN l
                                ELSE IF k = Several THEN Append(l, p) ELSE [l EXCEPT ![k] = p]]
      BY <2>4
    <3>2. l \in Seq(Photos) /\ sectionDialog \in OpenDialogs
          /\ sectionDialog.form.image \in Photos \cup {Absent}
      BY <1>1, <2>1
    <3> DEFINE image == IF k = Single THEN p ELSE sectionDialog.form.image
               images == IF k = Single THEN l
                         ELSE IF k = Several THEN Append(l, p) ELSE [l EXCEPT ![k] = p]
    <3>3. image \in Photos \cup {Absent}
      BY <3>2
    <3>4. images \in Seq(Photos)
      <4>1. Append(l, p) \in Seq(Photos)
        BY <3>2
      <4>2. [l EXCEPT ![k] = p] \in Seq(Photos)
        <5> HIDE DEF l
        <5>1. DOMAIN [l EXCEPT ![k] = p] = 1 .. Len(l)
          BY <3>2
        <5>2. \A m \in 1 .. Len(l) : [l EXCEPT ![k] = p][m] \in Photos
          BY <3>2
        <5>3. [l EXCEPT ![k] = p] = [m \in 1 .. Len(l) |-> [l EXCEPT ![k] = p][m]]
          BY <5>1
        <5> DEFINE r == [l EXCEPT ![k] = p]
        <5>4. Len(l) \in Nat
          BY <3>2
        <5> HIDE DEF r
        <5>5. [m \in 1 .. Len(l) |-> r[m]] \in Seq(Photos)
          BY <5>2, <5>4 DEF r
        <5> QED BY <5>3, <5>5 DEF r
      <4> QED BY <3>2, <4>1, <4>2
    <3>5. sectionDialog' = [sectionDialog EXCEPT !.picking = Nobody, !.form.image = image,
                                                 !.form.images = images]
      BY <3>1
    <3> HIDE DEF k, l, image, images
    <3>6. DialogKept(sectionDialog, sectionDialog')
      BY <2>2, <3>2, <3>3, <3>4, <3>5, DialogsStayTyped
    <3> QED BY <2>1, <3>6 DEF DialogKept, Stays
  <2> QED BY <1>6, <2>3, <2>4 DEF Pick
<1>7. CASE RemovePhoto
  <2>1. InDialog
    BY <1>7 DEF RemovePhoto
  <2>2. CASE sectionDialog' = [sectionDialog EXCEPT !.form.image = Absent]
    BY <1>1, <2>1, <2>2, DialogsStayTyped DEF DialogKept, Stays
  <2>3. CASE \E n \in DOMAIN sectionDialog.form.images :
                sectionDialog' = [sectionDialog EXCEPT !.form.images = RemoveAt(@, n)]
    <3> DEFINE l == sectionDialog.form.images
    <3>1. PICK n \in DOMAIN l : sectionDialog' = [sectionDialog EXCEPT !.form.images = RemoveAt(l, n)]
      BY <2>3
    <3>2. l \in Seq(Photos)
      BY <1>1, <2>1
    <3>3. n \in 1 .. Len(l)
      BY <3>2
    <3>4. RemoveAt(l, n) \in Seq(Photos)
      BY <3>2, <3>3, RemoveAtKeeps
    <3>5. RemoveAt(l, n) = RemoveAt(l, n)
      BY DEF RemoveAt, RemoveAt
    <3> DEFINE r == RemoveAt(l, n)
    <3>6. r \in Seq(Photos) /\ sectionDialog' = [sectionDialog EXCEPT !.form.images = r]
      BY <3>1, <3>4, <3>5
    <3> HIDE DEF l, r
    <3>7. DialogKept(sectionDialog, sectionDialog')
      BY <1>1, <2>1, <3>6, DialogsStayTyped
    <3> QED BY <1>1, <2>1, <3>7 DEF DialogKept, Stays
  <2> QED BY <1>7, <2>2, <2>3 DEF RemovePhoto
<1>8. CASE MovePhoto
  <2>1. InDialog
    BY <1>8 DEF MovePhoto
  <2> DEFINE l == sectionDialog.form.images
  <2>2. PICK n \in 2 .. Len(l) : sectionDialog' = [sectionDialog EXCEPT !.form.images = Raised(l, n)]
    BY <1>8 DEF MovePhoto
  <2>3. l \in Seq(Photos)
    BY <1>1, <2>1
  <2>4. Raised(l, n) \in Seq(Photos)
    BY <2>3 DEF Raised
  <2> HIDE DEF l
  <2> QED BY <1>1, <2>1, <2>2, <2>4, DialogsStayTyped DEF DialogKept, Stays
<1>9. CASE CloseSection
  BY <1>1, <1>9, DialogsStayTyped DEF DialogKept, CloseSection, Stays
<1>10. CASE AnswerLeaving
  BY <1>1, <1>10, DialogsStayTyped DEF DialogKept, AnswerLeaving, Stays
<1> QED BY <1>2, <1>3, <1>4, <1>5, <1>6, <1>7, <1>8, <1>9, <1>10 DEF DialogActions

\* A draft that was read is what the server has, or an earlier one.
Reads(d) ==
    d # Absent =>
        /\ draft # Absent
        /\ \/ d.source < draft.source
           \/ d.source = draft.source /\ (d.lock < draft.lock \/ d = draft)

SectionsTyped ==
    /\ draft \in Draft \cup {Absent} /\ known \in Draft \cup {Absent}
    /\ live \in Config \cup {Absent}
    /\ composition \in Config /\ pristine \in Config
    /\ sectionDialog \in Dialogs /\ faults \subseteq Nat
    /\ outdated \in BOOLEAN /\ strayed \in BOOLEAN
    /\ edits \in 0 .. MaxEdits /\ sectionEvents \in 0 .. MaxSectionEvents
    /\ Saving => sending.config \in Config
    /\ sending.phase = "done" => sending.view \in Draft /\ sending.view.config = sending.config
    /\ publishing.phase = "done" => publishing.view \in Draft

\* What keeps a dialog over a section, or over the place behind the last.
DialogFits ==
    /\ publishing # Idle => ~Saving /\ sectionDialog = NoDialog
    /\ outdated => ~Saving
    /\ sectionDialog.mode = "edit" => sectionDialog.place \in 1 .. Len(composition.sections) + 1
    /\ Saving =>
          /\ Len(composition.sections) <= Len(sending.config.sections) + 1
          /\ sectionDialog.mode = "add" => Len(composition.sections) <= Len(sending.config.sections)
          /\ sectionDialog.mode = "edit" => sectionDialog.place \in DOMAIN composition.sections

\* What keeps the form on the draft that it came from.
FormIsRead ==
    /\ Reads(known)
    /\ sending.phase = "done" => Reads(sending.view)
    /\ publishing.phase = "done" => Reads(publishing.view)
    /\ publishing.phase \in {"asked", "sent"} => known # Absent /\ composition = pristine
    /\ publishing.phase = "sent" => publishing.token = known.lock
    /\ ~strayed => /\ known # Absent => pristine = known.config
                   /\ publishing.phase = "done" => publishing.view.config = pristine

SectionsKnow == SectionsTyped /\ DialogFits /\ FormIsRead

LEMMA NoneIsIdle ==
    /\ Idle.phase = "none" /\ NoDialog.mode = "none"
    /\ publishing.phase # "none" => publishing # Idle
    /\ sectionDialog.mode # "none" => sectionDialog # NoDialog
BY DEF Idle, NoDialog

LEMMA LengthsAreNumbers ==
    ASSUME NEW c \in Config
    PROVE  /\ Len(c.sections) \in Nat /\ DOMAIN c.sections = 1 .. Len(c.sections)
           /\ FaultsOf(c) \subseteq Nat
BY DEF Config, FaultsOf

LEMMA SectionsCounted ==
    ASSUME SectionConstants, SectionsTyped
    PROVE  /\ EditMade \/ UNCHANGED edits => edits' \in 0 .. MaxEdits
           /\ Occurred \/ UNCHANGED sectionEvents => sectionEvents' \in 0 .. MaxSectionEvents
BY SectionConstantsHold DEF SectionsTyped, EditMade, Occurred

LEMMA SectionsStart == SectionConstants /\ SectionInit => SectionsKnow
<1> SUFFICES ASSUME SectionConstants, SectionInit PROVE SectionsKnow
  OBVIOUS
<1>1. draft \in Draft \cup {Absent}
  <2>1. SUFFICES ASSUME NEW h \in Headings \ TooLong, NEW kind \in Optional,
                        draft = [lock |-> 1, source |-> 0,
                                 config |-> [brand |-> DefaultBrand, carried |-> TRUE,
                                             sections |-> <<[SeedOf(Lead) EXCEPT !.heading = h],
                                                            SeedOf(kind)>>]]
                 PROVE  draft \in Draft
    BY DEF SectionInit
  <2>2. SeedOf(kind) \in Section /\ SeedOf(Lead) \in Section
    BY FormsAreTyped, SectionConstantsHold
  <2>3. [SeedOf(Lead) EXCEPT !.heading = h] \in Section
    BY <2>2 DEF Section
  <2> DEFINE s == <<[SeedOf(Lead) EXCEPT !.heading = h], SeedOf(kind)>>
  <2>4. s \in Seq(Section)
    BY <2>2, <2>3
  <2> HIDE DEF s
  <2>5. [brand |-> DefaultBrand, carried |-> TRUE, sections |-> s] \in Config
    BY <2>4, SectionConstantsHold DEF Config
  <2> QED BY <2>1, <2>5 DEF Draft, s
<1>2. ConfigOf(draft) \in Config
  BY <1>1, ConfigsOfDrafts
<1>3. NoDialog \in Dialogs
  BY DEF Dialogs
<1>4. SectionsTyped
  <2>1. outdated \in BOOLEAN /\ strayed \in BOOLEAN
    BY DEF SectionInit
  <2>2. edits \in 0 .. MaxEdits /\ sectionEvents \in 0 .. MaxSectionEvents /\ faults \subseteq Nat
    BY SectionConstantsHold DEF SectionInit
  <2>3. sending.phase = "none" /\ publishing.phase = "none"
    BY NoneIsIdle DEF SectionInit
  <2>4. /\ known \in Draft \cup {Absent} /\ live \in Config \cup {Absent}
        /\ composition \in Config /\ pristine \in Config
        /\ sectionDialog \in Dialogs
    BY <1>1, <1>2, <1>3 DEF SectionInit
  <2> QED BY <1>1, <2>1, <2>2, <2>3, <2>4 DEF SectionsTyped, Saving
<1>5. DialogFits
  BY NoneIsIdle DEF SectionInit, DialogFits, Saving
<1>6. FormIsRead
  BY <1>1, ConfigsOfDrafts, NoneIsIdle DEF SectionInit, FormIsRead, Reads
<1> QED BY <1>4, <1>5, <1>6 DEF SectionsKnow

LEMMA DialogStepKeeps ==
    ASSUME SectionConstants, SectionsKnow, DialogActions
    PROVE  SectionsKnow'
<1>1. /\ UNCHANGED <<draft, live, known, composition, pristine, strayed, faults, sending, publishing,
                     outdated, sectionEvents>>
      /\ EditMade \/ UNCHANGED edits
  BY DEF DialogActions, OpenSection, TypeHeading, ShowOrHide,
     OpenPicker, Pick, RemovePhoto, MovePhoto,
     CloseSection, AnswerLeaving, DialogOnly, serverVars,
     formVars, callVars
<1>2. \/ sectionDialog' = NoDialog
      \/ sectionDialog' \in OpenDialogs /\ (Stays \/ Opens)
  BY DialogStep DEF SectionsKnow, SectionsTyped
<1>3. sectionDialog' \in Dialogs
  BY <1>2 DEF Dialogs, OpenDialogs
<1>4. SectionsTyped'
  BY <1>1, <1>3, SectionsCounted DEF SectionsKnow, SectionsTyped, Saving
<1>5. FormIsRead'
  BY <1>1 DEF SectionsKnow, FormIsRead, Reads
<1>6. DialogFits'
  <2>1. CASE sectionDialog' = NoDialog
    BY <1>1, <2>1, NoneIsIdle DEF SectionsKnow, DialogFits, Saving
  <2>2. CASE Stays
    BY <1>1, <2>2 DEF SectionsKnow, DialogFits, Saving, Stays
  <2>3. CASE Opens /\ sectionDialog' \in OpenDialogs
    <3>1. publishing = Idle
      BY <2>3 DEF Opens, OnList
    <3>2. Len(composition.sections) \in Nat /\ DOMAIN composition.sections = 1 .. Len(composition.sections)
      BY LengthsAreNumbers DEF SectionsKnow, SectionsTyped
    <3> QED BY <1>1, <2>3, <3>1, <3>2 DEF SectionsKnow, DialogFits, Saving, Opens
  <2> QED BY <1>2, <2>1, <2>2, <2>3
<1> QED BY <1>4, <1>5, <1>6 DEF SectionsKnow

\* What edits the list in front of the user.
LEMMA EditedListKeeps ==
    ASSUME SectionConstants, SectionsKnow, OnList, composition' \in Config, faults' \subseteq Nat,
           Len(composition'.sections) <= Len(composition.sections), EditMade,
           UNCHANGED <<draft, live, known, pristine, strayed, sectionDialog, sending, publishing,
                       outdated, sectionEvents>>
    PROVE  SectionsKnow'
<1>1. publishing = Idle /\ sectionDialog = NoDialog
  BY DEF OnList
<1>2. SectionsTyped'
  BY SectionsCounted DEF SectionsKnow, SectionsTyped, Saving
<1>3. FormIsRead'
  BY <1>1, NoneIsIdle DEF SectionsKnow, FormIsRead, Reads
<1>4. Len(composition.sections) \in Nat /\ Len(composition'.sections) \in Nat
  BY LengthsAreNumbers DEF SectionsKnow, SectionsTyped
<1>5. Saving => Len(sending.config.sections) \in Nat
  BY LengthsAreNumbers DEF SectionsKnow, SectionsTyped
<1>6. DialogFits'
  BY <1>1, <1>4, <1>5, NoneIsIdle DEF SectionsKnow, DialogFits, Saving
<1> QED BY <1>2, <1>3, <1>6 DEF SectionsKnow

LEMMA ListStepKeeps ==
    ASSUME SectionConstants, SectionsKnow,
           \/ \E n \in DOMAIN composition.sections :
                 RemoveSection(n) \/ MoveSection(n) \/ ToggleSection(n)
           \/ ChooseBrand
    PROVE  SectionsKnow'
<1> DEFINE s == composition.sections
<1>0. composition \in Config /\ s \in Seq(Section) /\ DOMAIN s = 1 .. Len(s) /\ Len(s) \in Nat
  BY ConfigsStayTyped, LengthsAreNumbers DEF SectionsKnow, SectionsTyped
<1>1. ASSUME NEW l \in Seq(Section), Len(l) <= Len(s), ChangeList(l)
      PROVE  SectionsKnow'
  <2>1. /\ composition' = [composition EXCEPT !.sections = l]
        /\ OnList /\ EditMade /\ faults' = {}
        /\ UNCHANGED <<draft, live, known, pristine, strayed, sectionDialog, sending, publishing,
                       outdated, sectionEvents>>
    BY <1>1 DEF ChangeList, serverVars, callVars
  <2>2. composition' \in Config /\ composition'.sections = l
    BY <1>0, <2>1, ConfigsStayTyped
  <2> QED BY <1>1, <2>1, <2>2, EditedListKeeps
<1>2. ASSUME NEW n \in DOMAIN s, RemoveSection(n) PROVE SectionsKnow'
  BY <1>0, <1>1, <1>2, ListsStayTyped DEF RemoveSection
<1>3. ASSUME NEW n \in DOMAIN s, MoveSection(n) PROVE SectionsKnow'
  <2>1. n \in 2 .. Len(s) /\ ChangeList(Raised(s, n))
    BY <1>3 DEF MoveSection
  <2>2. Raised(s, n) \in Seq(Section) /\ Len(Raised(s, n)) = Len(s)
    BY <1>0, <2>1, ListsStayTyped
  <2>3. Len(Raised(s, n)) <= Len(s)
    BY <1>0, <2>2
  <2> QED BY <1>1, <2>1, <2>2, <2>3
<1>4. ASSUME NEW n \in DOMAIN s, ToggleSection(n) PROVE SectionsKnow'
  <2> DEFINE l == [s EXCEPT ![n].shown = ~@]
  <2>1. ChangeList(l)
    BY <1>4 DEF ToggleSection
  <2>2. l \in Seq(Section) /\ Len(l) = Len(s)
    BY <1>0, <1>4, ListsStayTyped
  <2> HIDE DEF l
  <2>3. Len(l) <= Len(s)
    BY <1>0, <2>2
  <2> QED BY <1>1, <2>1, <2>2, <2>3
<1>5. ASSUME ChooseBrand PROVE SectionsKnow'
  <2>1. PICK b \in Brands : composition' = [composition EXCEPT !.brand = b]
    BY <1>5 DEF ChooseBrand
  <2>2. /\ OnList /\ EditMade
        /\ UNCHANGED <<draft, live, known, pristine, strayed, sectionDialog, faults, sending, publishing,
                       outdated, sectionEvents>>
    BY <1>5 DEF ChooseBrand, serverVars, callVars
  <2>3. composition' \in Config /\ composition'.sections = s
    BY <1>0, <2>1, ConfigsStayTyped
  <2>4. faults' \subseteq Nat /\ Len(composition'.sections) <= Len(s)
    BY <1>0, <2>2, <2>3 DEF SectionsKnow, SectionsTyped
  <2> QED BY <2>2, <2>3, <2>4, EditedListKeeps
<1> QED BY <1>2, <1>3, <1>4, <1>5

LEMMA ApplyKeeps == ASSUME SectionConstants, SectionsKnow, ApplySection PROVE SectionsKnow'
<1> DEFINE s == composition.sections
           section == SectionOf(KindNow, sectionDialog.form)
           place == sectionDialog.place
<1>1. /\ UNCHANGED <<draft, live, known, pristine, strayed, sending, publishing, outdated, edits,
                     sectionEvents>>
      /\ sectionDialog' = NoDialog /\ sectionDialog # NoDialog
  BY DEF ApplySection, InDialog, serverVars, callVars
<1>2. composition \in Config /\ s \in Seq(Section) /\ DOMAIN s = 1 .. Len(s) /\ Len(s) \in Nat
  BY ConfigsStayTyped, LengthsAreNumbers DEF SectionsKnow, SectionsTyped
<1>3. sectionDialog \in OpenDialogs /\ sectionDialog.form \in Form /\ sectionDialog.mode \in {"add", "edit"}
  <2>1. sectionDialog \in OpenDialogs
    BY <1>1, DialogIsOpen DEF SectionsKnow, SectionsTyped
  <2> QED BY <2>1 DEF OpenDialogs
<1>4. section \in Section
  BY <1>1, <1>2, <1>3, KindNowIsAKind, FormsAreTyped DEF SectionsKnow, SectionsTyped
<1>5. publishing = Idle
  BY <1>1 DEF SectionsKnow, DialogFits
<1>6. faults' \subseteq Nat
  BY DEF ApplySection, SectionsKnow, SectionsTyped
<1>7. /\ composition' \in Config
      /\ \/ Len(composition'.sections) = Len(s)
         \/ /\ Len(composition'.sections) = Len(s) + 1
            /\ sectionDialog.mode = "add" \/ place \notin DOMAIN s
  <2>1. CASE sectionDialog.mode = "edit" /\ place \in DOMAIN s
    <3> DEFINE l == [s EXCEPT ![place] = section]
    <3>1. composition' = [composition EXCEPT !.sections[place] = section]
      BY <2>1 DEF ApplySection
    <3>2. composition' = [composition EXCEPT !.sections = l]
      BY <3>1
    <3> HIDE DEF section
    <3>3. l \in Seq(Section) /\ Len(l) = Len(s)
      <4> HIDE DEF s, place
      <4> QED BY <1>2, <1>4, <2>1
    <3> HIDE DEF l
    <3>4. composition' \in Config /\ composition'.sections = l
      BY <1>2, <3>2, <3>3, ConfigsStayTyped
    <3> QED BY <3>3, <3>4
  <2>2. CASE ~(sectionDialog.mode = "edit" /\ place \in DOMAIN s)
    <3> DEFINE l == Append(s, section)
    <3>1. composition' = [composition EXCEPT !.sections = l]
      BY <2>2 DEF ApplySection
    <3>2. l \in Seq(Section) /\ Len(l) = Len(s) + 1
      BY <1>2, <1>4
    <3> HIDE DEF l
    <3>3. composition' \in Config /\ composition'.sections = l
      BY <1>2, <3>1, <3>2, ConfigsStayTyped
    <3> QED BY <1>3, <2>2, <3>2, <3>3
  <2> QED BY <2>1, <2>2
<1>8. sectionDialog' \in Dialogs
  BY <1>1 DEF Dialogs
<1>9. SectionsTyped'
  BY <1>1, <1>6, <1>7, <1>8 DEF SectionsKnow, SectionsTyped, Saving
<1>10. FormIsRead'
  BY <1>1, <1>5, NoneIsIdle DEF SectionsKnow, FormIsRead, Reads
<1>11. Saving => Len(sending.config.sections) \in Nat
  BY LengthsAreNumbers DEF SectionsKnow, SectionsTyped
<1>12. DialogFits'
  BY <1>1, <1>2, <1>3, <1>5, <1>7, <1>11, NoneIsIdle DEF SectionsKnow, DialogFits, Saving
<1> QED BY <1>9, <1>10, <1>12 DEF SectionsKnow

\* The server's draft moves on.
Grows ==
    draft # Absent => /\ draft' # Absent
                      /\ \/ draft' = draft
                         \/ draft.source < draft'.source
                         \/ draft.source = draft'.source /\ draft.lock < draft'.lock

LEMMA ReadsStay ==
    ASSUME SectionConstants, SectionsTyped, draft' \in Draft \cup {Absent}, Grows,
           NEW d \in Draft \cup {Absent}, Reads(d)
    PROVE  d # Absent => /\ draft' # Absent
                         /\ \/ d.source < draft'.source
                            \/ d.source = draft'.source /\ (d.lock < draft'.lock \/ d = draft')
<1> SUFFICES ASSUME d # Absent
             PROVE  /\ draft' # Absent
                    /\ \/ d.source < draft'.source
                       \/ d.source = draft'.source /\ (d.lock < draft'.lock \/ d = draft')
  OBVIOUS
<1>1. draft # Absent /\ draft' # Absent
  BY DEF Reads, Grows
<1>2. \A e \in {d, draft, draft'} : e.source \in Nat /\ e.lock \in Nat
  BY <1>1 DEF SectionsTyped, Draft
<1> QED BY <1>1, <1>2 DEF Reads, Grows

LEMMA SaveKeeps == ASSUME SectionConstants, SectionsKnow, SaveComposition PROVE SectionsKnow'
<1>1. /\ UNCHANGED <<draft, live, known, composition, pristine, strayed, faults, sectionDialog,
                     publishing, outdated, sectionEvents>>
      /\ EditMade /\ publishing = Idle /\ sectionDialog = NoDialog /\ ~outdated
      /\ sending'.phase = "sent" /\ sending'.config = composition
  BY DEF SaveComposition, OnList, serverVars, formVars
<1>2. SectionsTyped'
  BY <1>1, SectionsCounted DEF SectionsKnow, SectionsTyped, Saving
<1>3. FormIsRead'
  BY <1>1 DEF SectionsKnow, FormIsRead, Reads
<1>4. Len(composition.sections) \in Nat
  BY LengthsAreNumbers DEF SectionsKnow, SectionsTyped
<1>5. DialogFits'
  BY <1>1, <1>4, NoneIsIdle DEF SectionsKnow, DialogFits, Saving
<1> QED BY <1>2, <1>3, <1>5 DEF SectionsKnow

\* What becomes of the save on the server, or on the way from it.
LEMMA AnsweredKeeps ==
    ASSUME SectionConstants, SectionsKnow, Saving, sending'.config = sending.config, sending'.phase # "none",
           sending'.phase = "done" => /\ draft' # Absent /\ sending'.view = draft'
                                      /\ draft'.config = sending.config,
           draft' \in Draft \cup {Absent}, Grows,
           Occurred \/ UNCHANGED sectionEvents,
           UNCHANGED <<live, known, composition, pristine, strayed, faults, sectionDialog, publishing,
                       outdated, edits>>
    PROVE  SectionsKnow'
<1>1. publishing = Idle /\ ~outdated
  BY DEF SectionsKnow, DialogFits
<1>2. SectionsTyped'
  BY <1>1, SectionsCounted, NoneIsIdle DEF SectionsKnow, SectionsTyped, Saving
<1>3. Reads(known)'
  BY ReadsStay DEF SectionsKnow, SectionsTyped, FormIsRead, Reads
<1>4. FormIsRead'
  BY <1>1, <1>3, NoneIsIdle DEF SectionsKnow, FormIsRead, Reads
<1>5. DialogFits'
  BY <1>1 DEF SectionsKnow, DialogFits, Saving
<1> QED BY <1>2, <1>4, <1>5 DEF SectionsKnow

LEMMA RunSaveKeeps == ASSUME SectionConstants, SectionsKnow, RunSave PROVE SectionsKnow'
<1>1. /\ UNCHANGED <<live, known, composition, pristine, strayed, faults, sectionDialog, publishing,
                     outdated, edits, sectionEvents>>
      /\ Saving
  BY DEF RunSave, formVars, Saving
<1>2. draft \in Draft \cup {Absent} /\ sending.config \in Config
  BY <1>1 DEF SectionsKnow, SectionsTyped
<1>3. CASE \E phase \in {"invalid", "conflict", "refused"} : Answer(phase) /\ UNCHANGED draft
  BY <1>1, <1>2, <1>3, AnsweredKeeps DEF Answer, Grows
<1>4. CASE /\ draft # Absent /\ draft.config = sending.config /\ UNCHANGED draft
           /\ sending' = [phase |-> "done", config |-> sending.config, view |-> draft]
  BY <1>1, <1>2, <1>4, AnsweredKeeps DEF Grows
<1>5. CASE /\ draft' = SavedOver(sending.config)
           /\ sending' = [phase |-> "done", config |-> sending.config, view |-> draft']
  <2>1. draft' \in Draft /\ draft'.config = sending.config /\ draft' # Absent
    BY <1>2, <1>5, SavedOverIsADraft, SectionConstantsHold
  <2>2. Grows
    <3>1. SUFFICES ASSUME draft # Absent PROVE draft.source = draft'.source /\ draft.lock < draft'.lock
      BY <2>1 DEF Grows
    <3>2. draft'.source = draft.source /\ draft'.lock = draft.lock + 1
      BY <1>2, <1>5, <3>1, SavedOverIsADraft
    <3>3. draft.lock \in Nat
      BY <1>2, <3>1 DEF Draft
    <3> QED BY <3>2, <3>3
  <2> QED BY <1>1, <1>5, <2>1, <2>2, AnsweredKeeps
<1> QED BY <1>3, <1>4, <1>5 DEF RunSave, Unchanged

LEMMA AnotherKeeps == ASSUME SectionConstants, SectionsKnow, AnotherSaves PROVE SectionsKnow'
<1>1. /\ UNCHANGED <<live, known, composition, pristine, strayed, faults, sectionDialog, sending,
                     publishing, outdated, edits>>
      /\ Occurred
  BY DEF AnotherSaves, formVars, callVars
<1>2. draft \in Draft \cup {Absent}
  BY DEF SectionsKnow, SectionsTyped
<1>3. PICK b \in Brands : draft' = SavedOver([ConfigOf(draft) EXCEPT !.brand = b])
  BY DEF AnotherSaves
<1>4. [ConfigOf(draft) EXCEPT !.brand = b] \in Config
  BY <1>2, ConfigsOfDrafts, ConfigsStayTyped
<1>5. draft' \in Draft /\ draft' # Absent
  BY <1>2, <1>3, <1>4, SavedOverIsADraft, SectionConstantsHold
<1>6. Grows
  <2>1. SUFFICES ASSUME draft # Absent PROVE draft.source = draft'.source /\ draft.lock < draft'.lock
    BY <1>5 DEF Grows
  <2>2. draft'.source = draft.source /\ draft'.lock = draft.lock + 1
    BY <1>2, <1>3, <1>4, <2>1, SavedOverIsADraft
  <2>3. draft.lock \in Nat
    BY <1>2, <2>1 DEF Draft
  <2> QED BY <2>2, <2>3
<1>7. SectionsTyped'
  BY <1>1, <1>5, SectionsCounted DEF SectionsKnow, SectionsTyped, Saving
<1>8. FormIsRead'
  <2>1. Reads(known)'
    BY <1>1, <1>5, <1>6, ReadsStay DEF SectionsKnow, SectionsTyped, FormIsRead, Reads
  <2>2. sending.phase = "done" => Reads(sending.view)'
    BY <1>1, <1>5, <1>6, ReadsStay DEF SectionsKnow, SectionsTyped, FormIsRead, Reads
  <2>3. publishing.phase = "done" => Reads(publishing.view)'
    BY <1>1, <1>5, <1>6, ReadsStay DEF SectionsKnow, SectionsTyped, FormIsRead, Reads
  <2> QED BY <1>1, <2>1, <2>2, <2>3 DEF SectionsKnow, FormIsRead
<1>9. DialogFits'
  BY <1>1 DEF SectionsKnow, DialogFits, Saving
<1> QED BY <1>7, <1>8, <1>9 DEF SectionsKnow

LEMMA TakeSavedKeeps == ASSUME SectionConstants, SectionsKnow, TakeSaved PROVE SectionsKnow'
<1>1. /\ UNCHANGED <<draft, live, sectionDialog, publishing, outdated, edits, sectionEvents>>
      /\ sending.phase = "done" /\ known' = sending.view /\ composition' = sending.view.config
      /\ pristine' = sending.view.config /\ faults' = {} /\ strayed' = FALSE /\ sending' = Idle
  BY DEF TakeSaved, AfterSave, serverVars
<1>2. sending.view \in Draft /\ sending.view.config = sending.config
      /\ sending.config \in Config /\ Saving
  BY <1>1 DEF SectionsKnow, SectionsTyped, Saving
<1>3. publishing = Idle /\ ~outdated
  BY <1>2 DEF SectionsKnow, DialogFits
<1>4. SectionsTyped'
  BY <1>1, <1>2, <1>3, NoneIsIdle DEF SectionsKnow, SectionsTyped, Saving
<1>5. FormIsRead'
  BY <1>1, <1>3, NoneIsIdle DEF SectionsKnow, FormIsRead, Reads
<1>6. Len(composition.sections) \in Nat /\ Len(sending.config.sections) \in Nat
      /\ DOMAIN composition.sections = 1 .. Len(composition.sections)
  BY <1>2, LengthsAreNumbers DEF SectionsKnow, SectionsTyped
<1>7. DialogFits'
  BY <1>1, <1>2, <1>3, <1>6, NoneIsIdle DEF SectionsKnow, DialogFits, Saving
<1> QED BY <1>4, <1>5, <1>7 DEF SectionsKnow

LEMMA TakeNotSavedKeeps == ASSUME SectionConstants, SectionsKnow, TakeNotSaved PROVE SectionsKnow'
<1>1. /\ UNCHANGED <<draft, live, known, composition, pristine, strayed, sectionDialog, publishing,
                     edits, sectionEvents>>
      /\ sending.phase # "none" /\ sending' = Idle
      /\ faults' = faults \/ faults' = FaultsOf(sending.config)
      /\ outdated' = (outdated \/ sending.phase = "conflict")
  BY DEF TakeNotSaved, serverVars
<1>2. FaultsOf(sending.config) \subseteq Nat
  BY <1>1, LengthsAreNumbers DEF SectionsKnow, SectionsTyped, Saving
<1>3. outdated' \in BOOLEAN
  BY <1>1
<1>4. SectionsTyped'
  BY <1>1, <1>2, <1>3, NoneIsIdle DEF SectionsKnow, SectionsTyped, Saving
<1>5. FormIsRead'
  BY <1>1, NoneIsIdle DEF SectionsKnow, FormIsRead, Reads
<1>6. DialogFits'
  BY <1>1, NoneIsIdle DEF SectionsKnow, DialogFits, Saving
<1> QED BY <1>4, <1>5, <1>6 DEF SectionsKnow

LEMMA ReloadKeeps == ASSUME SectionConstants, SectionsKnow, ReloadDraft PROVE SectionsKnow'
<1>1. /\ UNCHANGED <<draft, live, sectionDialog, sending, publishing, edits, sectionEvents>>
      /\ outdated /\ publishing = Idle /\ sectionDialog = NoDialog
      /\ known' = draft /\ composition' = ConfigOf(draft) /\ pristine' = ConfigOf(draft)
      /\ faults' = {} /\ strayed' = FALSE /\ outdated' = FALSE
  BY DEF ReloadDraft, OnList, serverVars, callVars
<1>2. draft \in Draft \cup {Absent} /\ ~Saving
  BY <1>1 DEF SectionsKnow, SectionsTyped, DialogFits
<1>3. /\ ConfigOf(draft) \in Config
      /\ draft # Absent => ConfigOf(draft) = draft.config
  BY <1>2, ConfigsOfDrafts
<1> DEFINE c == ConfigOf(draft)
<1> HIDE DEF c
<1>4. composition' = c /\ pristine' = c /\ c \in Config /\ (draft # Absent => c = draft.config)
  BY <1>1, <1>3 DEF c
<1>5. SectionsTyped'
  <2>1. outdated' \in BOOLEAN /\ strayed' \in BOOLEAN
    BY <1>1
  <2>2. known' \in Draft \cup {Absent} /\ faults' \subseteq Nat
    BY <1>1, <1>2
  <2>3. sending.phase = "none" /\ publishing.phase = "none" /\ UNCHANGED <<sending, publishing>>
    BY <1>1, <1>2, NoneIsIdle DEF Saving
  <2>4. UNCHANGED <<draft, live, sectionDialog, edits, sectionEvents>>
    BY <1>1
  <2> QED BY <1>4, <2>1, <2>2, <2>3, <2>4 DEF SectionsKnow, SectionsTyped, Saving
<1>6. FormIsRead'
  <2>1. sending.phase = "none" /\ publishing.phase = "none" /\ UNCHANGED <<sending, publishing>>
    BY <1>1, <1>2, NoneIsIdle DEF Saving
  <2>2. Reads(known)'
    BY <1>1 DEF Reads
  <2>3. known' # Absent => pristine' = known'.config
    BY <1>1, <1>4
  <2> QED BY <2>1, <2>2, <2>3 DEF FormIsRead
<1>7. DialogFits'
  BY <1>1, <1>2, NoneIsIdle DEF SectionsKnow, DialogFits, Saving
<1> QED BY <1>5, <1>6, <1>7 DEF SectionsKnow

LEMMA AskKeeps == ASSUME SectionConstants, SectionsKnow, AskPublish PROVE SectionsKnow'
<1>1. /\ UNCHANGED <<draft, live, known, composition, pristine, strayed, faults, sectionDialog, sending,
                     outdated, sectionEvents>>
      /\ EditMade /\ publishing'.phase = "asked" /\ ~Saving
      /\ sectionDialog = NoDialog /\ known # Absent /\ composition = pristine
  BY DEF AskPublish, OnList, serverVars, formVars
<1>2. SectionsTyped'
  BY <1>1, SectionsCounted DEF SectionsKnow, SectionsTyped, Saving
<1>3. FormIsRead'
  BY <1>1 DEF SectionsKnow, FormIsRead, Reads
<1>4. DialogFits'
  BY <1>1, NoneIsIdle DEF SectionsKnow, DialogFits, Saving
<1> QED BY <1>2, <1>3, <1>4 DEF SectionsKnow

LEMMA AnswerKeeps == ASSUME SectionConstants, SectionsKnow, AnswerPublish PROVE SectionsKnow'
<1>1. /\ UNCHANGED <<draft, live, known, composition, pristine, strayed, faults, sectionDialog, sending,
                     outdated, edits, sectionEvents>>
      /\ publishing.phase = "asked"
      /\ \/ publishing' = Idle
         \/ publishing'.phase = "sent" /\ publishing'.token = known.lock
  BY DEF AnswerPublish, serverVars, formVars
<1>2. publishing # Idle /\ publishing'.phase \in {"none", "sent"}
  BY <1>1, NoneIsIdle
<1>3. SectionsTyped'
  BY <1>1, <1>2 DEF SectionsKnow, SectionsTyped, Saving
<1>4. FormIsRead'
  BY <1>1, <1>2, NoneIsIdle DEF SectionsKnow, FormIsRead, Reads
<1>5. DialogFits'
  BY <1>1, <1>2 DEF SectionsKnow, DialogFits, Saving
<1> QED BY <1>3, <1>4, <1>5 DEF SectionsKnow

\* The publication takes the draft that the form shows, unless the form has
\* strayed from it.
LEMMA PublishedIsShown ==
    ASSUME SectionConstants, SectionsKnow, RunPublish
    PROVE  /\ SectionsKnow'
           /\ publishing'.phase = "done" => live' = composition \/ strayed'
<1>1. /\ UNCHANGED <<known, composition, pristine, faults, sectionDialog, sending, outdated, edits,
                     sectionEvents>>
      /\ publishing.phase = "sent"
  BY DEF RunPublish
<1>2. /\ known # Absent /\ composition = pristine /\ publishing.token = known.lock
      /\ Reads(known) /\ draft # Absent /\ publishing # Idle
  BY <1>1, NoneIsIdle DEF SectionsKnow, FormIsRead, Reads
<1>3. /\ draft \in Draft /\ known \in Draft
      /\ draft.lock \in Nat /\ draft.source \in Nat /\ draft.config \in Config /\ known.lock \in Nat
  BY <1>2 DEF SectionsKnow, SectionsTyped, Draft
<1>4. CASE publishing.token = draft.lock
  <2> DEFINE k == draft.source + 1
             e == [draft EXCEPT !.lock = 0, !.source = k]
  <2>1. /\ live' = draft.config /\ draft' = e
        /\ strayed' = (strayed \/ known.source # draft.source)
        /\ publishing'.phase = "done" /\ publishing'.view = draft'
    BY <1>4 DEF RunPublish
  <2>2. k \in Nat /\ draft.source < k
    BY <1>3
  <2> HIDE DEF k
  <2>3. e \in Draft /\ e.source = k /\ e.config = draft.config
    BY <1>3, <2>2 DEF Draft
  <2> HIDE DEF e
  <2>4. ~strayed' => ~strayed /\ known = draft /\ draft.config = pristine
    <3>1. SUFFICES ASSUME ~strayed' PROVE ~strayed /\ known = draft /\ draft.config = pristine
      OBVIOUS
    <3>2. ~strayed /\ known.source = draft.source
      BY <2>1, <3>1
    <3>3. known = draft
      BY <1>2, <1>3, <1>4, <3>2 DEF Reads
    <3> QED BY <1>2, <3>2, <3>3 DEF SectionsKnow, FormIsRead
  <2>5. Grows
    BY <1>2, <2>1, <2>2, <2>3, SectionConstantsHold DEF Grows
  <2>6. Reads(known)'
    BY <1>1, <1>2, <1>3, <2>1, <2>3, <2>5, ReadsStay DEF SectionsKnow, SectionsTyped, Reads
  <2>7. strayed' \in BOOLEAN
    BY <2>1
  <2>8. ~Saving
    BY <1>2 DEF SectionsKnow, DialogFits
  <2>9. SectionsTyped'
    BY <1>1, <1>3, <2>1, <2>3, <2>7, <2>8 DEF SectionsKnow, SectionsTyped, Saving
  <2>10. Reads(publishing.view)'
    BY <2>1, <2>3, SectionConstantsHold DEF Reads
  <2>11. FormIsRead'
    <3>1. ~strayed' => /\ known' # Absent => pristine' = known'.config
                       /\ publishing'.view.config = pristine'
      BY <1>1, <2>1, <2>3, <2>4
    <3>2. sending'.phase = "none"
      BY <1>1, <2>8 DEF Saving
    <3> QED BY <2>1, <2>6, <2>10, <3>1, <3>2 DEF FormIsRead
  <2>12. DialogFits'
    BY <1>1, <1>2, <2>8 DEF SectionsKnow, DialogFits, Saving
  <2>13. live' = composition \/ strayed'
    BY <1>2, <2>1, <2>4
  <2> QED BY <2>9, <2>11, <2>12, <2>13 DEF SectionsKnow
<1>5. CASE publishing.token # draft.lock
  <2>1. publishing'.phase = "conflict" /\ UNCHANGED <<draft, live, strayed>>
    BY <1>5 DEF RunPublish, serverVars
  <2>2. SectionsTyped'
    BY <1>1, <2>1 DEF SectionsKnow, SectionsTyped, Saving
  <2>3. FormIsRead'
    BY <1>1, <2>1 DEF SectionsKnow, FormIsRead, Reads
  <2>4. DialogFits'
    BY <1>1, <1>2, <2>1 DEF SectionsKnow, DialogFits, Saving
  <2> QED BY <2>1, <2>2, <2>3, <2>4 DEF SectionsKnow
<1> QED BY <1>4, <1>5

LEMMA TakePublishedKeeps == ASSUME SectionConstants, SectionsKnow, TakePublished PROVE SectionsKnow'
<1>1. /\ UNCHANGED <<draft, live, composition, pristine, strayed, faults, sectionDialog, sending, edits,
                     sectionEvents>>
      /\ publishing.phase \in {"done", "conflict", "lost"} /\ publishing' = Idle
      /\ outdated' = (publishing.phase = "conflict")
      /\ known' = IF publishing.phase = "done" THEN publishing.view ELSE known
  BY DEF TakePublished, serverVars, formVars
<1>2. publishing # Idle /\ ~Saving /\ sectionDialog = NoDialog
  BY <1>1, NoneIsIdle DEF SectionsKnow, DialogFits
<1>3. outdated' \in BOOLEAN
  BY <1>1
<1>4. SectionsTyped'
  BY <1>1, <1>2, <1>3, NoneIsIdle DEF SectionsKnow, SectionsTyped, Saving
<1>5. FormIsRead'
  BY <1>1, <1>2, NoneIsIdle DEF SectionsKnow, FormIsRead, Reads, Saving
<1>6. DialogFits'
  BY <1>1, <1>2, NoneIsIdle DEF SectionsKnow, DialogFits, Saving
<1> QED BY <1>4, <1>5, <1>6 DEF SectionsKnow

LEMMA LoseKeeps == ASSUME SectionConstants, SectionsKnow, LoseSectionAnswer PROVE SectionsKnow'
<1>1. /\ UNCHANGED <<draft, live, known, composition, pristine, strayed, faults, sectionDialog,
                     outdated, edits>>
      /\ Occurred
  BY DEF LoseSectionAnswer, serverVars, formVars
<1>2. CASE sending.phase \notin {"none", "lost"} /\ Answer("lost") /\ UNCHANGED publishing
  BY <1>1, <1>2, AnsweredKeeps DEF Answer, Saving, Grows, SectionsKnow, SectionsTyped
<1>3. CASE publishing.phase \in {"sent", "done", "conflict"} /\ publishing' = [phase |-> "lost"] /\ UNCHANGED sending
  <2>1. publishing # Idle /\ publishing'.phase = "lost"
    BY <1>3, NoneIsIdle
  <2>2. SectionsTyped'
    BY <1>1, <1>3, <2>1, SectionsCounted DEF SectionsKnow, SectionsTyped, Saving
  <2>3. FormIsRead'
    BY <1>1, <1>3, <2>1 DEF SectionsKnow, FormIsRead, Reads
  <2>4. DialogFits'
    BY <1>1, <1>3, <2>1 DEF SectionsKnow, DialogFits, Saving
  <2> QED BY <2>2, <2>3, <2>4 DEF SectionsKnow
<1> QED BY <1>2, <1>3 DEF LoseSectionAnswer

LEMMA SectionsStayKnown ==
    ASSUME SectionConstants, SectionsKnow, [SectionNext]_(sectionVars)
    PROVE  SectionsKnow'
<1>1. CASE UNCHANGED sectionVars
  <2>1. UNCHANGED <<draft, live, known, composition, pristine, strayed, faults, sectionDialog, sending,
                    publishing, outdated, edits, sectionEvents>>
    BY <1>1 DEF sectionVars, serverVars, formVars, callVars
  <2>2. SectionsTyped'
    BY <2>1 DEF SectionsKnow, SectionsTyped, Saving
  <2>3. FormIsRead'
    BY <2>1 DEF SectionsKnow, FormIsRead, Reads
  <2>4. DialogFits'
    BY <2>1 DEF SectionsKnow, DialogFits, Saving
  <2> QED BY <2>2, <2>3, <2>4 DEF SectionsKnow
<1>2. CASE SectionNext
  BY <1>2, DialogStepKeeps, ListStepKeeps, ApplyKeeps, SaveKeeps, RunSaveKeeps, TakeSavedKeeps,
     TakeNotSavedKeeps, ReloadKeeps, AskKeeps, AnswerKeeps, PublishedIsShown, TakePublishedKeeps,
     LoseKeeps, AnotherKeeps DEF SectionNext, DialogActions
<1> QED BY <1>1, <1>2

\* A step that publishes publishes what the composer shows.
LEMMA ShownIsPublished ==
    ASSUME SectionConstants, SectionsKnow, [SectionNext]_(sectionVars),
           publishing.phase = "sent", publishing'.phase = "done"
    PROVE  live' = composition \/ strayed'
<1>1. publishing # Idle /\ publishing' # publishing
  BY NoneIsIdle
<1>2. ~OnList /\ ~Saving /\ sectionDialog = NoDialog
  BY <1>1 DEF SectionsKnow, DialogFits, OnList
<1>3. RunPublish
  BY <1>1, <1>2, NoneIsIdle
  DEF SectionNext, sectionVars, callVars, RemoveSection,
      MoveSection, ToggleSection, ChangeList, ChooseBrand,
      OpenSection, TypeHeading, ShowOrHide, OpenPicker, Pick,
      RemovePhoto, MovePhoto, CloseSection, AnswerLeaving,
      ApplySection, InDialog, DialogOnly, SaveComposition, RunSave,
      TakeSaved, TakeNotSaved, ReloadDraft, AskPublish,
      AnswerPublish, TakePublished, LoseSectionAnswer, AnotherSaves
<1> QED BY <1>3, PublishedIsShown

LEMMA SectionsAreTyped == SectionsKnow => SectionTypeOK
<1> SUFFICES ASSUME SectionsKnow PROVE SectionTypeOK
  OBVIOUS
<1>1. {outdated, strayed} \subseteq BOOLEAN
  BY DEF SectionsKnow, SectionsTyped
<1> QED BY <1>1 DEF SectionsKnow, SectionsTyped, DialogFits, SectionTypeOK

=============================================================================
