----------------------------- MODULE ModifierDesk -----------------------------
(***************************************************************************)
(* The options and add-ons of one item: the groups and choices on the       *)
(* server, and the section of the item's page that edits them, over one     *)
(* query, while other administrators change them. The order of the groups   *)
(* may be saved beside the command of a dialog.                             *)
(***************************************************************************)
EXTENDS Query, Tables

CONSTANTS
    Groups,             \* bound: the groups that may exist
    ChoiceIds,          \* bound: the choices that may exist
    Labels,             \* the names of groups
    NoLimit,            \* the maximum of a group that has none
    Limits,             \* the numbers a group may ask for
    TypedLimits,        \* bound: those a dialog is given
    MaxModifierEvents   \* bound: commands that change them, requests that fail

ModifierConstants ==
    /\ Limits \subseteq Nat /\ {0, 1} \subseteq Limits /\ NoLimit \notin Limits
    /\ TypedLimits \subseteq Limits \ {0}
    /\ IsFiniteSet(Groups) /\ IsFiniteSet(ChoiceIds)
    /\ Groups # {} /\ ChoiceIds # {} /\ Labels # {}
    /\ MaxModifierEvents \in Nat

VARIABLES
    modifiers,      \* the groups and choices on the server
    groupQuery,     \* the query for them
    window,         \* the dialog on screen
    sequence,       \* the order in the list where groups are arranged
    request,        \* the command of the dialog
    saving,         \* the command that saves the order
    modifierEvents  \* how many commands changed something or requests failed

modifierVars == <<modifiers, groupQuery, window, sequence, request, saving, modifierEvents>>

-----------------------------------------------------------------------------
(* The server. An operation is given as the states it may lead to.          *)

Maxima == (Limits \ {0}) \cup {NoLimit}
Group == [label : Labels, min : Limits, max : Maxima, place : Nat]
Choice == [group : Groups, available : BOOLEAN, place : Nat]

AreModifiers(m) ==
    /\ DOMAIN m.groups \subseteq Groups /\ m.groups \in [DOMAIN m.groups -> Group]
    /\ DOMAIN m.choices \subseteq ChoiceIds /\ m.choices \in [DOMAIN m.choices -> Choice]

Refused == {}

ChoicesOf(m, g) == {c \in DOMAIN m.choices : m.choices[c].group = g}
ActiveCount(m, g) == Cardinality({c \in ChoicesOf(m, g) : m.choices[c].available})
GroupOrder(m) ==
    SetToSortSeq(DOMAIN m.groups, LAMBDA g, h : m.groups[g].place < m.groups[h].place)
LabelTaken(m, label, others) == \E g \in others : m.groups[g].label = label
InBounds(min, max) == max # NoLimit => min <= max
IsSatisfiable(group, active) == active >= 1 /\ group.min <= active /\ (group.max = NoLimit \/ group.max <= active)

CreateGroup(m, body) ==
    IF LabelTaken(m, body.label, DOMAIN m.groups) \/ ~InBounds(body.min, body.max) THEN Refused
    ELSE {[m EXCEPT !.groups = With(@, g, [label |-> body.label, min |-> body.min, max |-> body.max,
                                           place |-> Cardinality(DOMAIN @)])] :
          g \in Groups \ DOMAIN m.groups}

\* Mutant: only limits that come together are compared.
UpdateComparingPayload(m, g, change) ==
    IF \/ g \notin DOMAIN m.groups
       \/ {"min", "max"} \subseteq DOMAIN change /\ ~InBounds(change.min, change.max)
       \/ "label" \in DOMAIN change /\ LabelTaken(m, change.label, DOMAIN m.groups \ {g})
    THEN Refused
    ELSE {[m EXCEPT !.groups[g] = Merge(@, change)]}

\* The limits that a change leaves the group with are compared.
UpdateGroup(m, g, change) ==
    IF \/ g \notin DOMAIN m.groups
       \/ LET merged == Merge(m.groups[g], change) IN ~InBounds(merged.min, merged.max)
       \/ "label" \in DOMAIN change /\ LabelTaken(m, change.label, DOMAIN m.groups \ {g})
    THEN Refused
    ELSE {[m EXCEPT !.groups[g] = Merge(@, change)]}

\* Its choices go with it, and the groups behind it move up.
DeleteGroup(m, g) ==
    IF g \notin DOMAIN m.groups THEN Refused
    ELSE {[m EXCEPT !.groups = [h \in DOMAIN @ \ {g} |-> CloseGap(@[h], @[g].place)],
                    !.choices = [c \in DOMAIN @ \ ChoicesOf(m, g) |-> @[c]]]}

ReorderGroups(m, arranged) ==
    IF ~Arranges(arranged, DOMAIN m.groups) THEN Refused
    ELSE {[m EXCEPT !.groups = [g \in DOMAIN @ |-> [@[g] EXCEPT !.place = IndexOf(arranged, g) - 1]]]}

\* A new choice is available and comes last.
CreateChoice(m, g) ==
    IF g \notin DOMAIN m.groups THEN Refused
    ELSE {[m EXCEPT !.choices = With(@, c, [group |-> g, available |-> TRUE,
                                            place |-> Cardinality(ChoicesOf(m, g))])] :
          c \in ChoiceIds \ DOMAIN m.choices}

UpdateChoice(m, c, change) ==
    IF c \notin DOMAIN m.choices THEN Refused ELSE {[m EXCEPT !.choices[c] = Merge(@, change)]}

DeleteChoice(m, c) ==
    IF c \notin DOMAIN m.choices THEN Refused
    ELSE {[m EXCEPT !.choices = [d \in DOMAIN @ \ {c} |->
             IF @[d].group = @[c].group THEN CloseGap(@[d], @[c].place) ELSE @[d]]]}

Execute(m, q) ==
    CASE q.do = "createGroup"  -> CreateGroup(m, q.body)
      [] q.do = "updateGroup"  -> UpdateGroup(m, q.group, q.body)
      [] q.do = "deleteGroup"  -> DeleteGroup(m, q.group)
      [] q.do = "createChoice" -> CreateChoice(m, q.group)
      [] q.do = "updateChoice" -> UpdateChoice(m, q.choice, q.body)
      [] q.do = "deleteChoice" -> DeleteChoice(m, q.choice)
      [] q.do = "reorder"      -> ReorderGroups(m, q.order)

\* What a name that is taken, or a limit of the business, refuses.
MayConflict(m, q) ==
    \/ q.do = "createChoice" /\ DOMAIN m.choices # {}
    \/ q.do = "updateChoice" /\ \E c \in DOMAIN m.choices \ {q.choice} : TRUE

\* An add-on, the form of a group that the dialog starts from.
GroupBodies == [label : Labels, min : {0}, max : {NoLimit}]

\* What other administrators do.
ModifiedElsewhere(m) ==
    UNION {
        {[do |-> "createGroup", body |-> b] : b \in GroupBodies},
        {[do |-> "updateGroup", group |-> g, body |-> b] : g \in Groups,
            b \in [{"min"} -> Limits] \cup [{"max"} -> Maxima] \cup [{"label"} -> Labels]},
        {[do |-> "deleteGroup", group |-> g] : g \in Groups},
        {[do |-> "createChoice", group |-> g] : g \in Groups},
        {[do |-> "updateChoice", choice |-> c, body |-> b] : c \in ChoiceIds, b \in [{"available"} -> BOOLEAN]},
        {[do |-> "deleteChoice", choice |-> c] : c \in ChoiceIds},
        {[do |-> "reorder", order |-> Reverse(GroupOrder(m))]}}

-----------------------------------------------------------------------------
(* The section.                                                            *)

NoWindow == [kind |-> "none"]
Windows ==
    {NoWindow, [kind |-> "group-create"]}
    \cup {[kind |-> k, group |-> g] : k \in {"group-edit", "group-delete", "option-create"}, g \in Groups}
    \cup {[kind |-> k, choice |-> c] : k \in {"option-edit", "option-delete"}, c \in ChoiceIds}
NoSequence == NoData
OffScreen == <<NoData>>
Quiet == [phase |-> "none"]

Listed == groupQuery.data
OnScreen == Usable(groupQuery)
Asking == request.phase # "none"
Storing == saving.phase # "none"

\* Why the group is not selectable, which the server has found.
UnsatisfiableReason(m, g) ==
    LET active == ActiveCount(m, g)
    IN  IF IsSatisfiable(m.groups[g], active) THEN "none"
        ELSE IF active = 0 THEN "no choices"
        ELSE IF m.groups[g].min > active THEN "asks for more" ELSE "allows more"

\* A group is required when its minimum is one or more; the dialog keeps a
\* minimum and a maximum beside the two boxes that switch them.
GroupForms == [label : Labels, required : BOOLEAN, min : TypedLimits, unlimited : BOOLEAN, max : TypedLimits]
BodyOf(form) ==
    [label |-> form.label,
     min |-> IF form.required THEN form.min ELSE 0,
     max |-> IF form.unlimited THEN NoLimit ELSE form.max]

\* What the section keeps while it shows the error, the list of the order does not.
Shown(q) ==
    /\ groupQuery' = q
    /\ sequence' = IF sequence = NoSequence THEN NoSequence
                   ELSE IF ~Usable(q) THEN OffScreen
                   ELSE IF sequence = OffScreen THEN GroupOrder(q.data) ELSE sequence

ModifierTypeOK ==
    /\ AreModifiers(modifiers)
    /\ \A m \in {groupQuery.data, groupQuery.flight} \ {NoData} : AreModifiers(m)
    /\ window \in Windows
    /\ sequence # NoSequence => IsInjective(sequence) /\ ToSet(sequence) \subseteq Groups \cup {NoData}
    /\ Asking => window # NoWindow
    /\ Storing => sequence # NoSequence
    /\ modifierEvents \in 0 .. MaxModifierEvents

\* One group with a choice, and perhaps a second one.
Starts ==
    LET g == CHOOSE x \in Groups : TRUE
        l == CHOOSE x \in Labels : TRUE
        c == CHOOSE x \in ChoiceIds : TRUE
        size == [label |-> l, min |-> 1, max |-> 1, place |-> 0]
        extra(k) == [label |-> k, min |-> 0, max |-> NoLimit, place |-> 1]
        choices == [x \in {c} |-> [group |-> g, available |-> TRUE, place |-> 0]]
    IN  {[groups |-> [x \in {g} |-> size], choices |-> choices]}
        \cup {[groups |-> [x \in {g, h} |-> IF x = g THEN size ELSE extra(k)], choices |-> choices] :
              h \in Groups \ {g}, k \in Labels \ {l}}

ModifierInit ==
    /\ modifiers \in Starts
    /\ groupQuery = Fetch(NotAsked, modifiers)
    /\ window = NoWindow /\ sequence = NoSequence
    /\ request = Quiet /\ saving = Quiet
    /\ modifierEvents = 0

Happened(counts) ==
    /\ modifierEvents' = IF counts THEN modifierEvents + 1 ELSE modifierEvents
    /\ modifierEvents' <= MaxModifierEvents

ModifyElsewhere ==
    /\ \E q \in ModifiedElsewhere(modifiers) :
          modifiers' \in Execute(modifiers, q) \ {modifiers}
    /\ Happened(TRUE)
    /\ UNCHANGED <<groupQuery, window, sequence, request, saving>>

RunRequest ==
    /\ request.phase = "sent"
    /\ \/ /\ modifiers' \in Execute(modifiers, request.q)
          /\ request' = [phase |-> "done"]
          /\ Happened(modifiers' # modifiers)
       \/ /\ Execute(modifiers, request.q) = Refused \/ MayConflict(modifiers, request.q)
          /\ request' = [phase |-> "failed"]
          /\ UNCHANGED <<modifiers, modifierEvents>>
    /\ UNCHANGED <<groupQuery, window, sequence, saving>>

\* A reorder is answered with the groups as they are then.
RunSaving ==
    /\ saving.phase = "sent"
    /\ \/ /\ modifiers' \in Execute(modifiers, saving.q)
          /\ saving' = [phase |-> "done", view |-> modifiers']
          /\ Happened(modifiers' # modifiers)
       \/ /\ Execute(modifiers, saving.q) = Refused
          /\ saving' = [phase |-> "failed"]
          /\ UNCHANGED <<modifiers, modifierEvents>>
    /\ UNCHANGED <<groupQuery, window, sequence, request>>

LoseAnswer ==
    /\ Happened(TRUE)
    /\ \/ /\ request.phase \in {"sent", "done"} /\ request' = [phase |-> "failed"]
          /\ UNCHANGED saving
       \/ /\ saving.phase \in {"sent", "done"} /\ saving' = [phase |-> "failed"]
          /\ UNCHANGED request
    /\ UNCHANGED <<modifiers, groupQuery, window, sequence>>

-----------------------------------------------------------------------------
(* The query.                                                              *)

LandGroups ==
    /\ UnderWay(groupQuery)
    /\ \E m \in Answers(groupQuery, modifiers) : Shown(Land(groupQuery, m))
    /\ UNCHANGED <<modifiers, window, request, saving, modifierEvents>>

FailGroups ==
    /\ Happened(TRUE)
    /\ UnderWay(groupQuery) /\ Shown(Fail(groupQuery))
    /\ UNCHANGED <<modifiers, window, request, saving>>

TryGroupsAgain ==
    /\ groupQuery.failed /\ ~UnderWay(groupQuery)
    /\ groupQuery' = Refetch(groupQuery, modifiers)
    /\ UNCHANGED <<modifiers, window, sequence, request, saving, modifierEvents>>

-----------------------------------------------------------------------------
(* The dialogs.                                                            *)

OpenWindow ==
    /\ OnScreen /\ window = NoWindow
    /\ window' \in {[kind |-> "group-create"]}
          \cup {[kind |-> k, group |-> g] : k \in {"group-edit", "group-delete", "option-create"},
                                            g \in DOMAIN Listed.groups}
          \cup {[kind |-> k, choice |-> c] : k \in {"option-edit", "option-delete"},
                                             c \in DOMAIN Listed.choices}
    /\ UNCHANGED <<modifiers, groupQuery, sequence, request, saving, modifierEvents>>

CloseWindow ==
    /\ OnScreen /\ window # NoWindow /\ ~Asking
    /\ window' = NoWindow
    /\ UNCHANGED <<modifiers, groupQuery, sequence, request, saving, modifierEvents>>

Ask(q) ==
    /\ OnScreen /\ ~Asking
    /\ request' = [phase |-> "sent", q |-> q]
    /\ UNCHANGED <<modifiers, groupQuery, window, sequence, saving, modifierEvents>>

\* A minimum above the maximum is not sent; an edit sends every field.
SubmitGroup ==
    /\ window.kind \in {"group-create", "group-edit"}
    /\ \E form \in GroupForms :
          /\ InBounds(BodyOf(form).min, BodyOf(form).max)
          /\ Ask(IF window.kind = "group-create" THEN [do |-> "createGroup", body |-> BodyOf(form)]
                 ELSE [do |-> "updateGroup", group |-> window.group, body |-> BodyOf(form)])

\* What the dialog of a choice may send beside its name and surcharge.
ChoiceForms == [available : BOOLEAN]

SubmitChoice ==
    \/ /\ window.kind = "option-create"
       /\ Ask([do |-> "createChoice", group |-> window.group])
    \/ /\ window.kind = "option-edit"
       /\ \E form \in ChoiceForms :
             Ask([do |-> "updateChoice", choice |-> window.choice, body |-> form])

ConfirmWindow ==
    \/ /\ window.kind = "group-delete"
       /\ Ask([do |-> "deleteGroup", group |-> window.group])
    \/ /\ window.kind = "option-delete"
       /\ Ask([do |-> "deleteChoice", choice |-> window.choice])

\* A success reads the groups again, and then closes the dialog.
ReadGroups ==
    /\ Asking /\ request.phase = "done"
    /\ groupQuery' = Refetch(groupQuery, modifiers)
    /\ request' = [phase |-> "settling"]
    /\ UNCHANGED <<modifiers, window, sequence, saving, modifierEvents>>

SettleRequest ==
    /\ Asking /\ request.phase = "settling" /\ ~UnderWay(groupQuery)
    /\ window' = NoWindow /\ request' = Quiet
    /\ UNCHANGED <<modifiers, groupQuery, sequence, saving, modifierEvents>>

\* The form stays with its errors, the confirmation of a deletion does not.
FailRequest ==
    /\ Asking /\ request.phase = "failed"
    /\ request' = Quiet
    /\ window' = IF window.kind \in {"group-delete", "option-delete"} THEN NoWindow ELSE window
    /\ UNCHANGED <<modifiers, groupQuery, sequence, saving, modifierEvents>>

-----------------------------------------------------------------------------
(* The order of the groups.                                                *)

ArrangeGroups ==
    /\ OnScreen /\ window = NoWindow /\ sequence = NoSequence
    /\ Cardinality(DOMAIN Listed.groups) > 1
    /\ sequence' = GroupOrder(Listed)
    /\ UNCHANGED <<modifiers, groupQuery, window, request, saving, modifierEvents>>

LeaveGroups ==
    /\ OnScreen /\ window = NoWindow /\ sequence # NoSequence /\ ~Storing
    /\ sequence' = NoSequence
    /\ UNCHANGED <<modifiers, groupQuery, window, request, saving, modifierEvents>>

MoveGroupUp(n) ==
    /\ OnScreen /\ window = NoWindow /\ sequence # NoSequence /\ ~Storing
    /\ n \in 2 .. Len(sequence)
    /\ sequence' = [sequence EXCEPT ![n] = sequence[n - 1], ![n - 1] = sequence[n]]
    /\ UNCHANGED <<modifiers, groupQuery, window, request, saving, modifierEvents>>

SaveGroupOrder ==
    /\ OnScreen /\ window = NoWindow /\ sequence # NoSequence /\ ~Storing
    /\ sequence # GroupOrder(Listed)
    /\ saving' = [phase |-> "sent", q |-> [do |-> "reorder", order |-> sequence]]
    /\ UNCHANGED <<modifiers, groupQuery, window, sequence, request, modifierEvents>>

TakeGroupOrder ==
    /\ saving.phase = "done"
    /\ groupQuery' = Write(groupQuery, saving.view)
    /\ sequence' = NoSequence /\ saving' = Quiet
    /\ UNCHANGED <<modifiers, window, request, modifierEvents>>

\* The groups are read again. The read that a success waits for is abandoned,
\* and its dialog closes without it.
RefuseGroupOrder ==
    /\ saving.phase = "failed"
    /\ groupQuery' = Refetch(groupQuery, modifiers)
    /\ sequence' = NoSequence /\ saving' = Quiet
    /\ IF request.phase = "settling" THEN window' = NoWindow /\ request' = Quiet
       ELSE UNCHANGED <<window, request>>
    /\ UNCHANGED <<modifiers, modifierEvents>>

ModifierNext ==
    \/ ModifyElsewhere
    \/ RunRequest
    \/ RunSaving
    \/ LoseAnswer
    \/ LandGroups
    \/ FailGroups
    \/ TryGroupsAgain
    \/ OpenWindow
    \/ CloseWindow
    \/ SubmitGroup
    \/ SubmitChoice
    \/ ConfirmWindow
    \/ ReadGroups
    \/ SettleRequest
    \/ FailRequest
    \/ ArrangeGroups
    \/ LeaveGroups
    \/ \E n \in 2 .. Cardinality(Groups) : MoveGroupUp(n)
    \/ SaveGroupOrder
    \/ TakeGroupOrder
    \/ RefuseGroupOrder

ModifierSpec == ModifierInit /\ [][ModifierNext]_modifierVars

-----------------------------------------------------------------------------

\* The limits of the whole group hold however administrators change one of them
\* at a time, its places stay dense, and no choice outlives its group.
ModifiersStaySound ==
    /\ \A g \in DOMAIN modifiers.groups :
          /\ InBounds(modifiers.groups[g].min, modifiers.groups[g].max)
          /\ Dense(modifiers.choices, ChoicesOf(modifiers, g))
          /\ ~LabelTaken(modifiers, modifiers.groups[g].label, DOMAIN modifiers.groups \ {g})
    /\ Dense(modifiers.groups, DOMAIN modifiers.groups)
    /\ \A c \in DOMAIN modifiers.choices : modifiers.choices[c].group \in DOMAIN modifiers.groups

\* What the section says is wrong with a group is wrong with it.
ReasonIsTrue ==
    Listed # NoData =>
    \A g \in DOMAIN Listed.groups :
       LET reason == UnsatisfiableReason(Listed, g)
           group == Listed.groups[g]
       IN  /\ reason = "allows more" => group.max # NoLimit /\ group.max > ActiveCount(Listed, g)
           /\ reason = "none" => \E n \in Limits \ {0} :
                 group.min <= n /\ InBounds(n, group.max) /\ n <= ActiveCount(Listed, g)
=============================================================================
