----------------------------- MODULE SectionDesk -----------------------------
(***************************************************************************)
(* The sections of a draft in the composer, from the moment it mounts: the  *)
(* list, the dialog that edits one section over a copy of it, and the save  *)
(* and the publication, which may be answered while the list is edited on.  *)
(* What a background read of the draft does is in DraftComposer.            *)
(***************************************************************************)
EXTENDS Naturals, SequencesExt

CONSTANTS
    Kinds,            \* the types of section
    Lead,             \* the one that shows a single image, the hero
    Optional,         \* those whose heading may be blank
    Headings,         \* what a heading may say
    TooLong,          \* the headings that only the server refuses
    Photos,           \* the images of the library
    Brands,           \* the accent, palette, typography and logo of a theme
    DefaultBrand,     \* that of a first draft
    Absent,           \* null
    MaxImages,        \* how many images a gallery shows
    MaxEdits,         \* bound: what the composer's user does
    MaxSectionEvents  \* bound: answers that are lost, saves of another editor

VARIABLES
    draft,          \* the draft on the server
    live,           \* the composition of the published version
    known,          \* the draft of the overview in the cache
    composition,    \* the values of the form
    pristine,       \* the values it was last reset to
    sectionDialog,  \* the dialog over one section
    faults,         \* the places of the sections that the last answer found fault with
    sending,        \* the save
    publishing,     \* the publication
    outdated,       \* the draft changed somewhere else
    strayed,        \* history: a publication was of a draft that the form had not come from
    edits,          \* how much the user did
    sectionEvents   \* how many answers were lost and saves made elsewhere

serverVars == <<draft, live>>
formVars == <<composition, pristine, strayed, faults>>
callVars == <<sending, publishing>>
sectionVars == <<serverVars, known, formVars, sectionDialog, callVars, outdated, edits, sectionEvents>>

-----------------------------------------------------------------------------
(* Compositions.                                                           *)

Section == [kind : Kinds, shown : BOOLEAN, heading : Headings \cup {Absent}, images : Seq(Photos)]

\* carried: the theme has a field that the composer does not edit.
Config == [brand : Brands, carried : BOOLEAN, sections : Seq(Section)]
FirstConfig == [brand |-> DefaultBrand, carried |-> FALSE, sections |-> <<>>]
ConfigOf(d) == IF d = Absent THEN FirstConfig ELSE d.config
\* source: the publication that it started from, by number (source_version_id).
Draft == [lock : Nat, source : Nat, config : Config]

SectionConstants ==
    /\ Lead \in Kinds /\ Optional \subseteq Kinds \ {Lead} /\ TooLong \subseteq Headings
    /\ DefaultBrand \in Brands /\ Absent \notin Headings \cup Photos \cup Draft
    /\ MaxImages \in Nat \ {0} /\ {MaxEdits, MaxSectionEvents} \subseteq Nat

KindsIn(sections) == {sections[n].kind : n \in DOMAIN sections}
SeedOf(kind) == [kind |-> kind, shown |-> TRUE, heading |-> Absent, images |-> <<>>]

\* The dialog's form: texts as they are typed, and the image of a hero beside
\* the images of a gallery.
Text == [says : Headings \cup {Absent}, padded : BOOLEAN]
Form == [shown : BOOLEAN, heading : Text, image : Photos \cup {Absent}, images : Seq(Photos)]

FormOf(section) ==
    [shown |-> section.shown,
     heading |-> [says |-> section.heading, padded |-> FALSE],
     image |-> IF section.kind = Lead /\ section.images # <<>> THEN Head(section.images) ELSE Absent,
     images |-> IF section.kind = Lead THEN <<>> ELSE section.images]

\* What is typed is trimmed, and what is blank is null.
SectionOf(kind, form) ==
    [kind |-> kind, shown |-> form.shown, heading |-> form.heading.says,
     images |-> IF kind # Lead THEN form.images
                ELSE IF form.image = Absent THEN <<>> ELSE <<form.image>>]

\* A length is left to the server.
IsComplete(kind, form) ==
    /\ kind \in Optional \/ form.heading.says # Absent
    /\ kind = Lead \/ Len(form.images) <= MaxImages

\* What the server finds wrong with a composition: at the place of a section, and
\* with the document.
FaultsOf(config) == {n \in DOMAIN config.sections : config.sections[n].heading \in TooLong}
Repeats(config) == Cardinality(KindsIn(config.sections)) < Len(config.sections)

-----------------------------------------------------------------------------

NoDialog == [mode |-> "none"]
Nobody == 0
Several == MaxImages + 1
Single == MaxImages + 2
Dialogs ==
    {NoDialog}
    \cup [mode : {"add", "edit"}, place : Nat, kind : Kinds, was : Form, form : Form, flagged : BOOLEAN,
          picking : 0 .. Single, leaving : BOOLEAN]
Idle == [phase |-> "none"]
Saving == sending.phase # "none"

\* Nothing in front of the list.
OnList == sectionDialog = NoDialog /\ publishing = Idle
CanEdit == ~outdated

\* The type of an open dialog is looked up in the list each time it renders.
KindNow ==
    IF sectionDialog.mode = "add" THEN sectionDialog.kind
    ELSE IF sectionDialog.place \in DOMAIN composition.sections
         THEN composition.sections[sectionDialog.place].kind ELSE Lead

SectionTypeOK ==
    /\ draft \in Draft \cup {Absent} /\ known \in Draft \cup {Absent}
    /\ live \in Config \cup {Absent}
    /\ composition \in Config /\ pristine \in Config
    /\ sectionDialog \in Dialogs
    /\ sectionDialog.mode = "edit" => sectionDialog.place \in 1 .. Len(composition.sections) + 1
    /\ faults \subseteq Nat
    /\ publishing # Idle => ~Saving /\ sectionDialog = NoDialog
    /\ {outdated, strayed} \subseteq BOOLEAN
    /\ edits \in 0 .. MaxEdits /\ sectionEvents \in 0 .. MaxSectionEvents

\* No draft, or one with a hero and a gallery.
SectionInit ==
    /\ draft \in {Absent}
          \cup {[lock |-> 1, source |-> 0,
                 config |-> [brand |-> DefaultBrand, carried |-> TRUE,
                             sections |-> <<[SeedOf(Lead) EXCEPT !.heading = h], SeedOf(kind)>>]] :
                 h \in Headings \ TooLong, kind \in Optional}
    /\ live = Absent
    /\ known = draft
    /\ composition = ConfigOf(draft) /\ pristine = composition
    /\ sectionDialog = NoDialog /\ faults = {}
    /\ sending = Idle /\ publishing = Idle
    /\ outdated = FALSE /\ strayed = FALSE
    /\ edits = 0 /\ sectionEvents = 0

EditMade == edits < MaxEdits /\ edits' = edits + 1
Occurred == sectionEvents < MaxSectionEvents /\ sectionEvents' = sectionEvents + 1

-----------------------------------------------------------------------------
(* The list. Its mutations orphan the faults of places.                    *)

ChangeList(sections) ==
    /\ OnList /\ CanEdit /\ EditMade
    /\ composition' = [composition EXCEPT !.sections = sections]
    /\ faults' = {}
    /\ UNCHANGED <<serverVars, known, pristine, strayed, sectionDialog, callVars, outdated, sectionEvents>>

Raised(list, n) == [list EXCEPT ![n] = list[n - 1], ![n - 1] = list[n]]

RemoveSection(n) ==
    /\ n \in DOMAIN composition.sections
    /\ ChangeList(RemoveAt(composition.sections, n))

MoveSection(n) ==
    /\ n \in 2 .. Len(composition.sections)
    /\ ChangeList(Raised(composition.sections, n))

ToggleSection(n) ==
    /\ n \in DOMAIN composition.sections
    /\ ChangeList([composition.sections EXCEPT ![n].shown = ~@])

ChooseBrand ==
    /\ OnList /\ CanEdit /\ EditMade
    /\ \E b \in Brands \ {composition.brand} : composition' = [composition EXCEPT !.brand = b]
    /\ UNCHANGED <<serverVars, known, pristine, strayed, sectionDialog, faults, callVars, outdated, sectionEvents>>

-----------------------------------------------------------------------------
(* The dialog.                                                             *)

DialogOver(mode, place, section) ==
    [mode |-> mode, place |-> place, kind |-> section.kind,
     was |-> FormOf(section), form |-> FormOf(section),
     flagged |-> mode = "edit" /\ place \in faults, picking |-> Nobody, leaving |-> FALSE]

OpenSection ==
    /\ OnList /\ CanEdit /\ EditMade
    /\ \/ \E n \in DOMAIN composition.sections :
             sectionDialog' = DialogOver("edit", n, composition.sections[n])
       \* bound: the list grows by one section while a save is under way
       \/ /\ Saving => Len(composition.sections) <= Len(sending.config.sections)
          /\ \E kind \in Kinds \ KindsIn(composition.sections) :
                sectionDialog' = DialogOver("add", 0, SeedOf(kind))
    /\ UNCHANGED <<serverVars, known, formVars, callVars, outdated, sectionEvents>>

InDialog == sectionDialog # NoDialog /\ sectionDialog.picking = Nobody /\ ~sectionDialog.leaving

DialogOnly == UNCHANGED <<serverVars, known, formVars, callVars, outdated, sectionEvents>>

TypeHeading ==
    /\ InDialog /\ EditMade
    /\ \E t \in Text \ {sectionDialog.form.heading} :
          /\ t.says = Absent => ~t.padded
          /\ sectionDialog' = [sectionDialog EXCEPT !.form.heading = t, !.flagged = FALSE]
    /\ DialogOnly

ShowOrHide ==
    /\ InDialog /\ EditMade
    /\ sectionDialog' = [sectionDialog EXCEPT !.form.shown = ~@]
    /\ DialogOnly

\* The picker takes the place of the dialog, whose form stays.
OpenPicker ==
    /\ InDialog /\ EditMade
    /\ \E n \in 1 .. Single :
          /\ IF KindNow = Lead THEN n = Single
             ELSE \/ n \in DOMAIN sectionDialog.form.images
                  \/ n = Several /\ Len(sectionDialog.form.images) < MaxImages
          /\ sectionDialog' = [sectionDialog EXCEPT !.picking = n]
    /\ DialogOnly

Pick ==
    /\ sectionDialog # NoDialog /\ sectionDialog.picking # Nobody
    /\ \/ \E p \in Photos :
             sectionDialog' = [sectionDialog EXCEPT
                !.picking = Nobody,
                !.form.image = IF sectionDialog.picking = Single THEN p ELSE @,
                !.form.images = IF sectionDialog.picking = Single THEN @
                                ELSE IF sectionDialog.picking = Several THEN Append(@, p)
                                ELSE [@ EXCEPT ![sectionDialog.picking] = p]]
       \/ sectionDialog' = [sectionDialog EXCEPT !.picking = Nobody]
    /\ UNCHANGED edits /\ DialogOnly

RemovePhoto ==
    /\ InDialog /\ EditMade
    /\ \/ /\ KindNow = Lead /\ sectionDialog.form.image # Absent
          /\ sectionDialog' = [sectionDialog EXCEPT !.form.image = Absent]
       \/ /\ KindNow # Lead
          /\ \E n \in DOMAIN sectionDialog.form.images :
                sectionDialog' = [sectionDialog EXCEPT !.form.images = RemoveAt(@, n)]
    /\ DialogOnly

MovePhoto ==
    /\ InDialog /\ EditMade
    /\ KindNow # Lead
    /\ \E n \in 2 .. Len(sectionDialog.form.images) :
          sectionDialog' = [sectionDialog EXCEPT !.form.images = Raised(@, n)]
    /\ DialogOnly

\* A dialog with changes asks first.
CloseSection ==
    /\ InDialog
    /\ sectionDialog' = IF sectionDialog.form = sectionDialog.was THEN NoDialog
                        ELSE [sectionDialog EXCEPT !.leaving = TRUE]
    /\ UNCHANGED edits /\ DialogOnly

AnswerLeaving ==
    /\ sectionDialog # NoDialog /\ sectionDialog.leaving
    /\ sectionDialog' \in {NoDialog, [sectionDialog EXCEPT !.leaving = FALSE]}
    /\ UNCHANGED edits /\ DialogOnly

\* An edit goes to the place the dialog was opened on, whatever is there now.
ApplySection ==
    /\ InDialog
    /\ IsComplete(KindNow, sectionDialog.form)
    /\ LET section == SectionOf(KindNow, sectionDialog.form)
           place == sectionDialog.place
           s == composition.sections
       IN  IF sectionDialog.mode = "edit" /\ place \in DOMAIN s
           THEN /\ composition' = [composition EXCEPT !.sections[place] = section]
                /\ faults' = faults \ {place}
           ELSE /\ composition' = [composition EXCEPT !.sections = Append(s, section)]
                /\ faults' = IF sectionDialog.mode = "add" THEN {} ELSE faults \ {place}
    /\ sectionDialog' = NoDialog
    /\ UNCHANGED <<serverVars, known, pristine, strayed, callVars, outdated, edits, sectionEvents>>

-----------------------------------------------------------------------------
(* The save.                                                               *)

TokenOf(d) == IF d = Absent THEN Absent ELSE d.lock

SaveComposition ==
    /\ OnList /\ ~Saving /\ ~outdated /\ EditMade
    /\ sending' = [phase |-> "sent", config |-> composition, token |-> TokenOf(known)]
    /\ UNCHANGED <<serverVars, known, formVars, sectionDialog, publishing, outdated, sectionEvents>>

Answer(phase) == sending' = [phase |-> phase, config |-> sending.config]
SavedOver(config) ==
    IF draft = Absent THEN [lock |-> 0, source |-> 0, config |-> config]
    ELSE [draft EXCEPT !.lock = @ + 1, !.config = config]

Unchanged(config) == draft # Absent /\ draft.config = config

RunSave ==
    /\ sending.phase = "sent"
    /\ LET sound == FaultsOf(sending.config) = {} /\ ~Repeats(sending.config)
       IN  \/ ~sound /\ Answer("invalid") /\ UNCHANGED draft
           \/ sound /\ sending.token # TokenOf(draft) /\ Answer("conflict") /\ UNCHANGED draft
           \* What the draft says already is answered with the draft as it is.
           \/ /\ sound /\ sending.token = TokenOf(draft) /\ Unchanged(sending.config)
              /\ sending' = [phase |-> "done", config |-> sending.config, view |-> draft]
              /\ UNCHANGED draft
           \* An image that it names has expired.
           \/ /\ sound /\ sending.token = TokenOf(draft) /\ ~Unchanged(sending.config)
              /\ \E n \in DOMAIN sending.config.sections : sending.config.sections[n].images # <<>>
              /\ Answer("refused") /\ UNCHANGED draft
           \/ /\ sound /\ sending.token = TokenOf(draft) /\ ~Unchanged(sending.config)
              /\ draft' = SavedOver(sending.config)
              /\ sending' = [phase |-> "done", config |-> sending.config, view |-> draft']
    /\ UNCHANGED <<live, known, formVars, sectionDialog, publishing, outdated, edits, sectionEvents>>

\* Mutant: the form is declared clean as it stands.
CleanAsItStands(config) == pristine' = composition /\ UNCHANGED composition

\* What was saved replaces the form, and what was edited meanwhile.
AfterSave(config) == composition' = config /\ pristine' = config

TakeSaved ==
    /\ sending.phase = "done"
    /\ known' = sending.view
    /\ AfterSave(sending.view.config)
    /\ faults' = {} /\ strayed' = FALSE /\ sending' = Idle
    /\ UNCHANGED <<serverVars, sectionDialog, publishing, outdated, edits, sectionEvents>>

\* A fault is shown at the place that the section had when it was sent.
TakeNotSaved ==
    /\ sending.phase \in {"invalid", "conflict", "refused", "lost"}
    /\ faults' = IF sending.phase = "invalid" THEN FaultsOf(sending.config) ELSE faults
    /\ outdated' = (outdated \/ sending.phase = "conflict")
    /\ sending' = Idle
    /\ UNCHANGED <<serverVars, known, composition, pristine, strayed, sectionDialog, publishing, edits, sectionEvents>>

ReloadDraft ==
    /\ outdated /\ OnList
    /\ known' = draft
    /\ composition' = ConfigOf(draft) /\ pristine' = ConfigOf(draft)
    /\ faults' = {} /\ strayed' = FALSE /\ outdated' = FALSE
    /\ UNCHANGED <<serverVars, sectionDialog, callVars, edits, sectionEvents>>

-----------------------------------------------------------------------------
(* The publication, of a draft that is saved.                              *)

AskPublish ==
    /\ OnList /\ EditMade
    /\ known # Absent /\ composition = pristine /\ ~Saving /\ ~outdated
    /\ publishing' = [phase |-> "asked"]
    /\ UNCHANGED <<serverVars, known, formVars, sectionDialog, sending, outdated, sectionEvents>>

AnswerPublish ==
    /\ publishing.phase = "asked"
    /\ publishing' \in {Idle, [phase |-> "sent", token |-> known.lock]}
    /\ UNCHANGED <<serverVars, known, formVars, sectionDialog, sending, outdated, edits, sectionEvents>>

\* The next draft starts as a copy, at lock_version 0.
RunPublish ==
    /\ publishing.phase = "sent"
    /\ IF publishing.token = draft.lock
       THEN /\ live' = draft.config
            /\ draft' = [draft EXCEPT !.lock = 0, !.source = @ + 1]
            /\ strayed' = (strayed \/ known.source # draft.source)
            /\ publishing' = [phase |-> "done", view |-> draft']
       ELSE publishing' = [phase |-> "conflict"] /\ UNCHANGED <<serverVars, strayed>>
    /\ UNCHANGED <<known, composition, pristine, faults, sectionDialog, sending, outdated, edits, sectionEvents>>

TakePublished ==
    /\ publishing.phase \in {"done", "conflict", "lost"}
    /\ known' = IF publishing.phase = "done" THEN publishing.view ELSE known
    /\ outdated' = (publishing.phase = "conflict")
    /\ publishing' = Idle
    /\ UNCHANGED <<serverVars, formVars, sectionDialog, sending, edits, sectionEvents>>

-----------------------------------------------------------------------------

LoseSectionAnswer ==
    /\ Occurred
    /\ \/ /\ sending.phase \notin {"none", "lost"} /\ Answer("lost") /\ UNCHANGED publishing
       \/ /\ publishing.phase \in {"sent", "done", "conflict"} /\ publishing' = [phase |-> "lost"]
          /\ UNCHANGED sending
    /\ UNCHANGED <<serverVars, known, formVars, sectionDialog, outdated, edits>>

AnotherSaves ==
    /\ Occurred
    /\ \E b \in Brands : draft' = SavedOver([ConfigOf(draft) EXCEPT !.brand = b])
    /\ UNCHANGED <<live, known, formVars, sectionDialog, callVars, outdated, edits>>

SectionNext ==
    \/ \E n \in DOMAIN composition.sections : RemoveSection(n) \/ MoveSection(n) \/ ToggleSection(n)
    \/ ChooseBrand
    \/ OpenSection
    \/ TypeHeading
    \/ ShowOrHide
    \/ OpenPicker
    \/ Pick
    \/ RemovePhoto
    \/ MovePhoto
    \/ CloseSection
    \/ AnswerLeaving
    \/ ApplySection
    \/ SaveComposition
    \/ RunSave
    \/ TakeSaved
    \/ TakeNotSaved
    \/ ReloadDraft
    \/ AskPublish
    \/ AnswerPublish
    \/ RunPublish
    \/ TakePublished
    \/ LoseSectionAnswer
    \/ AnotherSaves

SectionSpec == SectionInit /\ [][SectionNext]_sectionVars

-----------------------------------------------------------------------------

\* "It carries the saved draft's lock version, so publishing over unsaved edits
\* would publish something other than what is on screen": whatever is edited
\* while a save is under way, a publication publishes what the composer shows. The
\* lock version tells one draft from the next no more than it counts: where an
\* answer was lost, the publication may be of a draft that the form does not come from.
PublishedAsShown ==
    [][publishing.phase = "sent" /\ publishing'.phase = "done" => live' = composition \/ strayed']_sectionVars
=============================================================================
