------------------------------- MODULE MediaDesk -------------------------------
(***************************************************************************)
(* The images of a business: the rows and the stored objects, the upload    *)
(* that writes both, the maintenance sweep, and the photo section of an     *)
(* item with the library dialog it opens, while another administrator uses  *)
(* the same library. No image takes the ID of an earlier one. An upload     *)
(* takes less than the safety age of the sweep, and a commit whose answer   *)
(* is lost has happened or not by the time the row is looked for.           *)
(***************************************************************************)
EXTENDS Query, Tables, Functions

CONSTANTS
    MaxAssets,          \* bound: the images ever uploaded
    Variants,           \* the renditions of an image, the canonical one first
    MaxMediaEvents      \* bound: faults, sweeps, other administrators, time

Assets == 1 .. MaxAssets

MediaConstants == MaxAssets \in Nat \ {0} /\ MaxMediaEvents \in Nat /\ Len(Variants) > 0

VARIABLES
    rows,           \* the assets in the database
    objects,        \* the stored objects, young or older than the safety age
    photo,          \* the photo of the item
    lastAsset,      \* the newest ID
    worker,         \* the upload under way at the server
    candidates,     \* the assets the sweep found expired
    claim,          \* the attachment by another administrator, waiting for the lock
    doomed,         \* the object the sweep found to be an orphan
    library, item,  \* the queries for the page of assets and for the item
    picker,         \* the library dialog
    uploading, erasing, setting,    \* the commands of the page
    mediaEvents     \* how much of the bound was used

mediaServerVars == <<rows, objects, photo, lastAsset, worker, candidates, claim, doomed>>
mediaPageVars == <<library, item, picker, uploading, erasing, setting>>
mediaVars == <<mediaServerVars, mediaPageVars, mediaEvents>>

-----------------------------------------------------------------------------
(* The server.                                                             *)

Keys(a) == {<<a, Variants[n]>> : n \in DOMAIN Variants}
Without(f, xs) == Restrict(f, DOMAIN f \ xs)

NoPhoto == 0
Statuses == {"pending", "expired", "active"}
NoWorker == [phase |-> "none"]
NoKey == <<>>
NoClaim == [asset |-> 0]

\* What is in the database, and was not too late when the transaction began: its
\* clock stands still while it waits for the lock.
Late(a) == a \in DOMAIN rows /\ rows[a] = "expired"
Attachable(a, late) == a \in DOMAIN rows /\ (rows[a] = "active" \/ ~late)

\* The transaction that attaches an asset promotes it; an asset that is not
\* there, or expired, refuses.
Promote(a, late) == Attachable(a, late) /\ rows' = [rows EXCEPT ![a] = "active"]
AttachPhoto(a, late) == Promote(a, late) /\ photo' = a

Detach == photo' = NoPhoto /\ rows' = rows

\* The objects are deleted one by one; what fails stays behind.
DeleteObjects(keys, left) == left \subseteq keys /\ objects' = Without(objects, keys \ left)

\* Mutant: the objects go before the row, which may be refused.
RemoveObjectsFirst(a, left) ==
    /\ a \in DOMAIN rows
    /\ rows' = IF photo = a THEN rows ELSE Without(rows, {a})
    /\ DeleteObjects(Keys(a), left)

\* The row goes first, and only if no item names it.
RemoveAsset(a, left) ==
    /\ a \in DOMAIN rows /\ photo # a
    /\ rows' = Without(rows, {a}) /\ DeleteObjects(Keys(a), left)

Leftovers == SUBSET DOMAIN objects
Compensate == \E left \in SUBSET worker.written : DeleteObjects(worker.written, left)

Expected(key) == key[1] \in DOMAIN rows

\* Mutant: an object that nothing names may go at once.
DeletesAtOnce(key) == key \in DOMAIN objects

SafeToDelete(key) == objects[key] = "old"


MayHappen == mediaEvents < MaxMediaEvents
Happen == MayHappen /\ mediaEvents' = mediaEvents + 1
-----------------------------------------------------------------------------
(* The page.                                                               *)

Idle == [phase |-> "none"]
NoPicker == [open |-> FALSE]
Picker(current) == [open |-> TRUE, selected |-> current, decided |-> current # NoPhoto]

Pending(command) == command.phase # "none" /\ command.own
Busy == Pending(uploading) \/ Pending(erasing) \/ setting.phase # "none"
Page == DOMAIN rows
Gallery == IF Usable(library) THEN library.data ELSE {}

CanConfirm ==
    /\ picker.open /\ ~Busy
    /\ picker.selected # 0 /\ picker.decided

LibraryOnScreen == picker.open
ReadLibrary == library' = IF LibraryOnScreen THEN Refetch(library, Page) ELSE library

MediaInit ==
    /\ rows = [a \in {1} |-> "active"] /\ objects = [key \in Keys(1) |-> "old"] /\ lastAsset = 1
    /\ photo \in {NoPhoto, 1}
    /\ worker = NoWorker /\ candidates = {} /\ claim = NoClaim /\ doomed = NoKey
    /\ library = NotAsked /\ item = Land(NotAsked, photo)
    /\ picker = NoPicker /\ uploading = Idle /\ erasing = Idle /\ setting = Idle
    /\ mediaEvents \in 0 .. MaxMediaEvents

(* One upload: every object, then the row. *)

BeginUpload ==
    /\ uploading.phase = "sent" /\ worker = NoWorker /\ lastAsset < MaxAssets
    /\ lastAsset' = lastAsset + 1
    /\ worker' = [phase |-> "putting", asset |-> lastAsset', written |-> {}]
    /\ UNCHANGED <<rows, objects, photo, candidates, claim, doomed, mediaPageVars, mediaEvents>>

PutObject ==
    /\ worker.phase = "putting" /\ Cardinality(worker.written) < Len(Variants)
    /\ LET key == <<worker.asset, Variants[Cardinality(worker.written) + 1]>>
       IN /\ objects' = With(objects, key, "young")
          /\ worker' = [worker EXCEPT !.written = @ \cup {key}]
    /\ UNCHANGED <<rows, photo, lastAsset, candidates, claim, doomed, mediaPageVars, mediaEvents>>

AllWritten == worker.phase = "putting" /\ worker.written = Keys(worker.asset)

CommitUpload ==
    /\ AllWritten
    /\ rows' = With(rows, worker.asset, "pending")
    /\ worker' = NoWorker /\ uploading' = [uploading EXCEPT !.phase = "stored", !.asset = worker.asset]
    /\ UNCHANGED <<objects, photo, lastAsset, candidates, claim, doomed, library, item, picker, erasing,
                   setting, mediaEvents>>

\* The commit fails to be answered, whether or not it happened.
DoubtCommit ==
    /\ AllWritten /\ Happen
    /\ \E happened \in BOOLEAN :
        rows' = IF happened THEN With(rows, worker.asset, "pending") ELSE rows
    /\ worker' = [worker EXCEPT !.phase = "doubtful"]
    /\ UNCHANGED <<objects, photo, lastAsset, candidates, claim, doomed, mediaPageVars>>

\* The objects go only once the row is seen to be absent; the probe may fail.
ResolveDoubt ==
    /\ worker.phase = "doubtful"
    /\ \/ worker.asset \notin DOMAIN rows /\ Compensate
       \/ UNCHANGED objects
    /\ worker' = NoWorker /\ uploading' = [uploading EXCEPT !.phase = "failed"]
    /\ UNCHANGED <<rows, photo, lastAsset, candidates, claim, doomed, library, item, picker, erasing,
                   setting, mediaEvents>>

\* An image that is no image, a quota, storage that fails.
FailUpload ==
    /\ worker.phase = "putting" /\ Happen
    /\ Compensate
    /\ worker' = NoWorker /\ uploading' = [uploading EXCEPT !.phase = "failed"]
    /\ UNCHANGED <<rows, photo, lastAsset, candidates, claim, doomed, library, item, picker, erasing, setting>>

\* The process dies: what it wrote stays, and the client's answer is lost.
CrashUpload ==
    /\ worker # NoWorker /\ Happen
    /\ worker' = NoWorker /\ uploading' = [uploading EXCEPT !.phase = "failed"]
    /\ UNCHANGED <<rows, objects, photo, lastAsset, candidates, claim, doomed, library, item, picker,
                   erasing, setting>>

(* Time, and the sweep. *)

Expire ==
    /\ Happen
    /\ \E a \in DOMAIN rows : rows[a] = "pending" /\ rows' = [rows EXCEPT ![a] = "expired"]
    /\ UNCHANGED <<objects, photo, lastAsset, worker, candidates, claim, doomed, mediaPageVars>>

AgeObject ==
    /\ \E key \in DOMAIN objects :
        /\ objects[key] = "young" /\ (worker # NoWorker => key[1] # worker.asset)
        /\ objects' = [objects EXCEPT ![key] = "old"]
    /\ UNCHANGED <<rows, photo, lastAsset, worker, candidates, claim, doomed, mediaPageVars, mediaEvents>>

SelectExpired ==
    /\ candidates = {} /\ Happen
    /\ candidates' = {a \in DOMAIN rows : rows[a] = "expired"} /\ candidates' # {}
    /\ UNCHANGED <<rows, objects, photo, lastAsset, worker, claim, doomed, mediaPageVars>>

\* Mutant: what was found is deleted as long as it is there.
RelockPresent(found) == {a \in found : a \in DOMAIN rows}

\* Every candidate is looked at again under the lock: an attachment that began
\* before it expired may have promoted it since.
RelockExpired(found) == {a \in found : a \in DOMAIN rows /\ rows[a] = "expired"}

\* One image of an item among them, and the database deletes none.
SweepExpired ==
    /\ candidates # {} /\ candidates' = {}
    /\ LET found == RelockExpired(candidates)
           gone == IF photo \in found THEN {} ELSE found
       IN /\ rows' = Without(rows, gone)
          /\ \E left \in Leftovers : DeleteObjects(UNION {Keys(a) : a \in gone}, left)
    /\ UNCHANGED <<photo, lastAsset, worker, claim, doomed, mediaPageVars, mediaEvents>>

FindOrphan ==
    /\ doomed = NoKey /\ Happen
    /\ \E key \in DOMAIN objects : ~Expected(key) /\ SafeToDelete(key) /\ doomed' = key
    /\ UNCHANGED <<rows, objects, photo, lastAsset, worker, candidates, claim, mediaPageVars>>

DeleteOrphan ==
    /\ doomed # NoKey /\ doomed' = NoKey
    /\ objects' = Without(objects, {doomed})
    /\ UNCHANGED <<rows, photo, lastAsset, worker, candidates, claim, mediaPageVars, mediaEvents>>

(* Another administrator. *)

BeginClaim ==
    /\ claim = NoClaim /\ Happen
    /\ \E a \in DOMAIN rows : claim' = [asset |-> a, late |-> Late(a)]
    /\ UNCHANGED <<rows, objects, photo, lastAsset, worker, candidates, doomed, mediaPageVars>>

\* As the photo of the item, or in the draft of the storefront.
FinishClaim ==
    /\ claim # NoClaim /\ claim' = NoClaim
    /\ \/ AttachPhoto(claim.asset, claim.late)
       \/ Promote(claim.asset, claim.late) /\ UNCHANGED photo
       \/ ~Attachable(claim.asset, claim.late) /\ UNCHANGED <<rows, photo>>
    /\ UNCHANGED <<objects, lastAsset, worker, candidates, doomed, mediaPageVars, mediaEvents>>

UseLibraryElsewhere ==
    /\ Happen
    /\ \/ Detach /\ UNCHANGED objects
       \/ \E a \in Assets, left \in Leftovers : RemoveAsset(a, left) /\ UNCHANGED photo
    /\ UNCHANGED <<lastAsset, worker, candidates, claim, doomed, mediaPageVars>>

(* The queries. *)

LandLibrary ==
    /\ UnderWay(library) /\ \E page \in Answers(library, Page) : library' = Land(library, page)
    /\ UNCHANGED <<mediaServerVars, item, picker, uploading, erasing, setting, mediaEvents>>

LandItem ==
    /\ UnderWay(item) /\ \E p \in Answers(item, photo) : item' = Land(item, p)
    /\ UNCHANGED <<mediaServerVars, library, picker, uploading, erasing, setting, mediaEvents>>

FailLibrary ==
    /\ UnderWay(library) /\ Happen /\ library' = Fail(library)
    /\ UNCHANGED <<mediaServerVars, item, picker, uploading, erasing, setting>>

(* The photo section and its dialog. *)

\* Bound: not while an upload or a deletion of an earlier dialog goes on.
OpenPicker ==
    /\ ~picker.open /\ erasing = Idle /\ uploading = Idle
    /\ picker' = Picker(item.data)
    /\ library' = Fetch(library, Page)
    /\ UNCHANGED <<mediaServerVars, item, uploading, erasing, setting, mediaEvents>>

\* An upload or a deletion does not keep the dialog open; it goes on alone.
Orphaned(command) == IF command.phase = "none" THEN command ELSE [command EXCEPT !.own = FALSE]
ClosePicker ==
    /\ picker.open /\ setting.phase = "none" /\ picker' = NoPicker
    /\ uploading' = Orphaned(uploading) /\ erasing' = Orphaned(erasing)
    /\ UNCHANGED <<mediaServerVars, library, item, setting, mediaEvents>>

\* Bound: the page sends a file only when no earlier upload is under way.
ChooseFile ==
    /\ picker.open /\ ~Busy /\ uploading = Idle /\ lastAsset < MaxAssets
    /\ uploading' = [phase |-> "sent", asset |-> 0, own |-> TRUE]
    /\ UNCHANGED <<mediaServerVars, library, item, picker, erasing, setting, mediaEvents>>

SelectTile ==
    /\ picker.open /\ ~Busy
    /\ \E a \in Gallery : picker' = [picker EXCEPT !.selected = a]
    /\ UNCHANGED <<mediaServerVars, library, item, uploading, erasing, setting, mediaEvents>>

\* A description that is not blank, or none on purpose.
DescribeImage ==
    /\ picker.open /\ picker.selected # 0
    /\ \E decided \in BOOLEAN : picker' = [picker EXCEPT !.decided = decided]
    /\ UNCHANGED <<mediaServerVars, library, item, uploading, erasing, setting, mediaEvents>>

\* Delete, then the confirmation in its place.
DeletePermanently ==
    /\ picker.open /\ ~Busy /\ erasing = Idle
    /\ \E a \in Gallery : erasing' = [phase |-> "sent", asset |-> a, own |-> TRUE]
    /\ UNCHANGED <<mediaServerVars, library, item, picker, uploading, setting, mediaEvents>>

Attach ==
    /\ CanConfirm
    /\ setting' = [phase |-> "sent", photo |-> picker.selected]
    /\ UNCHANGED <<mediaServerVars, library, item, picker, uploading, erasing, mediaEvents>>

RemoveFromItem ==
    /\ ~picker.open /\ setting = Idle /\ item.data # NoPhoto
    /\ setting' = [phase |-> "sent", photo |-> NoPhoto]
    /\ UNCHANGED <<mediaServerVars, library, item, picker, uploading, erasing, mediaEvents>>

(* What becomes of the commands. *)

RunErase ==
    /\ erasing.phase = "sent"
    /\ \/ /\ RemoveAsset(erasing.asset, {}) /\ erasing' = [erasing EXCEPT !.phase = "done"]
          /\ UNCHANGED mediaEvents
       \/ /\ \E left \in Leftovers : RemoveAsset(erasing.asset, left)
          /\ \E p \in {"done", "failed"} : erasing' = [erasing EXCEPT !.phase = p]
          /\ Happen
       \/ /\ UNCHANGED <<rows, objects>> /\ erasing' = [erasing EXCEPT !.phase = "failed"]
          /\ erasing.asset \notin DOMAIN rows \/ photo = erasing.asset
          /\ UNCHANGED mediaEvents
    /\ UNCHANGED <<photo, lastAsset, worker, candidates, claim, doomed, library, item, picker, uploading, setting>>

\* Here the transaction has the lock as soon as it begins.
RunSetting ==
    /\ setting.phase = "sent"
    /\ \/ /\ IF setting.photo = NoPhoto THEN Detach
             ELSE AttachPhoto(setting.photo, Late(setting.photo))
          /\ \/ setting' = [setting EXCEPT !.phase = "done"] /\ UNCHANGED mediaEvents
             \/ setting' = [setting EXCEPT !.phase = "failed"] /\ Happen
       \/ /\ setting.photo # NoPhoto /\ ~Attachable(setting.photo, Late(setting.photo))
          /\ setting' = [setting EXCEPT !.phase = "failed"]
          /\ UNCHANGED <<rows, photo, mediaEvents>>
    /\ UNCHANGED <<objects, lastAsset, worker, candidates, claim, doomed, library, item, picker, uploading, erasing>>

\* A success reads the library again before the dialog hears of it.
ReadAfter ==
    /\ \/ /\ uploading.phase = "stored" /\ uploading' = [uploading EXCEPT !.phase = "reading"]
          /\ UNCHANGED <<erasing, setting, item>>
       \/ /\ erasing.phase = "done" /\ erasing' = [erasing EXCEPT !.phase = "reading"]
          /\ UNCHANGED <<uploading, setting, item>>
       \/ /\ setting.phase = "done" /\ setting' = [setting EXCEPT !.phase = "reading"]
          /\ item' = Refetch(item, photo) /\ UNCHANGED <<uploading, erasing>>
    /\ ReadLibrary
    /\ UNCHANGED <<mediaServerVars, picker, mediaEvents>>

LibraryRead == LibraryOnScreen => ~UnderWay(library)

SettleUpload ==
    /\ (uploading.phase = "reading" /\ LibraryRead) \/ uploading.phase = "failed"
    /\ picker' = IF uploading.own /\ uploading.phase = "reading"
                 THEN [picker EXCEPT !.selected = uploading.asset] ELSE picker
    /\ uploading' = Idle
    /\ UNCHANGED <<mediaServerVars, library, item, erasing, setting, mediaEvents>>

\* A selection of what is gone goes with it.
AfterErase(p, a) ==
    IF p.selected = a THEN [p EXCEPT !.selected = 0, !.decided = FALSE] ELSE p

SettleErase ==
    /\ (erasing.phase = "reading" /\ LibraryRead) \/ erasing.phase = "failed"
    /\ picker' = IF erasing.own /\ erasing.phase = "reading"
                 THEN AfterErase(picker, erasing.asset) ELSE picker
    /\ erasing' = Idle
    /\ UNCHANGED <<mediaServerVars, library, item, uploading, setting, mediaEvents>>

\* The dialog closes, whatever the answer was.
SettleSetting ==
    /\ \/ setting.phase = "reading" /\ LibraryRead /\ ~UnderWay(item)
       \/ setting.phase = "failed"
    /\ picker' = IF setting.photo = NoPhoto THEN picker ELSE NoPicker
    /\ setting' = Idle
    /\ UNCHANGED <<mediaServerVars, library, item, uploading, erasing, mediaEvents>>

UploadNext ==
    \/ BeginUpload \/ PutObject \/ CommitUpload \/ DoubtCommit \/ ResolveDoubt \/ FailUpload \/ CrashUpload
    \/ BeginClaim \/ FinishClaim \/ UseLibraryElsewhere \/ SettleUpload

\* The storage, used by whoever uploads, and swept.
ReceiveFile ==
    /\ uploading = Idle /\ lastAsset < MaxAssets
    /\ uploading' = [phase |-> "sent", asset |-> 0, own |-> FALSE]
    /\ UNCHANGED <<mediaServerVars, library, item, picker, erasing, setting, mediaEvents>>

StorageNext ==
    \/ ReceiveFile \/ ReadAfter \/ UploadNext
    \/ Expire \/ AgeObject \/ SelectExpired \/ SweepExpired \/ FindOrphan \/ DeleteOrphan

\* The page, beside another administrator.
MediaNext ==
    \/ UploadNext
    \/ LandLibrary \/ LandItem \/ FailLibrary
    \/ OpenPicker \/ ClosePicker \/ ChooseFile \/ SelectTile \/ DescribeImage
    \/ DeletePermanently \/ Attach \/ RemoveFromItem
    \/ RunErase \/ RunSetting \/ ReadAfter \/ SettleErase \/ SettleSetting

MediaSpec == MediaInit /\ [][StorageNext \/ MediaNext]_mediaVars

-----------------------------------------------------------------------------

Commands == {"none", "sent", "stored", "done", "reading", "failed"}

MediaTypeOK ==
    /\ DOMAIN rows \subseteq Assets /\ \A a \in DOMAIN rows : rows[a] \in Statuses
    /\ photo \in {NoPhoto} \cup Assets /\ lastAsset \in Assets
    /\ DOMAIN objects \subseteq UNION {Keys(a) : a \in Assets}
    /\ \A key \in DOMAIN objects : objects[key] \in {"young", "old"}
    /\ worker.phase \in {"none", "putting", "doubtful"} /\ candidates \subseteq Assets
    /\ claim = NoClaim \/ claim \in [asset : Assets, late : BOOLEAN]
    /\ doomed = NoKey \/ doomed \in UNION {Keys(a) : a \in Assets}
    /\ library \in Queries(SUBSET Assets) /\ item \in Queries({NoPhoto} \cup Assets)
    /\ picker.open => picker.selected \in 0 .. MaxAssets
    /\ {uploading.phase, erasing.phase, setting.phase} \subseteq Commands

(* Every image in the library has all its objects, and the photo of an item  *)
(* is an image that was promoted and is still there: neither the rollback of *)
(* an upload whose commit is in doubt, nor a deletion that is refused, nor   *)
(* the sweep racing an upload takes the bytes of a row.                      *)
ImagesServable ==
    /\ \A a \in DOMAIN rows : Keys(a) \subseteq DOMAIN objects
    /\ photo # NoPhoto => photo \in DOMAIN rows /\ rows[photo] = "active"

(* What the sweep found expired may have been promoted since, also where no  *)
(* constraint holds it back: the draft of a storefront only names its        *)
(* images. A sweep deletes no image that was promoted.                       *)
PromotedIsKept ==
    [][candidates' # candidates
       => \A a \in DOMAIN rows : rows[a] = "active" => a \in DOMAIN rows']_mediaVars

=============================================================================
