-------------------------- MODULE ItemFieldsProofs --------------------------
(***************************************************************************)
(* The fields of an item page, each for any bounds of its own. The images: *)
(* MediaDesk never takes the bytes of a row, nor the row of a photo; the    *)
(* inductive invariant says what the upload under way may still rely on     *)
(* (Uploading) and what the sweep may still delete (Orphaned). The add-ons: *)
(* what a save of ModifierDesk sends is known to the page or typed in it    *)
(* (KnownModifiers). The price: what PriceField writes out and reads back,  *)
(* digit by digit (PriceKnows).                                             *)
(***************************************************************************)
EXTENDS ModifierDesk, MediaDesk, PriceField, DataFacts, TLAPS

Known(a) == a \in 1 .. lastAsset

(* No image takes the ID of an earlier one.                                  *)
Numbered ==
    /\ lastAsset \in Nat
    /\ \A a \in DOMAIN rows : Known(a)
    /\ \A key \in DOMAIN objects : Known(key[1])

(* What an upload wrote is young, and stays until it ends; its row comes     *)
(* when everything is written.                                               *)
Uploading ==
    worker # NoWorker =>
        /\ worker = [phase |-> worker.phase, asset |-> worker.asset, written |-> worker.written]
        /\ Known(worker.asset)
        /\ \A key \in worker.written : key[1] = worker.asset
        /\ \A key \in DOMAIN objects : key[1] = worker.asset => objects[key] = "young"
        /\ worker.phase = "putting" =>
            worker.asset \notin DOMAIN rows /\ worker.written \subseteq DOMAIN objects

(* The object the sweep is about to delete belongs to no row and no upload.  *)
OrphanFound ==
    doomed # NoKey =>
        /\ Known(doomed[1]) /\ doomed[1] \notin DOMAIN rows
        /\ worker # NoWorker => doomed[1] # worker.asset

Stored == ImagesServable /\ Numbered /\ Uploading /\ OrphanFound

-----------------------------------------------------------------------------

LEMMA WithoutIs ==
    ASSUME NEW f, NEW xs
    PROVE  /\ DOMAIN Without(f, xs) = DOMAIN f \ xs
           /\ \A x \in DOMAIN f \ xs : Without(f, xs)[x] = f[x]
BY DEF Without, Restrict

LEMMA KeysName == ASSUME NEW a, NEW key \in Keys(a) PROVE key[1] = a
BY DEF Keys

\* Rows that go with their objects, while no upload needs either.
LEMMA RemovalKeeps ==
    ASSUME Stored, NEW gone \in SUBSET DOMAIN rows, photo \notin gone,
           rows' = Without(rows, gone),
           NEW keys, objects' = Without(objects, keys),
           \A key \in keys : \E a \in gone : key \in Keys(a),
           UNCHANGED <<photo, lastAsset, worker, doomed>>
    PROVE  Stored'
<1>1. /\ DOMAIN rows' = DOMAIN rows \ gone
      /\ \A a \in DOMAIN rows \ gone : rows'[a] = rows[a]
  BY WithoutIs
<1>2. /\ DOMAIN objects' = DOMAIN objects \ keys
      /\ \A key \in DOMAIN objects \ keys : objects'[key] = objects[key]
  BY WithoutIs
<1>3. \A key \in keys : key[1] \in gone
  BY KeysName
<1>4. ImagesServable'
  <2>1. ASSUME NEW a \in DOMAIN rows' PROVE Keys(a) \subseteq DOMAIN objects'
    BY <1>1, <1>2, <1>3, KeysName DEF Stored, ImagesServable
  <2>2. photo' # NoPhoto => photo' \in DOMAIN rows' /\ rows'[photo'] = "active"
    BY <1>1 DEF Stored, ImagesServable
  <2> QED BY <2>1, <2>2 DEF ImagesServable
<1>5. Numbered'
  BY <1>1, <1>2 DEF Stored, Numbered, Known
<1>6. Uploading'
  <2> SUFFICES ASSUME worker # NoWorker PROVE Uploading'
    BY DEF Uploading
  <2>1. worker.phase = "putting" => worker.written \subseteq DOMAIN objects'
    BY <1>2, <1>3 DEF Stored, Uploading
  <2> QED BY <1>1, <1>2, <2>1 DEF Stored, Uploading, Known
<1>7. OrphanFound'
  BY <1>1 DEF Stored, OrphanFound, Known
<1> QED BY <1>4, <1>5, <1>6, <1>7 DEF Stored

LEMMA EraseKeeps ==
    ASSUME Stored, NEW a, NEW left, RemoveAsset(a, left),
           UNCHANGED <<photo, lastAsset, worker, doomed>>
    PROVE  Stored'
<1>1. {a} \in SUBSET DOMAIN rows /\ photo \notin {a} /\ rows' = Without(rows, {a})
      /\ objects' = Without(objects, Keys(a) \ left)
  BY DEF RemoveAsset, DeleteObjects
<1> QED BY <1>1, RemovalKeeps

\* What changes the status of rows, and of no photo but to active.
LEMMA StatusKeeps ==
    ASSUME Stored, DOMAIN rows' = DOMAIN rows,
           photo' # NoPhoto => photo' \in DOMAIN rows /\ rows'[photo'] = "active",
           UNCHANGED <<objects, lastAsset, worker, doomed>>
    PROVE  Stored'
BY DEF Stored, ImagesServable, Numbered, Uploading, OrphanFound, Known

LEMMA ServerAtRest ==
    ASSUME Stored, UNCHANGED <<rows, objects, photo, lastAsset, worker, doomed>>
    PROVE  Stored'
BY DEF Stored, ImagesServable, Numbered, Uploading, OrphanFound, Known

LEMMA PhotoKeeps ==
    ASSUME Stored, Detach \/ \E a, late : Promote(a, late) /\ photo' \in {a, photo},
           UNCHANGED <<objects, lastAsset, worker, doomed>>
    PROVE  Stored'
<1>1. CASE Detach
  BY <1>1, StatusKeeps DEF Detach, Stored, ImagesServable
<1>2. ASSUME NEW a, NEW late, Promote(a, late), photo' \in {a, photo} PROVE Stored'
  <2>1. a \in DOMAIN rows /\ rows' = [rows EXCEPT ![a] = "active"]
    BY <1>2 DEF Promote, Attachable
  <2>2. photo' # NoPhoto => photo' \in DOMAIN rows /\ rows'[photo'] = "active"
    BY <1>2, <2>1 DEF Stored, ImagesServable
  <2> QED BY <2>1, <2>2, StatusKeeps
<1> QED BY <1>1, <1>2

\* A claim ends as a photo, as the promotion alone, or with a refusal.
LEMMA ClaimKeeps == ASSUME Stored, FinishClaim PROVE Stored'
<1>1. UNCHANGED <<objects, lastAsset, worker, doomed>>
  BY DEF FinishClaim
<1>2. CASE AttachPhoto(claim.asset, claim.late)
  BY <1>1, <1>2, PhotoKeeps DEF AttachPhoto
<1>3. CASE Promote(claim.asset, claim.late) /\ UNCHANGED photo
  BY <1>1, <1>3, PhotoKeeps
<1>4. CASE UNCHANGED <<rows, photo>>
  BY <1>1, <1>4, ServerAtRest
<1> QED BY <1>2, <1>3, <1>4 DEF FinishClaim

-----------------------------------------------------------------------------
(* The upload.                                                              *)

LEMMA BeginKeeps == ASSUME Stored, BeginUpload PROVE Stored'
<1>1. /\ worker = NoWorker /\ lastAsset \in Nat /\ lastAsset' = lastAsset + 1
      /\ worker' = [phase |-> "putting", asset |-> lastAsset + 1, written |-> {}]
      /\ UNCHANGED <<rows, objects, photo, doomed>>
  BY DEF BeginUpload, Stored, Numbered
<1>2. \A a : Known(a) => Known(a)' /\ a # lastAsset + 1
  BY <1>1 DEF Known
<1>3. ImagesServable' /\ Numbered'
  BY <1>1, <1>2 DEF Stored, ImagesServable, Numbered
<1>4. /\ lastAsset + 1 \in 1 .. lastAsset' /\ lastAsset + 1 \notin DOMAIN rows
      /\ \A key \in DOMAIN objects : key[1] # lastAsset + 1
  BY <1>1, <1>2 DEF Stored, Numbered
<1>5. Uploading'
  BY <1>1, <1>4 DEF Uploading, Known
<1>6. OrphanFound'
  BY <1>1, <1>2 DEF Stored, OrphanFound
<1> QED BY <1>3, <1>5, <1>6 DEF Stored

LEMMA PutKeeps == ASSUME Stored, PutObject PROVE Stored'
<1> DEFINE key == <<worker.asset, Variants[Cardinality(worker.written) + 1]>>
<1>1. /\ worker.phase = "putting" /\ worker # NoWorker
      /\ objects' = With(objects, key, "young")
      /\ worker' = [worker EXCEPT !.written = @ \cup {key}]
      /\ UNCHANGED <<rows, photo, lastAsset, doomed>>
  BY DEF PutObject, NoWorker
<1>2. /\ worker' = [phase |-> "putting", asset |-> worker.asset, written |-> worker.written \cup {key}]
      /\ Known(worker.asset) /\ key[1] = worker.asset
  BY <1>1 DEF Stored, Uploading
<1> HIDE DEF key
<1>3. /\ DOMAIN objects' = DOMAIN objects \cup {key} /\ objects'[key] = "young"
      /\ \A k \in DOMAIN objects \ {key} : objects'[k] = objects[k]
  BY <1>1 DEF With
<1>4. ImagesServable' /\ Numbered'
  BY <1>1, <1>2, <1>3 DEF Stored, ImagesServable, Numbered, Known
<1>5. Uploading'
  BY <1>1, <1>2, <1>3 DEF Stored, Uploading, Known
<1>6. OrphanFound'
  BY <1>1, <1>2 DEF Stored, OrphanFound, Known
<1> QED BY <1>4, <1>5, <1>6 DEF Stored

\* The row of an upload whose objects are all written.
LEMMA CommitKeeps ==
    ASSUME Stored, AllWritten, rows' = With(rows, worker.asset, "pending"),
           worker' = NoWorker \/ worker' = [worker EXCEPT !.phase = "doubtful"],
           UNCHANGED <<objects, photo, lastAsset, doomed>>
    PROVE  Stored'
<1>1. /\ worker # NoWorker /\ worker.phase = "putting" /\ worker.written = Keys(worker.asset)
      /\ worker.written \subseteq DOMAIN objects /\ Known(worker.asset)
      /\ worker.asset \notin DOMAIN rows
  BY DEF AllWritten, NoWorker, Stored, Uploading
<1>2. /\ DOMAIN rows' = DOMAIN rows \cup {worker.asset}
      /\ \A a \in DOMAIN rows : rows'[a] = rows[a]
  BY <1>1 DEF With
<1>3. \/ worker' = NoWorker
      \/ worker' = [phase |-> "doubtful", asset |-> worker.asset, written |-> worker.written]
  BY <1>1 DEF Stored, Uploading
<1>4. ImagesServable' /\ Numbered'
  BY <1>1, <1>2 DEF Stored, ImagesServable, Numbered, Known
<1>5. Uploading'
  BY <1>1, <1>3 DEF Stored, Uploading, Known
<1>6. OrphanFound'
  BY <1>1, <1>2, <1>3 DEF Stored, OrphanFound, Known
<1> QED BY <1>4, <1>5, <1>6 DEF Stored

LEMMA DoubtKeeps == ASSUME Stored, DoubtCommit PROVE Stored'
<1>1. CASE rows' = With(rows, worker.asset, "pending")
  BY <1>1, CommitKeeps DEF DoubtCommit
<1>2. CASE rows' = rows
  <2>1. /\ worker # NoWorker /\ worker' = [worker EXCEPT !.phase = "doubtful"]
        /\ UNCHANGED <<rows, objects, photo, lastAsset, doomed>>
    BY <1>2 DEF DoubtCommit, AllWritten, NoWorker
  <2>2. worker' = [phase |-> "doubtful", asset |-> worker.asset, written |-> worker.written]
    BY <2>1 DEF Stored, Uploading
  <2> QED BY <2>1, <2>2 DEF Stored, ImagesServable, Numbered, Uploading, OrphanFound, Known
<1> QED BY <1>1, <1>2 DEF DoubtCommit

\* What an upload takes back are its own objects, and no row has them.
LEMMA RollbackKeeps ==
    ASSUME Stored, worker # NoWorker, worker' = NoWorker,
           objects' = objects \/ (worker.asset \notin DOMAIN rows /\ Compensate),
           UNCHANGED <<rows, photo, lastAsset, doomed>>
    PROVE  Stored'
<1>1. /\ DOMAIN objects' \subseteq DOMAIN objects
      /\ \A key \in DOMAIN objects : key[1] \in DOMAIN rows => key \in DOMAIN objects'
  <2>1. CASE objects' = objects
    BY <2>1
  <2>2. CASE worker.asset \notin DOMAIN rows /\ Compensate
    <3>1. PICK left : objects' = Without(objects, worker.written \ left)
      BY <2>2 DEF Compensate, DeleteObjects
    <3>2. DOMAIN objects' = DOMAIN objects \ (worker.written \ left)
      BY <3>1, WithoutIs
    <3> QED BY <2>2, <3>2 DEF Stored, Uploading
  <2> QED BY <2>1, <2>2
<1>2. ImagesServable'
  BY <1>1, KeysName DEF Stored, ImagesServable
<1>3. Numbered' /\ Uploading' /\ OrphanFound'
  BY <1>1 DEF Stored, Numbered, Uploading, OrphanFound, Known
<1> QED BY <1>2, <1>3 DEF Stored

LEMMA UploadKeeps == ASSUME Stored, UploadNext PROVE Stored'
<1>1. CASE BeginUpload
  BY <1>1, BeginKeeps
<1>2. CASE PutObject
  BY <1>2, PutKeeps
<1>3. CASE CommitUpload
  BY <1>3, CommitKeeps DEF CommitUpload
<1>4. CASE DoubtCommit
  BY <1>4, DoubtKeeps
<1>5. CASE ResolveDoubt
  BY <1>5, RollbackKeeps DEF ResolveDoubt, NoWorker
<1>6. CASE FailUpload
  <2>1. worker # NoWorker /\ worker.asset \notin DOMAIN rows
    BY <1>6 DEF FailUpload, NoWorker, Stored, Uploading
  <2> QED BY <1>6, <2>1, RollbackKeeps DEF FailUpload
<1>7. CASE CrashUpload
  BY <1>7, RollbackKeeps DEF CrashUpload
<1>8. CASE UseLibraryElsewhere
  <2>1. CASE Detach /\ UNCHANGED objects
    BY <1>8, <2>1, PhotoKeeps DEF UseLibraryElsewhere
  <2>2. CASE \E a \in Assets, left \in Leftovers : RemoveAsset(a, left) /\ UNCHANGED photo
    BY <1>8, <2>2, EraseKeeps DEF UseLibraryElsewhere
  <2> QED BY <1>8, <2>1, <2>2 DEF UseLibraryElsewhere
<1>9. CASE SettleUpload \/ BeginClaim
  BY <1>9, ServerAtRest DEF SettleUpload, BeginClaim, mediaServerVars
<1>10. CASE FinishClaim
  BY <1>10, ClaimKeeps
<1> QED BY <1>10, <1>1, <1>2, <1>3, <1>4, <1>5, <1>6, <1>7, <1>8, <1>9 DEF UploadNext

-----------------------------------------------------------------------------
(* The sweep.                                                               *)

\* An object ages only when its upload is over.
LEMMA AgeKeeps == ASSUME Stored, AgeObject PROVE Stored'
<1>1. PICK key \in DOMAIN objects : /\ worker # NoWorker => key[1] # worker.asset
                                    /\ objects' = [objects EXCEPT ![key] = "old"]
  BY DEF AgeObject
<1>2. /\ UNCHANGED <<rows, photo, lastAsset, worker, doomed>> /\ DOMAIN objects' = DOMAIN objects
      /\ \A k \in DOMAIN objects : k # key => objects'[k] = objects[k]
  BY <1>1 DEF AgeObject
<1> QED BY <1>1, <1>2 DEF Stored, ImagesServable, Numbered, Uploading, OrphanFound, Known

LEMMA SweepKeeps == ASSUME Stored, SweepExpired PROVE Stored'
<1> DEFINE found == RelockExpired(candidates)
           gone == IF photo \in found THEN {} ELSE found
           keys == UNION {Keys(a) : a \in gone}
<1>1. PICK left : objects' = Without(objects, keys \ left)
  BY DEF SweepExpired, DeleteObjects
<1>2. gone \in SUBSET DOMAIN rows /\ photo \notin gone
  BY DEF RelockExpired
<1>3. rows' = Without(rows, gone) /\ UNCHANGED <<photo, lastAsset, worker, doomed>>
  BY DEF SweepExpired
<1>4. \A key \in keys \ left : \E a \in gone : key \in Keys(a)
  OBVIOUS
<1> HIDE DEF gone, keys
<1> QED BY <1>1, <1>2, <1>3, <1>4, RemovalKeeps

LEMMA OrphanKeeps == ASSUME Stored, FindOrphan \/ DeleteOrphan PROVE Stored'
<1>1. CASE FindOrphan
  <2>1. PICK key \in DOMAIN objects : /\ key[1] \notin DOMAIN rows /\ objects[key] = "old"
                                      /\ doomed' = key
    BY <1>1 DEF FindOrphan, Expected, SafeToDelete
  <2>2. UNCHANGED <<rows, objects, photo, lastAsset, worker>>
    BY <1>1 DEF FindOrphan
  <2> QED BY <2>1, <2>2 DEF Stored, ImagesServable, Numbered, Uploading, OrphanFound, Known
<1>2. CASE DeleteOrphan
  <2>1. /\ DOMAIN objects' = DOMAIN objects \ {doomed} /\ doomed # NoKey /\ doomed' = NoKey
        /\ \A key \in DOMAIN objects \ {doomed} : objects'[key] = objects[key]
        /\ UNCHANGED <<rows, photo, lastAsset, worker>>
    BY <1>2, WithoutIs DEF DeleteOrphan
  <2>2. ImagesServable'
    BY <2>1, KeysName DEF Stored, ImagesServable, OrphanFound
  <2>3. Numbered' /\ OrphanFound'
    BY <2>1 DEF Stored, Numbered, OrphanFound, Known
  <2>4. Uploading'
    BY <2>1 DEF Stored, Uploading, OrphanFound, Known
  <2> QED BY <2>2, <2>3, <2>4 DEF Stored
<1> QED BY <1>1, <1>2

LEMMA StorageKeeps == ASSUME Stored, StorageNext PROVE Stored'
<1>1. CASE UploadNext
  BY <1>1, UploadKeeps
<1>2. CASE Expire
  BY <1>2, StatusKeeps DEF Expire, Stored, ImagesServable
<1>3. CASE AgeObject
  BY <1>3, AgeKeeps
<1>4. CASE SweepExpired
  BY <1>4, SweepKeeps
<1>5. CASE FindOrphan \/ DeleteOrphan
  BY <1>5, OrphanKeeps
<1>6. CASE ReceiveFile \/ ReadAfter \/ SelectExpired
  BY <1>6, ServerAtRest DEF ReceiveFile, ReadAfter, SelectExpired, mediaServerVars
<1> QED BY <1>1, <1>2, <1>3, <1>4, <1>5, <1>6 DEF StorageNext

\* The page changes the server by its commands alone.
LEMMA PageKeeps == ASSUME Stored, MediaNext PROVE Stored'
<1>1. CASE UploadNext
  BY <1>1, UploadKeeps
<1>2. CASE RunErase
  <2>1. UNCHANGED <<photo, lastAsset, worker, doomed>>
    BY <1>2 DEF RunErase
  <2>2. CASE \E left : RemoveAsset(erasing.asset, left)
    BY <2>1, <2>2, EraseKeeps
  <2>3. CASE UNCHANGED <<rows, objects>>
    BY <2>1, <2>3, ServerAtRest
  <2> QED BY <1>2, <2>2, <2>3 DEF RunErase
<1>3. CASE RunSetting
  <2>1. UNCHANGED <<objects, lastAsset, worker, doomed>>
    BY <1>3 DEF RunSetting
  <2>2. CASE Detach \/ AttachPhoto(setting.photo, Late(setting.photo))
    BY <2>1, <2>2, PhotoKeeps DEF AttachPhoto
  <2>3. CASE UNCHANGED <<rows, photo>>
    BY <2>1, <2>3, ServerAtRest
  <2> QED BY <1>3, <2>2, <2>3 DEF RunSetting
<1>4. CASE UNCHANGED mediaServerVars
  BY <1>4, ServerAtRest DEF mediaServerVars
<1> QED BY <1>1, <1>2, <1>3, <1>4
    DEF MediaNext, LandLibrary, LandItem, FailLibrary, OpenPicker, ClosePicker, ChooseFile,
        SelectTile, DescribeImage, DeletePermanently, Attach, RemoveFromItem, ReadAfter,
        SettleErase, SettleSetting

LEMMA MediaInitStored == MediaInit => Stored
BY KeysName DEF MediaInit, Stored, ImagesServable, Numbered, Uploading, OrphanFound, Known, NoPhoto

(* Every image with a row has all its objects, and a photo is an image that  *)
(* was promoted and is still there, whatever uploads, rollbacks, deletions   *)
(* and sweeps run side by side.                                              *)
THEOREM ImagesAreServed == MediaSpec => []ImagesServable
<1>1. Stored /\ [StorageNext \/ MediaNext]_mediaVars => Stored'
  BY StorageKeeps, PageKeeps, ServerAtRest DEF mediaVars, mediaServerVars
<1>2. Stored => ImagesServable
  BY DEF Stored
<1> QED BY <1>1, <1>2, MediaInitStored, PTL DEF MediaSpec

LEMMA SweepSpares ==
    ASSUME [StorageNext \/ MediaNext]_mediaVars, candidates' # candidates,
           NEW a \in DOMAIN rows, rows[a] = "active"
    PROVE  a \in DOMAIN rows'
<1>1. CASE SweepExpired
  <2>1. PICK gone \in SUBSET RelockExpired(candidates) : rows' = Without(rows, gone)
    BY <1>1 DEF SweepExpired
  <2>2. a \notin gone
    BY <2>1 DEF RelockExpired
  <2> QED BY <2>1, <2>2, WithoutIs
<1>2. CASE SelectExpired
  BY <1>2 DEF SelectExpired
<1>3. CASE ~SweepExpired /\ ~SelectExpired
  BY <1>3 DEF StorageNext, MediaNext, UploadNext, mediaVars, mediaServerVars, BeginUpload, PutObject,
        CommitUpload, DoubtCommit, ResolveDoubt, FailUpload, CrashUpload, BeginClaim, FinishClaim,
        UseLibraryElsewhere, SettleUpload, ReceiveFile, Expire, AgeObject, FindOrphan, DeleteOrphan,
        LandLibrary, LandItem, FailLibrary, OpenPicker, ClosePicker, ChooseFile, SelectTile,
        DescribeImage, DeletePermanently, Attach, RemoveFromItem, RunErase, RunSetting, ReadAfter,
        SettleErase, SettleSetting
<1> QED BY <1>1, <1>2, <1>3

(* A sweep deletes no image that was promoted since it was found expired, by *)
(* an attachment that began while it was not.                                *)
THEOREM PromotedAreKept == MediaSpec => PromotedIsKept
<1>1. [StorageNext \/ MediaNext]_mediaVars
      => (candidates' # candidates
          => \A a \in DOMAIN rows : rows[a] = "active" => a \in DOMAIN rows')
  BY SweepSpares
<1> QED BY <1>1, PTL DEF MediaSpec, PromotedIsKept

-----------------------------------------------------------------------------
(* Digits, amounts and powers of ten, for every input.                       *)

LEMMA ValueIsDefined ==
    ASSUME NEW d \in Seq(0 .. 9), NEW n \in Nat, n = Len(d)
    PROVE  \E f \in [0 .. n -> Nat] : /\ ValueOf(d) = f[n] /\ f[0] = 0
                                      /\ \A k \in 1 .. n : f[k] = 10 * f[k - 1] + d[k]
<1> DEFINE Solves(f) == f = [k \in 0 .. n |-> IF k = 0 THEN 0 ELSE 10 * f[k - 1] + d[k]]
           first == [k \in 0 .. n |-> 0]
           prev == [k \in 0 .. n |-> k - 1]
           step == [p \in (0 .. n) \X Nat |-> IF p[1] = 0 THEN 0 ELSE 10 * p[2] + d[p[1]]]
<1>0. \A k \in 1 .. n : d[k] \in 0 .. 9
  OBVIOUS
<1>1. \A k \in 0 .. n : first[k] \in Nat
  OBVIOUS
<1>2. step \in [(0 .. n) \X Nat -> Nat]
  <2>1. ASSUME NEW p \in (0 .. n) \X Nat
        PROVE  (IF p[1] = 0 THEN 0 ELSE 10 * p[2] + d[p[1]]) \in Nat
    <3>1. p[1] \in 0 .. n /\ p[2] \in Nat
      BY <2>1
    <3>2. p[1] # 0 => d[p[1]] \in 0 .. 9
      BY <1>0, <3>1
    <3> QED BY <3>1, <3>2
  <2> QED BY <2>1
<1>3. \A k \in 0 .. n : k \notin {0} => prev[k] \in 0 .. k - 1
  OBVIOUS
<1>4. \A k \in 0 .. n, v \in Nat : k # 0 => step[<<k, v>>] = 10 * v + d[k]
  <2>1. ASSUME NEW k \in 0 .. n, NEW v \in Nat, k # 0
        PROVE  step[<<k, v>>] = 10 * v + d[k]
    <3>1. <<k, v>> \in (0 .. n) \X Nat
      BY <2>1
    <3> QED BY <2>1, <3>1
  <2> QED BY <2>1
<1>5. \A k \in 0 .. n : first[k] = 0 /\ prev[k] = k - 1
  OBVIOUS
<1> HIDE DEF first, step, prev
<1>6. PICK g \in [0 .. n -> Nat] : Recurs(g, n, {0}, first, prev, step)
  BY <1>1, <1>2, <1>3, RecursionUpTo
<1>7. \A k \in 0 .. n : g[k] = IF k = 0 THEN 0 ELSE 10 * g[k - 1] + d[k]
  <2>1. ASSUME NEW k \in 0 .. n, k # 0 PROVE g[k] = 10 * g[k - 1] + d[k]
    <3>1. g[k] = step[<<k, g[k - 1]>>]
      BY <1>5, <1>6, <2>1 DEF Recurs
    <3>2. g[k - 1] \in Nat
      BY <1>6, <2>1
    <3> QED BY <1>4, <2>1, <3>1, <3>2
  <2>2. g[0] = 0
    <3>1. 0 \in 0 .. n
      OBVIOUS
    <3>2. g[0] = first[0]
      BY <1>6, <3>1 DEF Recurs
    <3> QED BY <1>5, <3>1, <3>2
  <2> QED BY <2>1, <2>2
<1>8. Solves(g)
  BY <1>6, <1>7
<1>9. PICK h : h = (CHOOSE f : Solves(f)) /\ Solves(h)
  <2> HIDE DEF Solves
  <2> QED BY <1>8
<1>10. ValueOf(d) = h[n]
  <2>1. ValueOf(d) = (CHOOSE f : f = [k \in 0 .. Len(d) |-> IF k = 0 THEN 0 ELSE 10 * f[k - 1] + d[k]])[Len(d)]
    BY Zenon DEF ValueOf
  <2> QED BY <1>9, <2>1
<1>a. Solves(h)
  BY <1>9
<1>11. h[0] = 0 /\ \A k \in 1 .. n : h[k] = 10 * h[k - 1] + d[k]
  BY <1>a
<1>12. DOMAIN h = 0 .. n /\ h = [k \in 0 .. n |-> h[k]]
  BY <1>a
<1>13. \A k \in 0 .. n : h[k] \in Nat
  <2> DEFINE Good == {k \in 0 .. n : h[k] \in Nat}
  <2>1. 0 \in Good
    BY <1>11
  <2>2. \A k \in 0 .. n - 1 : k \in Good => k + 1 \in Good
    <3> TAKE k \in 0 .. n - 1
    <3> HAVE k \in Good
    <3> PICK j : j = k + 1
      OBVIOUS
    <3>1. j \in 1 .. n /\ j - 1 = k
      OBVIOUS
    <3>2. h[j] = 10 * h[k] + d[j] /\ d[j] \in 0 .. 9 /\ h[k] \in Nat
      BY <1>0, <1>11, <3>1
    <3>3. j \in Good
      BY <3>1, <3>2
    <3> QED BY <3>3
  <2> HIDE DEF Good
  <2>3. 0 .. n \subseteq Good
    BY <2>1, <2>2, InductionUpTo
  <2> QED BY <2>3 DEF Good
<1>14. h \in [0 .. n -> Nat]
  BY <1>12, <1>13
<1> QED BY <1>10, <1>11, <1>14

LEMMA TenToIsDefined ==
    ASSUME NEW n \in Nat
    PROVE  \E f \in [0 .. n -> Nat] : /\ TenTo(n) = f[n] /\ f[0] = 1
                                      /\ \A k \in 1 .. n : f[k] = 10 * f[k - 1]
<1> DEFINE Solves(f) == f = [k \in 0 .. n |-> IF k = 0 THEN 1 ELSE 10 * f[k - 1]]
           first == [k \in 0 .. n |-> 1]
           prev == [k \in 0 .. n |-> k - 1]
           step == [p \in (0 .. n) \X Nat |-> 10 * p[2]]
<1>1. \A k \in 0 .. n : first[k] \in Nat
  OBVIOUS
<1>2. step \in [(0 .. n) \X Nat -> Nat]
  OBVIOUS
<1>3. \A k \in 0 .. n : k \notin {0} => prev[k] \in 0 .. k - 1
  OBVIOUS
<1>4. \A k \in 0 .. n, v \in Nat : step[<<k, v>>] = 10 * v
  OBVIOUS
<1>5. \A k \in 0 .. n : first[k] = 1 /\ prev[k] = k - 1
  OBVIOUS
<1> HIDE DEF first, step, prev
<1>6. PICK g \in [0 .. n -> Nat] : Recurs(g, n, {0}, first, prev, step)
  BY <1>1, <1>2, <1>3, RecursionUpTo
<1>7. \A k \in 0 .. n : g[k] = IF k = 0 THEN 1 ELSE 10 * g[k - 1]
  <2>1. ASSUME NEW k \in 0 .. n, k # 0 PROVE g[k] = 10 * g[k - 1]
    <3>1. g[k] = step[<<k, g[k - 1]>>]
      BY <1>5, <1>6, <2>1 DEF Recurs
    <3>2. g[k - 1] \in Nat
      BY <1>6, <2>1
    <3> QED BY <1>4, <2>1, <3>1, <3>2
  <2>2. g[0] = 1
    <3>1. 0 \in 0 .. n
      OBVIOUS
    <3>2. g[0] = first[0]
      BY <1>6, <3>1 DEF Recurs
    <3> QED BY <1>5, <3>1, <3>2
  <2> QED BY <2>1, <2>2
<1>8. Solves(g)
  BY <1>6, <1>7
<1>9. PICK h : h = (CHOOSE f : Solves(f)) /\ Solves(h)
  <2> HIDE DEF Solves
  <2> QED BY <1>8
<1>10. TenTo(n) = h[n]
  <2>1. TenTo(n) = (CHOOSE f : f = [k \in 0 .. n |-> IF k = 0 THEN 1 ELSE 10 * f[k - 1]])[n]
    BY Zenon DEF TenTo
  <2> QED BY <1>9, <2>1
<1>a. Solves(h)
  BY <1>9
<1>11. h[0] = 1 /\ \A k \in 1 .. n : h[k] = 10 * h[k - 1]
  BY <1>a
<1>12. DOMAIN h = 0 .. n /\ h = [k \in 0 .. n |-> h[k]]
  BY <1>a
<1>13. \A k \in 0 .. n : h[k] \in Nat
  <2> DEFINE Good == {k \in 0 .. n : h[k] \in Nat}
  <2>1. 0 \in Good
    BY <1>11
  <2>2. \A k \in 0 .. n - 1 : k \in Good => k + 1 \in Good
    <3> TAKE k \in 0 .. n - 1
    <3> HAVE k \in Good
    <3> PICK j : j = k + 1
      OBVIOUS
    <3>1. j \in 1 .. n /\ j - 1 = k
      OBVIOUS
    <3>2. h[j] = 10 * h[k] /\ h[k] \in Nat
      BY <1>11, <3>1
    <3>3. j \in Good
      BY <3>1, <3>2
    <3> QED BY <3>3
  <2> HIDE DEF Good
  <2>3. 0 .. n \subseteq Good
    BY <2>1, <2>2, InductionUpTo
  <2> QED BY <2>3 DEF Good
<1>14. h \in [0 .. n -> Nat]
  BY <1>12, <1>13
<1> QED BY <1>10, <1>11, <1>14

LEMMA DigitsAreDefined ==
    ASSUME NEW m \in Nat
    PROVE  \E f \in [0 .. m -> Seq(0 .. 9)] :
              /\ DigitsOf(m) = f[m]
              /\ \A k \in 0 .. m : f[k] = IF k < 10 THEN <<k>> ELSE Append(f[k \div 10], k % 10)
<1> DEFINE D == Seq(0 .. 9)
           Solves(f) == f = [n \in 0 .. m |-> IF n < 10 THEN <<n>> ELSE Append(f[n \div 10], n % 10)]
           B == 0 .. 9
           first == [k \in 0 .. m |-> IF k < 10 THEN <<k>> ELSE << >>]
           prev == [k \in 0 .. m |-> k \div 10]
           step == [p \in (0 .. m) \X D |-> Append(p[2], p[1] % 10)]
<1>1. \A k \in 0 .. m : first[k] \in D
  <2>1. ASSUME NEW k \in 0 .. m PROVE first[k] \in D
    <3>1. CASE k < 10
      <4>1. k \in 0 .. 9
        BY <3>1
      <4>2. <<k>> \in Seq(0 .. 9)
        BY <4>1
      <4> QED BY <3>1, <4>2
    <3>2. CASE ~(k < 10)
      BY <3>2
    <3> QED BY <3>1, <3>2
  <2> QED BY <2>1
<1>2. step \in [(0 .. m) \X D -> D]
  <2>1. ASSUME NEW p \in (0 .. m) \X D PROVE Append(p[2], p[1] % 10) \in D
    <3>1. p[1] \in Nat /\ p[2] \in Seq(0 .. 9)
      BY <2>1
    <3>2. p[1] % 10 \in 0 .. 9
      BY <3>1
    <3> QED BY <3>1, <3>2
  <2> HIDE DEF D
  <2> QED BY <2>1
<1>3. \A k \in 0 .. m : k \notin B => prev[k] \in 0 .. k - 1
  OBVIOUS
<1>4. \A k \in 0 .. m, v \in D : step[<<k, v>>] = Append(v, k % 10)
  <2> HIDE DEF D
  <2> QED OBVIOUS
<1>5. \A k \in 0 .. m : prev[k] = k \div 10 /\ (k < 10 => first[k] = <<k>>) /\ (k < 10 <=> k \in B)
  OBVIOUS
<1> HIDE DEF first, step, prev, B, D
<1>6. PICK g \in [0 .. m -> D] : Recurs(g, m, B, first, prev, step)
  BY <1>1, <1>2, <1>3, RecursionUpTo
<1>7. \A k \in 0 .. m : g[k] = IF k < 10 THEN <<k>> ELSE Append(g[k \div 10], k % 10)
  <2>1. ASSUME NEW k \in 0 .. m, ~(k < 10) PROVE g[k] = Append(g[k \div 10], k % 10)
    <3>1. g[k] = step[<<k, g[k \div 10]>>]
      BY <1>5, <1>6, <2>1 DEF Recurs
    <3>2. k \div 10 \in 0 .. m
      BY <2>1
    <3>3. g[k \div 10] \in D
      BY <1>6, <3>2
    <3> QED BY <1>4, <2>1, <3>1, <3>3
  <2>2. ASSUME NEW k \in 0 .. m, k < 10 PROVE g[k] = <<k>>
    BY <1>5, <1>6, <2>2 DEF Recurs
  <2> QED BY <2>1, <2>2
<1>8. Solves(g)
  BY <1>6, <1>7
<1>9. PICK h : h = (CHOOSE f : Solves(f)) /\ Solves(h)
  <2> HIDE DEF Solves
  <2> QED BY <1>8
<1>10. DigitsOf(m) = h[m]
  <2>1. DigitsOf(m) =
           (CHOOSE f : f = [n \in 0 .. m |-> IF n < 10 THEN <<n>> ELSE Append(f[n \div 10], n % 10)])[m]
    BY Zenon DEF DigitsOf
  <2> QED BY <1>9, <2>1
<1>a. Solves(h)
  BY <1>9
<1>11. \A k \in 0 .. m : h[k] = IF k < 10 THEN <<k>> ELSE Append(h[k \div 10], k % 10)
  BY <1>a
<1>12. DOMAIN h = 0 .. m /\ h = [k \in 0 .. m |-> h[k]]
  BY <1>a
<1>13. \A k \in 0 .. m : h[k] \in Seq(0 .. 9)
  <2> DEFINE Good == {k \in 0 .. m : \A j \in 0 .. k : h[j] \in Seq(0 .. 9)}
  <2>1. \A j \in 0 .. m : j < 10 => h[j] \in Seq(0 .. 9)
    <3>1. ASSUME NEW j \in 0 .. m, j < 10 PROVE h[j] \in Seq(0 .. 9)
      <4>1. j \in 0 .. 9
        BY <3>1
      <4>2. h[j] = <<j>>
        BY <1>11, <3>1, Zenon
      <4>3. <<j>> \in Seq(0 .. 9)
        BY <4>1
      <4> QED BY <4>2, <4>3
    <3> QED BY <3>1
  <2>2. 0 \in Good
    BY <2>1
  <2>3. \A k \in 0 .. m - 1 : k \in Good => k + 1 \in Good
    <3> TAKE k \in 0 .. m - 1
    <3> HAVE k \in Good
    <3> PICK j : j = k + 1
      OBVIOUS
    <3>1. j \in 0 .. m /\ \A i \in 0 .. k : h[i] \in Seq(0 .. 9)
      OBVIOUS
    <3>2. h[j] \in Seq(0 .. 9)
      <4>1. CASE j < 10
        BY <2>1, <3>1, <4>1
      <4>2. CASE ~(j < 10)
        <5>1. j \div 10 \in 0 .. k /\ j % 10 \in 0 .. 9
          BY <4>2
        <5>2. h[j] = Append(h[j \div 10], j % 10)
          BY <1>11, <3>1, <4>2
        <5>3. h[j \div 10] \in Seq(0 .. 9)
          BY <3>1, <5>1
        <5> QED BY <5>1, <5>2, <5>3
      <4> QED BY <4>1, <4>2
    <3>3. j \in Good
      BY <3>1, <3>2
    <3> QED BY <3>3
  <2> HIDE DEF Good
  <2>4. 0 .. m \subseteq Good
    BY <2>2, <2>3, InductionUpTo
  <2> QED BY <2>4 DEF Good
<1>14. h \in [0 .. m -> Seq(0 .. 9)]
  BY <1>12, <1>13
<1> QED BY <1>10, <1>11, <1>14

LEMMA ZerosAreDigits ==
    ASSUME NEW k \in Nat
    PROVE  /\ Zeros(k) \in Seq(0 .. 9) /\ Len(Zeros(k)) = k
           /\ \A i \in 1 .. k : Zeros(k)[i] = 0
<1>1. Zeros(k) = [i \in 1 .. k |-> 0]
  BY DEF Zeros
<1>2. [i \in 1 .. k |-> 0] \in [1 .. k -> 0 .. 9]
  OBVIOUS
<1> QED BY <1>1, <1>2

LEMMA Joined2 ==
    ASSUME NEW a \in Seq(0 .. 9), NEW b \in Seq(0 .. 9)
    PROVE  /\ a \o b \in Seq(0 .. 9) /\ Len(a \o b) = Len(a) + Len(b)
           /\ Len(a) \in Nat /\ Len(b) \in Nat
           /\ \A i \in 1 .. Len(a) : (a \o b)[i] = a[i]
           /\ \A i \in 1 .. Len(b) : (a \o b)[Len(a) + i] = b[i]
BY ConcatProperties

\* A zero at the end is a factor of ten.
LEMMA ValueOverZeros ==
    ASSUME NEW d \in Seq(0 .. 9), NEW k \in Nat
    PROVE  /\ ValueOf(d) \in Nat /\ TenTo(k) \in Nat
           /\ ValueOf(d \o Zeros(k)) = ValueOf(d) * TenTo(k)
<1> DEFINE z == Zeros(k)
           c == d \o z
           n == Len(d)
<1>1. /\ z \in Seq(0 .. 9) /\ Len(z) = k /\ \A i \in 1 .. k : z[i] = 0
  BY ZerosAreDigits
<1> HIDE DEF z
<1>2. /\ n \in Nat /\ c \in Seq(0 .. 9) /\ Len(c) = n + k
      /\ (\A i \in 1 .. n : c[i] = d[i]) /\ \A i \in 1 .. k : c[n + i] = 0
  BY <1>1, Joined2
<1> HIDE DEF c, n
<1>3. PICK f \in [0 .. n + k -> Nat] : /\ ValueOf(c) = f[n + k] /\ f[0] = 0
                                       /\ \A i \in 1 .. n + k : f[i] = 10 * f[i - 1] + c[i]
  <2>1. n + k \in Nat
    BY <1>2
  <2> QED BY <1>2, <2>1, ValueIsDefined
<1>4. PICK g \in [0 .. n -> Nat] : /\ ValueOf(d) = g[n] /\ g[0] = 0
                                   /\ \A i \in 1 .. n : g[i] = 10 * g[i - 1] + d[i]
  BY <1>2, ValueIsDefined DEF n
<1>5. PICK p \in [0 .. k -> Nat] : /\ TenTo(k) = p[k] /\ p[0] = 1
                                   /\ \A i \in 1 .. k : p[i] = 10 * p[i - 1]
  BY TenToIsDefined
<1>6. f[n] = g[n]
  <2> DEFINE Good == {i \in 0 .. n : f[i] = g[i]}
  <2>1. 0 \in Good
    BY <1>2, <1>3, <1>4
  <2>2. \A i \in 0 .. n - 1 : i \in Good => i + 1 \in Good
    <3> TAKE i \in 0 .. n - 1
    <3> HAVE i \in Good
    <3> PICK j : j = i + 1
      OBVIOUS
    <3>1. j \in 1 .. n /\ j \in 1 .. n + k /\ j - 1 = i
      BY <1>2
    <3>2. f[j] = 10 * f[i] + c[j] /\ g[j] = 10 * g[i] + d[j] /\ c[j] = d[j] /\ f[i] = g[i]
      BY <1>2, <1>3, <1>4, <3>1
    <3>3. j \in Good
      BY <1>2, <3>1, <3>2
    <3> QED BY <3>3
  <2> HIDE DEF Good
  <2>3. 0 .. n \subseteq Good
    BY <1>2, <2>1, <2>2, InductionUpTo
  <2>4. n \in Good
    BY <1>2, <2>3
  <2> QED BY <2>4 DEF Good
<1>7. f[n + k] = g[n] * p[k]
  <2> DEFINE v == g[n]
             Good == {i \in 0 .. k : f[n + i] = v * p[i]}
  <2>0. v \in Nat
    BY <1>2, <1>4
  <2> HIDE DEF v
  <2>1. 0 \in Good
    BY <1>2, <1>5, <1>6, <2>0 DEF v
  <2>2. \A i \in 0 .. k - 1 : i \in Good => i + 1 \in Good
    <3> TAKE i \in 0 .. k - 1
    <3> HAVE i \in Good
    <3> PICK j : j = i + 1
      OBVIOUS
    <3> PICK l : l = n + j
      OBVIOUS
    <3>1. j \in 1 .. k /\ l \in 1 .. n + k /\ j - 1 = i /\ l - 1 = n + i
      BY <1>2
    <3>2. f[l] = 10 * f[n + i] + c[l] /\ c[l] = 0 /\ p[j] = 10 * p[i] /\ f[n + i] = v * p[i]
      BY <1>2, <1>3, <1>5, <3>1
    <3>3. f[n + i] \in Nat /\ p[i] \in Nat
      BY <1>2, <1>3, <1>5
    <3>4. f[l] = 10 * (v * p[i])
      BY <1>2, <3>2, <3>3
    <3>5. 10 * (v * p[i]) = v * (10 * p[i])
      BY <2>0, <3>3
    <3>6. j \in Good
      BY <3>1, <3>2, <3>4, <3>5
    <3> QED BY <3>6
  <2> HIDE DEF Good
  <2>3. 0 .. k \subseteq Good
    BY <2>1, <2>2, InductionUpTo
  <2>4. k \in Good
    BY <2>3
  <2> QED BY <2>4 DEF Good, v
<1>8. g[n] \in Nat /\ p[k] \in Nat
  BY <1>2, <1>4, <1>5
<1> QED BY <1>3, <1>4, <1>5, <1>7, <1>8 DEF c, z

LEMMA TenToSum ==
    ASSUME NEW a \in Nat, NEW b \in Nat
    PROVE  TenTo(a + b) = TenTo(a) * TenTo(b)
<1>1. PICK f \in [0 .. a + b -> Nat] : /\ TenTo(a + b) = f[a + b] /\ f[0] = 1
                                       /\ \A i \in 1 .. a + b : f[i] = 10 * f[i - 1]
  <2>1. a + b \in Nat
    OBVIOUS
  <2> QED BY <2>1, TenToIsDefined
<1>2. PICK g \in [0 .. a -> Nat] : /\ TenTo(a) = g[a] /\ g[0] = 1
                                   /\ \A i \in 1 .. a : g[i] = 10 * g[i - 1]
  BY TenToIsDefined
<1>3. PICK p \in [0 .. b -> Nat] : /\ TenTo(b) = p[b] /\ p[0] = 1
                                   /\ \A i \in 1 .. b : p[i] = 10 * p[i - 1]
  BY TenToIsDefined
<1>4. f[a] = g[a]
  <2> DEFINE Good == {i \in 0 .. a : f[i] = g[i]}
  <2>1. 0 \in Good
    BY <1>1, <1>2
  <2>2. \A i \in 0 .. a - 1 : i \in Good => i + 1 \in Good
    <3> TAKE i \in 0 .. a - 1
    <3> HAVE i \in Good
    <3> PICK j : j = i + 1
      OBVIOUS
    <3>1. j \in 1 .. a /\ j \in 1 .. a + b /\ j - 1 = i
      OBVIOUS
    <3>2. f[j] = 10 * f[i] /\ g[j] = 10 * g[i] /\ f[i] = g[i]
      BY <1>1, <1>2, <3>1
    <3>3. j \in Good
      BY <3>1, <3>2
    <3> QED BY <3>3
  <2> HIDE DEF Good
  <2>3. 0 .. a \subseteq Good
    BY <2>1, <2>2, InductionUpTo
  <2>4. a \in Good
    BY <2>3
  <2> QED BY <2>4 DEF Good
<1>5. f[a + b] = g[a] * p[b]
  <2> DEFINE v == g[a]
             Good == {i \in 0 .. b : f[a + i] = v * p[i]}
  <2>0. v \in Nat
    BY <1>2
  <2> HIDE DEF v
  <2>1. 0 \in Good
    BY <1>3, <1>4, <2>0 DEF v
  <2>2. \A i \in 0 .. b - 1 : i \in Good => i + 1 \in Good
    <3> TAKE i \in 0 .. b - 1
    <3> HAVE i \in Good
    <3> PICK j : j = i + 1
      OBVIOUS
    <3> PICK l : l = a + j
      OBVIOUS
    <3>1. j \in 1 .. b /\ l \in 1 .. a + b /\ j - 1 = i /\ l - 1 = a + i
      OBVIOUS
    <3>2. f[l] = 10 * f[a + i] /\ p[j] = 10 * p[i] /\ f[a + i] = v * p[i]
      BY <1>1, <1>3, <3>1
    <3>3. p[i] \in Nat
      BY <1>3
    <3>4. f[l] = 10 * (v * p[i])
      BY <3>2
    <3>5. 10 * (v * p[i]) = v * (10 * p[i])
      BY <2>0, <3>3
    <3>6. j \in Good
      BY <3>1, <3>2, <3>4, <3>5
    <3> QED BY <3>6
  <2> HIDE DEF Good
  <2>3. 0 .. b \subseteq Good
    BY <2>1, <2>2, InductionUpTo
  <2>4. b \in Good
    BY <2>3
  <2> QED BY <2>4 DEF Good, v
<1> QED BY <1>1, <1>2, <1>3, <1>5

\* A zero in front counts for nothing.
LEMMA ValueUnderZeros ==
    ASSUME NEW d \in Seq(0 .. 9), NEW k \in Nat
    PROVE  ValueOf(Zeros(k) \o d) = ValueOf(d)
<1> DEFINE z == Zeros(k)
           c == z \o d
           n == Len(d)
<1>1. /\ z \in Seq(0 .. 9) /\ Len(z) = k /\ \A i \in 1 .. k : z[i] = 0
  BY ZerosAreDigits
<1> HIDE DEF z
<1>2. /\ n \in Nat /\ c \in Seq(0 .. 9) /\ Len(c) = k + n
      /\ (\A i \in 1 .. k : c[i] = 0) /\ \A i \in 1 .. n : c[k + i] = d[i]
  BY <1>1, Joined2
<1> HIDE DEF c, n
<1>3. PICK f \in [0 .. k + n -> Nat] : /\ ValueOf(c) = f[k + n] /\ f[0] = 0
                                       /\ \A i \in 1 .. k + n : f[i] = 10 * f[i - 1] + c[i]
  <2>1. k + n \in Nat
    BY <1>2
  <2> QED BY <1>2, <2>1, ValueIsDefined
<1>4. PICK g \in [0 .. n -> Nat] : /\ ValueOf(d) = g[n] /\ g[0] = 0
                                   /\ \A i \in 1 .. n : g[i] = 10 * g[i - 1] + d[i]
  BY <1>2, ValueIsDefined DEF n
<1>5. f[k] = 0
  <2> DEFINE Good == {i \in 0 .. k : f[i] = 0}
  <2>1. 0 \in Good
    BY <1>3
  <2>2. \A i \in 0 .. k - 1 : i \in Good => i + 1 \in Good
    <3> TAKE i \in 0 .. k - 1
    <3> HAVE i \in Good
    <3> PICK j : j = i + 1
      OBVIOUS
    <3>1. j \in 1 .. k /\ j \in 1 .. k + n /\ j - 1 = i
      BY <1>2
    <3>2. f[j] = 10 * f[i] + c[j] /\ c[j] = 0 /\ f[i] = 0
      BY <1>2, <1>3, <3>1
    <3>3. j \in Good
      BY <3>1, <3>2
    <3> QED BY <3>3
  <2> HIDE DEF Good
  <2>3. 0 .. k \subseteq Good
    BY <2>1, <2>2, InductionUpTo
  <2>4. k \in Good
    BY <2>3
  <2> QED BY <2>4 DEF Good
<1>6. f[k + n] = g[n]
  <2> DEFINE Good == {i \in 0 .. n : f[k + i] = g[i]}
  <2>1. 0 \in Good
    BY <1>2, <1>4, <1>5
  <2>2. \A i \in 0 .. n - 1 : i \in Good => i + 1 \in Good
    <3> TAKE i \in 0 .. n - 1
    <3> HAVE i \in Good
    <3> PICK j : j = i + 1
      OBVIOUS
    <3> PICK l : l = k + j
      OBVIOUS
    <3>1. j \in 1 .. n /\ l \in 1 .. k + n /\ j - 1 = i /\ l - 1 = k + i
      BY <1>2
    <3>2. f[l] = 10 * f[k + i] + c[l] /\ c[l] = d[j] /\ g[j] = 10 * g[i] + d[j] /\ f[k + i] = g[i]
      BY <1>2, <1>3, <1>4, <3>1
    <3>3. j \in Good
      BY <1>2, <3>1, <3>2
    <3> QED BY <3>3
  <2> HIDE DEF Good
  <2>3. 0 .. n \subseteq Good
    BY <1>2, <2>1, <2>2, InductionUpTo
  <2>4. n \in Good
    BY <1>2, <2>3
  <2> QED BY <2>4 DEF Good
<1> QED BY <1>3, <1>4, <1>6 DEF c, z

LEMMA ValueOfOneMore ==
    ASSUME NEW d \in Seq(0 .. 9), NEW x \in 0 .. 9
    PROVE  ValueOf(Append(d, x)) = 10 * ValueOf(d) + x
<1> DEFINE c == Append(d, x)
           n == Len(d)
<1>1. /\ n \in Nat /\ c \in Seq(0 .. 9) /\ Len(c) = n + 1
      /\ c[n + 1] = x /\ \A i \in 1 .. n : c[i] = d[i]
  OBVIOUS
<1> HIDE DEF c, n
<1>2. PICK f \in [0 .. n + 1 -> Nat] : /\ ValueOf(c) = f[n + 1] /\ f[0] = 0
                                       /\ \A i \in 1 .. n + 1 : f[i] = 10 * f[i - 1] + c[i]
  <2>1. n + 1 \in Nat
    BY <1>1
  <2> QED BY <1>1, <2>1, ValueIsDefined
<1>3. PICK g \in [0 .. n -> Nat] : /\ ValueOf(d) = g[n] /\ g[0] = 0
                                   /\ \A i \in 1 .. n : g[i] = 10 * g[i - 1] + d[i]
  BY <1>1, ValueIsDefined DEF n
<1>4. f[n] = g[n]
  <2> DEFINE Good == {i \in 0 .. n : f[i] = g[i]}
  <2>1. 0 \in Good
    BY <1>1, <1>2, <1>3
  <2>2. \A i \in 0 .. n - 1 : i \in Good => i + 1 \in Good
    <3> TAKE i \in 0 .. n - 1
    <3> HAVE i \in Good
    <3> PICK j : j = i + 1
      OBVIOUS
    <3>1. j \in 1 .. n /\ j \in 1 .. n + 1 /\ j - 1 = i
      BY <1>1
    <3>2. f[j] = 10 * f[i] + c[j] /\ g[j] = 10 * g[i] + d[j] /\ c[j] = d[j] /\ f[i] = g[i]
      BY <1>1, <1>2, <1>3, <3>1
    <3>3. j \in Good
      BY <1>1, <3>1, <3>2
    <3> QED BY <3>3
  <2> HIDE DEF Good
  <2>3. 0 .. n \subseteq Good
    BY <1>1, <2>1, <2>2, InductionUpTo
  <2>4. n \in Good
    BY <1>1, <2>3
  <2> QED BY <2>4 DEF Good
<1> PICK l : l = n + 1
  OBVIOUS
<1>5. l \in 1 .. n + 1 /\ l - 1 = n
  BY <1>1
<1>6. f[l] = 10 * f[n] + c[l]
  BY <1>2, <1>5
<1> QED BY <1>1, <1>2, <1>3, <1>4, <1>5, <1>6 DEF c

LEMMA ValueOfOneDigit ==
    ASSUME NEW x \in 0 .. 9
    PROVE  ValueOf(<<x>>) = x
<1> DEFINE d == <<x>>
<1>1. d \in Seq(0 .. 9) /\ Len(d) = 1 /\ d[1] = x
  OBVIOUS
<1> HIDE DEF d
<1> PICK l : l = 1
  OBVIOUS
<1>2. l \in Nat /\ l = Len(d)
  BY <1>1
<1>3. PICK f \in [0 .. l -> Nat] : /\ ValueOf(d) = f[l] /\ f[0] = 0
                                   /\ \A i \in 1 .. l : f[i] = 10 * f[i - 1] + d[i]
  BY <1>1, <1>2, ValueIsDefined
<1>4. l \in 1 .. l /\ l - 1 = 0
  OBVIOUS
<1>5. f[l] = 10 * f[l - 1] + d[l]
  BY <1>3, <1>4
<1>6. f[l - 1] = 0
  BY <1>3, <1>4
<1> QED BY <1>1, <1>3, <1>5, <1>6 DEF d

\* The digits of a number say the number.
LEMMA DigitsSayTheNumber ==
    ASSUME NEW m \in Nat
    PROVE  /\ DigitsOf(m) \in Seq(0 .. 9) /\ Len(DigitsOf(m)) \in Nat \ {0}
           /\ ValueOf(DigitsOf(m)) = m
<1>1. PICK f \in [0 .. m -> Seq(0 .. 9)] :
         /\ DigitsOf(m) = f[m]
         /\ \A k \in 0 .. m : f[k] = IF k < 10 THEN <<k>> ELSE Append(f[k \div 10], k % 10)
  BY DigitsAreDefined
<1> DEFINE Spelled(k) == f[k] \in Seq(0 .. 9) /\ Len(f[k]) \in Nat \ {0} /\ ValueOf(f[k]) = k
           Good == {k \in 0 .. m : \A j \in 0 .. k : Spelled(j)}
<1>2. ASSUME NEW k \in 0 .. m, k < 10 PROVE Spelled(k)
  <2>1. k \in 0 .. 9
    BY <1>2
  <2>2. f[k] = <<k>>
    BY <1>1, <1>2, Zenon
  <2>3. <<k>> \in Seq(0 .. 9) /\ Len(<<k>>) = 1
    BY <2>1
  <2>4. ValueOf(<<k>>) = k
    BY <2>1, ValueOfOneDigit
  <2>5. f[k] \in Seq(0 .. 9) /\ ValueOf(f[k]) = k
    BY <2>2, <2>3, <2>4, Zenon
  <2>6. Len(f[k]) = 1
    BY <2>2
  <2> QED BY <2>5, <2>6
<1>3. 0 \in Good
  BY <1>2
<1>4. \A k \in 0 .. m - 1 : k \in Good => k + 1 \in Good
  <2> TAKE k \in 0 .. m - 1
  <2> HAVE k \in Good
  <2> PICK j : j = k + 1
    OBVIOUS
  <2>1. j \in 0 .. m /\ \A i \in 0 .. k : Spelled(i)
    OBVIOUS
  <2>2. Spelled(j)
    <3>1. CASE j < 10
      BY <1>2, <2>1, <3>1
    <3>2. CASE ~(j < 10)
      <4> DEFINE t == j \div 10
                 x == j % 10
      <4>1. t \in 0 .. k /\ x \in 0 .. 9 /\ j = 10 * t + x
        BY <3>2
      <4> HIDE DEF t, x
      <4>2. f[j] = Append(f[t], x)
        BY <1>1, <2>1, <3>2 DEF t, x
      <4>3. f[t] \in Seq(0 .. 9) /\ ValueOf(f[t]) = t
        BY <2>1, <4>1
      <4>4. ValueOf(f[j]) = j
        BY <4>1, <4>2, <4>3, ValueOfOneMore
      <4>5. f[j] \in Seq(0 .. 9) /\ Len(f[j]) \in Nat \ {0}
        BY <4>1, <4>2, <4>3
      <4> QED BY <4>4, <4>5
    <3> QED BY <3>1, <3>2
  <2> HIDE DEF Spelled
  <2>3. j \in Good
    BY <2>1, <2>2
  <2> QED BY <2>3
<1> HIDE DEF Good
<1>5. 0 .. m \subseteq Good
  BY <1>3, <1>4, InductionUpTo
<1>6. m \in Good
  BY <1>5
<1>7. Spelled(m)
  BY <1>6 DEF Good
<1> QED BY <1>1, <1>7

-----------------------------------------------------------------------------
(* The text of a price and its minor units.                                  *)

Typings == [sign : {"none", "minus", "other"}, whole : Seq(0 .. 9), fraction : Seq(0 .. 9)]

Parsed(t, e) == ParseMajorToMinor(t, e)

\* What a text is read as, it says.
LEMMA ParsedAsTyped ==
    ASSUME NEW t \in Typings, NEW e \in Nat, Parsed(t, e).ok
    PROVE  /\ Parsed(t, e).minor \in Nat
           /\ Says(t, Parsed(t, e).minor, e)
           /\ t # Empty /\ Len(t.fraction) <= e
           /\ Parsed(t, e).minor = ValueOf(t.whole \o PadEnd(t.fraction, e))
<1> DEFINE f == t.fraction
           w == t.whole
           l == Len(f)
           v == ValueOf(w \o PadEnd(f, e))
<1>1. f \in Seq(0 .. 9) /\ w \in Seq(0 .. 9) /\ l \in Nat
  BY DEF Typings
<1>2. ~Error("required").ok /\ ~Error("negative").ok /\ ~Error("malformed").ok
      /\ ~Error("wholeOnly").ok /\ ~Error("tooPrecise").ok /\ ~Error("unsafe").ok
  BY DEF Error
<1>3. t # Empty /\ l <= e /\ Parsed(t, e) = Minor(v)
  <2>1. t.sign \in {"none", "minus", "other"}
    BY DEF Typings
  <2>2. t # Empty /\ t.sign # "minus" /\ t.sign # "other"
    BY <1>2 DEF Parsed, ParseMajorToMinor
  <2>3. ~(Len(t.fraction) > e)
    BY <1>2, <2>2 DEF Parsed, ParseMajorToMinor
  <2> QED BY <1>1, <2>2, <2>3 DEF Parsed, ParseMajorToMinor
<1>4. Parsed(t, e) = [ok |-> TRUE, minor |-> v]
  BY <1>2, <1>3 DEF Minor
<1> DEFINE z == Zeros(e - l)
<1>5. e - l \in Nat
  BY <1>1, <1>3
<1>6. w \o PadEnd(f, e) = (w \o f) \o z
  <2>1. PadEnd(f, e) = f \o z
    BY DEF PadEnd
  <2>2. z \in Seq(0 .. 9)
    BY <1>5, ZerosAreDigits
  <2>3. \A c \in Seq(0 .. 9) : w \o (f \o c) = (w \o f) \o c
    <3> TAKE c \in Seq(0 .. 9)
    <3> HIDE DEF w, f
    <3> QED BY <1>1, ConcatAssociative
  <2> QED BY <2>1, <2>2, <2>3
<1>7. w \o f \in Seq(0 .. 9)
  BY <1>1, Joined2
<1> DEFINE u == ValueOf(w \o f)
<1>8. u \in Nat /\ TenTo(e - l) \in Nat /\ v = u * TenTo(e - l)
  BY <1>5, <1>6, <1>7, ValueOverZeros
<1>9. TenTo(e) = TenTo(e - l) * TenTo(l) /\ TenTo(l) \in Nat
  <2>1. (e - l) + l = e
    BY <1>1
  <2>2. TenTo(l) \in Nat
    BY <1>1, <1>7, ValueOverZeros
  <2> QED BY <1>1, <1>5, <2>1, <2>2, TenToSum
<1> HIDE DEF u, v, l
<1>10. v * TenTo(l) = u * TenTo(e)
  <2> DEFINE a == TenTo(e - l)
             b == TenTo(l)
  <2>1. a \in Nat /\ b \in Nat /\ v = u * a /\ TenTo(e) = a * b
    BY <1>8, <1>9
  <2> HIDE DEF a
  <2>2. (u * a) * b = u * (a * b)
    <3> HIDE DEF b
    <3> QED BY <1>8, <2>1
  <2> QED BY <2>1, <2>2
<1>11. v \in Nat
  <2>1. \A a, b \in Nat : a * b \in Nat
    OBVIOUS
  <2> QED BY <1>8, <2>1
<1> QED BY <1>3, <1>4, <1>10, <1>11 DEF u, v, l, Says

\* What an amount is shown as, is read as that amount.
LEMMA ShownIsParsed ==
    ASSUME NEW m \in Nat, NEW e \in Nat
    PROVE  /\ MinorToMajorInput(m, e) \in Typings
           /\ Parsed(MinorToMajorInput(m, e), e).ok
                 => Parsed(MinorToMajorInput(m, e), e).minor = m
<1> DEFINE d == DigitsOf(m)
           digits == PadStart(d, e + 1)
           n == Len(digits)
           k == n - e
           w == SubSeq(digits, 1, k)
           f == SubSeq(digits, k + 1, n)
           t == MinorToMajorInput(m, e)
<1>1. d \in Seq(0 .. 9) /\ Len(d) \in Nat \ {0} /\ ValueOf(d) = m
  BY DigitsSayTheNumber
<1>2. digits \in Seq(0 .. 9) /\ n \in Nat /\ n >= e + 1 /\ ValueOf(digits) = m
  <2> HIDE DEF d
  <2>1. CASE Len(d) < e + 1
    <3> DEFINE z == Zeros(e + 1 - Len(d))
    <3>1. e + 1 - Len(d) \in Nat
      BY <1>1, <2>1
    <3>2. digits = z \o d
      BY <2>1 DEF PadStart
    <3>3. z \in Seq(0 .. 9) /\ Len(z) = e + 1 - Len(d)
      BY <3>1, ZerosAreDigits
    <3>4. ValueOf(z \o d) = m
      BY <1>1, <3>1, ValueUnderZeros
    <3> HIDE DEF z, digits
    <3>5. z \o d \in Seq(0 .. 9) /\ Len(z \o d) = e + 1
      BY <1>1, <3>3, Joined2
    <3> QED BY <3>2, <3>4, <3>5
  <2>2. CASE ~(Len(d) < e + 1)
    BY <1>1, <2>2 DEF PadStart
  <2> QED BY <2>1, <2>2
<1>3. t = [sign |-> "none", whole |-> w, fraction |-> f]
  BY DEF MinorToMajorInput, Text
<1> HIDE DEF digits, d, t
<1>4. /\ w \in Seq(0 .. 9) /\ f \in Seq(0 .. 9) /\ Len(w) = k /\ Len(f) = e
      /\ (\A i \in 1 .. k : w[i] = digits[i]) /\ \A i \in 1 .. e : f[i] = digits[k + i]
  <2>1. k \in 1 .. n /\ k + 1 \in 1 .. n + 1 /\ n - k = e
    BY <1>2
  <2>2. \A i \in 1 .. n : digits[i] \in 0 .. 9
    BY <1>2
  <2>3. Len(w) = k /\ w \in Seq(0 .. 9) /\ \A i \in 1 .. k : w[i] = digits[i]
    BY <1>2, <2>1, <2>2, SubSeqProperties
  <2>4. Len(f) = e /\ f \in Seq(0 .. 9) /\ \A i \in 1 .. e : f[i] = digits[k + i]
    BY <1>2, <2>1, <2>2, SubSeqProperties
  <2> QED BY <2>3, <2>4
<1>5. t \in Typings
  BY <1>3, <1>4 DEF Typings
<1>6. w \o PadEnd(f, e) = digits
  <2>1. PadEnd(f, e) = f
    <3>1. Zeros(0) = << >>
      BY DEF Zeros
    <3>2. e - Len(f) = 0
      BY <1>4
    <3>3. PadEnd(f, e) = f \o << >>
      BY <3>1, <3>2 DEF PadEnd
    <3> QED BY <1>4, <3>3
  <2> HIDE DEF w, f
  <2>0. k + e = n /\ k \in Nat
    BY <1>2
  <2>2. /\ w \o f \in Seq(0 .. 9) /\ Len(w \o f) = n
        /\ (\A i \in 1 .. k : (w \o f)[i] = w[i]) /\ \A i \in 1 .. e : (w \o f)[k + i] = f[i]
    <3>1. Len(w \o f) = Len(w) + Len(f)
      BY <1>4, Joined2
    <3>2. Len(w \o f) = n
      BY <1>4, <2>0, <3>1
    <3> HIDE DEF k
    <3> QED BY <1>4, <3>2, Joined2
  <2>3. ASSUME NEW i \in 1 .. n PROVE (w \o f)[i] = digits[i]
    <3>1. CASE i <= k
      BY <1>2, <1>4, <2>2, <3>1
    <3>2. CASE ~(i <= k)
      <4>1. PICK j \in 1 .. e : i = k + j
        <5>1. i - k \in 1 .. e /\ i = k + (i - k)
          BY <1>2, <3>2
        <5> QED BY <5>1
      <4> QED BY <1>4, <2>2, <4>1
    <3> QED BY <3>1, <3>2
  <2>4. w \o f = digits
    <3> DEFINE c == w \o f
    <3>1. c \in Seq(0 .. 9) /\ digits \in Seq(0 .. 9) /\ Len(c) = Len(digits)
          /\ \A i \in 1 .. Len(c) : c[i] = digits[i]
      BY <1>2, <2>2, <2>3
    <3> HIDE DEF c
    <3>2. c = digits
      BY <3>1, SeqEqual
    <3> QED BY <3>2 DEF c
  <2> QED BY <2>1, <2>4
<1>7. Parsed(t, e).ok => Parsed(t, e).minor = m
  <2> SUFFICES ASSUME Parsed(t, e).ok PROVE Parsed(t, e).minor = m
    OBVIOUS
  <2>1. Parsed(t, e).minor = ValueOf(t.whole \o PadEnd(t.fraction, e))
    BY <1>5, ParsedAsTyped
  <2> QED BY <1>2, <1>3, <1>6, <2>1
<1> QED BY <1>5, <1>7 DEF t

-----------------------------------------------------------------------------
(* The price field. What a save carries is what its field is read as, and a   *)
(* text that is from the item is what the item's price is shown as.           *)

PricingIsTyped ==
    \/ pricing = NoSave
    \/ /\ pricing = [phase |-> pricing.phase, minor |-> pricing.minor, field |-> pricing.field,
                     assumed |-> pricing.assumed, origin |-> pricing.origin]
       /\ pricing.phase \in {"sent", "saved"}
       /\ pricing.field \in Typings /\ pricing.assumed \in Nat
       /\ Parsed(pricing.field, pricing.assumed).ok
       /\ pricing.minor = Parsed(pricing.field, pricing.assumed).minor
       /\ pricing.origin # "item"

FieldIsTaken ==
    origin = "item" =>
        /\ field = taken
        /\ itemRead = NoPrice => field = Empty
        /\ itemRead # NoPrice => field = MinorToMajorInput(itemRead, Assumed)

PriceKnows ==
    /\ exponent \in Exponents /\ currencyRead \in BOOLEAN
    /\ price \in 0 .. MaxPrice \cup {NoPrice} /\ itemRead \in 0 .. MaxPrice \cup {NoPrice}
    /\ field \in Typings /\ taken \in Typings
    /\ origin \in {"item", "keys", "answer"}
    /\ priceEvents \in 0 .. MaxPriceEvents
    /\ PricingIsTyped /\ FieldIsTaken

LEMMA PriceConstantsHold ==
    ASSUME PriceConstants
    PROVE
    /\ Exponents \subseteq Nat /\ Prices \subseteq 0 .. MaxPrice
    /\ MaxPrice \in Nat /\ MaxSafe \in Nat /\ MaxPriceEvents \in Nat /\ MaxPrice < MaxSafe
    /\ Wholes \subseteq Seq(0 .. 9) /\ Fractions \subseteq Seq(0 .. 9)
BY DEF PriceConstants

LEMMA TextsAreTypings ==
    ASSUME PriceConstants
    PROVE  Texts \subseteq Typings /\ Empty \in Typings
<1>1. \A w \in Seq(0 .. 9), f \in Seq(0 .. 9), s \in {"none", "minus", "other"} :
         [Text(w, f) EXCEPT !.sign = s] \in Typings /\ Text(w, f) \in Typings
  BY DEF Text, Typings
<1>2. << >> \in Seq(0 .. 9) /\ <<5>> \in Seq(0 .. 9)
  OBVIOUS
<1>3. ASSUME NEW t \in Texts PROVE t \in Typings
  <2>1. CASE \E w \in Wholes, f \in Fractions : t = Text(w, f)
    BY <1>1, <2>1, PriceConstantsHold
  <2>2. CASE \E s \in {"minus", "other"} : t = [Text(<<5>>, <<>>) EXCEPT !.sign = s]
    <3>1. PICK s \in {"minus", "other"} : t = [Text(<<5>>, <<>>) EXCEPT !.sign = s]
      BY <2>2
    <3>2. s \in {"none", "minus", "other"}
      OBVIOUS
    <3>3. [Text(<<5>>, <<>>) EXCEPT !.sign = s] \in Typings
      BY <1>1, <1>2, <3>2, Zenon
    <3> QED BY <3>1, <3>3
  <2> QED BY <2>1, <2>2 DEF Texts
<1> QED BY <1>1, <1>2, <1>3 DEF Empty

LEMMA AssumedIsANumber ==
    ASSUME PriceConstants, exponent \in Exponents
    PROVE  Assumed \in Nat /\ \A read \in BOOLEAN : Exponent(read) \in Nat
BY PriceConstantsHold DEF Assumed, Exponent, Dollars

LEMMA PriceStarts == PriceConstants /\ PriceInit => PriceKnows
<1> SUFFICES ASSUME PriceConstants, PriceInit PROVE PriceKnows
  OBVIOUS
<1>1. exponent \in Exponents /\ currencyRead \in BOOLEAN /\ Assumed \in Nat
  BY AssumedIsANumber DEF PriceInit
<1>2. price \in 0 .. MaxPrice \cup {NoPrice} /\ itemRead \in 0 .. MaxPrice \cup {NoPrice}
  BY PriceConstantsHold DEF PriceInit
<1>3. field \in Typings /\ taken \in Typings /\ FieldIsTaken /\ origin = "item"
  <2>1. CASE itemRead = NoPrice
    BY <2>1, TextsAreTypings DEF PriceInit, FieldIsTaken
  <2>2. CASE itemRead # NoPrice
    <3>1. itemRead \in Nat
      BY <1>2, <2>2
    <3>2. MinorToMajorInput(itemRead, Assumed) \in Typings
      BY <1>1, <3>1, ShownIsParsed
    <3> QED BY <2>2, <3>2 DEF PriceInit, FieldIsTaken
  <2> QED BY <2>1, <2>2
<1>4. PricingIsTyped /\ priceEvents \in 0 .. MaxPriceEvents
  BY PriceConstantsHold DEF PriceInit, PricingIsTyped
<1> QED BY <1>1, <1>2, <1>3, <1>4 DEF PriceKnows

\* The form takes an amount from the item, or has its text already.
LEMMA AdoptedIsTaken ==
    ASSUME PriceConstants, PriceKnows, NEW m \in 0 .. MaxPrice \cup {NoPrice}, NEW e \in Nat, NEW other \in BOOLEAN,
           Adopt(m, e, other), itemRead' = m,
           m # NoPrice => Assumed' = e, m = NoPrice => itemRead = m
    PROVE  field' \in Typings /\ taken' \in Typings /\ origin' \in {"item", "keys", "answer"} /\ FieldIsTaken'
<1>1. CASE m # NoPrice /\ (other \/ MinorToMajorInput(m, e) # taken)
  <2>1. m \in Nat
    BY <1>1
  <2>2. MinorToMajorInput(m, e) \in Typings
    BY <2>1, ShownIsParsed
  <2>3. taken' = MinorToMajorInput(m, e) /\ field' = taken' /\ origin' = "item"
    BY <1>1 DEF Adopt
  <2>4. FieldIsTaken'
    BY <1>1, <2>3 DEF FieldIsTaken
  <2> QED BY <2>2, <2>3, <2>4
<1>2. CASE ~(m # NoPrice /\ (other \/ MinorToMajorInput(m, e) # taken))
  <2>1. taken' = taken /\ field' = field /\ origin' = origin
    BY <1>2 DEF Adopt
  <2>2. FieldIsTaken'
    <3>1. CASE m = NoPrice
      BY <2>1, <3>1 DEF PriceKnows, FieldIsTaken
    <3>2. CASE m # NoPrice
      <4>1. MinorToMajorInput(m, e) = taken
        BY <1>2, <3>2
      <4> QED BY <2>1, <3>2, <4>1 DEF PriceKnows, FieldIsTaken
    <3> QED BY <3>1, <3>2
  <2> QED BY <2>1, <2>2 DEF PriceKnows
<1> QED BY <1>1, <1>2

LEMMA PriceGoesOn ==
    ASSUME PriceConstants, PriceKnows, [PriceNext]_(priceVars)
    PROVE  PriceKnows'
<1>0. exponent \in Exponents /\ currencyRead \in BOOLEAN /\ Assumed \in Nat
      /\ \A read \in BOOLEAN : Exponent(read) \in Nat
  BY AssumedIsANumber DEF PriceKnows
<1>1. ASSUME Type PROVE PriceKnows'
  <2>1. field' \in Typings
    BY <1>1, TextsAreTypings DEF Type
  <2>2. PricingIsTyped'
    BY <1>1 DEF PriceKnows, PricingIsTyped, Type
  <2>3. FieldIsTaken'
    BY <1>1 DEF FieldIsTaken, Type
  <2> QED BY <1>1, <2>1, <2>2, <2>3 DEF PriceKnows, Type
<1>2. ASSUME Save PROVE PriceKnows'
  <2> DEFINE parsed == Parsed(field, Assumed)
  <2>1. /\ parsed.ok /\ parsed.minor # itemRead
        /\ pricing' = [phase |-> "sent", minor |-> parsed.minor, field |-> field,
                       assumed |-> Assumed, origin |-> origin]
    BY <1>2 DEF Save, Parsed
  <2>2. origin # "item"
    <3> SUFFICES ASSUME origin = "item" PROVE FALSE
      OBVIOUS
    <3>1. field \in Typings /\ field # Empty
      BY <1>0, <2>1, ParsedAsTyped DEF PriceKnows
    <3>2. itemRead # NoPrice /\ field = MinorToMajorInput(itemRead, Assumed)
      BY <3>1 DEF PriceKnows, FieldIsTaken
    <3>3. itemRead \in Nat
      BY <3>2 DEF PriceKnows
    <3>4. parsed.minor = itemRead
      BY <1>0, <2>1, <3>2, <3>3, ShownIsParsed
    <3> QED BY <2>1, <3>4
  <2>3. PricingIsTyped'
    BY <1>0, <2>1, <2>2 DEF PriceKnows, PricingIsTyped
  <2>4. priceEvents' \in 0 .. MaxPriceEvents
    BY <1>2, PriceConstantsHold DEF Save, Counted, PriceKnows
  <2>5. UNCHANGED <<exponent, currencyRead, price, itemRead, field, taken, origin>>
    BY <1>2 DEF Save
  <2>6. FieldIsTaken'
    BY <2>2, <2>5 DEF FieldIsTaken
  <2> QED BY <2>3, <2>4, <2>5, <2>6 DEF PriceKnows
<1>3. ASSUME RunSave PROVE PriceKnows'
  <2>1. UNCHANGED <<exponent, currencyRead, itemRead, field, taken, origin, priceEvents>>
    BY <1>3 DEF RunSave
  <2>2. pricing # NoSave
    BY <1>3 DEF RunSave, NoSave
  <2>3. pricing.minor \in Nat
    BY <2>2, ParsedAsTyped DEF PriceKnows, PricingIsTyped
  <2>4. price' \in 0 .. MaxPrice \cup {NoPrice}
    BY <1>3, <2>3, PriceConstantsHold DEF RunSave, PriceKnows
  <2>5. PricingIsTyped'
    <3>1. CASE pricing' = NoSave
      BY <3>1 DEF PricingIsTyped
    <3>2. CASE pricing' = [pricing EXCEPT !.phase = "saved"]
      <4>1. /\ pricing = [phase |-> pricing.phase, minor |-> pricing.minor, field |-> pricing.field,
                          assumed |-> pricing.assumed, origin |-> pricing.origin]
            /\ pricing.field \in Typings /\ pricing.assumed \in Nat
            /\ Parsed(pricing.field, pricing.assumed).ok
            /\ pricing.minor = Parsed(pricing.field, pricing.assumed).minor
            /\ pricing.origin # "item"
        BY <2>2 DEF PriceKnows, PricingIsTyped
      <4>2. pricing' = [phase |-> "saved", minor |-> pricing.minor, field |-> pricing.field,
                        assumed |-> pricing.assumed, origin |-> pricing.origin]
        BY <3>2, <4>1
      <4> QED BY <4>1, <4>2 DEF PricingIsTyped
    <3> QED BY <1>3, <3>1, <3>2 DEF RunSave
  <2>6. FieldIsTaken'
    BY <2>1 DEF PriceKnows, FieldIsTaken, Assumed, Exponent
  <2> QED BY <2>1, <2>4, <2>5, <2>6 DEF PriceKnows
<1>4. ASSUME TakeSaved PROVE PriceKnows'
  <2>1. UNCHANGED <<exponent, currencyRead, price, itemRead, taken, priceEvents>>
        /\ pricing' = NoSave /\ origin' = "answer"
    BY <1>4 DEF TakeSaved
  <2>2. pricing # NoSave
    BY <1>4 DEF TakeSaved, NoSave
  <2>3. pricing.minor \in Nat /\ pricing.assumed \in Nat
    BY <2>2, ParsedAsTyped DEF PriceKnows, PricingIsTyped
  <2>4. field' \in Typings
    BY <1>4, <2>3, TextsAreTypings, ShownIsParsed DEF TakeSaved
  <2> QED BY <2>1, <2>4 DEF PriceKnows, PricingIsTyped, FieldIsTaken
<1>5. ASSUME LoseSaved PROVE PriceKnows'
  <2>1. UNCHANGED <<exponent, currencyRead, price, itemRead, field, taken, origin>>
        /\ pricing' = NoSave
    BY <1>5 DEF LoseSaved
  <2>2. priceEvents' \in 0 .. MaxPriceEvents
    BY <1>5, PriceConstantsHold DEF LoseSaved, Counted, PriceKnows
  <2>3. FieldIsTaken'
    BY <2>1 DEF PriceKnows, FieldIsTaken, Assumed, Exponent
  <2> QED BY <2>1, <2>2, <2>3 DEF PriceKnows, PricingIsTyped
<1>6. ASSUME ReadItem PROVE PriceKnows'
  <2>1. UNCHANGED <<exponent, currencyRead, price, pricing, priceEvents>> /\ itemRead' = price
        /\ price # NoPrice
    BY <1>6 DEF ReadItem
  <2>2. PICK other \in BOOLEAN : Adopt(price, Assumed, other)
    BY <1>6 DEF ReadItem
  <2>3. Assumed' = Assumed
    BY <2>1 DEF Assumed, Exponent
  <2>4. price \in 0 .. MaxPrice \cup {NoPrice}
    BY DEF PriceKnows
  <2>5. field' \in Typings /\ taken' \in Typings /\ origin' \in {"item", "keys", "answer"} /\ FieldIsTaken'
    BY <1>0, <2>1, <2>2, <2>3, <2>4, AdoptedIsTaken
  <2>6. PricingIsTyped'
    BY <2>1 DEF PriceKnows, PricingIsTyped
  <2> QED BY <2>1, <2>5, <2>6 DEF PriceKnows
<1>7. ASSUME ReadBusiness PROVE PriceKnows'
  <2>1. UNCHANGED <<exponent, price, itemRead, pricing, priceEvents>> /\ currencyRead' = TRUE
        /\ Adopt(itemRead, Exponent(TRUE), FALSE)
    BY <1>7 DEF ReadBusiness
  <2>2. Assumed' = Exponent(TRUE) /\ Exponent(TRUE) \in Nat
    BY <1>0, <2>1 DEF Assumed, Exponent
  <2>3. itemRead \in 0 .. MaxPrice \cup {NoPrice}
    BY DEF PriceKnows
  <2>4. field' \in Typings /\ taken' \in Typings /\ origin' \in {"item", "keys", "answer"} /\ FieldIsTaken'
    BY <2>1, <2>2, <2>3, AdoptedIsTaken
  <2>5. PricingIsTyped'
    BY <2>1 DEF PriceKnows, PricingIsTyped
  <2> QED BY <2>1, <2>4, <2>5 DEF PriceKnows
<1>8. ASSUME AnotherSets PROVE PriceKnows'
  <2>1. UNCHANGED <<exponent, currencyRead, itemRead, field, taken, origin, pricing>>
        /\ price' \in Prices
    BY <1>8 DEF AnotherSets
  <2>2. priceEvents' \in 0 .. MaxPriceEvents
    BY <1>8, PriceConstantsHold DEF AnotherSets, Counted, PriceKnows
  <2>3. FieldIsTaken'
    BY <2>1 DEF PriceKnows, FieldIsTaken, Assumed, Exponent
  <2>4. PricingIsTyped'
    BY <2>1 DEF PriceKnows, PricingIsTyped
  <2>5. price' \in 0 .. MaxPrice \cup {NoPrice}
    BY <2>1, PriceConstantsHold
  <2> QED BY <2>1, <2>2, <2>3, <2>4, <2>5 DEF PriceKnows
<1>9. ASSUME UNCHANGED priceVars PROVE PriceKnows'
  <2>1. UNCHANGED <<exponent, currencyRead, price, itemRead, field, taken, origin, pricing, priceEvents>>
    BY <1>9 DEF priceVars
  <2>2. FieldIsTaken'
    BY <2>1 DEF PriceKnows, FieldIsTaken, Assumed, Exponent
  <2>3. PricingIsTyped'
    BY <2>1 DEF PriceKnows, PricingIsTyped
  <2> QED BY <2>1, <2>2, <2>3 DEF PriceKnows
<1> QED BY <1>1, <1>2, <1>3, <1>4, <1>5, <1>6, <1>7, <1>8, <1>9 DEF PriceNext

\* A step that stores a price stores what the field of the save said.
LEMMA StoredAsTyped ==
    ASSUME PriceConstants, PriceKnows, [PriceNext]_(priceVars), pricing.phase = "sent", pricing'.phase = "saved"
    PROVE  Says(pricing.field, price', pricing.assumed)
<1>1. pricing # NoSave
  BY DEF NoSave
<1>2. pricing' # pricing /\ NoSave.phase = "none"
  BY DEF NoSave
<1>3. RunSave
  BY <1>1, <1>2 DEF PriceNext, priceVars, Type, Save, TakeSaved, LoseSaved,
                    ReadItem, ReadBusiness, AnotherSets
<1>4. price' = pricing.minor
  BY <1>2, <1>3 DEF RunSave
<1> QED BY <1>1, <1>4, ParsedAsTyped DEF PriceKnows, PricingIsTyped

LEMMA PriceIsTyped == PriceConstants /\ PriceKnows => PriceTypeOK
<1> SUFFICES ASSUME PriceConstants, PriceKnows PROVE PriceTypeOK
  OBVIOUS
<1>1. ASSUME NEW t \in Typings
      PROVE  \A d \in Range(t.whole \o t.fraction) : d \in 0 .. 9
  <2>1. t.whole \in Seq(0 .. 9) /\ t.fraction \in Seq(0 .. 9)
    BY DEF Typings
  <2>2. t.whole \o t.fraction \in Seq(0 .. 9)
    BY <2>1
  <2> DEFINE c == t.whole \o t.fraction
  <2> HIDE DEF c
  <2>3. c \in Seq(0 .. 9)
    BY <2>2 DEF c
  <2>4. \A d \in Range(c) : d \in 0 .. 9
    BY <2>3 DEF Range
  <2> QED BY <2>4 DEF c
<1>2. pricing.phase \in {"none", "sent", "saved"}
  BY DEF PriceKnows, PricingIsTyped, NoSave
<1>3. {price, itemRead} \subseteq 0 .. MaxPrice \cup {NoPrice}
  BY DEF PriceKnows
<1>4. \A t \in {field, taken} : \A d \in Range(t.whole \o t.fraction) : d \in 0 .. 9
  BY <1>1 DEF PriceKnows, Range, Range
<1> QED BY <1>2, <1>3, <1>4 DEF PriceKnows, PriceTypeOK

LEMMA ItemsPriceStays == PriceKnows => ItemsPriceIsNotSent
BY DEF PriceKnows, PricingIsTyped, ItemsPriceIsNotSent

-----------------------------------------------------------------------------
(* The groups of an item and their choices, as tables of rows.               *)

GroupFields == {"label", "min", "max", "place"}
ChoiceFields == {"group", "available", "place"}
ChoicesIn(choices, g) == {c \in DOMAIN choices : choices[c].group = g}

HasLimits(row) == /\ row.min \in Limits /\ row.max \in Maxima
                  /\ InBounds(row.min, row.max)

GoodGroups(table) ==
    /\ IsTable(table, Groups, GroupFields)
    /\ Dense(table, DOMAIN table)
    /\ \A g \in DOMAIN table : HasLimits(table[g])
    /\ \A g, h \in DOMAIN table : table[g].label = table[h].label => g = h

GoodChoices(table, groups) ==
    /\ IsTable(table, ChoiceIds, ChoiceFields)
    /\ \A g \in groups : Dense(table, ChoicesIn(table, g))
    /\ \A c \in DOMAIN table : table[c].group \in groups

KnownModifiers(m) ==
    /\ m = [groups |-> m.groups, choices |-> m.choices]
    /\ GoodGroups(m.groups) /\ GoodChoices(m.choices, DOMAIN m.groups)

LEMMA ModifiersAreFinite ==
    ASSUME ModifierConstants, NEW t, NEW fields, IsTable(t, Groups, fields) \/ IsTable(t, ChoiceIds, fields)
    PROVE  \A S \in SUBSET DOMAIN t : IsFiniteSet(S) /\ Cardinality(S) \in Nat
<1>1. IsFiniteSet(Groups) /\ IsFiniteSet(ChoiceIds)
  BY DEF ModifierConstants
<1> QED BY <1>1, FS_Subset, FS_CardinalityType DEF IsTable

LEMMA GroupIsCreated ==
    ASSUME ModifierConstants, NEW m, KnownModifiers(m), NEW body, body.min \in Limits, body.max \in Maxima,
           NEW n \in CreateGroup(m, body)
    PROVE  KnownModifiers(n)
<1>1. PICK s : s = m.groups
  OBVIOUS
<1>2. PICK row : row = [label |-> body.label, min |-> body.min, max |-> body.max,
                        place |-> Cardinality(DOMAIN s)]
  OBVIOUS
<1>3. PICK g \in Groups \ DOMAIN s : n = [m EXCEPT !.groups = With(s, g, row)]
  <2>1. Cardinality(DOMAIN s) = Cardinality(DOMAIN s)
    OBVIOUS
  <2>2. PICK g \in Groups \ DOMAIN s : n = [m EXCEPT !.groups = With(s, g, row)]
    BY <1>1, <1>2, <2>1 DEF CreateGroup, Refused
  <2> QED BY <2>2
<1>4. PICK t : t = With(s, g, row)
  OBVIOUS
<1>5. n = [groups |-> t, choices |-> m.choices]
  BY <1>3, <1>4 DEF KnownModifiers
<1>6. /\ t = [x \in DOMAIN t |-> t[x]] /\ DOMAIN t = DOMAIN s \cup {g}
      /\ \A x \in DOMAIN s : t[x] = s[x]
      /\ t[g] = row
  BY <1>3, <1>4 DEF With
<1>7. GoodGroups(s) /\ IsFiniteSet(DOMAIN s) /\ Cardinality(DOMAIN s) \in Nat
  BY <1>1, ModifiersAreFinite DEF KnownModifiers, GoodGroups
<1>8. IsRow(row, GroupFields)
  BY <1>2, <1>7 DEF IsRow, GroupFields
<1>9. IsTable(t, Groups, GroupFields)
  BY <1>3, <1>6, <1>7, <1>8 DEF IsTable, GoodGroups
<1>10. Dense(t, DOMAIN t)
  <2>1. Dense(s, DOMAIN s) /\ g \notin DOMAIN s
    BY <1>3, <1>7 DEF GoodGroups
  <2>2. t[g].place = Cardinality(DOMAIN s) /\ \A x \in DOMAIN s : t[x].place = s[x].place
    BY <1>2, <1>6
  <2>3. Dense(t, DOMAIN s \cup {g})
    BY <1>7, <2>1, <2>2, PlacedLast
  <2> QED BY <1>6, <2>3
<1>11. /\ \A h \in DOMAIN s : s[h].label # body.label
       /\ InBounds(body.min, body.max)
  BY <1>1 DEF CreateGroup, Refused, LabelTaken
<1>12. \A h \in DOMAIN t : HasLimits(t[h])
  BY <1>2, <1>6, <1>7, <1>11 DEF GoodGroups, HasLimits
<1>13. \A h, k \in DOMAIN t : t[h].label = t[k].label => h = k
  BY <1>2, <1>3, <1>6, <1>7, <1>11 DEF GoodGroups
<1>14. GoodChoices(m.choices, DOMAIN t)
  <2>1. /\ GoodChoices(m.choices, DOMAIN s)
        /\ ChoicesIn(m.choices, g) = {}
    BY <1>1, <1>3 DEF KnownModifiers, GoodChoices, ChoicesIn
  <2>2. Dense(m.choices, {})
    BY FS_EmptySet DEF Dense
  <2> QED BY <1>6, <2>1, <2>2 DEF GoodChoices
<1> QED BY <1>5, <1>9, <1>10, <1>12, <1>13, <1>14 DEF KnownModifiers, GoodGroups

\* What a change of a group may say.
IsGroupChange(body) ==
    /\ DOMAIN body \subseteq {"label", "min", "max"}
    /\ "min" \in DOMAIN body => body.min \in Limits
    /\ "max" \in DOMAIN body => body.max \in Maxima

LEMMA GroupIsUpdated ==
    ASSUME ModifierConstants, NEW m, KnownModifiers(m), NEW g, NEW body, IsGroupChange(body),
           NEW n \in UpdateGroup(m, g, body)
    PROVE  KnownModifiers(n)
<1>1. PICK s : s = m.groups
  OBVIOUS
<1>2. PICK row : row = Merge(s[g], body)
  OBVIOUS
<1>3. /\ g \in DOMAIN s /\ n = [m EXCEPT !.groups[g] = row] /\ InBounds(row.min, row.max)
      /\ "label" \in DOMAIN body => \A h \in DOMAIN s \ {g} : s[h].label # body.label
  <2>1. Merge(s[g], body) = row
    BY <1>2
  <2> QED BY <1>1, <2>1 DEF UpdateGroup, Refused, LabelTaken
<1>4. PICK t : t = [s EXCEPT ![g] = row]
  OBVIOUS
<1>5. n = [groups |-> t, choices |-> m.choices]
  BY <1>1, <1>3, <1>4 DEF KnownModifiers
<1>6. GoodGroups(s) /\ IsRow(s[g], GroupFields) /\ HasLimits(s[g])
  BY <1>1, <1>3 DEF KnownModifiers, GoodGroups, IsTable
<1>7. /\ t = [x \in DOMAIN t |-> t[x]] /\ DOMAIN t = DOMAIN s
      /\ \A x \in DOMAIN s \ {g} : t[x] = s[x]
      /\ t[g] = row
  BY <1>1, <1>3, <1>4 DEF KnownModifiers, GoodGroups, IsTable
<1>8. /\ IsRow(row, GroupFields) /\ row.place = s[g].place
      /\ \A f \in GroupFields : row[f] = IF f \in DOMAIN body THEN body[f] ELSE s[g][f]
  BY <1>2, <1>6, MergedRow DEF GroupFields, IsGroupChange
<1>9. HasLimits(row)
  BY <1>3, <1>6, <1>8 DEF HasLimits, GroupFields, IsGroupChange
<1>10. row.label = IF "label" \in DOMAIN body THEN body.label ELSE s[g].label
  BY <1>8 DEF GroupFields
<1>11. IsTable(t, Groups, GroupFields)
  BY <1>6, <1>7, <1>8 DEF IsTable, GoodGroups
<1>12. Dense(t, DOMAIN t)
  BY <1>6, <1>7, <1>8, SamePlaces DEF GoodGroups
<1>13. \A h, k \in DOMAIN t : t[h].label = t[k].label => h = k
  BY <1>3, <1>6, <1>7, <1>10 DEF GoodGroups
<1>14. \A h \in DOMAIN t : HasLimits(t[h])
  BY <1>6, <1>7, <1>9 DEF GoodGroups
<1>15. GoodChoices(m.choices, DOMAIN t)
  BY <1>1, <1>7 DEF KnownModifiers
<1> QED BY <1>5, <1>11, <1>12, <1>13, <1>14, <1>15 DEF KnownModifiers, GoodGroups

LEMMA GroupIsDeleted ==
    ASSUME ModifierConstants, NEW m, KnownModifiers(m), NEW g, NEW n \in DeleteGroup(m, g)
    PROVE  KnownModifiers(n)
<1>1. PICK s, d : s = m.groups /\ d = m.choices
  OBVIOUS
<1>2. PICK t, e : /\ t = [h \in DOMAIN s \ {g} |-> CloseGap(s[h], s[g].place)]
                  /\ e = [c \in DOMAIN d \ ChoicesIn(d, g) |-> d[c]]
  OBVIOUS
<1>3. g \in DOMAIN s /\ n = [groups |-> t, choices |-> e]
  <2>1. \A h : CloseGap(s[h], s[g].place) = CloseGap(s[h], s[g].place)
    OBVIOUS
  <2>2. ChoicesOf(m, g) = ChoicesIn(d, g)
    BY <1>1 DEF ChoicesOf, ChoicesIn
  <2>3. [h \in DOMAIN s \ {g} |-> CloseGap(s[h], s[g].place)] = t
    BY <1>2, <2>1
  <2>4. g \in DOMAIN s /\ n = [m EXCEPT !.groups = t, !.choices = e]
    BY <1>1, <1>2, <2>2, <2>3 DEF DeleteGroup, Refused
  <2> QED BY <2>4 DEF KnownModifiers
<1>4. /\ t = [x \in DOMAIN t |-> t[x]] /\ DOMAIN t = DOMAIN s \ {g}
      /\ \A x \in DOMAIN s \ {g} : t[x] = CloseGap(s[x], s[g].place)
      /\ e = [x \in DOMAIN e |-> e[x]] /\ DOMAIN e = DOMAIN d \ ChoicesIn(d, g)
      /\ \A x \in DOMAIN e : e[x] = d[x]
  BY <1>2
<1>5. /\ GoodGroups(s) /\ s[g].place \in Nat /\ IsFiniteSet(DOMAIN s)
      /\ \A x \in DOMAIN s : IsRow(s[x], GroupFields)
      /\ GoodChoices(d, DOMAIN s)
  <2>1. GoodGroups(s) /\ GoodChoices(d, DOMAIN s)
    BY <1>1 DEF KnownModifiers
  <2>2. IsTable(s, Groups, GroupFields) /\ DOMAIN s \in SUBSET DOMAIN s
    BY <2>1 DEF GoodGroups
  <2>3. IsFiniteSet(DOMAIN s)
    BY <2>2, ModifiersAreFinite
  <2> QED BY <1>3, <2>1, <2>2, <2>3 DEF IsTable, IsRow
<1>6. \A x \in DOMAIN s \ {g} :
         /\ IsRow(t[x], GroupFields)
         /\ t[x].place = IF s[x].place > s[g].place THEN s[x].place - 1 ELSE s[x].place
         /\ t[x].label = s[x].label /\ t[x].min = s[x].min /\ t[x].max = s[x].max
  BY <1>4, <1>5, ClosedRow DEF GroupFields
<1>7. IsTable(t, Groups, GroupFields)
  BY <1>4, <1>5, <1>6 DEF IsTable, GoodGroups
<1>8. Dense(t, DOMAIN t)
  <2>1. Dense(s, DOMAIN s)
    BY <1>5 DEF GoodGroups
  <2>2. ClosesUp(s, DOMAIN s, g, t)
    BY <1>6 DEF ClosesUp
  <2>3. Dense(t, DOMAIN s \ {g})
    BY <1>3, <1>5, <2>1, <2>2, GapIsClosed
  <2> QED BY <1>4, <2>3
<1>9. \A h, k \in DOMAIN t : t[h].label = t[k].label => h = k
  BY <1>4, <1>5, <1>6 DEF GoodGroups
<1>10. \A h \in DOMAIN t : HasLimits(t[h])
  BY <1>4, <1>5, <1>6 DEF GoodGroups, HasLimits
<1>11. IsTable(e, ChoiceIds, ChoiceFields)
  BY <1>4, <1>5 DEF IsTable, GoodChoices
<1>12. \A h \in DOMAIN t : ChoicesIn(e, h) = ChoicesIn(d, h)
  BY <1>4 DEF ChoicesIn
<1>13. ASSUME NEW h \in DOMAIN t PROVE Dense(e, ChoicesIn(e, h))
  <2>1. Dense(d, ChoicesIn(d, h))
    BY <1>4, <1>5 DEF GoodChoices
  <2>2. \A x \in ChoicesIn(d, h) : e[x].place = d[x].place
    BY <1>4, <1>12 DEF ChoicesIn
  <2>3. Dense(e, ChoicesIn(d, h))
    BY <2>1, <2>2, SamePlaces
  <2> QED BY <1>12, <2>3
<1>14. \A c \in DOMAIN e : e[c].group \in DOMAIN t
  BY <1>4, <1>5 DEF GoodChoices, ChoicesIn
<1> QED BY <1>3, <1>7, <1>8, <1>9, <1>10, <1>11, <1>13, <1>14 DEF KnownModifiers, GoodGroups, GoodChoices

LEMMA GroupsAreReordered ==
    ASSUME ModifierConstants, NEW m, KnownModifiers(m), NEW order_, NEW n \in ReorderGroups(m, order_)
    PROVE  KnownModifiers(n)
<1>1. PICK s : s = m.groups
  OBVIOUS
<1>2. PICK t : t = [g \in DOMAIN s |-> [s[g] EXCEPT !.place = IndexOf(order_, g) - 1]]
  OBVIOUS
<1>3. Arranges(order_, DOMAIN s) /\ n = [groups |-> t, choices |-> m.choices]
  <2>1. \A g : IndexOf(order_, g) = IndexOf(order_, g)
    OBVIOUS
  <2>2. [g \in DOMAIN s |-> [s[g] EXCEPT !.place = IndexOf(order_, g) - 1]] = t
    BY <1>2, <2>1
  <2>3. Arranges(order_, DOMAIN s) /\ n = [m EXCEPT !.groups = t]
    BY <1>1, <2>2 DEF ReorderGroups, Refused
  <2> QED BY <2>3 DEF KnownModifiers
<1>4. /\ t = [x \in DOMAIN t |-> t[x]] /\ DOMAIN t = DOMAIN s
      /\ \A x \in DOMAIN s : t[x] = [s[x] EXCEPT !.place = IndexOf(order_, x) - 1]
  BY <1>2
<1>5. /\ GoodGroups(s) /\ IsFiniteSet(DOMAIN s)
      /\ \A x \in DOMAIN s : IsRow(s[x], GroupFields)
  BY <1>1, ModifiersAreFinite DEF KnownModifiers, GoodGroups, IsTable
<1>6. \A x \in DOMAIN s : /\ t[x].place = IndexOf(order_, x) - 1
                          /\ t[x].label = s[x].label /\ t[x].min = s[x].min /\ t[x].max = s[x].max
                          /\ t[x] = [f \in GroupFields |-> t[x][f]]
  BY <1>4, <1>5 DEF IsRow, GroupFields
<1>7. Dense(t, DOMAIN s) /\ \A x \in DOMAIN s : t[x].place \in Nat
  <2>1. \A x \in DOMAIN s : t[x].place = IndexOf(order_, x) - 1
    BY <1>6
  <2> QED BY <1>3, <1>5, <2>1, ArrangedIsFilled
<1>8. IsTable(t, Groups, GroupFields)
  BY <1>4, <1>5, <1>6, <1>7 DEF IsTable, IsRow, GoodGroups
<1>9. \A h, k \in DOMAIN t : t[h].label = t[k].label => h = k
  BY <1>4, <1>5, <1>6 DEF GoodGroups
<1>10. \A h \in DOMAIN t : HasLimits(t[h])
  BY <1>4, <1>5, <1>6 DEF GoodGroups, HasLimits
<1>11. GoodChoices(m.choices, DOMAIN t)
  BY <1>1, <1>4 DEF KnownModifiers
<1> QED BY <1>3, <1>4, <1>7, <1>8, <1>9, <1>10, <1>11 DEF KnownModifiers, GoodGroups

LEMMA ChoicesOfAGroup ==
    ASSUME ModifierConstants, NEW m, KnownModifiers(m)
    PROVE  /\ GoodChoices(m.choices, DOMAIN m.groups)
           /\ IsTable(m.choices, ChoiceIds, ChoiceFields)
           /\ \A g : /\ ChoicesIn(m.choices, g) \subseteq DOMAIN m.choices
                     /\ ChoicesOf(m, g) = ChoicesIn(m.choices, g)
                     /\ IsFiniteSet(ChoicesIn(m.choices, g))
                     /\ Cardinality(ChoicesIn(m.choices, g)) \in Nat
           /\ \A choices : GoodChoices(choices, DOMAIN m.groups)
                              => KnownModifiers([m EXCEPT !.choices = choices])
<1>1. GoodChoices(m.choices, DOMAIN m.groups) /\ IsTable(m.choices, ChoiceIds, ChoiceFields)
  BY DEF KnownModifiers, GoodChoices
<1>2. \A choices : [m EXCEPT !.choices = choices] = [groups |-> m.groups, choices |-> choices]
  BY DEF KnownModifiers
<1>3. ASSUME NEW choices, GoodChoices(choices, DOMAIN m.groups)
      PROVE  KnownModifiers([m EXCEPT !.choices = choices])
  BY <1>2, <1>3 DEF KnownModifiers
<1>4. ASSUME NEW g
      PROVE  /\ ChoicesIn(m.choices, g) \subseteq DOMAIN m.choices
             /\ ChoicesOf(m, g) = ChoicesIn(m.choices, g)
             /\ IsFiniteSet(ChoicesIn(m.choices, g)) /\ Cardinality(ChoicesIn(m.choices, g)) \in Nat
  <2>1. ChoicesIn(m.choices, g) \subseteq DOMAIN m.choices
    BY DEF ChoicesIn
  <2>2. IsFiniteSet(ChoicesIn(m.choices, g)) /\ Cardinality(ChoicesIn(m.choices, g)) \in Nat
    BY <1>1, <2>1, ModifiersAreFinite
  <2> QED BY <2>1, <2>2 DEF ChoicesOf, ChoicesIn
<1> QED BY <1>1, <1>3, <1>4

LEMMA ChoiceIsCreated ==
    ASSUME ModifierConstants, NEW m, KnownModifiers(m), NEW g, NEW n \in CreateChoice(m, g)
    PROVE  KnownModifiers(n)
<1>1. PICK d : d = m.choices
  OBVIOUS
<1>2. PICK row : row = [group |-> g, available |-> TRUE, place |-> Cardinality(ChoicesIn(d, g))]
  OBVIOUS
<1>3. PICK c \in ChoiceIds \ DOMAIN d : n = [m EXCEPT !.choices = With(d, c, row)]
  <2>1. ChoicesOf(m, g) = ChoicesIn(d, g)
    BY <1>1, ChoicesOfAGroup
  <2>2. Cardinality(ChoicesIn(d, g)) = Cardinality(ChoicesIn(d, g))
    OBVIOUS
  <2>3. PICK c \in ChoiceIds \ DOMAIN d : n = [m EXCEPT !.choices = With(d, c, row)]
    BY <1>1, <1>2, <2>1, <2>2 DEF CreateChoice, Refused
  <2> QED BY <2>3
<1>4. PICK t : t = With(d, c, row)
  OBVIOUS
<1>5. /\ t = [x \in DOMAIN t |-> t[x]] /\ DOMAIN t = DOMAIN d \cup {c}
      /\ \A x \in DOMAIN d : t[x] = d[x]
      /\ t[c] = row
  BY <1>3, <1>4 DEF With
<1>6. /\ GoodChoices(d, DOMAIN m.groups) /\ IsTable(d, ChoiceIds, ChoiceFields)
      /\ g \in DOMAIN m.groups
      /\ \A h : IsFiniteSet(ChoicesIn(d, h)) /\ Cardinality(ChoicesIn(d, h)) \in Nat
  BY <1>1, ChoicesOfAGroup DEF CreateChoice, Refused
<1>7. IsRow(row, ChoiceFields)
  BY <1>2, <1>6 DEF IsRow, ChoiceFields
<1>8. IsTable(t, ChoiceIds, ChoiceFields)
  BY <1>3, <1>5, <1>6, <1>7 DEF IsTable
<1>9. /\ ChoicesIn(t, g) = ChoicesIn(d, g) \cup {c} /\ c \notin ChoicesIn(d, g)
      /\ \A h : h # g => ChoicesIn(t, h) = ChoicesIn(d, h)
      /\ \A x \in DOMAIN d : t[x].place = d[x].place
  BY <1>2, <1>3, <1>5 DEF ChoicesIn
<1>10. ASSUME NEW h \in DOMAIN m.groups PROVE Dense(t, ChoicesIn(t, h))
  <2>1. Dense(d, ChoicesIn(d, h)) /\ \A x \in ChoicesIn(d, h) : t[x].place = d[x].place
    BY <1>6, <1>9 DEF GoodChoices, ChoicesIn
  <2>2. CASE h = g
    <3>1. t[c].place = Cardinality(ChoicesIn(d, g))
      BY <1>2, <1>5
    <3>2. Dense(t, ChoicesIn(d, g) \cup {c})
      BY <1>6, <1>9, <2>1, <2>2, <3>1, PlacedLast
    <3> QED BY <1>9, <2>2, <3>2
  <2>3. CASE h # g
    BY <1>9, <2>1, <2>3, SamePlaces
  <2> QED BY <2>2, <2>3
<1>11. \A x \in DOMAIN t : t[x].group \in DOMAIN m.groups
  BY <1>2, <1>5, <1>6 DEF GoodChoices
<1>12. GoodChoices(t, DOMAIN m.groups)
  BY <1>8, <1>10, <1>11 DEF GoodChoices
<1> QED BY <1>3, <1>4, <1>12, ChoicesOfAGroup

LEMMA ChoiceIsUpdated ==
    ASSUME ModifierConstants, NEW m, KnownModifiers(m), NEW c, NEW body, DOMAIN body \subseteq {"available"},
           NEW n \in UpdateChoice(m, c, body)
    PROVE  KnownModifiers(n)
<1>1. PICK d : d = m.choices
  OBVIOUS
<1>2. PICK row : row = Merge(d[c], body)
  OBVIOUS
<1>3. c \in DOMAIN d /\ n = [m EXCEPT !.choices[c] = row]
  <2>1. Merge(d[c], body) = row
    BY <1>2
  <2> QED BY <1>1, <2>1 DEF UpdateChoice, Refused
<1>4. PICK t : t = [d EXCEPT ![c] = row]
  OBVIOUS
<1>5. n = [m EXCEPT !.choices = t]
  BY <1>1, <1>3, <1>4 DEF KnownModifiers
<1>6. /\ GoodChoices(d, DOMAIN m.groups) /\ IsTable(d, ChoiceIds, ChoiceFields)
      /\ IsRow(d[c], ChoiceFields)
  BY <1>1, <1>3, ChoicesOfAGroup DEF IsTable
<1>7. /\ t = [x \in DOMAIN t |-> t[x]] /\ DOMAIN t = DOMAIN d
      /\ \A x \in DOMAIN d \ {c} : t[x] = d[x]
      /\ t[c] = row
  BY <1>3, <1>4, <1>6 DEF IsTable
<1>8. /\ IsRow(row, ChoiceFields) /\ row.place = d[c].place
      /\ \A f \in ChoiceFields : row[f] = IF f \in DOMAIN body THEN body[f] ELSE d[c][f]
  BY <1>2, <1>6, MergedRow DEF ChoiceFields
<1>9. row.group = d[c].group
  BY <1>8 DEF ChoiceFields
<1>10. \A x \in DOMAIN d : t[x].group = d[x].group /\ t[x].place = d[x].place
  BY <1>7, <1>8, <1>9
<1>11. \A g : ChoicesIn(t, g) = ChoicesIn(d, g)
  BY <1>7, <1>10 DEF ChoicesIn
<1>12. ASSUME NEW g \in DOMAIN m.groups PROVE Dense(t, ChoicesIn(t, g))
  <2>1. Dense(d, ChoicesIn(d, g)) /\ \A x \in ChoicesIn(d, g) : t[x].place = d[x].place
    BY <1>6, <1>10 DEF GoodChoices, ChoicesIn
  <2>2. Dense(t, ChoicesIn(d, g))
    BY <2>1, SamePlaces
  <2> QED BY <1>11, <2>2
<1>13. IsTable(t, ChoiceIds, ChoiceFields)
  BY <1>6, <1>7, <1>8 DEF IsTable
<1>14. GoodChoices(t, DOMAIN m.groups)
  BY <1>6, <1>7, <1>10, <1>12, <1>13 DEF GoodChoices
<1> QED BY <1>5, <1>14, ChoicesOfAGroup

LEMMA ChoiceIsDeleted ==
    ASSUME ModifierConstants, NEW m, KnownModifiers(m), NEW c, NEW n \in DeleteChoice(m, c)
    PROVE  KnownModifiers(n)
<1>1. PICK d : d = m.choices
  OBVIOUS
<1>2. PICK t : t = [x \in DOMAIN d \ {c} |->
                      IF d[x].group = d[c].group THEN CloseGap(d[x], d[c].place) ELSE d[x]]
  OBVIOUS
<1>3. c \in DOMAIN d /\ n = [m EXCEPT !.choices = t]
  <2>1. \A x : CloseGap(d[x], d[c].place) = CloseGap(d[x], d[c].place)
    OBVIOUS
  <2>2. [x \in DOMAIN d \ {c} |->
            IF d[x].group = d[c].group THEN CloseGap(d[x], d[c].place) ELSE d[x]] = t
    BY <1>2, <2>1
  <2> QED BY <1>1, <2>2 DEF DeleteChoice, Refused
<1>4. /\ t = [x \in DOMAIN t |-> t[x]] /\ DOMAIN t = DOMAIN d \ {c}
      /\ \A x \in DOMAIN t : t[x] = IF d[x].group = d[c].group THEN CloseGap(d[x], d[c].place) ELSE d[x]
  BY <1>2
<1>5. /\ GoodChoices(d, DOMAIN m.groups) /\ IsTable(d, ChoiceIds, ChoiceFields)
      /\ \A h : IsFiniteSet(ChoicesIn(d, h))
  BY <1>1, ChoicesOfAGroup
<1>6. d[c].place \in Nat /\ \A x \in DOMAIN d : IsRow(d[x], ChoiceFields)
  BY <1>3, <1>5 DEF IsTable, IsRow
<1>7. \A x \in DOMAIN t :
         /\ IsRow(t[x], ChoiceFields) /\ t[x].group = d[x].group
         /\ t[x].place = IF d[x].group = d[c].group /\ d[x].place > d[c].place
                         THEN d[x].place - 1 ELSE d[x].place
  BY <1>4, <1>6, ClosedRow DEF ChoiceFields
<1>8. IsTable(t, ChoiceIds, ChoiceFields)
  BY <1>4, <1>5, <1>7 DEF IsTable
<1>9. \A g : ChoicesIn(t, g) = ChoicesIn(d, g) \ {c}
  BY <1>4, <1>7 DEF ChoicesIn
<1>10. ASSUME NEW g \in DOMAIN m.groups PROVE Dense(t, ChoicesIn(t, g))
  <2>1. Dense(d, ChoicesIn(d, g)) /\ IsFiniteSet(ChoicesIn(d, g))
    BY <1>5 DEF GoodChoices
  <2>2. CASE g = d[c].group
    <3>1. c \in ChoicesIn(d, g)
      BY <1>3, <2>2 DEF ChoicesIn
    <3>2. ClosesUp(d, ChoicesIn(d, g), c, t)
      BY <1>4, <1>7, <2>2 DEF ClosesUp, ChoicesIn
    <3>3. Dense(t, ChoicesIn(d, g) \ {c})
      BY <2>1, <3>1, <3>2, GapIsClosed
    <3> QED BY <1>9, <3>3
  <2>3. CASE g # d[c].group
    <3>1. ChoicesIn(t, g) = ChoicesIn(d, g)
      BY <1>9, <2>3 DEF ChoicesIn
    <3>2. \A x \in ChoicesIn(d, g) : t[x].place = d[x].place
      BY <1>7, <2>3, <3>1 DEF ChoicesIn
    <3>3. Dense(t, ChoicesIn(d, g))
      BY <2>1, <3>2, SamePlaces
    <3> QED BY <3>1, <3>3
  <2> QED BY <2>2, <2>3
<1>11. \A x \in DOMAIN t : t[x].group \in DOMAIN m.groups
  BY <1>4, <1>5, <1>7 DEF GoodChoices
<1>12. GoodChoices(t, DOMAIN m.groups)
  BY <1>8, <1>10, <1>11 DEF GoodChoices
<1> QED BY <1>3, <1>12, ChoicesOfAGroup

\* What may be asked of the server about an item's groups and choices.
ModifierCommands == {"createGroup", "updateGroup", "deleteGroup", "createChoice", "updateChoice",
                     "deleteChoice", "reorder"}
IsModifierCommand(q) ==
    /\ q.do \in ModifierCommands
    /\ q.do = "createGroup" => q.body.min \in Limits /\ q.body.max \in Maxima
    /\ q.do = "updateGroup" => IsGroupChange(q.body)
    /\ q.do = "updateChoice" => DOMAIN q.body \subseteq {"available"}

LEMMA CommandsKeepModifiers ==
    ASSUME ModifierConstants, NEW m, KnownModifiers(m), NEW q, IsModifierCommand(q), NEW n \in Execute(m, q)
    PROVE  KnownModifiers(n)
<1>1. CASE q.do = "createGroup"
  BY <1>1, GroupIsCreated DEF Execute, IsModifierCommand
<1>2. CASE q.do = "updateGroup"
  BY <1>2, GroupIsUpdated DEF Execute, IsModifierCommand
<1>3. CASE q.do = "deleteGroup"
  BY <1>3, GroupIsDeleted DEF Execute
<1>4. CASE q.do = "createChoice"
  BY <1>4, ChoiceIsCreated DEF Execute
<1>5. CASE q.do = "updateChoice"
  BY <1>5, ChoiceIsUpdated DEF Execute, IsModifierCommand
<1>6. CASE q.do = "deleteChoice"
  BY <1>6, ChoiceIsDeleted DEF Execute
<1>7. CASE q.do = "reorder"
  BY <1>7, GroupsAreReordered DEF Execute
<1> QED BY <1>1, <1>2, <1>3, <1>4, <1>5, <1>6, <1>7 DEF IsModifierCommand, ModifierCommands

\* The query, the commands under way and the server's groups: everything that is
\* shown, or may be, is something that the server had.
QueryIsKnown(q) ==
    /\ DOMAIN q = {"data", "failed", "flight"} /\ q = [part \in DOMAIN q |-> q[part]]
    /\ q.data # NoData => KnownModifiers(q.data)
    /\ q.flight # NoData => KnownModifiers(q.flight)
RequestIsKnown(r) == r.phase = "sent" => IsModifierCommand(r.q)
SavingIsKnown(r) ==
    /\ r.phase = "sent" => r.q.do = "reorder"
    /\ r.phase = "done" => KnownModifiers(r.view)

ModifiersKnow ==
    /\ KnownModifiers(modifiers) /\ QueryIsKnown(groupQuery)
    /\ RequestIsKnown(request) /\ SavingIsKnown(saving)

LEMMA GroupQueryKeeps ==
    ASSUME NEW q, QueryIsKnown(q), NEW now_, KnownModifiers(now_)
    PROVE  /\ QueryIsKnown(Fetch(q, now_)) /\ QueryIsKnown(Refetch(q, now_))
           /\ QueryIsKnown(Land(q, now_)) /\ QueryIsKnown(Fail(q))
           /\ QueryIsKnown(Write(q, now_))
BY DEF QueryIsKnown, Fetch, Refetch, Land, Fail,
       Write, UnderWay

LEMMA ElsewhereIsACommand ==
    ASSUME ModifierConstants
    PROVE  \A q \in ModifiedElsewhere(modifiers) : IsModifierCommand(q)
<1> TAKE q \in ModifiedElsewhere(modifiers)
<1>1. \/ \E b \in GroupBodies : q = [do |-> "createGroup", body |-> b]
      \/ \E g \in Groups : \E b \in [{"min"} -> Limits] \cup [{"max"} -> Maxima]
                                    \cup [{"label"} -> Labels] :
            q = [do |-> "updateGroup", group |-> g, body |-> b]
      \/ \E g \in Groups : q = [do |-> "deleteGroup", group |-> g]
      \/ \E g \in Groups : q = [do |-> "createChoice", group |-> g]
      \/ \E c \in ChoiceIds : \E b \in [{"available"} -> BOOLEAN] :
            q = [do |-> "updateChoice", choice |-> c, body |-> b]
      \/ \E c \in ChoiceIds : q = [do |-> "deleteChoice", choice |-> c]
      \/ q = [do |-> "reorder", order |-> Reverse(GroupOrder(modifiers))]
  BY DEF ModifiedElsewhere
<1>2. ASSUME NEW b \in GroupBodies, q = [do |-> "createGroup", body |-> b]
      PROVE  IsModifierCommand(q)
  <2>1. b.min = 0 /\ b.max = NoLimit
    BY DEF GroupBodies
  <2>2. b.min \in Limits /\ b.max \in Maxima
    BY <2>1 DEF ModifierConstants, Maxima
  <2> QED BY <1>2, <2>2 DEF IsModifierCommand, ModifierCommands
<1>3. ASSUME NEW g, NEW b \in [{"min"} -> Limits] \cup [{"max"} -> Maxima]
                               \cup [{"label"} -> Labels],
             q = [do |-> "updateGroup", group |-> g, body |-> b]
      PROVE  IsModifierCommand(q)
  <2>1. IsGroupChange(b)
    BY DEF IsGroupChange
  <2> QED BY <1>3, <2>1 DEF IsModifierCommand, ModifierCommands
<1>4. ASSUME NEW c, NEW b \in [{"available"} -> BOOLEAN],
             q = [do |-> "updateChoice", choice |-> c, body |-> b]
      PROVE  IsModifierCommand(q)
  BY <1>4 DEF IsModifierCommand, ModifierCommands
<1>5. ASSUME q.do \in {"deleteGroup", "createChoice", "deleteChoice", "reorder"}
      PROVE  IsModifierCommand(q)
  BY <1>5 DEF IsModifierCommand, ModifierCommands
<1> QED BY <1>1, <1>2, <1>3, <1>4, <1>5

LEMMA FormsAreCommands ==
    ASSUME ModifierConstants, SubmitGroup \/ SubmitChoice \/ ConfirmWindow
    PROVE  /\ \E q : IsModifierCommand(q) /\ request' = [phase |-> "sent", q |-> q]
           /\ UNCHANGED <<modifiers, groupQuery, saving>>
<1>1. CASE SubmitGroup
  <2>1. PICK form \in GroupForms :
           Ask(IF window.kind = "group-create"
                         THEN [do |-> "createGroup", body |-> BodyOf(form)]
                         ELSE [do |-> "updateGroup", group |-> window.group, body |-> BodyOf(form)])
    BY <1>1 DEF SubmitGroup
  <2>2. PICK body : body = BodyOf(form)
    OBVIOUS
  <2>3. DOMAIN body = {"label", "min", "max"} /\ body.min \in Limits /\ body.max \in Maxima
    <3>1. form.min \in Limits /\ form.max \in Limits \ {0} /\ 0 \in Limits
      BY DEF GroupForms, ModifierConstants
    <3> QED BY <2>2, <3>1 DEF BodyOf, Maxima
  <2>4. IsModifierCommand([do |-> "createGroup", body |-> body])
    BY <2>3 DEF IsModifierCommand, ModifierCommands
  <2>5. IsModifierCommand([do |-> "updateGroup", group |-> window.group, body |-> body])
    BY <2>3 DEF IsModifierCommand, ModifierCommands, IsGroupChange
  <2> QED BY <2>1, <2>2, <2>4, <2>5 DEF Ask
<1>2. CASE SubmitChoice
  <2>1. CASE Ask([do |-> "createChoice", group |-> window.group])
    <3>1. IsModifierCommand([do |-> "createChoice", group |-> window.group])
      BY DEF IsModifierCommand, ModifierCommands
    <3> QED BY <2>1, <3>1 DEF Ask
  <2>2. ASSUME NEW form \in ChoiceForms,
               Ask([do |-> "updateChoice", choice |-> window.choice, body |-> form])
        PROVE  /\ \E q : IsModifierCommand(q) /\ request' = [phase |-> "sent", q |-> q]
               /\ UNCHANGED <<modifiers, groupQuery, saving>>
    <3>1. IsModifierCommand([do |-> "updateChoice", choice |-> window.choice, body |-> form])
      BY DEF IsModifierCommand, ModifierCommands, ChoiceForms
    <3> QED BY <2>2, <3>1 DEF Ask
  <2> QED BY <1>2, <2>1, <2>2 DEF SubmitChoice
<1>3. CASE ConfirmWindow
  <2>1. /\ IsModifierCommand([do |-> "deleteGroup", group |-> window.group])
        /\ IsModifierCommand([do |-> "deleteChoice", choice |-> window.choice])
    BY DEF IsModifierCommand, ModifierCommands
  <2> QED BY <1>3, <2>1 DEF ConfirmWindow, Ask
<1> QED BY <1>1, <1>2, <1>3

\* Steps of the server.
LEMMA ModifierServerStep ==
    ASSUME ModifierConstants, ModifiersKnow, \/ ModifyElsewhere \/ RunRequest
                          \/ RunSaving \/ LoseAnswer
    PROVE  ModifiersKnow'
<1>1. groupQuery' = groupQuery
  BY DEF ModifyElsewhere, RunRequest, RunSaving, LoseAnswer
<1>2. QueryIsKnown(groupQuery')
  BY <1>1 DEF ModifiersKnow
<1>3. CASE ModifyElsewhere
  <2>1. PICK q \in ModifiedElsewhere(modifiers) : modifiers' \in Execute(modifiers, q)
    BY <1>3 DEF ModifyElsewhere
  <2>2. KnownModifiers(modifiers')
    BY <2>1, ElsewhereIsACommand, CommandsKeepModifiers DEF ModifiersKnow
  <2> QED BY <1>2, <1>3, <2>2 DEF ModifiersKnow, ModifyElsewhere
<1>4. CASE RunRequest
  <2>1. \/ modifiers' \in Execute(modifiers, request.q) \/ modifiers' = modifiers
    BY <1>4 DEF RunRequest
  <2>2. IsModifierCommand(request.q)
    BY <1>4 DEF RunRequest, ModifiersKnow, RequestIsKnown
  <2>3. KnownModifiers(modifiers')
    BY <2>1, <2>2, CommandsKeepModifiers DEF ModifiersKnow
  <2>4. RequestIsKnown(request') /\ saving' = saving
    BY <1>4 DEF RunRequest, RequestIsKnown
  <2> QED BY <1>2, <2>3, <2>4 DEF ModifiersKnow
<1>5. CASE RunSaving
  <2>1. \/ modifiers' \in Execute(modifiers, saving.q) \/ modifiers' = modifiers
    BY <1>5 DEF RunSaving
  <2>2. IsModifierCommand(saving.q)
    BY <1>5 DEF RunSaving, ModifiersKnow, SavingIsKnown, IsModifierCommand, ModifierCommands
  <2>3. KnownModifiers(modifiers')
    BY <2>1, <2>2, CommandsKeepModifiers DEF ModifiersKnow
  <2>4. \/ saving' = [phase |-> "done", view |-> modifiers'] \/ saving' = [phase |-> "failed"]
    BY <1>5 DEF RunSaving
  <2>5. SavingIsKnown(saving')
    BY <2>3, <2>4 DEF SavingIsKnown
  <2>6. request' = request
    BY <1>5 DEF RunSaving
  <2> QED BY <1>2, <2>3, <2>5, <2>6 DEF ModifiersKnow
<1>6. CASE LoseAnswer
  <2>1. /\ modifiers' = modifiers
        /\ request' = request \/ request' = [phase |-> "failed"]
        /\ saving' = saving \/ saving' = [phase |-> "failed"]
    BY <1>6 DEF LoseAnswer
  <2>2. RequestIsKnown(request') /\ SavingIsKnown(saving')
    BY <2>1 DEF ModifiersKnow, RequestIsKnown, SavingIsKnown
  <2> QED BY <1>2, <2>1, <2>2 DEF ModifiersKnow
<1> QED BY <1>3, <1>4, <1>5, <1>6

\* Steps of the section, which leave the server alone.
LEMMA ModifierPageStep ==
    ASSUME ModifierConstants, ModifiersKnow,
           \/ LandGroups \/ FailGroups \/ TryGroupsAgain
           \/ OpenWindow \/ CloseWindow \/ SubmitGroup
           \/ SubmitChoice \/ ConfirmWindow \/ ReadGroups
           \/ SettleRequest \/ FailRequest \/ ArrangeGroups
           \/ LeaveGroups \/ (\E n \in 2 .. Cardinality(Groups) : MoveGroupUp(n))
           \/ SaveGroupOrder \/ TakeGroupOrder \/ RefuseGroupOrder
    PROVE  ModifiersKnow'
<1>1. modifiers' = modifiers
  <2>1. CASE SubmitGroup \/ SubmitChoice \/ ConfirmWindow
    BY <2>1, FormsAreCommands
  <2>2. CASE \/ LandGroups \/ FailGroups \/ TryGroupsAgain
             \/ CloseWindow \/ ReadGroups
             \/ SettleRequest \/ FailRequest \/ ArrangeGroups
             \/ LeaveGroups \/ SaveGroupOrder \/ TakeGroupOrder \/ RefuseGroupOrder
    BY <2>2 DEF LandGroups, FailGroups, TryGroupsAgain,
       CloseWindow, ReadGroups, SettleRequest, FailRequest,
       ArrangeGroups, LeaveGroups,
       SaveGroupOrder, TakeGroupOrder, RefuseGroupOrder
  <2>3. CASE \/ OpenWindow
             \/ \E n \in 2 .. Cardinality(Groups) : MoveGroupUp(n)
    BY <2>3 DEF OpenWindow, MoveGroupUp
  <2> QED BY <2>1, <2>2, <2>3
<1>2. \/ groupQuery' = groupQuery
      \/ \E menu : /\ KnownModifiers(menu)
                   /\ \/ groupQuery' = Refetch(groupQuery, menu)
                      \/ groupQuery' = Land(groupQuery, menu)
                      \/ groupQuery' = Fail(groupQuery)
                      \/ groupQuery' = Write(groupQuery, menu)
  <2>1. CASE LandGroups
    <3>1. PICK menu \in {groupQuery.flight, modifiers} : groupQuery' = Land(groupQuery, menu)
      BY <2>1 DEF LandGroups, Answers, Shown
    <3>2. KnownModifiers(menu)
      BY <2>1, <3>1 DEF LandGroups, UnderWay, ModifiersKnow, QueryIsKnown
    <3> QED BY <3>1, <3>2
  <2>2. CASE FailGroups
    BY <2>2 DEF FailGroups, Shown, ModifiersKnow
  <2>3. CASE TryGroupsAgain \/ ReadGroups \/ RefuseGroupOrder
    BY <2>3 DEF TryGroupsAgain, ReadGroups, RefuseGroupOrder, ModifiersKnow
  <2>4. CASE TakeGroupOrder
    BY <2>4 DEF TakeGroupOrder, ModifiersKnow, SavingIsKnown
  <2>5. CASE \/ OpenWindow \/ CloseWindow \/ SubmitGroup
             \/ SubmitChoice \/ ConfirmWindow
             \/ SettleRequest \/ FailRequest \/ ArrangeGroups
             \/ LeaveGroups \/ (\E n \in 2 .. Cardinality(Groups) : MoveGroupUp(n))
             \/ SaveGroupOrder
    BY <2>5, FormsAreCommands DEF OpenWindow, CloseWindow, SettleRequest,
       FailRequest, ArrangeGroups, LeaveGroups, MoveGroupUp,
       SaveGroupOrder
  <2> QED BY <2>1, <2>2, <2>3, <2>4, <2>5
<1>3. \E q : QueryIsKnown(q) /\ groupQuery' = q
  BY <1>2, GroupQueryKeeps DEF ModifiersKnow
<1>4. \/ request' = request \/ request' = Quiet \/ request' = [phase |-> "settling"]
      \/ \E q : IsModifierCommand(q) /\ request' = [phase |-> "sent", q |-> q]
  <2>1. CASE SubmitGroup \/ SubmitChoice \/ ConfirmWindow
    BY <2>1, FormsAreCommands
  <2>2. CASE \/ LandGroups \/ FailGroups \/ TryGroupsAgain
             \/ CloseWindow \/ ReadGroups
             \/ SettleRequest \/ FailRequest \/ ArrangeGroups
             \/ LeaveGroups \/ SaveGroupOrder \/ TakeGroupOrder \/ RefuseGroupOrder
    BY <2>2 DEF LandGroups, FailGroups, TryGroupsAgain,
       CloseWindow, ReadGroups, SettleRequest, FailRequest,
       ArrangeGroups, LeaveGroups,
       SaveGroupOrder, TakeGroupOrder, RefuseGroupOrder
  <2>3. CASE \/ OpenWindow
             \/ \E n \in 2 .. Cardinality(Groups) : MoveGroupUp(n)
    BY <2>3 DEF OpenWindow, MoveGroupUp
  <2> QED BY <2>1, <2>2, <2>3
<1>5. \E r : RequestIsKnown(r) /\ request' = r
  BY <1>4 DEF ModifiersKnow, RequestIsKnown, Quiet
<1>6. \/ saving' = saving \/ saving' = Quiet
      \/ saving' = [phase |-> "sent", q |-> [do |-> "reorder", order |-> sequence]]
  <2>1. CASE SubmitGroup \/ SubmitChoice \/ ConfirmWindow
    BY <2>1, FormsAreCommands
  <2>2. CASE \/ LandGroups \/ FailGroups \/ TryGroupsAgain
             \/ CloseWindow \/ ReadGroups
             \/ SettleRequest \/ FailRequest \/ ArrangeGroups
             \/ LeaveGroups \/ SaveGroupOrder \/ TakeGroupOrder \/ RefuseGroupOrder
    BY <2>2 DEF LandGroups, FailGroups, TryGroupsAgain,
       CloseWindow, ReadGroups, SettleRequest, FailRequest,
       ArrangeGroups, LeaveGroups,
       SaveGroupOrder, TakeGroupOrder, RefuseGroupOrder
  <2>3. CASE \/ OpenWindow
             \/ \E n \in 2 .. Cardinality(Groups) : MoveGroupUp(n)
    BY <2>3 DEF OpenWindow, MoveGroupUp
  <2> QED BY <2>1, <2>2, <2>3
<1>7. \E r : SavingIsKnown(r) /\ saving' = r
  BY <1>6 DEF ModifiersKnow, SavingIsKnown, Quiet
<1> QED BY <1>1, <1>3, <1>5, <1>7 DEF ModifiersKnow

LEMMA ModifierStep ==
    ASSUME ModifierConstants, ModifiersKnow, [ModifierNext]_(modifierVars)
    PROVE  ModifiersKnow'
<1>1. CASE UNCHANGED modifierVars
  BY <1>1 DEF modifierVars, ModifiersKnow, QueryIsKnown, RequestIsKnown, SavingIsKnown
<1>2. CASE ModifierNext
  BY <1>2, ModifierServerStep, ModifierPageStep DEF ModifierNext
<1> QED BY <1>1, <1>2

LEMMA ModifierStartsAreKnown == ASSUME ModifierConstants, NEW m \in Starts PROVE KnownModifiers(m)
<1>1. PICK g, l, c : g = (CHOOSE x \in Groups : TRUE) /\ l = (CHOOSE x \in Labels : TRUE)
                     /\ c = (CHOOSE x \in ChoiceIds : TRUE)
  OBVIOUS
<1>2. /\ g \in Groups /\ c \in ChoiceIds
      /\ {0, 1} \subseteq Limits /\ NoLimit \notin Limits
  BY <1>1 DEF ModifierConstants
<1>3. PICK size, row, choices :
         /\ size = [label |-> l, min |-> 1, max |-> 1, place |-> 0]
         /\ row = [group |-> g, available |-> TRUE, place |-> 0]
         /\ choices = [x \in {c} |-> row]
  OBVIOUS
<1>4. /\ IsRow(size, GroupFields) /\ HasLimits(size)
      /\ IsTable(choices, ChoiceIds, ChoiceFields)
      /\ \A h : h # g => ChoicesIn(choices, h) = {}
      /\ ChoicesIn(choices, g) = {c} /\ choices[c].place = 0
  <2>1. IsRow(size, GroupFields)
    BY <1>3 DEF IsRow, GroupFields
  <2>2. HasLimits(size)
    BY <1>2, <1>3 DEF HasLimits, Maxima, InBounds
  <2>3. IsTable(choices, ChoiceIds, ChoiceFields)
    BY <1>2, <1>3 DEF IsTable, IsRow, ChoiceFields
  <2> QED BY <1>3, <2>1, <2>2, <2>3 DEF ChoicesIn
<1>5. ASSUME NEW groups, g \in groups PROVE GoodChoices(choices, groups)
  <2>1. Dense(choices, {c}) /\ Dense(choices, {})
    <3>1. Dense(choices, {c})
      BY <1>4, OneIsFilled
    <3>2. Dense(choices, {})
      BY FS_EmptySet DEF Dense
    <3> QED BY <3>1, <3>2
  <2>2. \A h \in groups : Dense(choices, ChoicesIn(choices, h))
    BY <1>4, <2>1
  <2>3. \A x \in DOMAIN choices : choices[x].group = g
    BY <1>3
  <2> QED BY <1>4, <1>5, <2>2, <2>3 DEF GoodChoices
<1>6. CASE m = [groups |-> [x \in {g} |-> size], choices |-> choices]
  <2>1. PICK t : t = [x \in {g} |-> size]
    OBVIOUS
  <2>2. Dense(t, {g}) /\ DOMAIN t = {g} /\ t[g] = size
    BY <1>3, <2>1, OneIsFilled
  <2>3. GoodGroups(t)
    BY <1>2, <1>4, <2>1, <2>2 DEF GoodGroups, IsTable
  <2> QED BY <1>5, <1>6, <2>1, <2>2, <2>3 DEF KnownModifiers
<1>7. ASSUME NEW h \in Groups \ {g}, NEW k \in Labels \ {l}, NEW extra,
             extra = [label |-> k, min |-> 0, max |-> NoLimit, place |-> 1],
             m = [groups |-> [x \in {g, h} |-> IF x = g THEN size ELSE extra], choices |-> choices]
      PROVE  KnownModifiers(m)
  <2>1. PICK t : t = [x \in {g, h} |-> IF x = g THEN size ELSE extra]
    OBVIOUS
  <2>2. /\ DOMAIN t = {g, h} /\ t = [x \in DOMAIN t |-> t[x]]
        /\ t[g] = size /\ t[h] = extra
    BY <1>7, <2>1
  <2>3. IsRow(extra, GroupFields)
    BY <1>7 DEF IsRow, GroupFields
  <2>4. HasLimits(extra)
    BY <1>2, <1>7 DEF HasLimits, Maxima, InBounds
  <2>5. Dense(t, {g} \cup {h})
    <3>1. Dense(t, {g}) /\ IsFiniteSet({g}) /\ Cardinality({g}) = 1
      <4>1. t[g].place = 0
        BY <1>3, <2>2
      <4>2. Dense(t, {g})
        BY <4>1, OneIsFilled
      <4> QED BY <4>2, FS_Singleton
    <3>2. h \notin {g} /\ t[h].place = Cardinality({g})
      BY <1>7, <2>2, <3>1
    <3> QED BY <3>1, <3>2, PlacedLast
  <2>6. {g} \cup {h} = DOMAIN t
    BY <2>2
  <2>7. IsTable(t, Groups, GroupFields)
    BY <1>2, <1>4, <2>2, <2>3 DEF IsTable
  <2>8. \A x, y \in DOMAIN t : t[x].label = t[y].label => x = y
    BY <1>3, <1>7, <2>2
  <2>9. \A x \in DOMAIN t : HasLimits(t[x])
    BY <1>4, <2>2, <2>4
  <2>10. GoodGroups(t)
    BY <2>5, <2>6, <2>7, <2>8, <2>9 DEF GoodGroups
  <2> QED BY <1>5, <1>7, <2>1, <2>2, <2>10 DEF KnownModifiers
<1> QED BY <1>1, <1>3, <1>6, <1>7 DEF Starts

LEMMA KnownModifiersAreSound == ModifierConstants /\ KnownModifiers(modifiers) => ModifiersStaySound
<1> SUFFICES ASSUME ModifierConstants, KnownModifiers(modifiers) PROVE ModifiersStaySound
  OBVIOUS
<1>1. GoodGroups(modifiers.groups) /\ GoodChoices(modifiers.choices, DOMAIN modifiers.groups)
  BY DEF KnownModifiers
<1>2. ASSUME NEW g \in DOMAIN modifiers.groups
      PROVE  /\ InBounds(modifiers.groups[g].min, modifiers.groups[g].max)
             /\ Dense(modifiers.choices, ChoicesOf(modifiers, g))
             /\ ~LabelTaken(modifiers, modifiers.groups[g].label, DOMAIN modifiers.groups \ {g})
  <2>1. InBounds(modifiers.groups[g].min, modifiers.groups[g].max)
    BY <1>1 DEF GoodGroups, HasLimits
  <2>2. ChoicesOf(modifiers, g) = ChoicesIn(modifiers.choices, g)
    BY ChoicesOfAGroup
  <2>3. Dense(modifiers.choices, ChoicesOf(modifiers, g))
    BY <1>1, <2>2 DEF GoodChoices
  <2>4. ~LabelTaken(modifiers, modifiers.groups[g].label, DOMAIN modifiers.groups \ {g})
    BY <1>1 DEF GoodGroups, LabelTaken
  <2> QED BY <2>1, <2>3, <2>4
<1>3. Dense(modifiers.groups, DOMAIN modifiers.groups)
  BY <1>1 DEF GoodGroups
<1> QED BY <1>1, <1>2, <1>3 DEF ModifiersStaySound, GoodChoices

LEMMA ReasonOfAGroup ==
    ASSUME ModifierConstants, NEW m, KnownModifiers(m), NEW g \in DOMAIN m.groups
    PROVE  /\ UnsatisfiableReason(m, g) = "allows more"
                => /\ m.groups[g].max # NoLimit
                   /\ m.groups[g].max > ActiveCount(m, g)
           /\ UnsatisfiableReason(m, g) = "none"
                => \E n \in Limits \ {0} :
                      /\ m.groups[g].min <= n /\ InBounds(n, m.groups[g].max)
                      /\ n <= ActiveCount(m, g)
<1>1. PICK active \in Nat : active = ActiveCount(m, g)
  <2>1. PICK S : S = {c \in ChoicesOf(m, g) : m.choices[c].available}
    OBVIOUS
  <2>2. S \subseteq DOMAIN m.choices
    BY <2>1 DEF ChoicesOf
  <2>3. Cardinality(S) \in Nat
    BY <2>2, ChoicesOfAGroup, ModifiersAreFinite
  <2>4. ActiveCount(m, g) = Cardinality(S)
    BY <2>1 DEF ActiveCount
  <2> QED BY <2>3, <2>4
<1>2. PICK group : group = m.groups[g]
  OBVIOUS
<1>3. /\ HasLimits(group) /\ Limits \subseteq Nat /\ {0, 1} \subseteq Limits /\ NoLimit \notin Limits
  BY <1>2 DEF KnownModifiers, GoodGroups, ModifierConstants
<1>4. /\ group.min \in Nat /\ group.min \in Limits
      /\ group.max # NoLimit => group.max \in Nat /\ group.max # 0 /\ group.min <= group.max
  BY <1>3 DEF HasLimits, Maxima, InBounds
<1>5. IsSatisfiable(group, active) =>
         \E n \in Limits \ {0} :
            group.min <= n /\ InBounds(n, group.max) /\ n <= active
  <2>1. CASE group.min = 0
    BY <1>1, <1>3, <1>4, <2>1 DEF IsSatisfiable, InBounds
  <2>2. CASE group.min # 0
    BY <1>1, <1>3, <1>4, <2>2 DEF IsSatisfiable, InBounds
  <2> QED BY <2>1, <2>2
<1>6. ~IsSatisfiable(group, active) /\ active # 0 /\ ~(group.min > active)
         => group.max # NoLimit /\ group.max > active
  BY <1>1, <1>4 DEF IsSatisfiable
<1>7. UnsatisfiableReason(m, g) =
         IF IsSatisfiable(group, active) THEN "none"
         ELSE IF active = 0 THEN "no choices"
         ELSE IF group.min > active THEN "asks for more" ELSE "allows more"
  BY <1>1, <1>2 DEF UnsatisfiableReason
<1>8. CASE IsSatisfiable(group, active)
  <2>1. UnsatisfiableReason(m, g) = "none"
    BY <1>7, <1>8, Zenon
  <2> QED BY <1>1, <1>2, <1>5, <1>8, <2>1, Zenon
<1>9. CASE ~IsSatisfiable(group, active) /\ (active = 0 \/ group.min > active)
  <2>1. UnsatisfiableReason(m, g) \in {"no choices", "asks for more"}
    BY <1>7, <1>9, Zenon
  <2> QED BY <2>1, Zenon
<1>10. CASE ~IsSatisfiable(group, active) /\ active # 0 /\ ~(group.min > active)
  <2>1. UnsatisfiableReason(m, g) = "allows more"
    BY <1>7, <1>10, Zenon
  <2> QED BY <1>1, <1>2, <1>6, <1>10, <2>1, Zenon
<1> QED BY <1>8, <1>9, <1>10, Zenon

LEMMA KnownReasonsAreTrue == ModifierConstants /\ QueryIsKnown(groupQuery) => ReasonIsTrue
BY ReasonOfAGroup, Zenon DEF QueryIsKnown, ReasonIsTrue, Listed

LEMMA ModifiersStart == ModifierConstants /\ ModifierInit => ModifiersKnow
<1> SUFFICES ASSUME ModifierConstants, ModifierInit PROVE ModifiersKnow
  OBVIOUS
<1>1. KnownModifiers(modifiers)
  BY ModifierStartsAreKnown DEF ModifierInit
<1>2. QueryIsKnown(groupQuery)
  <2>1. QueryIsKnown(NotAsked)
    BY DEF QueryIsKnown, NotAsked
  <2> QED BY <1>1, <2>1, GroupQueryKeeps DEF ModifierInit
<1>3. RequestIsKnown(request) /\ SavingIsKnown(saving)
  BY DEF ModifierInit, Quiet, RequestIsKnown, SavingIsKnown
<1> QED BY <1>1, <1>2, <1>3 DEF ModifiersKnow
=============================================================================
