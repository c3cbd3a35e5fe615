--------------------------- MODULE DraftComposer ---------------------------
(***************************************************************************)
(* The control center's draft composer in front of the versions.  The      *)
(* browser of each composer keeps the overview in a query cache, and a     *)
(* form whose values are taken from the cached draft once, when the        *)
(* composer mounts.  The cache is refetched behind the form (a mount       *)
(* refetches what is stale, and a regained connection everything); a save, *)
(* a publication and a reload write it.  Commands send the cache's         *)
(* lock_version.  Here seen is the draft the form's values were taken      *)
(* from.  Every other editor is one of Storefront: the restore dialog of   *)
(* the history page, which reads when it opens and sends what it read.     *)
(***************************************************************************)
EXTENDS Storefront

CONSTANTS Composers,   \* editors at a draft composer
          Unfetched    \* a query that has no data yet

ComposerConstants == Composers \subseteq Editors /\ Unfetched \notin DraftView \cup {None}

VARIABLES cache,     \* the cached overview's draft of each composer
          mounted,   \* whose composer is on screen
          conflict   \* who sees the stale-draft panel

pageVars     == <<cache, mounted, conflict>>
composerVars == <<vars, pageVars>>

ComposerTypeOK ==
    /\ TypeOK
    /\ cache \in [Composers -> DraftView \cup {None, Unfetched}]
    /\ mounted \in SUBSET Composers
    /\ conflict \in SUBSET mounted
    /\ \A u \in mounted : cache[u] # Unfetched

ComposerInit ==
    /\ Init
    /\ cache = [u \in Composers |-> Unfetched]
    /\ mounted = {}
    /\ conflict = {}
-----------------------------------------------------------------------------
(* The query: the overview lands in the cache, and the form stays as it is.*)
Refetch(u) ==
    /\ cache' = [cache EXCEPT ![u] = Shown(versions)]
    /\ UNCHANGED <<vars, mounted, conflict>>

(* The form takes its default values from whatever the cache holds.        *)
Mount(u) ==
    /\ u \notin mounted
    /\ cache[u] # Unfetched
    /\ mounted' = mounted \cup {u}
    /\ seen' = [seen EXCEPT ![u] = cache[u]]
    /\ UNCHANGED <<versions, closed, answer, cache, conflict>>

(* Mutant: the panel of a composer that is gone stays up.                  *)
LeaveWithPanel(u) ==
    /\ u \in mounted
    /\ mounted' = mounted \ {u}
    /\ UNCHANGED <<vars, cache, conflict>>

(* Also what a refetch that fails does: the page shows the error instead.  *)
Leave(u) ==
    /\ u \in mounted
    /\ mounted'  = mounted \ {u}
    /\ conflict' = conflict \ {u}
    /\ UNCHANGED <<vars, cache>>

CachedToken(u) == IF cache[u] = None THEN None ELSE cache[u].lock

(* Mutant: the merge takes the composition and forgets the token.          *)
MergedKeepingToken(u) ==
    [cache EXCEPT ![u] = IF @ = None THEN Shown(versions')
                                     ELSE [Shown(versions') EXCEPT !.lock = cache[u].lock]]

(* The cache after the answer to a command of u, which carries the draft.  *)
Merged(u) == [cache EXCEPT ![u] = Shown(versions')]

(* A 409 for a stale draft opens the panel and leaves the cache alone; any *)
(* other refusal, and an answer that is lost, leave the page as it was.    *)
Unanswered(u) ==
    /\ UNCHANGED <<seen, cache>>
    /\ \/ answer'.what = "stale" /\ conflict' = conflict \cup {u}
       \/ /\ answer'.what \in DraftAnswers \cup {"stale"} => LossyNetwork
          /\ UNCHANGED conflict

(* On success the form takes the returned draft, and so does the cache.    *)
SaveDraft(u, config) ==
    /\ u \in mounted \ conflict
    /\ \/ PutDraft(u, CachedToken(u), config)
       \/ MediaUnavailable(u, CachedToken(u))
       \/ RefuseClosed(u)
    /\ \/ /\ answer'.what \in DraftAnswers
          /\ seen'  = [seen EXCEPT ![u] = Shown(versions')]
          /\ cache' = Merged(u)
          /\ UNCHANGED conflict
       \/ Unanswered(u)
    /\ UNCHANGED mounted

(* The published overview replaces the cached one; the form is not reset.  *)
PublishDraft(u) ==
    /\ u \in mounted \ conflict
    /\ cache[u] # None
    /\ Publish(u, CachedToken(u)) \/ RefuseClosed(u)
    /\ \/ /\ answer'.what \in DraftAnswers
          /\ cache' = Merged(u)
          /\ UNCHANGED <<seen, conflict>>
       \/ Unanswered(u)
    /\ UNCHANGED mounted

(* "Reload current draft" is the way out of the panel: it fetches and      *)
(* resets the form.                                                        *)
Reload(u) ==
    /\ u \in conflict
    /\ cache' = [cache EXCEPT ![u] = Shown(versions)]
    /\ seen'  = [seen EXCEPT ![u] = Shown(versions)]
    /\ conflict' = conflict \ {u}
    /\ UNCHANGED <<versions, closed, answer, mounted>>

ComposerNext ==
    \/ \E u \in Composers :
          \/ Refetch(u)
          \/ Mount(u)
          \/ Leave(u)
          \/ Reload(u)
          \/ \E config \in Configs : SaveDraft(u, config)
          \/ PublishDraft(u)
    \/ /\ \E u \in Editors \ Composers : ReadOverview(u) \/ (EditorCommand(u) /\ Shows(u))
       /\ UNCHANGED pageVars
    \/ \E variant \in Variants : AssignDesign(variant) /\ UNCHANGED <<seen, pageVars>>
    \/ Close /\ UNCHANGED <<seen, pageVars>>

ComposerSpec == ComposerInit /\ [][ComposerNext]_composerVars
-----------------------------------------------------------------------------
(* A composer is an editor of Storefront whose memory is the query cache:  *)
(* what the server guarantees an editor, it guarantees the cache.          *)
Cached(u) == IF cache[u] = Unfetched THEN None ELSE cache[u]

Server == INSTANCE Storefront
             WITH seen <- [u \in Editors |-> IF u \in Composers THEN Cached(u) ELSE seen[u]]

CacheIsTheEditor == Server!Spec

(* ADR-022: the form is immune to background rebinding, only an explicit   *)
(* reload adopts a newer lock_version, and a stale write is a 409.  So the *)
(* guarantee should be the form's too: a save of a form that was taken     *)
(* from the current draft row never replaces another composition than the  *)
(* one it was taken from.                                                  *)
StaleFormIsRefused ==
    [][\A u \in Composers, d \in RowsIn("draft") :
          Accepted(u) /\ answer'.what = "saved" /\ seen[u] # None /\ seen[u].row = d
             => seen[u].config = versions[d].config]_composerVars
=============================================================================
