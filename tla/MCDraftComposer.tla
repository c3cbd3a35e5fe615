-------------------------- MODULE MCDraftComposer --------------------------
(* Small instances of DraftComposer for TLC.                               *)
EXTENDS DraftComposer, TLC

Symmetry == Permutations(Composers)
=============================================================================
