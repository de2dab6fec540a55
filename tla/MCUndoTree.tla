----------------------------- MODULE MCUndoTree -----------------------------
(* Instances of UndoTree for TLC. *)
EXTENDS UndoTree
=============================================================================
