---------------------------- MODULE ShelfEditorMC ----------------------------
(* A small instance of ShelfEditor for TLC. *)
EXTENDS ShelfEditor

TwoByTwo == (0 .. 1) \X (0 .. 1)
=============================================================================
