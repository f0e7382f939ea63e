---------------------------- MODULE MCFileTable -----------------------------
(* Model-checking instances of FileTable.                                   *)
EXTENDS FileTable
=============================================================================
