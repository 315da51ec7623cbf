--------------------------- MODULE MCFileReplace ---------------------------
(* A small instance of FileReplace for TLC. *)
EXTENDS FileReplace, TLC
=============================================================================
