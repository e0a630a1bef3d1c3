-------------------------- MODULE MCInvisibleFolder --------------------------
(* Small instances of InvisibleFolder for TLC.                              *)
EXTENDS InvisibleFolder
=============================================================================
