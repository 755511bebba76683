----------------------------- MODULE MCFileTxn -----------------------------
(* Two invocations of one file each; the operator touches files twice, so  *)
(* a file may be at both ends or at neither.                               *)
EXTENDS FileTxn

CONSTANTS i1, i2, rows
=============================================================================
