----------------------------- MODULE MCLogTailer -----------------------------
(* Small instances of LogTailer: the constants are numbers. *)
EXTENDS LogTailer
=============================================================================
