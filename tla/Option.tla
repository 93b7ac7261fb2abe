------------------------------- MODULE Option --------------------------------
(* The None of an Option, for the modules whose proofs share a module. *)
CONSTANT None
=============================================================================
