---------------------------- MODULE MCLogFollower ----------------------------
(* Small instances of LogFollower: the constants are numbers. *)
EXTENDS LogFollower
=============================================================================
