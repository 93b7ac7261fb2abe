--------------------------- MODULE MCSnapshotOps ---------------------------
(* Instances of SnapshotOps for TLC. *)
EXTENDS SnapshotOps, TLC

CONSTANTS c1, c2, c3

CallSymmetry == Permutations(Calls)

(* Concurrent calls and an inspect that may not see the task. *)
Concurrent ==
    [ops |-> {"clone", "snapshot", "restore", "start", "delete", "unpause"},
     names |-> {"s1", "s2"}, task |-> "paused", faults |-> {"blind"},
     cancellation |-> FALSE, exits |-> TRUE, serial |-> FALSE, writes |-> 0]

(* One call after the other, failing and dropped half way. *)
Failing ==
    [ops |-> Operations \ {"unpause"},
     names |-> {"s1"}, task |-> "running", faults |-> {"fail"},
     cancellation |-> TRUE, exits |-> TRUE, serial |-> TRUE, writes |-> 2]

(* One call after the other, dropped half way. *)
Dropped ==
    [ops |-> {"clone", "snapshot", "restore", "reset", "start"},
     names |-> {"s1", "s2"}, task |-> "running", faults |-> {},
     cancellation |-> TRUE, exits |-> TRUE, serial |-> TRUE, writes |-> 2]

(* Clones of a running source, at once. *)
Clones ==
    [ops |-> {"clone"},
     names |-> {"s1"}, task |-> "running", faults |-> {},
     cancellation |-> FALSE, exits |-> FALSE, serial |-> FALSE, writes |-> 0]

AllSettings == {Concurrent, Failing, Dropped}
ClonesOnly == {Clones}
=============================================================================
