-------------------------- MODULE MCTaskLifecycle --------------------------
(* Instances of TaskLifecycle for TLC. *)
EXTENDS TaskLifecycle, TLC

CONSTANTS a1, a2

(* Everything, with failing RPCs, lost answers and dropped calls. *)
Faulty ==
    [ops |-> Operations, calls |-> 4, faults |-> {"fail", "lost"},
     cancellation |-> TRUE, races |-> FALSE]

(* Every RPC answers; more calls, so that a container is started again. *)
Quiet ==
    [ops |-> {"start", "stop", "delete", "wait"}, calls |-> 5, faults |-> {},
     cancellation |-> FALSE, races |-> FALSE]

(* Starts beside stops and deletes. *)
Racing ==
    [ops |-> {"start", "delete"}, calls |-> 3, faults |-> {"fail"},
     cancellation |-> FALSE, races |-> TRUE]

(* One caller that pauses and stops. *)
Paused ==
    [ops |-> {"start", "stop", "pause"}, calls |-> 3, faults |-> {},
     cancellation |-> FALSE, races |-> FALSE]

AllSettings == {Faulty, Quiet, Racing}
PausedOnly == {Paused}
=============================================================================
