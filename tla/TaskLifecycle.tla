---------------------------- MODULE TaskLifecycle ----------------------------
(***************************************************************************)
(* The life of one container after it was created: start, stop, delete,    *)
(* pause, unpause and wait_for_exit, called by several callers that share  *)
(* one Client.                                                             *)
(*                                                                         *)
(* Each RPC to containerd is a step that may answer, fail without effect   *)
(* ("fail") or take effect and be reported as an error ("lost").  A poll   *)
(* of poll_until is a step that leaves the loop, or stays in it; the       *)
(* deadline of a loop may pass at any of its iterations.  The two reads of *)
(* inspect_container, record then task, are one step: a record that went   *)
(* between them never comes back, so the loop that missed it by one read   *)
(* sees it gone in its next iteration.                                     *)
(***************************************************************************)
EXTENDS Naturals, FiniteSets

CONSTANTS
    Callers,       \* concurrent users of the Client
    Settings,      \* what may happen, see Setting
    MaxCalls       \* bound: calls made in all

Operations == {"start", "stop", "delete", "pause", "unpause", "wait", "forward"}

Setting ==
    [ops : SUBSET Operations,          \* the operations they call
     calls : 0..MaxCalls,              \* how many calls they make
     faults : SUBSET {"fail", "lost"}, \* what an RPC may do besides answering
     cancellation : BOOLEAN,           \* may a call's future be dropped?
     races : BOOLEAN]                  \* may a start overlap a stop or a delete?

ASSUME CallsAssumption == MaxCalls \in Nat

ASSUME SettingAssumption == Settings \subseteq Setting

VARIABLES
    setting,   \* one of Settings, throughout
    pc,        \* where each caller is
    op,        \* the operation it is in, or was last in
    ret,       \* the result of that operation, once it is decided
    calls,     \* calls begun so far
    record,    \* containerd: the container record exists
    snap,      \* containerd: its active snapshot exists
    task,      \* containerd: its task
    run,       \* containerd: how many tasks it has had
    killed,    \* containerd: the task was sent SIGKILL
    startTime, \* task_start_times: the run whose start is on file, or 0
    managed,   \* managed_tailers and managed_handles entries
    logDir,    \* the container's log directory exists
    leaked     \* a snapshots.remove failed ("snapshot leak" warning)

containerd == <<record, snap, task, run, killed>>
client == <<startTime, managed, logDir, leaked>>
taskVars == <<setting, pc, op, ret, calls, containerd, client>>

TaskState == {"none", "created", "running", "paused", "stopped"}

StartLabel == {"get_record", "mounts", "prepare_logs", "create_task",
               "start_task", "record_start", "start_tailer"}

StopLabel == {"sigterm", "wait_term", "check_running", "sigkill", "wait_kill"}

DeleteLabel == {"delete_task", "forget", "task_gone", "redelete_task",
                "reforget", "rm_record", "rm_snap", "rm_logs", "record_gone",
                "stop_managed"}

Label == {"idle", "pause", "unpause", "wait_exit", "forward"}
            \cup StartLabel \cup StopLabel \cup DeleteLabel

TaskTypeOK ==
    /\ pc \in [Callers -> Label]
    /\ setting \in Settings
    /\ op \in [Callers -> Operations \cup {"none"}]
    /\ ret \in [Callers -> {"none", "ok", "err", "cancelled"}]
    /\ calls \in 0..MaxCalls
    /\ record \in BOOLEAN
    /\ snap \in BOOLEAN
    /\ task \in TaskState
    /\ run \in Nat
    /\ killed \in BOOLEAN
    /\ startTime \in 0..run
    /\ managed \subseteq {"tailer", "forward"}
    /\ logDir \in BOOLEAN
    /\ leaked \in BOOLEAN

(* create_container has returned; nothing was started yet. *)
TaskInit ==
    /\ setting \in Settings
    /\ pc = [c \in Callers |-> "idle"]
    /\ op = [c \in Callers |-> "none"]
    /\ ret = [c \in Callers |-> "none"]
    /\ calls = 0
    /\ record = TRUE
    /\ snap = TRUE
    /\ task = "none"
    /\ run = 0
    /\ killed = FALSE
    /\ startTime = 0
    /\ managed = {}
    /\ logDir = FALSE
    /\ leaked = FALSE

------------------------------------------------------------------------------
(* Helpers *)

At(c, from) == pc[c] = from

Goto(c, to) == pc' = [pc EXCEPT ![c] = to] /\ UNCHANGED <<setting, op, ret, calls>>

Return(c, result) ==
    /\ pc' = [pc EXCEPT ![c] = "idle"]
    /\ ret' = [ret EXCEPT ![c] = result]
    /\ UNCHANGED <<setting, op, calls>>

Fails == setting.faults # {}
Lost == "lost" \in setting.faults

(* TaskStatus::from: Created is surfaced as Running. *)
LooksRunning == task \in {"created", "running"}

InCall(c, o) == pc[c] # "idle" /\ op[c] = o

(* The calls a start must not overlap when callers do not let them race, and *)
(* the other way round.                                                     *)
Starting == \E c \in Callers : InCall(c, "start") \/ InCall(c, "forward")
Stopping == \E c \in Callers : InCall(c, "stop") \/ InCall(c, "delete")

First(o) ==
    CASE o = "start" -> "get_record"
      [] o \in {"stop", "delete"} -> "sigterm"
      [] o = "wait" -> "wait_exit"
      [] OTHER -> o

Begin(c, o) ==
    /\ At(c, "idle")
    /\ calls < setting.calls
    /\ o \in {"start", "forward"} => setting.races \/ ~Stopping
    /\ o \in {"stop", "delete"} => setting.races \/ ~Starting
    /\ pc' = [pc EXCEPT ![c] = First(o)]
    /\ op' = [op EXCEPT ![c] = o]
    /\ ret' = [ret EXCEPT ![c] = "none"]
    /\ calls' = calls + 1
    /\ UNCHANGED <<setting, containerd, client>>


------------------------------------------------------------------------------
(* start_container *)

(* containers.get *)
GetRecord(c) ==
    /\ At(c, "get_record")
    /\ \/ record /\ Goto(c, "mounts")
       \/ (~record \/ Fails) /\ Return(c, "err")
    /\ UNCHANGED <<containerd, client>>

(* snapshots.mounts *)
Mounts(c) ==
    /\ At(c, "mounts")
    /\ \/ snap /\ Goto(c, "prepare_logs")
       \/ (~snap \/ Fails) /\ Return(c, "err")
    /\ UNCHANGED <<containerd, client>>

(* prepare_log_files *)
PrepareLogs(c) ==
    /\ At(c, "prepare_logs")
    /\ \/ logDir' = TRUE /\ Goto(c, "create_task")
       \/ Fails /\ (logDir' = TRUE \/ UNCHANGED logDir) /\ Return(c, "err")
    /\ UNCHANGED <<containerd, startTime, managed, leaked>>

(* tasks.create: containerd wants the record, a mountable root file system  *)
(* and no task yet.                                                         *)
CreateTask(c) ==
    /\ At(c, "create_task")
    /\ \/ /\ record /\ snap /\ task = "none"
          /\ task' = "created"
          /\ run' = run + 1
          /\ killed' = FALSE
          /\ Goto(c, "start_task") \/ (Lost /\ Return(c, "err"))
       \/ /\ ~record \/ ~snap \/ task # "none" \/ Fails
          /\ Return(c, "err")
          /\ UNCHANGED <<task, run, killed>>
    /\ UNCHANGED <<record, snap, client>>

(* tasks.start; an error leaves the task as it was created. *)
StartTask(c) ==
    /\ At(c, "start_task")
    /\ \/ /\ task = "created"
          /\ task' = "running"
          /\ Goto(c, "record_start") \/ (Lost /\ Return(c, "err"))
       \/ (task # "created" \/ Fails) /\ Return(c, "err") /\ UNCHANGED task
    /\ UNCHANGED <<record, snap, run, killed, client>>

RecordStart(c) ==
    /\ At(c, "record_start")
    /\ startTime' = run
    /\ Goto(c, "start_tailer")
    /\ UNCHANGED <<containerd, managed, logDir, leaked>>

StartTailer(c) ==
    /\ At(c, "start_tailer")
    /\ managed' = managed \cup {"tailer"}
    /\ Return(c, "ok")
    /\ UNCHANGED <<containerd, startTime, logDir, leaked>>

------------------------------------------------------------------------------
(* stop_container, called by itself and as the first part of a delete *)

(* stop_container returns to its caller; delete_container drops an error. *)
StopReturns(c, result) ==
    IF op[c] = "stop" THEN Return(c, result) ELSE Goto(c, "delete_task")

(* tasks.kill with SIGTERM: whatever the answer, the wait follows.  What    *)
(* the signal does to the process is TaskExits.                             *)
Sigterm(c) ==
    /\ At(c, "sigterm")
    /\ Goto(c, "wait_term")
    /\ UNCHANGED <<containerd, client>>

(* One poll of wait_for_task_stop says stopped: so it is, or it is gone, or *)
(* tasks.get failed, which get_task_info reports as no task.                *)
SeesStopped == ~record \/ task \in {"none", "stopped"} \/ Fails

WaitTerm(c) ==
    /\ At(c, "wait_term")
    /\ SeesStopped
    /\ Goto(c, "check_running")
    /\ UNCHANGED <<containerd, client>>

(* is_task_running: false also when tasks.get fails. *)
CheckRunning(c) ==
    /\ At(c, "check_running")
    /\ \/ LooksRunning /\ Goto(c, "sigkill")
       \/ (~LooksRunning \/ Fails) /\ StopReturns(c, "ok")
    /\ UNCHANGED <<containerd, client>>

(* tasks.kill with SIGKILL; errors are logged and the wait follows. *)
Sigkill(c) ==
    /\ At(c, "sigkill")
    /\ \/ killed' = (killed \/ task \notin {"none", "stopped"})
       \/ Fails /\ UNCHANGED killed
    /\ Goto(c, "wait_kill")
    /\ UNCHANGED <<record, snap, task, run, client>>

WaitKill(c) ==
    /\ At(c, "wait_kill")
    /\ SeesStopped
    /\ StopReturns(c, "ok")
    /\ UNCHANGED <<containerd, client>>

------------------------------------------------------------------------------
(* delete_container *)

(* tasks.delete in phase 1, where an error means another poll, and from the *)
(* poll of phase 2, where it is ignored.                                    *)
DeleteTask(c) ==
    /\ \/ /\ At(c, "delete_task") \/ At(c, "redelete_task")
          /\ task \in {"none", "created", "stopped"}
          /\ task' = "none"
          /\ Goto(c, IF At(c, "delete_task") THEN "forget" ELSE "reforget")
       \/ /\ At(c, "delete_task")
          /\ Lost
          /\ task \in {"created", "stopped"}
          /\ task' = "none"
          /\ Goto(c, "delete_task")
       \/ /\ At(c, "redelete_task")
          /\ task \in {"running", "paused"} \/ Fails
          /\ \/ UNCHANGED task
             \/ Lost /\ task \in {"created", "stopped"} /\ task' = "none"
          /\ Goto(c, "task_gone")
    /\ UNCHANGED <<record, snap, run, killed, client>>

(* Mutant: the start time is not evicted. *)
ForgetNot(c) ==
    /\ At(c, "forget") \/ At(c, "reforget")
    /\ Goto(c, "task_gone")
    /\ UNCHANGED <<containerd, client>>

(* forget_task_start, after the RPC was answered Ok or NotFound. *)
Forget(c) ==
    /\ At(c, "forget") \/ At(c, "reforget")
    /\ startTime' = 0
    /\ Goto(c, "task_gone")
    /\ UNCHANGED <<containerd, managed, logDir, leaked>>

(* Phase 2: no task, no container or any error ends it; a stopped task is   *)
(* deleted again.                                                           *)
TaskGone(c) ==
    /\ At(c, "task_gone")
    /\ \/ (~record \/ task = "none" \/ Fails) /\ Goto(c, "rm_record")
       \/ record /\ task = "stopped" /\ Goto(c, "redelete_task")
    /\ UNCHANGED <<containerd, client>>

(* remove_container: the record, the snapshot, the log directory, each      *)
(* tried whatever became of the one before.                                 *)
RmRecord(c) ==
    /\ At(c, "rm_record")
    /\ record' = FALSE \/ (Fails /\ UNCHANGED record)
    /\ Goto(c, "rm_snap")
    /\ UNCHANGED <<snap, task, run, killed, client>>

RmSnap(c) ==
    /\ At(c, "rm_snap")
    /\ \/ snap' = FALSE /\ UNCHANGED leaked
       \/ Fails /\ leaked' = TRUE /\ UNCHANGED snap
       \/ Lost /\ leaked' = TRUE /\ snap' = FALSE
    /\ Goto(c, "rm_logs")
    /\ UNCHANGED <<record, task, run, killed, startTime, managed, logDir>>

RmLogs(c) ==
    /\ At(c, "rm_logs")
    /\ logDir' = FALSE
    /\ Goto(c, "record_gone")
    /\ UNCHANGED <<containerd, startTime, managed, leaked>>

(* The result of task::delete_container; Client::delete_container then      *)
(* stops the forwards and the tailer, whatever it was.                      *)
Decide(c, result) ==
    /\ pc' = [pc EXCEPT ![c] = "stop_managed"]
    /\ ret' = [ret EXCEPT ![c] = result]
    /\ UNCHANGED <<setting, op, calls>>

(* Phase 3: only ContainerNotFound ends it; a record still there is removed *)
(* again.                                                                   *)
RecordGone(c) ==
    /\ At(c, "record_gone")
    /\ \/ ~record /\ Decide(c, "ok")
       \/ record /\ Goto(c, "rm_record")
    /\ UNCHANGED <<containerd, client>>

(* Mutant: the tailer is not stopped. *)
StopManagedForwards(c) ==
    /\ At(c, "stop_managed")
    /\ managed' = managed \ {"forward"}
    /\ Goto(c, "idle")
    /\ UNCHANGED <<containerd, startTime, logDir, leaked>>

StopManaged(c) ==
    /\ At(c, "stop_managed")
    /\ managed' = {}
    /\ Goto(c, "idle")
    /\ UNCHANGED <<containerd, startTime, logDir, leaked>>

------------------------------------------------------------------------------
(* The other operations *)

PauseContainer(c) ==
    /\ At(c, "pause")
    /\ \/ /\ task = "running"
          /\ task' = "paused"
          /\ Return(c, "ok") \/ (Lost /\ Return(c, "err"))
       \/ (task # "running" \/ Fails) /\ Return(c, "err") /\ UNCHANGED task
    /\ UNCHANGED <<record, snap, run, killed, client>>

UnpauseContainer(c) ==
    /\ At(c, "unpause")
    /\ \/ /\ task = "paused"
          /\ task' = "running"
          /\ Return(c, "ok") \/ (Lost /\ Return(c, "err"))
       \/ (task # "paused" \/ Fails) /\ Return(c, "err") /\ UNCHANGED task
    /\ UNCHANGED <<record, snap, run, killed, client>>

(* wait_for_exit: a stopped task or a missing container ends it. *)
WaitExit(c) ==
    /\ At(c, "wait_exit")
    /\ \/ record /\ task = "stopped" /\ Return(c, "ok")
       \/ ~record /\ Return(c, "err")
    /\ UNCHANGED <<containerd, client>>

(* start_managed_port_forward: the port may be taken. *)
Forward(c) ==
    /\ At(c, "forward")
    /\ \/ managed' = managed \cup {"forward"} /\ Return(c, "ok")
       \/ UNCHANGED managed /\ Return(c, "err")
    /\ UNCHANGED <<containerd, startTime, logDir, leaked>>

(* Mutant: delete_container goes on when its phase 1 timed out. *)
TimeoutGoesOn(c) ==
    /\ \/ At(c, "wait_term") /\ Goto(c, "check_running")
       \/ At(c, "wait_kill") /\ StopReturns(c, "err")
       \/ At(c, "delete_task") /\ Goto(c, "task_gone")
       \/ pc[c] \in {"task_gone", "record_gone"} /\ Decide(c, "err")
       \/ At(c, "wait_exit") /\ Return(c, "err")
    /\ UNCHANGED <<containerd, client>>

(* Mutant: wait_for_exit has no deadline. *)
TimeoutNotOfWait(c) ==
    /\ \/ At(c, "wait_term") /\ Goto(c, "check_running")
       \/ At(c, "wait_kill") /\ StopReturns(c, "err")
       \/ pc[c] \in {"delete_task", "task_gone", "record_gone"} /\ Decide(c, "err")
    /\ UNCHANGED <<containerd, client>>

(* Mutant: a task that outlives the wait after SIGKILL counts as stopped. *)
TimeoutOfKillIsOk(c) ==
    /\ \/ At(c, "wait_term") /\ Goto(c, "check_running")
       \/ At(c, "wait_kill") /\ StopReturns(c, "ok")
       \/ pc[c] \in {"delete_task", "task_gone", "record_gone"} /\ Decide(c, "err")
       \/ At(c, "wait_exit") /\ Return(c, "err")
    /\ UNCHANGED <<containerd, client>>

(* The deadline of the polling loop a call is in has passed. *)
Timeout(c) ==
    /\ \/ At(c, "wait_term") /\ Goto(c, "check_running")
       \/ At(c, "wait_kill") /\ StopReturns(c, "err")
       \/ pc[c] \in {"delete_task", "task_gone", "record_gone"} /\ Decide(c, "err")
       \/ At(c, "wait_exit") /\ Return(c, "err")
    /\ UNCHANGED <<containerd, client>>

(* The future of the call is dropped at an await point. *)
Cancel(c) ==
    /\ setting.cancellation
    /\ pc[c] # "idle"
    /\ Return(c, "cancelled")
    /\ UNCHANGED <<containerd, client>>

(* The container's process ends: of its own accord, by a signal it heeds,   *)
(* or by SIGKILL.  A frozen process can only be killed.                     *)
TaskExits ==
    /\ task \in {"created", "running"} \/ (task = "paused" /\ killed)
    /\ task' = "stopped"
    /\ UNCHANGED <<setting, pc, op, ret, calls, record, snap, run, killed, client>>

------------------------------------------------------------------------------
Step(c) ==
    \/ GetRecord(c) \/ Mounts(c) \/ PrepareLogs(c) \/ CreateTask(c)
    \/ StartTask(c) \/ RecordStart(c) \/ StartTailer(c)
    \/ Sigterm(c) \/ WaitTerm(c) \/ CheckRunning(c) \/ Sigkill(c) \/ WaitKill(c)
    \/ DeleteTask(c) \/ Forget(c) \/ TaskGone(c)
    \/ RmRecord(c) \/ RmSnap(c) \/ RmLogs(c) \/ RecordGone(c) \/ StopManaged(c)
    \/ PauseContainer(c) \/ UnpauseContainer(c) \/ WaitExit(c) \/ Forward(c)

TaskNext ==
    \/ \E c \in Callers : \/ \E o \in setting.ops : Begin(c, o)
                          \/ Step(c)
                          \/ Timeout(c)
                          \/ Cancel(c)
    \/ TaskExits

TaskSpec == TaskInit /\ [][TaskNext]_taskVars

(* Every RPC is answered and a polled call keeps being polled.  A loop that *)
(* comes round for ever sees its deadline pass, however often it left the   *)
(* check in between, hence strong fairness.                                 *)
TaskFairSpec ==
    TaskSpec /\ \A c \in Callers : WF_taskVars(Step(c)) /\ SF_taskVars(Timeout(c))

------------------------------------------------------------------------------
(* Properties *)

Returns(c, o, result) == InCall(c, o) /\ pc'[c] = "idle" /\ ret'[c] = result

(* RecordOutlivesTask: a container record is deleted only when the          *)
(* container has no task: "Task (if any) must already be deleted" is the    *)
(* precondition of remove_container, and delete_container must establish it *)
(* whatever other stops, deletes, pauses and cancellations run beside it,   *)
(* as long as no start does.                                                *)
RecordOutlivesTask ==
    [][~setting.races /\ record /\ ~record' => task = "none"]_taskVars

(* DeleteIsComplete: when Client::delete_container returns Ok there is no   *)
(* record, no task, no log directory, no start time, no tailer and no       *)
(* managed forward, and no snapshot unless its removal failed (provided no   *)
(* start ran beside it).                                                    *)
DeleteIsComplete ==
    [][~setting.races => \A c \in Callers : Returns(c, "delete", "ok") =>
          /\ ~record' /\ task' = "none" /\ (snap' => leaked')
          /\ ~logDir' /\ startTime' = 0 /\ managed' = {}]_taskVars

(* StopOkMeansStopped: when stop_container returns Ok the task is stopped   *)
(* or gone ("task should be Stopped after stop_container"), if every RPC is  *)
(* answered and no start ran beside it.                                     *)
StopOkMeansStopped ==
    [][~Fails /\ ~setting.races => \A c \in Callers :
          Returns(c, "stop", "ok") => task \in {"none", "stopped"}]_taskVars

(* UptimeIsCurrent: an entry of task_start_times is always about the task   *)
(* that exists now, except while a delete_task is between its RPC and its   *)
(* eviction: probe_health never applies the grace of an earlier run.  A      *)
(* lost answer, a dropped call or a start beside the delete can leave one.  *)
UptimeIsCurrent ==
    ~Fails /\ ~setting.cancellation /\ ~setting.races /\ startTime # 0 =>
        \/ task # "none" /\ startTime = run
        \/ \E c \in Callers : pc[c] \in {"forget", "reforget"}

(* EveryCallReturns: no operation waits forever, whatever the task does:    *)
(* every wait is a polling loop with a deadline.                            *)
EveryCallReturns == \A c \in Callers : (pc[c] # "idle") ~> (pc[c] = "idle")

------------------------------------------------------------------------------
(* Inductive invariant *)

OpOfLabel ==
    \A c \in Callers :
        /\ pc[c] \in StartLabel => op[c] = "start"
        /\ pc[c] \in StopLabel => op[c] \in {"stop", "delete"}
        /\ pc[c] \in DeleteLabel => op[c] = "delete"
        /\ pc[c] \in {"pause", "unpause", "forward"} => op[c] = pc[c]
        /\ pc[c] = "wait_exit" => op[c] = "wait"

(* A delete that got past its phase 1, until it leaves remove_container. *)
PastTask == {"forget", "task_gone", "redelete_task", "reforget", "rm_record",
             "rm_snap", "rm_logs", "record_gone"}

(* DeleteInv: what makes RecordOutlivesTask and DeleteIsComplete inductive  *)
(* when no start overlaps a delete: what a delete has taken away stays      *)
(* away until it returns.                                                   *)
DeleteInv ==
    /\ OpOfLabel
    /\ ~setting.races =>
        /\ ~(Starting /\ Stopping)
        /\ \A c \in Callers :
            /\ pc[c] \in PastTask => task = "none"
            /\ pc[c] \in PastTask \ {"forget"} => startTime = 0
            /\ pc[c] \in {"rm_logs", "record_gone"} => (snap => leaked)
            /\ pc[c] = "record_gone" => ~logDir
            /\ (pc[c] = "stop_managed" /\ ret[c] = "ok")
                  => /\ ~record /\ task = "none" /\ (snap => leaked)
                     /\ ~logDir /\ startTime = 0

(* RunInv: what makes UptimeIsCurrent and StopOkMeansStopped inductive: a    *)
(* task never outlives its record, and a start that has created its task     *)
(* still finds one.                                                          *)
RunInv ==
    ~setting.races =>
        /\ ~record => task = "none"
        /\ \A c \in Callers : pc[c] \in {"start_task", "record_start"} => task # "none"
        /\ "pause" \notin setting.ops => /\ task # "paused"
                                        /\ \A c \in Callers : pc[c] # "pause"
        /\ UptimeIsCurrent

=============================================================================
