----------------------------- MODULE SnapshotOps -----------------------------
(***************************************************************************)
(* clone, snapshot, restore, reset_to_snapshot, delete_snapshot and delete *)
(* around one source container: what they do to the layers of containerd's *)
(* snapshotter and to the data in them.                                    *)
(*                                                                         *)
(* The snapshotter is external and modelled from how the code uses it: a   *)
(* commit turns an active layer into a committed one under another name, a *)
(* prepare makes an active layer on a committed parent, a remove wants a   *)
(* layer without children.  A running task writes into the upper directory *)
(* it mounted at its start, whatever the layer is called by then.          *)
(* start_container, stop_container and create_container_with_id are        *)
(* detailed in TaskLifecycle and ContainerCreate and are one step here.    *)
(***************************************************************************)
EXTENDS Naturals, FiniteSets

CONSTANTS
    Calls,        \* one operation each; a clone or restore call also names
                  \* the snapshot key of the container it creates
    Names,        \* user-chosen snapshot names
    Settings,     \* what may happen, see Setting
    MaxData,      \* bound: how often the source's task writes
    None

Operations == {"clone", "snapshot", "restore", "reset", "delete_snapshot", "start",
               "delete", "unpause"}

Setting ==
    [ops : SUBSET Operations,                \* the operations called
     names : SUBSET Names,                   \* the names they are given
     task : {"none", "running", "paused"},   \* the source's task at the start
     faults : SUBSET {"fail", "blind"},      \* "fail": an RPC may fail;
                                             \* "blind": tasks.get may fail inside an
                                             \* inspect and be read as "no task"
     cancellation : BOOLEAN,                 \* may a call's future be dropped?
     exits : BOOLEAN,                        \* may the source's process end by itself?
     serial : BOOLEAN,                       \* do callers run one operation at a time?
     writes : 0..MaxData]

Fixed == {"image", "src", "base"}
Keys == Fixed \cup Names \cup Calls

ASSUME KeysAssumption ==
    /\ Names \cap Fixed = {}
    /\ Calls \cap (Fixed \cup Names) = {}
    /\ None \notin Keys

ASSUME SettingAssumption == MaxData \in Nat /\ Settings \subseteq Setting

VARIABLES
    setting,  \* one of Settings, throughout
    pc,       \* where each call is
    op,       \* which operation it is
    arg,      \* the snapshot name it was given
    restart,  \* restart_src / restart
    was,      \* was_running, as the call's inspect saw it
    tries,    \* prepare attempts of a reset
    ret,      \* its result, once decided
    kind,     \* snapshotter: absent, active or committed, per key
    parent,   \* snapshotter: the parent of each key
    data,     \* snapshotter: the version of the data in each key
    record,   \* containerd: the source's record exists
    task,     \* containerd: the source's task
    mount,    \* the layer whose upper directory the task writes to
    writes,   \* versions written so far
    latest    \* the version of the source's data its user last had

callState == <<setting, pc, op, arg, restart, was, tries, ret>>
snapshots == <<kind, parent, data>>
container == <<record, task, mount>>
vars == <<callState, snapshots, container, writes, latest>>

Label == {"idle", "inspect", "stop", "delete_task", "fetch", "stat_base",
          "commit", "reprepare", "rollback", "prepare_dst", "create_dst",
          "remove_dst", "stat", "remove_active", "reset_prepare",
          "remove_named", "restart", "unpause", "rm_record", "rm_snap", "done"}

MaxTries == 5

CallTypes ==
    /\ pc \in [Calls -> Label]
    /\ setting \in Settings
    /\ op \in [Calls -> Operations \cup {"none"}]
    /\ arg \in [Calls -> Names \cup {None}]
    /\ \A c \in Calls : pc[c] # "idle" => arg[c] \in Names
    /\ restart \in [Calls -> BOOLEAN]
    /\ was \in [Calls -> BOOLEAN]
    /\ tries \in [Calls -> 0..MaxTries]
    /\ ret \in [Calls -> {"none", "ok", "err"}]

LayerTypes ==
    /\ kind \in [Keys -> {"absent", "active", "committed"}]
    /\ parent \in [Keys -> Keys \cup {None}]
    /\ data \in [Keys -> 0..MaxData]

ContainerTypes ==
    /\ record \in BOOLEAN
    /\ task \in {"none", "running", "paused", "stopped"}
    /\ mount \in Keys
    /\ writes \in 0..MaxData
    /\ latest \in 0..MaxData

TypeOK == CallTypes /\ LayerTypes /\ ContainerTypes

(* create_container prepared the source's layer on the image. *)
Init ==
    /\ setting \in Settings
    /\ pc = [c \in Calls |-> "idle"]
    /\ op = [c \in Calls |-> "none"]
    /\ arg = [c \in Calls |-> None]
    /\ restart = [c \in Calls |-> FALSE]
    /\ was = [c \in Calls |-> FALSE]
    /\ tries = [c \in Calls |-> 0]
    /\ ret = [c \in Calls |-> "none"]
    /\ kind = [k \in Keys |-> IF k = "image" THEN "committed"
                              ELSE IF k = "src" THEN "active" ELSE "absent"]
    /\ parent = [k \in Keys |-> IF k = "src" THEN "image" ELSE None]
    /\ data = [k \in Keys |-> 0]
    /\ record = TRUE
    /\ task = setting.task
    /\ mount = "src"
    /\ writes = 0
    /\ latest = 0

------------------------------------------------------------------------------
(* The snapshotter *)

Exists(k) == kind[k] # "absent"
HasChild(k) == \E j \in Keys : Exists(j) /\ parent[j] = k

Commit(key, name) ==
    /\ kind[name] = "absent"
    /\ kind[key] = "active"
    /\ kind' = [kind EXCEPT ![name] = "committed", ![key] = "absent"]
    /\ parent' = [parent EXCEPT ![name] = parent[key]]
    /\ data' = [data EXCEPT ![name] = data[key]]
    /\ mount' = IF mount = key THEN name ELSE mount

Prepare(key, on) ==
    /\ kind[key] = "absent"
    /\ kind[on] = "committed"
    /\ kind' = [kind EXCEPT ![key] = "active"]
    /\ parent' = [parent EXCEPT ![key] = on]
    /\ data' = [data EXCEPT ![key] = data[on]]

Remove(key) ==
    /\ Exists(key)
    /\ ~HasChild(key)
    /\ kind' = [kind EXCEPT ![key] = "absent"]
    /\ UNCHANGED <<parent, data>>

------------------------------------------------------------------------------
(* Helpers *)

At(c, label) == pc[c] = label

Goto(c, to) ==
    /\ pc' = [pc EXCEPT ![c] = to]
    /\ UNCHANGED <<setting, op, arg, restart, was, tries, ret>>

Decide(c, to, result) ==
    /\ pc' = [pc EXCEPT ![c] = to]
    /\ ret' = [ret EXCEPT ![c] = result]
    /\ UNCHANGED <<setting, op, arg, restart, was, tries>>

Return(c, result) == Decide(c, "done", result)

(* The work is over; clone and snapshot put a source back that they found   *)
(* running, reset starts it, each only if asked to.                         *)
Finish(c, result) ==
    Decide(c, IF restart[c] /\ (was[c] \/ op[c] = "reset") THEN "restart"
              ELSE "done",
           result)

Fail == "fail" \in setting.faults
Blind == "blind" \in setting.faults
Busy(c) == pc[c] \notin {"idle", "done"}

(* base_key of a clone, the name of a named snapshot. *)
Target(c) == IF op[c] = "clone" THEN "base" ELSE arg[c]

First(o) ==
    CASE o \in {"clone", "snapshot"} -> "inspect"
      [] o \in {"restore", "delete_snapshot"} -> "stat"
      [] o = "reset" -> "fetch"
      [] o = "start" -> "restart"
      [] o = "delete" -> "stop"
      [] OTHER -> o

Begin(c, o) ==
    /\ At(c, "idle")
    /\ setting.serial => \A d \in Calls : ~Busy(d)
    /\ pc' = [pc EXCEPT ![c] = First(o)]
    /\ op' = [op EXCEPT ![c] = o]
    /\ \E n \in setting.names : arg' = [arg EXCEPT ![c] = n]
    /\ \E b \in IF o \in {"clone", "snapshot", "reset"} THEN BOOLEAN ELSE {FALSE} :
          restart' = [restart EXCEPT ![c] = b]
    /\ UNCHANGED <<setting, was, tries, ret, snapshots, container, writes, latest>>

------------------------------------------------------------------------------
(* Stopping the source, and reading its record *)

(* Mutant: a running source is not stopped. *)
SeesButGoesOn(c, running) ==
    /\ was' = [was EXCEPT ![c] = running]
    /\ pc' = [pc EXCEPT ![c] = "fetch"]
    /\ UNCHANGED <<setting, op, arg, restart, tries, ret>>

Sees(c, running) ==
    /\ was' = [was EXCEPT ![c] = running]
    /\ pc' = [pc EXCEPT ![c] = IF running THEN "stop" ELSE "fetch"]
    /\ UNCHANGED <<setting, op, arg, restart, tries, ret>>

(* inspect_container; a failed tasks.get makes a running source look idle. *)
Inspect(c) ==
    /\ At(c, "inspect")
    /\ \/ record /\ Sees(c, task = "running")
       \/ record /\ Blind /\ Sees(c, FALSE)
       \/ (~record \/ Fail) /\ Return(c, "err")
    /\ UNCHANGED <<snapshots, container, writes, latest>>

(* stop_container: a paused task stays as it is, and Ok is returned; so it  *)
(* is for a running one whose status could not be read.  reset and delete   *)
(* go on after an error, clone and snapshot return it.                      *)
StopSrc(c) ==
    /\ At(c, "stop")
    /\ \/ /\ task' = IF task = "running" THEN "stopped" ELSE task
          /\ Goto(c, "delete_task")
       \/ Blind /\ Goto(c, "delete_task") /\ UNCHANGED task
       \/ /\ Fail
          /\ IF op[c] \in {"clone", "snapshot"} THEN Return(c, "err")
             ELSE Goto(c, "delete_task")
          /\ UNCHANGED task
    /\ UNCHANGED <<snapshots, record, mount, writes, latest>>

AfterStop(c) ==
    CASE op[c] \in {"clone", "snapshot"} -> "fetch"
      [] op[c] = "reset" -> "remove_active"
      [] OTHER -> "rm_record"

(* retry_delete_task, or phase 1 of delete_container. *)
DeleteTask(c) ==
    /\ At(c, "delete_task")
    /\ \/ task \in {"none", "stopped"} /\ task' = "none" /\ Goto(c, AfterStop(c))
       \/ /\ task \in {"running", "paused"} \/ Fail
          /\ Return(c, "err")
          /\ UNCHANGED task
    /\ UNCHANGED <<snapshots, record, mount, writes, latest>>

(* fetch_container_record; inside clone_inner an error still leads to the   *)
(* restart of the source, in snapshot_container it does not.                *)
Fetch(c) ==
    /\ At(c, "fetch")
    /\ \/ record /\ Goto(c, CASE op[c] = "clone" -> "stat_base"
                              [] op[c] = "snapshot" -> "commit"
                              [] OTHER -> "stat")
       \/ /\ ~record \/ Fail
          /\ IF op[c] = "clone" THEN Finish(c, "err") ELSE Return(c, "err")
    /\ UNCHANGED <<snapshots, container, writes, latest>>

------------------------------------------------------------------------------
(* Freezing the source's layer: ensure_clone_base and snapshot_container *)

StatBase(c) ==
    /\ At(c, "stat_base")
    /\ \/ Exists("base") /\ Goto(c, "prepare_dst")
       \/ ~Exists("base") /\ Goto(c, "commit")
       \/ Fail /\ Finish(c, "err")
    /\ UNCHANGED <<snapshots, container, writes, latest>>

(* Mutant: snapshot_container does not prepare the source again. *)
CommitSrcAndFinish(c) ==
    /\ At(c, "commit")
    /\ Commit("src", Target(c))
    /\ IF op[c] = "clone" THEN Goto(c, "reprepare") ELSE Finish(c, "ok")
    /\ UNCHANGED <<record, task, writes, latest>>

(* snapshots.commit; AlreadyExists tells a clone that another one made the  *)
(* base, and is an error of snapshot_container.                             *)
CommitSrc(c) ==
    /\ At(c, "commit")
    /\ \/ Commit("src", Target(c)) /\ Goto(c, "reprepare")
       \/ /\ Exists(Target(c))
          /\ IF op[c] = "clone" THEN Goto(c, "prepare_dst") ELSE Finish(c, "err")
          /\ UNCHANGED <<snapshots, mount>>
       \/ /\ (~Exists(Target(c)) /\ kind["src"] # "active") \/ Fail
          /\ Finish(c, "err")
          /\ UNCHANGED <<snapshots, mount>>
    /\ UNCHANGED <<record, task, writes, latest>>

(* Mutant: the source is prepared again on its image. *)
ReprepareOnImage(c) ==
    /\ At(c, "reprepare")
    /\ Prepare("src", "image")
    /\ IF op[c] = "clone" THEN Goto(c, "prepare_dst") ELSE Finish(c, "ok")
    /\ UNCHANGED <<container, writes, latest>>

(* snapshots.prepare of the source's key on what was just committed. *)
Reprepare(c) ==
    /\ At(c, "reprepare")
    /\ \/ /\ Prepare("src", Target(c))
          /\ IF op[c] = "clone" THEN Goto(c, "prepare_dst") ELSE Finish(c, "ok")
       \/ /\ Exists("src")
          /\ Goto(c, IF op[c] = "clone" THEN "prepare_dst" ELSE "rollback")
          /\ UNCHANGED snapshots
       \/ /\ (~Exists("src") /\ kind[Target(c)] # "committed") \/ Fail
          /\ IF op[c] = "clone" THEN Finish(c, "err") ELSE Goto(c, "rollback")
          /\ UNCHANGED snapshots
    /\ UNCHANGED <<container, writes, latest>>

(* A snapshots.remove whose result is ignored. *)
TryRemove(k) ==
    \/ Remove(k)
    \/ (~Exists(k) \/ HasChild(k) \/ Fail) /\ UNCHANGED snapshots

(* snapshot_container removes what it committed and returns the error; the  *)
(* source is not restarted.                                                 *)
Rollback(c) ==
    /\ At(c, "rollback")
    /\ TryRemove(arg[c])
    /\ Return(c, "err")
    /\ UNCHANGED <<container, writes, latest>>

------------------------------------------------------------------------------
(* Making a container of a frozen layer: clone_inner and restore_container *)

PrepareDst(c) ==
    /\ At(c, "prepare_dst")
    /\ \/ Prepare(c, Target(c)) /\ Goto(c, "create_dst")
       \/ /\ kind[Target(c)] # "committed" \/ Fail
          /\ Finish(c, "err")
          /\ UNCHANGED snapshots
    /\ UNCHANGED <<container, writes, latest>>

CreateDst(c) ==
    /\ At(c, "create_dst")
    /\ Finish(c, "ok") \/ Goto(c, "remove_dst")
    /\ UNCHANGED <<snapshots, container, writes, latest>>

RemoveDst(c) ==
    /\ At(c, "remove_dst")
    /\ TryRemove(c)
    /\ Finish(c, "err")
    /\ UNCHANGED <<container, writes, latest>>

------------------------------------------------------------------------------
(* Named snapshots: reset_to_snapshot and delete_snapshot *)

(* stat_managed_snapshot, and reset's comparison of images: any of them may *)
(* be an error.                                                             *)
Stat(c) ==
    /\ At(c, "stat")
    /\ \/ Exists(arg[c]) /\ Goto(c, CASE op[c] = "restore" -> "prepare_dst"
                                      [] op[c] = "reset" -> "stop"
                                      [] OTHER -> "remove_named")
       \/ Return(c, "err")
    /\ UNCHANGED <<snapshots, container, writes, latest>>

(* The source's layer is discarded: from here its user wants the snapshot's *)
(* data.                                                                    *)
RemoveActive(c) ==
    /\ At(c, "remove_active")
    /\ \/ /\ Remove("src") \/ (~Exists("src") /\ UNCHANGED snapshots)
          /\ latest' = data[arg[c]]
          /\ Goto(c, "reset_prepare")
       \/ Fail /\ Return(c, "err") /\ UNCHANGED <<snapshots, latest>>
    /\ UNCHANGED <<container, writes>>

ResetPrepare(c) ==
    /\ At(c, "reset_prepare")
    /\ \/ Prepare("src", arg[c]) /\ Finish(c, "ok")
       \/ /\ Exists("src") \/ kind[arg[c]] # "committed" \/ Fail
          /\ IF tries[c] + 1 < MaxTries
             THEN /\ tries' = [tries EXCEPT ![c] = tries[c] + 1]
                  /\ UNCHANGED <<setting, pc, op, arg, restart, was, ret>>
             ELSE Return(c, "err")
          /\ UNCHANGED snapshots
    /\ UNCHANGED <<container, writes, latest>>

RemoveNamed(c) ==
    /\ At(c, "remove_named")
    /\ \/ Remove(arg[c]) /\ Return(c, "ok")
       \/ /\ ~Exists(arg[c]) \/ HasChild(arg[c]) \/ Fail
          /\ Return(c, "err")
          /\ UNCHANGED snapshots
    /\ UNCHANGED <<container, writes, latest>>

------------------------------------------------------------------------------
(* start_container and delete_container of the source *)

(* Failing to restart is an error of reset and of start, a warning of clone *)
(* and snapshot.                                                            *)
Restart(c) ==
    /\ At(c, "restart")
    /\ \/ /\ record /\ kind["src"] = "active" /\ task = "none"
          /\ task' = "running"
          /\ mount' = "src"
          /\ Return(c, IF op[c] = "start" THEN "ok" ELSE ret[c])
       \/ /\ ~record \/ kind["src"] # "active" \/ task # "none" \/ Fail
          /\ Return(c, IF op[c] \in {"start", "reset"} THEN "err" ELSE ret[c])
          /\ UNCHANGED <<task, mount>>
    /\ UNCHANGED <<snapshots, record, writes, latest>>

Unpause(c) ==
    /\ At(c, "unpause")
    /\ \/ task = "paused" /\ task' = "running" /\ Return(c, "ok")
       \/ (task # "paused" \/ Fail) /\ Return(c, "err") /\ UNCHANGED task
    /\ UNCHANGED <<snapshots, record, mount, writes, latest>>

RmRecord(c) ==
    /\ At(c, "rm_record")
    /\ record' = FALSE \/ (Fail /\ UNCHANGED record)
    /\ Goto(c, "rm_snap")
    /\ UNCHANGED <<snapshots, task, mount, writes, latest>>

(* The snapshot goes, or leaks; phase 3 ends when the record is gone, or at *)
(* its deadline.                                                            *)
RmSnap(c) ==
    /\ At(c, "rm_snap")
    /\ TryRemove("src")
    /\ \/ ~record /\ Return(c, "ok")
       \/ record /\ (Goto(c, "rm_record") \/ Return(c, "err"))
    /\ UNCHANGED <<container, writes, latest>>

------------------------------------------------------------------------------
Cancel(c) ==
    /\ setting.cancellation
    /\ Busy(c)
    /\ Return(c, "err")
    /\ UNCHANGED <<snapshots, container, writes, latest>>

(* The source's process changes its file system. *)
Write ==
    /\ task = "running"
    /\ writes < setting.writes
    /\ writes' = writes + 1
    /\ latest' = writes + 1
    /\ data' = IF Exists(mount) THEN [data EXCEPT ![mount] = writes + 1] ELSE data
    /\ UNCHANGED <<callState, kind, parent, container>>

(* The source's process ends; its task stays behind, stopped. *)
TaskExits ==
    /\ setting.exits
    /\ task = "running"
    /\ task' = "stopped"
    /\ UNCHANGED <<callState, snapshots, record, mount, writes, latest>>

Step(c) ==
    \/ Inspect(c) \/ StopSrc(c) \/ DeleteTask(c) \/ Fetch(c)
    \/ StatBase(c) \/ CommitSrc(c) \/ Reprepare(c) \/ Rollback(c)
    \/ PrepareDst(c) \/ CreateDst(c) \/ RemoveDst(c)
    \/ Stat(c) \/ RemoveActive(c) \/ ResetPrepare(c) \/ RemoveNamed(c)
    \/ Restart(c) \/ Unpause(c) \/ RmRecord(c) \/ RmSnap(c)

Next ==
    \/ \E c \in Calls : (\E o \in setting.ops : Begin(c, o)) \/ Step(c) \/ Cancel(c)
    \/ Write
    \/ TaskExits

Spec == Init /\ [][Next]_vars

------------------------------------------------------------------------------
(* Properties *)

(* A setting in which no layer is taken away: no resets, no delete_snapshot, *)
(* no failing RPC and no dropped call.                                       *)
Calm ==
    /\ setting.ops \cap {"reset", "delete_snapshot"} = {}
    /\ "fail" \notin setting.faults
    /\ ~setting.cancellation

(* LayerOwned: a source whose active layer is missing is in the hands of a  *)
(* call between its snapshots.commit and its snapshots.prepare, so when     *)
(* every clone_container, snapshot_container, restore and start has         *)
(* returned the source can be started.  Resets and delete_snapshot beside   *)
(* them can take the parent away first, and so can a failing RPC.           *)
LayerOwned ==
    Calm /\ record => \/ kind["src"] = "active"
                      \/ \E c \in Calls : pc[c] = "reprepare"

(* FrozenStaysFrozen: what a clone base or a named snapshot holds never     *)
(* changes while it exists: the source is "briefly stopped to commit its    *)
(* writable layer", so no task writes into a layer that was committed.  It  *)
(* takes callers that run one operation at a time, an inspect that sees the *)
(* task, and nobody who unpauses it.                                        *)
FrozenStaysFrozen ==
    [][setting.serial /\ ~Blind /\ "unpause" \notin setting.ops =>
          \A k \in Keys :
              (kind[k] = "committed" /\ kind'[k] = "committed")
                  => data'[k] = data[k]]_vars

(* LatestDataKept: the source's active layer holds the data its user last   *)
(* had, or asked for with reset_to_snapshot; when the layer is missing some *)
(* other layer holds it: no clone_container or snapshot_container takes the *)
(* only copy with it, wherever a call is dropped.                           *)
LatestDataKept ==
    record /\ setting.serial /\ setting.faults = {}
           /\ setting.ops \cap {"delete_snapshot", "delete", "unpause"} = {} =>
        IF Exists("src") THEN data["src"] = latest
        ELSE \E k \in Keys : Exists(k) /\ data[k] = latest

(* RestartKept: a running source is running again when every call that was  *)
(* asked to restart it has returned: "briefly stopped [...], then           *)
(* restarted".                                                              *)
RestartKept ==
    (setting.task = "running" /\ \A c \in Calls : pc[c] = "done" /\ restart[c])
        => task = "running"

------------------------------------------------------------------------------
(* Inductive invariant *)

(* LayerInv: what makes LayerOwned inductive in a calm setting.  One call at *)
(* a time is between commit and prepare, because a commit takes the active   *)
(* layer, and what it committed is still there to prepare on.                *)
LayerInv ==
    Calm =>
    /\ LayerOwned
    /\ kind["src"] # "committed"
    /\ \A c \in Calls :
        /\ pc[c] \notin {"rollback", "remove_active", "reset_prepare",
                         "remove_named"}
        /\ op[c] \notin {"reset", "delete_snapshot"}
        /\ pc[c] = "reprepare"
              => kind["src"] = "absent" /\ kind[Target(c)] = "committed"
        /\ pc[c] = "stat" => op[c] = "restore"
        /\ pc[c] \in {"inspect", "fetch"} => op[c] \in {"clone", "snapshot"}
        /\ pc[c] = "rm_snap" => ~record
        /\ \A d \in Calls :
              (pc[c] = "reprepare" /\ pc[d] = "reprepare") => c = d


(* TaskInv: what makes FrozenStaysFrozen hold.  One call at a time is under  *)
(* way, a running task writes to the source's active layer, and no task runs *)
(* where a call is about to commit or remove that layer.                     *)
TaskInv ==
    setting.serial /\ ~Blind /\ "unpause" \notin setting.ops =>
    /\ \A c, d \in Calls : Busy(c) /\ Busy(d) => c = d
    /\ \A c \in Calls : pc[c] # "unpause"
    /\ task = "running" =>
          /\ mount = "src" /\ kind["src"] = "active"
          /\ \A c \in Calls :
                /\ pc[c] \notin {"stat_base", "commit", "reprepare", "remove_active",
                                 "reset_prepare", "rm_record", "rm_snap"}
                /\ pc[c] = "fetch" => op[c] = "reset"

(* Which operation is where, without delete_snapshot and delete. *)
OpInv(c) ==
    /\ op[c] \notin {"delete_snapshot", "delete"}
    /\ pc[c] \notin {"rollback", "remove_named", "rm_record", "rm_snap"}
    /\ pc[c] \in {"inspect", "stat_base", "commit", "reprepare"} => op[c] \in {"clone", "snapshot"}
    /\ pc[c] \in {"stop", "delete_task", "fetch"} => op[c] \in {"clone", "snapshot", "reset"}
    /\ pc[c] = "stat" => op[c] \in {"restore", "reset"}
    /\ pc[c] \in {"remove_active", "reset_prepare"} => op[c] = "reset"

(* DataInv: what makes LatestDataKept inductive, beside TaskInv.  The latest *)
(* data is in the source's layer or, between a commit or a reset's remove    *)
(* and the prepare that follows, in the committed layer it is prepared on.   *)
DataInv ==
    setting.serial /\ setting.faults = {}
        /\ setting.ops \cap {"delete_snapshot", "delete", "unpause"} = {} =>
    /\ kind["src"] # "committed"
    /\ \A k \in Names \cup {"base"} : kind[k] # "active"
    /\ kind["src"] = "active" => data["src"] = latest
    /\ kind["src"] = "absent" =>
          \E k \in Names \cup {"base"} : kind[k] = "committed" /\ data[k] = latest
    /\ \A c \in Calls :
          /\ OpInv(c)
          /\ pc[c] \in {"stop", "delete_task", "remove_active"} /\ op[c] = "reset" =>
                kind[arg[c]] = "committed"
          /\ pc[c] \in {"reprepare", "reset_prepare"} =>
                /\ kind["src"] = "absent"
                /\ kind[Target(c)] = "committed" /\ data[Target(c)] = latest
=============================================================================
