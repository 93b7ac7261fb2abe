---------------------------- MODULE ExecReadiness ----------------------------
(***************************************************************************)
(* exec, wait_ready and probe_health on one container, called by several   *)
(* callers of one process, which can die and be started again.             *)
(*                                                                         *)
(* An exec has an id and an I/O directory, named by process id and         *)
(* EXEC_COUNTER.  containerd keeps the exec record, and its process writes *)
(* to the stdout file in the directory; stderr is handled like stdout and  *)
(* left out.  The task is the environment: what the other operations of    *)
(* the client do to it.  Any RPC can fail, as it does once the container   *)
(* is deleted.  Time is a choice: a deadline may have passed whenever it   *)
(* is looked at, and has passed after MaxPolls polls.                      *)
(***************************************************************************)
EXTENDS Naturals, Sequences, FiniteSets

CONSTANTS
    Callers,      \* concurrent users of the Client
    Ops,          \* the operations each of them calls
    Tests,        \* the Test arrays a HEALTHCHECK may have, <<>> if there is none
    Pids,         \* process ids the client's process may get
    MaxAttempts,  \* bound: execs begun, by all processes together
    MaxPolls,     \* bound: polls of one wait_ready
    MaxOut,       \* bound: what an exec'd process writes
    MaxCrashes,   \* bound: how often the client's process dies
    Cap           \* ExecOpts::max_output_bytes

ASSUME OpsAssumption ==
    /\ IsFiniteSet(Callers)
    /\ Ops \in [Callers -> SUBSET {"exec", "probe", "wait_running", "wait_tcp",
                                   "wait_exec", "wait_image"}]

ASSUME BoundsAssumption ==
    /\ MaxAttempts \in Nat /\ MaxPolls \in Nat \ {0} /\ MaxOut \in Nat
    /\ MaxCrashes \in Nat /\ Cap \in Nat
    /\ Pids # {}

Names == Pids \X (0..2 * MaxAttempts)
None == <<>>
Attempts == 1..MaxAttempts

Exec == [state : {"none", "created", "running", "exited"},
         code : {0, 1},              \* the exit status
         target : Names \cup {None}, \* where it writes; None once unlinked
         owner : 0..MaxAttempts,     \* history: the attempt that made it
         wrote : 0..MaxOut]          \* history: how much it has written

NoExec == [state |-> "none", code |-> 0, target |-> None, owner |-> 0, wrote |-> 0]

Result == [code : {0, 1}, out : Seq(Attempts), truncated : BOOLEAN]
NoResult == [code |-> 0, out |-> <<>>, truncated |-> FALSE]

VARIABLES
    task,      \* containerd: the task of the container
    exec,      \* containerd: the exec records
    dirs,      \* the I/O directories there are
    stdout,    \* what is in the stdout file of each
    strays,    \* history: the directories no Drop will remove
    pid,       \* process::id()
    used,      \* history: the pids the process has had
    fresh,     \* history: each of its lives had a pid of its own
    counter,   \* EXEC_COUNTER
    begun,     \* attempts begun so far
    crashes,   \* how often the process has died
    pc,        \* where each caller is
    op,        \* the operation it is in
    polls,     \* polls of its wait_ready so far
    attempt,   \* the exec it makes
    id,        \* exec_id
    dir,       \* its I/O directory
    result     \* what wait and read_capped gave it

disk == <<dirs, stdout, strays>>
process == <<pid, used, fresh, crashes>>
ids == <<counter, begun>>
mine == <<attempt, id, dir, result>>
vars == <<task, exec, disk, process, ids, pc, op, polls, mine>>

Label == {"idle", "resolve", "poll", "connect", "mkdir", "create", "start", "wait",
          "read", "delete"}

CallTypes ==
    /\ pc \in [Callers -> Label]
    /\ op \in [Callers -> {"none", "exec", "probe", "wait_running", "wait_tcp",
                          "wait_exec", "wait_image"}]
    /\ polls \in [Callers -> 0..MaxPolls]
    /\ attempt \in [Callers -> 0..MaxAttempts]
    /\ id \in [Callers -> Names \cup {None}]
    /\ dir \in [Callers -> Names \cup {None}]
    /\ result \in [Callers -> Result]

ProcessTypes ==
    /\ pid \in used /\ used \subseteq Pids
    /\ fresh \in BOOLEAN
    /\ begun \in 0..MaxAttempts
    /\ counter \in 0..2 * begun
    /\ crashes \in 0..MaxCrashes

WorldTypes ==
    /\ task \in {"none", "running", "paused", "stopped"}
    /\ exec \in [Names -> Exec]
    /\ dirs \subseteq Names /\ strays \subseteq Names
    /\ stdout \in [Names -> Seq(Attempts)]

TypeOK == CallTypes /\ ProcessTypes /\ WorldTypes

Init ==
    /\ task = "running"
    /\ exec = [n \in Names |-> NoExec]
    /\ dirs = {} /\ strays = {} /\ stdout = [n \in Names |-> <<>>]
    /\ pid = (CHOOSE p \in Pids : TRUE) /\ used = {pid} /\ fresh = TRUE /\ crashes = 0
    /\ counter = 0 /\ begun = 0
    /\ pc = [c \in Callers |-> "idle"]
    /\ op = [c \in Callers |-> "none"]
    /\ polls = [c \in Callers |-> 0]
    /\ attempt = [c \in Callers |-> 0]
    /\ id = [c \in Callers |-> None]
    /\ dir = [c \in Callers |-> None]
    /\ result = [c \in Callers |-> NoResult]

------------------------------------------------------------------------------
(* The HEALTHCHECK *)

(* parse_healthcheck: the command to run, <<>> for none. *)
ParseHealthcheck(test) ==
    CASE test = <<>> \/ Head(test) = "NONE" -> <<>>
      [] Head(test) = "CMD" -> Tail(test)
      [] Head(test) = "CMD-SHELL" ->
            IF Len(test) < 2 THEN <<>> ELSE <<"/bin/sh", "-c", test[2]>>
      [] OTHER -> test

(* Mutant: wait_ready does not pass the timeout on. *)
UnderTimeoutOfProbe(c) == op[c] = "probe"

(* check_timeout: only a HEALTHCHECK sets one. *)
UnderTimeout(c) == op[c] \in {"probe", "wait_image"}

------------------------------------------------------------------------------
(* How calls move on and end *)

Busy(c) == pc[c] # "idle"
Execing(c) == pc[c] \in {"create", "start", "wait", "read", "delete"}

Goto(c, to) ==
    /\ pc' = [pc EXCEPT ![c] = to]
    /\ UNCHANGED <<op, polls>>

Return(c) ==
    /\ pc' = [pc EXCEPT ![c] = "idle"]
    /\ op' = [op EXCEPT ![c] = "none"]
    /\ polls' = [polls EXCEPT ![c] = 0]

(* A new attempt takes its exec_id from the counter. *)
NewExec(c) ==
    /\ begun < MaxAttempts
    /\ begun' = begun + 1
    /\ counter' = counter + 1
    /\ attempt' = [attempt EXCEPT ![c] = begun + 1]
    /\ id' = [id EXCEPT ![c] = <<pid, counter>>]
    /\ UNCHANGED <<dir, result>>

NoExecOf(c) ==
    /\ attempt' = [attempt EXCEPT ![c] = 0]
    /\ id' = [id EXCEPT ![c] = None]
    /\ dir' = [dir EXCEPT ![c] = None]
    /\ result' = [result EXCEPT ![c] = NoResult]

(* Drop of IoDir: the processes that write to the directory keep their file, *)
(* which has no name any more.                                               *)
RemoveDir(d) ==
    /\ dirs' = dirs \ {d}
    /\ strays' = strays \ {d}
    /\ stdout' = IF d \in Names THEN [stdout EXCEPT ![d] = <<>>] ELSE stdout

Unlinked(e, d) ==
    [n \in Names |-> IF e[n].target = d /\ e[n].state # "none"
                     THEN [NoExec EXCEPT !.state = e[n].state] ELSE e[n]]

(* A poll of wait_ready has failed: the deadline, or the next poll. *)
PollAgain(c) ==
    \/ Return(c)
    \/ polls[c] < MaxPolls /\ Goto(c, "poll")

(* The exec of a call has ended with an output and exit status 0 ("zero") or *)
(* another ("nonzero"), or without ("err").  exec returns it, probe_health   *)
(* makes Healthy, Starting or Unhealthy of it, and wait_ready goes on unless *)
(* it is "zero".                                                             *)
Conclude(c, r) ==
    IF op[c] \in {"exec", "probe"} \/ r = "zero" THEN Return(c) ELSE PollAgain(c)

(* exec_with_opts returns, or is dropped; e are the exec records then. *)
EndExec(c, r, e) ==
    /\ Conclude(c, r)
    /\ NoExecOf(c)
    /\ RemoveDir(dir[c])
    /\ exec' = Unlinked(e, dir[c])
    /\ UNCHANGED <<task, process, ids>>

------------------------------------------------------------------------------
(* wait_ready and probe_health *)

First(o) ==
    IF o = "exec" THEN "mkdir"
    ELSE IF o \in {"probe", "wait_image"} THEN "resolve" ELSE "poll"

(* (An exec of an empty command is refused before it does anything.) *)
Begin(c, o) ==
    /\ ~Busy(c)
    /\ begun < MaxAttempts
    /\ pc' = [pc EXCEPT ![c] = First(o)]
    /\ op' = [op EXCEPT ![c] = o]
    /\ IF o = "exec" THEN NewExec(c) ELSE UNCHANGED <<ids, mine>>
    /\ UNCHANGED <<task, exec, disk, process, polls>>

(* inspect_container and get_raw_image_config, of the image that has the     *)
(* name now.  wait_ready without a HEALTHCHECK waits for the process.        *)
Resolve(c) ==
    /\ pc[c] = "resolve"
    /\ \/ \E test \in Tests :
            \/ /\ ParseHealthcheck(test) # <<>> /\ op[c] = "probe"
               /\ Goto(c, "mkdir")
               /\ NewExec(c)
            \/ /\ ParseHealthcheck(test) # <<>> /\ op[c] = "wait_image"
               /\ Goto(c, "poll")
               /\ UNCHANGED <<ids, mine>>
            \/ /\ ParseHealthcheck(test) = <<>> /\ op[c] = "wait_image"
               /\ pc' = [pc EXCEPT ![c] = "poll"]
               /\ op' = [op EXCEPT ![c] = "wait_running"]
               /\ UNCHANGED <<polls, ids, mine>>
       \/ Return(c) /\ UNCHANGED <<ids, mine>>  \* NoHealthcheck, or an error
    /\ UNCHANGED <<task, exec, disk, process>>

(* One iteration of wait_ready, up to the check that takes time.  A failed   *)
(* tasks.get looks like a missing task.                                      *)
Poll(c) ==
    LET next(to) == /\ pc' = [pc EXCEPT ![c] = to]
                    /\ polls' = [polls EXCEPT ![c] = polls[c] + 1]
                    /\ UNCHANGED op
    IN  /\ pc[c] = "poll"
        /\ \/ Return(c) /\ UNCHANGED <<ids, mine>>
           \/ /\ task = "paused"
              /\ Return(c) \/ (polls[c] + 1 < MaxPolls /\ next("poll"))
              /\ UNCHANGED <<ids, mine>>
           \/ /\ task = "running" /\ op[c] = "wait_running"
              /\ Return(c)
              /\ UNCHANGED <<ids, mine>>
           \/ /\ task = "running" /\ op[c] = "wait_tcp"
              /\ next("connect")
              /\ UNCHANGED <<ids, mine>>
           \/ /\ task = "running" /\ op[c] \in {"wait_exec", "wait_image"}
              /\ next("mkdir")
              /\ NewExec(c)
        /\ UNCHANGED <<task, exec, disk, process>>

(* run_check of a TcpPort: connected, or refused or timed out. *)
Connect(c) ==
    /\ pc[c] = "connect"
    /\ Return(c) \/ PollAgain(c)
    /\ UNCHANGED <<task, exec, disk, process, ids, mine>>

------------------------------------------------------------------------------
(* exec_with_opts *)

(* Mutant: `let (_, ..) = create_io_dir()`, which drops the guard at once. *)
CreateIoDirUnguarded(c) ==
    /\ pc[c] = "mkdir"
    /\ counter' = counter + 1
    /\ dir' = [dir EXCEPT ![c] = <<pid, counter>>]
    /\ Goto(c, "create")
    /\ UNCHANGED <<task, exec, disk, process, begun, attempt, id, result>>

(* Mutant: the directory is named by the process alone. *)
CreateIoDirByPid(c) ==
    LET d == <<pid, 0>> IN
    /\ pc[c] = "mkdir"
    /\ counter' = counter + 1
    /\ dir' = [dir EXCEPT ![c] = d]
    /\ dirs' = dirs \cup {d}
    /\ strays' = strays \ {d}
    /\ stdout' = [stdout EXCEPT ![d] = <<>>]
    /\ Goto(c, "create")
    /\ UNCHANGED <<task, exec, process, begun, attempt, id, result>>

(* create_io_dir.  An error after the directory was made leaves it there. *)
CreateIoDir(c) ==
    LET d == <<pid, counter>> IN
    /\ pc[c] = "mkdir"
    /\ \/ /\ counter' = counter + 1
          /\ dir' = [dir EXCEPT ![c] = d]
          /\ dirs' = dirs \cup {d}
          /\ strays' = strays \ {d}
          /\ stdout' = [stdout EXCEPT ![d] = <<>>]
          /\ Goto(c, "create")
          /\ UNCHANGED <<attempt, id, result>>
       \/ /\ counter' \in {counter, counter + 1}
          /\ Conclude(c, "err")
          /\ NoExecOf(c)
          /\ UNCHANGED disk
       \/ /\ counter' = counter + 1
          /\ dirs' = dirs \cup {d}
          /\ strays' = strays \cup {d}
          /\ Conclude(c, "err")
          /\ NoExecOf(c)
          /\ UNCHANGED stdout
    /\ UNCHANGED <<task, exec, process, begun>>

(* inspect_container and tasks.exec, which refuses an id that is taken. *)
CreateExec(c) ==
    /\ pc[c] = "create"
    /\ \/ /\ task = "running" /\ exec[id[c]].state = "none"
          /\ exec' = [exec EXCEPT ![id[c]] =
                         [state |-> "created", code |-> 0, target |-> dir[c],
                          owner |-> attempt[c], wrote |-> 0]]
          /\ Goto(c, "start")
          /\ UNCHANGED <<task, disk, process, ids, mine>>
       \/ EndExec(c, "err", exec)

StartExec(c) ==
    /\ pc[c] = "start"
    /\ \/ /\ task = "running" /\ exec[id[c]].state = "created"
          /\ exec' = [exec EXCEPT ![id[c]].state = "running"]
          /\ Goto(c, "wait")
          /\ UNCHANGED <<task, disk, process, ids, mine>>
       \/ EndExec(c, "err", exec)

WaitExec(c) ==
    /\ pc[c] = "wait"
    /\ \/ /\ exec[id[c]].state = "exited"
          /\ result' = [result EXCEPT ![c].code = exec[id[c]].code]
          /\ Goto(c, "read")
          /\ UNCHANGED <<task, exec, disk, process, ids, attempt, id, dir>>
       \/ EndExec(c, "err", exec)

(* read_capped *)
Capped(s) == SubSeq(s, 1, IF Len(s) > Cap THEN Cap ELSE Len(s))

ReadOutput(c) ==
    LET s == stdout[dir[c]] IN
    /\ pc[c] = "read"
    /\ \/ /\ result' = [result EXCEPT ![c].out = Capped(s),
                                       ![c].truncated = Len(s) > Cap]
          /\ Goto(c, "delete")
          /\ UNCHANGED <<task, exec, disk, process, ids, attempt, id, dir>>
       \/ EndExec(c, "err", exec)

(* delete_process, whose failure is only logged. *)
DeleteProcess(c) ==
    /\ pc[c] = "delete"
    /\ \E e \in {exec, [exec EXCEPT ![id[c]] = NoExec]} :
          EndExec(c, IF result[c].code = 0 THEN "zero" ELSE "nonzero", e)

(* The check_timeout of a HEALTHCHECK drops the exec. *)
TimedOut(c) ==
    /\ UnderTimeout(c)
    /\ Execing(c)
    /\ EndExec(c, "err", exec)

(* The caller drops the operation, at one of its awaits. *)
Cancel(c) ==
    /\ Busy(c) /\ pc[c] # "mkdir"
    /\ Return(c)
    /\ NoExecOf(c)
    /\ IF Execing(c) THEN RemoveDir(dir[c]) /\ exec' = Unlinked(exec, dir[c])
       ELSE UNCHANGED <<disk, exec>>
    /\ UNCHANGED <<task, process, ids>>

------------------------------------------------------------------------------
(* The environment *)

(* The client's process dies, no Drop runs, and a new one starts. *)
Crash ==
    /\ crashes < MaxCrashes
    /\ crashes' = crashes + 1
    /\ pid' \in Pids
    /\ used' = used \cup {pid'}
    /\ fresh' = (fresh /\ pid' \notin used)
    /\ counter' = 0
    /\ strays' = dirs
    /\ pc' = [c \in Callers |-> "idle"]
    /\ op' = [c \in Callers |-> "none"]
    /\ polls' = [c \in Callers |-> 0]
    /\ attempt' = [c \in Callers |-> 0]
    /\ id' = [c \in Callers |-> None]
    /\ dir' = [c \in Callers |-> None]
    /\ result' = [c \in Callers |-> NoResult]
    /\ UNCHANGED <<task, exec, dirs, stdout, begun>>

calls == <<pc, op, polls, mine>>

(* What a process writes to an unlinked file is not seen. *)
ProcessWrites(n) ==
    LET d == exec[n].target IN
    /\ task = "running" /\ exec[n].state = "running"
    /\ d # None
    /\ exec[n].wrote < MaxOut
    /\ exec' = [exec EXCEPT ![n].wrote = exec[n].wrote + 1]
    /\ stdout' = [stdout EXCEPT ![d] = Append(stdout[d], exec[n].owner)]
    /\ UNCHANGED <<task, dirs, strays, process, ids, calls>>

ProcessExits(n) ==
    /\ task = "running" /\ exec[n].state = "running"
    /\ \E k \in {0, 1} : exec' = [exec EXCEPT ![n].state = "exited", ![n].code = k]
    /\ UNCHANGED <<task, disk, process, ids, calls>>

(* When the task stops its other processes are killed, and when it is        *)
(* deleted the exec records go with it.                                      *)
Killed(e) ==
    IF e.state = "running" THEN [e EXCEPT !.state = "exited", !.code = 1] ELSE e

TaskChanges ==
    /\ \/ task = "running" /\ task' = "paused" /\ UNCHANGED exec
       \/ task = "paused" /\ task' = "running" /\ UNCHANGED exec
       \/ /\ task = "running" /\ task' = "stopped"
          /\ exec' = [n \in Names |-> Killed(exec[n])]
       \/ task = "stopped" /\ task' = "none" /\ exec' = [n \in Names |-> NoExec]
       \/ task = "none" /\ task' = "running" /\ UNCHANGED exec
    /\ UNCHANGED <<disk, process, ids, calls>>

------------------------------------------------------------------------------
Step(c) ==
    \/ Resolve(c) \/ Poll(c) \/ Connect(c) \/ CreateIoDir(c) \/ CreateExec(c)
    \/ StartExec(c) \/ WaitExec(c) \/ ReadOutput(c) \/ DeleteProcess(c)

Next ==
    \/ \E c \in Callers : (\E o \in Ops[c] : Begin(c, o)) \/ Step(c) \/ TimedOut(c) \/ Cancel(c)
    \/ \E n \in Names : ProcessWrites(n) \/ ProcessExits(n)
    \/ TaskChanges
    \/ Crash

Spec == Init /\ [][Next]_vars

(* The runtime polls every future that can go on, each RPC but tasks.wait is *)
(* answered or fails, and timers fire.                                       *)
FairSpec ==
    /\ Spec
    /\ \A c \in Callers : WF_vars(pc[c] # "wait" /\ Step(c)) /\ WF_vars(TimedOut(c))

------------------------------------------------------------------------------
(* Properties *)

(* DirsOwned: an I/O directory is that of one exec in progress, or was left  *)
(* by a create_io_dir that failed half way or a process that died: whichever *)
(* way an exec ends, by its result, an error, a timeout or a drop, its       *)
(* directory goes.                                                           *)
DirsOwned ==
    /\ dirs = strays \cup {dir[c] : c \in {c \in Callers : Execing(c)}}
    /\ \A b, c \in Callers : Execing(b) /\ Execing(c) /\ dir[b] = dir[c] => b = c

(* ResultIsOwn: what exec, and with it a readiness check, is about to return *)
(* is the exit status and the output of the process it started itself, cut   *)
(* at the cap and marked so, whatever execs of earlier attempts, of other    *)
(* callers and of earlier lives of the client's process still write.  It is  *)
(* asked of lives with different process ids.                                *)
ResultIsOwn ==
    fresh => \A c \in Callers :
        pc[c] = "delete" =>
            LET e == exec[id[c]] IN
            e.state # "none" =>
                /\ e.owner = attempt[c]
                /\ e.code = result[c].code
                /\ result[c].truncated = (e.wrote > Cap)
                /\ result[c].out = [i \in 1..IF e.wrote > Cap THEN Cap ELSE e.wrote
                                      |-> attempt[c]]

(* EveryCallReturns: probe_health, and wait_ready for the process, a port or *)
(* a HEALTHCHECK, return although the check's process may hang.  (exec, and  *)
(* wait_ready with a command of the caller, have no timeout of their own.)   *)
EveryCallReturns ==
    \A c \in Callers :
        (Busy(c) /\ op[c] \notin {"exec", "wait_exec"}) ~> ~Busy(c)

------------------------------------------------------------------------------
(* Inductive invariant *)

(* An exec takes two numbers, and one about to make its directory has taken  *)
(* one of them.                                                              *)
Pending == {c \in Callers : pc[c] = "mkdir"}
IdInv == counter + Cardinality(Pending) <= 2 * begun

(* Directories in use have been named by this life of the process. *)
HoldInv ==
    \A c \in Callers :
        /\ pc[c] = "mkdir" \/ Execing(c) => id[c] \in Names /\ attempt[c] \in Attempts
        /\ Execing(c) => /\ dir[c] \in Names
                         /\ dir[c][1] = pid /\ dir[c][2] < counter

(* A wait_ready polls again only before its deadline. *)
PollInv ==
    \A c \in Callers :
        /\ pc[c] = "poll" => polls[c] < MaxPolls
        /\ pc[c] \in {"idle", "resolve"} => polls[c] = 0

OwnInv == \A n \in Names : exec[n].target # None => exec[n].owner \in Attempts

(* ExecInv: what makes TypeOK and DirsOwned inductive. *)
ExecInv == TypeOK /\ PollInv /\ IdInv /\ HoldInv /\ OwnInv /\ DirsOwned

(* Exec ids in use, and the names execs write to, have been taken by this    *)
(* life of the process or by one with another pid.                           *)
HasId(c) == pc[c] = "mkdir" \/ Execing(c)

NameInv ==
    /\ \A n \in Names : LET d == exec[n].target IN
          d # None => d[1] \in used /\ (d[1] = pid => d[2] < counter)
    /\ \A c \in Callers : HasId(c) => id[c][1] = pid /\ id[c][2] < counter
    /\ \A b, c \in Callers : HasId(b) /\ HasId(c) /\ id[b] = id[c] => b = c

(* The directory of an exec in progress is written to by its own process, as *)
(* long as containerd has the record.                                        *)
OutputInv(c) ==
    Execing(c) =>
        LET e == exec[id[c]]
            s == stdout[dir[c]]
        IN  /\ \A n \in Names : exec[n].target = dir[c] => n = id[c] /\ pc[c] # "create"
            /\ pc[c] = "create" => s = <<>>
            /\ pc[c] # "create" /\ e.state # "none" =>
                  /\ e.owner = attempt[c] /\ e.target = dir[c]
                  /\ Len(s) = e.wrote /\ \A i \in 1..e.wrote : s[i] = attempt[c]
                  /\ pc[c] = "start" => e.state = "created"
                  /\ pc[c] = "wait" => e.state \in {"running", "exited"}
                  /\ pc[c] \in {"read", "delete"} => e.state = "exited" /\ e.code = result[c].code
                  /\ pc[c] = "delete" => /\ result[c].truncated = (Len(s) > Cap)
                                         /\ result[c].out = Capped(s)

(* ResultInv: what makes ResultIsOwn inductive, beside ExecInv. *)
ResultInv == fresh => NameInv /\ \A c \in Callers : OutputInv(c)

=============================================================================
