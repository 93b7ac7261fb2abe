---------------------------- MODULE BridgeNetwork ----------------------------
(***************************************************************************)
(* The network of bridge-mode containers, composed with the user-space     *)
(* forwards: the host ports create_container picks, the OCI hooks that     *)
(* the runtime runs around a task (prestart makes the veth, poststart one  *)
(* socat per port, poststop removes them), and delete_container, after     *)
(* which nothing of the container should listen.                           *)
(*                                                                         *)
(* A port number means the same port to create_container, to socat and to  *)
(* the forwards, as on a Linux host.  Pids are not used again while a pid  *)
(* file or a process has them.                                             *)
(***************************************************************************)
EXTENDS PortForward, Sequences

CONSTANTS
    Bindings,  \* the container ports each container asks for
    Pids,      \* bound: socat processes at a time
    MaxDeletes \* bound: delete_container calls at a time

ASSUME BridgeAssumption ==
    /\ \A c \in Containers : Bindings[c] \in Seq(Nat \ {0})
    /\ Pids \subseteq Nat /\ None \notin Pids

ASSUME NoneAssumption ==
    /\ \A f \in Forwards : None # <<"forward", f>>
    /\ \A i \in Pids : None # <<"socat", i>>
    /\ None \notin [of : Containers, port : Ports, state : {"starting", "listening"}]

VARIABLES
    ports,    \* the host port picked for each binding; <<>>: no container
    run,      \* what the runtime does with the container
    at,       \* the binding the hook is at
    socat,    \* the socat processes, by pid
    pidfile,  \* /tmp/socat-<container>-<container port>.pid
    veth      \* containers that may have a veth and a network-config.json

bvars == <<ports, run, at, socat, pidfile, veth>>
vars == <<fvars, bvars>>

(* opts.port_bindings, or the default port. *)
ContainerPorts(c) == IF Bindings[c] = <<>> THEN <<27017>> ELSE Bindings[c]

AllPorts == UNION {{ContainerPorts(c)[i] : i \in DOMAIN ContainerPorts(c)} : c \in Containers}

Distinct(c) ==
    \A i, j \in DOMAIN ContainerPorts(c) : ContainerPorts(c)[i] = ContainerPorts(c)[j] => i = j

N(c) == Len(ContainerPorts(c))

Created(c) == Len(ports[c]) = N(c)

Process == [of : Containers, port : Ports, state : {"starting", "listening"}]

TypeOK ==
    /\ ForwardTypes
    /\ bound \in [Ports -> ({"forward"} \X Forwards) \cup ({"socat"} \X Pids) \cup {None}]
    /\ ports \in [Containers -> Seq(Ports)]
    /\ \A c \in Containers : Len(ports[c]) <= N(c)
    /\ run \in [Containers -> {"none", "poststart", "check", "running", "failed", "poststop"}]
    /\ at \in [Containers -> Nat] /\ \A c \in Containers : at[c] \in 1..N(c) + 1
    /\ socat \in [Pids -> Process \cup {None}]
    /\ pidfile \in [Containers -> [AllPorts -> Pids \cup {None}]]
    /\ veth \subseteq Containers

Init ==
    /\ ForwardInit
    /\ ports = [c \in Containers |-> <<>>]
    /\ run = [c \in Containers |-> "none"]
    /\ at = [c \in Containers |-> 1]
    /\ socat = [i \in Pids |-> None]
    /\ pidfile = [c \in Containers |-> [k \in AllPorts |-> None]]
    /\ veth = {}

------------------------------------------------------------------------------
(* create_container: a port for each binding *)

(* Mutant: the port asked for is returned, not the one that was bound. *)
PickPortAsAsked(c) ==
    /\ setting.tasks
    /\ del[c] = "idle" /\ ~Created(c)
    /\ \E p \in Ports : bound[p] = None
    /\ ports' = [ports EXCEPT ![c] = Append(@, 0)]
    /\ UNCHANGED <<fvars, run, at, socat, pidfile, veth>>

(* pick_free_port: the port is bound and closed again. *)
PickPort(c) ==
    /\ setting.tasks
    /\ del[c] = "idle" /\ ~Created(c)
    /\ \E p \in Ports :
          bound[p] = None /\ ports' = [ports EXCEPT ![c] = Append(@, p)]
    /\ UNCHANGED <<fvars, run, at, socat, pidfile, veth>>

(* No port is free: the creation fails. *)
PickFails(c) ==
    /\ ports[c] # <<>> /\ ~Created(c)
    /\ \A p \in Ports : bound[p] # None
    /\ ports' = [ports EXCEPT ![c] = <<>>]
    /\ UNCHANGED <<fvars, run, at, socat, pidfile, veth>>

------------------------------------------------------------------------------
(* The hooks *)

ContainerPort(c) == ContainerPorts(c)[at[c]]

HostPort(c) == ports[c][at[c]]

(* The runtime starts the container: prestart.  Nobody sees its commands     *)
(* fail: from here on the veth may be there.                                 *)
Prestart(c) ==
    /\ run[c] = "none" /\ Created(c)
    /\ run' = [run EXCEPT ![c] = "poststart"]
    /\ at' = [at EXCEPT ![c] = 1]
    /\ veth' = veth \cup {c}
    /\ UNCHANGED <<fvars, ports, socat, pidfile>>

FreePid(i) ==
    socat[i] = None /\ \A c \in Containers, k \in AllPorts : pidfile[c][k] # i

(* poststart: a socat for the port, and its pid file. *)
LaunchSocat(c) ==
    /\ run[c] = "poststart" /\ at[c] <= N(c)
    /\ \E i \in Pids :
          /\ FreePid(i) /\ \A j \in Pids : FreePid(j) => i <= j
          /\ socat' = [socat EXCEPT ![i] = [of |-> c, port |-> HostPort(c), state |-> "starting"]]
          /\ pidfile' = [pidfile EXCEPT ![c][ContainerPort(c)] = i]
    /\ run' = [run EXCEPT ![c] = "check"]
    /\ UNCHANGED <<fvars, ports, at, veth>>

(* socat listens, or ends because it cannot. *)
SocatBinds(i) ==
    /\ socat[i] # None /\ socat[i].state = "starting"
    /\ \/ /\ bound[socat[i].port] = None
          /\ bound' = [bound EXCEPT ![socat[i].port] = <<"socat", i>>]
          /\ socat' = [socat EXCEPT ![i].state = "listening"]
       \/ /\ bound[socat[i].port] # None
          /\ socat' = [socat EXCEPT ![i] = None]
          /\ UNCHANGED bound
    /\ UNCHANGED <<setting, waiting, forward, del, old, ports, run, at, pidfile, veth>>

(* Mutant: the hook does not look whether socat is alive. *)
CheckSocatNot(c) ==
    /\ run[c] = "check"
    /\ at' = [at EXCEPT ![c] = @ + 1]
    /\ run' = [run EXCEPT ![c] = "poststart"]
    /\ UNCHANGED <<fvars, ports, socat, pidfile, veth>>

(* After the sleep: a socat that has ended ends the hook. *)
CheckSocat(c) ==
    LET i == pidfile[c][ContainerPort(c)] IN
    /\ run[c] = "check"
    /\ socat[i] # None => setting.slow \/ socat[i].state = "listening"
    /\ \/ /\ socat[i] = None
          /\ pidfile' = [pidfile EXCEPT ![c][ContainerPort(c)] = None]
          /\ run' = [run EXCEPT ![c] = "failed"]
          /\ UNCHANGED at
       \/ /\ socat[i] # None
          /\ at' = [at EXCEPT ![c] = @ + 1]
          /\ run' = [run EXCEPT ![c] = "poststart"]
          /\ UNCHANGED pidfile
    /\ UNCHANGED <<fvars, ports, socat, veth>>

PoststartEnds(c) ==
    /\ run[c] = "poststart" /\ at[c] = N(c) + 1
    /\ run' = [run EXCEPT ![c] = "running"]
    /\ UNCHANGED <<fvars, ports, at, socat, pidfile, veth>>

(* The task is deleted: the runtime runs poststop.  A failed poststart has   *)
(* the task ended, or the runtime only warns.                                *)
Poststop(c) ==
    /\ run[c] \in {"running", "failed"}
    /\ run' = [run EXCEPT ![c] = "poststop"]
    /\ at' = [at EXCEPT ![c] = 1]
    /\ UNCHANGED <<fvars, ports, socat, pidfile, veth>>

(* Mutant: the socat of the host port is killed. *)
KillSocatByPort(c) ==
    /\ run[c] = "poststop" /\ at[c] <= N(c)
    /\ LET ours == {i \in Pids : socat[i] # None /\ socat[i].port = HostPort(c)} IN
        /\ socat' = [i \in Pids |-> IF i \in ours THEN None ELSE socat[i]]
        /\ bound' = [p \in Ports |->
                        IF \E i \in ours : bound[p] = <<"socat", i>> THEN None ELSE bound[p]]
    /\ pidfile' = [pidfile EXCEPT ![c][ContainerPort(c)] = None]
    /\ at' = [at EXCEPT ![c] = @ + 1]
    /\ UNCHANGED <<setting, waiting, forward, del, old, ports, run, veth>>

(* poststop: the process the pid file names, if any, is killed. *)
KillSocat(c) ==
    LET i == pidfile[c][ContainerPort(c)] IN
    /\ run[c] = "poststop" /\ at[c] <= N(c)
    /\ socat' = [k \in Pids |-> IF k = i THEN None ELSE socat[k]]
    /\ bound' = [p \in Ports |-> IF bound[p] = <<"socat", i>> THEN None ELSE bound[p]]
    /\ pidfile' = [pidfile EXCEPT ![c][ContainerPort(c)] = None]
    /\ at' = [at EXCEPT ![c] = @ + 1]
    /\ UNCHANGED <<setting, waiting, forward, del, old, ports, run, veth>>

(* ... and the veth and network-config.json are removed. *)
PoststopEnds(c) ==
    /\ run[c] = "poststop" /\ at[c] = N(c) + 1
    /\ run' = [run EXCEPT ![c] = "none"]
    /\ at' = [at EXCEPT ![c] = 1]
    /\ veth' = veth \ {c}
    /\ UNCHANGED <<fvars, ports, socat, pidfile>>

------------------------------------------------------------------------------
(* delete_container *)

Delete(c) ==
    /\ del[c] = "idle" /\ Cardinality({b \in Containers : del[b] # "idle"}) < MaxDeletes
    /\ del' = [del EXCEPT ![c] = "task"]
    /\ old' = [old EXCEPT ![c] = {}]
    /\ UNCHANGED <<setting, bound, waiting, forward, bvars>>

(* task::delete_container ends with the task and the record deleted, or with *)
(* an error; either way the forwards are next.                               *)
TaskDeleted(c) ==
    /\ del[c] = "task"
    /\ \/ run[c] = "none" /\ ports' = [ports EXCEPT ![c] = <<>>]
       \/ UNCHANGED ports
    /\ del' = [del EXCEPT ![c] = "handles"]
    /\ UNCHANGED <<setting, bound, waiting, forward, old, run, at, socat, pidfile, veth>>

------------------------------------------------------------------------------
Hook(c) ==
    \/ LaunchSocat(c) \/ CheckSocat(c) \/ PoststartEnds(c) \/ KillSocat(c) \/ PoststopEnds(c)

Next ==
    \/ ForwardNext /\ UNCHANGED bvars
    \/ \E c \in Containers :
          \/ PickPort(c) \/ PickFails(c)
          \/ Prestart(c) \/ Poststop(c) \/ Hook(c)
          \/ Delete(c) \/ TaskDeleted(c)
    \/ \E i \in Pids : SocatBinds(i)

Spec == Init /\ [][Next]_vars

FairSpec ==
    /\ Spec
    /\ \A f \in Forwards :
          /\ WF_vars(Loop(f) /\ UNCHANGED bvars)
          /\ WF_vars((ConnAborted(f) \/ StopReturns(f)) /\ UNCHANGED bvars)

------------------------------------------------------------------------------
(* Properties *)

(* DeleteReleasesPorts: once delete_container has returned, no forward that  *)
(* managed_handles held for the container listens (stop awaits the listener  *)
(* task); and a container whose task is gone has no socat and no veth,       *)
(* whichever of its ports poststart failed on.  A container that binds one   *)
(* container port twice is excepted: its socats share a pid file.            *)
DeleteReleasesPorts ==
    \A c \in Containers :
        /\ del[c] = "idle" => \A f \in old[c] : task[f] = "done"
        /\ run[c] = "none" /\ Distinct(c) =>
              c \notin veth /\ \A i \in Pids : socat[i] # None => socat[i].of # c

(* RunningIsReachable: a container whose poststart hook has succeeded has    *)
(* each of its host ports served by a socat of its own, although the ports   *)
(* were closed after they were picked, unless a socat takes longer to fail   *)
(* than the hook waits.                                                      *)
RunningIsReachable ==
    ~setting.slow => \A c \in Containers : run[c] = "running" =>
        \A k \in 1..N(c) : \E i \in Pids :
            bound[ports[c][k]] = <<"socat", i>> /\ socat[i] # None /\ socat[i].of = c

(* KillsOwn: a socat that listens ends only when its own container stops,    *)
(* also if another container was given the same host port: poststop kills by *)
(* pid, not by port.                                                         *)
KillsOwn ==
    [][\A i \in Pids :
          socat[i] # None /\ socat[i].state = "listening" /\ socat'[i] = None =>
              run[socat[i].of] = "poststop"]_vars

(* ForwardEnds: a forward that was told to stop, by stop or by Drop, ends    *)
(* with all its connections, and whoever awaits it goes on, however fast     *)
(* clients connect and however long an upstream takes.                       *)
ForwardEnds ==
    \A f \in Forwards :
        signal[f] ~> /\ task[f] \in {"none", "done"} /\ holder[f] # "stopping"
                     /\ \A k \in Conns : conns[f][k] = "free"

------------------------------------------------------------------------------
(* Inductive invariant *)

(* A forward that runs listens on its port, and an unused slot is idle. *)
ForwardInv ==
    \A f \in Forwards :
        /\ task[f] \in {"select", "polled"} =>
              port[f] \in Ports /\ bound[port[f]] = <<"forward", f>>
        /\ holder[f] = "none" => task[f] = "none"

(* What a delete has taken is its container's, and is let go of only when    *)
(* it has ended.                                                             *)
OldInv ==
    \A c \in Containers :
        /\ del[c] \in {"task", "handles"} => old[c] = {}
        /\ \A f \in old[c] :
              /\ owner[f] = c /\ holder[f] \in {"taken", "stopping", "gone"}
              /\ holder[f] = "gone" => task[f] = "done"
              /\ del[c] = "idle" => holder[f] = "gone"

(* The pid file of a container's binding. *)
PidAt(c, j) == pidfile[c][ContainerPorts(c)[j]]

(* The table knows the socats that listen, a pid file names a socat of its   *)
(* own container, and each socat has one if container ports are not doubled. *)
SocatInv ==
    /\ \A p \in Ports, i \in Pids :
          bound[p] = <<"socat", i>> <=>
              socat[i] # None /\ socat[i].state = "listening" /\ socat[i].port = p
    /\ \A c \in Containers : \A j \in 1..N(c), i \in Pids :
          PidAt(c, j) = i /\ socat[i] # None => socat[i].of = c
    /\ \A i \in Pids : socat[i] # None /\ Distinct(socat[i].of) =>
          \E j \in 1..N(socat[i].of) : PidAt(socat[i].of, j) = i

Served(c, p) ==
    \E i \in Pids : bound[p] = <<"socat", i>> /\ socat[i] # None /\ socat[i].of = c

(* What the hooks of a container have done so far. *)
HookInv(c) ==
    /\ run[c] # "none" => Created(c)
    /\ c \in veth => run[c] # "none"
    /\ run[c] = "none" => \A j \in 1..N(c) : PidAt(c, j) = None
    /\ run[c] = "poststart" /\ Distinct(c) =>
          \A j \in 1..N(c) : j >= at[c] => PidAt(c, j) = None
    /\ run[c] = "check" =>
          /\ at[c] <= N(c) /\ PidAt(c, at[c]) \in Pids
          /\ socat[PidAt(c, at[c])] # None => socat[PidAt(c, at[c])].port = HostPort(c)
          /\ Distinct(c) => \A j \in 1..N(c) : j > at[c] => PidAt(c, j) = None
    /\ run[c] = "poststop" => \A j \in 1..N(c) : j < at[c] => PidAt(c, j) = None
    /\ run[c] = "running" => at[c] = N(c) + 1
    /\ ~setting.slow /\ run[c] \in {"poststart", "check", "running"} =>
          \A j \in 1..N(c) : j < at[c] => Served(c, ports[c][j])

(* NetInv: what makes DeleteReleasesPorts and RunningIsReachable inductive. *)
NetInv ==
    TypeOK /\ ForwardInv /\ OldInv /\ SocatInv /\ \A c \in Containers : HookInv(c)

=============================================================================
