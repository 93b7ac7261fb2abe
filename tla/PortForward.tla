----------------------------- MODULE PortForward -----------------------------
(***************************************************************************)
(* User-space forwards of host ports: the accept loop of each forward, the *)
(* connections it spawns, its handle (stop, Drop), and the handles a       *)
(* Client manages, which delete_container stops.                           *)
(*                                                                         *)
(* A forward is a slot of Forwards, used again once nothing is left of it. *)
(* Whatever else listens on a host port shares the table `bound'.          *)
(***************************************************************************)
EXTENDS Option, Naturals, FiniteSets

CONSTANTS
    Containers,
    Ports,     \* the host ports; 0 is not one of them
    Forwards,  \* bound: forwards that exist at a time
    Conns,     \* bound: connection tasks of a forward at a time
    Settings   \* bound: what happens in one behaviour

(* The forwards that are made, for their user or managed; whether clients    *)
(* connect to them, whether containers are started, and whether a socat may  *)
(* take longer to start than the hook that starts it waits.                  *)
Setting == [slots : SUBSET Forwards, handles : SUBSET {"user", "pushing"},
            clients : BOOLEAN, tasks : BOOLEAN, slow : BOOLEAN]

ASSUME PortsAssumption ==
    /\ 0 \notin Ports /\ None \notin Ports /\ None \notin Containers
    /\ Settings \subseteq Setting

VARIABLES
    setting,  \* one of Settings, throughout
    bound,    \* who listens on a host port
    waiting,  \* host ports with a client in the backlog
    owner, port,  \* the forward's container and host port
    task,     \* where its accept loop is
    signal,   \* its shutdown_tx was sent
    abort,    \* its JoinHandle was aborted
    holder,   \* who has its handle
    conns,    \* its JoinSet
    del,      \* delete_container, for each container
    old       \* what managed_handles had for it when delete_container took it

forward == <<owner, port, task, signal, abort, holder, conns>>
fvars == <<setting, bound, waiting, forward, del, old>>

Holders == {"none", "user", "pushing", "managed", "taken", "stopping", "gone"}

ForwardTypes ==
    /\ setting \in Settings
    /\ waiting \subseteq Ports
    /\ owner \in [Forwards -> Containers \cup {None}]
    /\ port \in [Forwards -> Ports \cup {None}]
    /\ task \in [Forwards -> {"none", "select", "polled", "done"}]
    /\ signal \in [Forwards -> BOOLEAN] /\ abort \in [Forwards -> BOOLEAN]
    /\ holder \in [Forwards -> Holders]
    /\ conns \in [Forwards -> [Conns -> {"free", "connecting", "proxying", "finished",
                                         "aborted"}]]
    /\ del \in [Containers -> {"idle", "task", "handles", "stops"}]
    /\ old \in [Containers -> SUBSET Forwards]

ForwardInit ==
    /\ setting \in Settings
    /\ bound = [p \in Ports |-> None]
    /\ waiting = {}
    /\ owner = [f \in Forwards |-> None]
    /\ port = [f \in Forwards |-> None]
    /\ task = [f \in Forwards |-> "none"]
    /\ signal = [f \in Forwards |-> FALSE]
    /\ abort = [f \in Forwards |-> FALSE]
    /\ holder = [f \in Forwards |-> "none"]
    /\ conns = [f \in Forwards |-> [k \in Conns |-> "free"]]
    /\ del = [c \in Containers |-> "idle"]
    /\ old = [c \in Containers |-> {}]

------------------------------------------------------------------------------
(* start_port_forward: binds, then spawns the accept loop.  A port that is   *)
(* taken is an error and changes nothing.                                    *)
StartPortForward(f, c, p, h) ==
    /\ f \in setting.slots /\ holder[f] = "none"
    /\ bound[p] = None
    /\ bound' = [bound EXCEPT ![p] = <<"forward", f>>]
    /\ owner' = [owner EXCEPT ![f] = c]
    /\ port' = [port EXCEPT ![f] = p]
    /\ task' = [task EXCEPT ![f] = "select"]
    /\ holder' = [holder EXCEPT ![f] = h]
    /\ UNCHANGED <<setting, waiting, signal, abort, conns, del, old>>

(* start_managed_port_forward, once it has the lock of managed_handles. *)
PushHandle(f) ==
    /\ holder[f] = "pushing"
    /\ holder' = [holder EXCEPT ![f] = "managed"]
    /\ UNCHANGED <<setting, bound, waiting, owner, port, task, signal, abort, conns, del, old>>

------------------------------------------------------------------------------
(* The accept loop *)

Kill(cs) == [k \in Conns |-> IF cs[k] \in {"free", "finished"} THEN "free" ELSE "aborted"]

(* The task ends: its listener is closed, its JoinSet aborts what it has. *)
TaskEnds(f) ==
    /\ task' = [task EXCEPT ![f] = "done"]
    /\ bound' = [bound EXCEPT ![port[f]] = None]
    /\ waiting' = waiting \ {port[f]}
    /\ conns' = [conns EXCEPT ![f] = Kill(@)]
    /\ UNCHANGED <<setting, owner, port, signal, abort, holder, del, old>>

GoesTo(f, l) ==
    /\ task' = [task EXCEPT ![f] = l]
    /\ UNCHANGED <<setting, bound, owner, port, signal, abort, holder, del, old>>

(* Mutant: select! picks its branch at random. *)
PollUnbiased(f) ==
    /\ task[f] = "select"
    /\ \/ signal[f] /\ TaskEnds(f)
       \/ GoesTo(f, "polled") /\ UNCHANGED <<waiting, conns>>

(* select! polls shutdown_rx first. *)
Poll(f) ==
    /\ task[f] = "select"
    /\ \/ signal[f] /\ TaskEnds(f)
       \/ ~signal[f] /\ GoesTo(f, "polled") /\ UNCHANGED <<waiting, conns>>

(* ... then accept, which fails or gives a stream and a task for it ... *)
Accept(f) ==
    /\ task[f] = "polled" /\ port[f] \in waiting
    /\ \/ UNCHANGED conns
       \/ \E k \in Conns :
             /\ conns[f][k] = "free"
             /\ conns' = [conns EXCEPT ![f][k] = "connecting"]
    /\ waiting' = waiting \ {port[f]}
    /\ GoesTo(f, "select")

(* ... then join_next. *)
Reap(f) ==
    /\ task[f] = "polled" /\ port[f] \notin waiting
    /\ \E k \in Conns :
          /\ conns[f][k] = "finished"
          /\ conns' = [conns EXCEPT ![f][k] = "free"]
    /\ GoesTo(f, "select") /\ UNCHANGED waiting

(* Nothing was ready, and shutdown_rx wakes the task. *)
Wake(f) ==
    /\ task[f] = "polled" /\ signal[f]
    /\ port[f] \notin waiting /\ \A k \in Conns : conns[f][k] # "finished"
    /\ GoesTo(f, "select") /\ UNCHANGED <<waiting, conns>>

(* An aborted task is dropped where it waits. *)
Aborted(f) == abort[f] /\ task[f] \in {"select", "polled"} /\ TaskEnds(f)

(* A client connects to the listener of a forward. *)
ClientConnects(f) ==
    /\ setting.clients
    /\ task[f] \in {"select", "polled"} /\ port[f] \notin waiting
    /\ waiting' = waiting \cup {port[f]}
    /\ UNCHANGED <<setting, bound, forward, del, old>>

ConnGoes(f, from, to) ==
    /\ \E k \in Conns : conns[f][k] = from /\ conns' = [conns EXCEPT ![f][k] = to]
    /\ UNCHANGED <<setting, bound, waiting, owner, port, task, signal, abort, holder, del, old>>

(* A connection's task: TcpStream::connect, then proxy. *)
Connects(f) == ConnGoes(f, "connecting", "proxying")

ConnectFails(f) == ConnGoes(f, "connecting", "finished")

ProxyEnds(f) == ConnGoes(f, "proxying", "finished")

ConnAborted(f) == ConnGoes(f, "aborted", "free")

------------------------------------------------------------------------------
(* The handle *)

Hold(f, h) == holder' = [holder EXCEPT ![f] = h]

(* stop sends the signal and awaits the task. *)
Stop(f) ==
    /\ Hold(f, "stopping")
    /\ signal' = [signal EXCEPT ![f] = TRUE]
    /\ UNCHANGED <<setting, bound, waiting, owner, port, task, abort, conns, del, old>>

UserStops(f) == holder[f] = "user" /\ Stop(f)

StopReturns(f) ==
    /\ holder[f] = "stopping" /\ task[f] = "done"
    /\ Hold(f, "gone")
    /\ UNCHANGED <<setting, bound, waiting, owner, port, task, signal, abort, conns, del, old>>

(* Drop, of the handles gs: signal and abort, without waiting.  One whose    *)
(* stop was under way has been signalled, and nothing is left to abort.      *)
DropHandles(gs) ==
    /\ holder' = [f \in Forwards |-> IF f \in gs THEN "gone" ELSE holder[f]]
    /\ signal' = [f \in Forwards |-> signal[f] \/ f \in gs]
    /\ abort' = [f \in Forwards |-> abort[f] \/ (f \in gs /\ holder[f] # "stopping")]
    /\ UNCHANGED <<setting, bound, waiting, owner, port, task, conns>>

UserDrops(f) ==
    /\ holder[f] \in {"user", "stopping"}
    /\ f \notin old[owner[f]]
    /\ DropHandles({f}) /\ UNCHANGED <<del, old>>

(* Nothing is left of the forward: the slot is free. *)
Forget(f) ==
    /\ holder[f] = "gone" /\ task[f] = "done"
    /\ \A k \in Conns : conns[f][k] = "free"
    /\ Hold(f, "none")
    /\ task' = [task EXCEPT ![f] = "none"]
    /\ owner' = [owner EXCEPT ![f] = None]
    /\ port' = [port EXCEPT ![f] = None]
    /\ signal' = [signal EXCEPT ![f] = FALSE]
    /\ abort' = [abort EXCEPT ![f] = FALSE]
    /\ old' = [c \in Containers |-> old[c] \ {f}]
    /\ UNCHANGED <<setting, bound, waiting, conns, del>>

------------------------------------------------------------------------------
(* stop_managed_forwards, at the end of delete_container *)

Managed(c) == {f \in Forwards : holder[f] = "managed" /\ owner[f] = c}

Taken(c) == {f \in Forwards : holder[f] \in {"taken", "stopping"} /\ f \in old[c]}

(* Mutant: the handles are dropped instead of stopped. *)
TakeAndDropHandles(c) ==
    /\ del[c] = "handles"
    /\ old' = [old EXCEPT ![c] = Managed(c)]
    /\ holder' = [f \in Forwards |-> IF f \in Managed(c) THEN "gone" ELSE holder[f]]
    /\ signal' = [f \in Forwards |-> signal[f] \/ f \in Managed(c)]
    /\ abort' = [f \in Forwards |-> abort[f] \/ f \in Managed(c)]
    /\ del' = [del EXCEPT ![c] = "stops"]
    /\ UNCHANGED <<setting, bound, waiting, owner, port, task, conns>>

(* Under the lock, the container's handles are taken out of the list. *)
TakeHandles(c) ==
    /\ del[c] = "handles"
    /\ old' = [old EXCEPT ![c] = Managed(c)]
    /\ holder' = [f \in Forwards |-> IF f \in Managed(c) THEN "taken" ELSE holder[f]]
    /\ del' = [del EXCEPT ![c] = "stops"]
    /\ UNCHANGED <<setting, bound, waiting, owner, port, task, signal, abort, conns>>

(* They are stopped one after the other. *)
StopNext(c) ==
    /\ del[c] = "stops"
    /\ \A f \in Taken(c) : holder[f] = "taken"
    /\ \E f \in Taken(c) : Stop(f)

DeleteReturns(c) ==
    /\ del[c] = "stops" /\ Taken(c) = {}
    /\ del' = [del EXCEPT ![c] = "idle"]
    /\ UNCHANGED <<setting, bound, waiting, forward, old>>

(* The call is dropped, and its handles with it. *)
DeleteDropped(c) ==
    /\ del[c] # "idle"
    /\ DropHandles(Taken(c))
    /\ del' = [del EXCEPT ![c] = "idle"]
    /\ old' = [old EXCEPT ![c] = {}]

------------------------------------------------------------------------------
Loop(f) == Poll(f) \/ Accept(f) \/ Reap(f) \/ Wake(f) \/ Aborted(f)

ForwardNext ==
    \/ \E f \in Forwards :
          \/ \E c \in Containers, p \in Ports, h \in setting.handles :
                StartPortForward(f, c, p, h)
          \/ PushHandle(f)
          \/ Loop(f) \/ ClientConnects(f)
          \/ Connects(f) \/ ConnectFails(f) \/ ProxyEnds(f) \/ ConnAborted(f)
          \/ UserStops(f) \/ StopReturns(f) \/ UserDrops(f) \/ Forget(f)
    \/ \E c \in Containers :
          TakeHandles(c) \/ StopNext(c) \/ DeleteReturns(c) \/ DeleteDropped(c)

=============================================================================
