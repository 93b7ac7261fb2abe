--------------------------- MODULE ContainerCreate ---------------------------
(***************************************************************************)
(* create_container_with_id and the bridge-IP allocator it runs under.     *)
(*                                                                         *)
(* Each element of Calls is one call of create_container (fresh calls) or  *)
(* of restore_container / clone_inner (AdoptedCalls, which prepare the     *)
(* snapshot themselves and hand it over in `from_existing_snapshot`).  A   *)
(* call mints a UUID for the container, so a call also names the container *)
(* id, its record and its active snapshot `snapshot_key_for(id)`.          *)
(*                                                                         *)
(* Every await of the code is a step: each RPC to containerd is one        *)
(* action, which may answer, fail without effect, or take effect with its  *)
(* answer lost, which the code sees as an error.  Dropping the future of a *)
(* call (a cancelled task, or the death of its process) is Cancel.         *)
(***************************************************************************)
EXTENDS Option, Naturals, FiniteSets

CONSTANTS
    Calls,          \* create / restore / clone calls, and their container ids
    AdoptedCalls,   \* the calls of restore_container and clone_inner
    Names,          \* human container names
    ValidNames,     \* those validate_identifier accepts
    Octets,         \* the last octets pick_free_octet draws from
    Processes,      \* operating-system processes using the library
    Namespaces,     \* containerd namespaces
    ProcessOf,      \* the process of a call: ALLOC_LOCK is one per process
    NamespaceOf     \* the namespace of a call's client

ASSUME CallsAssumption ==
    /\ AdoptedCalls \subseteq Calls
    /\ ProcessOf \in [Calls -> Processes]
    /\ NamespaceOf \in [Calls -> Namespaces]

ASSUME NamesAssumption == ValidNames \subseteq Names

ASSUME NoCallAssumption == None \notin Calls /\ None \notin Octets

ASSUME RecordAssumption == None \notin [name : Names, ip : Octets \cup {None}]

VARIABLES
    pc,        \* where each call is
    name,      \* the name each call was given
    bridge,    \* whether each call asked for NetworkMode::Bridge
    ip,        \* the octet each call has picked
    lock,      \* ALLOC_LOCK of each process: the call holding the guard
    record,    \* containerd: the container record of each id, or None
    active,    \* containerd: the ids whose active snapshot exists
    removing,  \* ids whose record remove_container has deleted
    leaks      \* history: ids a best-effort removal failed for, or whose
               \* prepare or create took effect and was reported as an error

createVars == <<pc, name, bridge, ip, lock, record, active, removing, leaks>>

Finished == {"ok", "err", "cancelled"}

Label ==
    {"idle", "adopt", "dup_check", "get_image", "prepare", "alloc_lock",
     "scan", "build", "create", "rollback", "adopt_rollback"} \cup Finished

Record == [name : Names, ip : Octets \cup {None}]

CreateTypeOK ==
    /\ pc \in [Calls -> Label]
    /\ name \in [Calls -> Names \cup {None}]
    /\ \A c \in Calls : pc[c] # "idle" => name[c] \in Names
    /\ bridge \in [Calls -> BOOLEAN]
    /\ ip \in [Calls -> Octets \cup {None}]
    /\ lock \in [Processes -> Calls \cup {None}]
    /\ record \in [Calls -> Record \cup {None}]
    /\ active \subseteq Calls
    /\ removing \subseteq Calls
    /\ leaks \subseteq Calls

CreateInit ==
    /\ pc = [c \in Calls |-> "idle"]
    /\ name = [c \in Calls |-> None]
    /\ bridge = [c \in Calls |-> FALSE]
    /\ ip = [c \in Calls |-> None]
    /\ lock = [p \in Processes |-> None]
    /\ record = [c \in Calls |-> None]
    /\ active = {}
    /\ removing = {}
    /\ leaks = {}

------------------------------------------------------------------------------
(* Helpers *)

SameNamespace(c, d) == NamespaceOf[c] = NamespaceOf[d]

(* The calls ALLOC_LOCK serialises and whose scans see each other's labels. *)
Rivals(c) ==
    {d \in Calls \ {c} : ProcessOf[d] = ProcessOf[c] /\ SameNamespace(c, d)}

Goto(c, from, to) ==
    /\ pc[c] = from
    /\ pc' = [pc EXCEPT ![c] = to]

(* Mutant: the guard is leaked, not dropped. *)
DropGuardLeaks(c) == lock' = lock

(* The BridgeAllocGuard, if the call holds one, is dropped. *)
DropGuard(c) ==
    lock' = [lock EXCEPT ![ProcessOf[c]] = IF @ = c THEN None ELSE @]

(* A snapshots.remove whose result the code ignores. *)
TryRemove(c) ==
    \/ active' = active \ {c} /\ UNCHANGED leaks
    \/ leaks' = leaks \cup {c} /\ UNCHANGED active

(* Mutant: clone and restore return the error without removing the snapshot. *)
ReturnErrKeepsSnapshot(c, from) == Goto(c, from, "err") /\ DropGuard(c)

(* create_container_with_id returns Err once the snapshot exists: only the  *)
(* clone and restore callers then remove it.                                *)
ReturnErr(c, from) ==
    /\ Goto(c, from, IF c \in AdoptedCalls THEN "adopt_rollback" ELSE "err")
    /\ DropGuard(c)

------------------------------------------------------------------------------
(* Before the snapshot exists *)

(* create_container validates the name first; restore and clone prepare the *)
(* snapshot first and leave the validation to create_container_with_id.     *)
Begin(c) ==
    /\ \E n \in Names, b \in BOOLEAN :
          /\ name' = [name EXCEPT ![c] = n]
          /\ bridge' = [bridge EXCEPT ![c] = b]
          /\ Goto(c, "idle", IF c \in AdoptedCalls THEN "adopt"
                             ELSE IF n \in ValidNames THEN "dup_check"
                             ELSE "err")
    /\ UNCHANGED <<ip, lock, record, active, removing, leaks>>

(* restore_container / prepare_clone_snapshot: prepare the key of the new   *)
(* id; the key is fresh, so AlreadyExists cannot happen.  An error returns  *)
(* at once.                                                                 *)
AdoptPrepare(c) ==
    /\ \/ /\ Goto(c, "adopt", IF name[c] \in ValidNames THEN "dup_check"
                              ELSE "adopt_rollback")
          /\ active' = active \cup {c}
          /\ UNCHANGED leaks
       \/ /\ Goto(c, "adopt", "err")
          /\ UNCHANGED <<active, leaks>>
       \/ /\ Goto(c, "adopt", "err")
          /\ active' = active \cup {c}
          /\ leaks' = leaks \cup {c}
    /\ UNCHANGED <<name, bridge, ip, lock, record, removing>>

NameTaken(c) ==
    \E d \in Calls : /\ SameNamespace(c, d)
                     /\ record[d] # None
                     /\ record[d].name = name[c]

(* The list RPC of the duplicate-name check, made under no lock. *)
DupCheck(c) ==
    /\ \/ ~NameTaken(c) /\ Goto(c, "dup_check", "get_image") /\ UNCHANGED lock
       \/ ReturnErr(c, "dup_check")
    /\ UNCHANGED <<name, bridge, ip, record, active, removing, leaks>>

AfterPrepare(c) == IF bridge[c] THEN "alloc_lock" ELSE "build"

(* images.get and the image metadata: present, or an error of any kind. *)
GetImage(c) ==
    /\ \/ /\ Goto(c, "get_image", IF c \in AdoptedCalls THEN AfterPrepare(c)
                                  ELSE "prepare")
          /\ UNCHANGED lock
       \/ ReturnErr(c, "get_image")
    /\ UNCHANGED <<name, bridge, ip, record, active, removing, leaks>>

Prepare(c) ==
    /\ \/ /\ Goto(c, "prepare", AfterPrepare(c))
          /\ active' = active \cup {c}
          /\ UNCHANGED leaks
       \/ Goto(c, "prepare", "err") /\ UNCHANGED <<active, leaks>>
       \/ /\ Goto(c, "prepare", "err")
          /\ active' = active \cup {c}
          /\ leaks' = leaks \cup {c}
    /\ UNCHANGED <<name, bridge, ip, lock, record, removing>>

------------------------------------------------------------------------------
(* Bridge address allocation and the container record *)

(* Mutant: the lock is not waited for. *)
AcquireLockAtOnce(c) ==
    /\ Goto(c, "alloc_lock", "scan")
    /\ lock' = [lock EXCEPT ![ProcessOf[c]] = c]
    /\ UNCHANGED <<name, bridge, ip, record, active, removing, leaks>>

(* ALLOC_LOCK.lock_owned().await *)
AcquireLock(c) ==
    /\ lock[ProcessOf[c]] = None
    /\ Goto(c, "alloc_lock", "scan")
    /\ lock' = [lock EXCEPT ![ProcessOf[c]] = c]
    /\ UNCHANGED <<name, bridge, ip, record, active, removing, leaks>>

(* The octets in the BRIDGE_IP_LABEL of every record of the namespace. *)
UsedOctets(c) ==
    {record[d].ip : d \in {e \in Calls : SameNamespace(c, e) /\ record[e] # None}}

(* Mutant: alloc_bridge_ip drops its guard when it returns. *)
ScanAndPickDropsGuard(c) ==
    /\ \/ /\ \E o \in Octets \ UsedOctets(c) : ip' = [ip EXCEPT ![c] = o]
          /\ Goto(c, "scan", "build")
          /\ DropGuard(c)
       \/ ReturnErr(c, "scan") /\ UNCHANGED ip
    /\ UNCHANGED <<name, bridge, record, active, removing, leaks>>

(* The list RPC of used_octets, then pick_free_octet on its answer: a free  *)
(* octet, ResourceExhausted when there is none, or the RPC's error.         *)
ScanAndPick(c) ==
    /\ \/ /\ \E o \in Octets \ UsedOctets(c) : ip' = [ip EXCEPT ![c] = o]
          /\ Goto(c, "scan", "build")
          /\ UNCHANGED lock
       \/ ReturnErr(c, "scan") /\ UNCHANGED ip
    /\ UNCHANGED <<name, bridge, record, active, removing, leaks>>

(* Synchronous: host ports (pick_free_port), hooks, OCI spec, labels. *)
Build(c) ==
    /\ \/ Goto(c, "build", "create") /\ UNCHANGED lock
       \/ ReturnErr(c, "build")
    /\ UNCHANGED <<name, bridge, ip, record, active, removing, leaks>>

NewRecord(c) == [name |-> name[c], ip |-> ip[c]]

CreateFailed(c) ==
    IF c \in AdoptedCalls THEN ReturnErr(c, "create")
    ELSE Goto(c, "create", "rollback") /\ UNCHANGED lock

(* containers.create; the guard is dropped when the function returns. *)
CreateRecord(c) ==
    /\ \/ /\ record' = [record EXCEPT ![c] = NewRecord(c)]
          /\ Goto(c, "create", "ok")
          /\ DropGuard(c)
          /\ UNCHANGED leaks
       \/ CreateFailed(c) /\ UNCHANGED <<record, leaks>>
       \/ /\ record' = [record EXCEPT ![c] = NewRecord(c)]
          /\ CreateFailed(c)
          /\ leaks' = leaks \cup {c}
    /\ UNCHANGED <<name, bridge, ip, active, removing>>

(* Best-effort removal of the snapshot this call prepared, guard held. *)
Rollback(c) ==
    /\ Goto(c, "rollback", "err")
    /\ DropGuard(c)
    /\ TryRemove(c)
    /\ UNCHANGED <<name, bridge, ip, record, removing>>

(* Best-effort removal of the adopted snapshot by restore or clone. *)
AdoptRollback(c) ==
    /\ Goto(c, "adopt_rollback", "err")
    /\ TryRemove(c)
    /\ UNCHANGED <<name, bridge, ip, lock, record, removing>>

(* The future of the call is dropped at an await point; the guard with it. *)
Cancel(c) ==
    /\ pc[c] \notin Finished \cup {"idle"}
    /\ pc' = [pc EXCEPT ![c] = "cancelled"]
    /\ DropGuard(c)
    /\ UNCHANGED <<name, bridge, ip, record, active, removing, leaks>>

------------------------------------------------------------------------------
(* Mutant: remove_container removes the snapshot first. *)
DeleteRecordLast(c) ==
    /\ record[c] # None
    /\ active' = active \ {c}
    /\ removing' = removing \cup {c}
    /\ UNCHANGED <<pc, name, bridge, ip, lock, record, leaks>>

(* remove_container of a container, by whoever learned its id: the record   *)
(* first, then the snapshot, which stays if the RPC fails.                  *)
DeleteRecord(c) ==
    /\ record[c] # None
    /\ record' = [record EXCEPT ![c] = None]
    /\ removing' = removing \cup {c}
    /\ UNCHANGED <<pc, name, bridge, ip, lock, active, leaks>>

RemoveSnapshot(c) ==
    /\ c \in removing
    /\ removing' = removing \ {c}
    /\ TryRemove(c)
    /\ UNCHANGED <<pc, name, bridge, ip, lock, record>>

------------------------------------------------------------------------------
Step(c) ==
    \/ AdoptPrepare(c)
    \/ DupCheck(c)
    \/ GetImage(c)
    \/ Prepare(c)
    \/ AcquireLock(c)
    \/ ScanAndPick(c)
    \/ Build(c)
    \/ CreateRecord(c)
    \/ Rollback(c)
    \/ AdoptRollback(c)

CreateNext ==
    \E c \in Calls :
        \/ Begin(c)
        \/ Step(c)
        \/ Cancel(c)
        \/ DeleteRecord(c)
        \/ RemoveSnapshot(c)

CreateSpec == CreateInit /\ [][CreateNext]_createVars

(* A call that was polled keeps being polled and every RPC is answered. *)
CreateFairSpec == CreateSpec /\ \A c \in Calls : WF_createVars(Step(c))

------------------------------------------------------------------------------
(* Properties *)

(* BridgeIpUnique: two containers created through one process in one        *)
(* namespace never carry the same bridge address in BRIDGE_IP_LABEL: the    *)
(* guard of alloc_bridge_ip spans the label scan and containers.create,     *)
(* whatever fails, is cancelled or is deleted meanwhile.                    *)
BridgeIpUnique ==
    \A c \in Calls : \A d \in Rivals(c) :
        (record[c] # None /\ record[d] # None /\ record[c].ip # None)
            => record[c].ip # record[d].ip

(* RecordHasSnapshot: a container record is never without its active        *)
(* snapshot: it is created after the prepare, and neither a rollback nor    *)
(* remove_container takes the snapshot away before the record is gone.  The *)
(* exception is a create that succeeded and was reported as an error.       *)
RecordHasSnapshot ==
    \A c \in Calls \ leaks : record[c] # None => c \in active

(* AdoptedFailureLeavesNoSnapshot: when restore_container or clone_inner    *)
(* returns an error, at whatever step, the snapshot it prepared is gone     *)
(* unless the removal itself failed or the prepare took effect unseen.      *)
AdoptedFailureLeavesNoSnapshot ==
    \A c \in AdoptedCalls \ leaks : pc[c] = "err" => c \notin active

(* EveryCallReturns: no call waits forever: ALLOC_LOCK is released on every *)
(* way out of create_container_with_id, cancellation included.              *)
EveryCallReturns ==
    \A c \in Calls : (pc[c] # "idle") ~> (pc[c] \in Finished)

(* The addresses the records of containerd hold, as a registry. *)
Addr == [c \in Calls |-> IF record[c] = None THEN None ELSE record[c].ip]

Registry == INSTANCE BridgeRegistry
    WITH Containers <- Calls,
         RivalsOf <- [c \in Calls |-> Rivals(c)],
         addr <- Addr

(* ImplementsRegistry: seen through the address labels of the records, lock, *)
(* scan, build, create, rollback and deletion amount to atomic claims and    *)
(* releases of addresses (bridge.rs, "Guard held until containers.create     *)
(* commits the label so a parallel alloc can't pick the same octet").        *)
ImplementsRegistry == Registry!Spec

------------------------------------------------------------------------------
(* Inductive invariants *)

(* Labels at which containers.create has not been answered. *)
BeforeRecord ==
    {"idle", "adopt", "dup_check", "get_image", "prepare", "alloc_lock",
     "scan", "build", "create"}

NoRecordYet == \A c \in Calls : pc[c] \in BeforeRecord => record[c] = None

HostHasNoIp ==
    \A c \in Calls : /\ pc[c] \in {"alloc_lock", "scan"} => bridge[c]
                     /\ (pc[c] = "idle" \/ ~bridge[c]) => ip[c] = None

GuardHeld ==
    \A c \in Calls :
        (bridge[c] /\ pc[c] \in {"scan", "build", "create", "rollback"})
            => lock[ProcessOf[c]] = c

PickIsFree ==
    \A c \in Calls :
        (bridge[c] /\ pc[c] \in {"build", "create"})
            => /\ ip[c] \in Octets
               /\ \A d \in Rivals(c) : record[d] # None => record[d].ip # ip[c]

(* AllocInv: what makes BridgeIpUnique inductive.  A bridge call that has    *)
(* scanned holds ALLOC_LOCK of its process until it returns, and what it     *)
(* picked is still free among its rivals, because only a lock holder can     *)
(* add the label of a rival.                                                 *)
AllocInv ==
    /\ NoRecordYet
    /\ HostHasNoIp
    /\ GuardHeld
    /\ PickIsFree
    /\ BridgeIpUnique

(* SnapshotInv: what makes RecordHasSnapshot and                             *)
(* AdoptedFailureLeavesNoSnapshot inductive.  A call past its prepare owns   *)
(* a snapshot nobody else knows of, and only an id whose record existed is   *)
(* ever in remove_container's hands.                                         *)
SnapshotInv ==
    /\ RecordHasSnapshot
    /\ AdoptedFailureLeavesNoSnapshot
    /\ \A c \in Calls \ leaks :
        /\ pc[c] \in {"idle", "adopt"} => c \notin active
        /\ pc[c] \in {"alloc_lock", "scan", "build", "create"} => c \in active
        /\ (c \in AdoptedCalls /\ pc[c] \in {"dup_check", "get_image"})
              => c \in active
        /\ pc[c] \in BeforeRecord \cup {"rollback", "adopt_rollback", "err"}
              => record[c] = None /\ c \notin removing
        /\ pc[c] = "prepare" => c \notin AdoptedCalls
        /\ c \in removing => record[c] = None

=============================================================================
