--------------------------- MODULE NetworkProofs -----------------------------
(***************************************************************************)
(* Proofs about the bridge: first the addresses that container creation    *)
(* hands out (ContainerCreate), then the ports, hooks and forwards behind  *)
(* which the containers are reached (BridgeNetwork).                       *)
(***************************************************************************)
EXTENDS ContainerCreate, BridgeNetwork, TLAPS

(* Zenon proves the steps that cite no prover; SMT is cited where there are *)
(* numbers, sequences, or much to unfold.                                   *)
USE Zenon

------------------------------------------------------------------------------
(* ContainerCreate: for every number of calls, octets, processes and         *)
(* namespaces, with cancellations, deletions, failed RPCs and lost           *)
(* responses.  The steps come first, invariant by invariant, and the         *)
(* theorems about behaviours follow them.                                    *)

(* The invariant of the allocator *)

LEMMA InitAllocInv == CreateInit => AllocInv
BY NoCallAssumption DEF CreateInit, AllocInv, NoRecordYet, HostHasNoIp, GuardHeld,
   PickIsFree, BridgeIpUnique, Rivals

(* A step of one call that adds no label disturbs nothing another call      *)
(* relies on: it leaves the other calls' guards alone, and a record it      *)
(* deletes only frees an octet.                                             *)
LEMMA QuietStep ==
    ASSUME CreateTypeOK, AllocInv, NEW c \in Calls,
           pc' \in [Calls -> Label], ip' \in [Calls -> Octets \cup {None}],
           \A d \in Calls \ {c} : /\ pc'[d] = pc[d] /\ bridge'[d] = bridge[d]
                                  /\ ip'[d] = ip[d],
           \A d \in Calls \ {c} : lock[ProcessOf[d]] = d => lock'[ProcessOf[d]] = d,
           \A d \in Calls : record'[d] = record[d] \/ record'[d] = None,
           pc'[c] \in BeforeRecord => pc[c] \in BeforeRecord,
           pc'[c] \in {"alloc_lock", "scan"} => bridge'[c],
           (pc'[c] = "idle" \/ ~bridge'[c]) => ip'[c] = None,
           (bridge'[c] /\ pc'[c] \in {"scan", "build", "create", "rollback"})
               => lock'[ProcessOf[c]] = c,
           (bridge'[c] /\ pc'[c] \in {"build", "create"})
               => /\ ip'[c] \in Octets
                  /\ \A d \in Rivals(c) : record[d] # None => record[d].ip # ip'[c]
    PROVE  AllocInv'
<1>1. NoRecordYet'
  BY DEF AllocInv, NoRecordYet
<1>2. HostHasNoIp'
  BY SMT DEF AllocInv, HostHasNoIp
<1>3. GuardHeld'
  BY DEF AllocInv, GuardHeld
<1>4. PickIsFree'
  <2> SUFFICES ASSUME NEW d \in Calls, bridge'[d], pc'[d] \in {"build", "create"}
               PROVE  /\ ip'[d] \in Octets
                      /\ \A e \in Rivals(d) : record'[e] # None => record'[e].ip # ip'[d]
    BY DEF PickIsFree, Rivals, SameNamespace
  <2>1. /\ ip'[d] \in Octets
        /\ \A e \in Rivals(d) : record[e] # None => record[e].ip # ip'[d]
    <3>1. CASE d = c
      BY <3>1
    <3>2. CASE d # c
      BY <3>2, SMT DEF AllocInv, PickIsFree
    <3> QED  BY <3>1, <3>2
  <2>2. \A e \in Rivals(d) : e \in Calls
    BY DEF Rivals
  <2> QED
    BY <2>1, <2>2
<1>5. BridgeIpUnique'
  <2> SUFFICES ASSUME NEW d \in Calls, NEW e \in Rivals(d), record'[d] # None,
                      record'[e] # None, record'[d].ip # None
               PROVE  record'[d].ip # record'[e].ip
    BY DEF BridgeIpUnique, Rivals, SameNamespace
  <2>1. e \in Calls
    BY DEF Rivals
  <2>2. record'[d] = record[d] /\ record'[e] = record[e]
    BY <2>1
  <2>3. record[d].ip # record[e].ip
    BY <2>2 DEF AllocInv, BridgeIpUnique
  <2> QED
    BY <2>2, <2>3
<1> QED
  BY <1>1, <1>2, <1>3, <1>4, <1>5 DEF AllocInv

(* RivalsSymmetric: rivals are so mutually. *)
LEMMA RivalsSymmetric ==
    ASSUME NEW c \in Calls, NEW d \in Rivals(c)
    PROVE  d \in Calls /\ d # c /\ ProcessOf[d] = ProcessOf[c] /\ c \in Rivals(d)
BY DEF Rivals, SameNamespace

(* Publishing a label keeps every address unique: no rival bridge call can   *)
(* be between its scan and its own create, for it would hold the same lock.  *)
LEMMA PublishStep ==
    ASSUME CreateTypeOK, AllocInv, NEW c \in Calls,
           NEW to \in {"ok", "rollback", "adopt_rollback"},
           pc[c] = "create", pc' = [pc EXCEPT ![c] = to],
           bridge' = bridge, ip' = ip,
           record' = [record EXCEPT ![c] = NewRecord(c)],
           \A d \in Calls \ {c} : lock[ProcessOf[d]] = d => lock'[ProcessOf[d]] = d,
           (bridge[c] /\ to = "rollback") => lock'[ProcessOf[c]] = c
    PROVE  AllocInv'
<1> USE DEF CreateTypeOK
<1>1. /\ NoRecordYet /\ HostHasNoIp /\ GuardHeld /\ PickIsFree /\ BridgeIpUnique
  BY DEF AllocInv
<1>2. /\ record'[c].ip = ip[c]
      /\ \A d \in Calls \ {c} : record'[d] = record[d]
  BY DEF NewRecord
<1>3. ip[c] # None => bridge[c]
  BY <1>1 DEF HostHasNoIp
<1>4. NoRecordYet'
  BY <1>1, <1>2 DEF NoRecordYet, BeforeRecord
<1>5. HostHasNoIp'
  BY <1>1 DEF HostHasNoIp
<1>6. GuardHeld'
  BY <1>1 DEF GuardHeld
<1>7. PickIsFree'
  <2> SUFFICES ASSUME NEW d \in Calls, bridge'[d], pc'[d] \in {"build", "create"}
               PROVE  /\ ip'[d] \in Octets
                      /\ \A e \in Rivals(d) : record'[e] # None => record'[e].ip # ip'[d]
    BY DEF PickIsFree, Rivals, SameNamespace
  <2>1. d # c /\ bridge[d] /\ pc[d] \in {"build", "create"}
    OBVIOUS
  <2>2. ip[d] \in Octets /\ lock[ProcessOf[d]] = d
    BY <1>1, <2>1 DEF PickIsFree, GuardHeld
  <2>3. ASSUME NEW e \in Rivals(d), record'[e] # None PROVE record'[e].ip # ip'[d]
    <3>1. CASE e = c
      <4>1. ~bridge[c]
        BY <1>1, <2>1, <2>2, <3>1, RivalsSymmetric DEF GuardHeld
      <4> QED
        BY <1>2, <1>3, <2>2, <3>1, <4>1, NoCallAssumption
    <3>2. CASE e # c
      BY <1>1, <1>2, <2>1, <2>3, <3>2, RivalsSymmetric DEF PickIsFree
    <3> QED
      BY <3>1, <3>2
  <2> QED
    BY <2>2, <2>3
<1>8. BridgeIpUnique'
  <2> SUFFICES ASSUME NEW d \in Calls, NEW e \in Rivals(d), record'[d] # None,
                      record'[e] # None, record'[d].ip # None
               PROVE  record'[d].ip # record'[e].ip
    BY DEF BridgeIpUnique, Rivals, SameNamespace
  <2>1. bridge[c] => \A f \in Rivals(c) : record[f] # None => record[f].ip # ip[c]
    BY <1>1 DEF PickIsFree
  <2>2. CASE d = c
    BY <1>2, <1>3, <2>1, <2>2, RivalsSymmetric, SMT
  <2>3. CASE e = c
    BY <1>2, <1>3, <2>1, <2>3, RivalsSymmetric, SMT
  <2>4. CASE d # c /\ e # c
    BY <1>1, <1>2, <2>4, RivalsSymmetric, SMT DEF BridgeIpUnique
  <2> QED
    BY <2>2, <2>3, <2>4
<1> QED
  BY <1>4, <1>5, <1>6, <1>7, <1>8 DEF AllocInv

(* Every step keeps the allocator's invariant.  Only two steps matter:       *)
(* ScanAndPick establishes that the pick is free, under the lock, and        *)
(* CreateRecord turns a free pick into a label.                              *)
LEMMA NextAllocInv ==
    ASSUME CreateTypeOK, CreateTypeOK', AllocInv, [CreateNext]_createVars
    PROVE  AllocInv'
<1> USE CallsAssumption, NoCallAssumption
<1> USE DEF CreateTypeOK, Label, Finished, BeforeRecord
<1>0. /\ HostHasNoIp /\ GuardHeld /\ PickIsFree
  BY DEF AllocInv
<1>1. CASE UNCHANGED createVars
  BY <1>1 DEF createVars, AllocInv, NoRecordYet, HostHasNoIp, GuardHeld, PickIsFree,
     BridgeIpUnique, Rivals, SameNamespace
<1>2. ASSUME NEW c \in Calls, Begin(c) PROVE AllocInv'
  BY <1>2, <1>0, QuietStep, SMT DEF HostHasNoIp, GuardHeld, PickIsFree,
     Begin, Goto
<1>3. ASSUME NEW c \in Calls, AdoptPrepare(c) PROVE AllocInv'
  BY <1>3, <1>0, QuietStep, SMT DEF HostHasNoIp, GuardHeld, PickIsFree,
     AdoptPrepare, Goto
<1>4. ASSUME NEW c \in Calls, DupCheck(c) PROVE AllocInv'
  BY <1>4, <1>0, QuietStep, SMT DEF HostHasNoIp, GuardHeld, PickIsFree,
     DupCheck, Goto, ReturnErr, DropGuard
<1>5. ASSUME NEW c \in Calls, GetImage(c) PROVE AllocInv'
  BY <1>5, <1>0, QuietStep, SMT DEF HostHasNoIp, GuardHeld, PickIsFree,
     GetImage, AfterPrepare, Goto, ReturnErr, DropGuard
<1>6. ASSUME NEW c \in Calls, Prepare(c) PROVE AllocInv'
  BY <1>6, <1>0, QuietStep, SMT DEF HostHasNoIp, GuardHeld, PickIsFree,
     Prepare, AfterPrepare, Goto
<1>7. ASSUME NEW c \in Calls, AcquireLock(c) PROVE AllocInv'
  BY <1>7, <1>0, QuietStep, SMT DEF HostHasNoIp, GuardHeld, PickIsFree,
     AcquireLock, Goto
<1>8. ASSUME NEW c \in Calls, Build(c) PROVE AllocInv'
  BY <1>8, <1>0, QuietStep, SMT DEF HostHasNoIp, GuardHeld, PickIsFree,
     Build, Goto, ReturnErr, DropGuard
<1>9. ASSUME NEW c \in Calls, Rollback(c) PROVE AllocInv'
  <2>1. \A d \in Calls \ {c} : lock[ProcessOf[d]] = d => lock'[ProcessOf[d]] = d
    BY <1>9 DEF Rollback, DropGuard
  <2>2. /\ pc' = [pc EXCEPT ![c] = "err"]
        /\ bridge' = bridge /\ ip' = ip /\ record' = record
    BY <1>9 DEF Rollback, Goto
  <2> QED
    BY <1>0, <2>1, <2>2, QuietStep, SMT DEF HostHasNoIp
<1>10. ASSUME NEW c \in Calls, AdoptRollback(c) PROVE AllocInv'
  BY <1>10, <1>0, QuietStep, SMT DEF HostHasNoIp, GuardHeld, PickIsFree,
     AdoptRollback, Goto
<1>11. ASSUME NEW c \in Calls, Cancel(c) PROVE AllocInv'
  <2>1. \A d \in Calls \ {c} : lock[ProcessOf[d]] = d => lock'[ProcessOf[d]] = d
    BY <1>11 DEF Cancel, DropGuard
  <2>2. /\ pc' = [pc EXCEPT ![c] = "cancelled"]
        /\ bridge' = bridge /\ ip' = ip /\ record' = record
    BY <1>11 DEF Cancel
  <2> QED
    BY <1>0, <2>1, <2>2, QuietStep, SMT DEF HostHasNoIp
<1>12. ASSUME NEW c \in Calls, DeleteRecord(c) PROVE AllocInv'
  BY <1>0, <1>12, QuietStep DEF HostHasNoIp, GuardHeld, PickIsFree, DeleteRecord,
     AllocInv, NoRecordYet
<1>13. ASSUME NEW c \in Calls, RemoveSnapshot(c) PROVE AllocInv'
  BY <1>13 DEF RemoveSnapshot, AllocInv, NoRecordYet, HostHasNoIp, GuardHeld,
     PickIsFree, BridgeIpUnique, Rivals, SameNamespace
<1>14. ASSUME NEW c \in Calls, ScanAndPick(c) PROVE AllocInv'
  <2>1. CASE ReturnErr(c, "scan") /\ UNCHANGED ip
    <3>1. \A d \in Calls \ {c} : lock[ProcessOf[d]] = d => lock'[ProcessOf[d]] = d
      BY <2>1 DEF ReturnErr, DropGuard
    <3>2. /\ pc' = [pc EXCEPT ![c] = IF c \in AdoptedCalls THEN "adopt_rollback" ELSE "err"]
          /\ bridge' = bridge /\ ip' = ip /\ record' = record
      BY <1>14, <2>1 DEF ScanAndPick, ReturnErr, Goto
    <3> QED
      BY <1>0, <3>1, <3>2, QuietStep, SMT DEF HostHasNoIp
  <2>2. ASSUME NEW o \in Octets \ UsedOctets(c), ip' = [ip EXCEPT ![c] = o],
               Goto(c, "scan", "build"), UNCHANGED lock
        PROVE  AllocInv'
    <3>1. \A d \in Rivals(c) : record[d] # None => record[d].ip # o
      BY <2>2, SMT DEF UsedOctets, Rivals, SameNamespace
    <3>2. /\ pc[c] = "scan" /\ pc' = [pc EXCEPT ![c] = "build"]
          /\ bridge' = bridge /\ record' = record /\ lock' = lock
      BY <1>14, <2>2 DEF ScanAndPick, Goto
    <3>3. bridge[c] /\ lock[ProcessOf[c]] = c
      BY <1>0, <3>2 DEF HostHasNoIp, GuardHeld
    <3> QED
      BY <2>2, <3>1, <3>2, <3>3, QuietStep, SMT
  <2> QED
    BY <1>14, <2>1, <2>2 DEF ScanAndPick
<1>15. ASSUME NEW c \in Calls, CreateRecord(c) PROVE AllocInv'
  <2>1. /\ pc[c] = "create" /\ bridge' = bridge /\ ip' = ip
        /\ \A d \in Calls \ {c} : lock[ProcessOf[d]] = d => lock'[ProcessOf[d]] = d
    BY <1>15, SMT DEF CreateRecord, CreateFailed, ReturnErr, Goto, DropGuard
  <2>2. PICK to \in {"ok", "rollback", "adopt_rollback"} :
            /\ pc' = [pc EXCEPT ![c] = to]
            /\ to = "rollback" => lock' = lock
    BY <1>15 DEF CreateRecord, CreateFailed, ReturnErr, Goto
  <2>3. bridge[c] => lock[ProcessOf[c]] = c
    BY <1>0, <2>1 DEF GuardHeld
  <2>4. CASE record' = [record EXCEPT ![c] = NewRecord(c)]
    BY <2>1, <2>2, <2>3, <2>4, PublishStep
  <2>5. CASE record' = record
    BY <1>0, <2>1, <2>2, <2>3, <2>5, QuietStep, SMT DEF HostHasNoIp
  <2> QED
    BY <1>15, <2>4, <2>5 DEF CreateRecord
<1> HIDE DEF CreateTypeOK, Label, Finished, BeforeRecord
<1> QED
  BY <1>1, <1>2, <1>3, <1>4, <1>5, <1>6, <1>7, <1>8, <1>9, <1>10, <1>11,
     <1>12, <1>13, <1>14, <1>15 DEF CreateNext, Step

------------------------------------------------------------------------------
(* The registry of addresses *)

(* A step that publishes or deletes a record is a claim or a release of the  *)
(* abstract registry, or changes no address.                                 *)
LEMMA StepClaimsOrReleases ==
    ASSUME CreateTypeOK, AllocInv, CreateNext
    PROVE  Registry!Next \/ UNCHANGED Addr
<1> USE DEF CreateTypeOK
<1>1. CASE record' = record
  BY <1>1 DEF Addr
<1>2. ASSUME NEW c \in Calls, DeleteRecord(c) PROVE Registry!Next \/ UNCHANGED Addr
  <2>1. /\ Addr' = [Addr EXCEPT ![c] = None]
        /\ Addr \in [Calls -> Octets \cup {None}]
    BY <1>2 DEF Addr, DeleteRecord, Record
  <2>2. CASE Addr[c] = None
    BY <2>1, <2>2
  <2>3. CASE Addr[c] # None
    BY <2>1, <2>3 DEF Registry!Next, Registry!Release
  <2> QED
    BY <2>2, <2>3
<1>3. ASSUME NEW c \in Calls, pc[c] = "create",
             record' = [record EXCEPT ![c] = NewRecord(c)]
      PROVE  Registry!Next \/ UNCHANGED Addr
  <2>1. record[c] = None
    BY <1>3 DEF AllocInv, NoRecordYet, BeforeRecord
  <2>2. NewRecord(c) \in Record /\ NewRecord(c).ip = ip[c]
    BY <1>3 DEF NewRecord, Record
  <2>3. NewRecord(c) # None
    BY <2>2, RecordAssumption DEF Record
  <2>4. /\ Addr[c] = None
        /\ Addr' = [Addr EXCEPT ![c] = ip[c]]
        /\ Addr \in [Calls -> Octets \cup {None}]
    BY <1>3, <2>1, <2>2, <2>3 DEF Addr, Record
  <2>5. CASE ip[c] = None
    BY <2>4, <2>5
  <2>6. CASE ip[c] # None
    <3>1. bridge[c]
      BY <2>6 DEF AllocInv, HostHasNoIp
    <3>2. /\ ip[c] \in Octets
          /\ \A d \in Rivals(c) : record[d] # None => record[d].ip # ip[c]
      BY <1>3, <3>1 DEF AllocInv, PickIsFree
    <3>3. \A d \in [e \in Calls |-> Rivals(e)][c] : Addr[d] # ip[c]
      BY <2>6, <3>2 DEF Addr, Rivals
    <3>4. Registry!Claim(c, ip[c])
      BY <2>4, <3>3 DEF Registry!Claim
    <3> QED
      BY <3>2, <3>4 DEF Registry!Next
  <2> QED
    BY <2>5, <2>6
<1>4. ASSUME NEW c \in Calls, CreateRecord(c) PROVE Registry!Next \/ UNCHANGED Addr
  BY <1>1, <1>3, <1>4 DEF CreateRecord, CreateFailed, ReturnErr, Goto
<1> QED
  BY <1>1, <1>2, <1>4 DEF CreateNext, Step, Begin, AdoptPrepare, DupCheck, GetImage,
     Prepare, AcquireLock, ScanAndPick, Build, Rollback, AdoptRollback, Cancel,
     RemoveSnapshot

------------------------------------------------------------------------------
(* Snapshots and records *)

(* Every step keeps SnapshotInv; an RPC whose answer is lost puts its call   *)
(* among the leaks, outside it.                                              *)
LEMMA NextSnapshotInv ==
    ASSUME CreateTypeOK, SnapshotInv, [CreateNext]_createVars
    PROVE  SnapshotInv'
<1> USE DEF CreateTypeOK, SnapshotInv, RecordHasSnapshot,
        AdoptedFailureLeavesNoSnapshot, BeforeRecord
<1>1. CASE UNCHANGED createVars
  BY <1>1 DEF createVars
<1>2. ASSUME NEW c \in Calls, Begin(c) PROVE SnapshotInv'
  BY <1>2, SMT DEF Begin, Goto
<1>3. ASSUME NEW c \in Calls, AdoptPrepare(c) PROVE SnapshotInv'
  BY <1>3 DEF AdoptPrepare, Goto
<1>4. ASSUME NEW c \in Calls, DupCheck(c) PROVE SnapshotInv'
  BY <1>4, SMT DEF DupCheck, Goto, ReturnErr
<1>5. ASSUME NEW c \in Calls, GetImage(c) PROVE SnapshotInv'
  BY <1>5, SMT DEF GetImage, AfterPrepare, Goto, ReturnErr
<1>6. ASSUME NEW c \in Calls, Prepare(c) PROVE SnapshotInv'
  BY <1>6, SMT DEF Prepare, AfterPrepare, Goto
<1>7. ASSUME NEW c \in Calls, AcquireLock(c) PROVE SnapshotInv'
  BY <1>7 DEF AcquireLock, Goto
<1>8. ASSUME NEW c \in Calls, ScanAndPick(c) PROVE SnapshotInv'
  BY <1>8, SMT DEF ScanAndPick, Goto, ReturnErr
<1>9. ASSUME NEW c \in Calls, Build(c) PROVE SnapshotInv'
  BY <1>9 DEF Build, Goto, ReturnErr
<1>10. ASSUME NEW c \in Calls, CreateRecord(c) PROVE SnapshotInv'
  BY <1>10, SMT DEF CreateRecord, CreateFailed, Goto, ReturnErr
<1>11. ASSUME NEW c \in Calls, Rollback(c) PROVE SnapshotInv'
  BY <1>11 DEF Rollback, TryRemove, Goto
<1>12. ASSUME NEW c \in Calls, AdoptRollback(c) PROVE SnapshotInv'
  BY <1>12 DEF AdoptRollback, TryRemove, Goto
<1>13. ASSUME NEW c \in Calls, Cancel(c) PROVE SnapshotInv'
  BY <1>13 DEF Cancel, Finished
<1>14. ASSUME NEW c \in Calls, DeleteRecord(c) PROVE SnapshotInv'
  BY <1>14 DEF DeleteRecord
<1>15. ASSUME NEW c \in Calls, RemoveSnapshot(c) PROVE SnapshotInv'
  BY <1>15 DEF RemoveSnapshot, TryRemove
<1> HIDE DEF CreateTypeOK, SnapshotInv
<1> QED
  BY <1>1, <1>2, <1>3, <1>4, <1>5, <1>6, <1>7, <1>8, <1>9, <1>10, <1>11,
     <1>12, <1>13, <1>14, <1>15 DEF CreateNext, Step

------------------------------------------------------------------------------
(* Types *)

LEMMA InitTypeOK == CreateInit => CreateTypeOK
BY CallsAssumption, NoCallAssumption DEF CreateInit, CreateTypeOK, Label, Finished

(* Every action of the allocator keeps the variables in their types. *)
LEMMA NextTypeOK == CreateTypeOK /\ [CreateNext]_createVars => CreateTypeOK'
<1> SUFFICES ASSUME CreateTypeOK, [CreateNext]_createVars PROVE CreateTypeOK'
  OBVIOUS
<1> USE CallsAssumption DEF CreateTypeOK, Label, Finished, Record
<1>1. CASE UNCHANGED createVars
  BY <1>1 DEF createVars
<1>2. ASSUME NEW c \in Calls, Begin(c) PROVE CreateTypeOK'
  BY <1>2, SMT DEF Begin, Goto
<1>3. ASSUME NEW c \in Calls, AdoptPrepare(c) PROVE CreateTypeOK'
  BY <1>3 DEF AdoptPrepare, Goto
<1>4. ASSUME NEW c \in Calls, DupCheck(c) PROVE CreateTypeOK'
  BY <1>4 DEF DupCheck, Goto, ReturnErr, DropGuard
<1>5. ASSUME NEW c \in Calls, GetImage(c) PROVE CreateTypeOK'
  BY <1>5 DEF GetImage, AfterPrepare, Goto, ReturnErr, DropGuard
<1>6. ASSUME NEW c \in Calls, Prepare(c) PROVE CreateTypeOK'
  BY <1>6 DEF Prepare, AfterPrepare, Goto
<1>7. ASSUME NEW c \in Calls, AcquireLock(c) PROVE CreateTypeOK'
  BY <1>7 DEF AcquireLock, Goto
<1>8. ASSUME NEW c \in Calls, ScanAndPick(c) PROVE CreateTypeOK'
  <2>1. PICK to \in Label : pc' = [pc EXCEPT ![c] = to] /\ pc[c] # "idle"
    BY <1>8 DEF ScanAndPick, Goto, ReturnErr
  <2>2. ip' \in [Calls -> Octets \cup {None}]
    BY <1>8 DEF ScanAndPick
  <2>3. lock' \in [Processes -> Calls \cup {None}]
    BY <1>8 DEF ScanAndPick, ReturnErr, DropGuard
  <2> QED
    BY <1>8, <2>1, <2>2, <2>3 DEF ScanAndPick
<1>9. ASSUME NEW c \in Calls, Build(c) PROVE CreateTypeOK'
  BY <1>9 DEF Build, Goto, ReturnErr, DropGuard
<1>10. ASSUME NEW c \in Calls, CreateRecord(c) PROVE CreateTypeOK'
  <2>1. PICK to \in Label : pc' = [pc EXCEPT ![c] = to] /\ pc[c] # "idle"
    BY <1>10 DEF CreateRecord, CreateFailed, Goto, ReturnErr
  <2>2. NewRecord(c) \in Record
    BY <2>1 DEF NewRecord
  <2>3. record' \in [Calls -> Record \cup {None}] /\ leaks' \subseteq Calls
    <3> HIDE DEF Record, Label
    <3> QED
      BY <1>10, <2>2, SMT DEF CreateRecord
  <2>4. lock' = lock \/ DropGuard(c)
    BY <1>10 DEF CreateRecord, CreateFailed, ReturnErr
  <2>5. lock' \in [Processes -> Calls \cup {None}]
    BY <2>4 DEF DropGuard
  <2> QED
    BY <1>10, <2>1, <2>3, <2>5 DEF CreateRecord
<1>11. ASSUME NEW c \in Calls, Rollback(c) PROVE CreateTypeOK'
  BY <1>11 DEF Rollback, TryRemove, Goto, DropGuard
<1>12. ASSUME NEW c \in Calls, AdoptRollback(c) PROVE CreateTypeOK'
  BY <1>12 DEF AdoptRollback, TryRemove, Goto
<1>13. ASSUME NEW c \in Calls, Cancel(c) PROVE CreateTypeOK'
  BY <1>13 DEF Cancel, DropGuard
<1>14. ASSUME NEW c \in Calls, DeleteRecord(c) PROVE CreateTypeOK'
  BY <1>14 DEF DeleteRecord
<1>15. ASSUME NEW c \in Calls, RemoveSnapshot(c) PROVE CreateTypeOK'
  BY <1>15 DEF RemoveSnapshot, TryRemove
<1> HIDE DEF CreateTypeOK, Label, Finished, Record
<1> QED
  BY <1>1, <1>2, <1>3, <1>4, <1>5, <1>6, <1>7, <1>8, <1>9, <1>10, <1>11,
     <1>12, <1>13, <1>14, <1>15 DEF CreateNext, Step

------------------------------------------------------------------------------
(* Theorems *)

(* CreateTypeCorrect: the model of container creation is well typed, whatever the *)
(* constants (create_container_with_id, alloc_bridge_ip).                   *)
THEOREM CreateTypeCorrect == CreateSpec => []CreateTypeOK
BY InitTypeOK, NextTypeOK, PTL DEF CreateSpec

(* AllocInvariant: the inductive invariant of the allocator holds always.    *)
THEOREM AllocInvariant == CreateSpec => []AllocInv
<1>1. CreateTypeOK /\ CreateTypeOK' /\ AllocInv /\ [CreateNext]_createVars => AllocInv'
  BY NextAllocInv
<1> QED
  BY <1>1, InitAllocInv, CreateTypeCorrect, PTL DEF CreateSpec

(* BridgeIpSafety: containers created through one process in one namespace   *)
(* never share a bridge address, for every number of calls and addresses     *)
(* (alloc_bridge_ip and the guard held across containers.create).            *)
THEOREM BridgeIpSafety == CreateSpec => []BridgeIpUnique
<1>1. AllocInv => BridgeIpUnique
  BY DEF AllocInv
<1> QED
  BY <1>1, AllocInvariant, PTL

(* RegistryRefinement: the protocol of lock, scan and create implements the  *)
(* atomic address registry (alloc_bridge_ip and its guard).                  *)
THEOREM RegistryRefinement == CreateSpec => ImplementsRegistry
<1>1. CreateInit => Registry!Init
  BY DEF CreateInit, Registry!Init, Addr
<1>2. CreateTypeOK /\ AllocInv /\ [CreateNext]_createVars => [Registry!Next]_Addr
  <2> SUFFICES ASSUME CreateTypeOK, AllocInv, [CreateNext]_createVars
               PROVE  Registry!Next \/ UNCHANGED Addr
    OBVIOUS
  <2>1. CASE UNCHANGED createVars
    BY <2>1 DEF createVars, Addr
  <2> QED
    BY <2>1, StepClaimsOrReleases
<1> QED
  BY <1>1, <1>2, CreateTypeCorrect, AllocInvariant, PTL
  DEF CreateSpec, ImplementsRegistry, Registry!Spec

(* SnapshotInvariant: a call past its prepare, or given a snapshot, owns one *)
(* until it has a record or takes the snapshot back.                         *)
THEOREM SnapshotInvariant == CreateSpec => []SnapshotInv
<1>1. CreateInit => SnapshotInv
  BY DEF CreateInit, SnapshotInv, RecordHasSnapshot, AdoptedFailureLeavesNoSnapshot,
     BeforeRecord
<1>2. CreateTypeOK /\ SnapshotInv /\ [CreateNext]_createVars => SnapshotInv'
  BY NextSnapshotInv
<1> QED
  BY <1>1, <1>2, CreateTypeCorrect, PTL DEF CreateSpec

(* SnapshotSafety: no record is ever without its snapshot, except for an id  *)
(* whose create took effect and was reported as an error (the rollback of    *)
(* create_container_with_id).                                                *)
THEOREM SnapshotSafety == CreateSpec => []RecordHasSnapshot
<1>1. SnapshotInv => RecordHasSnapshot
  BY DEF SnapshotInv
<1> QED
  BY <1>1, SnapshotInvariant, PTL

(* AdoptedSafety: a restore_container or clone_inner that has returned an    *)
(* error, at whatever step it failed, has left no snapshot behind, unless    *)
(* the removal itself failed or an RPC took effect and was reported failed.  *)
THEOREM AdoptedSafety == CreateSpec => []AdoptedFailureLeavesNoSnapshot
<1>1. SnapshotInv => AdoptedFailureLeavesNoSnapshot
  BY DEF SnapshotInv
<1> QED
  BY <1>1, SnapshotInvariant, PTL

------------------------------------------------------------------------------
(* BridgeNetwork: what a delete releases, what a started container has, and  *)
(* what a hook may kill, for any containers, bindings, ports, forwards and   *)
(* pids.  The forwards and the hooks share only the table `bound'; each is   *)
(* shown to leave the entries of the other alone.                            *)

BoundTypes ==
    bound \in [Ports -> ({"forward"} \X Forwards) \cup ({"socat"} \X Pids) \cup {None}]

BridgeTypes ==
    /\ ports \in [Containers -> Seq(Ports)]
    /\ \A c \in Containers : Len(ports[c]) <= N(c)
    /\ run \in [Containers -> {"none", "poststart", "check", "running", "failed", "poststop"}]
    /\ at \in [Containers -> Nat] /\ \A c \in Containers : at[c] \in 1..N(c) + 1
    /\ socat \in [Pids -> Process \cup {None}]
    /\ pidfile \in [Containers -> [AllPorts -> Pids \cup {None}]]
    /\ veth \subseteq Containers

(* The two halves of the invariant. *)
ForwardHalf == ForwardTypes /\ BoundTypes /\ ForwardInv /\ OldInv
BridgeHalf == BridgeTypes /\ SocatInv /\ \A c \in Containers : HookInv(c)

(* A step leaves the socats', or the forwards', entries of the table alone. *)
SocatsStay ==
    \A p \in Ports, i \in Pids : bound'[p] = <<"socat", i>> <=> bound[p] = <<"socat", i>>
ForwardsStay ==
    \A p \in Ports, f \in Forwards : bound[p] = <<"forward", f>> => bound'[p] = bound[p]

LEMMA Halves == NetInv <=> ForwardHalf /\ BridgeHalf
BY DEF NetInv, TypeOK, ForwardHalf, BridgeHalf, BoundTypes, BridgeTypes

(* What ContainerPorts(c) is. *)
LEMMA PortFacts ==
    ASSUME NEW c \in Containers
    PROVE  /\ ContainerPorts(c) \in Seq(Nat)
           /\ N(c) \in Nat
           /\ DOMAIN ContainerPorts(c) = 1..N(c)
           /\ \A j \in 1..N(c) : ContainerPorts(c)[j] \in AllPorts
<1>1. ContainerPorts(c) \in Seq(Nat)
  BY BridgeAssumption, SMT DEF ContainerPorts
<1>2. N(c) \in Nat /\ DOMAIN ContainerPorts(c) = 1..N(c)
  BY <1>1, SMT DEF N
<1>3. \A j \in 1..N(c) : ContainerPorts(c)[j] \in AllPorts
  BY <1>2, SMT DEF AllPorts
<1> QED BY <1>1, <1>2, <1>3, SMT

(* Where a hook is, and the ports of a container. *)
LEMMA AtFacts ==
    ASSUME BridgeTypes, NEW c \in Containers
    PROVE  /\ N(c) \in Nat /\ at[c] \in Nat /\ at[c] >= 1
           /\ \A j \in 1..N(c) :
                 /\ j < at[c] + 1 <=> j < at[c] \/ j = at[c]
                 /\ j >= at[c] + 1 <=> j > at[c]
           /\ at[c] <= N(c) =>
                 /\ at[c] \in 1..N(c) /\ ContainerPort(c) = ContainerPorts(c)[at[c]]
                 /\ ContainerPort(c) \in AllPorts
                 /\ pidfile[c][ContainerPort(c)] = PidAt(c, at[c])
                 /\ PidAt(c, at[c]) \in Pids \cup {None}
<1>1. N(c) \in Nat
  BY PortFacts
<1>2. at[c] \in 1..N(c) + 1
  BY Zenon DEF BridgeTypes
<1>3. at[c] \in Nat /\ at[c] >= 1 /\ (at[c] <= N(c) => at[c] \in 1..N(c))
  BY <1>1, <1>2, SMT
<1>4. ASSUME NEW j \in 1..N(c)
      PROVE  (j < at[c] + 1 <=> j < at[c] \/ j = at[c]) /\ (j >= at[c] + 1 <=> j > at[c])
  BY <1>3, <1>1, SMT
<1>5. at[c] \in 1..N(c) => ContainerPorts(c)[at[c]] \in AllPorts
  BY PortFacts, Zenon
<1>6. \A k \in AllPorts : pidfile[c][k] \in Pids \cup {None}
  BY DEF BridgeTypes
<1> QED BY <1>1, <1>3, <1>4, <1>5, <1>6 DEF ContainerPort, PidAt

LEMMA CreatedPorts ==
    ASSUME BridgeTypes, NEW c \in Containers, Created(c)
    PROVE  \A j \in 1..N(c) : ports[c][j] \in Ports
<1>1. ports[c] \in Seq(Ports) /\ Len(ports[c]) = N(c)
  BY DEF BridgeTypes, Created
<1> QED BY <1>1, SMT

LEMMA Initially == Init => NetInv
<1> SUFFICES ASSUME Init PROVE ForwardHalf /\ BridgeHalf
  BY Halves
<1>1. ForwardHalf
  BY NoneAssumption
     DEF Init, ForwardInit, ForwardHalf, ForwardTypes, BoundTypes, ForwardInv, OldInv, Holders
<1>2. BridgeTypes
  BY PortFacts, SMT DEF Init, BridgeTypes
<1>3. SocatInv
  BY NoneAssumption DEF Init, ForwardInit, SocatInv
<1>4. ASSUME NEW c \in Containers PROVE HookInv(c)
  BY PortFacts DEF Init, HookInv, PidAt
<1> QED BY <1>1, <1>2, <1>3, <1>4 DEF BridgeHalf

------------------------------------------------------------------------------
(* The forwards *)

(* The loop of a forward ends: its entry goes, and no other. *)
LEMMA TaskEndsKeeps ==
    ASSUME ForwardHalf, NEW f \in Forwards, TaskEnds(f), task[f] \in {"select", "polled"}
    PROVE  ForwardHalf' /\ SocatsStay
<1>1. port[f] \in Ports /\ bound[port[f]] = <<"forward", f>>
  BY DEF ForwardHalf, ForwardInv
<1>2. ForwardTypes' /\ BoundTypes'
  BY <1>1 DEF ForwardHalf, ForwardTypes, BoundTypes, TaskEnds, Kill
<1>3. ForwardInv'
  BY <1>1, SMT DEF ForwardHalf, ForwardTypes, BoundTypes, ForwardInv, TaskEnds
<1>4. OldInv'
  BY DEF ForwardHalf, ForwardTypes, OldInv, TaskEnds
<1>5. SocatsStay
  BY <1>1, NoneAssumption, SMT DEF ForwardHalf, BoundTypes, SocatsStay, TaskEnds
<1> QED BY <1>2, <1>3, <1>4, <1>5 DEF ForwardHalf

(* A step of a loop, or of a connection, that does not end the loop. *)
LEMMA LoopStays ==
    ASSUME ForwardHalf, NEW f \in Forwards,
           UNCHANGED <<setting, bound, owner, port, signal, abort, holder, del, old>>,
           waiting' \subseteq Ports,
           \/ UNCHANGED conns
           \/ \E k \in Conns, s \in {"free", "connecting", "proxying", "finished"} :
                 conns' = [conns EXCEPT ![f][k] = s],
           \/ UNCHANGED task
           \/ /\ task[f] \in {"select", "polled"}
              /\ task' = [task EXCEPT ![f] = "select"] \/ task' = [task EXCEPT ![f] = "polled"]
    PROVE  ForwardHalf' /\ SocatsStay
<1> DEFINE Conn == {"free", "connecting", "proxying", "finished", "aborted"}
<1>0. conns' \in [Forwards -> [Conns -> Conn]]
  <2>1. conns \in [Forwards -> [Conns -> Conn]]
    BY DEF ForwardHalf, ForwardTypes
  <2>2. ASSUME NEW k \in Conns, NEW s \in Conn, conns' = [conns EXCEPT ![f][k] = s]
        PROVE  conns' \in [Forwards -> [Conns -> Conn]]
    <3>1. [conns[f] EXCEPT ![k] = s] \in [Conns -> Conn]
      BY <2>1
    <3> HIDE DEF Conn
    <3> QED BY <2>1, <2>2, <3>1
  <2> QED BY <2>1, <2>2
<1>1. ForwardTypes' /\ BoundTypes'
  <2>1. task' \in [Forwards -> {"none", "select", "polled", "done"}]
    BY DEF ForwardHalf, ForwardTypes
  <2> QED BY <1>0, <2>1 DEF ForwardHalf, ForwardTypes, BoundTypes
<1>2. ForwardInv' /\ OldInv'
  BY SMT DEF ForwardHalf, ForwardTypes, ForwardInv, OldInv
<1>3. SocatsStay
  BY DEF SocatsStay
<1> QED BY <1>1, <1>2, <1>3 DEF ForwardHalf

LEMMA LoopKeeps ==
    ASSUME ForwardHalf, NEW f \in Forwards,
           \/ Loop(f) \/ ClientConnects(f)
           \/ Connects(f) \/ ConnectFails(f) \/ ProxyEnds(f) \/ ConnAborted(f)
    PROVE  ForwardHalf' /\ SocatsStay
<1> USE DEF ForwardHalf, ForwardTypes
<1>1. CASE Poll(f) /\ signal[f]
  BY <1>1, TaskEndsKeeps DEF Poll
<1>2. CASE Aborted(f)
  BY <1>2, TaskEndsKeeps DEF Aborted
<1>3. CASE Poll(f) /\ ~signal[f]
  BY <1>3, LoopStays DEF Poll, GoesTo
<1>4. CASE Accept(f)
  BY <1>4, LoopStays DEF Accept, GoesTo
<1>5. CASE Reap(f)
  BY <1>5, LoopStays DEF Reap, GoesTo
<1>6. CASE Wake(f)
  BY <1>6, LoopStays DEF Wake, GoesTo
<1>7. CASE ClientConnects(f)
  <2>1. port[f] \in Ports
    BY <1>7 DEF ClientConnects, ForwardInv
  <2> QED BY <1>7, <2>1, LoopStays DEF ClientConnects, forward
<1>8. CASE Connects(f) \/ ConnectFails(f) \/ ProxyEnds(f) \/ ConnAborted(f)
  BY <1>8, LoopStays DEF Connects, ConnectFails, ProxyEnds, ConnAborted, ConnGoes
<1> QED BY <1>1, <1>2, <1>3, <1>4, <1>5, <1>6, <1>7, <1>8 DEF Loop

(* A forward is made where nobody listens. *)
LEMMA StartKeeps ==
    ASSUME ForwardHalf, NEW f \in Forwards, NEW c \in Containers, NEW p \in Ports,
           NEW h \in {"user", "pushing"}, StartPortForward(f, c, p, h)
    PROVE  ForwardHalf' /\ SocatsStay
<1>1. ForwardTypes' /\ BoundTypes'
  BY DEF ForwardHalf, ForwardTypes, BoundTypes, StartPortForward, Holders
<1>2. ForwardInv'
  BY NoneAssumption
     DEF ForwardHalf, ForwardTypes, BoundTypes, ForwardInv, StartPortForward
<1>3. OldInv'
  BY SMT DEF ForwardHalf, ForwardTypes, OldInv, StartPortForward
<1>4. SocatsStay
  BY NoneAssumption DEF ForwardHalf, BoundTypes, SocatsStay, StartPortForward
<1> QED BY <1>1, <1>2, <1>3, <1>4 DEF ForwardHalf

(* Nothing of a forward is left. *)
LEMMA ForgetKeeps ==
    ASSUME ForwardHalf, NEW f \in Forwards, Forget(f)
    PROVE  ForwardHalf' /\ SocatsStay
<1>1. ForwardTypes' /\ BoundTypes'
  BY DEF ForwardHalf, ForwardTypes, BoundTypes, Forget, Hold, Holders
<1>2. ForwardInv'
  BY DEF ForwardHalf, ForwardTypes, ForwardInv, Forget, Hold
<1>3. OldInv'
  BY SMT DEF ForwardHalf, ForwardTypes, OldInv, Forget, Hold
<1>4. SocatsStay
  BY DEF SocatsStay, Forget
<1> QED BY <1>1, <1>2, <1>3, <1>4 DEF ForwardHalf

(* A step of a handle, or of a delete, leaves the loops alone. *)
LEMMA HandleStays ==
    ASSUME ForwardHalf, UNCHANGED <<setting, bound, waiting, owner, port, task, conns>>,
           holder' \in [Forwards -> Holders], signal' \in [Forwards -> BOOLEAN],
           abort' \in [Forwards -> BOOLEAN],
           del' \in [Containers -> {"idle", "task", "handles", "stops"}],
           old' \in [Containers -> SUBSET Forwards],
           \A f \in Forwards : holder'[f] = "none" => holder[f] = "none",
           OldInv'
    PROVE  ForwardHalf' /\ SocatsStay
<1>1. ForwardTypes' /\ BoundTypes'
  BY DEF ForwardHalf, ForwardTypes, BoundTypes
<1>2. ForwardInv'
  BY DEF ForwardHalf, ForwardInv
<1>3. SocatsStay
  BY DEF SocatsStay
<1> QED BY <1>1, <1>2, <1>3 DEF ForwardHalf

LEMMA HandleKeeps ==
    ASSUME ForwardHalf, NEW f \in Forwards,
           PushHandle(f) \/ UserStops(f) \/ StopReturns(f) \/ UserDrops(f)
    PROVE  ForwardHalf' /\ SocatsStay
<1> USE DEF ForwardHalf, ForwardTypes, Holders
<1>1. CASE PushHandle(f)
  <2>1. OldInv'
    BY <1>1 DEF PushHandle, OldInv
  <2> QED BY <1>1, <2>1, HandleStays DEF PushHandle
<1>2. CASE UserStops(f)
  <2>1. OldInv'
    BY <1>2, SMT DEF UserStops, Stop, Hold, OldInv
  <2> QED BY <1>2, <2>1, HandleStays DEF UserStops, Stop, Hold
<1>3. CASE StopReturns(f)
  <2>1. OldInv'
    BY <1>3 DEF StopReturns, Hold, OldInv
  <2> QED BY <1>3, <2>1, HandleStays DEF StopReturns, Hold
<1>4. CASE UserDrops(f)
  <2>1. OldInv'
    BY <1>4, SMT DEF UserDrops, DropHandles, OldInv
  <2> QED BY <1>4, <2>1, HandleStays DEF UserDrops, DropHandles
<1> QED BY <1>1, <1>2, <1>3, <1>4

LEMMA DeleteKeeps ==
    ASSUME ForwardHalf, NEW c \in Containers,
           TakeHandles(c) \/ StopNext(c) \/ DeleteReturns(c) \/ DeleteDropped(c)
    PROVE  ForwardHalf' /\ SocatsStay
<1> USE DEF ForwardHalf, ForwardTypes, Holders
<1>1. CASE TakeHandles(c)
  <2>1. OldInv'
    BY <1>1, SMT DEF TakeHandles, Managed, OldInv
  <2> QED BY <1>1, <2>1, HandleStays DEF TakeHandles, Managed
<1>2. CASE StopNext(c)
  <2>1. PICK f \in Taken(c) : Stop(f)
    BY <1>2 DEF StopNext
  <2>2. OldInv'
    BY <1>2, <2>1, SMT DEF StopNext, Stop, Hold, Taken, OldInv
  <2> QED BY <2>1, <2>2, HandleStays DEF Stop, Hold, Taken
<1>3. CASE DeleteReturns(c)
  <2>1. OldInv'
    BY <1>3, SMT DEF DeleteReturns, Taken, forward, OldInv
  <2> QED BY <1>3, <2>1, HandleStays DEF DeleteReturns, forward
<1>4. CASE DeleteDropped(c)
  <2>1. OldInv'
    BY <1>4, SMT DEF DeleteDropped, DropHandles, Taken, OldInv
  <2> QED BY <1>4, <2>1, HandleStays DEF DeleteDropped, DropHandles
<1> QED BY <1>1, <1>2, <1>3, <1>4

LEMMA ForwardNextKeeps ==
    ASSUME ForwardHalf, ForwardNext
    PROVE  ForwardHalf' /\ SocatsStay /\ UNCHANGED setting
<1>1. setting.handles \subseteq {"user", "pushing"}
  BY PortsAssumption DEF ForwardHalf, ForwardTypes, Setting
<1>2. ForwardHalf' /\ SocatsStay
  BY <1>1, StartKeeps, ForgetKeeps, HandleKeeps, LoopKeeps, DeleteKeeps DEF ForwardNext
<1>3. UNCHANGED setting
  BY DEF ForwardNext, StartPortForward, PushHandle, Loop, Poll, Accept, Reap, Wake, Aborted,
     TaskEnds, GoesTo, ClientConnects, Connects, ConnectFails, ProxyEnds, ConnAborted,
     ConnGoes, UserStops, Stop, StopReturns, UserDrops, DropHandles, Forget, TakeHandles,
     StopNext, DeleteReturns, DeleteDropped
<1> QED BY <1>2, <1>3

(* What the forwards do does not matter to the hooks. *)
LEMMA BridgeUnmoved ==
    ASSUME BridgeHalf, SocatsStay, UNCHANGED <<setting, bvars>>
    PROVE  BridgeHalf'
<1> USE DEF BridgeHalf, bvars
<1>1. BridgeTypes'
  BY DEF BridgeTypes
<1>2. SocatInv'
  BY SMT DEF SocatInv, SocatsStay, PidAt
<1>3. ASSUME NEW c \in Containers PROVE HookInv(c)'
  <2>1. ASSUME NEW p \in Ports, Served(c, p) PROVE Served(c, p)'
    BY <2>1 DEF Served, SocatsStay
  <2>2. \A j \in 1..N(c) : run[c] # "none" => ports[c][j] \in Ports
    BY PortFacts, SMT DEF BridgeTypes, HookInv, Created
  <2> HIDE DEF BridgeHalf
  <2>3. HookInv(c)
    BY DEF BridgeHalf
  <2> QED BY <2>1, <2>2, <2>3 DEF HookInv, PidAt, Created, HostPort
<1> QED BY <1>1, <1>2, <1>3

------------------------------------------------------------------------------
(* The hooks *)

(* What the hooks do does not matter to the forwards. *)
LEMMA ForwardUnmoved ==
    ASSUME ForwardHalf, ForwardsStay, BoundTypes',
           UNCHANGED <<setting, waiting, forward, del, old>>
    PROVE  ForwardHalf'
<1> USE DEF forward
<1>1. ForwardTypes'
  BY DEF ForwardHalf, ForwardTypes
<1>2. ForwardInv'
  BY DEF ForwardHalf, ForwardInv, ForwardsStay
<1>3. OldInv'
  BY DEF ForwardHalf, OldInv
<1> QED BY <1>1, <1>2, <1>3 DEF ForwardHalf

(* A step that leaves table and forwards alone. *)
LEMMA ForwardStill ==
    ASSUME ForwardHalf, UNCHANGED <<setting, bound, waiting, forward, del, old>>
    PROVE  ForwardHalf'
<1>1. ForwardsStay /\ BoundTypes'
  BY DEF ForwardHalf, BoundTypes, ForwardsStay
<1> QED BY <1>1, ForwardUnmoved

(* A step of container c that touches no socat, no pid file and no table     *)
(* leaves the socats and the other containers alone.                         *)
LEMMA OthersStay ==
    ASSUME BridgeHalf, NEW c \in Containers,
           UNCHANGED <<setting, bound, socat, pidfile>>,
           \A d \in Containers \ {c} :
              ports'[d] = ports[d] /\ run'[d] = run[d] /\ at'[d] = at[d]
                 /\ (d \in veth' => d \in veth)
    PROVE  SocatInv' /\ \A d \in Containers \ {c} : HookInv(d)'
<1>1. SocatInv'
  BY SMT DEF BridgeHalf, SocatInv, PidAt
<1>2. ASSUME NEW d \in Containers \ {c} PROVE HookInv(d)'
  <2>1. HookInv(d)
    BY DEF BridgeHalf
  <2>2. /\ \A j : PidAt(d, j)' = PidAt(d, j)
        /\ \A p : Served(d, p)' = Served(d, p)
        /\ Created(d)' = Created(d) /\ HostPort(d)' = HostPort(d)
    BY DEF PidAt, Served, Created, HostPort
  <2> QED BY <2>1, <2>2 DEF HookInv
<1> QED BY <1>1, <1>2

LEMMA PickKeeps ==
    ASSUME BridgeHalf, NEW c \in Containers, PickPort(c) \/ PickFails(c)
    PROVE  BridgeHalf'
<1>1. run[c] = "none"
  BY DEF BridgeHalf, HookInv, PickPort, PickFails
<1>2. BridgeTypes'
  <2>1. CASE PickFails(c)
    BY <2>1, PortFacts, SMT DEF BridgeHalf, BridgeTypes, PickFails
  <2>2. CASE PickPort(c)
    <3>1. PICK p \in Ports : ports' = [ports EXCEPT ![c] = Append(@, p)]
      BY <2>2 DEF PickPort
    <3>2. Append(ports[c], p) \in Seq(Ports) /\ Len(Append(ports[c], p)) <= N(c)
      BY <2>2, PortFacts, SMT DEF BridgeHalf, BridgeTypes, PickPort, Created
    <3> QED BY <2>2, <3>1, <3>2 DEF BridgeHalf, BridgeTypes, PickPort
  <2> QED BY <2>1, <2>2
<1>3. SocatInv' /\ \A d \in Containers \ {c} : HookInv(d)'
  BY OthersStay DEF PickPort, PickFails, fvars, BridgeHalf, BridgeTypes
<1>4. HookInv(c)'
  BY <1>1 DEF BridgeHalf, HookInv, PickPort, PickFails, PidAt
<1> QED BY <1>2, <1>3, <1>4 DEF BridgeHalf

LEMMA PrestartKeeps ==
    ASSUME BridgeHalf, NEW c \in Containers, Prestart(c)
    PROVE  BridgeHalf'
<1>1. BridgeTypes'
  BY PortFacts, SMT DEF BridgeHalf, BridgeTypes, Prestart
<1>2. SocatInv' /\ \A d \in Containers \ {c} : HookInv(d)'
  BY OthersStay DEF Prestart, fvars, BridgeHalf, BridgeTypes
<1>3. HookInv(c)'
  BY PortFacts, SMT DEF BridgeHalf, BridgeTypes, HookInv, Prestart, PidAt, Created
<1> QED BY <1>1, <1>2, <1>3 DEF BridgeHalf

LEMMA PoststopKeeps ==
    ASSUME BridgeHalf, NEW c \in Containers, Poststop(c)
    PROVE  BridgeHalf'
<1>1. BridgeTypes'
  BY PortFacts, SMT DEF BridgeHalf, BridgeTypes, Poststop
<1>2. SocatInv' /\ \A d \in Containers \ {c} : HookInv(d)'
  BY OthersStay DEF Poststop, fvars, BridgeHalf, BridgeTypes
<1>3. HookInv(c)'
  BY PortFacts, SMT DEF BridgeHalf, BridgeTypes, HookInv, Poststop, PidAt, Created
<1> QED BY <1>1, <1>2, <1>3 DEF BridgeHalf

LEMMA PoststartEndsKeeps ==
    ASSUME BridgeHalf, NEW c \in Containers, PoststartEnds(c)
    PROVE  BridgeHalf'
<1>1. BridgeTypes'
  BY DEF BridgeHalf, BridgeTypes, PoststartEnds
<1>2. SocatInv' /\ \A d \in Containers \ {c} : HookInv(d)'
  BY OthersStay DEF PoststartEnds, fvars, BridgeHalf, BridgeTypes
<1>3. HookInv(c)'
  BY PortFacts, SMT
     DEF BridgeHalf, BridgeTypes, HookInv, PoststartEnds, PidAt, Created, Served, fvars
<1> QED BY <1>1, <1>2, <1>3 DEF BridgeHalf

LEMMA PoststopEndsKeeps ==
    ASSUME BridgeHalf, NEW c \in Containers, PoststopEnds(c)
    PROVE  BridgeHalf'
<1>1. BridgeTypes'
  BY PortFacts, SMT DEF BridgeHalf, BridgeTypes, PoststopEnds
<1>2. SocatInv' /\ \A d \in Containers \ {c} : HookInv(d)'
  BY OthersStay DEF PoststopEnds, fvars, BridgeHalf, BridgeTypes
<1>3. HookInv(c)'
  BY PortFacts, SMT DEF BridgeHalf, BridgeTypes, HookInv, PoststopEnds, PidAt, Created
<1> QED BY <1>1, <1>2, <1>3 DEF BridgeHalf

LEMMA TaskDeletedKeeps ==
    ASSUME BridgeHalf, NEW c \in Containers, TaskDeleted(c)
    PROVE  BridgeHalf'
<1>1. BridgeTypes'
  <2>1. CASE UNCHANGED ports
    BY <2>1 DEF BridgeHalf, BridgeTypes, TaskDeleted
  <2>2. CASE ports' = [ports EXCEPT ![c] = <<>>]
    BY <2>2, PortFacts, SMT DEF BridgeHalf, BridgeTypes, TaskDeleted
  <2> QED BY <2>1, <2>2 DEF TaskDeleted
<1>2. SocatInv' /\ \A d \in Containers \ {c} : HookInv(d)'
  BY OthersStay DEF TaskDeleted, BridgeHalf, BridgeTypes
<1>3. HookInv(c)'
  <2>1. CASE UNCHANGED ports
    <3>1. HookInv(c)
      BY DEF BridgeHalf
    <3>2. /\ \A j : PidAt(c, j)' = PidAt(c, j)
          /\ \A p : Served(c, p)' = Served(c, p)
          /\ Created(c)' = Created(c) /\ HostPort(c)' = HostPort(c)
      BY <2>1 DEF TaskDeleted, PidAt, Served, Created, HostPort
    <3> QED BY <2>1, <3>1, <3>2 DEF HookInv, TaskDeleted
  <2>2. CASE run[c] = "none"
    BY <2>2 DEF BridgeHalf, HookInv, TaskDeleted, PidAt
  <2> QED BY <2>1, <2>2 DEF TaskDeleted
<1> QED BY <1>1, <1>2, <1>3 DEF BridgeHalf

(* A container whose hooks and pid files are left alone keeps its invariant  *)
(* if the ports it serves stay served.                                       *)
LEMMA HookStays ==
    ASSUME NEW d \in Containers, HookInv(d), BridgeTypes, UNCHANGED setting,
           ports'[d] = ports[d], run'[d] = run[d], at'[d] = at[d], d \in veth' => d \in veth,
           \A j \in 1..N(d) : PidAt(d, j)' = PidAt(d, j),
           \A j \in 1..N(d) : PidAt(d, j) \in Pids =>
              LET i == PidAt(d, j) IN
              socat'[i] # None => socat[i] # None /\ socat'[i].port = socat[i].port,
           run[d] # "poststop" => \A p \in Ports : Served(d, p) => Served(d, p)'
    PROVE  HookInv(d)'
<1>1. N(d) \in Nat /\ at[d] \in Nat /\ at[d] >= 1
  BY AtFacts
<1>2. Created(d)' = Created(d) /\ HostPort(d)' = HostPort(d)
  BY DEF Created, HostPort
<1>3. run[d] # "none" => \A j \in 1..N(d) : ports[d][j] \in Ports
  BY CreatedPorts DEF HookInv
<1>4. run[d] = "check" => at[d] \in 1..N(d) /\ PidAt(d, at[d]) \in Pids
  <2>1. run[d] = "check" => at[d] <= N(d) /\ PidAt(d, at[d]) \in Pids
    BY Zenon DEF HookInv
  <2>2. at[d] <= N(d) => at[d] \in 1..N(d)
    BY AtFacts, Zenon
  <2> QED BY <2>1, <2>2, Zenon
<1>5. run[d] = "check" =>
        /\ at[d] <= N(d) /\ PidAt(d, at[d])' \in Pids
        /\ socat'[PidAt(d, at[d])'] # None => socat'[PidAt(d, at[d])'].port = HostPort(d)
        /\ Distinct(d) => \A j \in 1..N(d) : j > at[d] => PidAt(d, j)' = None
  BY <1>4 DEF HookInv
<1>6. ~setting.slow /\ run[d] \in {"poststart", "check", "running"} =>
          \A j \in 1..N(d) : j < at[d] => Served(d, ports[d][j])'
  BY <1>3 DEF HookInv
<1>7. PidAt(d, at[d])' = pidfile'[d][ContainerPorts(d)[at'[d]]]
  BY DEF PidAt
<1> QED BY <1>2, <1>5, <1>6, <1>7 DEF HookInv, PidAt

LEMMA LaunchSocatKeeps ==
    ASSUME BridgeHalf, NEW c \in Containers, LaunchSocat(c)
    PROVE  BridgeHalf'
<1> DEFINE new == [of |-> c, port |-> HostPort(c), state |-> "starting"]
<1>1. PICK i \in Pids :
        /\ FreePid(i)
        /\ socat' = [socat EXCEPT ![i] = new]
        /\ pidfile' = [pidfile EXCEPT ![c][ContainerPort(c)] = i]
  BY DEF LaunchSocat
<1>2. at[c] \in 1..N(c) /\ ContainerPort(c) \in AllPorts /\ HostPort(c) \in Ports
      /\ ContainerPort(c) = ContainerPorts(c)[at[c]]
  <2>1. BridgeTypes /\ at[c] <= N(c) /\ Created(c)
    BY DEF BridgeHalf, HookInv, LaunchSocat
  <2> QED BY <2>1, AtFacts, CreatedPorts DEF HostPort
<1>3. new \in Process /\ new # None
  BY <1>2, NoneAssumption, SMT DEF Process
<1>4. BridgeTypes'
  BY <1>1, <1>2, <1>3 DEF BridgeHalf, BridgeTypes, LaunchSocat
<1>5. ASSUME NEW d \in Containers, NEW j \in 1..N(d)
      PROVE  /\ PidAt(d, j) # i
             /\ PidAt(d, j)' = IF d = c /\ ContainerPorts(d)[j] = ContainerPort(c)
                               THEN i ELSE PidAt(d, j)
  BY <1>1, <1>2, PortFacts DEF BridgeHalf, BridgeTypes, FreePid, PidAt
<1>6. /\ socat[i] = None /\ socat'[i] = new /\ UNCHANGED <<bound, setting>>
      /\ \A x \in Pids \ {i} : socat'[x] = socat[x]
  BY <1>1 DEF BridgeHalf, BridgeTypes, FreePid, LaunchSocat, fvars
<1>7. SocatInv'
  <2>1. \A p \in Ports, x \in Pids :
          bound'[p] = <<"socat", x>> <=>
              socat'[x] # None /\ socat'[x].state = "listening" /\ socat'[x].port = p
    <3> TAKE p \in Ports, x \in Pids
    <3>1. bound[p] = <<"socat", x>> <=>
              socat[x] # None /\ socat[x].state = "listening" /\ socat[x].port = p
      BY DEF BridgeHalf, SocatInv
    <3> QED BY <1>6, <3>1, SMT
  <2>2. \A d \in Containers : \A j \in 1..N(d), x \in Pids :
          PidAt(d, j)' = x /\ socat'[x] # None => socat'[x].of = d
    <3> TAKE d \in Containers
    <3> TAKE j \in 1..N(d), x \in Pids
    <3>1. PidAt(d, j) = x /\ socat[x] # None => socat[x].of = d
      BY SMT DEF BridgeHalf, SocatInv
    <3>2. CASE d = c /\ ContainerPorts(d)[j] = ContainerPort(c)
      <4>1. PidAt(d, j)' = i
        BY <1>5, <3>2
      <4> QED BY <1>6, <3>2, <4>1, SMT
    <3>3. CASE ~(d = c /\ ContainerPorts(d)[j] = ContainerPort(c))
      <4>1. PidAt(d, j) # i
        BY <1>5
      <4>2. PidAt(d, j)' = PidAt(d, j)
        BY <1>5, <3>3, SMTT(20)
      <4> QED BY <1>6, <3>1, <4>1, <4>2
    <3> QED BY <3>2, <3>3
  <2>3. ASSUME NEW x \in Pids, NEW d \in Containers,
               socat'[x] # None, socat'[x].of = d, Distinct(d)
        PROVE  \E j \in 1..N(d) : PidAt(d, j)' = x
    <3>1. CASE x = i
      <4>1. PICK j \in 1..N(c) : j = at[c]
        BY <1>2
      <4>2. d = c
        BY <2>3, <3>1, <1>6, SMT
      <4>3. PidAt(c, j)' = i
        BY <4>1, <1>2, <1>5
      <4> QED BY <3>1, <4>2, <4>3
    <3>2. CASE x # i
      <4>1. socat[x] # None /\ socat[x].of = d
        BY <3>2, <2>3, <1>6
      <4>2. PICK j \in 1..N(d) : PidAt(d, j) = x
        BY <4>1, <2>3 DEF BridgeHalf, SocatInv
      <4>3. ~(d = c /\ ContainerPorts(c)[j] = ContainerPort(c))
        <5> SUFFICES ASSUME d = c, ContainerPorts(c)[j] = ContainerPort(c)
                     PROVE  FALSE
          OBVIOUS
        <5>1. j = at[c]
          BY <2>3, <1>2, PortFacts DEF Distinct
        <5>2. PidAt(c, j) = None
          BY <2>3, <5>1, <1>2, SMT DEF BridgeHalf, BridgeTypes, HookInv, LaunchSocat
        <5> QED BY <4>2, <5>2, BridgeAssumption
      <4> QED BY <4>2, <4>3, <1>5
    <3> QED BY <3>1, <3>2
  <2>4. \A x \in Pids : socat'[x] # None => socat'[x].of \in Containers
    BY <1>4 DEF BridgeTypes, Process
  <2> QED BY <2>1, <2>2, <2>3, <2>4 DEF SocatInv, PidAt
<1>8. ASSUME NEW d \in Containers, NEW p \in Ports, Served(d, p) PROVE Served(d, p)'
  BY <1>6, <1>8 DEF Served
<1>9. ASSUME NEW d \in Containers \ {c} PROVE HookInv(d)'
  <2>1. HookInv(d) /\ BridgeTypes
    BY DEF BridgeHalf
  <2>2. ports'[d] = ports[d] /\ run'[d] = run[d] /\ at'[d] = at[d] /\ veth' = veth
    BY <2>1 DEF LaunchSocat, BridgeTypes
  <2> HIDE DEF new
  <2> QED BY <1>5, <1>6, <1>8, <2>1, <2>2, HookStays
<1>10. HookInv(c)'
  <2>1. HookInv(c) /\ run[c] = "poststart" /\ at' = at /\ ports' = ports /\ run'[c] = "check"
        /\ veth' = veth
    BY DEF BridgeHalf, BridgeTypes, LaunchSocat
  <2>2. pidfile'[c][ContainerPorts(c)[at[c]]] = i
    <3>1. PICK j \in 1..N(c) : j = at[c]
      BY <1>2
    <3> QED BY <3>1, <1>2, <1>5 DEF PidAt
  <2>3. Distinct(c) => \A j \in 1..N(c) : j > at[c] => PidAt(c, j)' = None
    <3> SUFFICES ASSUME Distinct(c), NEW j \in 1..N(c), j > at[c] PROVE PidAt(c, j)' = None
      OBVIOUS
    <3>1. at[c] \in Nat /\ N(c) \in Nat
      BY AtFacts DEF BridgeHalf
    <3>2. PidAt(c, j) = None
      <4>1. \A k \in 1..N(c) : k >= at[c] => PidAt(c, k) = None
        BY <2>1, Zenon DEF HookInv
      <4> QED BY <3>1, <4>1, SMT
    <3>3. ContainerPorts(c)[j] # ContainerPorts(c)[at[c]]
      BY <1>2, <3>1, PortFacts, SMT DEF Distinct
    <3> QED BY <1>2, <1>5, <3>2, <3>3
  <2>4. \A j \in 1..N(c) : ports[c][j] \in Ports
    BY <2>1, CreatedPorts DEF HookInv, BridgeHalf
  <2>5. ~setting.slow => \A j \in 1..N(c) : j < at[c] => Served(c, ports[c][j])'
    BY <2>1, <2>4, <1>8 DEF HookInv
  <2>6. Created(c)' /\ HostPort(c)' = HostPort(c)
    BY <2>1 DEF HookInv, Created, HostPort
  <2>7. PidAt(c, at[c])' = i
    BY <2>1, <2>2 DEF PidAt
  <2>8. socat'[i].port = HostPort(c)
    BY <1>6, SMT
  <2> HIDE DEF new
  <2>9. UNCHANGED setting /\ i \in Pids /\ at[c] <= N(c)
    BY <1>6, <1>2, AtFacts, SMT DEF BridgeHalf
  <2> QED BY <2>1, <2>3, <2>5, <2>6, <2>7, <2>8, <2>9 DEF HookInv
<1> QED BY <1>4, <1>7, <1>9, <1>10 DEF BridgeHalf

LEMMA CheckSocatKeeps ==
    ASSUME BridgeHalf, NEW c \in Containers, CheckSocat(c)
    PROVE  BridgeHalf'
<1> DEFINE i == pidfile[c][ContainerPort(c)]
<1>1. /\ HookInv(c) /\ run[c] = "check" /\ at[c] \in 1..N(c)
      /\ i = PidAt(c, at[c]) /\ i \in Pids /\ ContainerPort(c) \in AllPorts
      /\ ContainerPort(c) = ContainerPorts(c)[at[c]]
  <2>1. BridgeTypes /\ HookInv(c) /\ run[c] = "check"
    BY DEF BridgeHalf, CheckSocat
  <2>2. at[c] <= N(c) /\ PidAt(c, at[c]) \in Pids
    BY <2>1, Zenon DEF HookInv
  <2> QED BY <2>1, <2>2, AtFacts
<1>2. UNCHANGED <<setting, bound, socat, ports, veth>>
  BY DEF CheckSocat, fvars
<1>3. CASE socat[i] = None
  <2>1. /\ pidfile' = [pidfile EXCEPT ![c][ContainerPort(c)] = None]
        /\ run' = [run EXCEPT ![c] = "failed"] /\ at' = at
    BY <1>3 DEF CheckSocat
  <2>2. BridgeTypes'
    BY <1>1, <1>2, <2>1 DEF BridgeHalf, BridgeTypes
  <2>3. ASSUME NEW d \in Containers, NEW j \in 1..N(d)
        PROVE  PidAt(d, j)' = IF d = c /\ ContainerPorts(d)[j] = ContainerPort(c)
                              THEN None ELSE PidAt(d, j)
    BY <1>1, <2>1, PortFacts DEF BridgeHalf, BridgeTypes, PidAt
  <2>4. ASSUME NEW x \in Pids, NEW d \in Containers,
               socat[x] # None, socat[x].of = d, Distinct(d)
        PROVE  \E j \in 1..N(d) : PidAt(d, j)' = x
    <3>1. PICK j \in 1..N(d) : PidAt(d, j) = x
      BY <2>4 DEF BridgeHalf, SocatInv
    <3>2. ~(d = c /\ ContainerPorts(d)[j] = ContainerPort(c))
      BY <3>1, <2>4, <1>3 DEF PidAt
    <3> QED BY <3>1, <3>2, <2>3
  <2>5. \A x \in Pids : socat[x] # None => socat[x].of \in Containers
    BY DEF BridgeHalf, BridgeTypes, Process
  <2>6. \A d \in Containers : \A j \in 1..N(d), x \in Pids :
          PidAt(d, j)' = x /\ socat[x] # None => socat[x].of = d
    <3> TAKE d \in Containers
    <3> TAKE j \in 1..N(d), x \in Pids
    <3>1. PidAt(d, j) = x /\ socat[x] # None => socat[x].of = d
      BY DEF BridgeHalf, SocatInv
    <3>2. PidAt(d, j)' = PidAt(d, j) \/ PidAt(d, j)' = None
      BY <2>3
    <3> QED BY <3>1, <3>2, BridgeAssumption
  <2>7. SocatInv'
    <3>1. \A p \in Ports, x \in Pids :
            bound[p] = <<"socat", x>> <=>
                socat[x] # None /\ socat[x].state = "listening" /\ socat[x].port = p
      BY DEF BridgeHalf, SocatInv
    <3>2. \A x \in Pids, d \in Containers :
            socat[x] # None /\ socat[x].of = d /\ Distinct(d) =>
                \E j \in 1..N(d) : PidAt(d, j)' = x
      BY <2>4
    <3> QED BY <1>2, <2>5, <2>6, <3>1, <3>2, SMT DEF SocatInv, PidAt
  <2>8. ASSUME NEW d \in Containers \ {c} PROVE HookInv(d)'
    <3>1. HookInv(d) /\ BridgeTypes
      BY DEF BridgeHalf
    <3>2. run'[d] = run[d] /\ at'[d] = at[d] /\ \A j \in 1..N(d) : PidAt(d, j)' = PidAt(d, j)
      BY <2>1, <2>3, <3>1 DEF BridgeTypes
    <3>3. \A p \in Ports : Served(d, p) => Served(d, p)'
      BY <1>2 DEF Served
    <3> QED BY <1>2, <3>1, <3>2, <3>3, HookStays
  <2>9. HookInv(c)'
    BY <1>1, <1>2, <2>1 DEF HookInv, Created, BridgeHalf, BridgeTypes
  <2> QED BY <2>2, <2>7, <2>8, <2>9 DEF BridgeHalf
<1>4. CASE socat[i] # None
  <2>1. /\ at' = [at EXCEPT ![c] = @ + 1] /\ run' = [run EXCEPT ![c] = "poststart"]
        /\ pidfile' = pidfile
        /\ setting.slow \/ socat[i].state = "listening"
    BY <1>4 DEF CheckSocat
  <2>2. BridgeTypes'
    BY <1>1, <1>2, <2>1, PortFacts, SMT DEF BridgeHalf, BridgeTypes
  <2>3. SocatInv' /\ \A d \in Containers \ {c} : HookInv(d)'
    BY <1>2, <2>1, OthersStay DEF BridgeHalf, BridgeTypes
  <2>4. /\ at'[c] = at[c] + 1 /\ run'[c] = "poststart" /\ at[c] \in Nat
        /\ \A j : PidAt(c, j)' = PidAt(c, j)
        /\ \A p : Served(c, p)' = Served(c, p)
    BY <1>2, <2>1 DEF BridgeHalf, BridgeTypes, PidAt, Served
  <2>5. HostPort(c) \in Ports /\ HostPort(c) = ports[c][at[c]]
    <3>1. BridgeTypes /\ Created(c)
      BY <1>1 DEF HookInv, BridgeHalf
    <3> QED BY <1>1, <3>1, CreatedPorts DEF HostPort
  <2>6. ~setting.slow => Served(c, HostPort(c))
    <3>1. socat[i].of = c /\ socat[i].port = HostPort(c)
      <4>1. socat[i].port = HostPort(c)
        BY <1>1, <1>4, Zenon DEF HookInv
      <4>2. \A j \in 1..N(c), x \in Pids : PidAt(c, j) = x /\ socat[x] # None => socat[x].of = c
        BY DEF BridgeHalf, SocatInv
      <4> QED BY <1>1, <1>4, <4>1, <4>2
    <3>2. ~setting.slow => bound[HostPort(c)] = <<"socat", i>>
      BY <1>1, <1>4, <2>1, <2>5, <3>1 DEF BridgeHalf, SocatInv
    <3> QED BY <1>1, <1>4, <3>1, <3>2 DEF Served
  <2>7. ~setting.slow => \A j \in 1..N(c) : j < at[c] + 1 => Served(c, ports[c][j])
    <3>1. ~setting.slow => \A j \in 1..N(c) : j < at[c] => Served(c, ports[c][j])
      BY <1>1, Zenon DEF HookInv
    <3>2. \A j \in 1..N(c) : j < at[c] + 1 => j < at[c] \/ j = at[c]
      BY AtFacts, Zenon DEF BridgeHalf
    <3> QED BY <2>5, <2>6, <3>1, <3>2
  <2>8. Distinct(c) => \A j \in 1..N(c) : j >= at[c] + 1 => PidAt(c, j) = None
    <3>1. Distinct(c) => \A j \in 1..N(c) : j > at[c] => PidAt(c, j) = None
      BY <1>1, Zenon DEF HookInv
    <3>2. \A j \in 1..N(c) : j >= at[c] + 1 => j > at[c]
      BY AtFacts, Zenon DEF BridgeHalf
    <3> QED BY <3>1, <3>2
  <2>9. Created(c)'
    BY <1>1, <1>2 DEF HookInv, Created
  <2>10. HookInv(c)'
    BY <1>2, <2>4, <2>7, <2>8, <2>9 DEF HookInv
  <2> QED BY <2>2, <2>3, <2>10 DEF BridgeHalf
<1> QED BY <1>3, <1>4

LEMMA KillSocatKeeps ==
    ASSUME BridgeHalf, BoundTypes, NEW c \in Containers, KillSocat(c)
    PROVE  BridgeHalf' /\ BoundTypes' /\ ForwardsStay
<1> DEFINE i == pidfile[c][ContainerPort(c)]
<1>1. /\ HookInv(c) /\ run[c] = "poststop" /\ at[c] \in 1..N(c) /\ i = PidAt(c, at[c])
      /\ i \in Pids \cup {None} /\ ContainerPort(c) \in AllPorts
      /\ ContainerPort(c) = ContainerPorts(c)[at[c]]
  <2>1. BridgeTypes /\ HookInv(c) /\ run[c] = "poststop" /\ at[c] <= N(c)
    BY DEF BridgeHalf, KillSocat
  <2> QED BY <2>1, AtFacts, SMT
<1>2. /\ UNCHANGED <<setting, ports, run, veth>>
      /\ at' = [at EXCEPT ![c] = @ + 1]
      /\ pidfile' = [pidfile EXCEPT ![c][ContainerPort(c)] = None]
      /\ socat' = [k \in Pids |-> IF k = i THEN None ELSE socat[k]]
      /\ bound' = [p \in Ports |-> IF bound[p] = <<"socat", i>> THEN None ELSE bound[p]]
  BY DEF KillSocat
<1>3. BridgeTypes'
  <2>1. at' \in [Containers -> Nat] /\ \A d \in Containers : at'[d] \in 1..N(d) + 1
    <3>1. N(c) \in Nat /\ at[c] \in 1..N(c)
      BY <1>1, PortFacts
    <3>2. at[c] + 1 \in Nat /\ at[c] + 1 \in 1..N(c) + 1
      BY <3>1, SMT
    <3> QED BY <1>2, <3>2 DEF BridgeHalf, BridgeTypes
  <2>2. socat' \in [Pids -> Process \cup {None}]
    BY <1>2 DEF BridgeHalf, BridgeTypes
  <2>3. pidfile' \in [Containers -> [AllPorts -> Pids \cup {None}]]
    BY <1>1, <1>2 DEF BridgeHalf, BridgeTypes
  <2> QED BY <1>2, <2>1, <2>2, <2>3 DEF BridgeHalf, BridgeTypes
<1>4. BoundTypes' /\ ForwardsStay
  BY <1>2, SMT DEF BoundTypes, ForwardsStay
<1>5. ASSUME NEW d \in Containers, NEW j \in 1..N(d)
      PROVE  PidAt(d, j)' = IF d = c /\ ContainerPorts(d)[j] = ContainerPort(c)
                            THEN None ELSE PidAt(d, j)
  BY <1>1, <1>2, PortFacts DEF BridgeHalf, BridgeTypes, PidAt
<1>6. \A x \in Pids : socat'[x] # None => x # i /\ socat'[x] = socat[x]
  BY <1>2
<1> HIDE DEF i
<1>7. SocatInv'
  <2>1. \A p \in Ports, x \in Pids :
          bound'[p] = <<"socat", x>> <=>
              socat'[x] # None /\ socat'[x].state = "listening" /\ socat'[x].port = p
    <3> TAKE p \in Ports, x \in Pids
    <3>1. CASE x = i
      BY <1>2, <3>1, NoneAssumption
    <3>2. CASE x # i
      <4>1. socat'[x] = socat[x]
        BY <1>2, <3>2
      <4>2. bound'[p] = <<"socat", x>> <=> bound[p] = <<"socat", x>>
        <5>1. <<"socat", x>> # <<"socat", i>>
          BY <3>2
        <5>2. None # <<"socat", x>>
          BY NoneAssumption
        <5>3. bound'[p] = IF bound[p] = <<"socat", i>> THEN None ELSE bound[p]
          BY <1>2
        <5> QED BY <5>1, <5>2, <5>3, Zenon
      <4> QED BY <4>1, <4>2, SMT DEF BridgeHalf, SocatInv
    <3> QED BY <3>1, <3>2
  <2>2. \A d \in Containers : \A j \in 1..N(d), x \in Pids :
          PidAt(d, j)' = x /\ socat'[x] # None => socat'[x].of = d
    <3> TAKE d \in Containers
    <3> TAKE j \in 1..N(d), x \in Pids
    <3>1. PidAt(d, j) = x /\ socat[x] # None => socat[x].of = d
      BY DEF BridgeHalf, SocatInv
    <3>2. PidAt(d, j)' = PidAt(d, j) \/ PidAt(d, j)' = None
      BY <1>5
    <3> QED BY <1>6, <3>1, <3>2, BridgeAssumption
  <2>3. ASSUME NEW x \in Pids, NEW d \in Containers,
               socat'[x] # None, socat'[x].of = d, Distinct(d)
        PROVE  \E j \in 1..N(d) : PidAt(d, j)' = x
    <3>1. x # i /\ socat[x] # None /\ socat[x].of = d
      BY <2>3, <1>6
    <3>2. PICK j \in 1..N(d) : PidAt(d, j) = x
      BY <3>1, <2>3 DEF BridgeHalf, SocatInv
    <3>3. ~(d = c /\ ContainerPorts(d)[j] = ContainerPort(c))
      BY <3>1, <3>2 DEF PidAt, i
    <3> QED BY <3>2, <3>3, <1>5
  <2>4. \A x \in Pids : socat'[x] # None => socat'[x].of \in Containers
    BY <1>3 DEF BridgeTypes, Process
  <2> QED BY <2>1, <2>2, <2>3, <2>4 DEF SocatInv, PidAt
<1>8. ASSUME NEW d \in Containers \ {c} PROVE HookInv(d)'
  <2>1. HookInv(d) /\ BridgeTypes
    BY DEF BridgeHalf
  <2>2. /\ ports'[d] = ports[d] /\ run'[d] = run[d] /\ at'[d] = at[d]
        /\ \A j \in 1..N(d) : PidAt(d, j)' = PidAt(d, j)
    BY <1>2, <1>5, <2>1 DEF BridgeTypes
  <2>3. ASSUME NEW p \in Ports, Served(d, p) PROVE Served(d, p)'
    <3>1. PICK x \in Pids : bound[p] = <<"socat", x>> /\ socat[x] # None /\ socat[x].of = d
      BY <2>3 DEF Served
    <3>2. x # i
      <4> SUFFICES ASSUME x = i PROVE FALSE
        OBVIOUS
      <4>1. socat[x].of = c
        <5>1. \A j \in 1..N(c), y \in Pids : PidAt(c, j) = y /\ socat[y] # None => socat[y].of = c
          BY DEF BridgeHalf, SocatInv
        <5> QED BY <1>1, <3>1, <5>1
      <4> QED BY <3>1, <4>1
    <3>3. bound'[p] = <<"socat", x>> /\ socat'[x] = socat[x]
      BY <1>2, <3>1, <3>2, SMT
    <3> QED BY <3>1, <3>3 DEF Served
  <2> QED BY <1>2, <1>6, <2>1, <2>2, <2>3, HookStays
<1>9. HookInv(c)'
  <2>1. at'[c] = at[c] + 1 /\ run'[c] = "poststop" /\ at[c] \in Nat
    BY <1>1, <1>2 DEF BridgeHalf, BridgeTypes
  <2>2. \A j \in 1..N(c) : j < at[c] + 1 => PidAt(c, j)' = None
    <3> SUFFICES ASSUME NEW j \in 1..N(c), j < at[c] + 1 PROVE PidAt(c, j)' = None
      OBVIOUS
    <3>1. j < at[c] \/ j = at[c]
      BY AtFacts, Zenon DEF BridgeHalf
    <3>2. j < at[c] => PidAt(c, j) = None
      BY <1>1, Zenon DEF HookInv
    <3> QED BY <1>1, <1>5, <3>1, <3>2
  <2>3. Created(c)'
    BY <1>1, <1>2 DEF HookInv, Created
  <2> QED BY <1>2, <2>1, <2>2, <2>3 DEF HookInv
<1> QED BY <1>3, <1>4, <1>7, <1>8, <1>9 DEF BridgeHalf

LEMMA SocatBindsKeeps ==
    ASSUME BridgeHalf, BoundTypes, NEW i \in Pids, SocatBinds(i)
    PROVE  BridgeHalf' /\ BoundTypes' /\ ForwardsStay
<1>1. /\ socat[i] \in Process /\ socat[i] # None /\ socat[i].state = "starting"
      /\ socat[i].port \in Ports
      /\ UNCHANGED <<setting, ports, run, at, pidfile, veth>>
  BY DEF BridgeHalf, BridgeTypes, SocatBinds, Process
<1>2. /\ \A x \in Pids \ {i} : socat'[x] = socat[x]
      /\ \/ /\ bound[socat[i].port] = None
            /\ bound' = [bound EXCEPT ![socat[i].port] = <<"socat", i>>]
            /\ socat'[i] = [socat[i] EXCEPT !.state = "listening"]
         \/ bound' = bound /\ socat'[i] = None
  BY DEF BridgeHalf, BridgeTypes, SocatBinds
<1>3. [socat[i] EXCEPT !.state = "listening"] \in Process
  BY <1>1 DEF Process
<1>4. BridgeTypes'
  <2>1. socat' \in [Pids -> Process \cup {None}]
    BY <1>3 DEF SocatBinds, BridgeHalf, BridgeTypes
  <2> QED BY <1>1, <2>1 DEF BridgeHalf, BridgeTypes
<1>5. BoundTypes' /\ ForwardsStay
  BY <1>1, <1>2, NoneAssumption, SMT DEF BoundTypes, ForwardsStay
<1>6. \A x \in Pids : socat'[x] # None =>
         socat[x] # None /\ socat'[x].of = socat[x].of /\ socat'[x].port = socat[x].port
  BY <1>1, <1>2, SMT DEF Process
<1>7. SocatInv'
  <2>1. \A p \in Ports, x \in Pids :
          bound'[p] = <<"socat", x>> <=>
              socat'[x] # None /\ socat'[x].state = "listening" /\ socat'[x].port = p
    <3>0. \A p \in Ports : bound[p] # <<"socat", i>>
      BY <1>1 DEF BridgeHalf, SocatInv
    <3>1. CASE bound' = bound /\ socat'[i] = None
      BY <1>2, <3>0, <3>1, SMT DEF BridgeHalf, SocatInv
    <3>2. CASE /\ bound[socat[i].port] = None
               /\ bound' = [bound EXCEPT ![socat[i].port] = <<"socat", i>>]
               /\ socat'[i] = [socat[i] EXCEPT !.state = "listening"]
      <4>1. socat'[i] # None /\ socat'[i].state = "listening" /\ socat'[i].port = socat[i].port
        BY <1>1, <1>3, <3>2, NoneAssumption DEF Process
      <4>2. \A p \in Ports : bound'[p] = <<"socat", i>> <=> p = socat[i].port
        BY <1>1, <3>0, <3>2 DEF BoundTypes
      <4>3. \A p \in Ports, x \in Pids \ {i} :
              bound'[p] = <<"socat", x>> <=> bound[p] = <<"socat", x>>
        BY <1>1, <3>2, NoneAssumption DEF BoundTypes
      <4> QED BY <1>2, <4>1, <4>2, <4>3, SMT DEF BridgeHalf, SocatInv
    <3> QED BY <1>2, <3>1, <3>2
  <2>2. \A x \in Pids : socat[x] # None => socat[x].of \in Containers
    BY DEF BridgeHalf, BridgeTypes, Process
  <2>3. /\ \A c \in Containers : \A j \in 1..N(c), x \in Pids :
              PidAt(c, j) = x /\ socat[x] # None => socat[x].of = c
        /\ \A x \in Pids : socat[x] # None /\ Distinct(socat[x].of) =>
              \E j \in 1..N(socat[x].of) : PidAt(socat[x].of, j) = x
    BY DEF BridgeHalf, SocatInv
  <2>4. \A c, j : PidAt(c, j)' = PidAt(c, j)
    BY <1>1 DEF PidAt
  <2>5. \A c \in Containers : \A j \in 1..N(c), x \in Pids :
              PidAt(c, j)' = x /\ socat'[x] # None => socat'[x].of = c
    BY <1>6, <2>3, <2>4
  <2>6. ASSUME NEW x \in Pids, NEW d \in Containers,
               socat'[x] # None, socat'[x].of = d, Distinct(d)
        PROVE  \E j \in 1..N(d) : PidAt(d, j)' = x
    <3>1. socat[x] # None /\ socat[x].of = d
      BY <1>6, <2>6
    <3>2. PICK j \in 1..N(d) : PidAt(d, j) = x
      BY <2>3, <2>6, <3>1
    <3> QED BY <2>4, <3>2
  <2>7. \A x \in Pids : socat'[x] # None => socat'[x].of \in Containers
    BY <1>6, <2>2
  <2> QED BY <2>1, <2>5, <2>6, <2>7 DEF SocatInv, PidAt
<1>8. ASSUME NEW d \in Containers PROVE HookInv(d)'
  <2>1. HookInv(d) /\ BridgeTypes
    BY DEF BridgeHalf
  <2>2. ASSUME NEW p \in Ports, Served(d, p) PROVE Served(d, p)'
    <3>1. PICK x \in Pids : bound[p] = <<"socat", x>> /\ socat[x] # None /\ socat[x].of = d
      BY <2>2 DEF Served
    <3>2. x # i
      BY <3>1, <1>1 DEF BridgeHalf, SocatInv
    <3>3. bound'[p] = <<"socat", x>>
      BY <1>1, <1>2, <3>1, NoneAssumption DEF BoundTypes
    <3> QED BY <1>2, <3>1, <3>2, <3>3 DEF Served
  <2>3. \A j \in 1..N(d) : PidAt(d, j)' = PidAt(d, j)
    BY <1>1 DEF PidAt
  <2> QED BY <1>1, <1>6, <2>1, <2>2, <2>3, HookStays
<1> QED BY <1>4, <1>5, <1>7, <1>8 DEF BridgeHalf

------------------------------------------------------------------------------
(* The composition *)

LEMMA DeleteBegins ==
    ASSUME ForwardHalf, BridgeHalf, NEW c \in Containers, Delete(c)
    PROVE  ForwardHalf' /\ BridgeHalf'
<1> USE DEF Delete, forward
<1>1. OldInv'
  BY SMT DEF ForwardHalf, ForwardTypes, OldInv
<1>2. ForwardHalf'
  BY <1>1, HandleStays DEF ForwardHalf, ForwardTypes
<1>3. SocatsStay
  BY DEF SocatsStay
<1> QED BY <1>2, <1>3, BridgeUnmoved

LEMMA TaskDeletedForward ==
    ASSUME ForwardHalf, NEW c \in Containers, TaskDeleted(c)
    PROVE  ForwardHalf'
<1> USE DEF TaskDeleted, forward
<1>1. OldInv'
  BY SMT DEF ForwardHalf, ForwardTypes, OldInv
<1> QED BY <1>1, HandleStays DEF ForwardHalf, ForwardTypes

(* Every step keeps the invariant. *)
LEMMA NetInvKept == NetInv /\ [Next]_vars => NetInv'
<1> SUFFICES ASSUME ForwardHalf, BridgeHalf, [Next]_vars PROVE ForwardHalf' /\ BridgeHalf'
  BY Halves, PTL
<1>1. CASE ForwardNext /\ UNCHANGED bvars
  BY <1>1, ForwardNextKeeps, BridgeUnmoved
<1>2. ASSUME NEW c \in Containers,
             PickPort(c) \/ PickFails(c) \/ Prestart(c) \/ Poststop(c)
                \/ LaunchSocat(c) \/ CheckSocat(c) \/ PoststartEnds(c) \/ PoststopEnds(c)
      PROVE  ForwardHalf' /\ BridgeHalf'
  <2>1. ForwardHalf'
    BY <1>2, ForwardStill
       DEF PickPort, PickFails, Prestart, Poststop, LaunchSocat, CheckSocat, PoststartEnds,
           PoststopEnds, fvars
  <2> QED BY <1>2, <2>1, PickKeeps, PrestartKeeps, PoststopKeeps, LaunchSocatKeeps,
             CheckSocatKeeps, PoststartEndsKeeps, PoststopEndsKeeps
<1>3. ASSUME NEW c \in Containers, KillSocat(c) PROVE ForwardHalf' /\ BridgeHalf'
  <2>1. BridgeHalf' /\ BoundTypes' /\ ForwardsStay
    BY <1>3, KillSocatKeeps DEF ForwardHalf
  <2> QED BY <1>3, <2>1, ForwardUnmoved DEF KillSocat, forward
<1>4. ASSUME NEW i \in Pids, SocatBinds(i) PROVE ForwardHalf' /\ BridgeHalf'
  <2>1. BridgeHalf' /\ BoundTypes' /\ ForwardsStay
    BY <1>4, SocatBindsKeeps DEF ForwardHalf
  <2> QED BY <1>4, <2>1, ForwardUnmoved DEF SocatBinds, forward
<1>5. ASSUME NEW c \in Containers, Delete(c) \/ TaskDeleted(c)
      PROVE  ForwardHalf' /\ BridgeHalf'
  BY <1>5, DeleteBegins, TaskDeletedForward, TaskDeletedKeeps
<1>6. CASE UNCHANGED vars
  <2>1. SocatsStay /\ ForwardHalf'
    BY <1>6, ForwardStill DEF vars, fvars, SocatsStay
  <2> QED BY <1>6, <2>1, BridgeUnmoved DEF vars, fvars
<1> QED BY <1>1, <1>2, <1>3, <1>4, <1>5, <1>6 DEF Next, Hook

(* NetInvariant: the inductive invariant of forwards and hooks holds always. *)
THEOREM NetInvariant == Spec => []NetInv
BY Initially, NetInvKept, PTL DEF Spec

(* TypeCorrect: type correctness of the model of forwards, hooks and ports,  *)
(* for any containers, bindings, ports, forwards and pids.                   *)
THEOREM TypeCorrect == Spec => []TypeOK
<1>1. NetInv => TypeOK
  BY DEF NetInv
<1> QED BY <1>1, NetInvariant, PTL

(* ReleaseSafety: when delete_container has returned, the forwards it found  *)
(* have ended, and a container whose task is gone has no socat and no veth   *)
(* (stop_managed_forwards, build_poststop_script).                           *)
THEOREM ReleaseSafety == Spec => []DeleteReleasesPorts
<1>1. NetInv => DeleteReleasesPorts
  <2> SUFFICES ASSUME ForwardHalf, BridgeHalf, NEW c \in Containers
               PROVE  /\ del[c] = "idle" => \A f \in old[c] : task[f] = "done"
                      /\ run[c] = "none" /\ Distinct(c) =>
                            c \notin veth /\ \A i \in Pids : socat[i] # None => socat[i].of # c
    BY Halves DEF DeleteReleasesPorts
  <2>1. del[c] = "idle" => \A f \in old[c] : task[f] = "done"
    BY DEF ForwardHalf, OldInv
  <2>2. run[c] = "none" => c \notin veth /\ \A j \in 1..N(c) : PidAt(c, j) = None
    BY DEF BridgeHalf, HookInv
  <2>3. Distinct(c) => \A i \in Pids : socat[i] # None /\ socat[i].of = c =>
            \E j \in 1..N(c) : PidAt(c, j) = i
    BY DEF BridgeHalf, SocatInv
  <2> QED BY <2>1, <2>2, <2>3, BridgeAssumption
<1> QED BY <1>1, NetInvariant, PTL

(* ReachableSafety: a container whose poststart hook has succeeded has each  *)
(* of its host ports served by a socat of its own, whoever else wanted them  *)
(* (pick_free_port, build_poststart_script).                                 *)
THEOREM ReachableSafety == Spec => []RunningIsReachable
<1>1. NetInv => RunningIsReachable
  <2> SUFFICES ASSUME BridgeHalf, ~setting.slow, NEW c \in Containers, run[c] = "running",
                      NEW k \in 1..N(c)
               PROVE  Served(c, ports[c][k])
    BY Halves DEF RunningIsReachable, Served
  <2>1. HookInv(c)
    BY DEF BridgeHalf
  <2>2. at[c] = N(c) + 1 /\ \A j \in 1..N(c) : j < at[c] => Served(c, ports[c][j])
    BY <2>1 DEF HookInv
  <2>3. N(c) \in Nat
    BY PortFacts
  <2>4. k < N(c) + 1
    BY <2>3, SMT
  <2> QED BY <2>2, <2>4, Zenon
<1> QED BY <1>1, NetInvariant, PTL

(* KillSafety: a listening socat ends only when its own container stops      *)
(* (build_poststop_script).                                                  *)
THEOREM KillSafety == Spec => KillsOwn
<1>1. NetInv /\ [Next]_vars =>
        [\A i \in Pids : socat[i] # None /\ socat[i].state = "listening" /\ socat'[i] = None =>
              run[socat[i].of] = "poststop"]_vars
  <2> SUFFICES ASSUME BridgeHalf, Next, NEW i \in Pids, socat[i] # None,
                      socat[i].state = "listening", socat'[i] = None
               PROVE  run[socat[i].of] = "poststop"
    BY Halves
  <2>1. \E c \in Containers : KillSocat(c)
    <3>1. ASSUME NEW c \in Containers, LaunchSocat(c) PROVE FALSE
      <4>1. PICK x \in Pids : /\ socat[x] = None
                              /\ socat' = [socat EXCEPT ![x] = [of |-> c, port |-> HostPort(c),
                                                               state |-> "starting"]]
        BY <3>1 DEF LaunchSocat, FreePid
      <4> QED BY <4>1 DEF BridgeHalf, BridgeTypes
    <3>2. ASSUME NEW x \in Pids, SocatBinds(x) PROVE FALSE
      <4>1. x # i
        BY <3>2 DEF SocatBinds
      <4> QED BY <3>2, <4>1 DEF SocatBinds, BridgeHalf, BridgeTypes
    <3>3. socat' # socat
      OBVIOUS
    <3> QED BY <3>1, <3>2, <3>3
         DEF Next, Hook, bvars, PickPort, PickFails, Prestart, Poststop, CheckSocat,
             PoststartEnds, PoststopEnds, Delete, TaskDeleted
  <2>2. PICK c \in Containers : KillSocat(c)
    BY <2>1
  <2>3. at[c] \in 1..N(c) /\ i = PidAt(c, at[c]) /\ run[c] = "poststop"
    <3>1. i = pidfile[c][ContainerPort(c)] /\ run[c] = "poststop" /\ at[c] <= N(c)
      BY <2>2 DEF KillSocat
    <3> QED BY <3>1, AtFacts DEF BridgeHalf
  <2> QED BY <2>3 DEF BridgeHalf, SocatInv
<1> QED BY <1>1, NetInvariant, PTL DEF Spec, KillsOwn
=============================================================================
