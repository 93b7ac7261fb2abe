-------------------------- MODULE SnapshotOpsProofs --------------------------
(***************************************************************************)
(* Type correctness of SnapshotOps; LayerOwned for every number of         *)
(* concurrent clones, snapshots, restores, starts and deletes; and, for    *)
(* calls that follow each other, FrozenStaysFrozen and LatestDataKept.     *)
(***************************************************************************)
EXTENDS SnapshotOps, TLAPS

(* Zenon proves the steps that cite no prover; SMT is cited where there are *)
(* numbers, sequences, or much to unfold.                                   *)
USE Zenon

(* The keys the operations use are keys. *)
LEMMA KeyFacts ==
    /\ {"src", "base"} \subseteq Keys
    /\ Calls \subseteq Keys
    /\ Names \subseteq Keys
    /\ CallTypes => \A c \in Calls : pc[c] # "idle" => Target(c) \in Keys
  BY DEF Keys, Fixed, Target, CallTypes

(* What a setting allows. *)
LEMMA SettingFacts ==
    ASSUME setting \in Settings
    PROVE  /\ setting.ops \subseteq Operations /\ setting.names \subseteq Names
           /\ setting.task \in {"none", "running", "paused"}
           /\ setting.writes \in 0..MaxData
  BY SettingAssumption DEF Setting

(* A call that moves on, or decides its result, keeps its types. *)
LEMMA MoveTypes ==
    ASSUME CallTypes, NEW c \in Calls, NEW to \in Label,
           pc[c] # "idle",
           Goto(c, to) \/ \E r \in {"none", "ok", "err"} : Decide(c, to, r)
    PROVE  CallTypes'
  BY SMT DEF CallTypes, Goto, Decide

(* snapshots.commit keeps the types of the layers and of the mount. *)
LEMMA CommitTypes ==
    ASSUME LayerTypes, ContainerTypes, NEW key \in Keys, NEW name \in Keys,
           Commit(key, name)
    PROVE  LayerTypes' /\ mount' \in Keys
  BY DEF LayerTypes, ContainerTypes, Commit

(* snapshots.prepare keeps the types of the layers. *)
LEMMA PrepareTypes ==
    ASSUME LayerTypes, NEW key \in Keys, NEW on \in Keys, Prepare(key, on)
    PROVE  LayerTypes'
  BY DEF LayerTypes, Prepare

(* snapshots.remove keeps the types of the layers. *)
LEMMA RemoveTypes ==
    ASSUME LayerTypes, NEW key, Remove(key)
    PROVE  LayerTypes'
  BY DEF LayerTypes, Remove

(* Every step keeps the types. *)
LEMMA NextTypeOK == TypeOK /\ [Next]_vars => TypeOK'
<1> SUFFICES ASSUME TypeOK, [Next]_vars PROVE TypeOK'
  OBVIOUS
<1> USE DEF TypeOK, At
<1>1. CASE UNCHANGED vars
  BY <1>1 DEF vars, CallTypes, LayerTypes, ContainerTypes, callState,
     snapshots, container
<1>2. ASSUME NEW c \in Calls, NEW o \in setting.ops, Begin(c, o) PROVE TypeOK'
  <2>1. First(o) \in Label
    BY SettingFacts DEF CallTypes, Operations, First, Label
  <2>2. CallTypes'
    BY <1>2, <2>1, SettingFacts DEF Begin, CallTypes
  <2>3. LayerTypes' /\ ContainerTypes'
    BY <1>2 DEF Begin, LayerTypes, ContainerTypes, snapshots, container
  <2> QED
    BY <2>2, <2>3
<1>3. ASSUME NEW c \in Calls, Inspect(c) PROVE TypeOK'
  <2>1. CallTypes'
    <3>1. ASSUME NEW r \in BOOLEAN, Sees(c, r) PROVE CallTypes'
      BY <1>3, <3>1 DEF Inspect, Sees, CallTypes, Label
    <3>2. ASSUME Return(c, "err") PROVE CallTypes'
      BY <1>3, <3>2, MoveTypes DEF Inspect, Return, Label
    <3> QED
      BY <1>3, <3>1, <3>2 DEF Inspect
  <2>2. LayerTypes'
    BY <1>3 DEF Inspect, snapshots, LayerTypes
  <2>3. ContainerTypes'
    BY <1>3 DEF Inspect, container, ContainerTypes, CallTypes, LayerTypes, At
  <2> QED
    BY <2>1, <2>2, <2>3
<1>4. ASSUME NEW c \in Calls, StopSrc(c) PROVE TypeOK'
  <2>1. CallTypes'
    BY <1>4, MoveTypes DEF StopSrc, Goto, Decide, Return, Label, CallTypes
  <2>2. LayerTypes'
    BY <1>4 DEF StopSrc, snapshots, LayerTypes
  <2>3. ContainerTypes'
    BY <1>4 DEF StopSrc, container, ContainerTypes, CallTypes, LayerTypes, At
  <2> QED
    BY <2>1, <2>2, <2>3
<1>5. ASSUME NEW c \in Calls, DeleteTask(c) PROVE TypeOK'
  <2>1. CallTypes'
    BY <1>5, MoveTypes DEF DeleteTask, AfterStop, Goto, Decide, Return, Label, CallTypes
  <2>2. LayerTypes'
    BY <1>5 DEF DeleteTask, snapshots, LayerTypes
  <2>3. ContainerTypes'
    BY <1>5 DEF DeleteTask, container, ContainerTypes, CallTypes, LayerTypes, At
  <2> QED
    BY <2>1, <2>2, <2>3
<1>6. ASSUME NEW c \in Calls, Fetch(c) PROVE TypeOK'
  <2>1. CallTypes'
    BY <1>6, MoveTypes DEF Fetch, Finish, Goto, Decide, Return, Label, CallTypes
  <2>2. LayerTypes'
    BY <1>6 DEF Fetch, snapshots, LayerTypes
  <2>3. ContainerTypes'
    BY <1>6 DEF Fetch, container, ContainerTypes, CallTypes, LayerTypes, At
  <2> QED
    BY <2>1, <2>2, <2>3
<1>7. ASSUME NEW c \in Calls, StatBase(c) PROVE TypeOK'
  <2>1. CallTypes'
    BY <1>7, MoveTypes DEF StatBase, Finish, Goto, Decide, Return, Label, CallTypes
  <2>2. LayerTypes'
    BY <1>7 DEF StatBase, snapshots, LayerTypes
  <2>3. ContainerTypes'
    BY <1>7 DEF StatBase, container, ContainerTypes, CallTypes, LayerTypes, At
  <2> QED
    BY <2>1, <2>2, <2>3
<1>8. ASSUME NEW c \in Calls, CommitSrc(c) PROVE TypeOK'
  <2>1. CallTypes'
    BY <1>8, MoveTypes DEF CommitSrc, Finish, Goto, Decide, Return, Label, CallTypes
  <2>2. LayerTypes'
    BY <1>8, KeyFacts, CommitTypes DEF CommitSrc, snapshots, LayerTypes
  <2>3. ContainerTypes'
    BY <1>8, KeyFacts, CommitTypes DEF CommitSrc, container, ContainerTypes, CallTypes, LayerTypes, At
  <2> QED
    BY <2>1, <2>2, <2>3
<1>9. ASSUME NEW c \in Calls, Reprepare(c) PROVE TypeOK'
  <2>1. CallTypes'
    BY <1>9, MoveTypes DEF Reprepare, Finish, Goto, Decide, Return, Label, CallTypes
  <2>2. LayerTypes'
    BY <1>9, KeyFacts, PrepareTypes DEF Reprepare, snapshots, LayerTypes
  <2>3. ContainerTypes'
    BY <1>9 DEF Reprepare, container, ContainerTypes, CallTypes, LayerTypes, At
  <2> QED
    BY <2>1, <2>2, <2>3
<1>10. ASSUME NEW c \in Calls, Rollback(c) PROVE TypeOK'
  <2>1. CallTypes'
    BY <1>10, MoveTypes DEF Rollback, Goto, Decide, Return, Label, CallTypes
  <2>2. LayerTypes'
    BY <1>10, KeyFacts, RemoveTypes DEF Rollback, TryRemove, snapshots, LayerTypes
  <2>3. ContainerTypes'
    BY <1>10 DEF Rollback, container, ContainerTypes, CallTypes, LayerTypes, At
  <2> QED
    BY <2>1, <2>2, <2>3
<1>11. ASSUME NEW c \in Calls, PrepareDst(c) PROVE TypeOK'
  <2>1. CallTypes'
    BY <1>11, MoveTypes DEF PrepareDst, Finish, Goto, Decide, Return, Label, CallTypes
  <2>2. LayerTypes'
    BY <1>11, KeyFacts, PrepareTypes DEF PrepareDst, snapshots, LayerTypes
  <2>3. ContainerTypes'
    BY <1>11 DEF PrepareDst, container, ContainerTypes, CallTypes, LayerTypes, At
  <2> QED
    BY <2>1, <2>2, <2>3
<1>12. ASSUME NEW c \in Calls, CreateDst(c) PROVE TypeOK'
  <2>1. CallTypes'
    BY <1>12, MoveTypes DEF CreateDst, Finish, Goto, Decide, Return, Label, CallTypes
  <2>2. LayerTypes'
    BY <1>12 DEF CreateDst, snapshots, LayerTypes
  <2>3. ContainerTypes'
    BY <1>12 DEF CreateDst, container, ContainerTypes, CallTypes, LayerTypes, At
  <2> QED
    BY <2>1, <2>2, <2>3
<1>13. ASSUME NEW c \in Calls, RemoveDst(c) PROVE TypeOK'
  <2>1. CallTypes'
    BY <1>13, MoveTypes DEF RemoveDst, Finish, Goto, Decide, Return, Label, CallTypes
  <2>2. LayerTypes'
    BY <1>13, KeyFacts, RemoveTypes DEF RemoveDst, TryRemove, snapshots, LayerTypes
  <2>3. ContainerTypes'
    BY <1>13 DEF RemoveDst, container, ContainerTypes, CallTypes, LayerTypes, At
  <2> QED
    BY <2>1, <2>2, <2>3
<1>14. ASSUME NEW c \in Calls, Stat(c) PROVE TypeOK'
  <2>1. CallTypes'
    BY <1>14, MoveTypes DEF Stat, Goto, Decide, Return, Label, CallTypes
  <2>2. LayerTypes'
    BY <1>14 DEF Stat, snapshots, LayerTypes
  <2>3. ContainerTypes'
    BY <1>14 DEF Stat, container, ContainerTypes, CallTypes, LayerTypes, At
  <2> QED
    BY <2>1, <2>2, <2>3
<1>15. ASSUME NEW c \in Calls, RemoveActive(c) PROVE TypeOK'
  <2>1. CallTypes'
    BY <1>15, MoveTypes DEF RemoveActive, Goto, Decide, Return, Label, CallTypes
  <2>2. LayerTypes'
    BY <1>15, KeyFacts, RemoveTypes DEF RemoveActive, snapshots, LayerTypes
  <2>3. ContainerTypes'
    BY <1>15, KeyFacts, SMT DEF RemoveActive, container, ContainerTypes, CallTypes, LayerTypes, At
  <2> QED
    BY <2>1, <2>2, <2>3
<1>16. ASSUME NEW c \in Calls, ResetPrepare(c) PROVE TypeOK'
  <2>1. CallTypes'
    BY <1>16, MoveTypes, SMT DEF ResetPrepare, Finish, MaxTries, Goto, Decide, Return, Label, CallTypes
  <2>2. LayerTypes'
    BY <1>16, KeyFacts, PrepareTypes DEF ResetPrepare, snapshots, LayerTypes, CallTypes
  <2>3. ContainerTypes'
    BY <1>16 DEF ResetPrepare, container, ContainerTypes, CallTypes, LayerTypes, At
  <2> QED
    BY <2>1, <2>2, <2>3
<1>17. ASSUME NEW c \in Calls, RemoveNamed(c) PROVE TypeOK'
  <2>1. CallTypes'
    BY <1>17, MoveTypes DEF RemoveNamed, Goto, Decide, Return, Label, CallTypes
  <2>2. LayerTypes'
    BY <1>17, KeyFacts, RemoveTypes DEF RemoveNamed, snapshots, LayerTypes
  <2>3. ContainerTypes'
    BY <1>17 DEF RemoveNamed, container, ContainerTypes, CallTypes, LayerTypes, At
  <2> QED
    BY <2>1, <2>2, <2>3
<1>18. ASSUME NEW c \in Calls, Restart(c) PROVE TypeOK'
  <2>1. CallTypes'
    BY <1>18, MoveTypes DEF Restart, Goto, Decide, Return, Label, CallTypes
  <2>2. LayerTypes'
    BY <1>18 DEF Restart, snapshots, LayerTypes
  <2>3. ContainerTypes'
    BY <1>18, KeyFacts DEF Restart, container, ContainerTypes, CallTypes, LayerTypes, At
  <2> QED
    BY <2>1, <2>2, <2>3
<1>19. ASSUME NEW c \in Calls, Unpause(c) PROVE TypeOK'
  <2>1. CallTypes'
    BY <1>19, MoveTypes DEF Unpause, Goto, Decide, Return, Label, CallTypes
  <2>2. LayerTypes'
    BY <1>19 DEF Unpause, snapshots, LayerTypes
  <2>3. ContainerTypes'
    BY <1>19 DEF Unpause, container, ContainerTypes, CallTypes, LayerTypes, At
  <2> QED
    BY <2>1, <2>2, <2>3
<1>20. ASSUME NEW c \in Calls, RmRecord(c) PROVE TypeOK'
  <2>1. CallTypes'
    BY <1>20, MoveTypes DEF RmRecord, Goto, Decide, Return, Label, CallTypes
  <2>2. LayerTypes'
    BY <1>20 DEF RmRecord, snapshots, LayerTypes
  <2>3. ContainerTypes'
    BY <1>20 DEF RmRecord, container, ContainerTypes, CallTypes, LayerTypes, At
  <2> QED
    BY <2>1, <2>2, <2>3
<1>21. ASSUME NEW c \in Calls, RmSnap(c) PROVE TypeOK'
  <2>1. CallTypes'
    BY <1>21, MoveTypes DEF RmSnap, Goto, Decide, Return, Label, CallTypes
  <2>2. LayerTypes'
    BY <1>21, KeyFacts, RemoveTypes DEF RmSnap, TryRemove, snapshots, LayerTypes
  <2>3. ContainerTypes'
    BY <1>21 DEF RmSnap, container, ContainerTypes, CallTypes, LayerTypes, At
  <2> QED
    BY <2>1, <2>2, <2>3
<1>22. ASSUME NEW c \in Calls, Cancel(c) PROVE TypeOK'
  <2>1. CallTypes'
    BY <1>22, MoveTypes DEF Cancel, Busy, Goto, Decide, Return, Label, CallTypes
  <2>2. LayerTypes'
    BY <1>22 DEF Cancel, snapshots, LayerTypes
  <2>3. ContainerTypes'
    BY <1>22 DEF Cancel, container, ContainerTypes, CallTypes, LayerTypes, At
  <2> QED
    BY <2>1, <2>2, <2>3
<1>23. CASE Write
  BY <1>23, SettingAssumption, SettingFacts, SMT
     DEF Write, callState, container, CallTypes, LayerTypes, ContainerTypes
<1>24. CASE TaskExits
  BY <1>24 DEF TaskExits, callState, snapshots, CallTypes, LayerTypes,
     ContainerTypes
<1> QED
  BY <1>1, <1>2, <1>3, <1>4, <1>5, <1>6, <1>7, <1>8, <1>9, <1>10, <1>11,
     <1>12, <1>13, <1>14, <1>15, <1>16, <1>17, <1>18, <1>19, <1>20, <1>21,
     <1>22, <1>23, <1>24
     DEF Next, Step

(* TypeCorrect: every reachable state is well typed. *)
THEOREM TypeCorrect == Spec => []TypeOK
<1>1. Init => TypeOK
  <2> SUFFICES ASSUME Init PROVE TypeOK
    OBVIOUS
  <2>1. CallTypes
    BY SMT DEF Init, CallTypes, Label, MaxTries
  <2>2. LayerTypes /\ ContainerTypes
    BY SettingAssumption, SettingFacts, KeyFacts, SMT
       DEF Init, LayerTypes, ContainerTypes, Keys, Fixed
  <2> QED
    BY <2>1, <2>2 DEF TypeOK
<1> QED
  BY <1>1, NextTypeOK, PTL DEF Spec

------------------------------------------------------------------------------
(* The source keeps its layer *)

(* What a call commits to is neither the source's key nor that of a          *)
(* container being made.                                                     *)
LEMMA TargetApart ==
    ASSUME CallTypes, NEW c \in Calls, pc[c] # "idle"
    PROVE  /\ Target(c) \in Keys /\ Target(c) # "src"
           /\ \A d \in Calls : d # "src" /\ d # Target(c)
  BY KeysAssumption DEF Keys, Fixed, Target, CallTypes

(* Every step keeps LayerInv. *)
LEMMA NextLayerInv ==
    ASSUME TypeOK, LayerInv, [Next]_vars
    PROVE  LayerInv'
<1> SUFFICES ASSUME Calm' PROVE LayerInv'
  BY DEF LayerInv
<1> USE KeyFacts, TargetApart
    DEF TypeOK, CallTypes, LayerTypes, LayerInv, LayerOwned, callState,
        snapshots, container, At, Goto, Decide, Return, Fail, Exists, Target,
        Calm
<1>1. CASE UNCHANGED vars
  BY <1>1, SMT DEF vars
<1>2. ASSUME NEW c \in Calls, NEW o \in setting.ops, Begin(c, o) PROVE LayerInv'
  BY <1>2, SettingFacts, SMT DEF Begin, First, Operations
<1>3. ASSUME NEW c \in Calls, Inspect(c) PROVE LayerInv'
  BY <1>3, SMT DEF Inspect, Sees
<1>4. ASSUME NEW c \in Calls, StopSrc(c) PROVE LayerInv'
  BY <1>4, SMT DEF StopSrc
<1>5. ASSUME NEW c \in Calls, DeleteTask(c) PROVE LayerInv'
  BY <1>5, SMT DEF DeleteTask, AfterStop
<1>6. ASSUME NEW c \in Calls, Fetch(c) PROVE LayerInv'
  BY <1>6, SMT DEF Fetch, Finish
<1>7. ASSUME NEW c \in Calls, StatBase(c) PROVE LayerInv'
  BY <1>7, SMT DEF StatBase, Finish
<1>8. ASSUME NEW c \in Calls, CommitSrc(c) PROVE LayerInv'
  BY <1>8, SMT DEF CommitSrc, Commit, Finish
<1>9. ASSUME NEW c \in Calls, Reprepare(c) PROVE LayerInv'
  BY <1>9, SMT DEF Reprepare, Prepare, Finish
<1>10. ASSUME NEW c \in Calls, Rollback(c) PROVE LayerInv'
  BY <1>10 DEF Rollback
<1>11. ASSUME NEW c \in Calls, PrepareDst(c) PROVE LayerInv'
  BY <1>11, SMT DEF PrepareDst, Prepare, Finish
<1>12. ASSUME NEW c \in Calls, CreateDst(c) PROVE LayerInv'
  BY <1>12, SMT DEF CreateDst, Finish
<1>13. ASSUME NEW c \in Calls, RemoveDst(c) PROVE LayerInv'
  BY <1>13, SMT DEF RemoveDst, TryRemove, Remove, Finish
<1>14. ASSUME NEW c \in Calls, Stat(c) PROVE LayerInv'
  BY <1>14, SMT DEF Stat
<1>15. ASSUME NEW c \in Calls, RemoveActive(c) PROVE LayerInv'
  BY <1>15 DEF RemoveActive
<1>16. ASSUME NEW c \in Calls, ResetPrepare(c) PROVE LayerInv'
  BY <1>16 DEF ResetPrepare, Finish
<1>17. ASSUME NEW c \in Calls, RemoveNamed(c) PROVE LayerInv'
  BY <1>17 DEF RemoveNamed
<1>18. ASSUME NEW c \in Calls, Restart(c) PROVE LayerInv'
  BY <1>18, SMT DEF Restart
<1>19. ASSUME NEW c \in Calls, Unpause(c) PROVE LayerInv'
  BY <1>19, SMT DEF Unpause
<1>20. ASSUME NEW c \in Calls, RmRecord(c) PROVE LayerInv'
  BY <1>20, SMT DEF RmRecord
<1>21. ASSUME NEW c \in Calls, RmSnap(c) PROVE LayerInv'
  BY <1>21, SMT DEF RmSnap, TryRemove, Remove
<1>22. ASSUME NEW c \in Calls, Cancel(c) PROVE LayerInv'
  BY <1>22 DEF Cancel
<1>23. CASE Write
  BY <1>23 DEF Write
<1>24. CASE TaskExits
  BY <1>24, SMT DEF TaskExits
<1> QED
  BY <1>1, <1>2, <1>3, <1>4, <1>5, <1>6, <1>7, <1>8, <1>9, <1>10, <1>11,
     <1>12, <1>13, <1>14, <1>15, <1>16, <1>17, <1>18, <1>19, <1>20, <1>21,
     <1>22, <1>23, <1>24
     DEF Next, Step

(* LayerSafety: without resets, delete_snapshot, failing RPCs and            *)
(* cancellation, a source is without its active layer only while a call is   *)
(* about to prepare it again, however many clones, snapshots, restores,      *)
(* starts and deletes run at once.                                           *)
THEOREM LayerSafety == Spec => [](LayerOwned /\ LayerInv)
<1>1. Init => LayerInv
  BY KeyFacts, KeysAssumption, SMT
     DEF Init, LayerInv, LayerOwned, Keys, Fixed
<1>2. TypeOK /\ LayerInv /\ [Next]_vars => LayerInv'
  BY NextLayerInv
<1>3. LayerInv => LayerOwned
  BY DEF LayerInv, LayerOwned
<1> QED
  BY <1>1, <1>2, <1>3, TypeCorrect, PTL DEF Spec

------------------------------------------------------------------------------
(* What is frozen stays frozen, and the latest data is kept *)

(* A setting in which calls follow each other and see the task. *)
Orderly == setting.serial /\ ~Blind /\ "unpause" \notin setting.ops

(* The name a call was given is no key of its own or the source's. *)
LEMMA ArgApart ==
    ASSUME CallTypes, NEW c \in Calls, pc[c] # "idle"
    PROVE  /\ arg[c] \in Names /\ arg[c] \in Keys /\ arg[c] \notin {"src", "base", c}
           /\ Target(c) \in Names \cup {"base"}
  BY KeysAssumption DEF Keys, Fixed, Target, CallTypes

(* Every step keeps TaskInv. *)
LEMMA NextTaskInv ==
    ASSUME TypeOK, TaskInv, [Next]_vars
    PROVE  TaskInv'
<1> SUFFICES ASSUME Orderly' PROVE TaskInv'
  BY DEF TaskInv, Orderly, Blind
<1> USE KeyFacts, TargetApart
    DEF TypeOK, CallTypes, LayerTypes, ContainerTypes, TaskInv, Orderly, callState,
        snapshots, container, At, Goto, Decide, Return, Fail, Blind, Exists, Busy
<1>1. CASE UNCHANGED vars
  BY <1>1 DEF vars
<1>2. ASSUME NEW c \in Calls, NEW o \in setting.ops, Begin(c, o) PROVE TaskInv'
  BY <1>2, SettingFacts, SMT DEF Begin, First, Operations
<1>3. ASSUME NEW c \in Calls, Inspect(c) PROVE TaskInv'
  BY <1>3, SMT DEF Inspect, Sees
<1>4. ASSUME NEW c \in Calls, StopSrc(c) PROVE TaskInv'
  BY <1>4, SMT DEF StopSrc
<1>5. ASSUME NEW c \in Calls, DeleteTask(c) PROVE TaskInv'
  BY <1>5, SMT DEF DeleteTask, AfterStop
<1>6. ASSUME NEW c \in Calls, Fetch(c) PROVE TaskInv'
  BY <1>6, SMT DEF Fetch, Finish
<1>7. ASSUME NEW c \in Calls, StatBase(c) PROVE TaskInv'
  BY <1>7, SMT DEF StatBase, Finish
<1>8. ASSUME NEW c \in Calls, CommitSrc(c) PROVE TaskInv'
  BY <1>8, SMT DEF CommitSrc, Commit, Finish
<1>9. ASSUME NEW c \in Calls, Reprepare(c) PROVE TaskInv'
  BY <1>9, SMT DEF Reprepare, Prepare, Finish
<1>10. ASSUME NEW c \in Calls, Rollback(c) PROVE TaskInv'
  BY <1>10, ArgApart, SMT DEF Rollback, TryRemove, Remove
<1>11. ASSUME NEW c \in Calls, PrepareDst(c) PROVE TaskInv'
  BY <1>11, SMT DEF PrepareDst, Prepare, Finish
<1>12. ASSUME NEW c \in Calls, CreateDst(c) PROVE TaskInv'
  BY <1>12, SMT DEF CreateDst, Finish
<1>13. ASSUME NEW c \in Calls, RemoveDst(c) PROVE TaskInv'
  BY <1>13, SMT DEF RemoveDst, TryRemove, Remove, Finish
<1>14. ASSUME NEW c \in Calls, Stat(c) PROVE TaskInv'
  BY <1>14, SMT DEF Stat
<1>15. ASSUME NEW c \in Calls, RemoveActive(c) PROVE TaskInv'
  BY <1>15, SMT DEF RemoveActive, Remove
<1>16. ASSUME NEW c \in Calls, ResetPrepare(c) PROVE TaskInv'
  BY <1>16, SMT DEF ResetPrepare, Prepare, Finish
<1>17. ASSUME NEW c \in Calls, RemoveNamed(c) PROVE TaskInv'
  BY <1>17, ArgApart, SMT DEF RemoveNamed, Remove
<1>18. ASSUME NEW c \in Calls, Restart(c) PROVE TaskInv'
  BY <1>18, SMT DEF Restart
<1>19. ASSUME NEW c \in Calls, Unpause(c) PROVE TaskInv'
  BY <1>19 DEF Unpause
<1>20. ASSUME NEW c \in Calls, RmRecord(c) PROVE TaskInv'
  BY <1>20 DEF RmRecord
<1>21. ASSUME NEW c \in Calls, RmSnap(c) PROVE TaskInv'
  BY <1>21, SMT DEF RmSnap, TryRemove, Remove
<1>22. ASSUME NEW c \in Calls, Cancel(c) PROVE TaskInv'
  BY <1>22, SMT DEF Cancel
<1>23. CASE Write
  BY <1>23 DEF Write
<1>24. CASE TaskExits
  BY <1>24 DEF TaskExits
<1> QED
  BY <1>1, <1>2, <1>3, <1>4, <1>5, <1>6, <1>7, <1>8, <1>9, <1>10, <1>11,
     <1>12, <1>13, <1>14, <1>15, <1>16, <1>17, <1>18, <1>19, <1>20, <1>21,
     <1>22, <1>23, <1>24
     DEF Next, Step
(* Every step keeps DataInv. *)
LEMMA NextDataInv ==
    ASSUME TypeOK, TaskInv, DataInv, [Next]_vars
    PROVE  DataInv'
<1> DEFINE Guard == setting.serial /\ setting.faults = {}
                       /\ setting.ops \cap {"delete_snapshot", "delete", "unpause"} = {}
<1> SUFFICES ASSUME Guard' PROVE DataInv'
  BY DEF DataInv
<1>0. /\ "src" \notin Names /\ "base" \notin Names /\ "src" # "base"
      /\ \A c \in Calls : c \notin Names /\ c # "src" /\ c # "base"
  BY KeysAssumption DEF Fixed
<1> USE <1>0, KeyFacts, TargetApart, ArgApart
    DEF TypeOK, CallTypes, LayerTypes, ContainerTypes, TaskInv, DataInv, OpInv, callState,
        snapshots, container, At, Goto, Decide, Return, Fail, Blind, Exists, Busy
<1>1. CASE UNCHANGED vars
  BY <1>1 DEF vars, Target
<1>2. ASSUME NEW c \in Calls, NEW o \in setting.ops, Begin(c, o) PROVE DataInv'
  BY <1>2, SettingFacts, SMT DEF Begin, First, Operations, Target
<1>3. ASSUME NEW c \in Calls, Inspect(c) PROVE DataInv'
  BY <1>3, SMT DEF Target, Inspect, Sees
<1>4. ASSUME NEW c \in Calls, StopSrc(c) PROVE DataInv'
  BY <1>4, SMT DEF Target, StopSrc
<1>5. ASSUME NEW c \in Calls, DeleteTask(c) PROVE DataInv'
  BY <1>5, SMT DEF Target, DeleteTask, AfterStop
<1>6. ASSUME NEW c \in Calls, Fetch(c) PROVE DataInv'
  BY <1>6, SMT DEF Target, Fetch, Finish
<1>7. ASSUME NEW c \in Calls, StatBase(c) PROVE DataInv'
  BY <1>7, SMT DEF Target, StatBase, Finish
<1>8. ASSUME NEW c \in Calls, CommitSrc(c) PROVE DataInv'
  BY <1>8, SMT DEF Target, CommitSrc, Commit, Finish
<1>9. ASSUME NEW c \in Calls, Reprepare(c) PROVE DataInv'
  BY <1>9, SMT DEF Target, Reprepare, Prepare, Finish
<1>10. ASSUME NEW c \in Calls, Rollback(c) PROVE DataInv'
  BY <1>10 DEF Target, Rollback, TryRemove, Remove
<1>11. ASSUME NEW c \in Calls, PrepareDst(c) PROVE DataInv'
  BY <1>11, SMT DEF Target, PrepareDst, Prepare, Finish
<1>12. ASSUME NEW c \in Calls, CreateDst(c) PROVE DataInv'
  BY <1>12, SMT DEF Target, CreateDst, Finish
<1>13. ASSUME NEW c \in Calls, RemoveDst(c) PROVE DataInv'
  BY <1>13, SMT DEF Target, RemoveDst, TryRemove, Remove, Finish
<1>14. ASSUME NEW c \in Calls, Stat(c) PROVE DataInv'
  BY <1>14, SMT DEF Target, Stat
<1>15. ASSUME NEW c \in Calls, RemoveActive(c) PROVE DataInv'
  BY <1>15, SMT DEF Target, RemoveActive, Remove
<1>16. ASSUME NEW c \in Calls, ResetPrepare(c) PROVE DataInv'
  BY <1>16, SMT DEF Target, ResetPrepare, Prepare, Finish
<1>17. ASSUME NEW c \in Calls, RemoveNamed(c) PROVE DataInv'
  BY <1>17, SMT DEF Target, RemoveNamed, Remove
<1>18. ASSUME NEW c \in Calls, Restart(c) PROVE DataInv'
  BY <1>18, SMT DEF Target, Restart
<1>19. ASSUME NEW c \in Calls, Unpause(c) PROVE DataInv'
  BY <1>19, SMT DEF Target, Unpause
<1>20. ASSUME NEW c \in Calls, RmRecord(c) PROVE DataInv'
  BY <1>20 DEF Target, RmRecord
<1>21. ASSUME NEW c \in Calls, RmSnap(c) PROVE DataInv'
  BY <1>21, SMT DEF Target, RmSnap, TryRemove, Remove
<1>22. ASSUME NEW c \in Calls, Cancel(c) PROVE DataInv'
  BY <1>22, SMT DEF Target, Cancel
<1>23. CASE Write
  BY <1>23, SMT DEF Write, Target
<1>24. CASE TaskExits
  BY <1>24 DEF TaskExits, Target
<1> QED
  BY <1>1, <1>2, <1>3, <1>4, <1>5, <1>6, <1>7, <1>8, <1>9, <1>10, <1>11,
     <1>12, <1>13, <1>14, <1>15, <1>16, <1>17, <1>18, <1>19, <1>20, <1>21,
     <1>22, <1>23, <1>24
     DEF Next, Step

(* FrozenSafety: with callers that run one operation at a time, an inspect   *)
(* that sees the task and nobody who unpauses it, no committed layer changes *)
(* (FrozenStaysFrozen), for any number of calls and snapshot names.          *)
THEOREM FrozenSafety == Spec => FrozenStaysFrozen
<1>1. Init => TaskInv
  BY KeyFacts, SettingFacts, SMT DEF Init, TaskInv, Busy
<1>2. TypeOK /\ TaskInv /\ [Next]_vars =>
        [setting.serial /\ ~Blind /\ "unpause" \notin setting.ops =>
          \A k \in Keys :
              (kind[k] = "committed" /\ kind'[k] = "committed")
                  => data'[k] = data[k]]_vars
  <2> SUFFICES ASSUME TypeOK, TaskInv, Orderly, [Next]_vars, NEW k \in Keys,
                      kind[k] = "committed", kind'[k] = "committed"
               PROVE  data'[k] = data[k]
    BY DEF Orderly
  <2>1. ASSUME NEW key \in Keys, NEW name \in Keys, Commit(key, name) PROVE data'[k] = data[k]
    BY <2>1 DEF Commit, TypeOK, LayerTypes
  <2>2. ASSUME NEW key \in Keys, NEW on \in Keys, Prepare(key, on) PROVE data'[k] = data[k]
    BY <2>2 DEF Prepare, TypeOK, LayerTypes
  <2>3. ASSUME Write PROVE data'[k] = data[k]
    BY <2>3 DEF Write, TypeOK, LayerTypes, TaskInv, Orderly
  <2>4. ASSUME UNCHANGED vars \/ TaskExits PROVE data'[k] = data[k]
    BY <2>4 DEF vars, snapshots, TaskExits
  <2>5. ASSUME NEW c \in Calls, NEW o, Begin(c, o) PROVE data'[k] = data[k]
    BY <2>5 DEF Begin, snapshots
  <2>6. ASSUME NEW c \in Calls, Step(c) \/ Cancel(c) PROVE data'[k] = data[k]
    <3>1. CASE CommitSrc(c)
      BY <2>1, <3>1, KeyFacts DEF CommitSrc, At, snapshots, TypeOK
    <3>2. CASE Reprepare(c)
      BY <2>2, <3>2, KeyFacts DEF Reprepare, At, snapshots, TypeOK
    <3>3. CASE PrepareDst(c)
      BY <2>2, <3>3, KeyFacts DEF PrepareDst, At, snapshots, TypeOK
    <3>4. CASE ResetPrepare(c)
      BY <2>2, <3>4, KeyFacts, ArgApart DEF ResetPrepare, At, snapshots, TypeOK
    <3>5. CASE Rollback(c) \/ RemoveDst(c) \/ RemoveActive(c) \/ RemoveNamed(c) \/ RmSnap(c)
      BY <3>5 DEF Rollback, RemoveDst, RemoveActive, RemoveNamed, RmSnap, TryRemove, Remove,
                  snapshots
    <3>6. CASE \/ Inspect(c) \/ StopSrc(c) \/ DeleteTask(c) \/ Fetch(c) \/ StatBase(c)
               \/ CreateDst(c) \/ Stat(c) \/ Restart(c) \/ Unpause(c) \/ RmRecord(c) \/ Cancel(c)
      BY <3>6 DEF Inspect, StopSrc, DeleteTask, Fetch, StatBase, CreateDst, Stat, Restart,
                  Unpause, RmRecord, Cancel, snapshots
    <3> QED
      BY <2>6, <3>1, <3>2, <3>3, <3>4, <3>5, <3>6 DEF Step
  <2> QED
    BY <2>3, <2>4, <2>5, <2>6 DEF Next
<1>3. TypeOK /\ TaskInv /\ [Next]_vars => TaskInv'
  BY NextTaskInv
<1> QED
  BY <1>1, <1>2, <1>3, TypeCorrect, PTL DEF Spec, FrozenStaysFrozen

(* DataSafety: with callers that run one operation at a time and no failing  *)
(* RPC, delete or delete_snapshot, the data the source's user last had is in *)
(* its active layer, or in a committed one while it is missing, wherever a   *)
(* call is dropped (LatestDataKept).                                         *)
THEOREM DataSafety == Spec => []LatestDataKept
<1>1. Init => TaskInv /\ DataInv
  <2> SUFFICES ASSUME Init PROVE TaskInv /\ DataInv
    OBVIOUS
  <2>1. /\ "src" \in Keys /\ "src" \notin Names \cup {"base"} /\ "image" \notin Names \cup {"base"}
        /\ Names \cup {"base"} \subseteq Keys
    BY KeyFacts, KeysAssumption DEF Fixed
  <2>2. /\ kind["src"] = "active" /\ data["src"] = latest
        /\ \A k \in Names \cup {"base"} : kind[k] # "active"
    BY <2>1 DEF Init
  <2>3. \A c \in Calls : pc[c] = "idle" /\ op[c] = "none"
    BY DEF Init
  <2> QED
    BY <2>2, <2>3 DEF TaskInv, DataInv, OpInv, Busy, Init
<1>2. TypeOK /\ TaskInv /\ DataInv /\ [Next]_vars => TaskInv' /\ DataInv'
  BY NextTaskInv, NextDataInv
<1>3. TypeOK /\ DataInv => LatestDataKept
  <2> SUFFICES ASSUME TypeOK, DataInv, record, setting.serial, setting.faults = {},
                      setting.ops \cap {"delete_snapshot", "delete", "unpause"} = {}
               PROVE  IF Exists("src") THEN data["src"] = latest
                      ELSE \E k \in Keys : Exists(k) /\ data[k] = latest
    BY DEF LatestDataKept
  <2>1. CASE kind["src"] = "active"
    BY <2>1 DEF DataInv, Exists
  <2>2. CASE kind["src"] = "absent"
    BY <2>2, KeyFacts, SMT DEF DataInv, Exists
  <2> QED
    BY <2>1, <2>2, KeyFacts DEF DataInv, TypeOK, LayerTypes
<1> QED
  BY <1>1, <1>2, <1>3, TypeCorrect, PTL DEF Spec
=============================================================================
