------------------------ MODULE ExecReadinessProofs --------------------------
(***************************************************************************)
(* Proofs about ExecReadiness: type correctness, that an I/O directory     *)
(* goes however its exec ends, and that an exec returns its own result.    *)
(***************************************************************************)
EXTENDS ExecReadiness, FiniteSetTheorems, TLAPS

(* Zenon proves the steps that cite no prover; SMT is cited where there are *)
(* numbers, sequences, or much to unfold.                                   *)
USE Zenon

Operation == {"none", "exec", "probe", "wait_running", "wait_tcp", "wait_exec", "wait_image"}

(* ControlTypes: where the calls are is well typed, and the polls counted. *)
ControlTypes ==
    /\ pc \in [Callers -> Label]
    /\ op \in [Callers -> Operation]
    /\ polls \in [Callers -> 0..MaxPolls]
    /\ PollInv

(* MineTypes: what the calls hold is well typed. *)
MineTypes ==
    /\ attempt \in [Callers -> 0..MaxAttempts]
    /\ id \in [Callers -> Names \cup {None}]
    /\ dir \in [Callers -> Names \cup {None}]
    /\ result \in [Callers -> Result]

(* The call c goes to l and no other call moves. *)
Moves(c, l) == pc' = [pc EXCEPT ![c] = l]

(* TypesSplit: TypeOK is the types of the groups of variables. *)
LEMMA TypesSplit == TypeOK /\ PollInv <=> ControlTypes /\ MineTypes /\ ProcessTypes /\ WorldTypes
BY DEF TypeOK, CallTypes, ControlTypes, MineTypes, Operation

(* NoExecIsExec: the absent exec record has the type of one. *)
LEMMA NoExecIsExec == NoExec \in Exec /\ NoResult \in Result
<1>1. NoExec \in Exec
  BY BoundsAssumption, SMT DEF NoExec, Exec
<1>2. NoResult \in Result
  BY SMT DEF NoResult, Result
<1> QED BY <1>1, <1>2

(* PendingStep: how many execs are about to make their directory, when one   *)
(* call moves.                                                               *)
LEMMA PendingStep ==
    ASSUME ControlTypes, NEW c \in Callers, NEW l \in Label, Moves(c, l)
    PROVE  /\ IsFiniteSet(Pending) /\ Cardinality(Pending) \in Nat
           /\ Cardinality(Pending') =
                 IF pc[c] = "mkdir" /\ l # "mkdir" THEN Cardinality(Pending) - 1
                 ELSE IF pc[c] # "mkdir" /\ l = "mkdir" THEN Cardinality(Pending) + 1
                 ELSE Cardinality(Pending)
           /\ pc[c] = "mkdir" => Cardinality(Pending) >= 1
<1>1. Pending \subseteq Callers /\ IsFiniteSet(Pending)
  BY OpsAssumption, FS_Subset DEF Pending
<1>2. Cardinality(Pending) \in Nat
  BY <1>1, FS_CardinalityType
<1>3. CASE pc[c] = "mkdir" /\ l # "mkdir"
  <2>1. Pending' = Pending \ {c} /\ c \in Pending
    BY <1>3 DEF Pending, Moves, ControlTypes
  <2>2. Cardinality(Pending \ {c}) = Cardinality(Pending) - 1
    BY <2>1, <1>1, FS_RemoveElement
  <2>3. Cardinality(Pending) # 0
    BY <2>1, <1>1, FS_EmptySet
  <2> QED BY <2>1, <2>2, <2>3, <1>1, <1>2, <1>3, SMT
<1>4. CASE pc[c] # "mkdir" /\ l = "mkdir"
  <2>1. Pending' = Pending \cup {c} /\ c \notin Pending
    BY <1>4 DEF Pending, Moves, ControlTypes
  <2>2. Cardinality(Pending \cup {c}) = Cardinality(Pending) + 1
    BY <2>1, <1>1, FS_AddElement
  <2> QED BY <2>1, <2>2, <1>1, <1>2, <1>4
<1>5. CASE (pc[c] = "mkdir") = (l = "mkdir")
  <2>1. Pending' = Pending
    BY <1>5 DEF Pending, Moves, ControlTypes
  <2>2. pc[c] = "mkdir" => Cardinality(Pending) # 0
    BY <1>1, FS_EmptySet DEF Pending
  <2> QED BY <2>1, <2>2, <1>1, <1>2, <1>5, SMT
<1> QED BY <1>3, <1>4, <1>5

(* GotoMoves: Goto moves one call. *)
LEMMA GotoMoves ==
    ASSUME ControlTypes, NEW c \in Callers, NEW l \in Label \ {"idle", "resolve"}, Goto(c, l),
           l = "poll" => polls[c] < MaxPolls
    PROVE  ControlTypes' /\ Moves(c, l)
BY DEF ControlTypes, Goto, Moves, PollInv

(* ReturnMoves: Return moves one call to idle. *)
LEMMA ReturnMoves ==
    ASSUME ControlTypes, NEW c \in Callers, Return(c)
    PROVE  ControlTypes' /\ Moves(c, "idle")
BY BoundsAssumption, SMT DEF ControlTypes, Return, Moves, Operation, Label, PollInv

(* PollAgainMoves: a wait_ready whose poll failed ends or polls again. *)
LEMMA PollAgainMoves ==
    ASSUME ControlTypes, NEW c \in Callers, PollAgain(c)
    PROVE  ControlTypes' /\ \E l \in {"idle", "poll"} : Moves(c, l)
<1>1. CASE Return(c)
  BY <1>1, ReturnMoves
<1>2. CASE polls[c] < MaxPolls /\ Goto(c, "poll")
  <2>1. "poll" \in Label \ {"idle", "resolve"}
    BY DEF Label
  <2> QED BY <1>2, <2>1, GotoMoves
<1> QED BY <1>1, <1>2 DEF PollAgain

(* ConcludeMoves: a call whose exec has ended ends or polls again. *)
LEMMA ConcludeMoves ==
    ASSUME ControlTypes, NEW c \in Callers, NEW r, Conclude(c, r)
    PROVE  ControlTypes' /\ \E l \in {"idle", "poll"} : Moves(c, l)
<1>1. CASE Return(c)
  BY <1>1, ReturnMoves
<1>2. CASE PollAgain(c)
  BY <1>2, PollAgainMoves
<1> QED BY <1>1, <1>2 DEF Conclude

(* InitExecInv: the invariant holds at first. *)
LEMMA InitExecInv == Init => ExecInv
<1> SUFFICES ASSUME Init PROVE ExecInv
  OBVIOUS
<1>1. ControlTypes /\ MineTypes
  BY NoExecIsExec, BoundsAssumption, SMT DEF Init, ControlTypes, MineTypes, Operation, Label, PollInv
<1>2. ProcessTypes
  <2>1. pid \in Pids
    BY BoundsAssumption DEF Init
  <2> QED BY <2>1, BoundsAssumption, SMT DEF Init, ProcessTypes
<1>3. WorldTypes
  <2>1. <<>> \in Seq(Attempts)
    BY SMT
  <2> QED BY <2>1, NoExecIsExec DEF Init, WorldTypes
<1>4. Pending = {} /\ Cardinality(Pending) = 0
  BY FS_EmptySet DEF Init, Pending
<1>5. IdInv
  BY <1>4, SMT DEF Init, IdInv
<1>6. HoldInv /\ OwnInv /\ DirsOwned
  BY DEF Init, HoldInv, OwnInv, DirsOwned, Execing, NoExec
<1> QED BY <1>1, <1>2, <1>3, <1>5, <1>6, TypesSplit DEF ExecInv

------------------------------------------------------------------------------
(* The kinds of steps of a call *)

ExecLabel == {"create", "start", "wait", "read", "delete"}

(* QuietMove: a step of a call that has no exec and begins none. *)
LEMMA QuietMove ==
    ASSUME ExecInv, ControlTypes', NEW c \in Callers, NEW l \in Label, Moves(c, l),
           l \notin ExecLabel, l # "mkdir", pc[c] \notin ExecLabel, pc[c] # "mkdir",
           UNCHANGED <<task, exec, disk, process, ids, mine>>
    PROVE  ExecInv'
<1> USE DEF ExecInv
<1>1. ControlTypes /\ MineTypes /\ ProcessTypes /\ WorldTypes
  BY TypesSplit
<1>2. MineTypes' /\ ProcessTypes' /\ WorldTypes'
  <2>1. MineTypes'
    BY <1>1 DEF MineTypes, mine
  <2>2. ProcessTypes'
    BY <1>1 DEF ProcessTypes, process, ids
  <2>3. WorldTypes'
    BY <1>1 DEF WorldTypes, disk
  <2> QED BY <2>1, <2>2, <2>3
<1>3. TypeOK' /\ PollInv'
  BY <1>2, TypesSplit, PTL
<1>4. IdInv'
  <2>1. Cardinality(Pending') = Cardinality(Pending)
    BY <1>1, PendingStep
  <2> QED BY <2>1 DEF IdInv, ids
<1>5. \A b \in Callers : Execing(b)' = Execing(b) /\ (pc'[b] = "mkdir") = (pc[b] = "mkdir")
  BY <1>1, SMT DEF Execing, Moves, ControlTypes, ExecLabel
<1>6. HoldInv'
  BY <1>5 DEF HoldInv, mine, process, ids, Execing
<1>7. OwnInv'
  BY DEF OwnInv
<1>8. DirsOwned'
  BY <1>5 DEF DirsOwned, mine, disk
<1> QED BY <1>3, <1>4, <1>6, <1>7, <1>8

(* NewExecKeeps: a call begins an exec. *)
LEMMA NewExecKeeps ==
    ASSUME ExecInv, ControlTypes', NEW c \in Callers, Moves(c, "mkdir"), NewExec(c),
           pc[c] \notin ExecLabel, pc[c] # "mkdir", UNCHANGED <<task, exec, disk, process>>
    PROVE  ExecInv'
<1> USE DEF ExecInv
<1>1. ControlTypes /\ MineTypes /\ ProcessTypes /\ WorldTypes
  BY TypesSplit
<1>2. /\ Cardinality(Pending) \in Nat
      /\ Cardinality(Pending') = Cardinality(Pending) + 1
  BY <1>1, PendingStep DEF Label
<1>3. IdInv'
  BY <1>1, <1>2, SMT DEF IdInv, NewExec, ProcessTypes
<1>4. /\ counter \in Nat /\ begun \in Nat /\ begun + 1 \in Attempts
      /\ <<pid, counter>> \in Names
  <2>1. counter \in Nat /\ begun \in Nat /\ begun < MaxAttempts /\ counter <= 2 * begun
    BY <1>1, BoundsAssumption, SMT DEF ProcessTypes, NewExec
  <2>2. counter \in 0..2 * MaxAttempts /\ begun + 1 \in 1..MaxAttempts
    BY <2>1, BoundsAssumption, SMT
  <2> QED BY <1>1, <2>1, <2>2 DEF ProcessTypes, Names, Attempts
<1>5. MineTypes'
  BY <1>1, <1>4, BoundsAssumption, SMT DEF MineTypes, NewExec, Attempts
<1>6. ProcessTypes'
  <2>1. counter' \in 0..2 * begun' /\ begun' \in 0..MaxAttempts
    BY <1>1, <1>4, BoundsAssumption, SMT DEF ProcessTypes, NewExec
  <2> QED BY <2>1, <1>1 DEF ProcessTypes, process
<1>7. WorldTypes'
  BY <1>1 DEF WorldTypes, disk
<1>8. \A b \in Callers : Execing(b)' = Execing(b)
  BY <1>1, SMT DEF Execing, Moves, ControlTypes, ExecLabel
<1>9. HoldInv'
  <2> SUFFICES ASSUME NEW b \in Callers
               PROVE  /\ pc'[b] = "mkdir" \/ Execing(b)' => id'[b] \in Names /\ attempt'[b] \in Attempts
                      /\ Execing(b)' => dir'[b] \in Names /\ dir'[b][1] = pid' /\ dir'[b][2] < counter'
    BY DEF HoldInv, Execing
  <2>1. pc'[b] = "mkdir" \/ Execing(b)' => id'[b] \in Names /\ attempt'[b] \in Attempts
    BY <1>1, <1>4, <1>8 DEF HoldInv, NewExec, Moves, ControlTypes, MineTypes
  <2>2. Execing(b) => dir[b] \in Names /\ dir[b][1] = pid /\ dir[b][2] < counter /\ dir[b][2] \in Nat
    BY SMT DEF HoldInv, Names
  <2>3. Execing(b)' => dir'[b] \in Names /\ dir'[b][1] = pid' /\ dir'[b][2] < counter'
    BY <1>4, <1>8, <2>2, SMT DEF NewExec, process
  <2> QED BY <2>1, <2>3
<1>10. OwnInv'
  BY DEF OwnInv
<1>11. DirsOwned'
  BY <1>8 DEF DirsOwned, NewExec, disk
<1> QED BY <1>3, <1>5, <1>6, <1>7, <1>9, <1>10, <1>11, TypesSplit, PTL

(* ExecMove: a call goes from one step of its exec to the next. *)
LEMMA ExecMove ==
    ASSUME ExecInv, ControlTypes', NEW c \in Callers, NEW l \in ExecLabel, Moves(c, l),
           pc[c] \in ExecLabel, UNCHANGED <<task, disk, process, ids, attempt, id, dir>>,
           result' \in [Callers -> Result], exec' \in [Names -> Exec], OwnInv'
    PROVE  ExecInv'
<1> USE DEF ExecInv
<1>1. ControlTypes /\ MineTypes /\ ProcessTypes /\ WorldTypes
  BY TypesSplit
<1>2. MineTypes' /\ ProcessTypes' /\ WorldTypes'
  <2>1. MineTypes'
    BY <1>1 DEF MineTypes
  <2>2. ProcessTypes'
    BY <1>1 DEF ProcessTypes, process, ids
  <2>3. WorldTypes'
    BY <1>1 DEF WorldTypes, disk
  <2> QED BY <2>1, <2>2, <2>3
<1>3. IdInv'
  <2>1. Cardinality(Pending') = Cardinality(Pending)
    BY <1>1, PendingStep DEF ExecLabel, Label
  <2> QED BY <2>1 DEF IdInv, ids
<1>4. \A b \in Callers : Execing(b)' = Execing(b) /\ (pc'[b] = "mkdir") = (pc[b] = "mkdir")
  BY <1>1 DEF Execing, Moves, ControlTypes, ExecLabel
<1>5. HoldInv'
  BY <1>4 DEF HoldInv, process, ids, Execing
<1>6. DirsOwned'
  BY <1>4 DEF DirsOwned, disk
<1> QED BY <1>2, <1>3, <1>5, <1>6, TypesSplit, PTL

(* RemovedIsOwned: the exec of a call is over, and its directory goes. *)
LEMMA RemovedIsOwned ==
    ASSUME ExecInv, ControlTypes', NEW c \in Callers, NEW l \in {"idle", "poll"}, Moves(c, l),
           pc[c] \in ExecLabel, NoExecOf(c), RemoveDir(dir[c]),
           UNCHANGED <<task, process, ids>>,
           NEW e \in [Names -> Exec], exec' = Unlinked(e, dir[c]),
           \A n \in Names : e[n].target # None => e[n].owner \in Attempts
    PROVE  ExecInv'
<1> USE DEF ExecInv
<1>1. ControlTypes /\ MineTypes /\ ProcessTypes /\ WorldTypes
  BY TypesSplit
<1>2. Execing(c) /\ dir[c] \in Names
  BY DEF Execing, ExecLabel, HoldInv
<1>3. MineTypes'
  BY <1>1, NoExecIsExec, BoundsAssumption, SMT DEF MineTypes, NoExecOf
<1>4. ProcessTypes'
  BY <1>1 DEF ProcessTypes, process, ids
<1>5. WorldTypes'
  <2>1. \A n \in Names : exec'[n] \in Exec
    BY NoExecIsExec DEF Unlinked, Exec, NoExec
  <2>2. exec' \in [Names -> Exec]
    BY <2>1 DEF Unlinked
  <2>3. stdout' \in [Names -> Seq(Attempts)]
    BY <1>1, <1>2, SMT DEF WorldTypes, RemoveDir
  <2> QED BY <1>1, <2>2, <2>3 DEF WorldTypes, RemoveDir
<1>6. IdInv'
  <2>1. Cardinality(Pending') = Cardinality(Pending)
    BY <1>1, PendingStep DEF ExecLabel, Label
  <2> QED BY <2>1 DEF IdInv, ids
<1>7. /\ ~Execing(c)' /\ pc'[c] # "mkdir"
      /\ \A b \in Callers \ {c} : /\ Execing(b)' = Execing(b)
                                  /\ (pc'[b] = "mkdir") = (pc[b] = "mkdir")
                                  /\ dir'[b] = dir[b] /\ id'[b] = id[b] /\ attempt'[b] = attempt[b]
  BY <1>1 DEF Execing, Moves, ControlTypes, NoExecOf, MineTypes
<1>8. HoldInv'
  BY <1>7, SMT DEF HoldInv, process, ids, Execing
<1>9. OwnInv'
  BY DEF OwnInv, Unlinked, NoExec
<1>10. DirsOwned'
  <2>1. \A b \in Callers : Execing(b) /\ dir[b] = dir[c] => b = c
    BY <1>2 DEF DirsOwned
  <2>2. {dir'[b] : b \in {b \in Callers : Execing(b)'}}
          = {dir[b] : b \in {b \in Callers : Execing(b)}} \ {dir[c]}
    BY <1>2, <1>7, <2>1
  <2>3. dirs' = strays' \cup {dir'[b] : b \in {b \in Callers : Execing(b)'}}
    BY <2>2 DEF DirsOwned, RemoveDir
  <2>4. \A a, b \in Callers : Execing(a)' /\ Execing(b)' /\ dir'[a] = dir'[b] => a = b
    BY <1>7, SMT DEF DirsOwned
  <2> QED BY <2>3, <2>4 DEF DirsOwned
<1> QED BY <1>3, <1>4, <1>5, <1>6, <1>8, <1>9, <1>10, TypesSplit, PTL

------------------------------------------------------------------------------
(* The steps *)

(* EndExecKeeps: exec_with_opts returns or is dropped. *)
LEMMA EndExecKeeps ==
    ASSUME ExecInv, NEW c \in Callers, pc[c] \in ExecLabel, NEW r,
           NEW e \in [Names -> Exec], EndExec(c, r, e),
           \A n \in Names : e[n].target # None => e[n].owner \in Attempts
    PROVE  ExecInv'
<1>1. ControlTypes
  BY TypesSplit DEF ExecInv
<1>2. Conclude(c, r) /\ NoExecOf(c) /\ RemoveDir(dir[c]) /\ exec' = Unlinked(e, dir[c])
  BY DEF EndExec
<1>3. ControlTypes' /\ \E l \in {"idle", "poll"} : Moves(c, l)
  BY <1>1, <1>2, ConcludeMoves
<1>4. UNCHANGED <<task, process, ids>>
  BY DEF EndExec
<1> QED BY <1>2, <1>3, <1>4, RemovedIsOwned

(* CreateIoDirKeeps: the directory is made, not made, or left half made. *)
LEMMA CreateIoDirKeeps ==
    ASSUME ExecInv, NEW c \in Callers, CreateIoDir(c)
    PROVE  ExecInv'
<1> USE DEF ExecInv
<1> DEFINE d == <<pid, counter>>
<1>1. ControlTypes /\ MineTypes /\ ProcessTypes /\ WorldTypes
  BY TypesSplit
<1>2. /\ pc[c] = "mkdir" /\ ~Execing(c)
      /\ UNCHANGED <<task, exec, process, begun>>
      /\ counter' \in {counter, counter + 1}
  BY DEF CreateIoDir, Execing
<1>3. \A l \in Label : Moves(c, l) /\ l # "mkdir" =>
          /\ Cardinality(Pending) \in Nat /\ Cardinality(Pending) >= 1
          /\ Cardinality(Pending') = Cardinality(Pending) - 1
  BY <1>1, <1>2, PendingStep
<1>4. counter \in Nat /\ begun \in Nat /\ begun <= MaxAttempts
  BY <1>1, BoundsAssumption, SMT DEF ProcessTypes
<1>5. \A l \in Label : Moves(c, l) /\ l # "mkdir" =>
          IdInv' /\ ProcessTypes' /\ d \in Names
  <2> SUFFICES ASSUME NEW l \in Label, Moves(c, l), l # "mkdir"
               PROVE  IdInv' /\ ProcessTypes' /\ d \in Names
    OBVIOUS
  <2>1. counter + 1 <= 2 * begun /\ IdInv'
    BY <1>2, <1>3, <1>4, SMT DEF IdInv
  <2>2. counter' \in 0..2 * begun'
    BY <2>1, <1>2, <1>4, SMT
  <2>3. ProcessTypes'
    BY <1>1, <1>2, <2>2 DEF ProcessTypes, process
  <2>4. counter \in 0..2 * MaxAttempts
    BY <2>1, <1>4, BoundsAssumption, SMT
  <2> QED BY <1>1, <2>1, <2>3, <2>4 DEF ProcessTypes, Names
<1>6. \A b \in Callers : Execing(b) =>
          dir[b] \in Names /\ dir[b][1] = pid /\ dir[b][2] < counter /\ dir[b][2] \in Nat /\ dir[b] # d
  BY <1>4, SMT DEF HoldInv, Names
<1>7. OwnInv'
  BY <1>2 DEF OwnInv
<1>8. CASE /\ counter' = counter + 1
           /\ dir' = [dir EXCEPT ![c] = d]
           /\ dirs' = dirs \cup {d}
           /\ strays' = strays \ {d}
           /\ stdout' = [stdout EXCEPT ![d] = <<>>]
           /\ Goto(c, "create")
           /\ UNCHANGED <<attempt, id, result>>
  <2>1. ControlTypes' /\ Moves(c, "create")
    BY <1>1, <1>8, GotoMoves DEF Label
  <2>2. IdInv' /\ ProcessTypes' /\ d \in Names
    BY <2>1, <1>5 DEF Label
  <2>3. MineTypes'
    BY <1>1, <1>8, <2>2 DEF MineTypes
  <2>4. WorldTypes'
    <3>1. <<>> \in Seq(Attempts)
      BY SMT
    <3> QED BY <1>1, <1>2, <1>8, <2>2, <3>1 DEF WorldTypes
  <2>5. /\ Execing(c)' /\ dir'[c] = d
        /\ \A b \in Callers \ {c} : /\ Execing(b)' = Execing(b)
                                    /\ (pc'[b] = "mkdir") = (pc[b] = "mkdir")
                                    /\ dir'[b] = dir[b]
    BY <1>1, <1>8, <2>1 DEF Execing, Moves, ControlTypes, MineTypes
  <2>6. HoldInv'
    <3> SUFFICES ASSUME NEW b \in Callers
                 PROVE  /\ pc'[b] = "mkdir" \/ Execing(b)' => id'[b] \in Names /\ attempt'[b] \in Attempts
                        /\ Execing(b)' => dir'[b] \in Names /\ dir'[b][1] = pid' /\ dir'[b][2] < counter'
      BY DEF HoldInv, Execing
    <3>1. CASE b = c
      BY <1>2, <1>4, <1>8, <2>2, <2>5, <3>1, SMT DEF HoldInv, process
    <3>2. CASE b # c
      BY <1>2, <1>4, <1>6, <1>8, <2>5, <3>2, SMT DEF HoldInv, process
    <3> QED BY <3>1, <3>2
  <2>7. DirsOwned'
    <3>1. {dir'[b] : b \in {b \in Callers : Execing(b)'}}
            = {dir[b] : b \in {b \in Callers : Execing(b)}} \cup {d}
      BY <1>2, <2>5
    <3>2. d \notin {dir[b] : b \in {b \in Callers : Execing(b)}}
      BY <1>6
    <3>3. dirs' = strays' \cup {dir'[b] : b \in {b \in Callers : Execing(b)'}}
      BY <1>8, <3>1, <3>2 DEF DirsOwned
    <3>4. \A a, b \in Callers : Execing(a)' /\ Execing(b)' /\ dir'[a] = dir'[b] => a = b
      BY <1>6, <2>5, SMT DEF DirsOwned
    <3> QED BY <3>3, <3>4 DEF DirsOwned
  <2> QED BY <2>1, <2>2, <2>3, <2>4, <2>6, <2>7, <1>7, TypesSplit, PTL
<1>9. CASE /\ Conclude(c, "err")
           /\ NoExecOf(c)
           /\ stdout' = stdout
           /\ \/ dirs' = dirs /\ strays' = strays
              \/ dirs' = dirs \cup {d} /\ strays' = strays \cup {d}
  <2>1. ControlTypes' /\ \E l \in {"idle", "poll"} : Moves(c, l)
    BY <1>1, <1>9, ConcludeMoves
  <2>2. IdInv' /\ ProcessTypes' /\ d \in Names
    BY <2>1, <1>5 DEF Label
  <2>3. MineTypes'
    BY <1>1, <1>9, NoExecIsExec, BoundsAssumption, SMT DEF MineTypes, NoExecOf
  <2>4. WorldTypes'
    BY <1>1, <1>2, <1>9, <2>2 DEF WorldTypes
  <2>5. /\ ~Execing(c)' /\ pc'[c] # "mkdir"
        /\ \A b \in Callers \ {c} : /\ Execing(b)' = Execing(b)
                                    /\ (pc'[b] = "mkdir") = (pc[b] = "mkdir")
                                    /\ dir'[b] = dir[b] /\ id'[b] = id[b] /\ attempt'[b] = attempt[b]
    BY <1>1, <1>9, <2>1 DEF Execing, Moves, ControlTypes, NoExecOf, MineTypes
  <2>6. HoldInv'
    <3> SUFFICES ASSUME NEW b \in Callers
                 PROVE  /\ pc'[b] = "mkdir" \/ Execing(b)' => id'[b] \in Names /\ attempt'[b] \in Attempts
                        /\ Execing(b)' => dir'[b] \in Names /\ dir'[b][1] = pid' /\ dir'[b][2] < counter'
      BY DEF HoldInv, Execing
    <3> QED BY <1>2, <1>4, <1>6, <2>5, SMT DEF HoldInv, process
  <2>7. DirsOwned'
    <3>1. {dir'[b] : b \in {b \in Callers : Execing(b)'}}
            = {dir[b] : b \in {b \in Callers : Execing(b)}}
      BY <1>2, <2>5, SMT
    <3>2. dirs' = strays' \cup {dir'[b] : b \in {b \in Callers : Execing(b)'}}
      BY <1>9, <3>1 DEF DirsOwned
    <3>3. \A a, b \in Callers : Execing(a)' /\ Execing(b)' /\ dir'[a] = dir'[b] => a = b
      BY <2>5 DEF DirsOwned
    <3> QED BY <3>2, <3>3 DEF DirsOwned
  <2> QED BY <2>1, <2>2, <2>3, <2>4, <2>6, <2>7, <1>7, TypesSplit, PTL
<1> QED BY <1>8, <1>9 DEF CreateIoDir, disk

(* BeginKeeps: a call of exec, wait_ready or probe_health starts. *)
LEMMA BeginKeeps ==
    ASSUME ExecInv, NEW c \in Callers, NEW o \in Ops[c], Begin(c, o)
    PROVE  ExecInv'
<1>1. ControlTypes /\ pc[c] = "idle"
  BY TypesSplit DEF ExecInv, Begin, Busy
<1>2. o \in Operation /\ First(o) \in Label /\ First(o) \notin ExecLabel
  BY OpsAssumption DEF Operation, First, Label, ExecLabel
<1>3. Moves(c, First(o)) /\ UNCHANGED <<task, exec, disk, process>>
  BY DEF Begin, Moves
<1>4. ControlTypes'
  BY <1>1, <1>2, BoundsAssumption, SMT DEF Begin, ControlTypes, PollInv, First
<1>5. CASE o = "exec"
  <2>1. NewExec(c) /\ First(o) = "mkdir"
    BY <1>5 DEF Begin, First
  <2> QED BY <1>1, <1>3, <1>4, <2>1, NewExecKeeps DEF ExecLabel
<1>6. CASE o # "exec"
  <2>1. UNCHANGED <<ids, mine>> /\ First(o) # "mkdir"
    BY <1>6 DEF Begin, First
  <2> QED BY <1>1, <1>2, <1>3, <1>4, <2>1, QuietMove DEF ExecLabel
<1> QED BY <1>5, <1>6

(* ResolveKeeps: the HEALTHCHECK of the image is looked up. *)
LEMMA ResolveKeeps ==
    ASSUME ExecInv, NEW c \in Callers, Resolve(c)
    PROVE  ExecInv'
<1>1. /\ ControlTypes /\ pc[c] = "resolve" /\ polls[c] < MaxPolls
      /\ UNCHANGED <<task, exec, disk, process>>
  BY TypesSplit, BoundsAssumption, SMT DEF ExecInv, Resolve, PollInv
<1>2. /\ "poll" \in Label \ {"idle", "resolve"} /\ "mkdir" \in Label \ {"idle", "resolve"}
      /\ "idle" \in Label
  BY DEF Label
<1>3. CASE Goto(c, "mkdir") /\ NewExec(c)
  BY <1>1, <1>2, <1>3, GotoMoves, NewExecKeeps DEF ExecLabel
<1>4. CASE Goto(c, "poll") /\ UNCHANGED <<ids, mine>>
  BY <1>1, <1>2, <1>4, GotoMoves, QuietMove DEF ExecLabel
<1>5. CASE /\ pc' = [pc EXCEPT ![c] = "poll"]
           /\ op' = [op EXCEPT ![c] = "wait_running"]
           /\ UNCHANGED <<polls, ids, mine>>
  <2>1. Moves(c, "poll")
    BY <1>5 DEF Moves
  <2>2. ControlTypes'
    BY <1>1, <1>5 DEF ControlTypes, PollInv, Operation, Label
  <2> QED BY <1>1, <1>2, <1>5, <2>1, <2>2, QuietMove DEF ExecLabel
<1>6. CASE Return(c) /\ UNCHANGED <<ids, mine>>
  BY <1>1, <1>2, <1>6, ReturnMoves, QuietMove DEF ExecLabel
<1> QED BY <1>3, <1>4, <1>5, <1>6 DEF Resolve

(* PollKeeps: one iteration of wait_ready. *)
LEMMA PollKeeps ==
    ASSUME ExecInv, NEW c \in Callers, Poll(c)
    PROVE  ExecInv'
<1> DEFINE Goes(to) == /\ pc' = [pc EXCEPT ![c] = to]
                       /\ polls' = [polls EXCEPT ![c] = polls[c] + 1]
                       /\ UNCHANGED op
<1>1. /\ ControlTypes /\ pc[c] = "poll" /\ polls[c] < MaxPolls
      /\ UNCHANGED <<task, exec, disk, process>>
  BY TypesSplit DEF ExecInv, Poll, PollInv
<1>2. ASSUME NEW to \in {"poll", "connect", "mkdir"}, Goes(to),
             to = "poll" => polls[c] + 1 < MaxPolls
      PROVE  ControlTypes' /\ Moves(c, to) /\ to \in Label /\ to \notin ExecLabel
  <2>1. polls[c] + 1 \in 0..MaxPolls
    BY <1>1, BoundsAssumption, SMT DEF ControlTypes
  <2>2. to \in Label /\ to \notin ExecLabel /\ to \notin {"idle", "resolve"}
    BY DEF Label, ExecLabel
  <2>3. ControlTypes'
    BY <1>1, <1>2, <2>1, <2>2 DEF ControlTypes, PollInv
  <2> QED BY <1>2, <2>2, <2>3 DEF Moves
<1>3. CASE Return(c) /\ UNCHANGED <<ids, mine>>
  BY <1>1, <1>3, ReturnMoves, QuietMove DEF ExecLabel, Label
<1>4. CASE polls[c] + 1 < MaxPolls /\ Goes("poll") /\ UNCHANGED <<ids, mine>>
  <2>1. ControlTypes' /\ Moves(c, "poll")
    BY <1>2, <1>4
  <2> QED BY <1>1, <1>4, <2>1, QuietMove DEF ExecLabel, Label
<1>5. CASE Goes("connect") /\ UNCHANGED <<ids, mine>>
  <2>1. ControlTypes' /\ Moves(c, "connect")
    BY <1>2, <1>5
  <2> QED BY <1>1, <1>5, <2>1, QuietMove DEF ExecLabel, Label
<1>6. CASE Goes("mkdir") /\ NewExec(c)
  <2>1. ControlTypes' /\ Moves(c, "mkdir")
    BY <1>2, <1>6
  <2> QED BY <1>1, <1>6, <2>1, NewExecKeeps DEF ExecLabel
<1> QED BY <1>3, <1>4, <1>5, <1>6 DEF Poll

(* ConnectKeeps: the check of a TCP port. *)
LEMMA ConnectKeeps ==
    ASSUME ExecInv, NEW c \in Callers, Connect(c)
    PROVE  ExecInv'
<1>1. ControlTypes /\ pc[c] = "connect"
  BY TypesSplit DEF ExecInv, Connect
<1>2. ControlTypes' /\ \E l \in {"idle", "poll"} : Moves(c, l)
  BY <1>1, ReturnMoves, PollAgainMoves DEF Connect
<1> QED BY <1>1, <1>2, QuietMove DEF Connect, ExecLabel, Label

(* CreateExecKeeps: containerd makes the exec record, or exec fails. *)
LEMMA CreateExecKeeps ==
    ASSUME ExecInv, NEW c \in Callers, CreateExec(c)
    PROVE  ExecInv'
<1>1. ControlTypes /\ MineTypes /\ WorldTypes /\ OwnInv /\ pc[c] = "create"
  BY TypesSplit DEF ExecInv, CreateExec
<1>2. id[c] \in Names /\ attempt[c] \in Attempts /\ dir[c] \in Names
  BY <1>1 DEF ExecInv, HoldInv, Execing
<1>3. CASE EndExec(c, "err", exec)
  BY <1>1, <1>3, EndExecKeeps DEF ExecLabel, WorldTypes, OwnInv
<1>4. CASE /\ exec' = [exec EXCEPT ![id[c]] =
                          [state |-> "created", code |-> 0, target |-> dir[c],
                           owner |-> attempt[c], wrote |-> 0]]
           /\ Goto(c, "start")
           /\ UNCHANGED <<task, disk, process, ids, mine>>
  <2> DEFINE new == [state |-> "created", code |-> 0, target |-> dir[c],
                     owner |-> attempt[c], wrote |-> 0]
  <2>1. new \in Exec /\ new.owner = attempt[c]
    BY <1>2, BoundsAssumption, SMT DEF Exec, Attempts
  <2>2. exec' \in [Names -> Exec] /\ OwnInv'
    BY <1>1, <1>2, <1>4, <2>1 DEF WorldTypes, OwnInv
  <2>3. ControlTypes' /\ Moves(c, "start")
    BY <1>1, <1>4, GotoMoves DEF Label
  <2>4. result' \in [Callers -> Result]
    BY <1>1, <1>4 DEF MineTypes, mine
  <2> QED BY <1>1, <1>4, <2>2, <2>3, <2>4, ExecMove DEF ExecLabel, mine
<1> QED BY <1>3, <1>4 DEF CreateExec

(* StartExecKeeps: the process of the exec is started, or exec fails. *)
LEMMA StartExecKeeps ==
    ASSUME ExecInv, NEW c \in Callers, StartExec(c)
    PROVE  ExecInv'
<1>1. ControlTypes /\ MineTypes /\ WorldTypes /\ OwnInv /\ pc[c] = "start"
  BY TypesSplit DEF ExecInv, StartExec
<1>2. id[c] \in Names
  BY <1>1 DEF ExecInv, HoldInv, Execing
<1>3. CASE EndExec(c, "err", exec)
  BY <1>1, <1>3, EndExecKeeps DEF ExecLabel, WorldTypes, OwnInv
<1>4. CASE /\ exec' = [exec EXCEPT ![id[c]].state = "running"]
           /\ Goto(c, "wait")
           /\ UNCHANGED <<task, disk, process, ids, mine>>
  <2> DEFINE new == [exec[id[c]] EXCEPT !.state = "running"]
  <2>1. /\ new \in Exec /\ new.owner = exec[id[c]].owner
        /\ new.target = exec[id[c]].target
    BY <1>1, <1>2, ZenonT(30) DEF WorldTypes, Exec
  <2>2. exec' \in [Names -> Exec] /\ OwnInv'
    BY <1>1, <1>2, <1>4, <2>1 DEF WorldTypes, OwnInv
  <2>3. ControlTypes' /\ Moves(c, "wait")
    BY <1>1, <1>4, GotoMoves DEF Label
  <2>4. result' \in [Callers -> Result]
    BY <1>1, <1>4 DEF MineTypes, mine
  <2> QED BY <1>1, <1>4, <2>2, <2>3, <2>4, ExecMove DEF ExecLabel, mine
<1> QED BY <1>3, <1>4 DEF StartExec

(* WaitExecKeeps: the exit status comes, or exec fails. *)
LEMMA WaitExecKeeps ==
    ASSUME ExecInv, NEW c \in Callers, WaitExec(c)
    PROVE  ExecInv'
<1>1. ControlTypes /\ MineTypes /\ WorldTypes /\ OwnInv /\ pc[c] = "wait"
  BY TypesSplit DEF ExecInv, WaitExec
<1>2. id[c] \in Names
  BY <1>1 DEF ExecInv, HoldInv, Execing
<1>3. CASE EndExec(c, "err", exec)
  BY <1>1, <1>3, EndExecKeeps DEF ExecLabel, WorldTypes, OwnInv
<1>4. CASE /\ result' = [result EXCEPT ![c].code = exec[id[c]].code]
           /\ Goto(c, "read")
           /\ UNCHANGED <<task, exec, disk, process, ids, attempt, id, dir>>
  <2>1. [result[c] EXCEPT !.code = exec[id[c]].code] \in Result
    BY <1>1, <1>2, ZenonT(30) DEF MineTypes, WorldTypes, Exec, Result
  <2>2. result' \in [Callers -> Result]
    BY <1>1, <1>4, <2>1 DEF MineTypes
  <2>3. ControlTypes' /\ Moves(c, "read")
    BY <1>1, <1>4, GotoMoves DEF Label
  <2>4. exec' \in [Names -> Exec] /\ OwnInv'
    BY <1>1, <1>4 DEF WorldTypes, OwnInv
  <2> QED BY <1>1, <1>4, <2>2, <2>3, <2>4, ExecMove DEF ExecLabel
<1> QED BY <1>3, <1>4 DEF WaitExec

(* CappedType: read_capped returns a part of the output. *)
LEMMA CappedType ==
    ASSUME NEW s \in Seq(Attempts)
    PROVE  Capped(s) \in Seq(Attempts)
BY BoundsAssumption, SMT DEF Capped

(* ResultType: a result with an output is one. *)
LEMMA ResultType ==
    ASSUME NEW r \in Result, NEW o \in Seq(Attempts), NEW t \in BOOLEAN
    PROVE  [r EXCEPT !.out = o, !.truncated = t] \in Result
BY DEF Result

(* ReadOutputKeeps: the output is read, or exec fails. *)
LEMMA ReadOutputKeeps ==
    ASSUME ExecInv, NEW c \in Callers, ReadOutput(c)
    PROVE  ExecInv'
<1> DEFINE s == stdout[dir[c]]
<1>1. ControlTypes /\ MineTypes /\ WorldTypes /\ OwnInv /\ pc[c] = "read"
  BY TypesSplit DEF ExecInv, ReadOutput
<1>2. dir[c] \in Names /\ s \in Seq(Attempts)
  BY <1>1 DEF ExecInv, HoldInv, Execing, WorldTypes
<1>3. CASE EndExec(c, "err", exec)
  BY <1>1, <1>3, EndExecKeeps DEF ExecLabel, WorldTypes, OwnInv
<1>4. CASE /\ result' = [result EXCEPT ![c].out = Capped(s), ![c].truncated = Len(s) > Cap]
           /\ Goto(c, "delete")
           /\ UNCHANGED <<task, exec, disk, process, ids, attempt, id, dir>>
  <2>1. Capped(s) \in Seq(Attempts) /\ (Len(s) > Cap) \in BOOLEAN
    BY <1>2, CappedType, SMT
  <2> HIDE DEF s
  <2>2. [result[c] EXCEPT !.out = Capped(s), !.truncated = Len(s) > Cap] \in Result
    <3>1. result[c] \in Result
      BY <1>1 DEF MineTypes
    <3> QED BY <2>1, <3>1, ResultType
  <2>3. result' \in [Callers -> Result]
    BY <1>1, <1>4, <2>2 DEF MineTypes
  <2>4. ControlTypes' /\ Moves(c, "delete")
    BY <1>1, <1>4, GotoMoves DEF Label
  <2>5. exec' \in [Names -> Exec] /\ OwnInv'
    BY <1>1, <1>4 DEF WorldTypes, OwnInv
  <2> QED BY <1>1, <1>4, <2>3, <2>4, <2>5, ExecMove DEF ExecLabel
<1> QED BY <1>3, <1>4 DEF ReadOutput

(* DeleteProcessKeeps: the exec record goes, or stays when that fails. *)
LEMMA DeleteProcessKeeps ==
    ASSUME ExecInv, NEW c \in Callers, DeleteProcess(c)
    PROVE  ExecInv'
<1>1. WorldTypes /\ OwnInv /\ pc[c] \in ExecLabel
  BY TypesSplit DEF ExecInv, DeleteProcess, ExecLabel
<1>2. PICK e \in {exec, [exec EXCEPT ![id[c]] = NoExec]} :
          EndExec(c, IF result[c].code = 0 THEN "zero" ELSE "nonzero", e)
  BY DEF DeleteProcess
<1>3. /\ e \in [Names -> Exec]
      /\ \A n \in Names : e[n].target # None => e[n].owner \in Attempts
  <2>1. NoExec.target = None
    BY DEF NoExec
  <2> QED BY <1>1, <1>2, <2>1, NoExecIsExec DEF WorldTypes, OwnInv
<1> QED BY <1>1, <1>2, <1>3, EndExecKeeps

(* TimedOutKeeps: the timeout of a HEALTHCHECK drops its exec. *)
LEMMA TimedOutKeeps ==
    ASSUME ExecInv, NEW c \in Callers, TimedOut(c)
    PROVE  ExecInv'
<1>1. WorldTypes /\ OwnInv /\ pc[c] \in ExecLabel /\ EndExec(c, "err", exec)
  BY TypesSplit DEF ExecInv, TimedOut, ExecLabel, Execing
<1> QED BY <1>1, EndExecKeeps DEF WorldTypes, OwnInv

(* CancelKeeps: the caller drops the operation. *)
LEMMA CancelKeeps ==
    ASSUME ExecInv, NEW c \in Callers, Cancel(c)
    PROVE  ExecInv'
<1>1. ControlTypes /\ MineTypes /\ ProcessTypes /\ WorldTypes /\ OwnInv
  BY TypesSplit DEF ExecInv
<1>2. ControlTypes' /\ Moves(c, "idle") /\ NoExecOf(c) /\ UNCHANGED <<task, process, ids>>
  BY <1>1, ReturnMoves DEF Cancel
<1>3. CASE Execing(c)
  <2>1. pc[c] \in ExecLabel /\ RemoveDir(dir[c]) /\ exec' = Unlinked(exec, dir[c])
    BY <1>3 DEF Cancel, Execing, ExecLabel
  <2> QED BY <1>1, <1>2, <2>1, RemovedIsOwned DEF WorldTypes, OwnInv
<1>4. CASE ~Execing(c)
  <2>1. pc[c] # "mkdir" /\ UNCHANGED <<disk, exec>>
    BY <1>4 DEF Cancel
  <2>2. MineTypes'
    BY <1>1, <1>2, NoExecIsExec, BoundsAssumption, SMT DEF MineTypes, NoExecOf
  <2>3. ProcessTypes'
    BY <1>1, <1>2 DEF ProcessTypes, process, ids
  <2>4. WorldTypes' /\ OwnInv'
    BY <1>1, <1>2, <2>1 DEF WorldTypes, OwnInv, disk
  <2>5. Cardinality(Pending') = Cardinality(Pending)
    BY <1>1, <1>2, <2>1, PendingStep DEF Label
  <2>6. IdInv'
    BY <1>2, <2>5 DEF ExecInv, IdInv, ids
  <2>7. /\ ~Execing(c)' /\ pc'[c] # "mkdir"
        /\ \A b \in Callers \ {c} : /\ Execing(b)' = Execing(b)
                                    /\ (pc'[b] = "mkdir") = (pc[b] = "mkdir")
                                    /\ dir'[b] = dir[b] /\ id'[b] = id[b] /\ attempt'[b] = attempt[b]
    BY <1>1, <1>2 DEF Execing, Moves, ControlTypes, NoExecOf, MineTypes
  <2>8. HoldInv'
    <3> SUFFICES ASSUME NEW b \in Callers
                 PROVE  /\ pc'[b] = "mkdir" \/ Execing(b)' => id'[b] \in Names /\ attempt'[b] \in Attempts
                        /\ Execing(b)' => dir'[b] \in Names /\ dir'[b][1] = pid' /\ dir'[b][2] < counter'
      BY DEF HoldInv, Execing
    <3> QED BY <1>2, <2>7 DEF ExecInv, HoldInv, process, ids
  <2>9. DirsOwned'
    <3>1. {dir'[b] : b \in {b \in Callers : Execing(b)'}}
            = {dir[b] : b \in {b \in Callers : Execing(b)}}
      BY <1>4, <2>7
    <3>2. dirs' = strays' \cup {dir'[b] : b \in {b \in Callers : Execing(b)'}}
      BY <2>1, <3>1 DEF ExecInv, DirsOwned, disk
    <3>3. \A a, b \in Callers : Execing(a)' /\ Execing(b)' /\ dir'[a] = dir'[b] => a = b
      BY <2>7 DEF ExecInv, DirsOwned
    <3> QED BY <3>2, <3>3 DEF DirsOwned
  <2>10. TypeOK' /\ PollInv'
    BY <1>2, <2>2, <2>3, <2>4, TypesSplit, PTL
  <2> QED BY <2>4, <2>6, <2>8, <2>9, <2>10 DEF ExecInv
<1> QED BY <1>3, <1>4

(* CrashKeeps: the process dies and a new one starts; its pid may be one it *)
(* has had before.                                                          *)
LEMMA CrashKeeps == ExecInv /\ Crash => ExecInv'
<1> SUFFICES ASSUME ExecInv, Crash PROVE ExecInv'
  OBVIOUS
<1>1. ProcessTypes /\ WorldTypes /\ OwnInv
  BY TypesSplit DEF ExecInv
<1>2. ControlTypes'
  BY BoundsAssumption, SMT DEF Crash, ControlTypes, PollInv, Label, Operation
<1>3. MineTypes'
  BY NoExecIsExec, BoundsAssumption, SMT DEF Crash, MineTypes
<1>4. ProcessTypes'
  BY <1>1, BoundsAssumption, SMT DEF Crash, ProcessTypes
<1>5. WorldTypes' /\ OwnInv'
  BY <1>1 DEF Crash, WorldTypes, OwnInv
<1>6. \A b \in Callers : ~Execing(b)' /\ pc'[b] # "mkdir"
  BY DEF Crash, Execing
<1>7. IdInv'
  <2>1. Pending' = {}
    BY <1>6 DEF Pending
  <2>2. Cardinality(Pending') = 0
    BY <2>1, FS_EmptySet
  <2>3. counter' = 0 /\ begun' \in Nat
    BY <1>1, BoundsAssumption, SMT DEF Crash, ProcessTypes
  <2>4. counter' + Cardinality(Pending') <= 2 * begun'
    <3>1. \A b \in Nat : 0 + 0 <= 2 * b
      BY SMT
    <3> QED BY <2>2, <2>3, <3>1
  <2> QED BY <2>4 DEF IdInv
<1>8. HoldInv'
  BY <1>6 DEF HoldInv, Execing
<1>9. DirsOwned'
  <2>1. {dir'[b] : b \in {b \in Callers : Execing(b)'}} = {}
    BY <1>6
  <2>2. dirs' = dirs /\ strays' = dirs
    BY DEF Crash
  <2> QED BY <1>6, <2>1, <2>2 DEF DirsOwned
<1>10. TypeOK' /\ PollInv'
  BY <1>2, <1>3, <1>4, <1>5, TypesSplit, PTL
<1> QED BY <1>5, <1>7, <1>8, <1>9, <1>10 DEF ExecInv

(* OutsideKeeps: what does not touch the calls or the directories keeps the  *)
(* invariant.                                                                *)
LEMMA OutsideKeeps ==
    ASSUME ExecInv, UNCHANGED <<dirs, strays, process, ids, calls>>, WorldTypes', OwnInv'
    PROVE  ExecInv'
<1>1. ControlTypes /\ MineTypes /\ ProcessTypes
  BY TypesSplit DEF ExecInv
<1>2. ControlTypes' /\ MineTypes'
  BY <1>1 DEF ControlTypes, PollInv, MineTypes, calls, mine
<1>3. ProcessTypes'
  BY <1>1 DEF ProcessTypes, process, ids
<1>4. TypeOK' /\ PollInv'
  BY <1>2, <1>3, TypesSplit, PTL
<1>5. IdInv'
  BY DEF ExecInv, IdInv, Pending, calls, ids
<1>6. HoldInv'
  BY DEF ExecInv, HoldInv, Execing, calls, mine, ids, process
<1>7. DirsOwned'
  BY DEF ExecInv, DirsOwned, Execing, calls, mine
<1> QED BY <1>4, <1>5, <1>6, <1>7 DEF ExecInv

(* ProcessKeeps: an exec'd process writes or exits. *)
LEMMA ProcessKeeps ==
    ASSUME ExecInv, NEW n \in Names, ProcessWrites(n) \/ ProcessExits(n)
    PROVE  ExecInv'
<1>1. WorldTypes /\ OwnInv
  BY TypesSplit DEF ExecInv
<1>2. exec[n] \in Exec
  BY <1>1 DEF WorldTypes
<1>3. CASE ProcessWrites(n)
  <2> DEFINE d == exec[n].target
  <2>1. d \in Names /\ exec[n].owner \in Attempts
    BY <1>1, <1>2, <1>3 DEF ProcessWrites, OwnInv, Exec
  <2>2. exec[n].wrote + 1 \in 0..MaxOut
    BY <1>2, <1>3, BoundsAssumption, SMT DEF ProcessWrites, Exec
  <2> DEFINE w == exec[n].wrote + 1
  <2> HIDE DEF w
  <2>3. /\ [exec[n] EXCEPT !.wrote = w] \in Exec
        /\ [exec[n] EXCEPT !.wrote = w].owner = exec[n].owner
    BY <1>2, <2>2 DEF Exec, w
  <2>4. exec' \in [Names -> Exec] /\ OwnInv'
    BY <1>1, <1>3, <2>1, <2>3 DEF ProcessWrites, WorldTypes, OwnInv, w
  <2>5. Append(stdout[d], exec[n].owner) \in Seq(Attempts)
    BY <1>1, <2>1, SMT DEF WorldTypes
  <2>6. stdout' \in [Names -> Seq(Attempts)]
    BY <1>1, <1>3, <2>1, <2>5 DEF ProcessWrites, WorldTypes
  <2>7. WorldTypes'
    BY <1>1, <1>3, <2>4, <2>6 DEF ProcessWrites, WorldTypes
  <2>8. UNCHANGED <<dirs, strays, process, ids, calls>>
    BY <1>3 DEF ProcessWrites
  <2> QED BY <2>4, <2>7, <2>8, OutsideKeeps
<1>4. CASE ProcessExits(n)
  <2>1. PICK k \in {0, 1} : exec' = [exec EXCEPT ![n].state = "exited", ![n].code = k]
    BY <1>4 DEF ProcessExits
  <2>2. /\ [exec[n] EXCEPT !.state = "exited", !.code = k] \in Exec
        /\ [exec[n] EXCEPT !.state = "exited", !.code = k].owner = exec[n].owner
        /\ [exec[n] EXCEPT !.state = "exited", !.code = k].target = exec[n].target
    BY <1>2 DEF Exec
  <2>3. exec' \in [Names -> Exec] /\ OwnInv'
    BY <1>1, <2>1, <2>2 DEF WorldTypes, OwnInv
  <2>4. WorldTypes'
    BY <1>1, <1>4, <2>3 DEF ProcessExits, WorldTypes, disk
  <2> QED BY <1>4, <2>3, <2>4, OutsideKeeps DEF ProcessExits, disk
<1> QED BY <1>3, <1>4

(* TaskKeeps: the task of the container changes. *)
LEMMA TaskKeeps == ExecInv /\ TaskChanges => ExecInv'
<1> SUFFICES ASSUME ExecInv, TaskChanges PROVE ExecInv'
  OBVIOUS
<1>1. WorldTypes /\ OwnInv
  BY TypesSplit DEF ExecInv
<1>2. \A e \in Exec : /\ Killed(e) \in Exec
                      /\ Killed(e).owner = e.owner /\ Killed(e).target = e.target
  BY DEF Killed, Exec
<1>3. exec' \in [Names -> Exec] /\ OwnInv'
  <2>1. CASE exec' = exec
    BY <1>1, <2>1 DEF WorldTypes, OwnInv
  <2>2. CASE exec' = [n \in Names |-> Killed(exec[n])]
    BY <1>1, <1>2, <2>2 DEF WorldTypes, OwnInv
  <2>3. CASE exec' = [n \in Names |-> NoExec]
    <3>1. NoExec.target = None
      BY DEF NoExec
    <3> QED BY <2>3, <3>1, NoExecIsExec DEF OwnInv
  <2> QED BY <2>1, <2>2, <2>3 DEF TaskChanges
<1>4. WorldTypes'
  BY <1>1, <1>3 DEF TaskChanges, WorldTypes, disk
<1> QED BY <1>3, <1>4, OutsideKeeps DEF TaskChanges, disk

(* NextExecInv: no step breaks the invariant. *)
LEMMA NextExecInv == ExecInv /\ [Next]_vars => ExecInv'
<1> SUFFICES ASSUME ExecInv, [Next]_vars PROVE ExecInv'
  OBVIOUS
<1>1. ASSUME NEW c \in Callers, NEW o \in Ops[c], Begin(c, o) PROVE ExecInv'
  BY <1>1, BeginKeeps
<1>2. ASSUME NEW c \in Callers, Step(c) PROVE ExecInv'
  BY <1>2, ResolveKeeps, PollKeeps, ConnectKeeps, CreateIoDirKeeps, CreateExecKeeps,
     StartExecKeeps, WaitExecKeeps, ReadOutputKeeps, DeleteProcessKeeps DEF Step
<1>3. ASSUME NEW c \in Callers, TimedOut(c) \/ Cancel(c) PROVE ExecInv'
  BY <1>3, TimedOutKeeps, CancelKeeps
<1>4. ASSUME NEW n \in Names, ProcessWrites(n) \/ ProcessExits(n) PROVE ExecInv'
  BY <1>4, ProcessKeeps
<1>5. CASE TaskChanges \/ Crash
  BY <1>5, TaskKeeps, CrashKeeps
<1>6. CASE UNCHANGED vars
  <2>1. WorldTypes' /\ OwnInv' /\ UNCHANGED <<dirs, strays, process, ids, calls>>
    BY <1>6, TypesSplit DEF vars, disk, calls, WorldTypes, OwnInv, ExecInv
  <2> QED BY <2>1, OutsideKeeps
<1> QED BY <1>1, <1>2, <1>3, <1>4, <1>5, <1>6 DEF Next

------------------------------------------------------------------------------
(* ExecInvariant: the inductive invariant holds of every behaviour. *)
THEOREM ExecInvariant == Spec => []ExecInv
BY InitExecInv, NextExecInv, PTL DEF Spec

(* TypeCorrect: type correctness, with it the bound on EXEC_COUNTER: an exec *)
(* takes at most two of its numbers.                                         *)
THEOREM TypeCorrect == Spec => []TypeOK
<1>1. ExecInv => TypeOK
  BY DEF ExecInv
<1> QED BY <1>1, ExecInvariant, PTL

(* DirsSafety: for any callers, process ids and bounds, an I/O directory has *)
(* one exec in progress or is one no Drop will remove (DirsOwned).           *)
THEOREM DirsSafety == Spec => []DirsOwned
<1>1. ExecInv => DirsOwned
  BY DEF ExecInv
<1> QED BY <1>1, ExecInvariant, PTL

------------------------------------------------------------------------------
(* Whose result an exec returns *)

(* Busy with an exec: from its id on, or from its directory on. *)
Held(l) == l = "mkdir" \/ l \in ExecLabel

(* How a record may change under a call that does nothing: its process ends, *)
(* or the record goes.                                                       *)
Tends(e, f) ==
    \/ f.state = "none"
    \/ /\ e.state # "none" /\ f.owner = e.owner /\ f.target = e.target /\ f.wrote = e.wrote
       /\ \/ f.state = e.state /\ f.code = e.code
          \/ e.state = "running" /\ f.state = "exited"

(* The call a does nothing. *)
Rests(a) ==
    /\ pc'[a] = pc[a] /\ id'[a] = id[a] /\ dir'[a] = dir[a]
    /\ attempt'[a] = attempt[a] /\ result'[a] = result[a]

(* OutputStays: what a call relies on stays, while it does nothing and no    *)
(* one writes to its directory.                                              *)
LEMMA OutputStays ==
    ASSUME NEW a \in Callers, OutputInv(a), Rests(a),
           Execing(a) => /\ \A n \in Names : exec'[n].target = dir[a] => exec[n].target = dir[a]
                         /\ stdout'[dir[a]] = stdout[dir[a]]
                         /\ pc[a] # "create" => Tends(exec[id[a]], exec'[id[a]])
    PROVE  OutputInv(a)'
<1> SUFFICES ASSUME Execing(a)' PROVE OutputInv(a)'
  BY DEF OutputInv
<1>1. Execing(a)
  BY DEF Execing, Rests
<1> DEFINE e == exec[id[a]]
           f == exec'[id[a]]
           s == stdout[dir[a]]
<1>2. /\ \A n \in Names : exec[n].target = dir[a] => n = id[a] /\ pc[a] # "create"
      /\ pc[a] = "create" => s = <<>>
  BY <1>1 DEF OutputInv
<1>3. pc[a] # "create" /\ e.state # "none" =>
          /\ e.owner = attempt[a] /\ e.target = dir[a]
          /\ Len(s) = e.wrote /\ \A i \in 1..e.wrote : s[i] = attempt[a]
          /\ pc[a] = "start" => e.state = "created"
          /\ pc[a] = "wait" => e.state \in {"running", "exited"}
          /\ pc[a] \in {"read", "delete"} => e.state = "exited" /\ e.code = result[a].code
          /\ pc[a] = "delete" => result[a].truncated = (Len(s) > Cap) /\ result[a].out = Capped(s)
  BY <1>1 DEF OutputInv
<1>4. pc[a] # "create" => Tends(e, f)
  BY <1>1
<1>5. pc[a] # "create" /\ f.state # "none" =>
          /\ f.owner = attempt[a] /\ f.target = dir[a]
          /\ Len(s) = f.wrote /\ \A i \in 1..f.wrote : s[i] = attempt[a]
          /\ pc[a] = "start" => f.state = "created"
          /\ pc[a] = "wait" => f.state \in {"running", "exited"}
          /\ pc[a] \in {"read", "delete"} => f.state = "exited" /\ f.code = result[a].code
          /\ pc[a] = "delete" => result[a].truncated = (Len(s) > Cap) /\ result[a].out = Capped(s)
  <2> HIDE DEF e, f, s
  <2> QED
    BY <1>3, <1>4 DEF Tends
<1>6. /\ \A n \in Names : exec'[n].target = dir[a] => n = id[a] /\ pc[a] # "create"
      /\ stdout'[dir[a]] = s
  BY <1>1, <1>2
<1> QED
  BY <1>2, <1>5, <1>6, SMT DEF OutputInv, Rests

(* NamesStay: no name is taken, and no exec begins to write elsewhere. *)
LEMMA NamesStay ==
    ASSUME ExecInv, NameInv, pid' = pid, used \subseteq used', counter' \in Nat,
           counter <= counter',
           \A n \in Names : exec'[n].target # None => exec'[n].target = exec[n].target,
           \A a \in Callers : Held(pc'[a]) => Held(pc[a]) /\ id'[a] = id[a]
    PROVE  NameInv'
<1>0. counter \in Nat /\ exec \in [Names -> Exec]
  BY BoundsAssumption, SMT DEF ExecInv, TypeOK, ProcessTypes, WorldTypes
<1>1. \A n \in Names : exec'[n].target # None =>
          exec'[n].target[1] \in used' /\ (exec'[n].target[1] = pid' => exec'[n].target[2] < counter')
  <2> SUFFICES ASSUME NEW n \in Names, NEW d, d = exec[n].target, d # None
               PROVE  d[1] \in used' /\ (d[1] = pid' => d[2] < counter')
    OBVIOUS
  <2>1. d[1] \in used /\ (d[1] = pid => d[2] < counter)
    BY DEF NameInv
  <2>2. d \in Names
    BY <1>0 DEF Exec
  <2>3. d[2] \in Nat
    BY <2>2, SMT DEF Names
  <2> QED
    BY <1>0, <2>1, <2>3, SMT
<1>2. \A a \in Callers : HasId(a) <=> Held(pc[a])
  BY DEF HasId, Held, Execing, ExecLabel
<1>3. \A a \in Callers : HasId(a)' <=> Held(pc'[a])
  BY DEF HasId, Held, Execing, ExecLabel
<1>4. \A a \in Callers : Held(pc[a]) => id[a][1] = pid /\ id[a][2] < counter /\ id[a][2] \in Nat
  BY <1>2, SMT DEF ExecInv, HoldInv, NameInv, HasId, Names
<1>5. \A a \in Callers : Held(pc'[a]) => id'[a][1] = pid' /\ id'[a][2] < counter'
  BY <1>0, <1>4, SMT
<1>6. \A a, b \in Callers : Held(pc'[a]) /\ Held(pc'[b]) /\ id'[a] = id'[b] => a = b
  BY <1>2 DEF NameInv
<1> QED
  BY <1>1, <1>3, <1>5, <1>6 DEF NameInv

(* QuietResult: a call that is left without an exec, and removes none. *)
LEMMA QuietResult ==
    ASSUME ExecInv, ResultInv, NEW c \in Callers, NEW l, Moves(c, l), ~Held(l),
           UNCHANGED <<exec, pid, used, fresh>>, counter' \in Nat, counter <= counter',
           \A a \in Callers : Execing(a) /\ a # c => stdout'[dir[a]] = stdout[dir[a]],
           \A a \in Callers \ {c} : /\ id'[a] = id[a] /\ dir'[a] = dir[a]
                                    /\ attempt'[a] = attempt[a] /\ result'[a] = result[a]
    PROVE  ResultInv'
<1> SUFFICES ASSUME fresh PROVE NameInv' /\ \A a \in Callers : OutputInv(a)'
  BY DEF ResultInv
<1>0. pc \in [Callers -> Label] /\ NameInv /\ \A a \in Callers : OutputInv(a)
  BY DEF ExecInv, TypeOK, CallTypes, ResultInv
<1>1. pc'[c] = l /\ \A a \in Callers \ {c} : pc'[a] = pc[a]
  BY <1>0 DEF Moves
<1>2. NameInv'
  BY <1>0, <1>1, NamesStay
<1>3. OutputInv(c)'
  BY <1>1 DEF OutputInv, Execing, Held, ExecLabel
<1>4. ASSUME NEW a \in Callers \ {c} PROVE OutputInv(a)'
  <2>1. Tends(exec[id[a]], exec[id[a]])
    BY DEF Tends
  <2> QED
    BY <1>0, <1>1, <2>1, OutputStays DEF Rests
<1> QED
  BY <1>2, <1>3, <1>4

(* NewExecResult: a call takes a new exec id. *)
LEMMA NewExecResult ==
    ASSUME ExecInv, ResultInv, NEW c \in Callers, Moves(c, "mkdir"), NewExec(c),
           ~Held(pc[c]), UNCHANGED <<exec, stdout, process>>
    PROVE  ResultInv'
<1> SUFFICES ASSUME fresh PROVE NameInv' /\ \A a \in Callers : OutputInv(a)'
  BY DEF ResultInv, process
<1>0. /\ pc \in [Callers -> Label] /\ NameInv /\ \A a \in Callers : OutputInv(a)
      /\ counter \in Nat /\ exec \in [Names -> Exec]
      /\ id \in [Callers -> Names \cup {None}] /\ attempt \in [Callers -> 0..MaxAttempts]
  BY BoundsAssumption, SMT DEF ExecInv, TypeOK, CallTypes, ProcessTypes, WorldTypes, ResultInv
<1>1. /\ pc'[c] = "mkdir" /\ id'[c] = <<pid, counter>>
      /\ \A a \in Callers \ {c} : pc'[a] = pc[a] /\ Rests(a)
      /\ pid' = pid /\ used' = used /\ counter' = counter + 1
  BY <1>0 DEF Moves, NewExec, Rests, process
<1>2. \A a \in Callers : HasId(a)' <=> Held(pc'[a])
  BY DEF HasId, Held, Execing, ExecLabel
<1>3. \A a \in Callers : Held(pc[a]) => id[a][1] = pid /\ id[a][2] < counter /\ id[a][2] \in Nat
  <2> SUFFICES ASSUME NEW a \in Callers, Held(pc[a])
               PROVE  id[a][1] = pid /\ id[a][2] < counter /\ id[a][2] \in Nat
    OBVIOUS
  <2>1. HasId(a) /\ id[a] \in Names
    BY DEF HasId, Held, Execing, ExecLabel, ExecInv, HoldInv
  <2> QED
    BY <1>0, <2>1, SMT DEF NameInv, Names
<1>4. \A a \in Callers : Held(pc'[a]) => id'[a][1] = pid' /\ id'[a][2] < counter'
  BY <1>0, <1>1, <1>3, SMT DEF Rests
<1>5. \A a, b \in Callers : Held(pc'[a]) /\ Held(pc'[b]) /\ id'[a] = id'[b] => a = b
  <2> SUFFICES ASSUME NEW a \in Callers, NEW b \in Callers, Held(pc'[a]), Held(pc'[b]),
                      id'[a] = id'[b], a # b
               PROVE  FALSE
    OBVIOUS
  <2>1. CASE a # c /\ b # c
    BY <1>0, <1>1, <2>1 DEF NameInv, HasId, Held, Execing, ExecLabel, Rests
  <2>2. CASE a = c
    BY <1>0, <1>1, <1>3, <2>2, SMT DEF Rests
  <2>3. CASE b = c
    BY <1>0, <1>1, <1>3, <2>3, SMT DEF Rests
  <2> QED
    BY <2>1, <2>2, <2>3
<1>6. \A n \in Names : exec'[n].target # None =>
          exec'[n].target[1] \in used' /\ (exec'[n].target[1] = pid' => exec'[n].target[2] < counter')
  <2> SUFFICES ASSUME NEW n \in Names, NEW d, d = exec[n].target, d # None
               PROVE  d[1] \in used /\ (d[1] = pid => d[2] < counter + 1)
    BY <1>1
  <2>1. d[2] \in Nat
    BY <1>0, SMT DEF Exec, Names
  <2> QED
    BY <1>0, <2>1, SMT DEF NameInv
<1>7. NameInv'
  BY <1>2, <1>4, <1>5, <1>6 DEF NameInv
<1>8. OutputInv(c)'
  BY <1>1 DEF OutputInv, Execing
<1>9. ASSUME NEW a \in Callers \ {c} PROVE OutputInv(a)'
  <2>1. Tends(exec[id[a]], exec[id[a]])
    BY DEF Tends
  <2> QED
    BY <1>0, <1>1, <2>1, OutputStays
<1> QED
  BY <1>7, <1>8, <1>9

(* NoName: that there is no exec is not the name of one. *)
LEMMA NoName == None \notin Names
<1> SUFFICES ASSUME None \in Names PROVE FALSE
  OBVIOUS
<1>1. PICK p \in Pids, k \in 0..2 * MaxAttempts : None = <<p, k>>
  BY SMT DEF Names
<1>2. Len(<<p, k>>) = 2 /\ Len(None) = 0
  BY DEF None
<1> QED
  BY <1>1, <1>2, SMT

(* RemovedResult: the exec of a call is over. *)
LEMMA RemovedResult ==
    ASSUME ExecInv, ResultInv, NEW c \in Callers, NEW l, Moves(c, l), ~Held(l),
           pc[c] \in ExecLabel, NoExecOf(c), RemoveDir(dir[c]), UNCHANGED <<process, ids>>,
           NEW e, e = exec \/ e = [exec EXCEPT ![id[c]] = NoExec], exec' = Unlinked(e, dir[c])
    PROVE  ResultInv'
<1> SUFFICES ASSUME fresh PROVE NameInv' /\ \A a \in Callers : OutputInv(a)'
  BY DEF ResultInv, process
<1>0. /\ pc \in [Callers -> Label] /\ NameInv /\ \A a \in Callers : OutputInv(a)
      /\ counter \in Nat /\ exec \in [Names -> Exec]
      /\ id \in [Callers -> Names \cup {None}] /\ attempt \in [Callers -> 0..MaxAttempts]
      /\ dir \in [Callers -> Names \cup {None}] /\ result \in [Callers -> Result]
      /\ stdout \in [Names -> Seq(Attempts)]
  BY BoundsAssumption, SMT DEF ExecInv, TypeOK, CallTypes, ProcessTypes, WorldTypes, ResultInv
<1>1. /\ pc'[c] = l /\ \A a \in Callers \ {c} : Rests(a)
      /\ pid' = pid /\ used' = used /\ counter' = counter
  BY <1>0 DEF Moves, NoExecOf, Rests, process, ids
<1>2. Execing(c) /\ dir[c] \in Names /\ id[c] \in Names
  BY DEF Execing, ExecLabel, ExecInv, HoldInv
<1>3. \A n \in Names : exec[n].target = dir[c] => n = id[c]
  BY <1>0, <1>2 DEF OutputInv
<1>4. \A n \in Names \ {id[c]} : exec'[n] = exec[n]
  BY <1>0, <1>3 DEF Unlinked
<1>5. \A n \in Names : exec'[n].target # None => exec'[n].target = exec[n].target
  <2>1. NoExec.target = None
    BY DEF NoExec
  <2>2. \A n \in Names : e[n] = exec[n] \/ e[n] = NoExec
    BY <1>0
  <2>3. \A n \in Names : exec'[n] = e[n] \/ exec'[n].target = None
    BY DEF Unlinked, NoExec
  <2> QED
    BY <2>1, <2>2, <2>3
<1>6. NameInv'
  <2>1. \A a \in Callers : Held(pc'[a]) => Held(pc[a]) /\ id'[a] = id[a]
    BY <1>1 DEF Rests
  <2>2. counter' \in Nat /\ counter <= counter' /\ used \subseteq used'
    BY <1>0, <1>1, SMT
  <2> QED
    BY <1>0, <1>1, <1>5, <2>1, <2>2, NamesStay
<1>7. OutputInv(c)'
  BY <1>1 DEF OutputInv, Execing, Held, ExecLabel
<1>8. ASSUME NEW a \in Callers \ {c} PROVE OutputInv(a)'
  <2> SUFFICES ASSUME Execing(a)
               PROVE  /\ \A n \in Names : exec'[n].target = dir[a] => exec[n].target = dir[a]
                      /\ stdout'[dir[a]] = stdout[dir[a]]
                      /\ Tends(exec[id[a]], exec'[id[a]])
    BY <1>0, <1>1, <1>8, OutputStays
  <2>1. id[a] \in Names /\ dir[a] \in Names /\ dir[a] # dir[c] /\ id[a] # id[c]
    BY <1>0, <1>2 DEF ExecInv, HoldInv, DirsOwned, NameInv, HasId
  <2>2. dir[a] # None
    BY <2>1, NoName
  <2>3. \A n \in Names : exec'[n].target = dir[a] => exec[n].target = dir[a]
    BY <1>5, <2>2
  <2>4. stdout'[dir[a]] = stdout[dir[a]]
    BY <1>0, <1>2, <2>1 DEF RemoveDir
  <2>5. Tends(exec[id[a]], exec'[id[a]])
    BY <1>4, <2>1 DEF Tends
  <2> QED
    BY <2>3, <2>4, <2>5
<1> QED
  BY <1>6, <1>7, <1>8

(* OthersResult: a step of one exec, on its own record. *)
LEMMA OthersResult ==
    ASSUME ExecInv, NameInv, \A a \in Callers : OutputInv(a), NEW c \in Callers, Execing(c),
           NEW l \in ExecLabel, Moves(c, l), UNCHANGED <<disk, process, ids, attempt, id, dir>>,
           \A a \in Callers \ {c} : result'[a] = result[a],
           \A n \in Names \ {id[c]} : exec'[n] = exec[n],
           exec'[id[c]].target \in {exec[id[c]].target, dir[c]}
    PROVE  NameInv' /\ \A a \in Callers \ {c} : OutputInv(a)'
<1>0. pc \in [Callers -> Label] /\ exec \in [Names -> Exec]
  BY DEF ExecInv, TypeOK, CallTypes, WorldTypes
<1>1. /\ pc'[c] = l /\ \A a \in Callers \ {c} : Rests(a)
      /\ pid' = pid /\ used' = used /\ counter' = counter /\ stdout' = stdout
  BY <1>0 DEF Moves, Rests, process, ids, disk
<1>2. /\ dir[c] \in Names /\ dir[c][1] = pid /\ dir[c][2] < counter /\ pid \in used
      /\ id[c] \in Names
  BY DEF ExecInv, HoldInv, Execing, TypeOK, ProcessTypes
<1>3. \A n \in Names : exec'[n].target = exec[n].target \/ exec'[n].target = dir[c]
  OBVIOUS
<1>4. NameInv'
  <2>1. \A a \in Callers : HasId(a)' => HasId(a) /\ id'[a] = id[a]
    BY <1>1 DEF Rests, HasId, Execing
  <2>2. \A n \in Names : exec'[n].target # None =>
          exec'[n].target[1] \in used' /\ (exec'[n].target[1] = pid' => exec'[n].target[2] < counter')
    BY <1>1, <1>2, <1>3 DEF NameInv
  <2>3. \A a \in Callers : HasId(a)' => id'[a][1] = pid' /\ id'[a][2] < counter'
    BY <1>1, <2>1 DEF NameInv
  <2>4. \A a, b \in Callers : HasId(a)' /\ HasId(b)' /\ id'[a] = id'[b] => a = b
    BY <2>1 DEF NameInv
  <2> QED
    BY <2>2, <2>3, <2>4 DEF NameInv
<1>5. ASSUME NEW a \in Callers \ {c} PROVE OutputInv(a)'
  <2> SUFFICES ASSUME Execing(a)
               PROVE  /\ \A n \in Names : exec'[n].target = dir[a] => exec[n].target = dir[a]
                      /\ Tends(exec[id[a]], exec'[id[a]])
    BY <1>1, OutputStays
  <2>1. id[a] \in Names /\ dir[a] # dir[c] /\ id[a] # id[c]
    BY DEF ExecInv, HoldInv, DirsOwned, NameInv, HasId
  <2> QED
    BY <1>3, <2>1 DEF Tends
<1> QED
  BY <1>4, <1>5

(* EndExecResult: an exec ends, whatever it goes on with. *)
LEMMA EndExecResult ==
    ASSUME ExecInv, ResultInv, NEW c \in Callers, NEW r, NEW e,
           e = exec \/ e = [exec EXCEPT ![id[c]] = NoExec],
           pc[c] \in ExecLabel, EndExec(c, r, e)
    PROVE  ResultInv'
<1>1. Conclude(c, r) /\ ControlTypes
  BY TypesSplit DEF EndExec, ExecInv
<1>2. PICK l \in {"idle", "poll"} : Moves(c, l)
  BY <1>1, ConcludeMoves
<1>3. ~Held(l)
  BY DEF Held, ExecLabel
<1> QED
  BY <1>2, <1>3, RemovedResult DEF EndExec

(* CreateIoDirResult: the directory is made, or exec fails and no guard is left. *)
LEMMA CreateIoDirResult ==
    ASSUME ExecInv, ResultInv, NEW c \in Callers, CreateIoDir(c)
    PROVE  ResultInv'
<1> DEFINE d == <<pid, counter>>
<1>0. /\ pc \in [Callers -> Label] /\ counter \in Nat /\ exec \in [Names -> Exec]
      /\ dir \in [Callers -> Names \cup {None}] /\ stdout \in [Names -> Seq(Attempts)]
      /\ id \in [Callers -> Names \cup {None}] /\ result \in [Callers -> Result]
      /\ attempt \in [Callers -> 0..MaxAttempts] /\ ControlTypes
  BY BoundsAssumption, TypesSplit, SMT DEF ExecInv, TypeOK, CallTypes, ProcessTypes, WorldTypes
<1>1. pc[c] = "mkdir" /\ UNCHANGED <<exec, process>> /\ Held(pc[c]) /\ ~Execing(c)
  BY DEF CreateIoDir, Held, Execing
<1>2. \A a \in Callers : Execing(a) => dir[a] \in Names /\ dir[a] # d
  BY <1>0, SMT DEF ExecInv, HoldInv, Names
<1>3. CASE /\ counter' = counter + 1
           /\ dir' = [dir EXCEPT ![c] = d]
           /\ stdout' = [stdout EXCEPT ![d] = <<>>]
           /\ Goto(c, "create")
           /\ UNCHANGED <<attempt, id, result>>
  <2> SUFFICES ASSUME fresh PROVE NameInv' /\ \A a \in Callers : OutputInv(a)'
    BY <1>1 DEF ResultInv, process
  <2>0. NameInv /\ \A a \in Callers : OutputInv(a)
    BY DEF ResultInv
  <2>1. /\ pc'[c] = "create" /\ dir'[c] = d
        /\ \A a \in Callers \ {c} : Rests(a)
        /\ pid' = pid /\ used' = used
    BY <1>0, <1>1, <1>3 DEF Goto, Rests, process
  <2>2. NameInv'
    <3>1. \A a \in Callers : Held(pc'[a]) => Held(pc[a]) /\ id'[a] = id[a]
      BY <1>1, <1>3, <2>1 DEF Rests
    <3>2. counter' \in Nat /\ counter <= counter'
      BY <1>0, <1>3, SMT
    <3> QED
      BY <1>1, <2>0, <2>1, <3>1, <3>2, NamesStay
  <2>3. d \in Names
    <3>1. dir'[c] \in Names
      <4>1. ExecInv'
        BY CreateIoDirKeeps
      <4>2. Execing(c)'
        BY <2>1 DEF Execing
      <4> QED
        BY <4>1, <4>2 DEF ExecInv, HoldInv
    <3> QED
      BY <2>1, <3>1
  <2>4. \A n \in Names : exec[n].target # d
    <3> HIDE DEF d
    <3>1. d # None /\ d[1] = pid /\ d[2] = counter
      BY <2>3, NoName DEF d
    <3>2. ASSUME NEW n \in Names, exec[n].target = d PROVE FALSE
      <4>1. exec[n].target[2] < counter
        BY <2>0, <3>1, <3>2 DEF NameInv
      <4> QED
        BY <1>0, <3>1, <3>2, <4>1, SMT
    <3> QED
      BY <3>2
  <2>5. stdout'[d] = <<>>
    BY <1>0, <1>3, <2>3
  <2>6. OutputInv(c)'
    BY <1>1, <2>1, <2>4, <2>5 DEF OutputInv
  <2>7. ASSUME NEW a \in Callers \ {c} PROVE OutputInv(a)'
    <3>1. Execing(a) => stdout'[dir[a]] = stdout[dir[a]]
      BY <1>0, <1>2, <1>3
    <3>2. Tends(exec[id[a]], exec'[id[a]])
      BY <1>1 DEF Tends
    <3> QED
      BY <1>1, <2>0, <2>1, <3>1, <3>2, OutputStays
  <2> QED
    BY <2>2, <2>6, <2>7
<1>4. CASE /\ counter' \in {counter, counter + 1}
           /\ Conclude(c, "err")
           /\ NoExecOf(c)
           /\ stdout' = stdout
  <2>1. PICK l \in {"idle", "poll"} : Moves(c, l)
    BY <1>0, <1>4, ConcludeMoves
  <2>2. ~Held(l) /\ counter' \in Nat /\ counter <= counter'
    BY <1>0, <1>4, SMT DEF Held, ExecLabel
  <2>3. \A a \in Callers \ {c} : /\ id'[a] = id[a] /\ dir'[a] = dir[a]
                                 /\ attempt'[a] = attempt[a] /\ result'[a] = result[a]
    BY <1>0, <1>4 DEF NoExecOf
  <2> QED
    BY <1>1, <1>4, <2>1, <2>2, <2>3, QuietResult DEF process
<1> QED
  BY <1>3, <1>4 DEF CreateIoDir, disk

(* CreateExecResult: the exec record is made, or the exec ends. *)
LEMMA CreateExecResult ==
    ASSUME ExecInv, ResultInv, NEW c \in Callers, CreateExec(c)
    PROVE  ResultInv'
<1> DEFINE r == [state |-> "created", code |-> 0, target |-> dir[c],
                 owner |-> attempt[c], wrote |-> 0]
<1>0. pc[c] = "create" /\ pc[c] \in ExecLabel /\ Execing(c)
  BY DEF CreateExec, ExecLabel, Execing
<1>1. CASE EndExec(c, "err", exec)
  BY <1>0, <1>1, EndExecResult
<1>2. CASE /\ exec' = [exec EXCEPT ![id[c]] = r]
           /\ Goto(c, "start")
           /\ UNCHANGED <<task, disk, process, ids, mine>>
  <2> SUFFICES ASSUME fresh PROVE NameInv' /\ \A a \in Callers : OutputInv(a)'
    BY <1>2 DEF ResultInv, process
  <2>0. /\ NameInv /\ \A a \in Callers : OutputInv(a)
        /\ pc \in [Callers -> Label] /\ exec \in [Names -> Exec] /\ id[c] \in Names
        /\ dir[c] \in Names
    BY <1>0 DEF ResultInv, ExecInv, TypeOK, CallTypes, WorldTypes, HoldInv
  <2>1. exec'[id[c]] = r /\ \A n \in Names \ {id[c]} : exec'[n] = exec[n]
    BY <1>2, <2>0
  <2>2. r.target = dir[c] /\ r.owner = attempt[c] /\ r.wrote = 0 /\ r.state = "created"
    OBVIOUS
  <2> HIDE DEF r
  <2>3. Moves(c, "start") /\ pc'[c] = "start" /\ "start" \in ExecLabel
    BY <1>2, <2>0 DEF Goto, Moves, ExecLabel
  <2>4. NameInv' /\ \A a \in Callers \ {c} : OutputInv(a)'
    <3>1. exec'[id[c]].target \in {exec[id[c]].target, dir[c]}
      BY <2>1, <2>2
    <3>2. /\ UNCHANGED <<disk, process, ids, attempt, id, dir>>
          /\ \A a \in Callers \ {c} : result'[a] = result[a]
      BY <1>2 DEF mine
    <3> QED
      BY <1>0, <2>0, <2>1, <2>3, <3>1, <3>2, OthersResult
  <2>5. OutputInv(c)'
    <3>1. stdout[dir[c]] = <<>> /\ \A n \in Names : exec[n].target # dir[c]
      BY <1>0, <2>0 DEF OutputInv
    <3>2. id'[c] = id[c] /\ dir'[c] = dir[c] /\ attempt'[c] = attempt[c] /\ stdout' = stdout
      BY <1>2 DEF mine, disk
    <3>3. \A n \in Names : exec'[n].target = dir[c] => n = id[c]
      BY <2>1, <3>1
    <3>4. Len(stdout'[dir[c]]) = 0 /\ 1..0 = {}
      BY <3>1, <3>2, SMT
    <3> QED
      BY <2>1, <2>2, <2>3, <3>2, <3>3, <3>4 DEF OutputInv
  <2> QED
    BY <2>4, <2>5
<1> QED
  BY <1>1, <1>2 DEF CreateExec

(* StartExecResult: the process starts, or the exec ends. *)
LEMMA StartExecResult ==
    ASSUME ExecInv, ResultInv, NEW c \in Callers, StartExec(c)
    PROVE  ResultInv'
<1>0. pc[c] = "start" /\ pc[c] \in ExecLabel /\ Execing(c)
  BY DEF StartExec, ExecLabel, Execing
<1>1. CASE EndExec(c, "err", exec)
  BY <1>0, <1>1, EndExecResult
<1>2. CASE /\ exec[id[c]].state = "created"
           /\ exec' = [exec EXCEPT ![id[c]].state = "running"]
           /\ Goto(c, "wait")
           /\ UNCHANGED <<task, disk, process, ids, mine>>
  <2> SUFFICES ASSUME fresh PROVE NameInv' /\ \A a \in Callers : OutputInv(a)'
    BY <1>2 DEF ResultInv, process
  <2>0. /\ NameInv /\ \A a \in Callers : OutputInv(a)
        /\ pc \in [Callers -> Label] /\ exec \in [Names -> Exec] /\ id[c] \in Names
    BY <1>0 DEF ResultInv, ExecInv, TypeOK, CallTypes, WorldTypes, HoldInv
  <2>1. \A n \in Names \ {id[c]} : exec'[n] = exec[n]
    BY <1>2, <2>0
  <2>2. /\ exec'[id[c]].target = exec[id[c]].target /\ exec'[id[c]].owner = exec[id[c]].owner
        /\ exec'[id[c]].wrote = exec[id[c]].wrote /\ exec'[id[c]].state = "running"
    BY <1>2, <2>0 DEF Exec
  <2>3. Moves(c, "wait") /\ pc'[c] = "wait" /\ "wait" \in ExecLabel
    BY <1>2, <2>0 DEF Goto, Moves, ExecLabel
  <2>4. NameInv' /\ \A a \in Callers \ {c} : OutputInv(a)'
    <3>1. exec'[id[c]].target \in {exec[id[c]].target, dir[c]}
      BY <2>2
    <3>2. /\ UNCHANGED <<disk, process, ids, attempt, id, dir>>
          /\ \A a \in Callers \ {c} : result'[a] = result[a]
      BY <1>2 DEF mine
    <3> QED
      BY <1>0, <2>0, <2>1, <2>3, <3>1, <3>2, OthersResult
  <2>5. OutputInv(c)'
    <3>2. id'[c] = id[c] /\ dir'[c] = dir[c] /\ attempt'[c] = attempt[c] /\ stdout' = stdout
      BY <1>2 DEF mine, disk
    <3>3. \A n \in Names : exec'[n].target = dir[c] => n = id[c]
      BY <1>0, <2>0, <2>1, SMT DEF OutputInv
    <3>4. LET e == exec[id[c]] IN
          /\ e.owner = attempt[c] /\ e.target = dir[c]
          /\ Len(stdout[dir[c]]) = e.wrote /\ \A i \in 1..e.wrote : stdout[dir[c]][i] = attempt[c]
      BY <1>0, <1>2, <2>0 DEF OutputInv
    <3> QED
      BY <2>2, <2>3, <3>2, <3>3, <3>4 DEF OutputInv
  <2> QED
    BY <2>4, <2>5
<1> QED
  BY <1>1, <1>2 DEF StartExec

(* ReadsResult: wait and read_capped, which leave the records alone. *)
LEMMA ReadsResult ==
    ASSUME ExecInv, ResultInv, NEW c \in Callers, WaitExec(c) \/ ReadOutput(c)
    PROVE  ResultInv'
<1>0. pc[c] \in ExecLabel /\ Execing(c)
  BY DEF WaitExec, ReadOutput, ExecLabel, Execing
<1>1. CASE EndExec(c, "err", exec)
  BY <1>0, <1>1, EndExecResult
<1> DEFINE s == stdout[dir[c]]
           Wait == /\ pc[c] = "wait" /\ exec[id[c]].state = "exited"
                   /\ result' = [result EXCEPT ![c].code = exec[id[c]].code]
                   /\ Goto(c, "read")
           Read == /\ pc[c] = "read"
                   /\ result' = [result EXCEPT ![c].out = Capped(s), ![c].truncated = Len(s) > Cap]
                   /\ Goto(c, "delete")
<1>2. ASSUME Wait \/ Read, UNCHANGED <<task, exec, disk, process, ids, attempt, id, dir>>
      PROVE  ResultInv'
  <2> SUFFICES ASSUME fresh PROVE NameInv' /\ \A a \in Callers : OutputInv(a)'
    BY <1>2 DEF ResultInv, process
  <2>0. /\ NameInv /\ \A a \in Callers : OutputInv(a)
        /\ pc \in [Callers -> Label] /\ exec \in [Names -> Exec]
        /\ result \in [Callers -> Result]
    BY <1>0 DEF ResultInv, ExecInv, TypeOK, CallTypes, WorldTypes, HoldInv
  <2>1. PICK l \in {"read", "delete"} : Moves(c, l) /\ l \in ExecLabel
    BY <1>2 DEF Goto, Moves, ExecLabel
  <2>2. NameInv' /\ \A a \in Callers \ {c} : OutputInv(a)'
    <3>1. exec'[id[c]].target \in {exec[id[c]].target, dir[c]} /\ \A n \in Names : exec'[n] = exec[n]
      BY <1>2
    <3>2. /\ UNCHANGED <<disk, process, ids, attempt, id, dir>>
          /\ \A a \in Callers \ {c} : result'[a] = result[a]
      BY <1>2, <2>0
    <3> QED
      BY <1>0, <2>0, <2>1, <3>1, <3>2, OthersResult
  <2>3. /\ id'[c] = id[c] /\ dir'[c] = dir[c] /\ attempt'[c] = attempt[c] /\ stdout' = stdout
        /\ exec' = exec
    BY <1>2 DEF disk
  <2>4. \A n \in Names : exec[n].target = dir[c] => n = id[c]
    BY <1>0, <2>0 DEF OutputInv
  <2>5. pc[c] # "create" /\ pc'[c] # "create" /\ pc'[c] \in {"read", "delete"}
    BY <1>2, <2>0, <2>1 DEF Moves
  <2>6. exec[id[c]].state # "none" =>
          LET e == exec[id[c]] IN
          /\ e.owner = attempt[c] /\ e.target = dir[c]
          /\ Len(s) = e.wrote /\ \A i \in 1..e.wrote : s[i] = attempt[c]
          /\ e.state = "exited" /\ e.code = result'[c].code
          /\ pc'[c] = "delete" => result'[c].truncated = (Len(s) > Cap) /\ result'[c].out = Capped(s)
    <3> SUFFICES ASSUME exec[id[c]].state # "none"
                 PROVE  LET e == exec[id[c]] IN
          /\ e.owner = attempt[c] /\ e.target = dir[c]
          /\ Len(s) = e.wrote /\ \A i \in 1..e.wrote : s[i] = attempt[c]
          /\ e.state = "exited" /\ e.code = result'[c].code
          /\ pc'[c] = "delete" => result'[c].truncated = (Len(s) > Cap) /\ result'[c].out = Capped(s)
      OBVIOUS
    <3>1. LET e == exec[id[c]] IN
          /\ e.owner = attempt[c] /\ e.target = dir[c]
          /\ Len(s) = e.wrote /\ \A i \in 1..e.wrote : s[i] = attempt[c]
          /\ pc[c] = "read" => e.state = "exited" /\ e.code = result[c].code
      BY <1>0, <2>0, <2>5 DEF OutputInv
    <3>2. CASE Wait
      BY <2>0, <3>1, <3>2 DEF Goto, Result
    <3>3. CASE Read
      <4> HIDE DEF s
      <4>1. result'[c] = [result[c] EXCEPT !.out = Capped(s), !.truncated = Len(s) > Cap]
        BY <2>0, <3>3
      <4>2. /\ result'[c].code = result[c].code /\ result'[c].truncated = (Len(s) > Cap)
            /\ result'[c].out = Capped(s)
        BY <2>0, <4>1 DEF Result
      <4> QED
        BY <3>1, <3>3, <4>2
    <3> QED
      BY <1>2, <3>2, <3>3
  <2>7. OutputInv(c)'
    BY <2>3, <2>4, <2>5, <2>6 DEF OutputInv
  <2> QED
    BY <2>2, <2>7
<1> QED
  BY <1>1, <1>2 DEF WaitExec, ReadOutput

(* PollsResult: the steps of wait_ready and probe_health outside an exec. *)
LEMMA PollsResult ==
    ASSUME ExecInv, ResultInv, NEW c \in Callers,
           (\E o \in Ops[c] : Begin(c, o)) \/ Resolve(c) \/ Poll(c) \/ Connect(c)
    PROVE  ResultInv'
<1>0. /\ pc[c] \in {"idle", "resolve", "poll", "connect"} /\ UNCHANGED <<exec, disk, process>>
      /\ counter \in Nat /\ ControlTypes
  BY TypesSplit, BoundsAssumption, SMT DEF Begin, Busy, Resolve, Poll, Connect, ExecInv, ProcessTypes
<1>1. ~Held(pc[c])
  BY <1>0 DEF Held, ExecLabel
<1>2. ASSUME Moves(c, "mkdir"), NewExec(c) PROVE ResultInv'
  BY <1>0, <1>1, <1>2, NewExecResult DEF disk
<1>3. ASSUME NEW l \in {"idle", "resolve", "poll", "connect"}, Moves(c, l), UNCHANGED <<ids, mine>>
      PROVE  ResultInv'
  <2>1. ~Held(l) /\ counter' \in Nat /\ counter <= counter'
    BY <1>0, <1>3, SMT DEF Held, ExecLabel, ids
  <2>2. UNCHANGED <<exec, pid, used, fresh>>
    BY <1>0 DEF process
  <2>3. \A a \in Callers : Execing(a) /\ a # c => stdout'[dir[a]] = stdout[dir[a]]
    BY <1>0 DEF disk
  <2>4. \A a \in Callers \ {c} : /\ id'[a] = id[a] /\ dir'[a] = dir[a]
                                 /\ attempt'[a] = attempt[a] /\ result'[a] = result[a]
    BY <1>3 DEF mine
  <2> QED
    BY <1>3, <2>1, <2>2, <2>3, <2>4, QuietResult
<1>4. \/ Moves(c, "mkdir") /\ NewExec(c)
      \/ \E l \in {"idle", "resolve", "poll", "connect"} : Moves(c, l) /\ UNCHANGED <<ids, mine>>
  <2>1. ASSUME NEW o \in Ops[c], Begin(c, o)
        PROVE  \/ Moves(c, "mkdir") /\ NewExec(c)
               \/ \E l \in {"resolve", "poll"} : Moves(c, l) /\ UNCHANGED <<ids, mine>>
    <3>1. pc' = [pc EXCEPT ![c] = First(o)] /\ First(o) \in {"mkdir", "resolve", "poll"}
      BY <2>1 DEF Begin, First
    <3>2. IF o = "exec" THEN NewExec(c) ELSE UNCHANGED <<ids, mine>>
      BY <2>1 DEF Begin
    <3>3. o = "exec" <=> First(o) = "mkdir"
      BY DEF First
    <3>4. CASE o = "exec"
      BY <3>1, <3>2, <3>3, <3>4 DEF Moves
    <3>5. CASE o # "exec"
      BY <3>1, <3>2, <3>3, <3>5 DEF Moves
    <3> QED
      BY <3>4, <3>5
  <2>2. ASSUME Resolve(c)
        PROVE  \/ Moves(c, "mkdir") /\ NewExec(c)
               \/ \E l \in {"idle", "poll"} : Moves(c, l) /\ UNCHANGED <<ids, mine>>
    BY <2>2 DEF Resolve, Goto, Return, Moves
  <2>3. ASSUME Poll(c)
        PROVE  \/ Moves(c, "mkdir") /\ NewExec(c)
               \/ \E l \in {"idle", "poll", "connect"} : Moves(c, l) /\ UNCHANGED <<ids, mine>>
    BY <2>3 DEF Poll, Return, Moves
  <2>4. ASSUME Connect(c)
        PROVE  \E l \in {"idle", "poll"} : Moves(c, l) /\ UNCHANGED <<ids, mine>>
    BY <2>4 DEF Connect, PollAgain, Goto, Return, Moves
  <2> QED
    BY <2>1, <2>2, <2>3, <2>4
<1> QED
  BY <1>2, <1>3, <1>4

(* EndsResult: delete_process, a timeout, and a caller that drops the call. *)
LEMMA EndsResult ==
    ASSUME ExecInv, ResultInv, NEW c \in Callers, DeleteProcess(c) \/ TimedOut(c) \/ Cancel(c)
    PROVE  ResultInv'
<1>1. CASE DeleteProcess(c)
  <2>1. PICK e \in {exec, [exec EXCEPT ![id[c]] = NoExec]} :
            EndExec(c, IF result[c].code = 0 THEN "zero" ELSE "nonzero", e)
    BY <1>1 DEF DeleteProcess
  <2>2. pc[c] \in ExecLabel
    BY <1>1 DEF DeleteProcess, ExecLabel
  <2> QED
    BY <2>1, <2>2, EndExecResult
<1>2. CASE TimedOut(c)
  BY <1>2, EndExecResult DEF TimedOut, Execing, ExecLabel
<1>3. CASE Cancel(c)
  <2>0. /\ NoExecOf(c) /\ UNCHANGED <<process, ids>> /\ Moves(c, "idle") /\ ~Held("idle")
        /\ counter \in Nat
    BY <1>3, BoundsAssumption, SMT DEF Cancel, Return, Moves, Held, ExecLabel, ExecInv, TypeOK, ProcessTypes
  <2>1. CASE Execing(c)
    <3>1. pc[c] \in ExecLabel /\ RemoveDir(dir[c]) /\ exec' = Unlinked(exec, dir[c])
      BY <1>3, <2>1 DEF Cancel, Execing, ExecLabel
    <3> QED
      BY <2>0, <3>1, RemovedResult
  <2>2. CASE ~Execing(c)
    <3>1. UNCHANGED <<exec, disk>>
      BY <1>3, <2>2 DEF Cancel
    <3>2. \A a \in Callers \ {c} : /\ id'[a] = id[a] /\ dir'[a] = dir[a]
                                   /\ attempt'[a] = attempt[a] /\ result'[a] = result[a]
      BY <2>0 DEF NoExecOf, ExecInv, TypeOK, CallTypes
    <3>3. counter' \in Nat /\ counter <= counter' /\ UNCHANGED <<pid, used, fresh>>
      BY <2>0, SMT DEF ids, process
    <3>4. \A a \in Callers : Execing(a) /\ a # c => stdout'[dir[a]] = stdout[dir[a]]
      BY <3>1 DEF disk
    <3> QED
      BY <2>0, <3>1, <3>2, <3>3, <3>4, QuietResult
  <2> QED
    BY <2>1, <2>2
<1> QED
  BY <1>1, <1>2, <1>3

(* CrashResult: a new life with a pid of its own has names of its own. *)
LEMMA CrashResult == ASSUME ExecInv, ResultInv, Crash PROVE ResultInv'
<1> SUFFICES ASSUME fresh' PROVE NameInv' /\ \A a \in Callers : OutputInv(a)'
  BY DEF ResultInv
<1>1. /\ fresh /\ pid' \notin used /\ used' = used \cup {pid'} /\ exec' = exec
      /\ \A a \in Callers : pc'[a] = "idle"
  <2>1. fresh' = (fresh /\ pid' \notin used) /\ used' = used \cup {pid'} /\ exec' = exec
    BY DEF Crash
  <2>2. \A a \in Callers : pc'[a] = "idle"
    BY DEF Crash
  <2>3. fresh \in BOOLEAN
    BY DEF ExecInv, TypeOK, ProcessTypes
  <2>4. fresh /\ pid' \notin used
    BY <2>1, <2>3
  <2> QED
    BY <2>1, <2>2, <2>4
<1>2. \A a \in Callers : ~HasId(a)' /\ ~Execing(a)'
  BY <1>1 DEF HasId, Execing
<1>3. \A n \in Names : exec[n].target # None => exec[n].target[1] \in used
  BY <1>1 DEF ResultInv, NameInv
<1>4. \A n \in Names : exec'[n].target # None =>
          exec'[n].target[1] \in used' /\ exec'[n].target[1] # pid'
  BY <1>1, <1>3
<1>5. NameInv'
  BY <1>2, <1>4 DEF NameInv
<1> QED
  BY <1>2, <1>5 DEF OutputInv

(* TendsResult: processes end and records go, under all calls. *)
LEMMA TendsResult ==
    ASSUME ExecInv, ResultInv, UNCHANGED <<disk, process, ids, calls>>,
           \A n \in Names : /\ exec'[n].target # None => exec'[n].target = exec[n].target
                            /\ exec'[n] = exec[n] \/ Tends(exec[n], exec'[n])
    PROVE  ResultInv'
<1> SUFFICES ASSUME fresh PROVE NameInv' /\ \A a \in Callers : OutputInv(a)'
  BY DEF ResultInv, process
<1>0. /\ NameInv /\ (\A a \in Callers : OutputInv(a)) /\ counter \in Nat
      /\ counter' = counter /\ used' = used /\ pid' = pid /\ stdout' = stdout
      /\ \A a \in Callers : Rests(a)
  BY BoundsAssumption, SMT
     DEF ResultInv, ExecInv, TypeOK, ProcessTypes, disk, process, ids, calls, mine, Rests
<1>1. NameInv'
  <2>1. \A a \in Callers : Held(pc'[a]) => Held(pc[a]) /\ id'[a] = id[a]
    BY <1>0 DEF Rests
  <2> QED
    BY <1>0, <2>1, NamesStay, SMT
<1>2. ASSUME NEW a \in Callers PROVE OutputInv(a)'
  <2> SUFFICES ASSUME Execing(a)
               PROVE  /\ \A n \in Names : exec'[n].target = dir[a] => exec[n].target = dir[a]
                      /\ Tends(exec[id[a]], exec'[id[a]])
    BY <1>0, OutputStays
  <2>1. dir[a] \in Names /\ id[a] \in Names
    BY DEF ExecInv, HoldInv
  <2>2. Tends(exec[id[a]], exec[id[a]])
    BY DEF Tends
  <2> QED
    BY <2>1, <2>2, NoName
<1> QED
  BY <1>1, <1>2

(* WritesResult: what a process writes goes to the directory of its call. *)
LEMMA WritesResult ==
    ASSUME ExecInv, ResultInv, NEW n \in Names, ProcessWrites(n)
    PROVE  ResultInv'
<1> SUFFICES ASSUME fresh PROVE NameInv' /\ \A a \in Callers : OutputInv(a)'
  BY DEF ResultInv, ProcessWrites, process
<1> DEFINE d == exec[n].target
           e == exec[n]
           f == exec'[n]
<1>0. /\ NameInv /\ (\A a \in Callers : OutputInv(a)) /\ counter \in Nat
      /\ counter' = counter /\ used' = used /\ pid' = pid
      /\ \A a \in Callers : Rests(a)
  BY BoundsAssumption, SMT
     DEF ResultInv, ProcessWrites, ExecInv, TypeOK, ProcessTypes, process, ids, calls, mine, Rests
<1>1. exec \in [Names -> Exec] /\ stdout \in [Names -> Seq(Attempts)]
  BY DEF ExecInv, TypeOK, WorldTypes
<1>2. /\ e.state = "running" /\ d # None /\ d \in Names /\ e.wrote \in Nat
      /\ exec' = [exec EXCEPT ![n].wrote = e.wrote + 1]
      /\ stdout' = [stdout EXCEPT ![d] = Append(stdout[d], e.owner)]
  BY <1>1, BoundsAssumption, SMT DEF ProcessWrites, Exec
<1>3. /\ f.state = "running" /\ f.target = d /\ f.owner = e.owner /\ f.wrote = e.wrote + 1
      /\ f.code = e.code
  BY <1>1, <1>2 DEF Exec
<1>4. \A m \in Names \ {n} : exec'[m] = exec[m]
  BY <1>1, <1>2
<1>5. \A m \in Names : exec'[m].target = exec[m].target
  BY <1>3, <1>4
<1>6. NameInv'
  <2>1. \A a \in Callers : Held(pc'[a]) => Held(pc[a]) /\ id'[a] = id[a]
    BY <1>0 DEF Rests
  <2> QED
    BY <1>0, <1>5, <2>1, NamesStay, SMT
<1>7. ASSUME NEW a \in Callers, Execing(a) => dir[a] # d PROVE OutputInv(a)'
  <2> SUFFICES ASSUME Execing(a)
               PROVE  /\ \A m \in Names : exec'[m].target = dir[a] => exec[m].target = dir[a]
                      /\ stdout'[dir[a]] = stdout[dir[a]]
                      /\ pc[a] # "create" => Tends(exec[id[a]], exec'[id[a]])
    BY <1>0, OutputStays
  <2>1. dir[a] \in Names /\ id[a] \in Names
    BY DEF ExecInv, HoldInv
  <2>2. stdout'[dir[a]] = stdout[dir[a]]
    BY <1>1, <1>2, <1>7, <2>1
  <2>3. pc[a] # "create" => id[a] # n
    BY <1>0, <1>2, <1>7 DEF OutputInv
  <2> QED
    BY <1>4, <1>5, <2>1, <2>2, <2>3 DEF Tends
<1>8. ASSUME NEW a \in Callers, Execing(a), dir[a] = d PROVE OutputInv(a)'
  <2>1. n = id[a] /\ \A m \in Names : exec[m].target = dir[a] => m = id[a]
    BY <1>0, <1>8 DEF OutputInv
  <2>2. pc[a] # "create"
    BY <1>0, <1>8 DEF OutputInv
  <2>3. /\ e.owner = attempt[a]
        /\ Len(stdout[d]) = e.wrote /\ \A i \in 1..e.wrote : stdout[d][i] = attempt[a]
        /\ pc[a] # "start" /\ pc[a] \notin {"read", "delete"}
    BY <1>0, <1>2, <1>8, <2>1, <2>2, SMT DEF OutputInv
  <2>4. pc[a] = "wait"
    BY <1>8, <2>2, <2>3 DEF Execing
  <2>5. stdout'[d] = Append(stdout[d], attempt[a])
    BY <1>1, <1>2, <2>3
  <2>6. Len(stdout'[d]) = f.wrote /\ \A i \in 1..f.wrote : stdout'[d][i] = attempt[a]
    <3> DEFINE s == stdout[d]
               t == stdout'[d]
    <3>1. s \in Seq(Attempts) /\ t = Append(s, attempt[a]) /\ Len(s) = e.wrote
      BY <1>1, <1>2, <2>3, <2>5
    <3>2. \A i \in 1..Len(s) : s[i] = attempt[a]
      BY <2>3
    <3> HIDE DEF s, t
    <3>3. Len(t) = Len(s) + 1 /\ \A i \in 1..Len(s) + 1 : t[i] = attempt[a]
      BY <3>1, <3>2, SMT
    <3> QED
      BY <1>3, <3>1, <3>3 DEF t
  <2>7. \A m \in Names : exec'[m].target = dir[a] => m = id[a]
    BY <1>5, <2>1
  <2> QED
    BY <1>0, <1>3, <1>8, <2>1, <2>3, <2>4, <2>6, <2>7, SMT DEF OutputInv, Rests
<1> QED
  BY <1>6, <1>7, <1>8

(* ExitsResult: a process exits. *)
LEMMA ExitsResult ==
    ASSUME ExecInv, ResultInv, NEW n \in Names, ProcessExits(n)
    PROVE  ResultInv'
<1>0. exec \in [Names -> Exec]
  BY DEF ExecInv, TypeOK, WorldTypes
<1>1. PICK k \in {0, 1} : exec' = [exec EXCEPT ![n].state = "exited", ![n].code = k]
  BY DEF ProcessExits
<1>2. exec'[n] = [exec[n] EXCEPT !.state = "exited", !.code = k]
  BY <1>0, <1>1
<1>3. /\ exec'[n].target = exec[n].target /\ exec'[n].owner = exec[n].owner
      /\ exec'[n].wrote = exec[n].wrote /\ exec'[n].state = "exited"
  BY <1>0, <1>2 DEF Exec
<1>4. \A m \in Names \ {n} : exec'[m] = exec[m]
  BY <1>0, <1>1
<1>5. exec[n].state = "running" /\ UNCHANGED <<disk, process, ids, calls>>
  BY DEF ProcessExits
<1> QED
  BY <1>3, <1>4, <1>5, TendsResult DEF Tends

(* TaskResult: the task changes, and its processes with it. *)
LEMMA TaskResult ==
    ASSUME ExecInv, ResultInv, TaskChanges
    PROVE  ResultInv'
<1>0. exec \in [Names -> Exec]
  BY DEF ExecInv, TypeOK, WorldTypes
<1>1. UNCHANGED <<disk, process, ids, calls>>
  BY DEF TaskChanges
<1>2. ASSUME exec' = exec PROVE ResultInv'
  BY <1>1, <1>2, TendsResult
<1>3. ASSUME exec' = [n \in Names |-> Killed(exec[n])] PROVE ResultInv'
  <2>1. \A e \in Exec : Killed(e).target = e.target /\ (Killed(e) = e \/ Tends(e, Killed(e)))
    BY DEF Killed, Exec, Tends
  <2>2. \A n \in Names : exec'[n] = Killed(exec[n]) /\ exec[n] \in Exec
    BY <1>0, <1>3
  <2>3. \A n \in Names : /\ exec'[n].target = exec[n].target
                         /\ exec'[n] = exec[n] \/ Tends(exec[n], exec'[n])
    BY <2>1, <2>2
  <2> QED
    BY <1>1, <2>3, TendsResult
<1>4. ASSUME exec' = [n \in Names |-> NoExec] PROVE ResultInv'
  <2>1. \A n \in Names : exec'[n].target = None /\ exec'[n].state = "none"
    BY <1>4 DEF NoExec
  <2> QED
    BY <1>1, <2>1, TendsResult DEF Tends
<1> QED
  BY <1>2, <1>3, <1>4 DEF TaskChanges

(* NextResultInv: every step keeps the invariant. *)
LEMMA NextResultInv == ExecInv /\ ResultInv /\ [Next]_vars => ResultInv'
<1> SUFFICES ASSUME ExecInv, ResultInv, [Next]_vars PROVE ResultInv'
  OBVIOUS
<1>1. ASSUME NEW c \in Callers, (\E o \in Ops[c] : Begin(c, o)) \/ Step(c) PROVE ResultInv'
  BY <1>1, PollsResult, CreateIoDirResult, CreateExecResult, StartExecResult, ReadsResult,
     EndsResult DEF Step
<1>2. ASSUME NEW c \in Callers, TimedOut(c) \/ Cancel(c) PROVE ResultInv'
  BY <1>2, EndsResult
<1>3. ASSUME NEW n \in Names, ProcessWrites(n) \/ ProcessExits(n) PROVE ResultInv'
  BY <1>3, WritesResult, ExitsResult
<1>4. CASE TaskChanges \/ Crash
  BY <1>4, TaskResult, CrashResult
<1>5. CASE UNCHANGED vars
  <2>1. exec' = exec /\ UNCHANGED <<disk, process, ids, calls>>
    BY <1>5 DEF vars, calls
  <2> QED
    BY <2>1, TendsResult
<1> QED
  BY <1>1, <1>2, <1>3, <1>4, <1>5 DEF Next

(* InitResultInv: at first nothing has been started. *)
LEMMA InitResultInv == Init => ResultInv
<1> SUFFICES ASSUME Init PROVE ResultInv
  OBVIOUS
<1>1. \A c \in Callers : pc[c] = "idle"
  BY DEF Init
<1>2. \A n \in Names : exec[n].target = None
  BY DEF Init, NoExec
<1> QED
  BY <1>1, <1>2 DEF ResultInv, NameInv, OutputInv, HasId, Execing

(* OutputIsOwn: at the end of an exec, the invariant says what it returns. *)
LEMMA OutputIsOwn == ExecInv /\ ResultInv => ResultIsOwn
<1> SUFFICES ASSUME ExecInv, ResultInv, fresh, NEW c \in Callers, pc[c] = "delete",
                    exec[id[c]].state # "none"
             PROVE  LET e == exec[id[c]] IN
                    /\ e.owner = attempt[c]
                    /\ e.code = result[c].code
                    /\ result[c].truncated = (e.wrote > Cap)
                    /\ result[c].out = [i \in 1..IF e.wrote > Cap THEN Cap ELSE e.wrote
                                          |-> attempt[c]]
  BY DEF ResultIsOwn
<1> DEFINE e == exec[id[c]]
           s == stdout[dir[c]]
           k == IF Len(s) > Cap THEN Cap ELSE Len(s)
<1>1. Execing(c) /\ OutputInv(c)
  BY DEF Execing, ResultInv
<1>2. /\ e.owner = attempt[c] /\ e.code = result[c].code
      /\ Len(s) = e.wrote /\ \A i \in 1..e.wrote : s[i] = attempt[c]
      /\ result[c].truncated = (Len(s) > Cap) /\ result[c].out = Capped(s)
  BY <1>1 DEF OutputInv
<1>3. s \in Seq(Attempts) /\ k \in 0..Len(s)
  BY <1>1, BoundsAssumption, SMT DEF ExecInv, TypeOK, WorldTypes, HoldInv
<1>4. Capped(s) = [i \in 1..k |-> attempt[c]]
  <2>1. Capped(s) = SubSeq(s, 1, k)
    BY DEF Capped
  <2> HIDE DEF s, k
  <2>2. SubSeq(s, 1, k) = [i \in 1..k |-> s[i]]
    BY <1>3, <2>1, SMT
  <2>3. \A i \in 1..k : s[i] = attempt[c]
    BY <1>2, <1>3, SMT
  <2> QED
    BY <2>1, <2>2, <2>3
<1>5. k = IF e.wrote > Cap THEN Cap ELSE e.wrote
  BY <1>2
<1> QED
  BY <1>2, <1>4, <1>5

(* ResultSafety: for any callers, processes and bounds, an exec returns the  *)
(* exit status and output of its own process (ResultIsOwn).                  *)
THEOREM ResultSafety == Spec => []ResultIsOwn
<1>1. Spec => []ResultInv
  BY InitResultInv, NextResultInv, ExecInvariant, PTL DEF Spec
<1> QED
  BY <1>1, ExecInvariant, OutputIsOwn, PTL
=============================================================================
