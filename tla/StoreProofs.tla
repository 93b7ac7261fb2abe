---------------------------- MODULE StoreProofs ------------------------------
(***************************************************************************)
(* What is stored for containers: their output in events.log, and the      *)
(* images they are made of.                                                *)
(*                                                                         *)
(* LogTailer: type correctness, Conserved and InOrder for any number of    *)
(* starts, tailers and pieces of output, and any caps.                     *)
(*                                                                         *)
(* Images: type correctness, and for every set of images, names, callers   *)
(* and options: a container is of one image, its spec is as asked, and     *)
(* what is pulled can be created.                                          *)
(***************************************************************************)
EXTENDS LogTailer, Images, SequenceTheorems, WellFoundedInduction, TLAPS

(* Zenon proves the steps that cite no prover; SMT is cited where there are *)
(* numbers, sequences, or much to unfold.                                   *)
USE Zenon

------------------------------------------------------------------------------
(* The output: LogTailer *)

(* The groups of TypeOK. *)
StartTypes ==
    /\ fails \in BOOLEAN /\ running \in BOOLEAN
    /\ run \in 0..MaxRuns /\ starts \in 0..MaxStarts
    /\ start \in {"idle", "create", "spawn", "await"}
    /\ managed \in 0..run /\ stop \subseteq Tailers

FileTypes ==
    /\ written \in [Streams -> Seq(Piece)]
    /\ raw \in [Streams -> Seq(Piece)]
    /\ events \in [Streams -> Seq(Piece)]

LoopTypes ==
    /\ tpc \in [Tailers -> {"off", "drain", "read", "append", "sleep", "exited"}]
    /\ cur \in [Tailers -> Streams]
    /\ final \in [Tailers -> BOOLEAN]
    /\ errs \in [Tailers -> [Streams -> 0..MaxErrors]]

ReadTypes ==
    /\ pos \in [Tailers -> [Streams -> Nat]]
    /\ left \in [Tailers -> [Streams -> Seq(Piece)]]
    /\ want \in [Tailers -> 0..MaxChunk]
    /\ batch \in [Tailers -> Seq(Piece)]

(* TypesSplit: the groups together are TypeOK. *)
LEMMA TypesSplit == TypeOK <=> StartTypes /\ FileTypes /\ LoopTypes /\ ReadTypes
BY DEF TypeOK, StartTypes, FileTypes, LoopTypes, ReadTypes

------------------------------------------------------------------------------
(* Where a read is cut *)

(* HasLeast: a set of numbers that is not empty has a least one. *)
LEMMA HasLeast ==
    ASSUME NEW S, S \subseteq Nat, S # {}
    PROVE  \E i \in S : \A j \in S : i <= j
<1> DEFINE Less == {s \in Nat \X Nat : s[1] < s[2]}
<1>1. IsWellFoundedOn(Less, Nat)
  BY NatLessThanWellFounded, Zenon DEF OpToRel
<1>2. \E i \in S : \A j \in S : ~(<<j, i>> \in Less)
  <2> HIDE DEF Less
  <2> QED
    BY <1>1, WFMin
<1>3. \A i, j \in Nat : ~(<<j, i>> \in Less) => i <= j
  BY SMT
<1> HIDE DEF Less
<1> QED
  BY <1>2, <1>3, Zenon

(* CutBounds: the batch is a part of what was read. *)
LEMMA CutBounds ==
    ASSUME NEW c \in Seq(Piece)
    PROVE  Cut(c) \in 0..Len(c)
<1> DEFINE ends == {i \in DOMAIN c : c[i].nl}
           last == IF ends = {} THEN 0 ELSE CHOOSE i \in ends : \A j \in ends : j <= i
<1>1. last \in 0..Len(c)
  <2>1. CASE ends = {}
    BY <2>1, SMT
  <2>2. CASE ends # {}
    <3> DEFINE gaps == {Len(c) - i : i \in ends}
    <3>1. gaps \subseteq Nat /\ gaps # {}
      BY <2>2, SMT
    <3>2. PICK m \in gaps : \A k \in gaps : m <= k
      BY <3>1, HasLeast
    <3>3. PICK i \in ends : m = Len(c) - i
      BY <3>2
    <3>4. ASSUME NEW j \in ends PROVE j <= i
      <4>1. Len(c) - j \in gaps
        OBVIOUS
      <4>2. Len(c) - i <= Len(c) - j
        BY <3>2, <3>3, <4>1
      <4> QED
        BY <4>2, SMT
    <3>5. last \in ends
      BY <2>2, <3>4
    <3>6. ends \subseteq 0..Len(c)
      BY SMT
    <3> QED
      BY <3>5, <3>6
  <2> QED
    BY <2>1, <2>2
<1> HIDE DEF ends, last
<1>2. Cut(c) = IF Len(c) - last >= MaxLeft THEN Len(c) ELSE last
  BY DEF Cut, last, ends
<1> QED
  BY <1>1, <1>2, SMT

------------------------------------------------------------------------------
(* TailInv *)

(* Updated: what one stream of one tailer is set to. *)
LEMMA Updated ==
    ASSUME NEW V, NEW f \in [Tailers -> [Streams -> V]], NEW t \in Tailers, NEW s \in Streams,
           NEW v \in V
    PROVE  LET g == [f EXCEPT ![t][s] = v] IN
           /\ g \in [Tailers -> [Streams -> V]]
           /\ g[t][s] = v
           /\ \A u \in Tailers \ {t} : g[u] = f[u]
           /\ \A r \in Streams \ {s} : g[t][r] = f[t][r]
<1>1. [f[t] EXCEPT ![s] = v] \in [Streams -> V]
  OBVIOUS
<1> QED
  BY <1>1

(* A step of the tailer t leaves the others alone. *)
OthersRest(t) ==
    \A u \in Tailers \ {t} :
        /\ tpc'[u] = tpc[u] /\ cur'[u] = cur[u] /\ errs'[u] = errs[u]
        /\ pos'[u] = pos[u] /\ left'[u] = left[u] /\ batch'[u] = batch[u]

(* DrainReturnsKeeps: the loop around a drain, and where it goes. *)
LEMMA DrainReturnsKeeps ==
    ASSUME LoopTypes, NEW t \in Tailers, ErrorsInv(t), tpc[t] \in {"drain", "read", "append"},
           NEW ok \in BOOLEAN, DrainReturns(t, ok)
    PROVE  /\ LoopTypes' /\ ErrorsInv(t)'
           /\ tpc'[t] \in {"drain", "sleep", "exited"}
           /\ \A u \in Tailers \ {t} : /\ tpc'[u] = tpc[u] /\ cur'[u] = cur[u]
                                       /\ errs'[u] = errs[u]
<1> DEFINE s == cur[t]
           e == IF final[t] THEN errs[t]
                ELSE [errs[t] EXCEPT ![s] = IF ok THEN 0 ELSE errs[t][s] + 1]
           l == IF s = "stdout" THEN "drain"
                ELSE IF final[t] \/ GivesUp(e) THEN "exited" ELSE "sleep"
<1>1. /\ errs' = [errs EXCEPT ![t] = e]
      /\ cur' = [cur EXCEPT ![t] = IF s = "stdout" THEN "stderr" ELSE "stdout"]
      /\ tpc' = [tpc EXCEPT ![t] = l]
      /\ final' = final
  BY DEF DrainReturns
<1>2. s \in Streams /\ errs[t] \in [Streams -> 0..MaxErrors]
  BY DEF LoopTypes
<1>3. errs[t]["stderr"] < MaxErrors /\ errs[t][s] < MaxErrors
  BY <1>2 DEF ErrorsInv, Streams
<1>4. e \in [Streams -> 0..MaxErrors]
  BY <1>2, <1>3, BoundsAssumption, SMT
<1>5. l = "drain" => s = "stdout" /\ e["stderr"] < MaxErrors
  BY <1>2, <1>3 DEF Streams
<1>6. l = "sleep" => s = "stderr" /\ e["stderr"] < MaxErrors /\ e["stdout"] < MaxErrors
  <2>1. ~GivesUp(e) => e["stderr"] < MaxErrors /\ e["stdout"] < MaxErrors
    BY <1>4, BoundsAssumption, SMT DEF GivesUp, Streams
  <2> HIDE DEF e
  <2> QED
    BY <1>2, <2>1 DEF Streams
<1>7. l \in {"drain", "sleep", "exited"}
  OBVIOUS
<1> HIDE DEF e, l
<1>8. LoopTypes'
  BY <1>1, <1>2, <1>4, <1>7 DEF LoopTypes, Streams
<1>9. /\ tpc'[t] = l /\ errs'[t] = e
      /\ cur'[t] = IF s = "stdout" THEN "stderr" ELSE "stdout"
  BY <1>1 DEF LoopTypes
<1>10. ErrorsInv(t)'
  BY <1>2, <1>5, <1>6, <1>7, <1>9 DEF ErrorsInv, Streams
<1> QED
  BY <1>1, <1>7, <1>8, <1>9, <1>10 DEF LoopTypes

(* TailerKeeps: a step of one tailer keeps TailInv. *)
LEMMA TailerKeeps ==
    ASSUME TailInv, NEW t \in Tailers, OthersRest(t), tpc[t] # "off", tpc'[t] # "off",
           LoopTypes', ReadTypes', events' \in [Streams -> Seq(Piece)],
           UNCHANGED <<fails, running, starter, written, raw>>,
           ErrorsInv(t)', tpc'[t] # "append" => batch'[t] = <<>>
    PROVE  TailInv'
<1>1. TypeOK'
  <2>1. StartTypes' /\ FileTypes'
    BY TypesSplit DEF TailInv, StartTypes, FileTypes, starter
  <2> QED
    BY <2>1, TypesSplit DEF StartTypes, FileTypes, LoopTypes, ReadTypes, TypeOK
<1>2. /\ running' => run' >= 1
      /\ start' = "spawn" => run' >= 1 /\ tpc'[run'] = "off"
  BY TypesSplit, SMT DEF TailInv, starter, OthersRest, StartTypes, Tailers
<1>3. ASSUME NEW u \in Tailers PROVE ErrorsInv(u)' /\ UnusedInv(u)'
  <2>1. CASE u = t
    BY <2>1 DEF TailInv, UnusedInv, starter
  <2>2. CASE u # t
    BY <2>2 DEF TailInv, UnusedInv, ErrorsInv, OthersRest, starter
  <2> QED
    BY <2>1, <2>2
<1>4. ~ \A u \in Tailers : tpc'[u] = "off"
  OBVIOUS
<1>5. run' = 0 => written' = Empty /\ raw' = Empty
  BY DEF TailInv, starter
<1> QED
  BY <1>1, <1>2, <1>3, <1>4, <1>5 DEF TailInv

(* StatKeeps: a pass begins with the length of the raw file. *)
LEMMA StatKeeps ==
    ASSUME TailInv, NEW t \in Tailers, Stat(t)
    PROVE  TailInv' /\ OthersRest(t) /\ tpc'[t] \in {"drain", "sleep", "exited", "read"}
<1> DEFINE s == cur[t]
<1>0. /\ StartTypes /\ FileTypes /\ LoopTypes /\ ReadTypes /\ ErrorsInv(t) /\ UnusedInv(t)
      /\ tpc[t] = "drain" /\ batch[t] = <<>> /\ s \in Streams
      /\ UNCHANGED <<fails, running, starter, written, raw, events, batch>>
  BY TypesSplit DEF TailInv, Stat, UnusedInv, LoopTypes
<1>1. \/ /\ DrainReturns(t, TRUE) \/ DrainReturns(t, FALSE)
         /\ pos' \in {pos, [pos EXCEPT ![t][s] = 0]}
         /\ left' \in {left, [left EXCEPT ![t][s] = <<>>]}
         /\ want' = want
      \/ /\ Len(raw[s]) > pos[t][s]
         /\ want' = [want EXCEPT ![t] = Wanted(t, s)]
         /\ tpc' = [tpc EXCEPT ![t] = "read"]
         /\ UNCHANGED <<cur, final, errs, pos, left>>
  BY DEF Stat
<1>2. CASE /\ DrainReturns(t, TRUE) \/ DrainReturns(t, FALSE)
           /\ pos' \in {pos, [pos EXCEPT ![t][s] = 0]}
           /\ left' \in {left, [left EXCEPT ![t][s] = <<>>]}
           /\ want' = want
  <2>1. PICK ok \in BOOLEAN : DrainReturns(t, ok)
    BY <1>2
  <2>2. /\ LoopTypes' /\ ErrorsInv(t)'
        /\ tpc'[t] \in {"drain", "sleep", "exited"}
        /\ \A u \in Tailers \ {t} : tpc'[u] = tpc[u] /\ cur'[u] = cur[u] /\ errs'[u] = errs[u]
    BY <1>0, <2>1, DrainReturnsKeeps
  <2>3. pos' \in [Tailers -> [Streams -> Nat]] /\ \A u \in Tailers \ {t} : pos'[u] = pos[u]
    <3>1. CASE pos' = pos
      BY <1>0, <3>1 DEF ReadTypes
    <3>2. CASE pos' = [pos EXCEPT ![t][s] = 0]
      BY <1>0, <3>2, Updated DEF ReadTypes
    <3> QED
      BY <1>2, <3>1, <3>2
  <2>4. left' \in [Tailers -> [Streams -> Seq(Piece)]] /\ \A u \in Tailers \ {t} : left'[u] = left[u]
    <3>1. <<>> \in Seq(Piece)
      BY SMT
    <3>2. CASE left' = left
      BY <1>0, <3>2 DEF ReadTypes
    <3>3. CASE left' = [left EXCEPT ![t][s] = <<>>]
      BY <1>0, <3>1, <3>3, Updated DEF ReadTypes
    <3> QED
      BY <1>2, <3>2, <3>3
  <2>5. ReadTypes' /\ OthersRest(t)
    BY <1>0, <1>2, <2>2, <2>3, <2>4 DEF ReadTypes, OthersRest
  <2> QED
    BY <1>0, <2>2, <2>5, TailerKeeps DEF FileTypes
<1>3. CASE /\ Len(raw[s]) > pos[t][s]
           /\ want' = [want EXCEPT ![t] = Wanted(t, s)]
           /\ tpc' = [tpc EXCEPT ![t] = "read"]
           /\ UNCHANGED <<cur, final, errs, pos, left>>
  <2>1. raw[s] \in Seq(Piece) /\ pos[t][s] \in Nat
    BY <1>0 DEF FileTypes, ReadTypes
  <2>2. Wanted(t, s) \in 0..MaxChunk
    BY <1>3, <2>1, BoundsAssumption, SMT DEF Wanted, Smaller
  <2>3. ReadTypes' /\ LoopTypes' /\ tpc'[t] = "read" /\ OthersRest(t)
    BY <1>0, <1>3, <2>2 DEF ReadTypes, LoopTypes, OthersRest
  <2>4. ErrorsInv(t)'
    BY <1>0, <1>3, <2>3 DEF ErrorsInv
  <2> QED
    BY <1>0, <2>3, <2>4, TailerKeeps DEF FileTypes
<1> QED
  BY <1>1, <1>2, <1>3

(* ReadParts: the types of what a read makes, and what it makes of it. *)
LEMMA ReadParts ==
    ASSUME TailInv, NEW t \in Tailers, NEW s \in Streams
    PROVE  LET c == Combined(t, s)
               f == Fresh(t, s)
           IN  /\ raw[s] \in Seq(Piece) /\ pos[t][s] \in Nat /\ want[t] \in Nat
               /\ left[t][s] \in Seq(Piece)
               /\ f \in Seq(Piece) /\ c \in Seq(Piece) /\ c = left[t][s] \o f
               /\ Cut(c) \in 0..Len(c)
               /\ SubSeq(c, 1, Cut(c)) \in Seq(Piece)
               /\ SubSeq(c, Cut(c) + 1, Len(c)) \in Seq(Piece)
               /\ Advance(t, s) = pos[t][s] + Len(f) /\ Advance(t, s) \in Nat
<1> DEFINE c == Combined(t, s)
           f == Fresh(t, s)
           k == Smaller(pos[t][s] + want[t], Len(raw[s]))
<1>1. raw[s] \in Seq(Piece) /\ pos[t][s] \in Nat /\ want[t] \in Nat /\ left[t][s] \in Seq(Piece)
  BY TypesSplit, BoundsAssumption, SMT DEF TailInv, FileTypes, ReadTypes
<1>2. k \in Nat /\ k <= Len(raw[s])
  BY <1>1, SMT DEF Smaller
<1>3. f \in Seq(Piece)
  <2>1. f = SubSeq(raw[s], pos[t][s] + 1, k)
    BY DEF Fresh
  <2> HIDE DEF k, f
  <2> QED
    BY <1>1, <1>2, <2>1, SMT
<1>4. c = left[t][s] \o f
  BY DEF Combined
<1> HIDE DEF c, f
<1>5. c \in Seq(Piece)
  BY <1>1, <1>3, <1>4, SMT
<1>6. Cut(c) \in 0..Len(c)
  BY <1>5, CutBounds
<1>7. \A m \in 0..Len(c) : SubSeq(c, 1, m) \in Seq(Piece) /\ SubSeq(c, m + 1, Len(c)) \in Seq(Piece)
  BY <1>5, SMT
<1>8. Advance(t, s) = pos[t][s] + Len(f) /\ Advance(t, s) \in Nat
  BY <1>1, <1>3, SMT DEF Advance, f
<1> QED
  BY <1>1, <1>3, <1>4, <1>5, <1>6, <1>7, <1>8 DEF c, f

(* ReadKeeps: what is read is split into the batch and the leftover. *)
LEMMA ReadKeeps ==
    ASSUME TailInv, NEW t \in Tailers, Read(t)
    PROVE  TailInv' /\ OthersRest(t) /\ tpc'[t] \in {"drain", "sleep", "exited", "append"}
<1> DEFINE s == cur[t]
           c == Combined(t, s)
<1>0. /\ StartTypes /\ FileTypes /\ LoopTypes /\ ReadTypes /\ ErrorsInv(t) /\ UnusedInv(t)
      /\ tpc[t] = "read" /\ batch[t] = <<>> /\ s \in Streams
      /\ UNCHANGED <<fails, running, starter, written, raw, events>>
      /\ want' = [want EXCEPT ![t] = 0]
  BY TypesSplit DEF TailInv, Read, UnusedInv, LoopTypes
<1>1. want' \in [Tailers -> 0..MaxChunk]
  BY <1>0, BoundsAssumption, SMT DEF ReadTypes
<1>2. /\ Cut(c) \in 0..Len(c) /\ SubSeq(c, 1, Cut(c)) \in Seq(Piece)
      /\ SubSeq(c, Cut(c) + 1, Len(c)) \in Seq(Piece) /\ Advance(t, s) \in Nat
      /\ c \in Seq(Piece)
  BY <1>0, ReadParts
<1> HIDE DEF c
<1>3. CASE /\ pos' = [pos EXCEPT ![t][s] = Advance(t, s)]
           /\ left' = [left EXCEPT ![t][s] = SubSeq(c, Cut(c) + 1, Len(c))]
           /\ batch' = [batch EXCEPT ![t] = SubSeq(c, 1, Cut(c))]
           /\ IF Cut(c) = 0 THEN DrainReturns(t, TRUE)
              ELSE /\ tpc' = [tpc EXCEPT ![t] = "append"]
                   /\ UNCHANGED <<cur, final, errs>>
  <2>1. pos' \in [Tailers -> [Streams -> Nat]] /\ \A u \in Tailers \ {t} : pos'[u] = pos[u]
    BY <1>0, <1>2, <1>3, Updated DEF ReadTypes
  <2>2. left' \in [Tailers -> [Streams -> Seq(Piece)]] /\ \A u \in Tailers \ {t} : left'[u] = left[u]
    BY <1>0, <1>2, <1>3, Updated DEF ReadTypes
  <2>3. /\ batch' \in [Tailers -> Seq(Piece)] /\ \A u \in Tailers \ {t} : batch'[u] = batch[u]
        /\ batch'[t] = SubSeq(c, 1, Cut(c))
    BY <1>0, <1>2, <1>3 DEF ReadTypes
  <2>4. ReadTypes'
    BY <1>1, <2>1, <2>2, <2>3 DEF ReadTypes
  <2>5. ASSUME Cut(c) = 0
        PROVE  TailInv' /\ OthersRest(t) /\ tpc'[t] \in {"drain", "sleep", "exited"}
    <3>1. DrainReturns(t, TRUE)
      BY <1>3, <2>5
    <3>2. /\ LoopTypes' /\ ErrorsInv(t)' /\ tpc'[t] \in {"drain", "sleep", "exited"}
          /\ \A u \in Tailers \ {t} : tpc'[u] = tpc[u] /\ cur'[u] = cur[u] /\ errs'[u] = errs[u]
      BY <1>0, <3>1, DrainReturnsKeeps
    <3>3. batch'[t] = <<>>
      BY <1>2, <2>3, <2>5, SMT
    <3>4. OthersRest(t)
      BY <2>1, <2>2, <2>3, <3>2 DEF OthersRest
    <3> QED
      BY <1>0, <2>4, <3>2, <3>3, <3>4, TailerKeeps DEF FileTypes
  <2>6. ASSUME Cut(c) # 0
        PROVE  TailInv' /\ OthersRest(t) /\ tpc'[t] = "append"
    <3>1. tpc' = [tpc EXCEPT ![t] = "append"] /\ UNCHANGED <<cur, final, errs>>
      BY <1>3, <2>6
    <3>2. LoopTypes' /\ tpc'[t] = "append" /\ \A u \in Tailers \ {t} : tpc'[u] = tpc[u]
      BY <1>0, <3>1 DEF LoopTypes
    <3>3. ErrorsInv(t)'
      BY <1>0, <3>1, <3>2 DEF ErrorsInv
    <3>4. OthersRest(t)
      BY <2>1, <2>2, <2>3, <3>1, <3>2 DEF OthersRest
    <3> QED
      BY <1>0, <2>4, <3>2, <3>3, <3>4, TailerKeeps DEF FileTypes
  <2> QED
    BY <2>5, <2>6
<1>4. CASE /\ left' = [left EXCEPT ![t][s] = <<>>]
           /\ DrainReturns(t, FALSE)
           /\ UNCHANGED <<pos, batch>>
  <2>1. <<>> \in Seq(Piece)
    BY SMT
  <2>2. left' \in [Tailers -> [Streams -> Seq(Piece)]] /\ \A u \in Tailers \ {t} : left'[u] = left[u]
    BY <1>0, <1>4, <2>1, Updated DEF ReadTypes
  <2>3. /\ LoopTypes' /\ ErrorsInv(t)' /\ tpc'[t] \in {"drain", "sleep", "exited"}
        /\ \A u \in Tailers \ {t} : tpc'[u] = tpc[u] /\ cur'[u] = cur[u] /\ errs'[u] = errs[u]
    BY <1>0, <1>4, DrainReturnsKeeps
  <2>4. ReadTypes' /\ OthersRest(t)
    BY <1>0, <1>1, <1>4, <2>2, <2>3 DEF ReadTypes, OthersRest
  <2> QED
    BY <1>0, <1>4, <2>3, <2>4, TailerKeeps DEF FileTypes
<1> QED
  BY <1>3, <1>4 DEF Read, c

(* AppendKeeps: the batch is appended to events.log, or is lost. *)
LEMMA AppendKeeps ==
    ASSUME TailInv, NEW t \in Tailers, AppendBatch(t)
    PROVE  TailInv' /\ OthersRest(t) /\ tpc'[t] \in {"drain", "sleep", "exited"}
<1> DEFINE s == cur[t]
<1>0. /\ StartTypes /\ FileTypes /\ LoopTypes /\ ReadTypes /\ ErrorsInv(t) /\ UnusedInv(t)
      /\ tpc[t] = "append" /\ s \in Streams /\ batch' = [batch EXCEPT ![t] = <<>>]
      /\ UNCHANGED <<fails, running, starter, written, raw, pos, left, want>>
  BY TypesSplit DEF TailInv, AppendBatch, LoopTypes
<1>1. PICK ok \in BOOLEAN : DrainReturns(t, ok)
  BY DEF AppendBatch
<1>2. /\ LoopTypes' /\ ErrorsInv(t)' /\ tpc'[t] \in {"drain", "sleep", "exited"}
      /\ \A u \in Tailers \ {t} : tpc'[u] = tpc[u] /\ cur'[u] = cur[u] /\ errs'[u] = errs[u]
  BY <1>0, <1>1, DrainReturnsKeeps
<1>3. events' \in [Streams -> Seq(Piece)]
  <2>1. events[s] \o batch[t] \in Seq(Piece)
    BY <1>0, SMT DEF FileTypes, ReadTypes
  <2>2. events' = events \/ events' = [events EXCEPT ![s] = events[s] \o batch[t]]
    BY DEF AppendBatch
  <2> QED
    BY <1>0, <2>1, <2>2 DEF FileTypes
<1>4. ReadTypes' /\ OthersRest(t) /\ batch'[t] = <<>>
  BY <1>0, <1>2, SMT DEF ReadTypes, OthersRest
<1> QED
  BY <1>0, <1>2, <1>3, <1>4, TailerKeeps

(* WakesKeep: the tailer wakes, or is told to stop. *)
LEMMA WakesKeep ==
    ASSUME TailInv, NEW t \in Tailers, Wake(t) \/ TakeStop(t)
    PROVE  TailInv' /\ OthersRest(t) /\ tpc'[t] = "drain"
<1>0. /\ StartTypes /\ FileTypes /\ LoopTypes /\ ReadTypes /\ ErrorsInv(t) /\ UnusedInv(t)
      /\ tpc[t] = "sleep" /\ tpc' = [tpc EXCEPT ![t] = "drain"]
      /\ final' \in {final, [final EXCEPT ![t] = TRUE]}
      /\ UNCHANGED <<fails, running, starter, written, raw, events, cur, pos, left, want, batch, errs>>
  BY TypesSplit DEF TailInv, Wake, TakeStop, tailing
<1>1. LoopTypes' /\ ReadTypes' /\ tpc'[t] = "drain" /\ OthersRest(t)
  BY <1>0 DEF LoopTypes, ReadTypes, OthersRest
<1>2. ErrorsInv(t)' /\ batch'[t] = <<>>
  BY <1>0, <1>1 DEF ErrorsInv, UnusedInv
<1> QED
  BY <1>0, <1>1, <1>2, TailerKeeps DEF FileTypes

(* StartsKeep: the container's process and start_container. *)
LEMMA StartsKeep ==
    ASSUME TailInv, (\E s \in Streams : Write(s)) \/ Exit \/ PrepareLogs \/ Starting
    PROVE  TailInv'
<1>0. /\ StartTypes /\ FileTypes /\ LoopTypes /\ ReadTypes
      /\ \A t \in Tailers : ErrorsInv(t) /\ UnusedInv(t)
  BY TypesSplit DEF TailInv
<1> DEFINE Rest == UNCHANGED <<events, tpc, tailing>>
<1>1. ASSUME Rest, StartTypes', FileTypes', run <= run', running' => run' >= 1,
             start' = "spawn" => run' >= 1 /\ tpc[run'] = "off",
             run' = 0 => written' = Empty /\ raw' = Empty
      PROVE  TailInv'
  <2>1. LoopTypes' /\ ReadTypes'
    BY <1>0, <1>1 DEF LoopTypes, ReadTypes, tailing
  <2>2. TypeOK'
    BY <1>1, <2>1, TypesSplit DEF TypeOK, StartTypes, FileTypes, LoopTypes, ReadTypes
  <2>3. ASSUME NEW t \in Tailers PROVE ErrorsInv(t)' /\ UnusedInv(t)'
    <3>1. t \in Nat /\ run \in Nat /\ run' \in Nat
      BY <1>0, <1>1, BoundsAssumption, SMT DEF StartTypes, Tailers
    <3> QED
      BY <1>0, <1>1, <3>1, SMT DEF ErrorsInv, UnusedInv, tailing
  <2>4. (\A t \in Tailers : tpc'[t] = "off") => events' = Empty
    BY <1>1 DEF TailInv
  <2>5. start' = "spawn" => run' >= 1 /\ tpc'[run'] = "off"
    BY <1>1
  <2> QED
    BY <1>1, <2>2, <2>3, <2>4, <2>5 DEF TailInv
<1>2. run \in Nat /\ MaxRuns \in Nat
  BY <1>0, BoundsAssumption, SMT DEF StartTypes
<1>3. ASSUME NEW s \in Streams, Write(s) PROVE TailInv'
  <2>1. PICK p : /\ written' = [written EXCEPT ![s] = Append(written[s], p)]
                 /\ raw' = [raw EXCEPT ![s] = Append(raw[s], p)]
                 /\ \E nl \in BOOLEAN : p = [n |-> Len(written[s]) + 1, run |-> run, nl |-> nl]
    BY <1>3 DEF Write
  <2>2. running /\ run >= 1 /\ Len(written[s]) < MaxPieces
    BY <1>3 DEF Write, TailInv
  <2>3. p \in Piece
    <3>1. Len(written[s]) + 1 \in 1..MaxPieces
      BY <1>0, <2>2, BoundsAssumption, SMT DEF FileTypes
    <3>2. run \in Tailers
      BY <1>0, <1>2, <2>2, SMT DEF StartTypes, Tailers
    <3> QED
      BY <2>1, <3>1, <3>2, SMT DEF Piece
  <2>4. Append(written[s], p) \in Seq(Piece) /\ Append(raw[s], p) \in Seq(Piece)
    BY <1>0, <2>3, SMT DEF FileTypes
  <2>5. UNCHANGED <<fails, running, starter, events, tpc, tailing>>
    BY <1>3 DEF Write
  <2>6. FileTypes' /\ StartTypes'
    BY <1>0, <2>1, <2>4, <2>5 DEF FileTypes, StartTypes, starter
  <2>7. start' = "spawn" => run' >= 1 /\ tpc[run'] = "off"
    BY <2>5 DEF TailInv, starter
  <2>8. run' = run
    BY <2>5 DEF starter
  <2> QED
    BY <1>1, <1>2, <2>2, <2>5, <2>6, <2>7, <2>8, SMT
<1>4. ASSUME Exit \/ PrepareLogs \/ AwaitOld PROVE TailInv'
  <2>1. (Rest /\ run' = run /\ start' # "spawn") \/ (Rest /\ run' = run /\ start' = start)
    BY <1>4 DEF Exit, PrepareLogs, AwaitOld, starter
  <2>2. StartTypes'
    <3>1. fails' = fails /\ run' = run /\ managed' = managed /\ stop' = stop
      BY <1>4 DEF Exit, PrepareLogs, AwaitOld, starter
    <3>2. running' \in {running, FALSE} /\ start' \in {start, "create", "idle"}
      BY <1>4 DEF Exit, PrepareLogs, AwaitOld, starter
    <3>3. starts' = starts \/ (starts' = starts + 1 /\ starts < MaxStarts)
      BY <1>4 DEF Exit, PrepareLogs, AwaitOld, starter
    <3>4. starts' \in 0..MaxStarts
      BY <1>0, <3>3, BoundsAssumption, SMT DEF StartTypes
    <3>5. running' \in BOOLEAN
      BY <1>0, <3>2 DEF StartTypes
    <3>6. start' \in {"idle", "create", "spawn", "await"}
      BY <1>0, <3>2 DEF StartTypes
    <3> QED
      BY <1>0, <3>1, <3>4, <3>5, <3>6 DEF StartTypes
  <2>3. written' = written /\ (raw' = raw \/ raw' = Empty) /\ Rest
    BY <1>4 DEF Exit, PrepareLogs, AwaitOld
  <2>4. Empty \in [Streams -> Seq(Piece)]
    BY SMT DEF Empty
  <2>5. FileTypes'
    BY <1>0, <2>3, <2>4 DEF FileTypes
  <2>6. running' => running
    BY <1>4 DEF Exit, PrepareLogs, AwaitOld
  <2>7. start' = "spawn" => run' >= 1 /\ tpc[run'] = "off"
    BY <2>1 DEF TailInv
  <2>8. run' = 0 => written' = Empty /\ raw' = Empty
    BY <2>1, <2>3 DEF TailInv
  <2>9. running' => run' >= 1
    BY <2>1, <2>6 DEF TailInv
  <2> QED
    BY <1>1, <1>2, <2>1, <2>2, <2>3, <2>5, <2>7, <2>8, <2>9, SMT
<1>5. ASSUME CreateTask PROVE TailInv'
  <2>1. Rest /\ UNCHANGED <<fails, starts, managed, stop, written, raw>>
    BY <1>5 DEF CreateTask
  <2>2. \/ running' = TRUE /\ run' = run + 1 /\ start' = "spawn" /\ run < MaxRuns
        \/ start' = "idle" /\ UNCHANGED <<running, run>>
    BY <1>5 DEF CreateTask
  <2>3. StartTypes' /\ FileTypes'
    <3>1. FileTypes' /\ fails' \in BOOLEAN /\ starts' \in 0..MaxStarts /\ stop' \subseteq Tailers
      BY <1>0, <2>1 DEF StartTypes, FileTypes
    <3>2. running' \in BOOLEAN
      BY <1>0, <2>2 DEF StartTypes
    <3>3. run' \in 0..MaxRuns /\ managed' \in 0..run'
      BY <1>0, <1>2, <2>1, <2>2, SMT DEF StartTypes
    <3>4. start' \in {"idle", "create", "spawn", "await"}
      BY <2>2
    <3> QED
      BY <3>1, <3>2, <3>3, <3>4 DEF StartTypes
  <2>4. run <= run' /\ (running' => run' >= 1)
    BY <1>2, <2>2, SMT DEF TailInv
  <2>5. start' = "spawn" => run' >= 1 /\ tpc[run'] = "off"
    <3> SUFFICES ASSUME start' = "spawn" PROVE run + 1 >= 1 /\ tpc[run + 1] = "off"
      BY <2>2
    <3>1. run + 1 \in Tailers /\ ~(run + 1 <= run) /\ run + 1 >= 1
      BY <1>2, <2>2, SMT DEF Tailers
    <3> QED
      BY <1>0, <3>1 DEF UnusedInv
  <2>6. run' = 0 => written' = Empty /\ raw' = Empty
    BY <1>2, <2>1, <2>2, SMT DEF TailInv
  <2> QED
    BY <1>1, <2>1, <2>3, <2>4, <2>5, <2>6
<1>6. ASSUME SpawnTailer PROVE TailInv'
  <2>1. /\ tpc' = [tpc EXCEPT ![run] = "drain"]
        /\ managed' = run
        /\ stop' = IF managed = 0 THEN stop ELSE stop \cup {managed}
        /\ start' = IF managed = 0 THEN "idle" ELSE "await"
        /\ UNCHANGED <<fails, running, run, starts, written, raw, events, tailing>>
        /\ run >= 1 /\ tpc[run] = "off"
    BY <1>6 DEF SpawnTailer, TailInv
  <2>2. run \in Tailers
    BY <1>0, <1>2, <2>1, SMT DEF StartTypes, Tailers
  <2>3. managed # 0 => managed \in Tailers
    BY <1>0, <1>2, SMT DEF StartTypes, Tailers
  <2>4. StartTypes' /\ FileTypes' /\ LoopTypes' /\ ReadTypes'
    <3>1. StartTypes'
      BY <1>0, <1>2, <2>1, <2>3, SMT DEF StartTypes
    <3>2. FileTypes' /\ LoopTypes' /\ ReadTypes'
      BY <1>0, <2>1 DEF FileTypes, LoopTypes, ReadTypes, tailing
    <3> QED
      BY <3>1, <3>2
  <2>5. TypeOK'
    BY <2>4, TypesSplit DEF TypeOK, StartTypes, FileTypes, LoopTypes, ReadTypes
  <2>6. tpc'[run] = "drain" /\ \A t \in Tailers \ {run} : tpc'[t] = tpc[t]
    BY <1>0, <2>1, <2>2 DEF LoopTypes
  <2>7. ASSUME NEW t \in Tailers PROVE ErrorsInv(t)' /\ UnusedInv(t)'
    BY <1>0, <1>2, <2>1, <2>2, <2>6, SMT DEF ErrorsInv, UnusedInv, tailing
  <2>8. start' # "spawn" /\ ~(\A t \in Tailers : tpc'[t] = "off")
    BY <2>1, <2>2, <2>6
  <2>9. /\ running' => run' >= 1
        /\ run' = 0 => written' = Empty /\ raw' = Empty
    BY <2>1 DEF TailInv
  <2> QED
    BY <2>5, <2>7, <2>8, <2>9 DEF TailInv
<1> QED
  BY <1>3, <1>4, <1>5, <1>6 DEF Starting

(* NextTailInv: every step keeps TailInv. *)
LEMMA NextTailInv == TailInv /\ [Next]_vars => TailInv'
<1> SUFFICES ASSUME TailInv, [Next]_vars PROVE TailInv'
  OBVIOUS
<1>1. CASE UNCHANGED vars
  <2>1. TypeOK'
    BY <1>1 DEF TailInv, TypeOK, vars, starter, tailing
  <2>2. \A t \in Tailers : ErrorsInv(t)' /\ UnusedInv(t)'
    BY <1>1 DEF TailInv, ErrorsInv, UnusedInv, vars, starter, tailing
  <2> QED
    BY <1>1, <2>1, <2>2 DEF TailInv, vars, starter, tailing
<1>2. CASE (\E s \in Streams : Write(s)) \/ Exit \/ PrepareLogs \/ Starting
  BY <1>2, StartsKeep
<1>3. ASSUME NEW t \in Tailers, TailerStep(t) \/ TakeStop(t) PROVE TailInv'
  BY <1>3, StatKeeps, ReadKeeps, AppendKeeps, WakesKeep DEF TailerStep
<1> QED
  BY <1>1, <1>2, <1>3 DEF Next

(* InitTailInv: at first there is no tailer. *)
LEMMA InitTailInv == Init => TailInv
<1> SUFFICES ASSUME Init PROVE TailInv
  OBVIOUS
<1>1. Empty \in [Streams -> Seq(Piece)] /\ Zero \in [Streams -> 0..MaxErrors] /\ Zero \in [Streams -> Nat]
  BY BoundsAssumption, SMT DEF Empty, Zero
<1>2. TypeOK
  <2>1. LoopTypes /\ ReadTypes
    BY <1>1, BoundsAssumption, SMT DEF Init, LoopTypes, ReadTypes, Streams
  <2>2. StartTypes /\ FileTypes
    <3>1. FileTypes
      BY <1>1 DEF Init, FileTypes
    <3>2. run \in 0..MaxRuns /\ starts \in 0..MaxStarts /\ managed \in 0..run
      BY BoundsAssumption, SMT DEF Init
    <3>3. fails \in BOOLEAN /\ running \in BOOLEAN
      BY DEF Init
    <3> QED
      BY <3>1, <3>2, <3>3 DEF Init, StartTypes
  <2> QED
    BY <2>1, <2>2, TypesSplit
<1>3. ASSUME NEW t \in Tailers PROVE ErrorsInv(t) /\ UnusedInv(t)
  BY BoundsAssumption, SMT DEF Init, ErrorsInv, UnusedInv, Zero, Streams
<1> QED
  BY <1>2, <1>3 DEF Init, TailInv

(* TailInvariant: the inductive invariant holds of every behaviour. *)
THEOREM TailInvariant == Spec => []TailInv
BY InitTailInv, NextTailInv, PTL DEF Spec

(* TypeCorrect: type correctness; with it a read is never larger than        *)
(* MAX_READ_CHUNK, and a tailer gives up at MAX_CONSECUTIVE_ERRORS.          *)
THEOREM TypeCorrect == Spec => []TypeOK
<1>1. TailInv => TypeOK
  BY DEF TailInv
<1> QED
  BY <1>1, TailInvariant, PTL

------------------------------------------------------------------------------
(* Conserved *)

(* TailerFrame: what no step of a tailer touches. *)
LEMMA TailerFrame ==
    ASSUME TailInv, NEW t \in Tailers, TailerStep(t) \/ TakeStop(t)
    PROVE  /\ UNCHANGED <<fails, running, run, starts, start, managed, stop, written, raw>>
           /\ OthersRest(t) /\ tpc[t] # "off" /\ tpc'[t] # "off"
<1>1. OthersRest(t) /\ tpc'[t] # "off"
  BY StatKeeps, ReadKeeps, AppendKeeps, WakesKeep DEF TailerStep
<1>2. UNCHANGED <<fails, running, starter, written, raw>> /\ tpc[t] # "off"
  BY DEF TailerStep, TakeStop, Stat, Read, AppendBatch, Wake
<1> QED
  BY <1>1, <1>2 DEF starter

(* NextOnceInv: the first start_container. *)
LEMMA NextOnceInv == TailInv /\ OnceInv /\ [Next]_vars => OnceInv'
<1> SUFFICES ASSUME TailInv, OnceInv, [Next]_vars, starts' <= 1 PROVE OnceInv'
  BY DEF OnceInv
<1>0. StartTypes /\ \A t \in Tailers : tpc[t] # "off" => t <= run
  BY TypesSplit DEF TailInv, UnusedInv
<1>1. CASE UNCHANGED <<run, starts, start, managed, stop, tpc>>
  BY <1>1 DEF OnceInv
<1>2. CASE PrepareLogs
  <2>1. starts = 0 /\ start' = "create" /\ starts' = 1 /\ UNCHANGED <<run, managed, tpc>>
    BY <1>0, <1>2, SMT DEF PrepareLogs, StartTypes
  <2> QED
    BY <1>0, <2>1, SMT DEF OnceInv, StartTypes
<1>3. CASE CreateTask
  <2>1. /\ start = "create" /\ UNCHANGED <<starts, managed, tpc>>
        /\ (run' = run + 1 /\ start' = "spawn") \/ (run' = run /\ start' = "idle")
    BY <1>3 DEF CreateTask
  <2>2. run = 0 /\ starts # 0 /\ managed = 0
    BY <2>1 DEF OnceInv
  <2>3. \A t \in Tailers : tpc'[t] = "off"
    BY <1>0, <2>1, <2>2, SMT DEF Tailers
  <2> QED
    BY <2>1, <2>2, <2>3, SMT DEF OnceInv
<1>4. CASE SpawnTailer
  BY <1>4 DEF SpawnTailer, OnceInv
<1>5. CASE AwaitOld
  BY <1>5 DEF AwaitOld, OnceInv
<1>6. ASSUME NEW t \in Tailers, TailerStep(t) \/ TakeStop(t) PROVE OnceInv'
  <2>1. UNCHANGED <<run, starts, start, managed>> /\ tpc[t] # "off"
    BY <1>6, TailerFrame
  <2>2. start # "spawn"
    BY <2>1 DEF OnceInv
  <2> QED
    BY <2>1, <2>2 DEF OnceInv
<1>7. CASE Exit \/ (\E s \in Streams : Write(s)) \/ UNCHANGED vars
  BY <1>1, <1>7 DEF Exit, Write, vars, starter
<1> QED
  BY <1>2, <1>3, <1>4, <1>5, <1>6, <1>7 DEF Next, Starting

(* What CopyInv says of one tailer and one stream. *)
Copied(t, s) == events[s] \o Pending(t, s) \o left[t][s] = SubSeq(raw[s], 1, pos[t][s])
Within(t, s) ==
    /\ pos[t][s] <= Len(raw[s])
    /\ tpc[t] = "read" /\ cur[t] = s => pos[t][s] + want[t] <= Len(raw[s])

(* CopyParts: CopyInv, stream by stream and tailer by tailer. *)
LEMMA CopyParts ==
    CopyInv <=> (~fails /\ starts <= 1 =>
                    \A s \in Streams, t \in Tailers :
                        Within(t, s) /\ (tpc[t] # "off" => Copied(t, s)))
BY DEF CopyInv, Conserved, Copied, Within

(* The types a step of t at s reads. *)
LEMMA CopyTypes ==
    ASSUME TailInv, NEW t \in Tailers, NEW s \in Streams
    PROVE  /\ events[s] \in Seq(Piece) /\ raw[s] \in Seq(Piece) /\ left[t][s] \in Seq(Piece)
           /\ batch[t] \in Seq(Piece) /\ Pending(t, s) \in Seq(Piece)
           /\ pos[t][s] \in Nat /\ want[t] \in Nat
<1>1. /\ events[s] \in Seq(Piece) /\ raw[s] \in Seq(Piece) /\ left[t][s] \in Seq(Piece)
      /\ batch[t] \in Seq(Piece) /\ pos[t][s] \in Nat /\ want[t] \in Nat
  BY TypesSplit, BoundsAssumption, SMT DEF TailInv, FileTypes, ReadTypes
<1> QED
  BY <1>1, SMT DEF Pending

(* CopyStep: it is enough to look at the tailer that moves: a container that *)
(* was started once has no other.                                            *)
LEMMA CopyStep ==
    ASSUME TailInv, OnceInv, CopyInv, ~fails, starts <= 1,
           NEW t \in Tailers, TailerStep(t) \/ TakeStop(t),
           \A s \in Streams : Copied(t, s)' /\ Within(t, s)'
    PROVE  CopyInv'
<1>1. /\ UNCHANGED <<fails, run, starts, raw>> /\ OthersRest(t) /\ tpc[t] # "off"
  BY TailerFrame
<1>2. run \in Nat /\ run <= 1
  BY TypesSplit, BoundsAssumption, SMT DEF OnceInv, TailInv, StartTypes
<1>3. \A u \in Tailers : tpc[u] # "off" => u = 1
  BY <1>2, BoundsAssumption, SMT DEF TailInv, UnusedInv, Tailers
<1>4. ASSUME NEW u \in Tailers, NEW s \in Streams, u # t
      PROVE  Within(u, s)' /\ tpc'[u] = "off"
  <2>1. tpc'[u] = "off" /\ tpc[u] = "off"
    BY <1>1, <1>3, <1>4 DEF OthersRest
  <2>2. pos'[u] = Zero
    BY <1>1, <1>4, <2>1 DEF OthersRest, TailInv, UnusedInv
  <2>3. raw'[s] \in Seq(Piece)
    BY <1>1, CopyTypes
  <2> QED
    BY <2>1, <2>2, <2>3, SMT DEF Within, Zero
<1>5. \A s \in Streams, u \in Tailers : Within(u, s)' /\ (tpc'[u] # "off" => Copied(u, s)')
  BY <1>4
<1> QED
  BY <1>5 DEF CopyInv, Conserved, Copied, Within

(* Quiet steps: nothing is appended and no batch is made. *)
LEMMA CopyQuiet ==
    ASSUME TailInv, OnceInv, CopyInv, ~fails, starts <= 1,
           NEW t \in Tailers, TailerStep(t) \/ TakeStop(t),
           UNCHANGED <<events, pos, left>>, tpc[t] # "append", tpc'[t] # "append",
           tpc'[t] = "read" => cur'[t] = cur[t] /\ pos[t][cur[t]] + want'[t] <= Len(raw[cur[t]])
    PROVE  CopyInv'
<1>1. raw' = raw /\ tpc[t] # "off"
  BY TailerFrame
<1>2. ASSUME NEW s \in Streams PROVE Copied(t, s)' /\ Within(t, s)'
  <2>1. Copied(t, s) /\ Within(t, s)
    BY <1>1, CopyParts
  <2>2. Pending(t, s) = <<>> /\ Pending(t, s)' = <<>>
    BY DEF Pending
  <2>3. Copied(t, s)'
    BY <1>1, <2>1, <2>2 DEF Copied
  <2>4. Within(t, s)'
    BY <1>1, <2>1 DEF Within
  <2> QED
    BY <2>3, <2>4
<1> QED
  BY <1>2, CopyStep

(* CopyStat: what the tailer wants is in the file. *)
LEMMA CopyStat ==
    ASSUME TailInv, OnceInv, CopyInv, ~fails, starts <= 1, NEW t \in Tailers, Stat(t)
    PROVE  CopyInv'
<1> DEFINE s == cur[t]
<1>1. tpc[t] = "drain" /\ tpc'[t] # "append" /\ s \in Streams /\ TailerStep(t)
  BY StatKeeps, TypesSplit DEF Stat, TailInv, LoopTypes, TailerStep
<1>2. Within(t, s) /\ raw[s] \in Seq(Piece) /\ pos[t][s] \in Nat
  BY <1>1, CopyParts, CopyTypes
<1>3. \/ UNCHANGED <<pos, left, want, events>> /\ DrainReturns(t, TRUE)
      \/ /\ Len(raw[s]) > pos[t][s] /\ UNCHANGED <<cur, pos, left, events>>
         /\ want' = [want EXCEPT ![t] = Wanted(t, s)]
  <2>1. ~(Len(raw[s]) < pos[t][s])
    BY <1>2, SMT DEF Within
  <2> QED
    BY <2>1, Zenon DEF Stat
<1>4. CASE UNCHANGED <<pos, left, want, events>> /\ DrainReturns(t, TRUE)
  <2>1. tpc'[t] # "read"
    BY <1>1, <1>4, DrainReturnsKeeps, TypesSplit DEF TailInv
  <2> QED
    BY <1>1, <1>4, <2>1, CopyQuiet
<1>5. CASE /\ Len(raw[s]) > pos[t][s] /\ UNCHANGED <<cur, pos, left, events>>
           /\ want' = [want EXCEPT ![t] = Wanted(t, s)]
  <2>1. want'[t] = Wanted(t, s)
    BY <1>5, TypesSplit DEF TailInv, ReadTypes
  <2>2. pos[t][s] + Wanted(t, s) <= Len(raw[s])
    BY <1>2, <1>5, BoundsAssumption, SMT DEF Wanted, Smaller
  <2> QED
    BY <1>1, <1>5, <2>1, <2>2, CopyQuiet
<1> QED
  BY <1>3, <1>4, <1>5

(* Adjacent: two adjacent parts of a sequence, from its beginning. *)
LEMMA Adjacent ==
    ASSUME NEW c \in Seq(Piece), NEW k \in Nat, NEW n \in Nat, k <= n, n <= Len(c)
    PROVE  SubSeq(c, 1, k) \o SubSeq(c, k + 1, n) = SubSeq(c, 1, n)
<1>1. Len(c) \in Nat /\ 1 \in 1..Len(c) + 1 /\ k \in 1 - 1 .. Len(c) /\ n \in k..Len(c)
  BY SMTT(30)
<1> QED
  BY ONLY c \in Seq(Piece), <1>1, ConcatAdjacentSubSeq, Zenon

(* Split: a sequence is what is before a cut and what is after it. *)
LEMMA Split ==
    ASSUME NEW c \in Seq(Piece), NEW k \in 0..Len(c)
    PROVE  SubSeq(c, 1, k) \o SubSeq(c, k + 1, Len(c)) = c
<1>1. k \in Nat /\ Len(c) \in Nat /\ k <= Len(c) /\ Len(c) <= Len(c)
  BY SMT
<1>2. SubSeq(c, 1, k) \o SubSeq(c, k + 1, Len(c)) = SubSeq(c, 1, Len(c))
  BY ONLY c \in Seq(Piece), <1>1, Adjacent
<1>3. SubSeq(c, 1, Len(c)) = c
  BY SubSeqFull
<1> QED
  BY ONLY <1>2, <1>3

(* NextPart: the m pieces after the first k. *)
LEMMA NextPart ==
    ASSUME NEW c \in Seq(Piece), NEW k \in Nat, NEW m \in Nat, k + m <= Len(c)
    PROVE  LET f == SubSeq(c, k + 1, k + m) IN
           Len(f) = m /\ SubSeq(c, 1, k) \o f = SubSeq(c, 1, k + m)
<1>1. Len(SubSeq(c, k + 1, k + m)) = m
  BY SMT
<1>2. k + m \in Nat /\ k <= k + m
  BY SMT
<1> QED
  BY <1>1, <1>2, Adjacent

(* Associative: what is read after what was read. *)
LEMMA Associative == \A a, b, c \in Seq(Piece) : (a \o b) \o c = a \o (b \o c)
BY ConcatAssociative, SMT

(* CopyRead: what is read goes to the batch or to the leftover, after what   *)
(* was left over before.                                                     *)
LEMMA CopyRead ==
    ASSUME TailInv, OnceInv, CopyInv, ~fails, starts <= 1, NEW t \in Tailers, Read(t)
    PROVE  CopyInv'
<1>s. PICK s \in Streams : s = cur[t]
  BY TypesSplit DEF TailInv, LoopTypes
<1> DEFINE c == Combined(t, s)
           f == Fresh(t, s)
           B == SubSeq(c, 1, Cut(c))
           L == SubSeq(c, Cut(c) + 1, Len(c))
<1>0. /\ TailerStep(t) /\ tpc[t] = "read" /\ raw' = raw /\ events' = events
      /\ s \in Streams /\ s = cur[t] /\ tpc'[t] \in {"drain", "sleep", "exited", "append"}
  BY <1>s, ReadKeeps DEF Read, TailerStep
<1>1. /\ pos' = [pos EXCEPT ![t][s] = Advance(t, s)]
      /\ left' = [left EXCEPT ![t][s] = L]
      /\ batch' = [batch EXCEPT ![t] = B]
      /\ IF Cut(c) = 0 THEN DrainReturns(t, TRUE)
         ELSE tpc' = [tpc EXCEPT ![t] = "append"] /\ cur' = cur
  BY <1>s, Zenon DEF Read
<1>2. /\ events[s] \in Seq(Piece) /\ raw[s] \in Seq(Piece) /\ left[t][s] \in Seq(Piece)
      /\ pos[t][s] \in Nat /\ want[t] \in Nat
  BY <1>0, CopyTypes
<1>3. /\ f \in Seq(Piece) /\ c \in Seq(Piece) /\ c = left[t][s] \o f /\ Cut(c) \in 0..Len(c)
      /\ B \in Seq(Piece) /\ L \in Seq(Piece)
      /\ Advance(t, s) = pos[t][s] + Len(f) /\ Advance(t, s) \in Nat
  BY <1>0, ReadParts
<1>4. Copied(t, s) /\ Within(t, s)
  BY <1>0, CopyParts
<1>5. pos[t][s] + want[t] <= Len(raw[s])
  BY <1>0, <1>4 DEF Within
<1>6. f = SubSeq(raw[s], pos[t][s] + 1, pos[t][s] + want[t]) /\ Len(f) = want[t]
  <2>1. f = SubSeq(raw[s], pos[t][s] + 1, pos[t][s] + want[t])
    BY <1>2, <1>5 DEF Fresh, Smaller
  <2>2. Len(SubSeq(raw[s], pos[t][s] + 1, pos[t][s] + want[t])) = want[t]
    BY <1>2, <1>5, NextPart
  <2> HIDE DEF f
  <2> QED
    BY <2>1, <2>2
<1>7. events[s] \o left[t][s] = SubSeq(raw[s], 1, pos[t][s])
  <2>1. Pending(t, s) = <<>>
    BY <1>0 DEF Pending
  <2>2. events[s] \o <<>> = events[s]
    BY <1>2, ConcatEmptySeq
  <2> QED
    BY <1>4, <2>1, <2>2 DEF Copied
<1> HIDE DEF c, f
<1>8. events[s] \o c = SubSeq(raw[s], 1, pos[t][s] + want[t])
  <2>1. SubSeq(raw[s], 1, pos[t][s]) \o f = events[s] \o c
    <3>1. SubSeq(raw[s], 1, pos[t][s]) = events[s] \o left[t][s]
      BY <1>7
    <3>2. events[s] \in Seq(Piece) /\ left[t][s] \in Seq(Piece) /\ f \in Seq(Piece)
      BY <1>2, <1>3
    <3>3. (events[s] \o left[t][s]) \o f = events[s] \o (left[t][s] \o f)
      BY ONLY <3>2, Associative, Zenon
    <3> QED
      BY ONLY <1>3, <3>1, <3>3, Zenon
  <2>2. SubSeq(raw[s], 1, pos[t][s]) \o SubSeq(raw[s], pos[t][s] + 1, pos[t][s] + want[t])
            = SubSeq(raw[s], 1, pos[t][s] + want[t])
    BY <1>2, <1>5, NextPart
  <2> QED
    BY <1>6, <2>1, <2>2
<1>9. (events[s] \o B) \o L = events[s] \o c
  <2>1. c = B \o L
    BY <1>3, Split
  <2>2. events[s] \in Seq(Piece) /\ B \in Seq(Piece) /\ L \in Seq(Piece)
    BY <1>2, <1>3
  <2> HIDE DEF B, L
  <2>3. (events[s] \o B) \o L = events[s] \o (B \o L)
    BY ONLY <2>2, Associative, Zenon
  <2> QED
    BY ONLY <2>1, <2>3, Zenon
<1>10. Cut(c) = 0 => B = <<>>
  BY <1>3, SMT
<1> HIDE DEF B, L
<1>11. pos'[t][s] = pos[t][s] + want[t] /\ \A r \in Streams \ {s} : pos'[t][r] = pos[t][r]
  <2>1. Advance(t, s) = pos[t][s] + want[t]
    BY <1>3, <1>6
  <2>2. pos \in [Tailers -> [Streams -> Nat]]
    BY TypesSplit DEF TailInv, ReadTypes
  <2> QED
    BY <1>0, <1>1, <1>3, <2>1, <2>2, Updated, SMT
<1>12. left'[t][s] = L /\ \A r \in Streams \ {s} : left'[t][r] = left[t][r]
  BY <1>0, <1>1, <1>3, TypesSplit, Updated, SMT DEF TailInv, ReadTypes
<1>13. Pending(t, s)' = B
  <2>1. CASE Cut(c) = 0
    <3>1. tpc'[t] # "append"
      BY <1>0, <1>1, <2>1, DrainReturnsKeeps, TypesSplit DEF TailInv
    <3> QED
      BY <1>10, <2>1, <3>1 DEF Pending
  <2>2. CASE Cut(c) # 0
    <3>1. tpc'[t] = "append" /\ cur'[t] = s /\ batch'[t] = B
      BY <1>0, <1>1, <2>2, TypesSplit DEF TailInv, LoopTypes, ReadTypes
    <3> QED
      BY <3>1 DEF Pending
  <2> QED
    BY <2>1, <2>2
<1>14. ASSUME NEW r \in Streams, r # s PROVE Pending(t, r) = <<>> /\ Pending(t, r)' = <<>>
  <2>1. tpc'[t] = "append" => cur'[t] = s
    <3>1. Cut(c) = 0 => tpc'[t] # "append"
      BY <1>0, <1>1, DrainReturnsKeeps, TypesSplit DEF TailInv
    <3> QED
      BY <1>0, <1>1, <3>1
  <2> QED
    BY <1>0, <1>14, <2>1 DEF Pending
<1>15. Copied(t, s)'
  <2>1. (events[s] \o B) \o L = SubSeq(raw[s], 1, pos[t][s] + want[t])
    BY <1>8, <1>9
  <2>2. raw'[s] = raw[s] /\ events'[s] = events[s]
    BY <1>0
  <2> QED
    BY <1>11, <1>12, <1>13, <2>1, <2>2 DEF Copied
<1>16. ASSUME NEW r \in Streams, r # s PROVE Copied(t, r)'
  <2>1. Copied(t, r)
    BY <1>0, CopyParts
  <2> QED
    BY <1>0, <1>11, <1>12, <1>14, <1>16, <2>1 DEF Copied
<1>17. ASSUME NEW r \in Streams PROVE Within(t, r)'
  <2>1. Within(t, r)
    BY <1>0, CopyParts
  <2> QED
    BY <1>0, <1>5, <1>11, <2>1 DEF Within
<1>18. \A r \in Streams : Copied(t, r)' /\ Within(t, r)'
  BY <1>15, <1>16, <1>17
<1> QED
  BY <1>0, <1>18, CopyStep

(* CopyAppend: the batch moves from the tailer to events.log. *)
LEMMA CopyAppend ==
    ASSUME TailInv, OnceInv, CopyInv, ~fails, starts <= 1, NEW t \in Tailers, AppendBatch(t)
    PROVE  CopyInv'
<1> DEFINE s == cur[t]
<1>0. /\ TailerStep(t) /\ tpc[t] = "append" /\ UNCHANGED <<raw, pos, left>>
      /\ s \in Streams /\ tpc'[t] \in {"drain", "sleep", "exited"}
      /\ events' = [events EXCEPT ![s] = events[s] \o batch[t]]
  <2>1. /\ tpc[t] = "append" /\ UNCHANGED <<raw, pos, left>>
        /\ events' = [events EXCEPT ![s] = events[s] \o batch[t]]
    BY Zenon DEF AppendBatch
  <2> QED
    BY <2>1, AppendKeeps, TypesSplit DEF TailInv, LoopTypes, TailerStep
<1>1. events'[s] = events[s] \o batch[t] /\ \A r \in Streams \ {s} : events'[r] = events[r]
  BY <1>0, TypesSplit DEF TailInv, FileTypes
<1>2. ASSUME NEW r \in Streams PROVE Copied(t, r)' /\ Within(t, r)'
  <2>1. Copied(t, r) /\ Within(t, r) /\ Pending(t, r)' = <<>>
    BY <1>0, CopyParts DEF Pending
  <2>2. /\ events[r] \in Seq(Piece) /\ batch[t] \in Seq(Piece)
    BY CopyTypes
  <2>3. events'[r] \o <<>> = events[r] \o Pending(t, r)
    <3>1. CASE r = s
      <4>1. Pending(t, r) = batch[t]
        BY <1>0, <3>1 DEF Pending
      <4> QED
        BY <1>1, <2>2, <3>1, <4>1, ConcatProperties, ConcatEmptySeq, ZenonT(30)
    <3>2. CASE r # s
      BY <1>1, <3>2 DEF Pending
    <3> QED
      BY <3>1, <3>2
  <2>4. Copied(t, r)'
    BY <1>0, <2>1, <2>3 DEF Copied
  <2>5. Within(t, r)'
    BY <1>0, <2>1 DEF Within
  <2> QED
    BY <2>4, <2>5
<1> QED
  BY <1>0, <1>2, CopyStep

(* CopyOutside: the container's process and start_container. *)
LEMMA CopyOutside ==
    ASSUME TailInv, OnceInv, CopyInv, ~fails, starts' <= 1,
           (\E s \in Streams : Write(s)) \/ Exit \/ PrepareLogs \/ Starting
    PROVE  CopyInv'
<1>0. StartTypes /\ FileTypes /\ LoopTypes /\ ReadTypes
  BY TypesSplit DEF TailInv
<1>1. ASSUME NEW w \in Streams, Write(w) PROVE CopyInv'
  <2>1. PICK p : raw' = [raw EXCEPT ![w] = Append(raw[w], p)]
    BY <1>1 DEF Write
  <2>2. UNCHANGED <<fails, starts, events, tpc, tailing>> /\ TailInv'
    BY <1>1, StartsKeep DEF Write, starter
  <2>3. ASSUME NEW s \in Streams, NEW t \in Tailers
        PROVE  Within(t, s)' /\ (tpc'[t] # "off" => Copied(t, s)')
    <3>1. Within(t, s) /\ (tpc[t] # "off" => Copied(t, s))
      BY <2>2, CopyParts
    <3>2. pos[t][s] \in Nat /\ raw[s] \in Seq(Piece) /\ want[t] \in Nat
      BY CopyTypes
    <3>3. raw'[s] = raw[s] \/ raw'[s] = Append(raw[s], p)
      BY <1>0, <2>1 DEF FileTypes
    <3>4. raw'[s] \in Seq(Piece)
      BY <2>2, TypesSplit DEF TailInv, TypeOK
    <3>5. Len(raw[s]) <= Len(raw'[s]) /\ \A i \in 1..Len(raw[s]) : raw'[s][i] = raw[s][i]
      BY <3>2, <3>3, SMT
    <3>6. SubSeq(raw'[s], 1, pos[t][s]) = SubSeq(raw[s], 1, pos[t][s])
      BY <3>1, <3>2, <3>4, <3>5, SMT DEF Within
    <3>7. Pending(t, s)' = Pending(t, s)
      BY <2>2 DEF Pending, tailing
    <3>8. tpc'[t] # "off" => Copied(t, s)'
      BY <2>2, <3>1, <3>6, <3>7 DEF Copied, tailing
    <3>9. Within(t, s)'
      BY <2>2, <3>1, <3>2, <3>4, <3>5, SMT DEF Within, tailing
    <3> QED
      BY <3>8, <3>9
  <2> QED
    BY <2>3 DEF CopyInv, Conserved, Copied, Within
<1>2. CASE Exit \/ CreateTask \/ AwaitOld
  BY <1>2 DEF Exit, CreateTask, AwaitOld, CopyInv, Conserved, Pending, starter, tailing
<1>3. CASE PrepareLogs
  <2>1. run = 0 /\ raw' = Empty /\ UNCHANGED <<tpc, tailing>>
    BY <1>0, <1>3, SMT DEF PrepareLogs, OnceInv, StartTypes
  <2>2. \A t \in Tailers : tpc'[t] = "off" /\ pos'[t] = Zero
    BY <2>1, BoundsAssumption, SMT DEF TailInv, UnusedInv, Tailers, tailing
  <2>3. \A s \in Streams, t \in Tailers : Within(t, s)'
    BY <2>1, <2>2, SMT DEF Within, Zero, Empty
  <2> QED
    BY <2>2, <2>3 DEF CopyInv, Conserved, Within
<1>4. CASE SpawnTailer
  <2>1. /\ start = "spawn" /\ UNCHANGED <<fails, starts, raw, events, tailing>>
        /\ tpc' = [tpc EXCEPT ![run] = "drain"]
    BY <1>4 DEF SpawnTailer
  <2>2. (\A t \in Tailers : tpc[t] = "off") /\ events = Empty
    BY <2>1 DEF OnceInv, TailInv
  <2>3. ASSUME NEW s \in Streams, NEW t \in Tailers PROVE Within(t, s)' /\ Copied(t, s)'
    <3>1. pos'[t] = Zero /\ left'[t] = Empty /\ raw'[s] \in Seq(Piece)
      BY <2>1, <2>2, CopyTypes DEF TailInv, UnusedInv, tailing
    <3>2. tpc'[t] \in {"off", "drain"}
      BY <1>0, <2>1, <2>2 DEF LoopTypes
    <3>3. Pending(t, s)' = <<>>
      BY <3>2 DEF Pending
    <3>4. Within(t, s)'
      BY <3>1, <3>2, SMT DEF Within, Zero
    <3>5. SubSeq(raw'[s], 1, 0) = <<>>
      BY <3>1, SMT
    <3>6. Copied(t, s)'
      BY <2>1, <2>2, <3>1, <3>3, <3>5, SMT DEF Copied, Zero, Empty
    <3> QED
      BY <3>4, <3>6
  <2> QED
    BY <2>3 DEF CopyInv, Conserved, Copied, Within
<1> QED
  BY <1>1, <1>2, <1>3, <1>4 DEF Starting

(* NextCopyInv: every step keeps the copy exact. *)
LEMMA NextCopyInv == TailInv /\ OnceInv /\ CopyInv /\ [Next]_vars => CopyInv'
<1> SUFFICES ASSUME TailInv, OnceInv, CopyInv, [Next]_vars, ~fails', starts' <= 1 PROVE CopyInv'
  BY DEF CopyInv
<1>1. CASE UNCHANGED vars
  BY <1>1 DEF CopyInv, Conserved, Pending, vars, starter, tailing
<1>2. CASE (\E s \in Streams : Write(s)) \/ Exit \/ PrepareLogs \/ Starting
  <2>1. ~fails
    BY <1>2 DEF Write, Exit, PrepareLogs, Starting, CreateTask, SpawnTailer, AwaitOld
  <2> QED
    BY <1>2, <2>1, CopyOutside
<1>3. ASSUME NEW t \in Tailers, TailerStep(t) \/ TakeStop(t) PROVE CopyInv'
  <2>1. ~fails /\ starts <= 1
    BY <1>3, TailerFrame
  <2>2. CASE Wake(t) \/ TakeStop(t)
    <3>1. UNCHANGED <<events, pos, left>> /\ tpc[t] = "sleep"
      BY <2>2 DEF Wake, TakeStop, tailing
    <3>2. tpc'[t] = "drain"
      BY <2>2, WakesKeep
    <3> QED
      BY <1>3, <2>1, <3>1, <3>2, CopyQuiet
  <2> QED
    BY <1>3, <2>1, <2>2, CopyStat, CopyRead, CopyAppend DEF TailerStep
<1> QED
  BY <1>1, <1>2, <1>3 DEF Next

(* CopyInvariant: the inductive invariant holds of every behaviour. *)
THEOREM CopyInvariant == Spec => [](OnceInv /\ CopyInv)
<1>1. Init => OnceInv /\ CopyInv
  <2> SUFFICES ASSUME Init PROVE OnceInv /\ CopyInv
    OBVIOUS
  <2>1. OnceInv
    BY DEF Init, OnceInv
  <2>2. \A t \in Tailers : tpc[t] = "off" /\ pos[t] = Zero
    BY DEF Init
  <2>3. CopyInv
    BY <2>2, SMT DEF Init, CopyInv, Conserved, Zero, Empty
  <2> QED
    BY <2>1, <2>3
<1> QED
  BY <1>1, TailInvariant, NextOnceInv, NextCopyInv, PTL DEF Spec

(* CopySafety: the tailer of a container that was started once neither loses *)
(* nor repeats nor reorders what it reads, for any output, however it falls  *)
(* between the drains, and any MAX_READ_CHUNK and MAX_LEFTOVER_BYTES.        *)
THEOREM CopySafety == Spec => []Conserved
<1>1. CopyInv => Conserved
  BY DEF CopyInv, Conserved
<1> QED
  BY <1>1, CopyInvariant, PTL

------------------------------------------------------------------------------
(* InOrder *)

(* The conditions of OrderInv, for sequences: r is the raw file, p the       *)
(* position in it and w how much was written.                                *)
Before(q, r, p) ==
    \A i \in DOMAIN q, j \in DOMAIN r : p < j \/ Len(r) < p => q[i].n < r[j].n

UpTo(q, w) == \A i \in DOMAIN q : q[i].n <= w

Good(e, b, l, r, p, w) ==
    /\ Increasing(e) /\ Increasing(b) /\ Increasing(l)
    /\ Precedes(e, b) /\ Precedes(e, l) /\ Precedes(b, l)
    /\ UpTo(e, w) /\ UpTo(b, w) /\ UpTo(l, w)
    /\ Before(e, r, p) /\ Before(b, r, p) /\ Before(l, r, p)

(* Numbered: pieces are numbered. *)
LEMMA Numbered ==
    ASSUME NEW q \in Seq(Piece)
    PROVE  /\ DOMAIN q = 1..Len(q) /\ Len(q) \in Nat
           /\ \A i \in DOMAIN q : q[i].n \in Int
<1>1. DOMAIN q = 1..Len(q) /\ Len(q) \in Nat
  BY SMT
<1>2. \A i \in DOMAIN q : q[i] \in Piece
  BY ElementOfSeq, SMT
<1> QED
  BY <1>1, <1>2, BoundsAssumption, SMT DEF Piece

(* JoinOrder: two increasing sequences, the one before the other. *)
LEMMA JoinOrder ==
    ASSUME NEW q \in Seq(Piece), NEW r \in Seq(Piece)
    PROVE  LET c == q \o r IN
           /\ Increasing(q) /\ Increasing(r) /\ Precedes(q, r) => Increasing(c)
           /\ \A e \in Seq(Piece) : Precedes(e, q) /\ Precedes(e, r) => Precedes(e, c)
           /\ \A l \in Seq(Piece) : Precedes(q, l) /\ Precedes(r, l) => Precedes(c, l)
           /\ \A w \in Int : UpTo(q, w) /\ UpTo(r, w) => UpTo(c, w)
           /\ \A f \in Seq(Piece), p \in Nat : Before(q, f, p) /\ Before(r, f, p) => Before(c, f, p)
<1> DEFINE c == q \o r
<1>1. c \in Seq(Piece) /\ Len(c) = Len(q) + Len(r) /\ DOMAIN c = 1..Len(c)
  BY SMT
<1>2. \A i \in 1..Len(q) : c[i] = q[i]
  BY SMT
<1>3. \A i \in Len(q) + 1 .. Len(c) : i - Len(q) \in 1..Len(r) /\ c[i] = r[i - Len(q)]
  BY SMT
<1>4. /\ DOMAIN q = 1..Len(q) /\ Len(q) \in Nat /\ DOMAIN r = 1..Len(r) /\ Len(r) \in Nat
      /\ \A i \in DOMAIN q : q[i].n \in Int
      /\ \A i \in DOMAIN r : r[i].n \in Int
  BY Numbered
<1> HIDE DEF c
<1>5. \A i \in DOMAIN c : \/ i \in DOMAIN q /\ c[i] = q[i]
                          \/ i > Len(q) /\ i - Len(q) \in DOMAIN r /\ c[i] = r[i - Len(q)]
  BY <1>1, <1>2, <1>3, <1>4, SMT
<1>6. ASSUME Increasing(q), Increasing(r), Precedes(q, r) PROVE Increasing(c)
  <2> SUFFICES ASSUME NEW i \in DOMAIN c, NEW j \in DOMAIN c, i < j PROVE c[i].n < c[j].n
    BY DEF Increasing
  <2>1. i \in Int /\ j \in Int
    BY <1>1, SMT
  <2>2. CASE i \in DOMAIN q /\ j \in DOMAIN q
    BY <1>2, <1>4, <1>6, <2>2, SMT DEF Increasing
  <2>3. CASE i \in DOMAIN q /\ j > Len(q) /\ j - Len(q) \in DOMAIN r /\ c[j] = r[j - Len(q)]
    BY <1>2, <1>4, <1>6, <2>3 DEF Precedes
  <2>4. CASE /\ i > Len(q) /\ i - Len(q) \in DOMAIN r /\ c[i] = r[i - Len(q)]
             /\ j > Len(q) /\ j - Len(q) \in DOMAIN r /\ c[j] = r[j - Len(q)]
    BY <1>4, <1>6, <2>1, <2>4, SMT DEF Increasing
  <2> QED
    BY <1>1, <1>4, <1>5, <2>1, <2>2, <2>3, <2>4, SMT
<1>7. \A e \in Seq(Piece) : Precedes(e, q) /\ Precedes(e, r) => Precedes(e, c)
  BY <1>5 DEF Precedes
<1>8. \A l \in Seq(Piece) : Precedes(q, l) /\ Precedes(r, l) => Precedes(c, l)
  BY <1>5 DEF Precedes
<1>9. \A w \in Int : UpTo(q, w) /\ UpTo(r, w) => UpTo(c, w)
  BY <1>5 DEF UpTo
<1>10. \A f \in Seq(Piece), p \in Nat : Before(q, f, p) /\ Before(r, f, p) => Before(c, f, p)
  BY <1>5 DEF Before
<1> QED
  BY <1>6, <1>7, <1>8, <1>9, <1>10 DEF c

(* CutOrder: the parts of an increasing sequence. *)
LEMMA CutOrder ==
    ASSUME NEW c \in Seq(Piece), NEW m \in 0..Len(c)
    PROVE  LET q == SubSeq(c, 1, m)
               r == SubSeq(c, m + 1, Len(c))
           IN  /\ Increasing(c) => Increasing(q) /\ Increasing(r) /\ Precedes(q, r)
               /\ \A e \in Seq(Piece) : Precedes(e, c) => Precedes(e, q) /\ Precedes(e, r)
               /\ \A w \in Int : UpTo(c, w) => UpTo(q, w) /\ UpTo(r, w)
               /\ \A f \in Seq(Piece), p \in Nat : Before(c, f, p) => Before(q, f, p) /\ Before(r, f, p)
<1> DEFINE q == SubSeq(c, 1, m)
           r == SubSeq(c, m + 1, Len(c))
<1>1. DOMAIN q = 1..m /\ \A i \in 1..m : q[i] = c[i]
  BY SMT
<1>2. DOMAIN r = 1..Len(c) - m /\ \A i \in 1..Len(c) - m : r[i] = c[m + i]
  BY SMT
<1>3. DOMAIN c = 1..Len(c) /\ Len(c) \in Nat /\ \A i \in DOMAIN c : c[i].n \in Int
  BY Numbered
<1> HIDE DEF q, r
<1>4. \A i \in DOMAIN q : i \in DOMAIN c /\ i <= m /\ i \in Int /\ q[i] = c[i]
  BY <1>1, <1>3, SMT
<1>5. \A i \in DOMAIN r : m + i \in DOMAIN c /\ 1 <= i /\ i \in Int /\ r[i] = c[m + i]
  BY <1>2, <1>3, SMT
<1>6. ASSUME Increasing(c) PROVE Increasing(q) /\ Increasing(r) /\ Precedes(q, r)
  <2>1. Increasing(q)
    BY <1>4, <1>6 DEF Increasing
  <2>2. Increasing(r)
    BY <1>5, <1>6, SMT DEF Increasing
  <2>3. Precedes(q, r)
    BY <1>4, <1>5, <1>6, SMT DEF Increasing, Precedes
  <2> QED
    BY <2>1, <2>2, <2>3
<1>7. \A e \in Seq(Piece) : Precedes(e, c) => Precedes(e, q) /\ Precedes(e, r)
  BY <1>4, <1>5 DEF Precedes
<1>8. \A w \in Int : UpTo(c, w) => UpTo(q, w) /\ UpTo(r, w)
  BY <1>4, <1>5 DEF UpTo
<1>9. \A f \in Seq(Piece), p \in Nat : Before(c, f, p) => Before(q, f, p) /\ Before(r, f, p)
  BY <1>4, <1>5 DEF Before
<1> QED
  BY <1>6, <1>7, <1>8, <1>9 DEF q, r

(* Part: a part of a sequence, which may begin beyond its end. *)
IsPart(f, r, p) ==
    /\ \A i \in DOMAIN f : p + i \in DOMAIN r /\ f[i] = r[p + i]
    /\ Len(f) = 0 \/ p + Len(f) <= Len(r)

(* Part: what SubSeq takes is part of the file. *)
LEMMA Part ==
    ASSUME NEW r \in Seq(Piece), NEW p \in Nat, NEW k \in Nat, k <= Len(r)
    PROVE  IsPart(SubSeq(r, p + 1, k), r, p)
<1> DEFINE f == SubSeq(r, p + 1, k)
<1>1. \A i \in DOMAIN f : p + i \in DOMAIN r /\ f[i] = r[p + i]
  BY SMT
<1>2. Len(f) = 0 \/ p + Len(f) <= Len(r)
  BY SMT
<1> QED
  BY <1>1, <1>2 DEF IsPart

(* FreshOrder: what is read, wherever the file was truncated since the stat. *)
LEMMA FreshOrder ==
    ASSUME NEW r \in Seq(Piece), NEW f \in Seq(Piece), NEW p \in Nat, NEW w \in Nat,
           \A i \in DOMAIN f : p + i \in DOMAIN r /\ f[i] = r[p + i],
           Len(f) = 0 \/ p + Len(f) <= Len(r), Increasing(r), UpTo(r, w)
    PROVE  /\ Increasing(f) /\ UpTo(f, w) /\ Before(f, r, p + Len(f))
           /\ \A q \in Seq(Piece) : Before(q, r, p) => Precedes(q, f) /\ Before(q, r, p + Len(f))
<1>1. /\ DOMAIN r = 1..Len(r) /\ Len(r) \in Nat /\ \A i \in DOMAIN r : r[i].n \in Int
      /\ DOMAIN f = 1..Len(f) /\ Len(f) \in Nat
  BY Numbered
<1>2. Increasing(f)
  <2> SUFFICES ASSUME NEW i \in DOMAIN f, NEW j \in DOMAIN f, i < j PROVE f[i].n < f[j].n
    BY DEF Increasing
  <2>1. p + i < p + j
    BY <1>1, SMT
  <2> QED
    BY <2>1 DEF Increasing
<1>3. UpTo(f, w)
  BY DEF UpTo
<1>4. Before(f, r, p + Len(f))
  <2> SUFFICES ASSUME NEW i \in DOMAIN f, NEW j \in DOMAIN r, p + Len(f) < j \/ Len(r) < p + Len(f)
               PROVE  f[i].n < r[j].n
    BY DEF Before
  <2>1. i \in Int /\ j \in Int /\ 1 <= i /\ i <= Len(f) /\ j <= Len(r)
    BY <1>1, SMT
  <2>2. p + i < j
    BY <1>1, <2>1, SMT
  <2> QED
    BY <2>1, <2>2 DEF Increasing
<1>5. ASSUME NEW q \in Seq(Piece), Before(q, r, p)
      PROVE  Precedes(q, f) /\ Before(q, r, p + Len(f))
  <2>1. Precedes(q, f)
    <3> SUFFICES ASSUME NEW i \in DOMAIN q, NEW j \in DOMAIN f PROVE q[i].n < f[j].n
      BY DEF Precedes
    <3>1. p < p + j
      BY <1>1, SMT
    <3> QED
      BY <1>5, <3>1 DEF Before
  <2>2. Before(q, r, p + Len(f))
    <3> SUFFICES ASSUME NEW i \in DOMAIN q, NEW j \in DOMAIN r, p + Len(f) < j \/ Len(r) < p + Len(f)
                 PROVE  q[i].n < r[j].n
      BY DEF Before
    <3>1. p < j \/ Len(r) < p
      BY <1>1, SMT
    <3> QED
      BY <1>5, <3>1 DEF Before
  <2> QED
    BY <2>1, <2>2
<1> QED
  BY <1>2, <1>3, <1>4, <1>5

(* ReadOrder: a read, wherever the file was truncated since the stat. *)
LEMMA ReadOrder ==
    ASSUME NEW e \in Seq(Piece), NEW l \in Seq(Piece), NEW r \in Seq(Piece),
           NEW p \in Nat, NEW w \in Nat, NEW f \in Seq(Piece),
           \A i \in DOMAIN f : p + i \in DOMAIN r /\ f[i] = r[p + i],
           Len(f) = 0 \/ p + Len(f) <= Len(r),
           Good(e, <<>>, l, r, p, w), Increasing(r), UpTo(r, w),
           NEW c \in Seq(Piece), c = l \o f, NEW m \in 0..Len(c),
           NEW b \in Seq(Piece), b = SubSeq(c, 1, m),
           NEW d \in Seq(Piece), d = SubSeq(c, m + 1, Len(c))
    PROVE  Good(e, b, d, r, p + Len(f), w)
<1>1. p + Len(f) \in Nat /\ w \in Int /\ Increasing(e) /\ Increasing(l) /\ Precedes(e, l)
      /\ UpTo(e, w) /\ UpTo(l, w) /\ Before(e, r, p) /\ Before(l, r, p)
  BY SMTT(30) DEF Good
<1>2. /\ Increasing(f) /\ UpTo(f, w) /\ Before(f, r, p + Len(f))
      /\ Precedes(e, f) /\ Before(e, r, p + Len(f))
      /\ Precedes(l, f) /\ Before(l, r, p + Len(f))
  BY <1>1, FreshOrder
<1>3. Increasing(c) /\ Precedes(e, c) /\ UpTo(c, w) /\ Before(c, r, p + Len(f))
  BY <1>1, <1>2, JoinOrder
<1>4. /\ Increasing(b) /\ Increasing(d) /\ Precedes(b, d)
      /\ Precedes(e, b) /\ Precedes(e, d) /\ UpTo(b, w) /\ UpTo(d, w)
      /\ Before(b, r, p + Len(f)) /\ Before(d, r, p + Len(f))
  BY <1>1, <1>3, CutOrder
<1> QED
  BY <1>1, <1>2, <1>4 DEF Good

(* AppendOrder: the batch is appended. *)
LEMMA AppendOrder ==
    ASSUME NEW e \in Seq(Piece), NEW b \in Seq(Piece), NEW l \in Seq(Piece), NEW r \in Seq(Piece),
           NEW p \in Nat, NEW w \in Nat, Good(e, b, l, r, p, w)
    PROVE  Good(e \o b, <<>>, l, r, p, w)
<1>1. /\ Increasing(e) /\ Increasing(b) /\ Increasing(l)
      /\ Precedes(e, b) /\ Precedes(e, l) /\ Precedes(b, l)
      /\ UpTo(e, w) /\ UpTo(b, w) /\ UpTo(l, w)
      /\ Before(e, r, p) /\ Before(b, r, p) /\ Before(l, r, p) /\ w \in Int
  BY SMTT(30) DEF Good
<1> DEFINE c == e \o b
<1>2. Increasing(c) /\ Precedes(c, l) /\ UpTo(c, w) /\ Before(c, r, p)
  BY <1>1, JoinOrder
<1>3. /\ Increasing(<<>>) /\ UpTo(<<>>, w) /\ Before(<<>>, r, p)
      /\ Precedes(c, <<>>) /\ Precedes(<<>>, l)
  BY SMTT(30) DEF Increasing, UpTo, Before, Precedes
<1> HIDE DEF c
<1>4. Good(c, <<>>, l, r, p, w)
  BY <1>1, <1>2, <1>3 DEF Good
<1> QED
  BY <1>4 DEF c

(* DropOrder: a batch or a leftover is dropped. *)
LEMMA DropOrder ==
    ASSUME NEW e, NEW b, NEW l, NEW r, NEW p, NEW w, Good(e, b, l, r, p, w)
    PROVE  Good(e, <<>>, l, r, p, w) /\ Good(e, b, <<>>, r, p, w)
BY SMTT(30) DEF Good, Increasing, UpTo, Before, Precedes

(* RestartOrder: the file was truncated, and is read from its beginning. *)
LEMMA RestartOrder ==
    ASSUME NEW e \in Seq(Piece), NEW l, NEW r \in Seq(Piece), NEW p \in Nat, NEW w \in Nat,
           Good(e, <<>>, l, r, p, w), Len(r) < p
    PROVE  Good(e, <<>>, <<>>, r, 0, w)
<1>1. Before(e, r, 0)
  BY DEF Good, Before
<1>2. Good(e, <<>>, <<>>, r, p, w)
  BY DropOrder
<1>3. Before(<<>>, r, 0)
  BY SMT DEF Before
<1> QED
  BY <1>1, <1>2, <1>3 DEF Good

(* WriteOrder: a new piece. *)
LEMMA WriteOrder ==
    ASSUME NEW r \in Seq(Piece), NEW w \in Nat, NEW x \in Piece, x.n = w + 1,
           Increasing(r), UpTo(r, w)
    PROVE  LET a == Append(r, x) IN
           /\ Increasing(a) /\ UpTo(a, w + 1)
           /\ \A q \in Seq(Piece) : UpTo(q, w) => UpTo(q, w + 1)
           /\ \A q \in Seq(Piece), p \in Nat : UpTo(q, w) /\ Before(q, r, p) => Before(q, a, p)
<1> DEFINE a == Append(r, x)
<1>1. DOMAIN a = 1..Len(r) + 1 /\ Len(a) = Len(r) + 1 /\ a[Len(r) + 1] = x
      /\ \A i \in 1..Len(r) : a[i] = r[i]
  BY SMT
<1>2. /\ DOMAIN r = 1..Len(r) /\ Len(r) \in Nat /\ \A i \in DOMAIN r : r[i].n \in Int
  BY Numbered
<1> HIDE DEF a
<1>3. \A i \in DOMAIN a : i \in Int /\ ((i \in DOMAIN r /\ a[i] = r[i]) \/ (i = Len(r) + 1 /\ a[i] = x))
  BY <1>1, <1>2, SMT
<1>4. Increasing(a)
  <2> SUFFICES ASSUME NEW i \in DOMAIN a, NEW j \in DOMAIN a, i < j PROVE a[i].n < a[j].n
    BY DEF Increasing
  <2>1. i \in DOMAIN r /\ a[i] = r[i]
    BY <1>1, <1>2, <1>3, SMT
  <2>2. CASE j \in DOMAIN r /\ a[j] = r[j]
    BY <2>1, <2>2 DEF Increasing
  <2>3. CASE a[j] = x
    BY <1>2, <2>1, <2>3, SMT DEF UpTo
  <2> QED
    BY <1>3, <2>2, <2>3
<1>5. UpTo(a, w + 1)
  <2>1. \A i \in DOMAIN r : r[i].n <= w + 1
    BY <1>2, SMT DEF UpTo
  <2> QED
    BY <1>3, <2>1, SMT DEF UpTo
<1>6. ASSUME NEW q \in Seq(Piece), UpTo(q, w) PROVE UpTo(q, w + 1)
  <2>1. \A i \in DOMAIN q : q[i].n \in Int
    BY Numbered
  <2> QED
    BY <1>6, <2>1, SMT DEF UpTo
<1>7. ASSUME NEW q \in Seq(Piece), NEW p \in Nat, UpTo(q, w), Before(q, r, p) PROVE Before(q, a, p)
  <2> SUFFICES ASSUME NEW i \in DOMAIN q, NEW j \in DOMAIN a, p < j \/ Len(a) < p
               PROVE  q[i].n < a[j].n
    BY DEF Before
  <2>1. q[i].n \in Int /\ q[i].n <= w
    BY <1>7, Numbered DEF UpTo
  <2>2. CASE j \in DOMAIN r /\ a[j] = r[j]
    <3>1. p < j \/ Len(r) < p
      BY <1>1, <1>2, <2>2, SMT
    <3> QED
      BY <1>7, <2>2, <3>1 DEF Before
  <2>3. CASE a[j] = x
    BY <2>1, <2>3, SMTT(30)
  <2> QED
    BY <1>3, <2>2, <2>3
<1> QED
  BY <1>4, <1>5, <1>6, <1>7 DEF a

(* What OrderInv says of the files, and of one tailer and one stream. *)
FileOrder(s) ==
    /\ Increasing(events[s]) /\ Increasing(raw[s])
    /\ UpTo(events[s], Len(written[s])) /\ UpTo(raw[s], Len(written[s]))

TailOrder(t, s) ==
    Good(events[s], Pending(t, s), left[t][s], raw[s], pos[t][s], Len(written[s]))

(* OrderParts: OrderInv, stream by stream and tailer by tailer. *)
LEMMA OrderParts ==
    OrderInv <=> (run <= 1 => \A s \in Streams :
                      FileOrder(s) /\ \A t \in Tailers : tpc[t] # "off" => TailOrder(t, s))
<1> DEFINE Rest(t, s) ==
        LET b == Pending(t, s)
            l == left[t][s]
        IN  /\ Increasing(b) /\ Increasing(l)
            /\ Precedes(events[s], b) /\ Precedes(events[s], l) /\ Precedes(b, l)
            /\ Known(b, s) /\ Known(l, s)
            /\ ReadBefore(events[s], t, s) /\ ReadBefore(b, t, s) /\ ReadBefore(l, t, s)
<1>1. ASSUME NEW q, NEW s PROVE Known(q, s) <=> UpTo(q, Len(written[s]))
  BY DEF Known, UpTo
<1>2. ASSUME NEW q, NEW s, NEW t PROVE ReadBefore(q, t, s) <=> Before(q, raw[s], pos[t][s])
  BY DEF ReadBefore, Before
<1>3. OrderInv <=> (run <= 1 => \A s \in Streams :
                       FileOrder(s) /\ \A t \in Tailers : tpc[t] # "off" => Rest(t, s))
  BY <1>1 DEF OrderInv, FileOrder
<1>4. ASSUME NEW s, NEW t, FileOrder(s) PROVE Rest(t, s) <=> TailOrder(t, s)
  BY <1>1, <1>2, <1>4 DEF FileOrder, TailOrder, Good
<1> HIDE DEF Rest
<1> QED
  BY <1>3, <1>4

(* OrderPartsNext: the same after a step. *)
LEMMA OrderPartsNext ==
    OrderInv' <=> (run' <= 1 => \A s \in Streams :
                      FileOrder(s)' /\ \A t \in Tailers : tpc'[t] # "off" => TailOrder(t, s)')
<1>1. (OrderInv <=> (run <= 1 => \A s \in Streams :
          FileOrder(s) /\ \A t \in Tailers : tpc[t] # "off" => TailOrder(t, s)))'
  BY OrderParts, PTL
<1> QED
  BY <1>1

(* OrderStep: it is enough to look at the tailer that moves. *)
LEMMA OrderStep ==
    ASSUME TailInv, OrderInv, run <= 1, NEW t \in Tailers, TailerStep(t) \/ TakeStop(t),
           \A s \in Streams : TailOrder(t, s)'
    PROVE  OrderInv'
<1>1. /\ UNCHANGED <<run, written, raw>> /\ OthersRest(t) /\ tpc[t] # "off"
  BY TailerFrame
<1>2. run \in Nat
  BY TypesSplit, BoundsAssumption, SMT DEF TailInv, StartTypes
<1>3. \A u \in Tailers : tpc[u] # "off" => u = 1
  BY <1>2, BoundsAssumption, SMT DEF TailInv, UnusedInv, Tailers
<1>4. \A u \in Tailers \ {t} : tpc'[u] = "off"
  BY <1>1, <1>3 DEF OthersRest
<1>5. ASSUME NEW s \in Streams PROVE FileOrder(s)'
  <2>1. FileOrder(s)
    BY OrderParts
  <2>2. Increasing(events'[s]) /\ UpTo(events'[s], Len(written'[s]))
    BY DEF TailOrder, Good
  <2> QED
    BY <1>1, <2>1, <2>2 DEF FileOrder
<1> QED
  BY <1>4, <1>5, OrderPartsNext

(* OrderKept: nothing of what the tailer holds of a stream changes. *)
LEMMA OrderKept ==
    ASSUME TailInv, OrderInv, run <= 1, NEW t \in Tailers, TailerStep(t) \/ TakeStop(t),
           NEW s \in Streams, events'[s] = events[s], Pending(t, s)' = Pending(t, s),
           left'[t][s] = left[t][s], pos'[t][s] = pos[t][s]
    PROVE  TailOrder(t, s)'
<1>1. UNCHANGED <<written, raw>> /\ TailOrder(t, s)
  BY TailerFrame, OrderParts
<1> QED
  BY <1>1 DEF TailOrder

(* OrderTypes: the types of what OrderInv is about. *)
LEMMA OrderTypes ==
    ASSUME TailInv, NEW s \in Streams
    PROVE  /\ written[s] \in Seq(Piece) /\ Len(written[s]) \in Nat
           /\ raw[s] \in Seq(Piece) /\ events[s] \in Seq(Piece)
<1>1. written[s] \in Seq(Piece) /\ raw[s] \in Seq(Piece) /\ events[s] \in Seq(Piece)
  BY TypesSplit DEF TailInv, FileTypes
<1> QED
  BY <1>1, SMT

(* OrderStat: a pass begins, perhaps over a file that was truncated. *)
LEMMA OrderStat ==
    ASSUME TailInv, OrderInv, run <= 1, NEW t \in Tailers, Stat(t)
    PROVE  OrderInv'
<1>s. PICK s \in Streams : s = cur[t]
  BY TypesSplit DEF TailInv, LoopTypes
<1>0. /\ tpc[t] = "drain" /\ tpc'[t] # "append" /\ events' = events /\ TailerStep(t)
  BY StatKeeps DEF Stat, TailerStep
<1>1. \A r \in Streams : Pending(t, r) = <<>> /\ Pending(t, r)' = <<>>
  BY <1>0 DEF Pending
<1>2. CASE UNCHANGED <<pos, left>>
  <2>1. \A r \in Streams : TailOrder(t, r)'
    BY <1>0, <1>1, <1>2, OrderKept
  <2> QED
    BY <1>0, <2>1, OrderStep
<1>3. CASE /\ Len(raw[s]) < pos[t][s] /\ pos' = [pos EXCEPT ![t][s] = 0]
           /\ left' = [left EXCEPT ![t][s] = <<>>]
  <2>1. pos'[t][s] = 0 /\ \A r \in Streams \ {s} : pos'[t][r] = pos[t][r]
    BY <1>3, TypesSplit, Updated, SMT DEF TailInv, ReadTypes
  <2>2. <<>> \in Seq(Piece)
    BY SMT
  <2>3. left'[t][s] = <<>> /\ \A r \in Streams \ {s} : left'[t][r] = left[t][r]
    BY <1>3, <2>2, TypesSplit, Updated, SMT DEF TailInv, ReadTypes
  <2>4. ASSUME NEW r \in Streams, r # s PROVE TailOrder(t, r)'
    BY <1>0, <1>1, <2>1, <2>3, <2>4, OrderKept
  <2>5. TailOrder(t, s)'
    <3>1. UNCHANGED <<written, raw>> /\ TailOrder(t, s)
      BY <1>0, TailerFrame, OrderParts
    <3>2. /\ raw[s] \in Seq(Piece) /\ events[s] \in Seq(Piece) /\ Len(written[s]) \in Nat
          /\ pos[t][s] \in Nat
      BY CopyTypes, OrderTypes
    <3>3. Good(events[s], <<>>, left[t][s], raw[s], pos[t][s], Len(written[s]))
      BY <1>1, <3>1 DEF TailOrder
    <3>4. Good(events[s], <<>>, <<>>, raw[s], 0, Len(written[s]))
      BY <1>3, <3>2, <3>3, RestartOrder
    <3> QED
      BY <1>0, <1>1, <2>1, <2>3, <3>1, <3>4 DEF TailOrder
  <2>6. \A r \in Streams : TailOrder(t, r)'
    BY <2>4, <2>5
  <2> QED
    BY <1>0, <2>6, OrderStep
<1> QED
  BY <1>s, <1>2, <1>3, Zenon DEF Stat

(* OrderRead: what is read comes after all that was read before. *)
LEMMA OrderRead ==
    ASSUME TailInv, OrderInv, run <= 1, NEW t \in Tailers, Read(t)
    PROVE  OrderInv'
<1>s. PICK s \in Streams : s = cur[t]
  BY TypesSplit DEF TailInv, LoopTypes
<1>0. /\ tpc[t] = "read" /\ events' = events /\ TailerStep(t)
      /\ UNCHANGED <<written, raw>>
  BY DEF Read, TailerStep
<1>1. \A r \in Streams : Pending(t, r) = <<>>
  BY <1>0 DEF Pending
<1>2. TailOrder(t, s) /\ FileOrder(s)
  BY <1>0, OrderParts
<1>3. /\ events[s] \in Seq(Piece) /\ raw[s] \in Seq(Piece) /\ left[t][s] \in Seq(Piece)
      /\ pos[t][s] \in Nat /\ want[t] \in Nat /\ Len(written[s]) \in Nat
  BY CopyTypes, OrderTypes
<1>4. Good(events[s], <<>>, left[t][s], raw[s], pos[t][s], Len(written[s]))
  BY <1>1, <1>2 DEF TailOrder
<1> DEFINE c == Combined(t, s)
           f == Fresh(t, s)
           B == SubSeq(c, 1, Cut(c))
           L == SubSeq(c, Cut(c) + 1, Len(c))
<1>5. CASE /\ pos' = [pos EXCEPT ![t][s] = Advance(t, s)]
           /\ left' = [left EXCEPT ![t][s] = L]
           /\ batch' = [batch EXCEPT ![t] = B]
           /\ IF Cut(c) = 0 THEN DrainReturns(t, TRUE)
              ELSE tpc' = [tpc EXCEPT ![t] = "append"] /\ cur' = cur
  <2>1. /\ f \in Seq(Piece) /\ c \in Seq(Piece) /\ c = left[t][s] \o f /\ Cut(c) \in 0..Len(c)
        /\ B \in Seq(Piece) /\ L \in Seq(Piece)
        /\ Advance(t, s) = pos[t][s] + Len(f) /\ Advance(t, s) \in Nat
    BY ReadParts
  <2>2. /\ \A i \in DOMAIN f : pos[t][s] + i \in DOMAIN raw[s] /\ f[i] = raw[s][pos[t][s] + i]
        /\ Len(f) = 0 \/ pos[t][s] + Len(f) <= Len(raw[s])
    <3> DEFINE k == Smaller(pos[t][s] + want[t], Len(raw[s]))
    <3>1. k \in Nat /\ k <= Len(raw[s])
      BY <1>3, SMT DEF Smaller
    <3>2. f = SubSeq(raw[s], pos[t][s] + 1, k)
      BY DEF Fresh
    <3> HIDE DEF k, f
    <3>3. IsPart(SubSeq(raw[s], pos[t][s] + 1, k), raw[s], pos[t][s])
      BY <1>3, <3>1, Part
    <3>4. IsPart(f, raw[s], pos[t][s])
      BY <3>2, <3>3
    <3> QED
      BY <3>4 DEF IsPart
  <2>3. Cut(c) = 0 => B = <<>>
    BY <2>1, SMT
  <2>4. Good(events[s], B, L, raw[s], pos[t][s] + Len(f), Len(written[s]))
    <3> HIDE DEF c, f
    <3> QED
      BY <1>2, <1>3, <1>4, <2>1, <2>2, ReadOrder DEF FileOrder
  <2> HIDE DEF c, f, B, L
  <2>5. pos'[t][s] = pos[t][s] + Len(f) /\ \A r \in Streams \ {s} : pos'[t][r] = pos[t][r]
    BY <1>5, <2>1, TypesSplit, Updated, SMTT(30) DEF TailInv, ReadTypes
  <2>6. left'[t][s] = L /\ \A r \in Streams \ {s} : left'[t][r] = left[t][r]
    BY <1>5, <2>1, TypesSplit, Updated, SMT DEF TailInv, ReadTypes
  <2>7. /\ Cut(c) = 0 => tpc'[t] # "append"
        /\ Cut(c) # 0 => tpc'[t] = "append" /\ cur'[t] = s /\ batch'[t] = B
    <3>1. Cut(c) = 0 => tpc'[t] # "append"
      BY <1>0, <1>5, DrainReturnsKeeps, TypesSplit DEF TailInv
    <3>2. Cut(c) # 0 => tpc'[t] = "append" /\ cur'[t] = s /\ batch'[t] = B
      BY <1>s, <1>5, TypesSplit DEF TailInv, LoopTypes, ReadTypes
    <3> QED
      BY <3>1, <3>2
  <2>8. Pending(t, s)' = B
    BY <2>3, <2>7 DEF Pending
  <2>9. ASSUME NEW r \in Streams, r # s PROVE Pending(t, r)' = <<>>
    BY <2>7, <2>9 DEF Pending
  <2>10. TailOrder(t, s)'
    BY <1>0, <2>4, <2>5, <2>6, <2>8 DEF TailOrder
  <2>11. ASSUME NEW r \in Streams, r # s PROVE TailOrder(t, r)'
    BY <1>0, <1>1, <2>5, <2>6, <2>9, <2>11, OrderKept
  <2>12. \A r \in Streams : TailOrder(t, r)'
    BY <2>10, <2>11
  <2> QED
    BY <1>0, <2>12, OrderStep
<1>6. CASE left' = [left EXCEPT ![t][s] = <<>>] /\ DrainReturns(t, FALSE) /\ pos' = pos
  <2>1. tpc'[t] # "append"
    BY <1>0, <1>6, DrainReturnsKeeps, TypesSplit DEF TailInv
  <2>2. \A r \in Streams : Pending(t, r)' = <<>>
    BY <2>1 DEF Pending
  <2>3. <<>> \in Seq(Piece)
    BY SMT
  <2>4. left'[t][s] = <<>> /\ \A r \in Streams \ {s} : left'[t][r] = left[t][r]
    BY <1>6, <2>3, TypesSplit, Updated, SMT DEF TailInv, ReadTypes
  <2>5. TailOrder(t, s)'
    <3>1. Good(events[s], <<>>, <<>>, raw[s], pos[t][s], Len(written[s]))
      BY <1>4, DropOrder
    <3> QED
      BY <1>0, <1>6, <2>2, <2>4, <3>1 DEF TailOrder
  <2>6. ASSUME NEW r \in Streams, r # s PROVE TailOrder(t, r)'
    BY <1>0, <1>1, <1>6, <2>2, <2>4, <2>6, OrderKept
  <2>7. \A r \in Streams : TailOrder(t, r)'
    BY <2>5, <2>6
  <2> QED
    BY <1>0, <2>7, OrderStep
<1> QED
  BY <1>s, <1>5, <1>6, Zenon DEF Read

(* OrderAppend: the batch moves to events.log, or is lost. *)
LEMMA OrderAppend ==
    ASSUME TailInv, OrderInv, run <= 1, NEW t \in Tailers, AppendBatch(t)
    PROVE  OrderInv'
<1>s. PICK s \in Streams : s = cur[t]
  BY TypesSplit DEF TailInv, LoopTypes
<1>0. /\ tpc[t] = "append" /\ TailerStep(t) /\ tpc'[t] # "append"
      /\ UNCHANGED <<written, raw, pos, left>>
  BY AppendKeeps DEF AppendBatch, TailerStep
<1>1. events' = events \/ events' = [events EXCEPT ![s] = events[s] \o batch[t]]
  BY <1>s DEF AppendBatch
<1>2. \A r \in Streams : Pending(t, r)' = <<>>
  BY <1>0 DEF Pending
<1>3. Pending(t, s) = batch[t] /\ \A r \in Streams \ {s} : Pending(t, r) = <<>>
  BY <1>s, <1>0 DEF Pending
<1>4. /\ events[s] \in Seq(Piece) /\ raw[s] \in Seq(Piece) /\ left[t][s] \in Seq(Piece)
      /\ batch[t] \in Seq(Piece) /\ pos[t][s] \in Nat /\ Len(written[s]) \in Nat
  BY CopyTypes, OrderTypes
<1>5. Good(events[s], batch[t], left[t][s], raw[s], pos[t][s], Len(written[s]))
  <2>1. TailOrder(t, s)
    BY <1>0, OrderParts
  <2> QED
    BY <1>3, <2>1 DEF TailOrder
<1>6. events'[s] \in {events[s], events[s] \o batch[t]} /\ \A r \in Streams \ {s} : events'[r] = events[r]
  BY <1>1, TypesSplit DEF TailInv, FileTypes
<1>7. Good(events'[s], <<>>, left[t][s], raw[s], pos[t][s], Len(written[s]))
  <2>1. CASE events'[s] = events[s]
    BY <1>5, <2>1, DropOrder
  <2>2. CASE events'[s] = events[s] \o batch[t]
    BY <1>4, <1>5, <2>2, AppendOrder
  <2> QED
    BY <1>6, <2>1, <2>2
<1>8. TailOrder(t, s)'
  BY <1>0, <1>2, <1>7 DEF TailOrder
<1>9. ASSUME NEW r \in Streams, r # s PROVE TailOrder(t, r)'
  BY <1>0, <1>2, <1>3, <1>6, <1>9, OrderKept
<1>10. \A r \in Streams : TailOrder(t, r)'
  BY <1>8, <1>9
<1> QED
  BY <1>0, <1>10, OrderStep

(* OrderWakes: the tailer wakes, or is told to stop. *)
LEMMA OrderWakes ==
    ASSUME TailInv, OrderInv, run <= 1, NEW t \in Tailers, Wake(t) \/ TakeStop(t)
    PROVE  OrderInv'
<1>1. /\ TailerStep(t) \/ TakeStop(t)
      /\ tpc[t] = "sleep" /\ tpc'[t] = "drain" /\ UNCHANGED <<events, pos, left>>
  BY WakesKeep DEF Wake, TakeStop, TailerStep, tailing
<1>2. \A r \in Streams : TailOrder(t, r)'
  <2>1. \A r \in Streams : Pending(t, r)' = Pending(t, r)
    BY <1>1 DEF Pending
  <2> QED
    BY <1>1, <2>1, OrderKept
<1> QED
  BY <1>1, <1>2, OrderStep

(* OrderWrite: what is written is newer than all that was. *)
LEMMA OrderWrite ==
    ASSUME TailInv, OrderInv, run <= 1, NEW v \in Streams, Write(v)
    PROVE  OrderInv'
<1>1. /\ UNCHANGED <<run, events, tpc, cur, pos, left, batch>>
      /\ TailInv' /\ \A r \in Streams : events'[r] = events[r]
  BY StartsKeep DEF Write, starter, tailing
<1>2. PICK x : /\ written' = [written EXCEPT ![v] = Append(written[v], x)]
               /\ raw' = [raw EXCEPT ![v] = Append(raw[v], x)]
               /\ x.n = Len(written[v]) + 1
  <2>1. PICK nl \in BOOLEAN :
            LET p == [n |-> Len(written[v]) + 1, run |-> run, nl |-> nl] IN
            /\ written' = [written EXCEPT ![v] = Append(written[v], p)]
            /\ raw' = [raw EXCEPT ![v] = Append(raw[v], p)]
    BY DEF Write
  <2> DEFINE y == [n |-> Len(written[v]) + 1, run |-> run, nl |-> nl]
  <2>2. y.n = Len(written[v]) + 1
    OBVIOUS
  <2>3. /\ written' = [written EXCEPT ![v] = Append(written[v], y)]
        /\ raw' = [raw EXCEPT ![v] = Append(raw[v], y)]
    BY <2>1
  <2> HIDE DEF y
  <2> QED
    BY <2>2, <2>3
<1>3. written[v] \in Seq(Piece) /\ raw[v] \in Seq(Piece) /\ Len(written[v]) \in Nat
  BY OrderTypes
<1>4. /\ written'[v] = Append(written[v], x) /\ raw'[v] = Append(raw[v], x)
      /\ \A r \in Streams \ {v} : written'[r] = written[r] /\ raw'[r] = raw[r]
  BY <1>2, TypesSplit DEF TailInv, FileTypes
<1>5. Len(written'[v]) = Len(written[v]) + 1
  BY <1>3, <1>4, SMT
<1>6. x \in Piece
  <2>1. raw'[v] \in Seq(Piece)
    BY <1>1, TypesSplit DEF TailInv, TypeOK
  <2>2. Len(raw'[v]) = Len(raw[v]) + 1 /\ raw'[v][Len(raw[v]) + 1] = x
    BY <1>3, <1>4, SMT
  <2>3. Len(raw[v]) + 1 \in 1..Len(raw'[v])
    BY <1>3, <2>2, SMT
  <2> QED
    BY <2>1, <2>2, <2>3, ElementOfSeq
<1>7. \A r \in Streams, t \in Tailers : Pending(t, r)' = Pending(t, r)
  BY <1>1 DEF Pending
<1>8. ASSUME NEW r \in Streams, r # v
      PROVE  FileOrder(r)' /\ \A t \in Tailers : tpc'[t] # "off" => TailOrder(t, r)'
  <2>1. FileOrder(r) /\ \A t \in Tailers : tpc[t] # "off" => TailOrder(t, r)
    BY OrderParts
  <2>2. raw'[r] = raw[r] /\ written'[r] = written[r]
    BY <1>4, <1>8
  <2> QED
    BY <1>1, <1>7, <2>1, <2>2 DEF FileOrder, TailOrder
<1>9. /\ Increasing(raw'[v]) /\ UpTo(raw'[v], Len(written'[v]))
      /\ \A q \in Seq(Piece) : UpTo(q, Len(written[v])) => UpTo(q, Len(written'[v]))
      /\ \A q \in Seq(Piece), p \in Nat :
            UpTo(q, Len(written[v])) /\ Before(q, raw[v], p) => Before(q, raw'[v], p)
  <2>1. Increasing(raw[v]) /\ UpTo(raw[v], Len(written[v]))
    BY OrderParts DEF FileOrder
  <2> QED
    BY <1>2, <1>3, <1>4, <1>5, <1>6, <2>1, WriteOrder, SMT
<1>10. FileOrder(v)'
  <2>1. Increasing(events[v]) /\ UpTo(events[v], Len(written[v])) /\ events[v] \in Seq(Piece)
    BY OrderParts, OrderTypes DEF FileOrder
  <2> QED
    BY <1>1, <1>9, <2>1 DEF FileOrder
<1>11. ASSUME NEW t \in Tailers, tpc'[t] # "off" PROVE TailOrder(t, v)'
  <2>1. TailOrder(t, v)
    BY <1>1, <1>11, OrderParts
  <2>2. /\ events[v] \in Seq(Piece) /\ Pending(t, v) \in Seq(Piece) /\ left[t][v] \in Seq(Piece)
        /\ pos[t][v] \in Nat
    BY CopyTypes
  <2>3. Good(events[v], Pending(t, v), left[t][v], raw'[v], pos[t][v], Len(written'[v]))
    BY <1>9, <2>1, <2>2 DEF TailOrder, Good
  <2> QED
    BY <1>1, <1>7, <2>3 DEF TailOrder
<1> QED
  BY <1>8, <1>10, <1>11, OrderPartsNext

(* OrderStarts: start_container, whose truncation leaves nothing to read. *)
LEMMA OrderStarts ==
    ASSUME TailInv, OrderInv, run' <= 1, Exit \/ PrepareLogs \/ Starting
    PROVE  OrderInv'
<1>0. run \in Nat /\ run <= 1 /\ UNCHANGED <<written, events, cur, pos, left, batch>>
  <2>1. run \in Nat
    BY TypesSplit, BoundsAssumption, SMT DEF TailInv, StartTypes
  <2>2. run' = run \/ run' = run + 1
    BY DEF Exit, PrepareLogs, Starting, CreateTask, SpawnTailer, AwaitOld, starter
  <2> QED
    BY <2>1, <2>2, SMT DEF Exit, PrepareLogs, Starting, CreateTask, SpawnTailer, AwaitOld, tailing
<1>1. CASE UNCHANGED <<raw, tpc>>
  <2>1. \A s \in Streams, t \in Tailers : Pending(t, s)' = Pending(t, s)
    BY <1>0, <1>1 DEF Pending
  <2> QED
    BY <1>0, <1>1, <2>1, OrderParts, OrderPartsNext DEF FileOrder, TailOrder
<1>2. CASE raw' = Empty /\ tpc' = tpc
  <2>1. \A s \in Streams, t \in Tailers : Pending(t, s)' = Pending(t, s)
    BY <1>0, <1>2 DEF Pending
  <2>2. \A s \in Streams : raw'[s] = <<>>
    BY <1>2 DEF Empty
  <2>3. ASSUME NEW s \in Streams
        PROVE  FileOrder(s)' /\ \A t \in Tailers : tpc'[t] # "off" => TailOrder(t, s)'
    <3>1. FileOrder(s) /\ \A t \in Tailers : tpc[t] # "off" => TailOrder(t, s)
      BY <1>0, OrderParts
    <3>2. Increasing(<<>>) /\ \A w : UpTo(<<>>, w) /\ \A q, p : Before(q, <<>>, p)
      BY SMTT(30) DEF Increasing, UpTo, Before
    <3> QED
      BY <1>0, <1>2, <2>1, <2>2, <3>1, <3>2 DEF FileOrder, TailOrder, Good
  <2> QED
    BY <2>3, OrderPartsNext
<1>3. CASE SpawnTailer
  <2>1. start = "spawn" /\ raw' = raw /\ run' = run /\ tpc' = [tpc EXCEPT ![run] = "drain"]
    BY <1>3 DEF SpawnTailer
  <2>2. \A t \in Tailers : tpc[t] = "off"
    <3>1. run = 1 /\ tpc[run] = "off"
      BY <1>0, <2>1, SMT DEF TailInv
    <3> QED
      BY <3>1, BoundsAssumption, SMT DEF TailInv, UnusedInv, Tailers
  <2>3. events = Empty /\ \A t \in Tailers : left[t] = Empty /\ tpc'[t] # "append"
    BY <2>1, <2>2, TypesSplit DEF TailInv, UnusedInv, LoopTypes
  <2>4. ASSUME NEW s \in Streams
        PROVE  FileOrder(s)' /\ \A t \in Tailers : TailOrder(t, s)'
    <3>1. FileOrder(s)
      BY <1>0, OrderParts
    <3>2. events'[s] = <<>> /\ \A t \in Tailers : left'[t][s] = <<>> /\ Pending(t, s)' = <<>>
      BY <1>0, <2>3, ZenonT(30) DEF Empty, Pending
    <3>3. \A r, p, w : Good(<<>>, <<>>, <<>>, r, p, w)
      <4>1. \A i : i \notin DOMAIN <<>>
        BY SMT
      <4> QED
        BY <4>1 DEF Good, Increasing, UpTo, Before, Precedes
    <3> QED
      BY <1>0, <2>1, <3>1, <3>2, <3>3 DEF FileOrder, TailOrder
  <2> QED
    BY <2>4, OrderPartsNext
<1> QED
  BY <1>1, <1>2, <1>3 DEF Exit, PrepareLogs, Starting, CreateTask, AwaitOld

(* NextOrderInv: every step keeps the order. *)
LEMMA NextOrderInv == TailInv /\ OrderInv /\ [Next]_vars => OrderInv'
<1> SUFFICES ASSUME TailInv, OrderInv, [Next]_vars, run' <= 1 PROVE OrderInv'
  BY DEF OrderInv
<1>1. CASE UNCHANGED vars
  <2>1. \A s \in Streams, t \in Tailers : Pending(t, s)' = Pending(t, s)
    BY <1>1 DEF Pending, vars, tailing
  <2> QED
    BY <1>1, <2>1, OrderParts, OrderPartsNext DEF FileOrder, TailOrder, vars, starter, tailing
<1>2. CASE \E s \in Streams : Write(s)
  BY <1>2, OrderWrite DEF Write, starter
<1>3. CASE Exit \/ PrepareLogs \/ Starting
  BY <1>3, OrderStarts
<1>4. ASSUME NEW t \in Tailers, TailerStep(t) \/ TakeStop(t) PROVE OrderInv'
  <2>1. run <= 1
    BY <1>4, TailerFrame
  <2> QED
    BY <1>4, <2>1, OrderStat, OrderRead, OrderAppend, OrderWakes DEF TailerStep
<1> QED
  BY <1>1, <1>2, <1>3, <1>4 DEF Next

(* OrderSafety: while there is one tailer events.log neither repeats nor     *)
(* reorders output, whichever file operations fail and whenever a failing    *)
(* start_container truncates the raw files, for any output and any caps.     *)
THEOREM OrderSafety == Spec => []InOrder
<1>1. Init => OrderInv
  <2> SUFFICES ASSUME Init PROVE OrderInv
    OBVIOUS
  <2>1. \A s \in Streams : events[s] = <<>> /\ raw[s] = <<>>
    BY DEF Init, Empty
  <2>2. \A t \in Tailers : tpc[t] = "off"
    BY DEF Init
  <2> QED
    BY <2>1, <2>2, SMT DEF OrderInv, Increasing, Known
<1>2. OrderInv => InOrder
  BY DEF OrderInv, InOrder, Increasing
<1> QED
  BY <1>1, <1>2, TailInvariant, NextOrderInv, PTL DEF Spec

------------------------------------------------------------------------------
(* The images: Images *)

(* Induction on the naturals, for a set. *)
LEMMA SetInduction ==
    ASSUME NEW S, 0 \in S, \A n \in Nat : n \in S => n + 1 \in S
    PROVE  \A n \in Nat : n \in S
<1> SUFFICES ASSUME Nat \ S # {} PROVE FALSE
  OBVIOUS
<1>1. PICK n \in Nat \ S : \A m \in Nat \ S : n <= m
  BY HasLeast
<1>2. n # 0 /\ n - 1 \in Nat /\ n - 1 \in S
  BY <1>1, SMT
<1> QED
  BY <1>2, SMT

(* What a sequence holds. *)
LEMMA ElementIn ==
    ASSUME NEW E, NEW s \in Seq(E)
    PROVE  \A i \in DOMAIN s : s[i] \in E
  BY SMT

(* The sub-manifest an index has for this architecture is a digest. *)
LEMMA SubManifestIsDigest ==
    ASSUME NEW d \in Digests, Is(d, "index"), SubManifest(d) # None
    PROVE  SubManifest(d) \in Digests
<1> DEFINE ms == Content[d].manifests
           ours == {i \in DOMAIN ms : ms[i].architecture = Arch}
           first == CHOOSE i \in ours : \A j \in ours : i <= j
<1>1. ms \in Seq([architecture : STRING, digest : Digests])
  BY ContentAssumption DEF Is
<1>2. ours # {} /\ ours \subseteq DOMAIN ms /\ DOMAIN ms \subseteq Nat
  BY <1>1, SMT DEF SubManifest
<1>3. SubManifest(d) = ms[first].digest
  BY <1>2, Zenon DEF SubManifest
<1>4. first \in ours
  <2> HIDE DEF ours
  <2> QED
    BY <1>2, HasLeast
<1>5. \A i \in DOMAIN ms : ms[i] \in [architecture : STRING, digest : Digests]
  BY <1>1, ElementIn
<1> HIDE DEF ms, ours, first
<1> QED
  BY <1>2, <1>3, <1>4, <1>5

(* The config a manifest names is a digest. *)
LEMMA ConfigIsDigest ==
    ASSUME NEW d \in Digests, Is(d, "manifest")
    PROVE  Content[d].config \in Digests
  BY ContentAssumption DEF Is

(* What the cache may hold for a config. *)
LEMMA MetadataIsMeta ==
    ASSUME NEW d \in Digests, Is(d, "config")
    PROVE  Metadata(d) \in MetaOrNone /\ Metadata(d) # None
  BY ImagesBounds DEF MetaOrNone

(* What a pull fetches are blobs. *)
LEMMA ReachIsBlobs == \A d \in Digests : Reach(d) \subseteq Digests
  BY SubManifestIsDigest, ConfigIsDigest DEF Reach, ManifestOf, ConfigOf

------------------------------------------------------------------------------
(* Types *)

(* The initial state is well typed. *)
LEMMA ImagesInitTypeOK == ImagesInit => ImagesTypeOK
  BY ImagesBounds, SMT
     DEF ImagesInit, ImagesTypeOK, WorldTypes, CallTypes, Setting, Label, DigestOrNone, MetaOrNone

(* A call that returns keeps the types. *)
LEMMA ReturnTypes ==
    ASSUME CallTypes, NEW c \in Callers, NEW r \in {"ok", "not_found", "err"}, NEW m,
           m # None => m.tags \subseteq Digests, ReturnWith(c, r, m), tags' \in [Callers -> SUBSET Digests]
    PROVE  CallTypes'
  BY DEF ReturnWith, CallTypes, Label, DigestOrNone, MetaOrNone

(* A call that reads a blob next keeps the types. *)
LEMMA ReadsTypes ==
    ASSUME CallTypes, NEW c \in Callers, pc[c] # "idle",
           NEW l \in {"read_manifest", "read_sub", "read_config"}, NEW d \in Digests,
           digest' \in [Callers -> DigestOrNone], digest'[c] \in Digests,
           \A b \in Callers \ {c} : digest'[b] = digest[b],
           Reads(c, l, d)
    PROVE  CallTypes'
  BY DEF Reads, Goto, CallTypes, Label, DigestOrNone, results

(* A call that has its metadata keeps the types. *)
LEMMA WithMetadataTypes ==
    ASSUME CallTypes, NEW c \in Callers, pc[c] # "idle", NEW d \in Digests,
           NEW m \in MetaOrNone, m # None, WithMetadata(c, d, m)
    PROVE  CallTypes'
<1>1. CASE Return(c, "ok")
  BY <1>1, ReturnTypes DEF Return, CallTypes
<1>2. CASE ~Return(c, "ok")
  BY <1>2, SMT DEF WithMetadata, Goto, CallTypes, Label, DigestOrNone, MetaOrNone, results
<1> QED
  BY <1>1, <1>2

(* Every step keeps the types. *)
LEMMA ImagesNextTypeOK == ImagesTypeOK /\ [ImagesNext]_imagesVars => ImagesTypeOK'
<1> SUFFICES ASSUME WorldTypes, CallTypes, [ImagesNext]_imagesVars PROVE WorldTypes' /\ CallTypes'
  BY DEF ImagesTypeOK
<1> USE DEF At
<1>r. ASSUME NEW c \in Callers, NEW r \in {"ok", "not_found", "err"}, Return(c, r)
      PROVE  CallTypes'
  BY <1>r, ReturnTypes DEF Return, CallTypes
<1>w. ASSUME UNCHANGED world PROVE WorldTypes'
  BY <1>w DEF world, containerd, WorldTypes
<1>1. CASE UNCHANGED imagesVars
  BY <1>1, <1>w DEF imagesVars, CallTypes, locals, results
<1>2. ASSUME NEW c \in Callers, NEW o \in {"pull", "create", "clone", "healthcheck"},
             Begin(c, o)
      PROVE  WorldTypes' /\ CallTypes'
  <2>1. WorldTypes'
    BY <1>2, ImagesBounds, SMT DEF Begin, WorldTypes, containerd
  <2>2. (CHOOSE p \in Options : TRUE) \in Options
    BY ImagesBounds
  <2>3. CallTypes'
    BY <1>2, <2>2, SMT DEF Begin, CallTypes, WorldTypes, Label, DigestOrNone
  <2> QED
    BY <2>1, <2>3
<1>3. ASSUME NEW c \in Callers, ImageExists(c) PROVE WorldTypes' /\ CallTypes'
  <2>1. CASE Return(c, "ok")
    BY <1>3, <2>1, <1>r, <1>w DEF ImageExists
  <2>2. CASE ~Return(c, "ok")
    BY <1>3, <2>2, <1>w, SMT DEF ImageExists, Goto, CallTypes, Label, locals, results
  <2> QED
    BY <2>1, <2>2
<1>4. ASSUME NEW c \in Callers, Transfer(c) PROVE WorldTypes' /\ CallTypes'
  <2>1. name[c] \in Names /\ registry[name[c]] \in Digests
    BY <1>4 DEF Transfer, CallTypes, WorldTypes
  <2>2. WorldTypes'
    BY <1>4, <2>1, ReachIsBlobs DEF Transfer, WorldTypes, containerd, DigestOrNone
  <2>3. CASE Return(c, "err")
    BY <2>2, <2>3, <1>r
  <2>4. CASE ~Return(c, "err")
    <3> DEFINE d == registry[name[c]]
    <3>1. ReturnWith(c, "ok", None) /\ tags' = [Seen(name[c], d) EXCEPT ![c] = {}]
      BY <1>4, <2>4 DEF Transfer
    <3>2. Seen(name[c], d) \in [Callers -> SUBSET Digests]
      BY <2>1 DEF Seen, CallTypes
    <3>3. tags' \in [Callers -> SUBSET Digests]
      BY <3>1, <3>2
    <3> QED
      BY <2>2, <3>1, <3>3, ReturnTypes
  <2> QED
    BY <2>3, <2>4
<1>5. ASSUME NEW c \in Callers, GetImage(c) PROVE WorldTypes' /\ CallTypes'
  <2>1. pc[c] # "idle" /\ UNCHANGED world /\ store[name[c]] \in DigestOrNone
    BY <1>5 DEF GetImage, CallTypes, WorldTypes
  <2>2. CASE Return(c, "not_found")
    BY <2>1, <2>2, <1>r, <1>w
  <2>3. ASSUME NEW d \in Digests, cache[d] # None, WithMetadata(c, d, cache[d])
        PROVE  CallTypes'
    BY <2>1, <2>3, WithMetadataTypes DEF WorldTypes
  <2>4. ASSUME NEW d \in Digests, digest' = [digest EXCEPT ![c] = d],
               Reads(c, "read_manifest", d)
        PROVE  CallTypes'
    BY <2>1, <2>4, ReadsTypes DEF CallTypes, DigestOrNone
  <2> QED
    BY <1>5, <2>1, <2>2, <2>3, <2>4, <1>w DEF GetImage, DigestOrNone
<1>6. ASSUME NEW c \in Callers, ReadManifest(c) \/ ReadSub(c)
      PROVE  WorldTypes' /\ CallTypes'
  <2>1. pc[c] # "idle" /\ UNCHANGED world /\ reading[c] \in Digests /\ digest[c] \in Digests
    BY <1>6 DEF ReadManifest, ReadSub, CallTypes
  <2>2. ASSUME NEW l \in {"read_manifest", "read_sub", "read_config"}, NEW d \in Digests,
               Reads(c, l, d), UNCHANGED digest
        PROVE  CallTypes'
    BY <2>1, <2>2, ReadsTypes DEF CallTypes
  <2> QED
    BY <1>6, <2>1, <2>2, <1>r, <1>w, ConfigIsDigest, SubManifestIsDigest
       DEF ReadManifest, ReadSub, HasBlob
<1>7. ASSUME NEW c \in Callers, ReadConfig(c) PROVE WorldTypes' /\ CallTypes'
  <2>1. pc[c] # "idle" /\ reading[c] \in Digests /\ digest[c] \in Digests
    BY <1>7 DEF ReadConfig, CallTypes
  <2>2. CASE HasBlob(reading[c], "config") /\ Content[reading[c]].diff_ids # <<>>
    <3>1. Metadata(reading[c]) \in MetaOrNone /\ Metadata(reading[c]) # None
      BY <2>1, <2>2, MetadataIsMeta DEF HasBlob
    <3>2. WorldTypes'
      BY <1>7, <2>1, <2>2, <3>1, SMT DEF ReadConfig, WorldTypes, containerd
    <3> QED
      BY <1>7, <2>1, <2>2, <3>1, <3>2, WithMetadataTypes DEF ReadConfig
  <2>3. CASE ~(HasBlob(reading[c], "config") /\ Content[reading[c]].diff_ids # <<>>)
    BY <1>7, <2>3, <1>r, <1>w DEF ReadConfig, world
  <2> QED
    BY <2>2, <2>3
<1>8. ASSUME NEW c \in Callers, Prepare(c) PROVE WorldTypes' /\ CallTypes'
  <2>1. CASE Return(c, "err")
    BY <1>8, <2>1, <1>r, <1>w DEF Prepare
  <2>2. CASE ~Return(c, "err")
    BY <1>8, <2>2, <1>w DEF Prepare, Goto, CallTypes, Label, locals, results
  <2> QED
    BY <2>1, <2>2
<1>9. ASSUME NEW c \in Callers, Commit(c) PROVE WorldTypes' /\ CallTypes'
  <2>1. tags' \in [Callers -> SUBSET Digests]
    BY <1>9 DEF Commit, CallTypes
  <2> DEFINE m == [own |-> op[c] = "create", parent |-> meta[c].chain_id,
                   spec |-> BuildOciSpec(Content[meta[c].config], opts[c]),
                   opts |-> opts[c], tags |-> tags[c]]
  <2>2. m.tags \subseteq Digests
    BY DEF CallTypes
  <2>3. ReturnWith(c, "ok", m) /\ UNCHANGED world
    BY <1>9 DEF Commit
  <2> HIDE DEF m
  <2> QED
    BY <2>1, <2>2, <2>3, <1>w, ReturnTypes
<1>10. ASSUME NEW c \in Callers, Fails(c) PROVE WorldTypes' /\ CallTypes'
  BY <1>10, <1>r, <1>w DEF Fails
<1>11. CASE ClearCache \/ Collect \/ \E n \in Names : Push(n)
  <2>1. CallTypes'
    BY <1>11 DEF ClearCache, Collect, Push, calling, locals, results, CallTypes
  <2>2. ClearCache => WorldTypes'
    BY ImagesBounds, SMT DEF ClearCache, WorldTypes, containerd, MetaOrNone
  <2>3. Collect => WorldTypes'
    BY DEF Collect, WorldTypes
  <2>4. ASSUME NEW n \in Names, Push(n) PROVE WorldTypes'
    BY <2>4, ImagesBounds, SMT DEF Push, WorldTypes, Setting, containerd
  <2> QED
    BY <1>11, <2>1, <2>2, <2>3, <2>4
<1>12. ASSUME NEW n \in Names, ForeignTag(n) PROVE WorldTypes' /\ CallTypes'
  <2>1. CallTypes'
    BY <1>12, ImagesBounds, SMT DEF ForeignTag, Seen, results, CallTypes, WorldTypes, Setting
  <2>2. WorldTypes'
    BY <1>12, ImagesBounds, ReachIsBlobs, SMT
       DEF ForeignTag, WorldTypes, Setting, DigestOrNone
  <2> QED
    BY <2>1, <2>2
<1> QED
  BY <1>1, <1>2, <1>3, <1>4, <1>5, <1>6, <1>7, <1>8, <1>9, <1>10, <1>11, <1>12
     DEF ImagesNext, Step

(* TypeCorrect: every reachable state is well typed. *)
THEOREM ImagesTypeCorrect == ImagesSpec => []ImagesTypeOK
  BY ImagesInitTypeOK, ImagesNextTypeOK, PTL DEF ImagesSpec

------------------------------------------------------------------------------
(* OneImage *)

(* The config a digest stands for, from the manifest or the index on. *)
LEMMA ConfigFacts ==
    ASSUME NEW d \in Digests
    PROVE  /\ Is(d, "manifest") => ManifestOf(d) = d
           /\ Is(d, "index") /\ SubManifest(d) # None => ManifestOf(d) = SubManifest(d)
           /\ ManifestOf(d) \in Digests
           /\ Is(ManifestOf(d), "manifest") /\ Is(Content[ManifestOf(d)].config, "config")
                 /\ Content[Content[ManifestOf(d)].config].diff_ids # <<>>
              => ConfigOf(d) = Content[ManifestOf(d)].config /\ ConfigOf(d) # None
<1>1. ManifestOf(d) \in Digests
  BY SubManifestIsDigest DEF ManifestOf
<1>2. Is(ManifestOf(d), "manifest") => Content[ManifestOf(d)].config # None
  BY <1>1, ConfigIsDigest, ContentAssumption
<1> QED
  BY <1>1, <1>2 DEF ManifestOf, ConfigOf, Is

(* The invariant holds of the initial state. *)
LEMMA InitImageInv == ImagesInit => ImageInv
  BY SMT DEF ImagesInit, ImageInv, CacheInv, CallInv, TagInv, MadeInv

(* A call that does nothing keeps its part of the invariant, if its name's   *)
(* new tag is seen.                                                          *)
LEMMA OthersKeep ==
    ASSUME NEW a \in Callers, CallInv(a), TagInv(a), MadeInv(a),
           pc'[a] = pc[a], name'[a] = name[a], digest'[a] = digest[a], reading'[a] = reading[a],
           meta'[a] = meta[a], made'[a] = made[a], tags[a] \subseteq tags'[a],
           pc[a] # "idle" /\ store'[name[a]] # None => store'[name[a]] \in tags'[a]
    PROVE  CallInv(a)' /\ TagInv(a)' /\ MadeInv(a)'
  BY DEF CallInv, TagInv, MadeInv

(* A call that returns no container leaves nothing to hold of it. *)
LEMMA ReturnKeeps ==
    ASSUME CallTypes, NEW c \in Callers, NEW r, ReturnWith(c, r, None)
    PROVE  CallInv(c)' /\ TagInv(c)' /\ MadeInv(c)'
  BY DEF CallTypes, ReturnWith, CallInv, TagInv, MadeInv

(* A call that has the metadata of its digest keeps its part. *)
LEMMA WithMetadataKeeps ==
    ASSUME CallTypes, NEW c \in Callers, CallInv(c), TagInv(c), MadeInv(c), UNCHANGED store,
           pc[c] # "idle", NEW d \in tags[c], ConfigOf(d) # None,
           WithMetadata(c, d, Metadata(ConfigOf(d)))
    PROVE  CallInv(c)' /\ TagInv(c)' /\ MadeInv(c)'
<1>1. CASE Return(c, "ok")
  BY <1>1, ReturnKeeps DEF Return
<1>2. CASE ~Return(c, "ok")
  BY <1>2
     DEF CallTypes, WithMetadata, Goto, results, CallInv, TagInv, MadeInv
<1> QED
  BY <1>1, <1>2

(* Every step keeps the invariant. *)
LEMMA NextImageInv == ImagesTypeOK /\ ImagesTypeOK' /\ ImageInv /\ [ImagesNext]_imagesVars => ImageInv'
<1> SUFFICES ASSUME WorldTypes, CallTypes, CacheInv, [ImagesNext]_imagesVars,
                    \A c \in Callers : CallInv(c) /\ TagInv(c) /\ MadeInv(c)
             PROVE  CacheInv' /\ \A c \in Callers : CallInv(c)' /\ TagInv(c)' /\ MadeInv(c)'
  BY DEF ImagesTypeOK, ImageInv
<1> DEFINE Kept(c) == CallInv(c)' /\ TagInv(c)' /\ MadeInv(c)'
<1> USE DEF At
<1>a. ASSUME NEW c \in Callers, UNCHANGED store,
             \A a \in Callers \ {c} :
                /\ pc'[a] = pc[a] /\ name'[a] = name[a] /\ digest'[a] = digest[a]
                /\ reading'[a] = reading[a] /\ meta'[a] = meta[a] /\ made'[a] = made[a]
                /\ tags'[a] = tags[a],
             Kept(c)
      PROVE  \A a \in Callers : Kept(a)
  <2> SUFFICES ASSUME NEW a \in Callers \ {c} PROVE Kept(a)
    BY <1>a
  <2>1. pc[a] # "idle" /\ store'[name[a]] # None => store'[name[a]] \in tags'[a]
    BY <1>a DEF TagInv
  <2> QED
    BY <1>a, <2>1, OthersKeep
<1>r. ASSUME NEW c \in Callers, NEW r, Return(c, r), UNCHANGED store
      PROVE  \A a \in Callers : Kept(a)
  <2>1. Kept(c)
    BY <1>r, ReturnKeeps DEF Return
  <2> QED
    BY <1>r, <2>1, <1>a DEF Return, ReturnWith, CallTypes
<1>w. UNCHANGED cache => CacheInv'
  BY DEF CacheInv
<1>m. ASSUME NEW c \in Callers, NEW d \in tags[c], ConfigOf(d) # None, pc[c] # "idle",
             WithMetadata(c, d, Metadata(ConfigOf(d))), UNCHANGED store
      PROVE  \A a \in Callers : Kept(a)
  <2>1. Kept(c)
    BY <1>m, WithMetadataKeeps
  <2>2. CASE Return(c, "ok")
    BY <1>m, <2>2, <1>r
  <2>3. CASE ~Return(c, "ok")
    BY <1>m, <2>1, <2>3, <1>a DEF WithMetadata, Goto, results, CallTypes
  <2> QED
    BY <2>2, <2>3
<1>1. CASE UNCHANGED imagesVars
  BY <1>1, <1>w DEF imagesVars, world, containerd, locals, results, CallInv, TagInv, MadeInv
<1>2. ASSUME NEW c \in Callers, NEW o \in {"pull", "create", "clone", "healthcheck"},
             Begin(c, o)
      PROVE  CacheInv' /\ \A a \in Callers : Kept(a)
  <2>1. Kept(c)
    <3>1. pc'[c] \in {"exists", "get_image"} /\ made'[c] = None
      BY <1>2 DEF Begin, CallTypes
    <3>2. PICK n \in Names : name'[c] = n /\ tags'[c] = {store[n]} \ {None}
      BY <1>2 DEF Begin, CallTypes
    <3>3. store' = store
      BY <1>2 DEF Begin, containerd
    <3>4. CallInv(c)'
      BY <3>1 DEF CallInv
    <3>5. TagInv(c)'
      BY <3>2, <3>3 DEF TagInv
    <3>6. MadeInv(c)'
      BY <3>1 DEF MadeInv
    <3> QED
      BY <3>4, <3>5, <3>6
  <2> QED
    BY <1>2, <2>1, <1>a, <1>w, ZenonT(30) DEF Begin, CallTypes, containerd
<1>3. ASSUME NEW c \in Callers, ImageExists(c) \/ Prepare(c)
      PROVE  CacheInv' /\ \A a \in Callers : Kept(a)
  <2>1. CASE \E r \in {"ok", "err"} : Return(c, r)
    BY <1>3, <2>1, <1>r, <1>w DEF ImageExists, Prepare, world, containerd
  <2>2. CASE ~ \E r \in {"ok", "err"} : Return(c, r)
    <3>1. UNCHANGED <<world, locals, results>>
      BY <1>3, <2>2 DEF ImageExists, Prepare, Goto
    <3>2. /\ pc' = [pc EXCEPT ![c] = IF pc[c] = "exists" THEN "transfer" ELSE "commit"]
          /\ pc[c] \in {"exists", "prepare"}
      BY <1>3, <2>2 DEF ImageExists, Prepare, Goto
    <3>3. Kept(c)
      BY <3>1, <3>2
         DEF world, containerd, locals, results, CallTypes, CallInv, TagInv, MadeInv
    <3> QED
      BY <3>1, <3>2, <3>3, <1>a, <1>w DEF world, containerd, locals, results, CallTypes
  <2> QED
    BY <2>1, <2>2
<1>4. ASSUME NEW c \in Callers, Transfer(c)
      PROVE  CacheInv' /\ \A a \in Callers : Kept(a)
  <2>1. CASE Return(c, "err") /\ UNCHANGED containerd
    BY <1>4, <2>1, <1>r, <1>w DEF Transfer, containerd
  <2>2. CASE ~(Return(c, "err") /\ UNCHANGED containerd)
    <3> DEFINE d == registry[name[c]]
    <3>1. /\ ReturnWith(c, "ok", None) /\ store' = [store EXCEPT ![name[c]] = d]
          /\ tags' = [Seen(name[c], d) EXCEPT ![c] = {}] /\ UNCHANGED cache
          /\ name[c] \in Names /\ d # None
      <4>1. /\ ConfigOf(d) # None
            /\ ReturnWith(c, "ok", None) /\ store' = [store EXCEPT ![name[c]] = d]
            /\ tags' = [Seen(name[c], d) EXCEPT ![c] = {}] /\ UNCHANGED cache
        BY <1>4, <2>2 DEF Transfer
      <4>2. pc[c] = "transfer"
        BY <1>4 DEF Transfer, At
      <4> QED
        BY <4>1, <4>2, ContentAssumption, SMT DEF CallTypes, WorldTypes
    <3>2. Kept(c)
      BY <3>1, ReturnKeeps
    <3>3. ASSUME NEW a \in Callers \ {c} PROVE Kept(a)
      <4>1. tags'[a] = Seen(name[c], d)[a]
        BY <3>1, <3>3 DEF Seen
      <4>2. /\ tags[a] \subseteq tags'[a]
            /\ pc[a] # "idle" /\ name[a] = name[c] => d \in tags'[a]
        BY <3>1, <4>1 DEF Seen
      <4>3. pc[a] # "idle" /\ store'[name[a]] # None => store'[name[a]] \in tags'[a]
        BY <3>1, <4>2 DEF TagInv, CallTypes, WorldTypes
      <4> HIDE DEF d
      <4>4. /\ pc'[a] = pc[a] /\ name'[a] = name[a] /\ digest'[a] = digest[a]
            /\ reading'[a] = reading[a] /\ meta'[a] = meta[a] /\ made'[a] = made[a]
        BY <3>1 DEF ReturnWith, CallTypes
      <4> QED
        BY <4>2, <4>3, <4>4, OthersKeep
    <3> QED
      BY <3>1, <3>2, <3>3, <1>w, ZenonT(30)
  <2> QED
    BY <2>1, <2>2
<1>5. ASSUME NEW c \in Callers, GetImage(c)
      PROVE  CacheInv' /\ \A a \in Callers : Kept(a)
  <2> DEFINE d == store[name[c]]
  <2>1. pc[c] = "get_image" /\ UNCHANGED world /\ d \in DigestOrNone /\ TagInv(c)
    BY <1>5 DEF GetImage, CallTypes, WorldTypes
  <2>2. CASE Return(c, "not_found")
    BY <2>1, <2>2, <1>r, <1>w DEF world, containerd
  <2>3. CASE d # None /\ cache[d] # None /\ WithMetadata(c, d, cache[d])
    <3>1. d \in tags[c] /\ ConfigOf(d) # None /\ cache[d] = Metadata(ConfigOf(d))
      BY <2>1, <2>3 DEF TagInv, CacheInv, DigestOrNone
    <3> QED
      BY <2>1, <2>3, <3>1, <1>m, <1>w DEF world, containerd
  <2>4. CASE d # None /\ digest' = [digest EXCEPT ![c] = d] /\ Reads(c, "read_manifest", d)
    <3>1. Kept(c)
      BY <2>1, <2>4
         DEF world, containerd, Reads, Goto, results, CallTypes, CallInv, TagInv, MadeInv
    <3> QED
      BY <2>1, <2>4, <3>1, <1>a, <1>w
         DEF world, containerd, Reads, Goto, results, CallTypes
  <2> QED
    BY <1>5, <2>2, <2>3, <2>4 DEF GetImage
<1>6. ASSUME NEW c \in Callers, ReadManifest(c) \/ ReadSub(c)
      PROVE  CacheInv' /\ \A a \in Callers : Kept(a)
  <2>1. UNCHANGED world /\ pc[c] \in {"read_manifest", "read_sub"} /\ digest[c] \in Digests
    BY <1>6 DEF ReadManifest, ReadSub, CallTypes
  <2>2. CASE Return(c, "err")
    BY <2>1, <2>2, <1>r, <1>w DEF world, containerd
  <2>3. CASE ~Return(c, "err")
    <3> DEFINE d == digest[c]
    <3>1. PICK l \in {"read_sub", "read_config"}, b \in Digests :
                /\ Reads(c, l, b) /\ UNCHANGED digest
                /\ l = "read_sub" => /\ Is(d, "index") /\ SubManifest(d) # None
                                     /\ b = SubManifest(d)
                /\ l = "read_config" => /\ Is(ManifestOf(d), "manifest")
                                        /\ b = Content[ManifestOf(d)].config
      <4>1. CASE ReadManifest(c)
        <5>1. reading[c] = d
          BY <4>1 DEF ReadManifest, CallInv
        <5> QED
          BY <2>1, <2>3, <4>1, <5>1, ConfigFacts, ConfigIsDigest, SubManifestIsDigest
             DEF ReadManifest, HasBlob
      <4>2. CASE ReadSub(c)
        <5>1. Is(d, "index") /\ SubManifest(d) # None /\ reading[c] = SubManifest(d)
          BY <4>2 DEF ReadSub, CallInv
        <5> QED
          BY <2>1, <2>3, <4>2, <5>1, ConfigFacts, ConfigIsDigest, SubManifestIsDigest
             DEF ReadSub, HasBlob
      <4> QED
        BY <1>6, <4>1, <4>2
    <3>2. Kept(c)
      BY <2>1, <3>1
         DEF world, containerd, Reads, Goto, results, CallTypes, CallInv, TagInv, MadeInv
    <3> QED
      BY <2>1, <3>1, <3>2, <1>a, <1>w
         DEF world, containerd, Reads, Goto, results, CallTypes
  <2> QED
    BY <2>2, <2>3
<1>7. ASSUME NEW c \in Callers, ReadConfig(c)
      PROVE  CacheInv' /\ \A a \in Callers : Kept(a)
  <2> DEFINE d == digest[c]
             good == HasBlob(reading[c], "config") /\ Content[reading[c]].diff_ids # <<>>
  <2>1. /\ UNCHANGED store /\ pc[c] = "read_config" /\ d \in Digests /\ d \in tags[c]
        /\ Is(ManifestOf(d), "manifest") /\ reading[c] = Content[ManifestOf(d)].config
    BY <1>7 DEF ReadConfig, containerd, CallTypes, CallInv
  <2>2. CASE good
    <3>1. ConfigOf(d) = reading[c] /\ ConfigOf(d) # None
      BY <2>1, <2>2, ConfigFacts DEF HasBlob
    <3>2. CacheInv'
      BY <1>7, <2>1, <2>2, <3>1 DEF ReadConfig, CacheInv, WorldTypes
    <3> QED
      BY <1>7, <2>1, <2>2, <3>1, <3>2, <1>m DEF ReadConfig
  <2>3. CASE ~good
    BY <1>7, <2>1, <2>3, <1>r, <1>w DEF ReadConfig
  <2> QED
    BY <2>2, <2>3
<1>9. ASSUME NEW c \in Callers, Commit(c)
      PROVE  CacheInv' /\ \A a \in Callers : Kept(a)
  <2> DEFINE d == digest[c]
  <2>1. d \in tags[c] /\ ConfigOf(d) # None /\ meta[c] = Metadata(ConfigOf(d))
    BY <1>9 DEF Commit, CallInv
  <2>2. CallInv(c)' /\ TagInv(c)'
    <3>1. pc'[c] = "idle"
      BY <1>9, ZenonT(30) DEF Commit, ReturnWith, CallTypes
    <3> QED
      BY <3>1 DEF CallInv, TagInv
  <2>3. meta[c].config = ConfigOf(d) /\ meta[c].chain_id = ChainOf(d)
    BY <2>1, SMT DEF Metadata, ChainOf
  <2>4. made'[c] = [own |-> op[c] = "create", parent |-> meta[c].chain_id,
                    spec |-> BuildOciSpec(Content[meta[c].config], opts[c]),
                    opts |-> opts[c], tags |-> tags[c]]
    BY <1>9 DEF Commit, ReturnWith, CallTypes
  <2>5. MadeInv(c)'
    <3>1. /\ made'[c].tags = tags[c] /\ made'[c].opts = opts[c]
          /\ made'[c].spec = BuildOciSpec(Content[meta[c].config], opts[c])
          /\ made'[c].parent = meta[c].chain_id
      BY <2>4, SMT
    <3>2. /\ d \in made'[c].tags /\ ConfigOf(d) # None
          /\ made'[c].spec = BuildOciSpec(Content[ConfigOf(d)], made'[c].opts)
          /\ made'[c].parent = ChainOf(d)
      BY <2>1, <2>3, <3>1
    <3> HIDE DEF d
    <3> QED
      BY <3>2, Zenon DEF MadeInv
  <2> QED
    BY <1>9, <2>2, <2>5, <1>a, <1>w DEF Commit, ReturnWith, CallTypes, world, containerd
<1>10. ASSUME NEW c \in Callers, Fails(c)
       PROVE  CacheInv' /\ \A a \in Callers : Kept(a)
  BY <1>10, <1>r, <1>w DEF Fails, world, containerd
<1>11. CASE ClearCache \/ Collect \/ \E n \in Names : Push(n)
  <2>1. UNCHANGED <<store, calling>>
    BY <1>11 DEF ClearCache, Collect, Push, containerd
  <2>2. \A a \in Callers : Kept(a)
    BY <2>1 DEF calling, locals, results, CallInv, TagInv, MadeInv
  <2>3. CacheInv'
    BY <1>11, <1>w DEF ClearCache, Collect, Push, CacheInv
  <2> QED
    BY <2>2, <2>3
<1>12. ASSUME NEW n \in Names, ForeignTag(n)
       PROVE  CacheInv' /\ \A a \in Callers : Kept(a)
  <2>1. PICK d \in DigestOrNone : store' = [store EXCEPT ![n] = d] /\ tags' = Seen(n, d)
    BY <1>12, ImagesBounds DEF ForeignTag, DigestOrNone, WorldTypes, Setting
  <2>2. ASSUME NEW a \in Callers PROVE Kept(a)
    <3>1. /\ tags[a] \subseteq tags'[a]
          /\ pc[a] # "idle" /\ name[a] = n /\ d # None => d \in tags'[a]
      BY <2>1 DEF Seen
    <3>2. pc[a] # "idle" /\ store'[name[a]] # None => store'[name[a]] \in tags'[a]
      BY <2>1, <3>1 DEF TagInv, CallTypes, WorldTypes
    <3> QED
      BY <1>12, <3>1, <3>2, OthersKeep DEF ForeignTag, results
  <2> QED
    BY <1>12, <2>2, <1>w DEF ForeignTag
<1> HIDE DEF Kept
<1> QED
  <2>1. CacheInv' /\ \A a \in Callers : Kept(a)
    BY <1>1, <1>2, <1>3, <1>4, <1>5, <1>6, <1>7, <1>9, <1>10, <1>11, <1>12
       DEF ImagesNext, Step, Kept
  <2> QED
    BY <2>1 DEF Kept

(* ImagesCorrect: a container is made of one image, one its name stood for   *)
(* during the call, for any number of callers, images and names.             *)
THEOREM ImagesCorrect == ImagesSpec => []OneImage
<1>1. ImageInv => OneImage
  BY DEF ImageInv, OneImage, MadeInv
<1> QED
  BY ImagesInitTypeOK, ImagesNextTypeOK, InitImageInv, NextImageInv, <1>1, PTL DEF ImagesSpec

------------------------------------------------------------------------------
(* What is pulled can be created *)

(* An image that is ready stays so while nothing is collected. *)
LEMMA ReadyStays ==
    ASSUME NEW d, Ready(d), blobs \subseteq blobs', unpacked \subseteq unpacked'
    PROVE  Ready(d)'
  BY DEF Ready

(* Every read of a call on a ready image finds what it reads. *)
LEMMA ReadyReads ==
    ASSUME NEW c \in Callers, ImagesTypeOK, CallInv(c), Ready(digest[c]),
           pc[c] \in {"read_manifest", "read_sub", "read_config"}
    PROVE  /\ pc[c] = "read_manifest" => \/ HasBlob(reading[c], "manifest")
                                         \/ HasBlob(reading[c], "index") /\ SubManifest(reading[c]) # None
           /\ pc[c] = "read_sub" => HasBlob(reading[c], "manifest")
           /\ pc[c] = "read_config" =>
                 HasBlob(reading[c], "config") /\ Content[reading[c]].diff_ids # <<>>
<1> DEFINE d == digest[c]
<1>1. d \in Digests
  BY DEF ImagesTypeOK, CallTypes
<1>2. /\ ConfigOf(d) # None
      /\ d \in blobs /\ ManifestOf(d) \in blobs /\ ConfigOf(d) \in blobs
  BY DEF Ready, Reach
<1>3. /\ Is(ManifestOf(d), "manifest") /\ ConfigOf(d) = Content[ManifestOf(d)].config
      /\ Is(ConfigOf(d), "config") /\ Content[ConfigOf(d)].diff_ids # <<>>
  BY <1>2 DEF ConfigOf
<1>4. ManifestOf(d) = IF Is(d, "index") /\ SubManifest(d) # None THEN SubManifest(d) ELSE d
  BY DEF ManifestOf
<1>5. CASE pc[c] = "read_manifest"
  BY <1>2, <1>3, <1>4, <1>5 DEF CallInv, HasBlob
<1>6. CASE pc[c] = "read_sub"
  BY <1>2, <1>3, <1>4, <1>6 DEF CallInv, HasBlob
<1>7. CASE pc[c] = "read_config"
  BY <1>2, <1>3, <1>7 DEF CallInv, HasBlob
<1> QED
  BY <1>5, <1>6, <1>7

(* The layers a create prepares on are those of its image. *)
LEMMA ReadyPrepares ==
    ASSUME NEW c \in Callers, CallInv(c), Ready(digest[c]), pc[c] = "prepare"
    PROVE  meta[c].chain_id \in unpacked
<1>1. meta[c] = Metadata(ConfigOf(digest[c]))
  BY DEF CallInv
<1> QED
  BY <1>1 DEF Ready, ChainOf

(* The invariant holds of the initial state. *)
LEMMA InitPullInv == ImagesInit => PullInv
  BY SMT DEF ImagesInit, PullInv, ReadyInv

(* A call that returns, and does not fail a create, leaves nothing to hold. *)
LEMMA ReturnReady ==
    ASSUME CallTypes, NEW c \in Callers, NEW r, NEW m, ReturnWith(c, r, m),
           r # "err" \/ op[c] # "create"
    PROVE  ReadyInv(c)'
  BY DEF CallTypes, ReturnWith, ReadyInv

(* What the other callers hold to stays. *)
LEMMA OthersReady ==
    ASSUME NEW a \in Callers, ReadyInv(a), pc'[a] = pc[a], op'[a] = op[a],
           digest'[a] = digest[a], ret'[a] = ret[a],
           blobs \subseteq blobs', unpacked \subseteq unpacked'
    PROVE  ReadyInv(a)'
  BY ReadyStays DEF ReadyInv

(* Every step keeps the invariant. *)
LEMMA NextPullInv == ImagesTypeOK /\ ImageInv /\ PullInv /\ [ImagesNext]_imagesVars => PullInv'
<1> SUFFICES ASSUME ImagesTypeOK, WorldTypes, CallTypes, ImageInv, PullInv, [ImagesNext]_imagesVars,
                    ~setting'.fails, ~setting'.foreign
             PROVE  /\ \A n \in Names : store'[n] # None => Ready(store[n])'
                    /\ \A c \in Callers : ReadyInv(c)'
  BY DEF ImagesTypeOK, PullInv
<1> USE DEF At
<1>0. setting' = setting
  BY DEF ImagesNext, Step, imagesVars, world, Begin, Fails, ImageExists, Transfer, GetImage, ReadManifest,
     ReadSub, ReadConfig, Prepare, Commit, Push, ForeignTag, ClearCache, Collect
<1>i. /\ \A n \in Names : store[n] # None => Ready(store[n])
      /\ \A c \in Callers : ReadyInv(c) /\ CallInv(c)
      /\ CacheInv
  BY <1>0 DEF PullInv, ImageInv
<1> DEFINE Stored == \A n \in Names : store'[n] # None => Ready(store[n])'
           AllReady == \A c \in Callers : ReadyInv(c)'
           Alone(c) == \A a \in Callers \ {c} :
                          /\ pc'[a] = pc[a] /\ op'[a] = op[a]
                          /\ digest'[a] = digest[a] /\ ret'[a] = ret[a]
<1>s. ASSUME UNCHANGED store, blobs \subseteq blobs', unpacked \subseteq unpacked'
      PROVE  Stored
  BY <1>s, <1>i, ReadyStays
<1>a. ASSUME NEW c \in Callers, Alone(c), ReadyInv(c)',
             blobs \subseteq blobs', unpacked \subseteq unpacked'
      PROVE  AllReady
  BY <1>a, <1>i, OthersReady
<1>r. ASSUME NEW c \in Callers, NEW r, NEW m, ReturnWith(c, r, m),
             r # "err" \/ op[c] # "create",
             blobs \subseteq blobs', unpacked \subseteq unpacked'
      PROVE  AllReady
  <2>1. Alone(c)
    BY <1>r DEF ReturnWith, CallTypes
  <2> HIDE DEF Alone, AllReady
  <2> QED
    BY <1>r, <2>1, <1>a, ReturnReady
<1>m. ASSUME NEW c \in Callers, NEW d, NEW m, WithMetadata(c, d, m), Ready(d),
             UNCHANGED <<blobs, unpacked>>
      PROVE  AllReady
  <2>1. CASE Return(c, "ok")
    BY <1>m, <2>1, <1>r DEF Return
  <2>2. CASE ~Return(c, "ok")
    <3>1. /\ op' = op /\ ret' = ret /\ digest' = [digest EXCEPT ![c] = d]
          /\ pc' = [pc EXCEPT ![c] = IF op[c] = "create" THEN "prepare" ELSE "commit"]
      BY <1>m, <2>2 DEF WithMetadata, Goto, results
    <3>2. Ready(d)'
      BY <1>m, ReadyStays
    <3>3. ReadyInv(c)'
      BY <1>i, <3>1, <3>2 DEF ReadyInv, CallTypes
    <3> QED
      BY <1>m, <3>1, <3>3, <1>a DEF CallTypes
  <2> QED
    BY <2>1, <2>2
<1> HIDE DEF Stored
<1>1. ASSUME UNCHANGED imagesVars PROVE Stored /\ AllReady
  BY <1>1, <1>i, <1>s, OthersReady DEF imagesVars, world, containerd, locals, results
<1>2. ASSUME NEW c \in Callers, NEW o \in {"pull", "create", "clone", "healthcheck"},
             Begin(c, o)
      PROVE  Stored /\ AllReady
  <2>1. ReadyInv(c)' /\ Alone(c)
    BY <1>2 DEF Begin, CallTypes, ReadyInv
  <2> QED
    BY <1>2, <2>1, <1>a, <1>s DEF Begin, containerd
<1>3. ASSUME NEW c \in Callers, ImageExists(c) PROVE Stored /\ AllReady
  <2>1. CASE Return(c, "ok")
    BY <1>3, <2>1, <1>r, <1>s DEF ImageExists, Return, world, containerd
  <2>2. CASE Goto(c, "transfer") /\ UNCHANGED locals
    <3>1. ReadyInv(c)' /\ Alone(c)
      BY <1>3, <2>2, <1>i DEF ImageExists, Goto, locals, results, CallTypes, ReadyInv
    <3> QED
      BY <1>3, <3>1, <1>a, <1>s DEF ImageExists, world, containerd
  <2> QED
    BY <1>3, <2>1, <2>2 DEF ImageExists
<1>4. ASSUME NEW c \in Callers, Transfer(c) PROVE Stored /\ AllReady
  <2> DEFINE d == registry[name[c]]
  <2>1. op[c] = "pull" /\ name[c] \in Names
    BY <1>4, <1>i DEF Transfer, ReadyInv, CallTypes
  <2>2. CASE Return(c, "err") /\ UNCHANGED containerd
    BY <2>1, <2>2, <1>r, <1>s DEF Return, containerd
  <2>3. CASE /\ ConfigOf(d) # None
             /\ blobs' = blobs \cup Reach(d) /\ unpacked' = unpacked \cup {ChainOf(d)}
             /\ store' = [store EXCEPT ![name[c]] = d]
             /\ ReturnWith(c, "ok", None)
    <3>1. blobs \subseteq blobs' /\ unpacked \subseteq unpacked'
      BY <2>3
    <3>2. AllReady
      BY <2>3, <3>1, <1>r
    <3>3. Stored
      <4> SUFFICES ASSUME NEW n \in Names, NEW e, store'[n] = e, e # None
                   PROVE  ConfigOf(e) # None /\ Reach(e) \subseteq blobs' /\ ChainOf(e) \in unpacked'
        BY DEF Stored, Ready
      <4>1. CASE n = name[c]
        <5>1. e = d
          BY <2>1, <2>3, <4>1 DEF WorldTypes
        <5> QED
          BY <2>3, <5>1
      <4>2. CASE n # name[c]
        <5>1. store[n] = e
          BY <2>1, <2>3, <4>2 DEF WorldTypes
        <5> QED
          BY <1>i, <3>1, <5>1 DEF Ready
      <4> QED
        BY <4>1, <4>2
    <3> QED
      BY <3>2, <3>3
  <2> QED
    BY <1>4, <2>2, <2>3 DEF Transfer
<1>5. ASSUME NEW c \in Callers, GetImage(c) PROVE Stored /\ AllReady
  <2> DEFINE d == store[name[c]]
  <2>1. /\ UNCHANGED <<store, blobs, unpacked>> /\ Stored
        /\ d # None => Ready(d)
    BY <1>5, <1>i, <1>s DEF GetImage, world, containerd, CallTypes
  <2>2. CASE Return(c, "not_found")
    BY <2>1, <2>2, <1>r DEF Return
  <2>3. CASE d # None /\ WithMetadata(c, d, cache[d])
    BY <2>1, <2>3, <1>m
  <2>4. CASE d # None /\ digest' = [digest EXCEPT ![c] = d] /\ Reads(c, "read_manifest", d)
    <3>1. /\ op' = op /\ ret' = ret /\ pc' = [pc EXCEPT ![c] = "read_manifest"]
      BY <2>4 DEF Reads, Goto, results
    <3>2. digest'[c] = d /\ pc'[c] = "read_manifest"
      BY <2>4, <3>1 DEF CallTypes
    <3>3. ReadyInv(c)'
      <4>1. ReadyInv(c) /\ Ready(d) /\ op'[c] = op[c] /\ ret'[c] = ret[c] /\ pc[c] = "get_image"
        BY <1>5, <1>i, <2>1, <2>4, <3>1 DEF GetImage, At
      <4> QED
        BY <2>1, <3>2, <4>1 DEF ReadyInv, Ready
    <3> QED
      BY <2>1, <2>4, <3>1, <3>3, <1>a DEF CallTypes
  <2> QED
    BY <1>5, <2>2, <2>3, <2>4 DEF GetImage
<1>6. ASSUME NEW c \in Callers, ReadManifest(c) \/ ReadSub(c) PROVE Stored /\ AllReady
  <2>1. /\ UNCHANGED <<store, blobs, unpacked>> /\ Stored
        /\ pc[c] \in {"read_manifest", "read_sub"} /\ Ready(digest[c])
    BY <1>6, <1>i, <1>s DEF ReadManifest, ReadSub, world, containerd, ReadyInv
  <2>2. PICK l \in {"read_sub", "read_config"} : \E b : Reads(c, l, b) /\ UNCHANGED digest
    BY <1>6, <1>i, <2>1, ReadyReads DEF ReadManifest, ReadSub
  <2>3. /\ op' = op /\ ret' = ret /\ digest' = digest /\ pc' = [pc EXCEPT ![c] = l]
    BY <2>2 DEF Reads, Goto, results
  <2>4. ReadyInv(c)'
    BY <1>i, <2>1, <2>3 DEF ReadyInv, Ready, CallTypes
  <2> QED
    BY <2>1, <2>3, <2>4, <1>a DEF CallTypes
<1>7. ASSUME NEW c \in Callers, ReadConfig(c) PROVE Stored /\ AllReady
  <2>1. /\ UNCHANGED <<store, blobs, unpacked>> /\ Stored
        /\ pc[c] = "read_config" /\ Ready(digest[c])
    BY <1>7, <1>i, <1>s DEF ReadConfig, containerd, ReadyInv
  <2>2. HasBlob(reading[c], "config") /\ Content[reading[c]].diff_ids # <<>>
    BY <1>i, <2>1, ReadyReads
  <2>3. WithMetadata(c, digest[c], Metadata(reading[c]))
    BY <1>7, <2>2 DEF ReadConfig
  <2> QED
    BY <2>1, <2>3, <1>m
<1>8. ASSUME NEW c \in Callers, Prepare(c) PROVE Stored /\ AllReady
  <2>1. /\ UNCHANGED <<store, blobs, unpacked>> /\ Stored
        /\ pc[c] = "prepare" /\ Ready(digest[c])
    BY <1>8, <1>i, <1>s DEF Prepare, world, containerd, ReadyInv
  <2>2. /\ op' = op /\ ret' = ret /\ digest' = digest /\ pc' = [pc EXCEPT ![c] = "commit"]
    BY <1>8, <1>i, <2>1, ReadyPrepares DEF Prepare, Goto, locals, results
  <2>3. ReadyInv(c)'
    BY <1>i, <2>1, <2>2 DEF ReadyInv, Ready, CallTypes
  <2> QED
    BY <2>1, <2>2, <2>3, <1>a DEF CallTypes
<1>9. ASSUME NEW c \in Callers, Commit(c) PROVE Stored /\ AllReady
  <2>1. PICK m : ReturnWith(c, "ok", m)
    BY <1>9 DEF Commit
  <2>2. UNCHANGED <<store, blobs, unpacked>>
    BY <1>9 DEF Commit, world, containerd
  <2> QED
    BY <2>1, <2>2, <1>r, <1>s
<1>10. ASSUME NEW n \in Names, Push(n) PROVE Stored /\ AllReady
  BY <1>10, <1>i, <1>s, OthersReady DEF Push, containerd, calling, locals, results
<1>11. ASSUME ClearCache PROVE Stored /\ AllReady
  BY <1>11, <1>i, <1>s, OthersReady DEF ClearCache, containerd, calling, locals, results
<1>12. /\ \A c \in Callers : ~Fails(c)
       /\ \A n \in Names : ~ForeignTag(n)
       /\ ~Collect
  BY <1>0 DEF Fails, ForeignTag, Collect
<1> HIDE DEF AllReady
<1>13. Stored /\ AllReady
  BY <1>1, <1>2, <1>3, <1>4, <1>5, <1>6, <1>7, <1>8, <1>9, <1>10, <1>11, <1>12
     DEF ImagesNext, Step
<1> QED
  BY <1>13 DEF Stored, AllReady

(* PullSafety: with no failing RPC and no other user of the store, a         *)
(* create_container fails only where its name has no image, for any number   *)
(* of pulls and creates under way and any images.                            *)
THEOREM PullSafety == ImagesSpec => []PullMakesCreatable
<1>1. PullInv => PullMakesCreatable
  BY DEF PullInv, ReadyInv, PullMakesCreatable
<1> QED
  BY ImagesInitTypeOK, ImagesNextTypeOK, InitImageInv, NextImageInv, InitPullInv, NextPullInv, <1>1, PTL
     DEF ImagesSpec

------------------------------------------------------------------------------
(* The spec is as asked *)

(* What the loop of build_merged_env holds after each entry. *)
LEMMA LoopExists ==
    ASSUME NEW env, NEW len \in Nat
    PROVE  \E f : f = [i \in 0..len |-> IF i = 0 THEN [k \in {} |-> ""]
                                        ELSE InsertEntry(f[i - 1], env[i])]
<1> DEFINE NoEnv == [k \in {} |-> ""]
           Body(f, n) == [i \in 0..n |-> IF i = 0 THEN NoEnv
                                         ELSE InsertEntry(f[i - 1], env[i])]
           S == {n \in Nat : \E f : f = Body(f, n)}
<1> HIDE DEF NoEnv
<1>1. 0 \in S
  <2> DEFINE f == [i \in 0..0 |-> NoEnv]
  <2>1. f = Body(f, 0)
    BY SMT
  <2> QED
    BY <2>1
<1>2. ASSUME NEW n \in Nat, n \in S PROVE n + 1 \in S
  <2>1. PICK f : f = Body(f, n)
    BY <1>2
  <2> DEFINE g == [i \in 0..n + 1 |-> IF i <= n THEN f[i] ELSE InsertEntry(f[n], env[n + 1])]
  <2>2. \A i \in 0..n : f[i] = IF i = 0 THEN NoEnv ELSE InsertEntry(f[i - 1], env[i])
    BY <2>1
  <2>3. \A i \in 0..n + 1 : g[i] = IF i = 0 THEN NoEnv ELSE InsertEntry(g[i - 1], env[i])
    <3> SUFFICES ASSUME NEW i \in 0..n + 1
                 PROVE  g[i] = IF i = 0 THEN NoEnv ELSE InsertEntry(g[i - 1], env[i])
      OBVIOUS
    <3>1. CASE i <= n
      BY <2>2, <3>1, SMT
    <3>2. CASE i = n + 1
      <4>1. g[i] = InsertEntry(f[n], env[i]) /\ i # 0 /\ g[i - 1] = f[n]
        BY <3>2, SMT
      <4> QED
        BY <4>1
    <3> QED
      BY <3>1, <3>2, SMT
  <2>4. g = Body(g, n + 1)
    BY <2>3
  <2> HIDE DEF g
  <2> QED
    BY <2>4, SMT
<1>3. len \in S
  <2> HIDE DEF S
  <2> QED
    BY <1>1, <1>2, SetInduction
<1> QED
  BY <1>3 DEF NoEnv

(* LoopSteps: the loop over the environment, entry by entry. *)
LEMMA LoopSteps ==
    ASSUME NEW env, Len(env) \in Nat
    PROVE  \E f : /\ f[0] = [k \in {} |-> ""]
                  /\ \A i \in 1..Len(env) : f[i] = InsertEntry(f[i - 1], env[i])
                  /\ ImageEnv(env) = f[Len(env)]
<1> DEFINE Body(f) == [i \in 0..Len(env) |-> IF i = 0 THEN [k \in {} |-> ""]
                                             ELSE InsertEntry(f[i - 1], env[i])]
           after == CHOOSE f : f = Body(f)
<1>1. ImageEnv(env) = after[Len(env)]
  BY DEF ImageEnv
<1>2. after = Body(after)
  <2>1. \E f : f = Body(f)
    BY LoopExists
  <2> HIDE DEF Body
  <2> QED
    BY <2>1
<1>3. after[0] = [k \in {} |-> ""]
  <2> HIDE DEF after
  <2> QED
    BY <1>2, SMT
<1>4. \A i \in 1..Len(env) : after[i] = InsertEntry(after[i - 1], env[i])
  <2> HIDE DEF after
  <2> QED
    BY <1>2, SMT
<1> HIDE DEF after
<1> QED
  BY <1>1, <1>3, <1>4

(* The entry that counts for a variable: the last that defines it. *)
Counts(env, n, k, j) ==
    /\ j \in 1..n /\ env[j].eq /\ env[j].key = k
    /\ \A m \in 1..n : env[m].eq /\ env[m].key = k => m <= j

(* What build_merged_env has of the image after the whole loop: for each     *)
(* variable the image defines, the value of its last entry.                  *)
LEMMA ImageEnvIs ==
    ASSUME NEW env \in Seq([eq : BOOLEAN, key : STRING, value : STRING])
    PROVE  /\ DOMAIN ImageEnv(env) = {env[i].key : i \in {i \in DOMAIN env : env[i].eq}}
           /\ \A k \in DOMAIN ImageEnv(env) : ImageEnv(env)[k] = env[LastWith(env, k)].value
<1> DEFINE len == Len(env)
<1>0. len \in Nat /\ DOMAIN env = 1..len
  BY SMT
<1>1. len \in Nat /\ DOMAIN env = 1..len /\ \A i \in 1..len : env[i].eq \in BOOLEAN
  <2>1. \A i \in DOMAIN env : env[i] \in [eq : BOOLEAN, key : STRING, value : STRING]
    BY ElementIn
  <2> HIDE DEF len
  <2> QED
    BY <1>0, <2>1
<1>2. PICK f : /\ f[0] = [k \in {} |-> ""]
               /\ \A i \in 1..len : f[i] = InsertEntry(f[i - 1], env[i])
               /\ ImageEnv(env) = f[len]
  BY <1>1, LoopSteps
<1> DEFINE Keys(n) == {env[i].key : i \in {i \in 1..n : env[i].eq}}
           Done(n) == /\ DOMAIN f[n] = Keys(n)
                      /\ \A k \in Keys(n) :
                            \E j \in 1..n : Counts(env, n, k, j) /\ f[n][k] = env[j].value
           S == {n \in Nat : n <= len => Done(n)}
<1> HIDE DEF len
<1>3. 0 \in S
  BY <1>2, SMT
<1>4. ASSUME NEW n \in Nat, n \in S PROVE n + 1 \in S
  <2> SUFFICES ASSUME n + 1 <= len PROVE Done(n + 1)
    BY SMT
  <2>1. Done(n) /\ f[n + 1] = InsertEntry(f[n], env[n + 1]) /\ env[n + 1].eq \in BOOLEAN
    <3>1. n + 1 \in 1..len /\ (n + 1) - 1 = n /\ n <= len
      BY <1>1, SMT
    <3>2. f[n + 1] = InsertEntry(f[(n + 1) - 1], env[n + 1])
      BY <1>2, <3>1
    <3> HIDE DEF Done
    <3>3. Done(n)
      BY <1>4, <3>1
    <3> QED
      BY <1>1, <3>1, <3>2, <3>3
  <2>2. CASE ~env[n + 1].eq
    <3>1. Keys(n + 1) = Keys(n) /\ f[n + 1] = f[n]
      BY <2>1, <2>2, SMT DEF InsertEntry
    <3>2. \A k, j : Counts(env, n, k, j) => Counts(env, n + 1, k, j)
      BY <2>2, SMT DEF Counts
    <3>3. ASSUME NEW k \in Keys(n)
          PROVE  \E j \in 1..n + 1 : Counts(env, n + 1, k, j) /\ f[n + 1][k] = env[j].value
      <4>1. PICK j \in 1..n : Counts(env, n, k, j) /\ f[n][k] = env[j].value
        BY <2>1, <3>3
      <4> QED
        BY <3>1, <3>2, <4>1, SMT
    <3> HIDE DEF Keys
    <3> QED
      BY <2>1, <3>1, <3>3
  <2>3. CASE env[n + 1].eq
    <3> DEFINE e == env[n + 1]
    <3>1. f[n + 1] = [j \in DOMAIN f[n] \cup {e.key} |-> IF j = e.key THEN e.value ELSE f[n][j]]
      BY <2>1, <2>3 DEF InsertEntry, Insert
    <3>2. Keys(n + 1) = Keys(n) \cup {e.key}
      BY <2>3, SMT
    <3>3. DOMAIN f[n + 1] = Keys(n + 1)
      BY <2>1, <3>1, <3>2
    <3>4. ASSUME NEW k \in Keys(n + 1)
          PROVE  \E j \in 1..n + 1 : Counts(env, n + 1, k, j) /\ f[n + 1][k] = env[j].value
      <4>1. CASE k = e.key
        <5>1. Counts(env, n + 1, k, n + 1)
          BY <2>3, <4>1, SMT DEF Counts
        <5>2. f[n + 1][k] = env[n + 1].value
          BY <3>1, <4>1
        <5> QED
          BY <5>1, <5>2, SMT
      <4>2. CASE k # e.key
        <5>1. k \in Keys(n)
          BY <3>2, <3>4, <4>2
        <5>2. PICK j \in 1..n : Counts(env, n, k, j) /\ f[n][k] = env[j].value
          BY <2>1, <5>1
        <5>3. Counts(env, n + 1, k, j)
          BY <4>2, <5>2, SMT DEF Counts
        <5>4. f[n + 1][k] = f[n][k]
          BY <2>1, <3>1, <4>2, <5>1
        <5> QED
          BY <5>2, <5>3, <5>4, SMT
      <4> QED
        BY <4>1, <4>2
    <3> HIDE DEF e
    <3> QED
      BY <3>3, <3>4
  <2> QED
    BY <2>1, <2>2, <2>3
<1>5. Done(len)
  <2> HIDE DEF Done
  <2>1. \A n \in Nat : n \in S
    <3> HIDE DEF S
    <3> QED
      BY <1>3, <1>4, SetInduction
  <2> QED
    BY <1>1, <2>1, SMT
<1>6. ASSUME NEW k \in Keys(len) PROVE f[len][k] = env[LastWith(env, k)].value
  <2>1. PICK j \in 1..len : Counts(env, len, k, j) /\ f[len][k] = env[j].value
    BY <1>5, <1>6
  <2> DEFINE Last(i) == /\ env[i].eq /\ env[i].key = k
                        /\ \A m \in DOMAIN env : env[m].eq /\ env[m].key = k => m <= i
             l == CHOOSE i \in DOMAIN env : Last(i)
  <2>2. j \in DOMAIN env /\ Last(j)
    BY <1>1, <2>1 DEF Counts
  <2>3. LastWith(env, k) = l
    BY DEF LastWith
  <2>4. l \in DOMAIN env /\ Last(l)
    <3> HIDE DEF Last
    <3> QED
      BY <2>2
  <2>5. l = j
    <3> HIDE DEF l
    <3> QED
      BY <1>1, <2>2, <2>4, SMT
  <2> QED
    BY <2>1, <2>3, <2>5
<1>7. Keys(len) = {env[i].key : i \in {i \in DOMAIN env : env[i].eq}}
  BY <1>1
<1> HIDE DEF Keys
<1> QED
  BY <1>2, <1>5, <1>6, <1>7

(* The OCI spec says what the caller and the image ask for, whatever both    *)
(* say.                                                                      *)
LEMMA BuiltAsAsked ==
    ASSUME NEW cfg, NEW o, cfg.env \in Seq([eq : BOOLEAN, key : STRING, value : STRING])
    PROVE  AsAsked(BuildOciSpec(cfg, o), cfg, o)
<1> DEFINE spec == BuildOciSpec(cfg, o)
           imageKeys == {cfg.env[i].key : i \in {i \in DOMAIN cfg.env : cfg.env[i].eq}}
<1>1. /\ spec.env = Extend(ImageEnv(cfg.env), o.env)
      /\ spec.labels = Extend(cfg.labels, o.labels)
      /\ spec.args = BuildArgs(cfg, o)
  BY DEF BuildOciSpec, BuildMergedEnv, BuildLabels
<1>2. /\ DOMAIN ImageEnv(cfg.env) = imageKeys
      /\ \A k \in imageKeys : ImageEnv(cfg.env)[k] = cfg.env[LastWith(cfg.env, k)].value
  BY ImageEnvIs
<1> HIDE DEF spec, imageKeys
<1>3. DOMAIN spec.env = DOMAIN o.env \cup imageKeys
  BY <1>1, <1>2 DEF Extend
<1>4. \A k \in DOMAIN spec.env :
          spec.env[k] = IF k \in DOMAIN o.env THEN o.env[k]
                        ELSE cfg.env[LastWith(cfg.env, k)].value
  BY <1>1, <1>2, <1>3 DEF Extend
<1>5. /\ \A k \in DOMAIN o.labels : spec.labels[k] = o.labels[k]
      /\ \A k \in DOMAIN cfg.labels \ DOMAIN o.labels : spec.labels[k] = cfg.labels[k]
  BY <1>1 DEF Extend
<1>6. spec.args # <<>> \/ o.cmd = <<>>
  BY <1>1, SMT DEF BuildArgs
<1> QED
  BY <1>3, <1>4, <1>5, <1>6 DEF AsAsked, spec, imageKeys

(* SpecSafety: the process of every container gets each variable and label   *)
(* from the caller or else from the image, the image's last entry counting,  *)
(* and something to run, for any environment of any length                   *)
(* (build_merged_env, build_labels, build_args).                             *)
THEOREM SpecSafety == ImagesSpec => []SpecAsAsked
<1>1. ASSUME ImagesTypeOK, OneImage PROVE SpecAsAsked
  <2> SUFFICES ASSUME NEW c \in Callers, made[c] # None
               PROVE  \E d \in made[c].tags :
                         /\ ConfigOf(d) # None
                         /\ AsAsked(made[c].spec, Content[ConfigOf(d)], made[c].opts)
    BY DEF SpecAsAsked
  <2>1. PICK d \in made[c].tags :
              /\ ConfigOf(d) # None
              /\ made[c].spec = BuildOciSpec(Content[ConfigOf(d)], made[c].opts)
    BY <1>1 DEF OneImage
  <2>2. d \in Digests
    BY <1>1, <2>1 DEF ImagesTypeOK, CallTypes
  <2>3. ConfigOf(d) \in Digests /\ Is(ConfigOf(d), "config")
    <3>1. /\ ConfigOf(d) = Content[ManifestOf(d)].config /\ Is(ManifestOf(d), "manifest")
          /\ Is(ConfigOf(d), "config")
      BY <2>1 DEF ConfigOf
    <3> QED
      BY <2>2, <3>1, ConfigFacts, ConfigIsDigest
  <2>4. Content[ConfigOf(d)].env \in Seq([eq : BOOLEAN, key : STRING, value : STRING])
    BY <2>3, ContentAssumption DEF Is
  <2>5. AsAsked(BuildOciSpec(Content[ConfigOf(d)], made[c].opts), Content[ConfigOf(d)],
                made[c].opts)
    BY <2>4, BuiltAsAsked
  <2> QED
    BY <2>1, <2>5
<1> QED
  BY <1>1, ImagesTypeCorrect, ImagesCorrect, PTL
=============================================================================
