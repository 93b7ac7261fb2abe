------------------------------ MODULE LogTailer ------------------------------
(***************************************************************************)
(* The background tailer of one container: it copies the raw stdout and    *)
(* stderr files, line by line, into events.log.                            *)
(*                                                                         *)
(* A raw file is a sequence of pieces, each the output of one write of the *)
(* container's process; a piece ends a line or does not.  events.log is    *)
(* kept per stream as the pieces of its records, one after the other:      *)
(* records are lines, so their bounds are those of the lines.  Rotation of *)
(* events.log moves records without changing them and is in LogFollower.   *)
(*                                                                         *)
(* start_container truncates the raw files, creates the task and spawns    *)
(* the tailer; one caller starts the container, again and again.  The      *)
(* deletion of a container, which removes the files, is in TaskLifecycle.  *)
(***************************************************************************)
EXTENDS Naturals, Sequences, FiniteSets

CONSTANTS
    MaxPieces,  \* bound: pieces the process writes to a stream
    MaxStarts,  \* bound: calls of start_container
    MaxRuns,    \* bound: those that create a task
    MaxWork,    \* bound: pieces written, to both streams, and twice the tasks
                \* created, together
    MaxChunk,   \* MAX_READ_CHUNK, in pieces
    MaxLeft,    \* MAX_LEFTOVER_BYTES, in pieces
    MaxErrors   \* MAX_CONSECUTIVE_ERRORS

ASSUME BoundsAssumption ==
    /\ MaxPieces \in Nat /\ MaxStarts \in Nat /\ MaxRuns \in Nat /\ MaxWork \in Nat
    /\ MaxChunk \in Nat \ {0} /\ MaxLeft \in Nat \ {0}
    /\ MaxErrors \in Nat \ {0}

Streams == {"stdout", "stderr"}
Tailers == 1..MaxRuns

(* The n-th piece a stream got, in which run, and whether it ends a line. *)
Piece == [n : 1..MaxPieces, run : Tailers, nl : BOOLEAN]

VARIABLES
    fails,    \* a file operation of the tailer can fail in this behaviour
    running,  \* the container's process runs
    run,      \* tasks created so far; each spawns a tailer of that number
    starts,   \* calls of start_container begun so far
    start,    \* where the current call is
    written,  \* history: all that was written to each stream
    raw,      \* the raw file of each stream
    events,   \* the records of events.log, per stream
    managed,  \* the tailer in managed_tailers, or 0
    stop,     \* the tailers whose stop signal was sent
    tpc,      \* where each tailer is
    cur,      \* the stream it drains
    final,    \* it is in its final drain
    pos,      \* TailState::pos
    left,     \* TailState::leftover
    want,     \* how much the stat found to read
    batch,    \* the batch it is about to append
    errs      \* consecutive drain errors per stream

tailing == <<cur, final, pos, left, want, batch, errs>>
starter == <<run, starts, start, managed, stop>>
vars == <<fails, running, starter, written, raw, events, tpc, tailing>>

TypeOK ==
    /\ fails \in BOOLEAN
    /\ running \in BOOLEAN
    /\ run \in 0..MaxRuns
    /\ starts \in 0..MaxStarts
    /\ start \in {"idle", "create", "spawn", "await"}
    /\ written \in [Streams -> Seq(Piece)]
    /\ raw \in [Streams -> Seq(Piece)]
    /\ events \in [Streams -> Seq(Piece)]
    /\ managed \in 0..run
    /\ stop \subseteq Tailers
    /\ tpc \in [Tailers -> {"off", "drain", "read", "append", "sleep", "exited"}]
    /\ cur \in [Tailers -> Streams]
    /\ final \in [Tailers -> BOOLEAN]
    /\ pos \in [Tailers -> [Streams -> Nat]]
    /\ left \in [Tailers -> [Streams -> Seq(Piece)]]
    /\ want \in [Tailers -> 0..MaxChunk]
    /\ batch \in [Tailers -> Seq(Piece)]
    /\ errs \in [Tailers -> [Streams -> 0..MaxErrors]]

Empty == [s \in Streams |-> <<>>]
Zero == [s \in Streams |-> 0]

Init ==
    /\ fails \in BOOLEAN
    /\ running = FALSE
    /\ run = 0 /\ starts = 0 /\ start = "idle"
    /\ written = Empty /\ raw = Empty /\ events = Empty
    /\ managed = 0 /\ stop = {}
    /\ tpc = [t \in Tailers |-> "off"]
    /\ cur = [t \in Tailers |-> "stdout"]
    /\ final = [t \in Tailers |-> FALSE]
    /\ pos = [t \in Tailers |-> Zero]
    /\ left = [t \in Tailers |-> Empty]
    /\ want = [t \in Tailers |-> 0]
    /\ batch = [t \in Tailers |-> <<>>]
    /\ errs = [t \in Tailers |-> Zero]

------------------------------------------------------------------------------
(* The container's process, and start_container *)

Work == Len(written["stdout"]) + Len(written["stderr"]) + 2 * run

Write(s) ==
    /\ running
    /\ Len(written[s]) < MaxPieces
    /\ Work + 1 <= MaxWork
    /\ \E nl \in BOOLEAN :
          LET p == [n |-> Len(written[s]) + 1, run |-> run, nl |-> nl] IN
          /\ written' = [written EXCEPT ![s] = Append(written[s], p)]
          /\ raw' = [raw EXCEPT ![s] = Append(raw[s], p)]
    /\ UNCHANGED <<fails, running, starter, events, tpc, tailing>>

(* The process ends and its task is deleted. *)
Exit ==
    /\ running
    /\ running' = FALSE
    /\ UNCHANGED <<fails, starter, written, raw, events, tpc, tailing>>

(* prepare_log_files: the raw files are truncated, whatever runs. *)
PrepareLogs ==
    /\ start = "idle"
    /\ starts < MaxStarts
    /\ starts' = starts + 1
    /\ raw' = Empty
    /\ start' = "create"
    /\ UNCHANGED <<fails, running, run, managed, stop, written, events, tpc, tailing>>

(* tasks.create and tasks.start; an error, TaskAlreadyExists for one, ends  *)
(* the call.                                                                *)
CreateTask ==
    /\ start = "create"
    /\ \/ /\ ~running
          /\ run < MaxRuns
          /\ Work + 2 <= MaxWork
          /\ running' = TRUE
          /\ run' = run + 1
          /\ start' = "spawn"
       \/ /\ start' = "idle"
          /\ UNCHANGED <<running, run>>
    /\ UNCHANGED <<fails, starts, managed, stop, written, raw, events, tpc, tailing>>

(* start_managed_tailer: the new tailer is spawned and takes the place of   *)
(* the old one, which is then signalled and waited for.                     *)
SpawnTailer ==
    /\ start = "spawn"
    /\ tpc' = [tpc EXCEPT ![run] = "drain"]
    /\ managed' = run
    /\ stop' = IF managed = 0 THEN stop ELSE stop \cup {managed}
    /\ start' = IF managed = 0 THEN "idle" ELSE "await"
    /\ UNCHANGED <<fails, running, run, starts, written, raw, events, tailing>>

AwaitOld ==
    /\ start = "await"
    /\ \A t \in stop : tpc[t] = "exited"
    /\ start' = "idle"
    /\ UNCHANGED <<fails, running, run, starts, managed, stop, written, raw, events,
                   tpc, tailing>>

------------------------------------------------------------------------------
(* tailer_loop *)

GivesUp(e) == \E s \in Streams : e[s] >= MaxErrors

(* drain_into_events has returned for the current stream: on to stderr, or  *)
(* to the end of the pass.  The results of the final drain are ignored.     *)
DrainReturns(t, ok) ==
    LET s == cur[t]
        e == IF final[t] THEN errs[t]
             ELSE [errs[t] EXCEPT ![s] = IF ok THEN 0 ELSE errs[t][s] + 1]
    IN  /\ errs' = [errs EXCEPT ![t] = e]
        /\ cur' = [cur EXCEPT ![t] = IF s = "stdout" THEN "stderr" ELSE "stdout"]
        /\ tpc' = [tpc EXCEPT ![t] = IF s = "stdout" THEN "drain"
                                     ELSE IF final[t] \/ GivesUp(e) THEN "exited"
                                     ELSE "sleep"]
        /\ UNCHANGED final

Smaller(m, n) == IF m <= n THEN m ELSE n

(* What the read gets: the stat said how much to want, and the file may have *)
(* been truncated since.                                                     *)
Fresh(t, s) ==
    SubSeq(raw[s], pos[t][s] + 1, Smaller(pos[t][s] + want[t], Len(raw[s])))

(* Mutant: the leftover of the last pass is not prepended. *)
CombinedWithoutLeftover(t, s) == Fresh(t, s)

Combined(t, s) == left[t][s] \o Fresh(t, s)

(* Mutant: a newline that is the last byte read does not end a line. *)
CutBeforeLast(c) ==
    LET ends == {i \in DOMAIN c : c[i].nl /\ i # Len(c)}
    IN  IF ends = {} THEN 0 ELSE CHOOSE i \in ends : \A j \in ends : j <= i

(* How many pieces go into the batch: those up to the last newline, or all  *)
(* of them when the rest is too long to be kept.                            *)
Cut(c) ==
    LET ends == {i \in DOMAIN c : c[i].nl}
        last == IF ends = {} THEN 0
                ELSE CHOOSE i \in ends : \A j \in ends : j <= i
    IN  IF Len(c) - last >= MaxLeft THEN Len(c) ELSE last

(* Mutant: the position falls one piece short of what was read. *)
AdvanceTooLittle(t, s) ==
    IF Fresh(t, s) = <<>> THEN pos[t][s] ELSE pos[t][s] + Len(Fresh(t, s)) - 1

Advance(t, s) == pos[t][s] + Len(Fresh(t, s))

(* Mutant: the read is not capped. *)
WantedAll(t, s) == Len(raw[s]) - pos[t][s]

Wanted(t, s) == Smaller(Len(raw[s]) - pos[t][s], MaxChunk)

(* drain_into_events up to its seek. *)
Stat(t) ==
    LET s == cur[t] IN
    /\ tpc[t] = "drain"
    /\ \/ /\ Len(raw[s]) < pos[t][s]  \* truncated
          /\ pos' = [pos EXCEPT ![t][s] = 0]
          /\ left' = [left EXCEPT ![t][s] = <<>>]
          /\ DrainReturns(t, TRUE)
          /\ UNCHANGED want
       \/ /\ Len(raw[s]) = pos[t][s]
          /\ DrainReturns(t, TRUE)
          /\ UNCHANGED <<pos, left, want>>
       \/ /\ Len(raw[s]) > pos[t][s]
          /\ want' = [want EXCEPT ![t] = Wanted(t, s)]
          /\ tpc' = [tpc EXCEPT ![t] = "read"]
          /\ UNCHANGED <<cur, final, errs, pos, left>>
       \/ /\ fails
          /\ DrainReturns(t, FALSE)
          /\ UNCHANGED <<pos, left, want>>
    /\ UNCHANGED <<fails, running, starter, written, raw, events, batch>>

(* Its read, which takes the leftover before it can fail, and the split into *)
(* lines.                                                                    *)
Read(t) ==
    LET s == cur[t]
        c == Combined(t, s)
    IN  /\ tpc[t] = "read"
        /\ want' = [want EXCEPT ![t] = 0]
        /\ \/ /\ pos' = [pos EXCEPT ![t][s] = Advance(t, s)]
              /\ left' = [left EXCEPT ![t][s] = SubSeq(c, Cut(c) + 1, Len(c))]
              /\ batch' = [batch EXCEPT ![t] = SubSeq(c, 1, Cut(c))]
              /\ IF Cut(c) = 0 THEN DrainReturns(t, TRUE)
                 ELSE /\ tpc' = [tpc EXCEPT ![t] = "append"]
                      /\ UNCHANGED <<cur, final, errs>>
           \/ /\ fails
              /\ left' = [left EXCEPT ![t][s] = <<>>]
              /\ DrainReturns(t, FALSE)
              /\ UNCHANGED <<pos, batch>>
        /\ UNCHANGED <<fails, running, starter, written, raw, events>>

(* append_batch; what cannot be appended is lost. *)
AppendBatch(t) ==
    LET s == cur[t] IN
    /\ tpc[t] = "append"
    /\ \/ /\ events' = [events EXCEPT ![s] = events[s] \o batch[t]]
          /\ DrainReturns(t, TRUE)
       \/ /\ fails
          /\ DrainReturns(t, FALSE)
          /\ UNCHANGED events
    /\ batch' = [batch EXCEPT ![t] = <<>>]
    /\ UNCHANGED <<fails, running, starter, written, raw, pos, left, want>>

(* The select of tailer_loop: the interval is over. *)
Wake(t) ==
    /\ tpc[t] = "sleep"
    /\ tpc' = [tpc EXCEPT ![t] = "drain"]
    /\ UNCHANGED <<fails, running, starter, written, raw, events, tailing>>

(* Mutant: the stop signal is taken for the end of the interval. *)
TakeStopAndGoOn(t) ==
    /\ tpc[t] = "sleep"
    /\ t \in stop
    /\ tpc' = [tpc EXCEPT ![t] = "drain"]
    /\ UNCHANGED <<fails, running, starter, written, raw, events, tailing>>

(* The select of tailer_loop: the stop signal has come. *)
TakeStop(t) ==
    /\ tpc[t] = "sleep"
    /\ t \in stop
    /\ final' = [final EXCEPT ![t] = TRUE]
    /\ tpc' = [tpc EXCEPT ![t] = "drain"]
    /\ UNCHANGED <<fails, running, starter, written, raw, events, cur, pos, left,
                   want, batch, errs>>

------------------------------------------------------------------------------
TailerStep(t) == Stat(t) \/ Read(t) \/ AppendBatch(t) \/ Wake(t)

Starting == CreateTask \/ SpawnTailer \/ AwaitOld

Next ==
    \/ \E s \in Streams : Write(s)
    \/ Exit
    \/ PrepareLogs
    \/ Starting
    \/ \E t \in Tailers : TailerStep(t) \/ TakeStop(t)

Spec == Init /\ [][Next]_vars

(* The runtime polls every spawned task; a select that is reached again and *)
(* again with the stop signal there takes it.                               *)
FairSpec ==
    /\ Spec
    /\ WF_vars(Starting)
    /\ \A t \in Tailers : WF_vars(TailerStep(t)) /\ SF_vars(TakeStop(t))

------------------------------------------------------------------------------
(* Properties *)

Pending(t, s) == IF tpc[t] = "append" /\ cur[t] = s THEN batch[t] ELSE <<>>

(* Conserved: as long as the container was started once and file operations *)
(* succeed, events.log, the batch being appended and the leftover together   *)
(* are exactly what was read of the raw file: drain_into_events neither      *)
(* loses nor repeats nor reorders anything, however its passes fall between  *)
(* the writes and whichever of its caps bind.                                *)
Conserved ==
    ~fails /\ starts <= 1 => \A s \in Streams, t \in Tailers :
        tpc[t] # "off" =>
            events[s] \o Pending(t, s) \o left[t][s] = SubSeq(raw[s], 1, pos[t][s])

(* InOrder: as long as there is one tailer, events.log never repeats or     *)
(* reorders output, whatever fails, and although a start_container that     *)
(* fails with TaskAlreadyExists truncates the raw files under the tailer.   *)
InOrder ==
    run <= 1 => \A s \in Streams : \A i, j \in DOMAIN events[s] :
        i < j => events[s][i].n < events[s][j].n

Logged(s, k) == \E i \in DOMAIN events[s] : events[s][i].n = k
IsLine(s, k) == k \in DOMAIN written[s] /\ written[s][k].nl

(* EveryLineLogged: a line the process has ended gets into events.log, when *)
(* file operations succeed and the container is started once.               *)
EveryLineLogged ==
    \A k \in 1..MaxPieces :
        (~fails /\ \E s \in Streams : IsLine(s, k))
            ~> (starts > 1 \/ \A s \in Streams : IsLine(s, k) => Logged(s, k))

(* StartReturns: start_container returns: the tailer it replaces sees the   *)
(* stop signal, or has given up, and is never waited for in vain.           *)
StartReturns == (start # "idle") ~> (start = "idle")

(* RestartDrains: when a start that replaced a tailer returns, the lines of *)
(* the earlier run are in events.log: "graceful stop the prior tailer so    *)
(* pending writes drain".                                                   *)
RestartDrains ==
    [][start = "await" /\ start' = "idle" =>
          \A s \in Streams : \A k \in DOMAIN written[s] :
              (written[s][k].nl /\ written[s][k].run < run) => Logged(s, k)]_vars


------------------------------------------------------------------------------
(* Inductive invariants *)

(* A tailer goes on only below MAX_CONSECUTIVE_ERRORS, and stops at the end  *)
(* of a pass.                                                                *)
ErrorsInv(t) ==
    /\ tpc[t] \in {"off", "sleep"} => cur[t] = "stdout"
    /\ tpc[t] # "exited" =>
          /\ errs[t]["stderr"] < MaxErrors
          /\ cur[t] = "stdout" => errs[t]["stdout"] < MaxErrors

(* One that is not spawned yet has done nothing. *)
UnusedInv(t) ==
    /\ tpc[t] # "off" => t <= run
    /\ tpc[t] = "off" => pos[t] = Zero /\ left[t] = Empty
    /\ tpc[t] # "append" => batch[t] = <<>>

(* TailInv: what makes TypeOK inductive, and who is there. *)
TailInv ==
    /\ TypeOK
    /\ running => run >= 1
    /\ start = "spawn" => run >= 1 /\ tpc[run] = "off"
    /\ \A t \in Tailers : ErrorsInv(t) /\ UnusedInv(t)
    /\ (\A t \in Tailers : tpc[t] = "off") => events = Empty
    /\ run = 0 => written = Empty /\ raw = Empty

(* The first start_container: its truncation comes before its tailer. *)
OnceInv ==
    starts <= 1 =>
        /\ starts = 0 => start = "idle" /\ run = 0
        /\ start = "create" => run = 0
        /\ start = "spawn" => \A t \in Tailers : tpc[t] = "off"
        /\ start # "await" /\ run <= 1
        /\ start \in {"create", "spawn"} => managed = 0

(* CopyInv: what makes Conserved inductive, beside TailInv.  Nothing was     *)
(* truncated under the tailer, so it is within the file.                     *)
CopyInv ==
    ~fails /\ starts <= 1 =>
        /\ Conserved
        /\ \A s \in Streams, t \in Tailers :
              /\ pos[t][s] <= Len(raw[s])
              /\ tpc[t] = "read" /\ cur[t] = s => pos[t][s] + want[t] <= Len(raw[s])

Increasing(q) == \A i, j \in DOMAIN q : i < j => q[i].n < q[j].n
Precedes(q, r) == \A i \in DOMAIN q, j \in DOMAIN r : q[i].n < r[j].n

(* What q holds was written before all that the tailer has yet to read: what *)
(* is beyond its position, or all of a file truncated before it.             *)
ReadBefore(q, t, s) ==
    \A i \in DOMAIN q, j \in DOMAIN raw[s] :
        pos[t][s] < j \/ Len(raw[s]) < pos[t][s] => q[i].n < raw[s][j].n

Known(q, s) == \A i \in DOMAIN q : q[i].n <= Len(written[s])

(* OrderInv: what makes InOrder inductive, beside TailInv. *)
OrderInv ==
    run <= 1 => \A s \in Streams :
        /\ Increasing(events[s]) /\ Increasing(raw[s])
        /\ Known(events[s], s) /\ Known(raw[s], s)
        /\ \A t \in Tailers : tpc[t] # "off" =>
              LET b == Pending(t, s)
                  l == left[t][s]
              IN  /\ Increasing(b) /\ Increasing(l)
                  /\ Precedes(events[s], b) /\ Precedes(events[s], l) /\ Precedes(b, l)
                  /\ Known(b, s) /\ Known(l, s)
                  /\ ReadBefore(events[s], t, s) /\ ReadBefore(b, t, s) /\ ReadBefore(l, t, s)
=============================================================================
