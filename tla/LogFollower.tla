----------------------------- MODULE LogFollower -----------------------------
(***************************************************************************)
(* A log stream of one container: the tailer appends records to events.log *)
(* and rotates it, the follower reads it, and the watcher of               *)
(* container_logs_stream_until_exit ends the stream.                       *)
(*                                                                         *)
(* Files are known by their inodes, numbered as they are created.  Each    *)
(* append is one record (a batch of one), and a record is two cells, its   *)
(* head and its tail: the least that lets a reader see a torn record.      *)
(* The task and the container record are the environment: what the other   *)
(* operations of the client do to them.  Each behaviour also fixes what    *)
(* can befall it: writes seen half done, appends in the middle of a poll,  *)
(* failures.                                                               *)
(***************************************************************************)
EXTENDS Naturals, Sequences, Functions

CONSTANTS
    MaxRecords,  \* bound: records the tailer appends
    RotateAt,    \* EVENTS_ROTATE_BYTES, in cells
    MaxRotated,  \* MAX_ROTATED_FILES
    MaxErrors    \* MAX_CONSECUTIVE_ERRORS of the watcher

ASSUME BoundsAssumption ==
    /\ MaxRecords \in Nat
    /\ RotateAt \in Nat /\ RotateAt >= 2
    /\ MaxRotated \in Nat /\ MaxRotated >= 2 /\ MaxErrors \in Nat \ {0}

Records == 1..MaxRecords
Cell == [rec : Records, half : {"head", "tail"}]
HeadOf(r) == [rec |-> r, half |-> "head"]
TailOf(r) == [rec |-> r, half |-> "tail"]

VARIABLES
    files,      \* the contents of each events file ever created, by inode
    log,        \* the inode of events.log; 0 if there is none
    rotated,    \* the inodes of events.log.1, .2, ...
    rec,        \* records the tailer has begun to append
    tpc,        \* where the tailer is
    fpc,        \* where the follower is
    pos,        \* EventsTailState::pos
    leftover,   \* EventsTailState::leftover
    inode,      \* EventsTailState::inode; 0 is None
    handle,     \* the file the current poll has opened
    len,        \* its length when it was stat'ed
    final,      \* the stop signal was received: this poll is the last
    first,      \* history: the first file the follower opened
    delivered,  \* history: the records sent to the channel
    watcher,    \* the watcher: "watching", "sent" (the stop signal) or "gone"
    errors,     \* consecutive_errors
    taskState,       \* the container's task
    present,    \* the container record exists
    torn,       \* the write of a record can be seen half done
    overlap,    \* the tailer can act in the middle of a poll
    fails       \* the follower can fail or be dropped, and inspection fail

tailer == <<files, log, rotated, rec, tpc>>
follower == <<fpc, pos, leftover, inode, handle, len, final, first, delivered>>
watching == <<watcher, errors>>
circumstances == <<torn, overlap, fails>>
env == <<taskState, present, circumstances>>
vars == <<tailer, follower, watching, env>>

TypeOK ==
    /\ files \in Seq(Seq(Cell))
    /\ log \in 0..Len(files)
    /\ rotated \in [1..MaxRotated -> 0..Len(files)]
    /\ rec \in 0..MaxRecords
    /\ tpc \in {"idle", "shift", "rename", "create", "write", "rest"}
    /\ fpc \in {"poll", "drain", "read", "sleep", "done"}
    /\ pos \in Nat /\ len \in Nat
    /\ leftover \in Seq(Cell)
    /\ inode \in 0..Len(files) /\ handle \in 0..Len(files)
    /\ first \in 0..Len(files)
    /\ final \in BOOLEAN
    /\ delivered \in Seq(Records)
    /\ watcher \in {"watching", "sent", "gone"}
    /\ errors \in 0..MaxErrors
    /\ taskState \in {"running", "stopped", "none"}
    /\ present \in BOOLEAN
    /\ torn \in BOOLEAN /\ overlap \in BOOLEAN /\ fails \in BOOLEAN

Init ==
    /\ files = <<>> /\ log = 0 /\ rotated = [n \in 1..MaxRotated |-> 0]
    /\ rec = 0 /\ tpc = "idle"
    /\ fpc = "poll" /\ pos = 0 /\ leftover = <<>> /\ inode = 0
    /\ handle = 0 /\ len = 0 /\ final = FALSE /\ first = 0 /\ delivered = <<>>
    /\ watcher = "watching" /\ errors = 0
    /\ taskState = "running" /\ present = TRUE
    /\ torn \in BOOLEAN /\ overlap \in BOOLEAN /\ fails \in BOOLEAN

------------------------------------------------------------------------------
(* The tailer: append_batch *)

MayAppend == present /\ (overlap \/ fpc \notin {"drain", "read"})

(* A batch is ready: rotate_if_needed looks at the length of events.log. *)
BeginAppend ==
    /\ tpc = "idle"
    /\ MayAppend
    /\ rec < MaxRecords
    /\ rec' = rec + 1
    /\ tpc' = IF log # 0 /\ Len(files[log]) + 2 > RotateAt THEN "shift" ELSE "write"
    /\ UNCHANGED <<files, log, rotated, follower, watching, env>>

(* Mutant: the oldest file is not pruned. *)
ShiftWithoutPrune ==
    /\ tpc = "shift"
    /\ MayAppend
    /\ rotated' = [n \in 1..MaxRotated + 1 |-> IF n = 1 THEN 0 ELSE rotated[n - 1]]
    /\ tpc' = "rename"
    /\ UNCHANGED <<files, log, rec, follower, watching, env>>

(* The oldest file is pruned and the others move up by one. *)
Shift ==
    /\ tpc = "shift"
    /\ MayAppend
    /\ rotated' = [n \in 1..MaxRotated |-> IF n = 1 THEN 0 ELSE rotated[n - 1]]
    /\ tpc' = "rename"
    /\ UNCHANGED <<files, log, rec, follower, watching, env>>

RenameLog ==
    /\ tpc = "rename"
    /\ MayAppend
    /\ rotated' = [rotated EXCEPT ![1] = log]
    /\ log' = 0
    /\ tpc' = "create"
    /\ UNCHANGED <<files, rec, follower, watching, env>>

CreateLog ==
    /\ tpc = "create"
    /\ MayAppend
    /\ files' = Append(files, <<>>)
    /\ log' = Len(files) + 1
    /\ tpc' = "write"
    /\ UNCHANGED <<rotated, rec, follower, watching, env>>

(* The open with create(true), and write_all. *)
WriteRecord ==
    LET fs == IF log = 0 THEN Append(files, <<>>) ELSE files
        to == IF log = 0 THEN Len(fs) ELSE log
    IN  /\ tpc = "write"
        /\ MayAppend
        /\ log' = to
        /\ \/ /\ files' = [fs EXCEPT ![to] = fs[to] \o <<HeadOf(rec), TailOf(rec)>>]
              /\ tpc' = "idle"
           \/ /\ torn
              /\ files' = [fs EXCEPT ![to] = Append(fs[to], HeadOf(rec))]
              /\ tpc' = "rest"
        /\ UNCHANGED <<rotated, rec, follower, watching, env>>

WriteRest ==
    /\ tpc = "rest"
    /\ MayAppend
    /\ files' = [files EXCEPT ![log] = Append(files[log], TailOf(rec))]
    /\ tpc' = "idle"
    /\ UNCHANGED <<log, rotated, rec, follower, watching, env>>

TailerStep == Shift \/ RenameLog \/ CreateLog \/ WriteRecord \/ WriteRest

------------------------------------------------------------------------------
(* The follower: follow_loop *)

(* Where the whole records of a buffer begin.  A head that is not followed   *)
(* by its tail is malformed: the decoder skips through the next tail.        *)
RecordAt(c, i) ==
    /\ c[i].half = "head"
    /\ i = 1 \/ c[i - 1].half = "tail"
    /\ i < Len(c) /\ c[i + 1] = TailOf(c[i].rec)

(* The records of a buffer: those of its first i cells, for every i. *)
Decode(c) ==
    LET upTo[i \in 0..Len(c)] ==
            IF i = 0 THEN <<>>
            ELSE IF RecordAt(c, i) THEN Append(upTo[i - 1], c[i].rec) ELSE upTo[i - 1]
    IN  upTo[Len(c)]

(* Mutant: what was decoded is kept too. *)
RemainderIsAll(c) == c

(* The bytes that do not yet make a record. *)
Remainder(c) ==
    LET tails == {i \in DOMAIN c : c[i].half = "tail"}
        last == IF tails = {} THEN 0
                ELSE CHOOSE i \in tails : \A j \in tails : j <= i
    IN  SubSeq(c, last + 1, Len(c))

(* A poll is over; after the final one, so is the stream. *)
EndPoll == fpc' = IF final THEN "done" ELSE "sleep"

(* Mutant: a missing events.log always forgets the file. *)
OpenForgetsInode ==
    /\ fpc = "poll"
    /\ \/ /\ log = 0
          /\ inode' = 0 /\ pos' = 0 /\ leftover' = <<>>
          /\ EndPoll
          /\ UNCHANGED <<handle, len, first>>
       \/ /\ log # 0
          /\ handle' = log
          /\ len' = Len(files[log])
          /\ first' = IF first = 0 THEN log ELSE first
          /\ inode' = IF inode = 0 THEN log ELSE inode
          /\ IF inode # 0 /\ inode # log THEN fpc' = "drain"
             ELSE IF len' = pos THEN EndPoll ELSE fpc' = "read"
          /\ UNCHANGED <<pos, leftover>>
    /\ UNCHANGED <<tailer, final, delivered, watching, env>>

(* poll_events_once: the open and the stat.  A missing file keeps the state  *)
(* unless there is none yet.  events.log only grows, so that a stat'ed file  *)
(* is never shorter than the position in it.                                 *)
Open ==
    /\ fpc = "poll"
    /\ \/ /\ log = 0
          /\ EndPoll
          /\ UNCHANGED <<pos, leftover, inode, handle, len, first>>
       \/ /\ log # 0
          /\ handle' = log
          /\ len' = Len(files[log])
          /\ first' = IF first = 0 THEN log ELSE first
          /\ inode' = IF inode = 0 THEN log ELSE inode
          /\ IF inode # 0 /\ inode # log THEN fpc' = "drain"
             ELSE IF len' = pos THEN EndPoll ELSE fpc' = "read"
          /\ UNCHANGED <<pos, leftover>>
    /\ UNCHANGED <<tailer, final, delivered, watching, env>>

(* What drain_rotated_remainder sends: the rest of events.log.1, if that is  *)
(* the file that was followed.                                               *)
RotatedRemainder ==
    IF rotated[1] = inode
    THEN Decode(SubSeq(files[inode], pos + 1, Len(files[inode])))
    ELSE <<>>

(* Mutant: the position in the old file is kept for the new one. *)
DrainRotatedKeepsPos ==
    /\ fpc = "drain"
    /\ delivered' = delivered \o RotatedRemainder
    /\ leftover' = <<>>
    /\ inode' = handle
    /\ IF len = pos THEN EndPoll ELSE fpc' = "read"
    /\ UNCHANGED <<tailer, pos, handle, len, final, first, watching, env>>

(* The rotation was noticed: drain the old file and go to the new one. *)
DrainRotated ==
    /\ fpc = "drain"
    /\ delivered' = delivered \o RotatedRemainder
    /\ pos' = 0
    /\ leftover' = <<>>
    /\ inode' = handle
    /\ IF len = 0 THEN EndPoll ELSE fpc' = "read"
    /\ UNCHANGED <<tailer, handle, len, final, first, watching, env>>

(* The read goes to the end of the file, the position to the stat'ed length. *)
ReadEvents ==
    LET c == leftover \o SubSeq(files[handle], pos + 1, Len(files[handle])) IN
    /\ fpc = "read"
    /\ delivered' = delivered \o Decode(c)
    /\ leftover' = Remainder(c)
    /\ pos' = len
    /\ EndPoll
    /\ UNCHANGED <<tailer, inode, handle, len, final, first, watching, env>>

(* The select of follow_loop. *)
Wake ==
    /\ fpc = "sleep"
    /\ fpc' = "poll"
    /\ UNCHANGED <<tailer, pos, leftover, inode, handle, len, final, first, delivered,
                   watching, env>>

TakeStop ==
    /\ fpc = "sleep"
    /\ watcher = "sent"
    /\ final' = TRUE
    /\ fpc' = "poll"
    /\ UNCHANGED <<tailer, pos, leftover, inode, handle, len, first, delivered,
                   watching, env>>

(* An I/O error, a dropped receiver or a dropped LogFollower ends the task. *)
FollowerEnds ==
    /\ fails
    /\ fpc # "done"
    /\ fpc' = "done"
    /\ UNCHANGED <<tailer, pos, leftover, inode, handle, len, final, first, delivered,
                   watching, env>>

FollowerStep == Open \/ DrainRotated \/ ReadEvents \/ Wake

------------------------------------------------------------------------------
(* The watcher of container_logs_stream_until_exit *)

(* Mutant: a missing container is not the end. *)
SeesEndOfTask == taskState = "stopped"

(* inspect_container says that there is nothing more to wait for. *)
SeesEnd == taskState = "stopped" \/ ~present

WatchEnds ==
    /\ watcher = "watching"
    /\ SeesEnd
    /\ watcher' = "sent"
    /\ errors' = 0
    /\ UNCHANGED <<tailer, follower, env>>

(* Inspection succeeds and the task has not stopped; a failed tasks.get      *)
(* looks the same.                                                           *)
WatchGoesOn ==
    /\ watcher = "watching"
    /\ present
    /\ fails \/ ~SeesEnd
    /\ errors' = 0
    /\ UNCHANGED <<tailer, follower, watcher, env>>

WatchFails ==
    /\ fails
    /\ watcher = "watching"
    /\ errors' = errors + 1
    /\ watcher' = IF errors' >= MaxErrors THEN "sent" ELSE "watching"
    /\ UNCHANGED <<tailer, follower, env>>

(* Mutant: the closed channel is noticed only with the end of the task. *)
WatchClosedLate ==
    /\ watcher = "watching"
    /\ fpc = "done"
    /\ SeesEnd
    /\ watcher' = "gone"
    /\ UNCHANGED <<tailer, follower, errors, env>>

(* stop_tx.closed() *)
WatchClosed ==
    /\ watcher = "watching"
    /\ fpc = "done"
    /\ watcher' = "gone"
    /\ UNCHANGED <<tailer, follower, errors, env>>

------------------------------------------------------------------------------
(* The environment: the task exits, is deleted, is started again; the        *)
(* container, and with it its log directory, is deleted.                     *)

TaskChanges ==
    /\ \/ taskState = "running" /\ taskState' = "stopped"
       \/ taskState = "stopped" /\ taskState' = "none"
       \/ taskState = "none" /\ present /\ taskState' = "running"
    /\ UNCHANGED <<tailer, follower, watching, present, circumstances>>

ContainerDeleted ==
    /\ taskState = "none"
    /\ present
    /\ present' = FALSE
    /\ log' = 0
    /\ rotated' = [n \in 1..MaxRotated |-> 0]
    /\ UNCHANGED <<files, rec, tpc, follower, watching, taskState, circumstances>>

Next ==
    \/ BeginAppend \/ TailerStep
    \/ FollowerStep \/ TakeStop \/ FollowerEnds
    \/ WatchEnds \/ WatchGoesOn \/ WatchFails \/ WatchClosed
    \/ TaskChanges \/ ContainerDeleted

Spec == Init /\ [][Next]_vars

(* The runtime polls every spawned task, a select that is reached again and  *)
(* again with the stop signal there takes it, and an inspection that is made *)
(* again and again is answered.  There may be no more output, and the        *)
(* environment may stop.                                                     *)
FairSpec ==
    /\ Spec
    /\ WF_vars(TailerStep)
    /\ WF_vars(FollowerStep) /\ SF_vars(TakeStop)
    /\ WF_vars(WatchEnds) /\ WF_vars(WatchClosed)

------------------------------------------------------------------------------
(* Properties *)

Received(r) == r \in Range(delivered) \/ \E i \in DOMAIN leftover : leftover[i].rec = r

(* No second rotation has begun. *)
RotatedOnce == Len(files) <= 2 /\ \A n \in 2..MaxRotated : rotated[n] = 0

(* NothingLost: all that lies behind the follower's position, in the file it *)
(* follows and in the files it followed before, was sent, or waits for its   *)
(* second half in the leftover.  It is what poll_events_once and             *)
(* drain_rotated_remainder are for, whatever the tailer does in the middle   *)
(* of a poll.  It is asked of logs that are rotated once and of writes that  *)
(* are seen whole: the rest of a file that was rotated away twice between    *)
(* two polls is given up by the code, as is that of a deleted container.     *)
NothingLost ==
    ~torn /\ RotatedOnce /\ present /\ inode # 0 /\ fpc # "drain" =>
        \A f \in first..inode : \A i \in DOMAIN files[f] :
            (f < inode \/ i <= pos) => Received(files[f][i].rec)

(* DeliveredInOrder: the stream has each record at most once, in the order   *)
(* of events.log ("timestamps + ordering match what                         *)
(* `container_logs_filtered` returns"), as long as no record is appended     *)
(* between the stat of a poll and its read, and however often the log is     *)
(* rotated and writes are seen half done.                                    *)
DeliveredInOrder ==
    ~overlap => \A i, j \in DOMAIN delivered : i < j => delivered[i] < delivered[j]

InFollowed(r) ==
    first # 0 /\ \E f \in first..Len(files) : TailOf(r) \in Range(files[f])

(* EveryRecordDelivered: a record appended once the follower has opened      *)
(* events.log is sent, unless the stream ends, also across a rotation.  It   *)
(* is asked of the same logs as NothingLost.                                 *)
EveryRecordDelivered ==
    \A r \in Records :
        (~torn /\ InFollowed(r))
            ~> (r \in Range(delivered) \/ fpc = "done" \/ ~RotatedOnce)

(* StreamEnds: container_logs_stream_until_exit ends when the task has       *)
(* stopped for good or the container is gone.                                *)
StreamEnds == <>[](taskState = "stopped" \/ ~present) => <>(fpc = "done")

(* WatcherEnds: no watcher outlives its stream: "Dropping the returned       *)
(* `LogFollower` also stops the watcher".                                    *)
WatcherEnds == (fpc = "done") ~> (watcher # "watching")

------------------------------------------------------------------------------
(* Inductive invariants *)

(* Heads and tails alternate, and the records of a file rise. *)
Alternates(q) ==
    \A i \in DOMAIN q :
        \/ /\ q[i].half = "head"
           /\ i = 1 \/ q[i - 1].half = "tail"
           /\ i < Len(q) => q[i + 1] = TailOf(q[i].rec)
        \/ q[i].half = "tail" /\ i > 1 /\ q[i - 1] = HeadOf(q[i].rec)

Rising(q) == \A i, j \in DOMAIN q : i < j /\ q[j].half = "head" => q[i].rec < q[j].rec

Closed(q) == q = <<>> \/ q[Len(q)].half = "tail"

(* So do those of the files, in the order of their creation. *)
Ordered(fs) ==
    /\ \A f \in DOMAIN fs : Alternates(fs[f]) /\ Rising(fs[f])
    /\ \A f, g \in DOMAIN fs : f < g =>
          \A i \in DOMAIN fs[f], j \in DOMAIN fs[g] : fs[f][i].rec < fs[g][j].rec

Below(fs, r) == \A f \in DOMAIN fs : \A i \in DOMAIN fs[f] : fs[f][i].rec < r

(* FileInv: what makes TypeOK inductive, and what the tailer writes. *)
FileInv ==
    /\ TypeOK
    /\ log \in {0, Len(files)}
    /\ tpc # "idle" => rec >= 1
    /\ errors < MaxErrors \/ watcher # "watching"
    /\ Ordered(files)
    /\ Below(files, rec + 1)
    /\ tpc \notin {"idle", "rest"} => Below(files, rec)
    /\ ~torn => tpc # "rest"
    /\ present /\ tpc \in {"shift", "rename", "rest"} => log # 0
    /\ \A f \in DOMAIN files :
          \/ Closed(files[f])
          \/ torn /\ f = Len(files) /\ (present => tpc = "rest")
    /\ present /\ tpc = "rest" => LET q == files[log] IN q # <<>> /\ q[Len(q)] = HeadOf(rec)

(* FollowInv: what the follower has open. *)
FollowInv ==
    /\ inode = 0 => first = 0 /\ pos = 0 /\ leftover = <<>> /\ delivered = <<>>
    /\ inode # 0 => first \in 1..inode /\ pos <= Len(files[inode])
    /\ fpc \in {"drain", "read"} => inode # 0 /\ handle # 0 /\ len <= Len(files[handle])
    /\ fpc = "drain" => inode < handle
    /\ fpc = "read" => inode = handle /\ pos <= len

(* The whole records of file f that are still to be sent. *)
Ahead(f, i) == f = inode => i + Len(leftover) > pos

(* OrderInv: what makes DeliveredInOrder inductive. *)
OrderInv ==
    ~overlap =>
        /\ DeliveredInOrder
        /\ \A d \in DOMAIN delivered : delivered[d] <= rec
        /\ tpc \notin {"idle", "rest"} => \A d \in DOMAIN delivered : delivered[d] < rec
        /\ fpc \in {"drain", "read"} => len = Len(files[handle])
        /\ inode # 0 =>
              /\ \/ leftover = <<>> /\ (pos = 0 \/ files[inode][pos].half = "tail")
                 \/ pos > 0 /\ files[inode][pos].half = "head" /\ leftover = <<files[inode][pos]>>
              /\ \A d \in DOMAIN delivered, f \in inode..Len(files) : \A i \in DOMAIN files[f] :
                    files[f][i].half = "head" /\ Ahead(f, i) => delivered[d] < files[f][i].rec

(* The first two files, until the second is rotated away. *)
TwoFiles ==
    present =>
        /\ Len(files) = 0 => log = 0 /\ \A n \in 1..MaxRotated : rotated[n] = 0
        /\ Len(files) = 1 =>
              /\ \A n \in 2..MaxRotated : rotated[n] = 0
              /\ \/ log = 1 /\ rotated[1] = 0 /\ tpc # "create"
                 \/ log = 0 /\ rotated[1] = 1 /\ tpc = "create"
        /\ Len(files) = 2 =>
              \/ log = 2 /\ rotated[1] = 1 /\ tpc \notin {"rename", "create"}
              \/ rotated[2] = 1 /\ log = 2 /\ tpc = "rename"
              \/ rotated[2] = 1 /\ log = 0 /\ tpc = "create"

(* LossInv: what makes NothingLost inductive. *)
LossInv ==
    ~torn =>
        /\ leftover = <<>>
        /\ inode # 0 => pos = 0 \/ files[inode][pos].half = "tail"
        /\ fpc \in {"drain", "read"} => len = 0 \/ files[handle][len].half = "tail"
        /\ RotatedOnce /\ present /\ inode # 0 =>
              \A f \in first..inode : \A i \in DOMAIN files[f] :
                  (f < inode \/ i <= pos) => Received(files[f][i].rec)
=============================================================================
