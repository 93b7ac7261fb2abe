------------------------------ MODULE LogQuery -------------------------------
(***************************************************************************)
(* container_logs_filtered beside the tailer: the query lists the events   *)
(* files, oldest first, and reads them by name one after the other, while  *)
(* the tailer appends records, fails in the middle of an append, and       *)
(* rotates the files, one rename at a time.                                *)
(*                                                                         *)
(* Files hold bytes and are known by their inodes, numbered as they are    *)
(* created.  A batch is one record.                                        *)
(***************************************************************************)
EXTENDS EventCodec, FiniteSets, Functions

CONSTANTS
    Settings,     \* what varies from run to run, see Setting
    MaxRotated,   \* MAX_ROTATED_FILES
    MaxRecords,   \* bound: records the tailer appends
    MaxFailures,  \* bound: file operations of the tailer that fail
    Epoch         \* the clock when the tailer starts

(* Three operators that SequencesExt has as well.  They are written out, and *)
(* by index, because LogQueryProofs reasons about them: what a prover has to *)
(* go through grows with every definition in scope.                          *)
IsPrefix(s, t) == Len(s) <= Len(t) /\ \A i \in 1..Len(s) : s[i] = t[i]

IsSuffix(s, t) ==
    Len(s) <= Len(t) /\ \A i \in 1..Len(s) : s[i] = t[(Len(t) - Len(s)) + i]

FlattenSeq(s) ==
    LET joined[i \in 0..Len(s)] == IF i = 0 THEN <<>> ELSE joined[i - 1] \o s[i]
    IN  joined[Len(s)]

(* The tailer ends a record where a line ends, or where a piece of one has   *)
(* filled its buffer, which is less than MAX_RECORD_BYTES.                   *)
LineData ==
    {d \in Seq(Byte) : Len(d) <= MaxRecordBytes /\ \A i \in 1..Len(d) - 1 : d[i] # Newline}

(* limit: EVENTS_ROTATE_BYTES; lines: what the container writes, a stream    *)
(* and its data; filters: those of the query.                                *)
Setting ==
    [limit : Nat,
     lines : SUBSET [stream : {"stdout", "stderr"}, data : LineData],
     filters : SUBSET [since : Nat \cup {None}, until : Nat \cup {None},
                       tail : Nat \cup {None}]]

ASSUME QueryAssumption ==
    /\ MaxRotated \in Nat \ {0} /\ Settings \subseteq Setting
    /\ MaxRecords \in Nat /\ MaxFailures \in Nat
    /\ Epoch \in Nat /\ Epoch > MaxRecordBytes /\ Epoch + MaxRecords <= MaxU64

VARIABLES
    setting,   \* one of Settings
    files,     \* the bytes of each events file ever created, by inode
    log,       \* the inode of events.log; 0 if there is none
    rotated,   \* the inodes of events.log.1, .2, ...
    tpc,       \* where append_batch is
    shift,     \* the file rotate_if_needed moves next
    batch,     \* what is still to be written
    clock,     \* the time; each record has its own
    failures,  \* failures so far
    appended,  \* history: where records begin and end in each file
    qpc,       \* where the query is
    next,      \* the file the query looks for next
    listed,    \* the files it found: n for events.log.n, 0 for events.log
    all,       \* the entries it has read
    filter,    \* its filter
    result,    \* what it returned
    before,    \* history: the entries the files had when it began
    overlap    \* history: a rotation was in progress during the query

tailer == <<setting, files, log, rotated, tpc, shift, batch, clock, failures, appended>>
query == <<qpc, next, listed, all, filter, result, before>>
vars == <<tailer, query, overlap>>

TypeOK ==
    /\ setting \in Settings
    /\ files \in Seq(Seq(Byte))
    /\ log \in 0..Len(files)
    /\ rotated \in [1..MaxRotated -> 0..Len(files)]
    /\ tpc \in {"idle", "prune", "shift", "rename", "create", "open", "rest"}
    /\ shift \in 0..MaxRotated
    /\ batch \in Seq(Byte)
    /\ clock \in Nat /\ failures \in 0..MaxFailures
    /\ Len(appended) = Len(files)
    /\ qpc \in {"idle", "list", "read", "done"}
    /\ next \in 0..MaxRotated
    /\ listed \in Seq(0..MaxRotated)
    /\ all \in Seq(Entry) /\ result \in Seq(Entry) \cup {None}
    /\ overlap \in BOOLEAN

Init ==
    /\ setting \in Settings
    /\ files = <<>> /\ log = 0 /\ rotated = [n \in 1..MaxRotated |-> 0]
    /\ tpc = "idle" /\ shift = 0 /\ batch = <<>>
    /\ clock = Epoch /\ failures = 0 /\ appended = <<>>
    /\ qpc = "idle" /\ next = 0 /\ listed = <<>> /\ all = <<>>
    /\ filter = None /\ result = None /\ before = <<>> /\ overlap = FALSE

------------------------------------------------------------------------------
(* append_batch *)

Rotating == tpc \in {"prune", "shift", "rename", "create"}

Fails == failures < MaxFailures /\ failures' = failures + 1

NoFailure == UNCHANGED failures

Sees == overlap' = (overlap \/ qpc \in {"list", "read"})

(* An error ends the append: its batch is lost. *)
AppendFails ==
    /\ Fails
    /\ tpc' = "idle" /\ batch' = <<>>
    /\ UNCHANGED <<setting, files, log, rotated, shift, clock, appended, query>>

(* A batch is ready: rotate_if_needed looks at the length of events.log. *)
BeginAppend ==
    /\ tpc = "idle" /\ clock < Epoch + MaxRecords
    /\ \E l \in setting.lines :
          batch' = Encode([ms |-> clock, stream |-> l.stream, data |-> l.data])
    /\ clock' = clock + 1
    /\ LET len == IF log = 0 THEN 0 ELSE Len(files[log]) IN
       IF len + Len(batch') > setting.limit THEN tpc' = "prune" /\ Sees
       ELSE tpc' = "open" /\ UNCHANGED overlap
    /\ UNCHANGED <<setting, files, log, rotated, shift, failures, appended, query>>

(* The oldest file is removed; that this may fail is ignored. *)
Prune ==
    /\ tpc = "prune"
    /\ \/ rotated' = [rotated EXCEPT ![MaxRotated] = 0] /\ NoFailure
       \/ rotated[MaxRotated] # 0 /\ Fails /\ UNCHANGED rotated
    /\ shift' = MaxRotated - 1
    /\ tpc' = "shift"
    /\ Sees
    /\ UNCHANGED <<setting, files, log, batch, clock, appended, query>>

(* The next file is moved up by one, unless the rename fails. *)
Shift ==
    /\ tpc = "shift"
    /\ \/ /\ shift = 0
          /\ tpc' = "rename"
          /\ NoFailure /\ UNCHANGED <<rotated, shift>>
       \/ /\ shift # 0
          /\ \/ /\ rotated' = IF rotated[shift] = 0 THEN rotated
                              ELSE [rotated EXCEPT ![shift + 1] = rotated[shift], ![shift] = 0]
                /\ NoFailure
             \/ rotated[shift] # 0 /\ Fails /\ UNCHANGED rotated
          /\ shift' = shift - 1
          /\ UNCHANGED tpc
    /\ Sees
    /\ UNCHANGED <<setting, files, log, batch, clock, appended, query>>

RenameLog ==
    /\ tpc = "rename"
    /\ \/ /\ log # 0
          /\ rotated' = [rotated EXCEPT ![1] = log] /\ log' = 0
          /\ NoFailure
       \/ log # 0 /\ Fails /\ UNCHANGED <<rotated, log>>
       \/ log = 0 /\ NoFailure /\ UNCHANGED <<rotated, log>>
    /\ tpc' = "create"
    /\ Sees
    /\ UNCHANGED <<setting, files, shift, batch, clock, appended, query>>

CreateLog ==
    /\ tpc = "create"
    /\ Sees
    /\ \/ /\ IF log # 0 THEN UNCHANGED <<files, log, appended>>
             ELSE /\ files' = Append(files, <<>>)
                  /\ appended' = Append(appended, <<>>)
                  /\ log' = Len(files) + 1
          /\ tpc' = "open"
          /\ NoFailure
          /\ UNCHANGED <<setting, rotated, shift, batch, clock, query>>
       \/ AppendFails

(* The stat of rotate_if_needed, or the open of events.log, fails. *)
OpenFails ==
    /\ tpc \in {"prune", "open"}
    /\ AppendFails
    /\ UNCHANGED overlap

(* The open, and as much of write_all as is done at once. *)
Write ==
    /\ tpc = "open"
    /\ \E k \in 1..Len(batch) :
        LET to == IF log = 0 THEN Len(files) + 1 ELSE log
            old == IF log = 0 THEN <<>> ELSE files[log]
            mark == [entry |-> Decode(batch).entry, start |-> Len(old),
                     end |-> Len(old) + k, full |-> Len(old) + Len(batch)]
        IN  /\ files' = IF log = 0 THEN Append(files, SubSeq(batch, 1, k))
                        ELSE [files EXCEPT ![log] = @ \o SubSeq(batch, 1, k)]
            /\ appended' = IF log = 0 THEN Append(appended, <<mark>>)
                           ELSE [appended EXCEPT ![log] = Append(@, mark)]
            /\ log' = to
            /\ batch' = From(batch, k + 1)
            /\ tpc' = IF k = Len(batch) THEN "idle" ELSE "rest"
    /\ UNCHANGED <<setting, rotated, shift, clock, failures, query, overlap>>

(* The rest of it, unless it fails. *)
WriteRest ==
    /\ tpc = "rest"
    /\ \/ /\ files' = [files EXCEPT ![log] = @ \o batch]
          /\ appended' = [appended EXCEPT ![log][Len(appended[log])].end = @ + Len(batch)]
          /\ batch' = <<>> /\ tpc' = "idle"
          /\ NoFailure
          /\ UNCHANGED <<setting, log, rotated, shift, clock, query>>
       \/ AppendFails
    /\ UNCHANGED overlap

------------------------------------------------------------------------------
(* container_logs_filtered *)

FileAt(n) == IF n = 0 THEN log ELSE rotated[n]

ContentAt(n) == IF FileAt(n) = 0 THEN <<>> ELSE files[FileAt(n)]

(* What whole records a file has, by the history. *)
Whole(i) ==
    LET marks == Retain(appended[i], {m \in Range(appended[i]) : m.end = m.full})
    IN  [k \in DOMAIN marks |-> marks[k].entry]

Kept(n) == IF FileAt(n) = 0 THEN <<>> ELSE Whole(FileAt(n))

(* Mutant: one file more than the tailer keeps. *)
BeginQueryOneMore ==
    /\ qpc = "idle"
    /\ qpc' = "list" /\ next' = MaxRotated + 1
    /\ \E f \in setting.filters : filter' = f
    /\ before' = <<>>
    /\ overlap' = Rotating
    /\ UNCHANGED <<tailer, listed, all, result>>

BeginQuery ==
    /\ qpc = "idle"
    /\ qpc' = "list" /\ next' = MaxRotated
    /\ \E f \in setting.filters : filter' = f
    /\ before' = FlattenSeq([k \in 1..MaxRotated + 1 |-> Kept(MaxRotated + 1 - k)])
    /\ overlap' = Rotating
    /\ UNCHANGED <<tailer, listed, all, result>>

(* Mutant: the newest file first. *)
ListNewestFirst ==
    /\ qpc = "list"
    /\ listed' = <<0>> \o Retain([n \in 1..MaxRotated |-> n], {n \in 1..MaxRotated : rotated[n] # 0})
    /\ qpc' = "read"
    /\ UNCHANGED <<tailer, next, all, filter, result, before, overlap>>

(* events_files_oldest_first: which of the rotated files exist. *)
ListNext ==
    /\ qpc = "list"
    /\ \/ /\ next # 0
          /\ listed' = IF rotated[next] # 0 THEN Append(listed, next) ELSE listed
          /\ next' = next - 1
          /\ UNCHANGED qpc
       \/ /\ next = 0
          /\ listed' = Append(listed, 0)
          /\ qpc' = "read"
          /\ UNCHANGED next
    /\ UNCHANGED <<tailer, all, filter, result, before, overlap>>

(* read_file_or_empty and parse_events_file, of the next file by its name. *)
ReadNext ==
    /\ qpc = "read" /\ listed # <<>>
    /\ all' = all \o Parse(ContentAt(Head(listed)))
    /\ listed' = Tail(listed)
    /\ UNCHANGED <<tailer, qpc, next, filter, result, before, overlap>>

(* A read that fails ends the query with an error. *)
ReadFails ==
    /\ qpc = "read" /\ listed # <<>>
    /\ qpc' = "done" /\ listed' = <<>>
    /\ UNCHANGED <<tailer, next, all, filter, result, before, overlap>>

Return ==
    /\ qpc = "read" /\ listed = <<>>
    /\ result' = Filtered(all, filter)
    /\ qpc' = "done"
    /\ UNCHANGED <<tailer, next, listed, all, filter, before, overlap>>

------------------------------------------------------------------------------
Next ==
    \/ BeginAppend \/ Prune \/ Shift \/ RenameLog \/ CreateLog
    \/ OpenFails \/ Write \/ WriteRest
    \/ BeginQuery \/ ListNext \/ ReadNext \/ ReadFails \/ Return

Spec == Init /\ [][Next]_vars

------------------------------------------------------------------------------
(* Properties *)

(* Every record in every file was written whole, or is being written. *)
NothingTorn ==
    \A i \in DOMAIN appended : \A k \in DOMAIN appended[i] :
        LET m == appended[i][k] IN
        m.end = m.full \/ (i = log /\ k = Len(appended[i]) /\ tpc = "rest")

(* QueryInOrder: whatever is appended and rotated while a query runs, and    *)
(* whichever renames fail, it returns each entry at most once and in the     *)
(* order of their timestamps: files only move to older names, and the query  *)
(* goes from the oldest name to the newest.                                  *)
QueryInOrder ==
    NothingTorn => \A i, j \in DOMAIN all : i < j => all[i].ms < all[j].ms

(* QueryComplete: a query that no rotation overlaps returns everything that  *)
(* was in the files when it began, and what was appended since, as far as    *)
(* the filter lets it: the last entries of those in the window.              *)
QueryComplete ==
    NothingTorn /\ ~overlap /\ result # None =>
        LET wanted == {e \in Range(all) : /\ filter.since # None => e.ms >= filter.since
                                          /\ filter.until # None => e.ms <= filter.until}
        IN  /\ IsPrefix(before, all)
            /\ IsSuffix(result, Retain(all, wanted))
            /\ Len(result) = IF filter.tail = None \/ Cardinality(wanted) < filter.tail
                             THEN Cardinality(wanted) ELSE filter.tail

(* ParseRecovers: an append that failed half way costs the records up to the *)
(* end it announced and the one that reaches past it; the parser is back in  *)
(* step with the next one.                                                   *)
ParseRecovers ==
    \A i \in DOMAIN files : \A k \in DOMAIN appended[i] :
        LET ms == appended[i]
            torn == {j \in 1..k : ms[j].end # ms[j].full}
        IN  (\A j \in torn : \E h \in j + 1..k - 1 : h \notin torn /\ ms[h].end >= ms[j].full)
            => ms[k].entry \in Range(Parse(files[i]))
=============================================================================
