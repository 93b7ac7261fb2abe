----------------------------- MODULE EventCodec ------------------------------
(***************************************************************************)
(* The records of events.log: encode_record_into, decode_event_with_len,   *)
(* the parser with its resynchronisation, and the filter of a query.       *)
(*                                                                         *)
(* Bytes are the digits, the space, the two stream letters, the newline    *)
(* and one for all others.  The plus sign that parse takes before a number *)
(* is one of these: a number misread out of the data begins with none.     *)
(***************************************************************************)
EXTENDS Naturals, Sequences

CONSTANTS
    MaxRecordBytes,  \* MAX_RECORD_BYTES
    MaxU64,          \* u64::MAX
    None

ASSUME CodecAssumption ==
    /\ MaxRecordBytes \in Nat /\ MaxU64 \in Nat /\ MaxRecordBytes <= MaxU64
    /\ None \notin Nat

Space == 10
Stream == [stdout |-> 11, stderr |-> 12]
Newline == 13
Other == 14
Byte == 0..14

Entry == [ms : Nat, stream : {"stdout", "stderr"}, data : Seq(Byte)]

(* to_string of a number: its decimal digits. *)
Decimal[n \in Nat] == IF n < 10 THEN <<n>> ELSE Append(Decimal[n \div 10], n % 10)

(* encode_record_into *)
Encode(e) ==
    Decimal[e.ms] \o <<Space, Stream[e.stream], Space>> \o Decimal[Len(e.data)]
        \o <<Space>> \o e.data \o <<Newline>>

(* The position of the first byte b of s; 0 if there is none. *)
Find(s, b) ==
    LET at == {i \in DOMAIN s : s[i] = b}
    IN  IF at = {} THEN 0 ELSE CHOOSE i \in at : \A j \in at : i <= j

(* The number whose decimal digits are those of s. *)
Value(s) ==
    LET value[i \in 0..Len(s)] == IF i = 0 THEN 0 ELSE 10 * value[i - 1] + s[i]
    IN  value[Len(s)]

(* parse::<u64> of a string, None if it is no number or too large. *)
Number(s) ==
    IF s # <<>> /\ (\A i \in DOMAIN s : s[i] \in 0..9) /\ Value(s) <= MaxU64
    THEN Value(s) ELSE None

From(s, i) == SubSeq(s, i, Len(s))

NeedMore == [kind |-> "more"]
Malformed == [kind |-> "malformed"]

(* The end of the header and the length it gives, if there is a header. *)
Window(s, space1) ==
    LET rest == From(s, space1 + 3)
        space2 == Find(rest, Space)
        len == Number(SubSeq(rest, 1, space2 - 1))
        start == space1 + 2 + space2
    IN  IF space2 = 0 THEN NeedMore
        ELSE IF len = None THEN Malformed
        ELSE IF len > MaxRecordBytes THEN Malformed
        ELSE [kind |-> "window", start |-> start, end |-> start + len]

(* decode_event_with_len *)
Decode(s) ==
    LET space1 == Find(s, Space)
        ms == Number(SubSeq(s, 1, space1 - 1))
        letter == s[space1 + 1]
        w == Window(s, space1)
    IN  IF space1 = 0 THEN NeedMore
        ELSE IF ms = None THEN Malformed
        ELSE IF Len(s) < space1 + 2 THEN NeedMore
        ELSE IF s[space1 + 2] # Space \/ letter \notin {Stream.stdout, Stream.stderr}
             THEN Malformed
        ELSE IF w.kind # "window" THEN w
        ELSE IF Len(s) < w.end + 1 THEN NeedMore
        ELSE IF s[w.end + 1] # Newline THEN Malformed
        ELSE [kind |-> "record", consumed |-> w.end + 1,
              entry |-> [ms |-> ms,
                         stream |-> IF letter = Stream.stdout THEN "stdout" ELSE "stderr",
                         data |-> SubSeq(s, w.start + 1, w.end)]]

(* Mutant: a malformed record ends the file. *)
ParseWithoutResync(s) ==
    LET from[c \in 0..Len(s)] ==
            LET d == Decode(From(s, c + 1)) IN
            IF d.kind = "record" THEN <<d.entry>> \o from[c + d.consumed] ELSE <<>>
    IN  from[0]

(* parse_events_file: from[c] is what the bytes after the first c give. *)
Parse(s) ==
    LET from[c \in 0..Len(s)] ==
            LET d == Decode(From(s, c + 1))
                skip == Find(From(s, c + 1), Newline)
            IN  CASE d.kind = "record" -> <<d.entry>> \o from[c + d.consumed]
                  [] d.kind = "malformed" /\ skip # 0 -> from[c + skip]
                  [] OTHER -> <<>>
    IN  from[0]

(* Vec::retain: the elements of s that are in S, in their order. *)
Retain(s, S) ==
    LET kept[i \in 0..Len(s)] ==
            IF i = 0 THEN <<>>
            ELSE IF s[i] \in S THEN Append(kept[i - 1], s[i]) ELSE kept[i - 1]
    IN  kept[Len(s)]

(* The entries since, and until, the times of a filter. *)
Since(f) == {e \in Entry : f.since = None \/ e.ms >= f.since}
Until(f) == {e \in Entry : f.until = None \/ e.ms <= f.until}

(* Mutant: the first of the entries are kept, not the last. *)
FilteredFirst(all, f) ==
    LET in == Retain(Retain(all, Since(f)), Until(f))
    IN  IF f.tail # None /\ Len(in) > f.tail THEN SubSeq(in, 1, f.tail) ELSE in

(* container_logs_filtered, of all entries. *)
Filtered(all, f) ==
    LET in == Retain(Retain(all, Since(f)), Until(f))
    IN  IF f.tail # None /\ Len(in) > f.tail THEN From(in, Len(in) - f.tail + 1) ELSE in
=============================================================================
