----------------------------- MODULE MCLogQuery ------------------------------
EXTENDS LogQuery

Line == [stream |-> "stdout", data |-> <<Other, Newline>>]

(* Pieces of lines that were too long for the tailer's buffer, one longer   *)
(* than the records of the others.                                          *)
Piece == [stream |-> "stderr", data |-> <<Other>>]
LongPiece == [stream |-> "stdout", data |-> [i \in 1..12 |-> Other]]

NoFilter == [since |-> None, until |-> None, tail |-> None]

(* Every record rotates; or a file holds all of them. *)
AllSettings ==
    {[limit |-> 10, lines |-> {Line},
      filters |-> {NoFilter, [since |-> Epoch + 1, until |-> None, tail |-> 1],
                   [since |-> None, until |-> Epoch + 1, tail |-> None]}],
     [limit |-> 60, lines |-> {Line, Piece, LongPiece}, filters |-> {NoFilter}]}
=============================================================================
