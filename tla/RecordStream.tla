---------------------------- MODULE RecordStream ----------------------------
(***************************************************************************)
(* What a CSV record reader promises its scanner: the records of the file, *)
(* split at the row delimiter (leftmost match first), one per call, in     *)
(* order, then EndOfFile.  A last line without a trailing delimiter is a   *)
(* record like any other.  The reader may fail with "line length exceed    *)
(* limit" only when the next record and its delimiter do not fit in a     *)
(* buffer of Capacity bytes, and with an IO error at any time.             *)
(***************************************************************************)
EXTENDS Naturals, Sequences, FiniteSets

CONSTANTS
  Capacity,   \* size of the reader's buffer, in bytes
  Delim,      \* the row delimiter, a sequence of bytes
  Files,      \* the candidate file contents, sequences of bytes
  IOErrors    \* whether the byte source may fail

VARIABLES
  file,       \* the content of the file being read
  recs,       \* the records returned so far
  st          \* "reading", or how reading ended

vars == <<file, recs, st>>

L == Len(Delim)

(* The delimiter occurs in s at position i.                                *)
DelimAt(s, i) == i >= 1 /\ i + L - 1 <= Len(s) /\ SubSeq(s, i, i + L - 1) = Delim

DelimsIn(s) == {i \in 1..Len(s) : DelimAt(s, i)}

LeftmostDelim(s) == CHOOSE i \in DelimsIn(s) : \A j \in DelimsIn(s) : i <= j

(* The records of s: the text before each leftmost delimiter, and the     *)
(* rest of the file when it does not end with one.                        *)
Split[s \in Seq(STRING)] ==
  IF s = <<>> THEN <<>>
  ELSE IF DelimsIn(s) = {} THEN <<s>>
  ELSE LET i == LeftmostDelim(s)
       IN  <<SubSeq(s, 1, i - 1)>> \o Split[SubSeq(s, i + L, Len(s))]

Records == Split[file]

NextRecord == Records[Len(recs) + 1]

Init ==
  /\ file \in Files
  /\ recs = <<>>
  /\ st = "reading"

Emit ==
  /\ st = "reading"
  /\ Len(recs) < Len(Records)
  /\ Len(NextRecord) + L <= Capacity
  /\ recs' = Append(recs, NextRecord)
  /\ UNCHANGED <<file, st>>

TooLong ==
  /\ st = "reading"
  /\ Len(recs) < Len(Records)
  /\ Len(NextRecord) + L > Capacity
  /\ st' = "too_long"
  /\ UNCHANGED <<file, recs>>

EndOfFile ==
  /\ st = "reading"
  /\ Len(recs) = Len(Records)
  /\ st' = "eof"
  /\ UNCHANGED <<file, recs>>

Fail ==
  /\ st = "reading"
  /\ IOErrors
  /\ st' = "io_error"
  /\ UNCHANGED <<file, recs>>

Next == Emit \/ TooLong \/ EndOfFile \/ Fail

(* The reader keeps being called until it returns EndOfFile or an error.  *)
Spec == Init /\ [][Next]_vars /\ WF_vars(Next)

=============================================================================
