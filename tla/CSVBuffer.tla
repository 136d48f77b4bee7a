------------------------------ MODULE CSVBuffer ------------------------------
(***************************************************************************)
(* The read buffer of ScannerCSVReader (be/src/exec/csv_scanner.cpp) and   *)
(* the record loop of CSVReader::next_record that drives it.              *)
(*                                                                         *)
(* _fill_buffer reads up to free_space() bytes of the file at the buffer's *)
(* limit.  At the end of the file it appends a row delimiter when the      *)
(* unread bytes do not already end with one, and returns EndOfFile when    *)
(* no unread byte was left.  next_record (not in this repository; modelled *)
(* from the reader contract of the specification) returns the bytes up to  *)
(* the first delimiter of the unread window and skips past it; while the   *)
(* window holds no delimiter it compacts a full buffer and refills it.     *)
(***************************************************************************)
EXTENDS Naturals, Sequences, FiniteSets

CONSTANTS Capacity, Delim, Files, IOErrors

ASSUME CapacityAssumption == Capacity \in Nat \ {0}
ASSUME DelimAssumption == Delim \in Seq(STRING) /\ Delim # <<>>
ASSUME FilesAssumption == Files \subseteq Seq(STRING) /\ Files # {}
ASSUME IOErrorsAssumption == IOErrors \in BOOLEAN

VARIABLES
  file,   \* the content of the file (ghost)
  src,    \* the bytes the file has not yet returned to read()
  buf,    \* the buffer's bytes [0, limit)
  pos,    \* the buffer's position: bytes before it are consumed
  recs,   \* the records next_record has returned
  st      \* "reading", or the status that ended reading

vars == <<file, src, buf, pos, recs, st>>

(* The reader promises the records of the file (refinement mapping: the   *)
(* identity on file, recs and st).                                        *)
RS == INSTANCE RecordStream WITH file <- file, recs <- recs, st <- st

L == Len(Delim)
FreeSpace == Capacity - Len(buf)

(* The unread bytes [position, limit).                                     *)
Window == SubSeq(buf, pos + 1, Len(buf))

Min2(a, b) == IF a <= b THEN a ELSE b

(* _find_line_delimiter: the offset in the window of the first delimiter  *)
(* found from the position, 0 when there is none.                         *)
FindLineDelimiter ==
  IF RS!DelimsIn(Window) = {} THEN 0 ELSE RS!LeftmostDelim(Window)

-----------------------------------------------------------------------------
(* Mutant of ReadSizes: a read not bounded by the free space.             *)
ReadSizesIgnoreFree(b) ==
  IF src = <<>> THEN {0} ELSE 1..Len(src)

(* How many bytes one file->read into the free space of buffer b returns: *)
(* 0 only at the end of the file, a short read otherwise.                 *)
ReadSizes(b) ==
  IF src = <<>> THEN {0} ELSE 1..Min2(Capacity - Len(b), Len(src))

(* Mutant of NeedsDelim: the end test looks at the last byte only.        *)
NeedsDelimLastByte(b1, p) ==
  Len(b1) - p < L \/ b1[Len(b1)] # Delim[L]

(* At the end of the file, buffer b1 with position p needs a delimiter    *)
(* appended: fewer than L unread bytes, or no delimiter found from n - L.  *)
NeedsDelim(b1, p) ==
  Len(b1) - p < L \/ ~RS!DelimAt(b1, Len(b1) - L + 1)

(* Mutant of NoRoomForDelim: off by one, a delimiter that fits exactly is *)
(* refused.                                                               *)
NoRoomForDelimOffByOne(b1) == Capacity - Len(b1) <= L

(* free_space() < row delimiter length.                                   *)
NoRoomForDelim(b1) == Capacity - Len(b1) < L

EofAppend(b1, p) ==
  IF NeedsDelim(b1, p) THEN b1 \o Delim ELSE b1

(* _fill_buffer on buffer b with position p: the read fails, or returns k *)
(* bytes; k = 0 is the end of the file, where "line length exceed limit"  *)
(* is returned when a needed delimiter does not fit, and otherwise it is  *)
(* appended and, when no byte was unread (n = 0), skipped and EndOfFile   *)
(* returned.                                                              *)
FillBuffer(b, p) ==
  \/ /\ IOErrors
     /\ st' = "io_error"
     /\ buf' = b /\ pos' = p
     /\ UNCHANGED <<file, src, recs>>
  \/ \E k \in ReadSizes(b) :
       LET b1 == b \o SubSeq(src, 1, k)
       IN  /\ src' = SubSeq(src, k + 1, Len(src))
           /\ UNCHANGED <<file, recs>>
           /\ IF k > 0 THEN buf' = b1 /\ pos' = p /\ UNCHANGED st
              ELSE IF NeedsDelim(b1, p) /\ NoRoomForDelim(b1)
                   THEN st' = "too_long" /\ buf' = b1 /\ pos' = p
              ELSE /\ buf' = EofAppend(b1, p)
                   /\ IF Len(b1) = p THEN pos' = p + L /\ st' = "eof"
                      ELSE pos' = p /\ UNCHANGED st

-----------------------------------------------------------------------------
Init ==
  /\ file \in Files
  /\ src = file
  /\ buf = <<>>
  /\ pos = 0
  /\ recs = <<>>
  /\ st = "reading"

(* next_record: the window holds a delimiter; the record is the bytes     *)
(* before the leftmost one, and the position moves past it.               *)
NextRecordFound ==
  /\ st = "reading"
  /\ FindLineDelimiter # 0
  /\ LET i == FindLineDelimiter
     IN  /\ recs' = Append(recs, SubSeq(Window, 1, i - 1))
         /\ pos' = pos + i - 1 + L
  /\ UNCHANGED <<file, src, buf, st>>

(* next_record: no delimiter in the window; a full buffer is compacted    *)
(* (the window moved to its start), a buffer that is still full fails     *)
(* with "line length exceed limit", and otherwise _fill_buffer runs.      *)
NextRecordRefill ==
  /\ st = "reading"
  /\ FindLineDelimiter = 0
  /\ LET b == IF FreeSpace = 0 THEN Window ELSE buf
         p == IF FreeSpace = 0 THEN 0 ELSE pos
     IN  IF Len(b) = Capacity
         THEN st' = "too_long" /\ UNCHANGED <<file, src, buf, pos, recs>>
         ELSE FillBuffer(b, p)

(* The scanner stops calling next_record after EndOfFile or an error.     *)
Stopped ==
  /\ st # "reading"
  /\ UNCHANGED vars

Next == NextRecordFound \/ NextRecordRefill \/ Stopped

(* The scanner keeps calling next_record, and each call runs to its end.  *)
Spec == Init /\ [][Next]_vars /\ WF_vars(Next)

-----------------------------------------------------------------------------
(* Properties.                                                             *)

TypeOK ==
  /\ file \in Files
  /\ src \in Seq(STRING)
  /\ buf \in Seq(STRING) /\ Len(buf) <= Capacity
  /\ pos \in 0..Len(buf)
  /\ recs \in Seq(Seq(STRING))
  /\ st \in {"reading", "eof", "too_long", "io_error"}

(* Whatever the read sizes, the compactions and the end of the file, the   *)
(* reader returns the records of the file in order and then EndOfFile,     *)
(* a last line without delimiter included, and reports "line length      *)
(* exceed limit" only for a record that cannot fit in the buffer with its *)
(* delimiter (_fill_buffer's end-of-file handling, lines 106-122).        *)
ImplementsRecordStream == RS!Spec

=============================================================================
