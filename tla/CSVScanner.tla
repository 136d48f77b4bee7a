----------------------------- MODULE CSVScanner -----------------------------
(***************************************************************************)
(* The row loop of StarRocks' CSVScanner (be/src/exec/csv_scanner.cpp):    *)
(* get_next, _init_reader, _parse_csv (plain mode) and _parse_csv_v2       *)
(* (enclose/escape mode), over a sequence of scan ranges.                  *)
(*                                                                         *)
(* The byte-level reader is abstracted: a file is the sequence of records  *)
(* its reader returns, each record classified by what the scanner tests    *)
(* of it: its field count, whether it is valid UTF-8 and which of its      *)
(* fields fail to convert to the slot type.  A read of the reader may      *)
(* also time out or fail, and the scanner is re-entered by its caller      *)
(* after every get_next that returned a chunk or a timeout.                *)
(***************************************************************************)
EXTENDS Naturals, Sequences, FiniteSets

CONSTANTS
  NumFields,     \* _num_fields_in_csv: columns the file is declared to have
  Slots,         \* positions j in 1..NumFields whose slot descriptor is not null
  ChunkSize,     \* _state->chunk_size(): rows per chunk
  ReportMax,     \* REPORT_ERROR_MAX_NUMBER
  MaxTimeouts,   \* bound on the timeouts the source may produce in one run
  SkipHeader,    \* _parse_options.skip_header
  Configs,       \* candidate scan configurations (scan type and flags)
  Ranges,        \* candidate scan ranges: sequences of files
  NoReader       \* _curr_reader == nullptr

ScanTypes == {"LOAD", "FILES_INSERT", "FILES_QUERY"}

(* A record as the scanner sees it: n fields (0 = blank row), utf8        *)
(* validity, and the set of field positions whose value does not parse.   *)
Row == [n : Nat, utf8 : BOOLEAN, bad : SUBSET Nat]

(* A file of a scan range: whether the range starts at an offset > 0      *)
(* (its first record is a partial line owned by the previous range) and   *)
(* its records.                                                           *)
File == [offset : BOOLEAN, rows : Seq(Row)]

Config == [scanType : ScanTypes, strict : BOOLEAN, flexible : BOOLEAN,
           logRejected : BOOLEAN, v2 : BOOLEAN, ioErrors : BOOLEAN]

ASSUME NumFieldsAssumption == NumFields \in Nat \ {0}
ASSUME SlotsAssumption == Slots \subseteq 1..NumFields /\ Slots # {}
ASSUME ChunkSizeAssumption == ChunkSize \in Nat \ {0}
ASSUME ReportMaxAssumption == ReportMax \in Nat
ASSUME MaxTimeoutsAssumption == MaxTimeouts \in Nat
ASSUME SkipHeaderAssumption == SkipHeader \in Nat
ASSUME ConfigsAssumption == Configs \subseteq Config /\ Configs # {}
ASSUME RangesAssumption == Ranges \subseteq Seq(File) /\ Ranges # {}
ASSUME NoReaderAssumption == NoReader \notin Nat

VARIABLES
  conf,        \* scan configuration (_file_scan_type, _strict_mode, ...)
  ranges,      \* _scan_range.ranges, as the files they read
  pc,          \* "idle" between calls, "init" in _init_reader, "parse" in the row loop, "done"
  fileIdx,     \* _curr_file_index + 1 (0 before the first file)
  reader,      \* records consumed by _curr_reader, or NoReader
  cols,        \* sizes of the chunk's columns, one per slot
  batch,       \* rows counted by num_rows in the running _parse_csv (ghost ids)
  out,         \* rows of the chunks get_next returned (ghost ids)
  filtered,    \* _counter->num_rows_filtered
  filteredIds, \* the rows counted by num_rows_filtered (ghost)
  reported,    \* calls of _report_error
  rejected,    \* records appended to the rejected-record log
  timeouts,    \* timeouts produced so far
  result       \* last status get_next returned to its caller

vars == <<conf, ranges, pc, fileIdx, reader, cols, batch, out, filtered,
          filteredIds, reported, rejected, timeouts, result>>

-----------------------------------------------------------------------------
(* Records and ranges.                                                     *)

Rows(f) == ranges[f].rows

(* Records _init_reader consumes before the first data row of file f:     *)
(* the partial first line after a start offset, then the header rows.     *)
Skipped(f) == (IF ranges[f].offset THEN 1 ELSE 0) + SkipHeader

RowIds == UNION {{<<f, i>> : i \in 1..Len(Rows(f))} : f \in 1..Len(ranges)}
DataRowIds == {id \in RowIds : id[2] > Skipped(id[1])}
RowOf(id) == Rows(id[1])[id[2]]

(* Column-count policy of _parse_csv / _parse_csv_v2.                      *)
(* FilteredShape: broker/stream load and insert-from-files filter the row. *)
(* FailedShape: a files() query fails the whole scan.                      *)
FilteredShape(r) ==
  /\ \/ conf.scanType = "LOAD" /\ r.n # NumFields
     \/ conf.scanType = "FILES_INSERT" /\ r.n < NumFields
  /\ ~conf.flexible
FailedShape(r) ==
  /\ conf.scanType = "FILES_QUERY" /\ r.n < NumFields
  /\ ~conf.flexible

(* Slot positions whose converter returns false: with invalid_field_as_   *)
(* null (non-strict) every converter succeeds; positions past the row's   *)
(* last field get append_default and never fail.                           *)
FailingSlots(r) == IF conf.strict THEN {j \in Slots : j <= r.n /\ j \in r.bad} ELSE {}

-----------------------------------------------------------------------------
(* The chunk.                                                              *)

ZeroCols == [j \in Slots |-> 0]

(* Chunk::num_rows(): the size of its first column (slot order).          *)
FirstSlot == CHOOSE j \in Slots : \A i \in Slots : j <= i
NumRowsOf(c) == c[FirstSlot]

(* The converter loop over j appends to every slot before the first      *)
(* failing one, then stops.                                               *)
AppendUpTo(c, r) ==
  IF FailingSlots(r) = {} THEN [j \in Slots |-> c[j] + 1]
  ELSE LET stop == CHOOSE j \in FailingSlots(r) : \A i \in FailingSlots(r) : j <= i
       IN  [j \in Slots |-> IF j < stop THEN c[j] + 1 ELSE c[j]]

(* chunk->set_num_rows(n): every column resized to n.                     *)
SetNumRows(c, n) == [j \in Slots |-> n]

(* Mutants of FillRow: no set_num_rows rollback after a failed converter; *)
(* a rollback to num_rows - 1.                                            *)
FillRowNoRollback(c, r, numRows) == AppendUpTo(c, r)
FillRow(c, r, numRows) ==
  IF FailingSlots(r) = {} THEN AppendUpTo(c, r)
  ELSE SetNumRows(AppendUpTo(c, r), numRows)

(* Mutant of FilterRow: the cap tested as num_rows_filtered <= max.       *)
FilterRowReportOffByOne(id) ==
  /\ filtered' = filtered + 1
  /\ filteredIds' = filteredIds \cup {id}
  /\ reported' = IF filtered <= ReportMax THEN reported + 1 ELSE reported
  /\ rejected' = IF conf.logRejected THEN rejected + 1 ELSE rejected

(* num_rows_filtered++, with _report_error while it was below the cap and  *)
(* the rejected-record log when enabled.                                   *)
FilterRow(id) ==
  /\ filtered' = filtered + 1
  /\ filteredIds' = filteredIds \cup {id}
  /\ reported' = IF filtered < ReportMax THEN reported + 1 ELSE reported
  /\ rejected' = IF conf.logRejected THEN rejected + 1 ELSE rejected

KeepCounters == UNCHANGED <<filtered, filteredIds, reported, rejected>>

-----------------------------------------------------------------------------
Init ==
  /\ conf \in Configs
  /\ ranges \in Ranges
  /\ pc = "idle"
  /\ fileIdx = 0
  /\ reader = NoReader
  /\ cols = ZeroCols
  /\ batch = <<>>
  /\ out = <<>>
  /\ filtered = 0
  /\ filteredIds = {}
  /\ reported = 0
  /\ rejected = 0
  /\ timeouts = 0
  /\ result = "none"

(* The caller calls get_next again after a chunk or a timeout.            *)
GetNext ==
  /\ pc = "idle"
  /\ pc' = "init"
  /\ UNCHANGED <<conf, ranges, fileIdx, reader, cols, batch, out, filtered,
                 filteredIds, reported, rejected, timeouts, result>>

(* get_next returns status s to its caller; the chunk is released.        *)
Return(s) ==
  /\ pc' = IF s \in {"ok", "timeout"} THEN "idle" ELSE "done"
  /\ result' = s
  /\ cols' = ZeroCols
  /\ batch' = <<>>

TimeoutAllowed == timeouts < MaxTimeouts

-----------------------------------------------------------------------------
(* _init_reader.                                                           *)

(* A reader exists: nothing to do.                                         *)
InitKeepReader ==
  /\ pc = "init"
  /\ reader # NoReader
  /\ pc' = "parse"
  /\ cols' = ZeroCols          \* src_chunk->set_num_rows(0)
  /\ batch' = <<>>
  /\ UNCHANGED <<conf, ranges, fileIdx, reader, out, filtered, filteredIds,
                 reported, rejected, timeouts, result>>

(* No reader and no range left: ++_curr_file_index fails the bound and     *)
(* get_next returns EndOfFile.                                             *)
InitNoMoreFiles ==
  /\ pc = "init"
  /\ reader = NoReader
  /\ fileIdx >= Len(ranges)
  /\ fileIdx' = fileIdx + 1
  /\ Return("eof")
  /\ UNCHANGED <<conf, ranges, reader, out, filtered, filteredIds, reported,
                 rejected, timeouts>>

(* create_sequential_file fails.                                           *)
InitOpenFails ==
  /\ pc = "init"
  /\ reader = NoReader
  /\ fileIdx < Len(ranges)
  /\ conf.ioErrors
  /\ fileIdx' = fileIdx + 1
  /\ Return("error")
  /\ UNCHANGED <<conf, ranges, reader, out, filtered, filteredIds, reported,
                 rejected, timeouts>>

(* Mutants of InitSkipTimeout: the index is not decremented (the range is *)
(* skipped); it is decremented twice.                                     *)
InitSkipTimeoutNoRetry ==
  /\ pc = "init"
  /\ reader = NoReader
  /\ fileIdx < Len(ranges)
  /\ ranges[fileIdx + 1].offset
  /\ TimeoutAllowed
  /\ timeouts' = timeouts + 1
  /\ fileIdx' = fileIdx + 1
  /\ Return("timeout")
  /\ UNCHANGED <<conf, ranges, reader, out, filtered, filteredIds,
                 reported, rejected>>
InitSkipTimeoutDoubleDecrement ==
  /\ pc = "init"
  /\ reader = NoReader
  /\ fileIdx < Len(ranges)
  /\ ranges[fileIdx + 1].offset
  /\ TimeoutAllowed
  /\ timeouts' = timeouts + 1
  /\ fileIdx' = fileIdx - 1
  /\ Return("timeout")
  /\ UNCHANGED <<conf, ranges, reader, out, filtered, filteredIds,
                 reported, rejected>>

(* file->skip(start_offset) times out: --_curr_file_index and the reader   *)
(* is reset, so that the same range is opened by the next call.            *)
InitSkipTimeout ==
  /\ pc = "init"
  /\ reader = NoReader
  /\ fileIdx < Len(ranges)
  /\ ranges[fileIdx + 1].offset
  /\ TimeoutAllowed
  /\ timeouts' = timeouts + 1
  /\ Return("timeout")
  /\ UNCHANGED <<conf, ranges, fileIdx, reader, out, filtered, filteredIds,
                 reported, rejected>>

(* Mutant of InitOpenFile: the skip loop stops one record early.           *)
InitOpenFileShortSkip ==
  /\ pc = "init"
  /\ reader = NoReader
  /\ fileIdx < Len(ranges)
  /\ LET f == fileIdx + 1
         k == Skipped(fileIdx + 1) - 1
     IN
     /\ fileIdx' = f
     /\ \E t \in 0..k :
          /\ reader' = t
          /\ \/ /\ t = k /\ t <= Len(Rows(f))
                /\ pc' = "parse"
                /\ cols' = ZeroCols
                /\ batch' = <<>>
                /\ UNCHANGED <<result, timeouts>>
             \/ /\ t < k /\ t = Len(Rows(f))
                /\ Return("eof")
                /\ UNCHANGED timeouts
             \/ /\ t < k /\ t < Len(Rows(f))
                /\ TimeoutAllowed
                /\ timeouts' = timeouts + 1
                /\ Return("timeout")
             \/ /\ t < k /\ t < Len(Rows(f))
                /\ conf.ioErrors
                /\ Return("error")
                /\ UNCHANGED timeouts
  /\ UNCHANGED <<conf, ranges, out, filtered, filteredIds, reported, rejected>>

(* The reader is created and its first t records are read by the dummy     *)
(* next_record after a start offset and by the skip_header loop; the read  *)
(* of record t+1 ends the loop: all Skipped(f) records were read, or the   *)
(* file had only t records (EndOfFile), or the read timed out or failed.   *)
(* Every early return leaves _curr_reader in place.                        *)
InitOpenFile ==
  /\ pc = "init"
  /\ reader = NoReader
  /\ fileIdx < Len(ranges)
  /\ LET f == fileIdx + 1 IN
     /\ fileIdx' = f
     /\ \E t \in 0..Skipped(f) :
          /\ reader' = t
          /\ \/ /\ t = Skipped(f) /\ t <= Len(Rows(f))
                /\ pc' = "parse"
                /\ cols' = ZeroCols
                /\ batch' = <<>>
                /\ UNCHANGED <<result, timeouts>>
             \/ /\ t < Skipped(f) /\ t = Len(Rows(f))
                /\ Return("eof")
                /\ UNCHANGED timeouts
             \/ /\ t < Skipped(f) /\ t < Len(Rows(f))
                /\ TimeoutAllowed
                /\ timeouts' = timeouts + 1
                /\ Return("timeout")
             \/ /\ t < Skipped(f) /\ t < Len(Rows(f))
                /\ conf.ioErrors
                /\ Return("error")
                /\ UNCHANGED timeouts
  /\ UNCHANGED <<conf, ranges, out, filtered, filteredIds, reported, rejected>>

-----------------------------------------------------------------------------
(* Mutant of EndParse: _curr_reader is not reset at EndOfFile.            *)
EndParseKeepReader(st, c, b, rd) ==
  LET s == IF st = "break" THEN IF NumRowsOf(c) > 0 THEN "ok" ELSE "eof"
           ELSE st
  IN  \/ /\ s = "eof"
         /\ reader' = rd
         /\ pc' = "init"
         /\ cols' = c
         /\ batch' = <<>>
         /\ UNCHANGED <<out, result>>
      \/ /\ s = "ok" \/ (s = "timeout" /\ NumRowsOf(c) > 0)
         /\ reader' = rd
         /\ out' = out \o b
         /\ Return("ok")
      \/ /\ s = "timeout" /\ NumRowsOf(c) = 0
         /\ reader' = rd
         /\ Return("timeout")
         /\ UNCHANGED out
      \/ /\ s \in {"error", "dq_error"}
         /\ reader' = rd
         /\ Return(s)
         /\ UNCHANGED out

(* The end of _parse_csv / _parse_csv_v2 with status st and chunk columns *)
(* c, followed by get_next's handling of that status.  st is "break" when *)
(* the loop ended (capacity or end of file): the parser then returns OK   *)
(* when the chunk has rows and EndOfFile otherwise.                        *)
EndParse(st, c, b, rd) ==
  LET s == IF st = "break" THEN IF NumRowsOf(c) > 0 THEN "ok" ELSE "eof"
           ELSE st
  IN  \/ /\ s = "eof"                 \* _curr_reader = nullptr; loop on
         /\ reader' = NoReader
         /\ pc' = "init"
         /\ cols' = c
         /\ batch' = <<>>
         /\ UNCHANGED <<out, result>>
      \/ /\ s = "ok" \/ (s = "timeout" /\ NumRowsOf(c) > 0)
         /\ reader' = rd
         /\ out' = out \o b
         /\ Return("ok")
      \/ /\ s = "timeout" /\ NumRowsOf(c) = 0
         /\ reader' = rd
         /\ Return("timeout")
         /\ UNCHANGED out
      \/ /\ s \in {"error", "dq_error"}
         /\ reader' = rd
         /\ Return(s)
         /\ UNCHANGED out

-----------------------------------------------------------------------------
(* One iteration of the row loop of _parse_csv / _parse_csv_v2: the       *)
(* record r (id) was returned by next_record, the reader now at rd;       *)
(* eof: the v2 reader returned EndOfFile together with this last row.     *)

(* Blank row: skipped (v2: the loop ends when it came with EndOfFile).    *)
RowBlank(r, eof, rd) ==
  /\ r.n = 0
  /\ KeepCounters
  /\ IF eof THEN EndParse("break", cols, batch, rd)
     ELSE /\ reader' = rd
          /\ UNCHANGED <<pc, cols, batch, out, result>>

(* Column count mismatch in a load: the row is filtered and reported; v2  *)
(* ends the loop without counting it when it came with EndOfFile.         *)
RowShapeFiltered(r, id, eof, rd) ==
  /\ r.n # 0
  /\ FilteredShape(r)
  /\ IF eof THEN EndParse("break", cols, batch, rd) /\ KeepCounters
     ELSE /\ FilterRow(id)
          /\ reader' = rd
          /\ UNCHANGED <<pc, cols, batch, out, result>>

(* Too few columns in a files() query: DataQualityError for the scan; v2  *)
(* ends the loop instead when the row came with EndOfFile.                *)
RowShapeFailed(r, eof, rd) ==
  /\ r.n # 0
  /\ FailedShape(r)
  /\ KeepCounters
  /\ IF eof THEN EndParse("break", cols, batch, rd)
     ELSE EndParse("dq_error", cols, batch, rd)

(* validate_utf8 fails: the row is filtered and the loop goes on.         *)
RowInvalidUtf8(r, id, rd) ==
  /\ r.n # 0
  /\ ~FilteredShape(r) /\ ~FailedShape(r)
  /\ ~r.utf8
  /\ FilterRow(id)
  /\ reader' = rd
  /\ UNCHANGED <<pc, cols, batch, out, result>>

(* Mutant of RowConverted: the reader is not advanced past a loaded row.  *)
RowConvertedNoAdvance(r, id, eof, rd) ==
  /\ r.n # 0
  /\ ~FilteredShape(r) /\ ~FailedShape(r)
  /\ r.utf8
  /\ LET c == FillRow(cols, r, Len(batch))
         b == IF FailingSlots(r) = {} THEN Append(batch, id) ELSE batch
     IN  /\ IF FailingSlots(r) = {} THEN KeepCounters ELSE FilterRow(id)
         /\ IF eof THEN EndParse("break", c, b, rd)
            ELSE /\ cols' = c
                 /\ batch' = b
                 /\ reader' = rd - 1
                 /\ UNCHANGED <<pc, out, result>>

(* The converters run over the slots; a failure rolls the chunk back to   *)
(* num_rows and filters the row, a success counts it.                     *)
RowConverted(r, id, eof, rd) ==
  /\ r.n # 0
  /\ ~FilteredShape(r) /\ ~FailedShape(r)
  /\ r.utf8
  /\ LET c == FillRow(cols, r, Len(batch))
         b == IF FailingSlots(r) = {} THEN Append(batch, id) ELSE batch
     IN  /\ IF FailingSlots(r) = {} THEN KeepCounters ELSE FilterRow(id)
         /\ IF eof THEN EndParse("break", c, b, rd)
            ELSE /\ cols' = c
                 /\ batch' = b
                 /\ reader' = rd
                 /\ UNCHANGED <<pc, out, result>>

(* next_record at the reader's position, then the row's handling.          *)
ParseRead ==
  /\ pc = "parse"
  /\ Len(batch) < ChunkSize
  /\ LET f == fileIdx
         p == reader
     IN  \/ /\ p = Len(Rows(f))             \* EndOfFile: the loop ends
            /\ EndParse("break", cols, batch, p)
            /\ UNCHANGED timeouts /\ KeepCounters
         \/ /\ p < Len(Rows(f))            \* the read times out
            /\ TimeoutAllowed
            /\ timeouts' = timeouts + 1
            /\ EndParse("timeout", cols, batch, p)
            /\ KeepCounters
         \/ /\ p < Len(Rows(f))            \* the read fails
            /\ conf.ioErrors
            /\ EndParse("error", cols, batch, p)
            /\ UNCHANGED timeouts /\ KeepCounters
         \/ /\ p < Len(Rows(f))
            /\ UNCHANGED timeouts
            /\ LET r == Rows(f)[p + 1]
                   id == <<f, p + 1>>
               IN  \E eof \in IF conf.v2 /\ p + 1 = Len(Rows(f)) THEN BOOLEAN ELSE {FALSE} :
                     \/ RowBlank(r, eof, p + 1)
                     \/ RowShapeFiltered(r, id, eof, p + 1)
                     \/ RowShapeFailed(r, eof, p + 1)
                     \/ RowInvalidUtf8(r, id, p + 1)
                     \/ RowConverted(r, id, eof, p + 1)
  /\ UNCHANGED <<conf, ranges, fileIdx>>

(* The loop condition num_rows < capacity fails: the chunk is full.       *)
ParseFull ==
  /\ pc = "parse"
  /\ Len(batch) >= ChunkSize
  /\ EndParse("break", cols, batch, reader)
  /\ UNCHANGED <<conf, ranges, fileIdx, timeouts>> /\ KeepCounters

(* The caller stops calling get_next after EndOfFile or an error.         *)
Terminated ==
  /\ pc = "done"
  /\ UNCHANGED vars

Next ==
  \/ GetNext
  \/ InitKeepReader \/ InitNoMoreFiles \/ InitOpenFails \/ InitSkipTimeout
  \/ InitOpenFile
  \/ ParseRead \/ ParseFull
  \/ Terminated

(* Each step is the scanner's own computation or the caller's next call;  *)
(* the caller keeps calling get_next until EndOfFile or an error.          *)
Spec == Init /\ [][Next]_vars /\ WF_vars(Next)

-----------------------------------------------------------------------------
(* Properties.                                                             *)

TypeOK ==
  /\ conf \in Config
  /\ ranges \in Seq(File)
  /\ pc \in {"idle", "init", "parse", "done"}
  /\ fileIdx \in Nat
  /\ reader \in Nat \cup {NoReader}
  /\ cols \in [Slots -> Nat]
  /\ batch \in Seq(Nat \X Nat)
  /\ out \in Seq(Nat \X Nat)
  /\ filtered \in Nat
  /\ filteredIds \subseteq Nat \X Nat
  /\ reported \in Nat
  /\ rejected \in Nat
  /\ timeouts \in 0..MaxTimeouts
  /\ result \in {"none", "ok", "timeout", "eof", "error", "dq_error"}

(* Strengthening of TypeOK used by the proofs: a reader exists only for  *)
(* an opened range and is never past its last record, and the row loop    *)
(* always runs with a reader.                                             *)
ReaderInv ==
  /\ reader # NoReader => /\ fileIdx \in 1..Len(ranges)
                          /\ reader \in 0..Len(Rows(fileIdx))
  /\ pc = "parse" => reader # NoReader

IInv == TypeOK /\ ReaderInv

(* Every column of the chunk under construction holds exactly the rows    *)
(* counted so far: a strict-mode conversion failure in a later slot must  *)
(* not leave the values already appended to earlier slots behind          *)
(* (chunk->set_num_rows(num_rows) in _parse_csv / _parse_csv_v2).         *)
ChunkAligned == \A j \in Slots : cols[j] = Len(batch)

(* _report_error is called for the first ReportMax filtered rows of the   *)
(* scan and never after (num_rows_filtered++ < REPORT_ERROR_MAX_NUMBER).  *)
ReportCap == reported = IF filtered < ReportMax THEN filtered ELSE ReportMax

Delivered == out \o batch
Precedes(a, b) == a[1] < b[1] \/ (a[1] = b[1] /\ a[2] < b[2])
InOrder(s) == \A i, k \in 1..Len(s) : i < k => Precedes(s[i], s[k])

(* Across calls, timeouts, re-opened ranges and chunk boundaries, the     *)
(* rows get_next returns are in file order and none is returned twice.    *)
DeliveredInOrder == InOrder(Delivered)

(* No record that _init_reader is meant to consume (the partial line      *)
(* after a start offset, the skip_header rows) is ever returned as data.  *)
NoHeaderDelivered ==
  \A i \in 1..Len(Delivered) : Delivered[i] \in DataRowIds

(* Strengthenings used by the proofs of the two invariants above.  Every *)
(* row returned or counted so far lies before the reader's position: at   *)
(* or before record r of range f while a reader is open at r, in a range *)
(* up to f when none is.                                                  *)
ReadBefore(id, f, r) ==
  IF r = NoReader THEN id[1] <= f ELSE Precedes(id, <<f, r + 1>>)

OrderInv ==
  /\ DeliveredInOrder
  /\ \A k \in 1..Len(Delivered) : ReadBefore(Delivered[k], fileIdx, reader)

(* Unless get_next has returned, an open reader is past the records       *)
(* _init_reader skips.                                                    *)
HeaderInv ==
  /\ NoHeaderDelivered
  /\ (reader # NoReader /\ pc # "done") => reader >= Skipped(fileIdx)

(* What the column-count, UTF-8 and conversion policies decide for a row, *)
(* tested in the order of the row loop: the first test that applies wins. *)
Verdict(r) ==
  IF r.n = 0 THEN "blank"
  ELSE IF FilteredShape(r) THEN "filter"
  ELSE IF FailedShape(r) THEN "fail"
  ELSE IF ~r.utf8 \/ FailingSlots(r) # {} THEN "filter"
  ELSE "load"

DeliveredSet == {Delivered[i] : i \in 1..Len(Delivered)}

(* A scan that ends with EndOfFile has returned every data row of every   *)
(* range that the policies load, counted every row they filter, and met   *)
(* no row a files() query must fail on.                                   *)
RowHandled(id) ==
  /\ Verdict(RowOf(id)) = "load"   => id \in DeliveredSet
  /\ Verdict(RowOf(id)) = "filter" => id \in filteredIds
  /\ Verdict(RowOf(id)) # "fail"

ScanOutcome ==
  (pc = "done" /\ result = "eof") => \A id \in DataRowIds : RowHandled(id)

(* Strengthening used by the proof of ScanOutcome: rows are only held     *)
(* uncommitted inside the row loop; while the scan goes on, or once it    *)
(* has ended with EndOfFile, every data row before the reader's position  *)
(* has been handled; and EndOfFile is returned with every data row before *)
(* that position.                                                          *)
ScanInv ==
  /\ pc # "parse" => batch = <<>>
  /\ (pc # "done" \/ result = "eof") =>
       \A id \in DataRowIds : ReadBefore(id, fileIdx, reader) => RowHandled(id)
  /\ (pc = "done" /\ result = "eof") =>
       \A id \in DataRowIds : ReadBefore(id, fileIdx, reader)

(* get_next returns OK only with a chunk that holds rows: the status of   *)
(* _parse_csv / _parse_csv_v2 is decided by the size of the chunk's first *)
(* column (num_rows() > 0), and that size must be the count of rows the   *)
(* chunk really carries, after any rollback of a failed conversion.       *)
ChunkHasRows == (pc' = "idle" /\ result' = "ok") => Len(out') > Len(out)
OkChunkNonEmpty == [][ChunkHasRows]_vars

(* Every scan ends: get_next eventually returns EndOfFile or an error.    *)
ScanTerminates == <>(pc = "done")

=============================================================================
