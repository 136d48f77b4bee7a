# Verification of the StarRocks CSV scanner

This directory holds TLA+ models of `src/be/src/exec/csv_scanner.cpp`, the
scanner that turns the CSV files of a load, an `INSERT ... FROM FILES()` or a
`files()` query into chunks of typed rows. It also holds the TLC
configurations that check them and the TLAPS proofs about them.

## 1. The system

`CSVScanner` reads a list of *scan ranges* (`_scan_range.ranges`). Each range
is a file, or a byte range of one, and the scanner reads them one after the
other through a `ScannerCSVReader`. Its caller (`FileScanner`) calls
`get_next()` until it returns `EndOfFile` or an error. A timeout is also
returned to the caller, which retries later.

| Part | Code | State it changes |
|---|---|---|
| constructor | `CSVScanner::CSVScanner` (133-171) | parse options; `_use_v2` (enclose/escape mode) |
| `open` | 177-231 | `_num_fields_in_csv`, one converter per non-null slot |
| `_init_reader` | 244-296 | `_curr_file_index`, `_curr_reader`; skips the partial first line after `start_offset` and `skip_header` records |
| `get_next` | 298-340 | loops `_init_reader` + parse until a chunk has rows; resets `_curr_reader` at `EndOfFile`; returns a partial chunk on a timeout |
| `_parse_csv`, `_parse_csv_v2` | 462-561, 342-460 | the row loop: blank rows, the column-count policy, UTF-8 check, converters with rollback, `num_rows_filtered`, `_report_error`, the rejected-record log |
| `_fill_buffer` | 87-127 | the read buffer at end of file |
| `get_schema`, `_get_schema(_v2)`, `get_type_desc` | 594-692 | schema inference from sample rows: the per-row schemas handed to `merge_schema` |
| `_create_chunk`, `_materialize_...` | 233-242, 563-584 | chunk columns (layout only) |
| error message builders | 30-79 | none (text) |

How they interact: `get_next` calls `_init_reader`, then the parser of the
mode. The parser calls the reader's `next_record` (outside `src/`) and the
converters. Its status decides what `get_next` does next:

- `EndOfFile` drops the reader and loops on to the next range;
- a timeout returns the partial chunk, or returns the timeout when the chunk is empty;
- any other error is returned.

The scanner is single-threaded, so its hard behaviours come from the order
of calls and statuses:

- timeouts in the middle of a chunk and in the middle of `_init_reader`;
- retries by the caller;
- EndOfFile arriving together with the last row (v2 reader);
- a strict-mode conversion failure after part of the row was appended;
- the report cap;
- chunk capacity reached exactly at the end of a range.

## 2. Modules

### `CSVScanner.tla`: the scan loop

The constants are:

- `NumFields` (`_num_fields_in_csv`);
- `Slots`, the positions with a non-null slot descriptor;
- `ChunkSize` (`chunk_size()`);
- `ReportMax` (`REPORT_ERROR_MAX_NUMBER`);
- `SkipHeader`;
- `Configs`, the candidate scan configurations (scan type, strict, flexible, log rejected, v2, whether IO errors occur);
- `Ranges`, the candidate range lists;
- `MaxTimeouts`, which bounds the timeouts of a run;
- `NoReader`, a model value for `nullptr`.

**Data abstraction.** A record is `[n, utf8, bad]`: its field count, whether
it is valid UTF-8, and the positions whose value does not convert. A file is
`[offset, rows]`: whether the range starts at an offset, and its records.
A chunk is the size of each slot column (`cols`). The ids of the rows it
counts are kept as ghost state (`batch`). The reader is the number of records
it has consumed.

**State → code.**

| Variable | Code |
|---|---|
| `fileIdx` | `_curr_file_index + 1` |
| `reader` | `_curr_reader` |
| `pc` | where control is: between calls, in `_init_reader`, in the row loop, or finished |
| `filtered` | `num_rows_filtered` |
| `reported` | `_report_error` calls |
| `rejected` | rejected-record log entries |
| `out` | the rows of returned chunks (ghost) |
| `filteredIds` | the rows counted as filtered (ghost) |

**Actions → code.**

| Action | Code |
|---|---|
| `GetNext` | the caller's call |
| `InitKeepReader` | `_init_reader` with a reader present, then `set_num_rows(0)` |
| `InitNoMoreFiles` | 292-294 |
| `InitOpenFails` | 248-252 |
| `InitSkipTimeout` | 263-268 |
| `InitOpenFile` | 245-291: open, then the dummy read and the `skip_header` loop, with each early return |
| `ParseRead` | one `next_record` and the row's handling (`RowBlank`, `RowShapeFiltered`, `RowShapeFailed`, `RowInvalidUtf8`, `RowConverted`), or EOF, timeout or error |
| `ParseFull` | the capacity test |
| `EndParse` | the parser's final status and `get_next`'s handling of it (314-333), including the loop back to `_init_reader` |
| `Terminated` | the caller stopping |

A row handler models the whole branch of the loop: the counters, the reports,
the chunk rollback (`FillRow` = the converter loop + `set_num_rows`), and the
break.

The two parsers differ only where the v2 reader returns `EndOfFile` together
with the last row (branches 362, 377, 393, 454). The model lets the read of a
range's last record carry that flag when `conf.v2`.

### `MC_CSVScanner.tla`: instances

- 3 declared columns, of which the middle one is ignored (`Slots = {1,3}`). A
  conversion failure in slot 3 therefore comes after slot 1 was appended.
- Chunks of 2 rows, so that the capacity is reached inside a range.
- `ReportMax = 1`, so that the report cap is crossed.
- Seven representative records: blank, good, bad in the ignored column, bad
  in the last slot, short, long, not UTF-8.
- The range sets are chosen per question (below).

### `RecordStream.tla` and `CSVBuffer.tla`: the read buffer

`RecordStream` is the abstract reader: what `next_record` promises the
scanner. `Split[file]` is the file cut at each leftmost row delimiter, with
a last line without a delimiter as a record of its own. Its actions are:

- `Emit`: the next record, when it fits in `Capacity` bytes with its delimiter;
- `TooLong`: "line length exceed limit", only for a record that does not fit;
- `EndOfFile`: after the last record;
- `Fail`: an IO error.

`Split` is a recursive *function*, not a `RECURSIVE` operator. TLC
re-evaluates an operator's lazy arguments when it computes `ENABLED` for the
fairness condition, and that costs exponential time in the number of
records. The function form takes about 1 s.

`CSVBuffer` is the byte-level reader. Its constants are `Capacity`, `Delim`
(the row delimiter as a byte sequence), `Files` and `IOErrors`.

| Variable | Code |
|---|---|
| `buf` | the buffer's bytes `[0, limit)` |
| `pos` | `position()` |
| `src` | the bytes `file->read` has not returned yet |
| `recs` | the records returned (ghost) |
| `st` | the status that ended reading |

| Definition | Code |
|---|---|
| `ReadSizes` | the `read` into `free_space()` (91-103): any short read, 0 only at end of file |
| `NeedsDelim` | 107-108 |
| `NoRoomForDelim` | 111 |
| `EofAppend` | 114-116 |
| `FillBuffer` | the whole of `_fill_buffer`, including `skip(L)` + EndOfFile when `n == 0` |
| `FindLineDelimiter` | `_find_line_delimiter` (129-131) |
| `NextRecordFound`, `NextRecordRefill` | `next_record` (outside `src/`, from spec §4.1-4.2) |

`NextRecordFound` cuts the record before the first delimiter of the window
and skips past it. `NextRecordRefill` runs when there is none: it compacts a
full buffer (spec: `fill` needs free space, "caller must have consumed enough
first"), fails with "line length exceed limit" if the buffer is still full,
and otherwise calls `_fill_buffer`.

The refinement mapping is the identity on `file`, `recs` and `st`.
`ImplementsRecordStream == RS!Spec` is checked as a TLC `PROPERTY`. It covers
the safety part (every step of the reader is an `Emit`, `TooLong`,
`EndOfFile` or `Fail`, or a stutter) and the liveness part (the reader does
not stop short of the end). `Spec` has `WF_vars(Next)`, because the scanner
calls `next_record` until EndOfFile or an error.

### `SchemaInference.tla`: schema inference

`get_schema` opens the first range through `_init_reader` and calls
`_get_schema` (plain mode) or `_get_schema_v2`.

**Data abstraction.** A field is the set of parsers that accept it
(`"int"`, `"float"`, `"bool"`). A record is its sequence of fields, and a
blank record has none. A file is its sequence of records.

**State.**

| Variable | What it is |
|---|---|
| `reader` | the records read |
| `i` | the loop counter |
| `schemas` | the per-row schemas collected for `merge_schema` (outside `src/`) |
| `pc` | where control is |
| `result` | the status returned |

**Actions → code.**

| Action | Code |
|---|---|
| `GetSchema` | 616-624, with the outcomes of `_init_reader`: open failure, the `skip_header` loop ending at EndOfFile, an error or a timeout |
| `SampleNext` | one loop iteration (630-650 / 660-687): EndOfFile → break → OK, an error returned, or a record |
| `SampleRecord` | the body: a blank record `continue`s without `i++`; any other record is split and typed |
| `SampleDone` | the loop condition `LoopCond` failing |
| `TypeDesc` | `get_type_desc` (594-614) |

As in `CSVScanner`, the v2 reader may return the last record together with
EndOfFile.

`SampleFaithful` compares the collected schemas with a reference written
from spec §4.6. The reference is the first `SampleCount` non-blank records
after the header (`DataRows`), each field typed by `RefType`. `RefType` is
the least rung of the ladder that accepts the field, written independently
of `TypeDesc`'s nested `IF`. `DataRows` is
`SelectSeq(SubSeq(file, SkipHeader + 1, Len(file)), LAMBDA r : r # <<>>)`
written without recursion: its k-th element is the non-blank record with
exactly k non-blank records at or before it (its rank). The provers cannot
see into `SelectSeq`, which is recursive, and the rank form is what the
proof below reasons about.

### Proof modules

`CSVScannerProofs.tla`, `CSVScannerOrderProofs.tla` and
`CSVScannerScanProofs.tla` hold the proofs about `CSVScanner`; each extends
the one before. `CSVBufferProofs.tla` holds the proofs about the buffer, and
`SchemaInferenceProofs.tla` and `SchemaInferenceSampleProofs.tla` (which
extends it) hold those about schema inference.

See §4.

## 3. Runs

| Run | Expect | What it shows |
|---|---|---|
| `safety` | pass (177k states) | plain mode over two ranges (the first 1–2 records of the good/bad/short/long/non-UTF-8 kinds with or without an offset; the second a good or ignored-bad row and a blank, or an empty offset range), all scan types and flags, IO errors, one timeout. Checks `TypeOK`, `ChunkAligned`, `ReportCap`, `DeliveredInOrder`, `ScanOutcome`, `ScanTerminates`. |
| `header` | pass (108k states) | both modes, `skip_header = 1`, no timeouts; ranges of a header and 1–2 data rows, then a 3-row range with or without offset. Checks `NoHeaderDelivered` with the chunk and order properties. |
| `headertimeout` | violation | `NoHeaderDelivered` fails: a timeout inside `_init_reader`'s header loop keeps the reader, and the retry returns the header as data. |
| `shortfile` | violation | `ScanOutcome` fails: a range shorter than `skip_header` ends the whole scan. |
| `v2eof` | violation | `ScanOutcome` fails: in v2 mode a mismatched last row arriving with EOF is neither filtered nor counted. |

| `buffer_delim1` | pass (959 states) | one-byte delimiter, a 3-byte buffer, every file of at most 5 bytes over `{x, d}`, every read size, IO errors. Checks `TypeOK` and `ImplementsRecordStream`: compactions and end-of-file synthesis return every record, then EndOfFile. |
| `buffer_delim2` | pass (946 states) | delimiter `ab`, an 8-byte buffer, every file of at most 4 bytes over `{x, a, b}`. A delimiter can be split across short reads, and partial delimiters can end the file. Same properties. |
| `buffer_delim2full` | violation | the same files in a 4-byte buffer. `ImplementsRecordStream` fails on file `aab`: read `aab`, record `a`, `pos = 3`. Then `_fill_buffer` at end of file finds `n = 0`, but tests `free_space() = 1 < 2` first and returns "line length exceed limit" instead of EndOfFile. |

| `schema_plain` | pass (2.9k states) | plain mode, `skip_header = 1`, samples of 2, every file of at most 4 records over a blank record and three records whose fields hit every rung of the ladder, with read errors. Checks `TypeOK` and `SampleFaithful`. |
| `schema_v2` | violation | `SampleFaithful` fails in v2 mode: file `[blank, {int}]` after the header. The v2 reader returns the data row with EndOfFile, and `_get_schema_v2` breaks (663) before sampling it, so `get_schema` returns OK with no schema. |

The five violations are recorded as findings in `PROJECT.json`.

**Properties.**

- `ChunkAligned`: every column holds as many values as rows counted. It
  guards the strict-mode rollback.
- `ReportCap`: `_report_error` is called exactly `min(filtered, cap)` times.
- `DeliveredInOrder`: across chunks, timeouts, retries and range changes,
  returned rows are strictly in file order, so none is lost out of order and
  none is repeated.
- `NoHeaderDelivered`: no skipped record is returned.
- `ScanOutcome`: a scan that ends with EOF has returned every loadable data
  row and counted every filtered one, and met no row that must fail a query.
- `OkChunkNonEmpty` (action property): a step that makes `get_next`
  return OK commits at least one row. The parser picks OK or EndOfFile from
  the first column's size (`num_rows() > 0`), so the property fails as soon
  as a rollback leaves that size above the rows the chunk really holds
  (mutant `FillRowNoRollback`).
- `ScanTerminates`: every scan ends.
- `ImplementsRecordStream`: the byte-level reader implements the abstract
  record stream, as described above.
- `SampleFaithful`: a successful `get_schema` has collected the schemas of
  exactly the first N non-blank data records, in order, each typed by the
  specified ladder.

Every property of a passing run has a mutant in `CSVScanner.tla` (`*NoRollback`,
`*OffByOne`, `*NoRetry`, `*DoubleDecrement`, `*ShortSkip`, `*KeepReader`,
`*NoAdvance`) or in `CSVBuffer.tla` that TLC finds violating it. The
`CSVBuffer` mutants are:

- `ReadSizesIgnoreFree`: a read past the free space;
- `NoRoomForDelimOffByOne`: `<=` for `<`;
- `EofAppendAfterData`: skip without appending;
- `NeedsDelimLastByte`: compare the last byte only.

The `SchemaInference` mutants are:

- `LoopCondOffByOne`: `<=` in the loop condition;
- `SampleRecordCountBlank`: a blank record consumes a sample.

**Bounds.** Two ranges and at most four records per range are enough to:

- cross a chunk boundary;
- cross a range boundary in the middle of a chunk;
- put a timeout before and after the first row of a chunk;
- put every kind of record at the start, the middle and the end of a range.

The buffer instances are sized to exercise the end-of-file branches:

- A 3-byte buffer with files of up to 5 bytes forces compactions, a full
  buffer without a delimiter, and end of file with 0, 1 or 2 unread bytes.
- With `ab`, files of up to 4 bytes include every way of splitting the
  delimiter and of ending inside it.
- The 8-byte buffer keeps the passing run clear of the bug above, so that it
  checks the rest of the behaviour.

`MaxTimeouts = 1` gives one timeout at each of these places; a second
timeout adds no new control path. The report cap of 1 is crossed by the
second filtered row.

**Fairness.** `WF_vars(Next)`. The scanner is sequential code: once called,
it keeps computing until it returns. After a chunk or a timeout, the caller
calls `get_next` again until EOF or an error. The number of timeouts is
bounded, so a source that times out forever is excluded. This matches the
caller's retry budget.

## 4. Proofs (TLAPS)

### `CSVScannerProofs.tla`

They hold for every value of the constants under the named assumptions of
`CSVScanner.tla`:

- `NumFields ≥ 1`;
- `Slots ⊆ 1..NumFields`, nonempty;
- `ChunkSize ≥ 1`;
- `ReportMax`, `MaxTimeouts`, `SkipHeader` ∈ Nat;
- `Configs` and `Ranges` are nonempty sets of well-formed values;
- `NoReader ∉ Nat`.

Results:

- **`TypeCorrect`**: `Spec => []TypeOK`. `TypeOK` alone is not inductive,
  because the row loop reads `Rows(fileIdx)[reader + 1]`. So the proof
  uses `IInv = TypeOK /\ ReaderInv`, where `ReaderInv` says that a reader
  exists only for an opened range, is never past its last record, and that
  the row loop always has one. The proof has one case per action, and one
  lemma per row handler (`RowStepIInv`).
- **`ChunkAlignedInvariant`**: `Spec => []ChunkAligned`, with the invariant
  `IInv /\ ChunkAligned`. The key lemmas are:
  - `FillRowAligned`: the converter loop with its rollback leaves every
    column at the new row count;
  - `EndParseAligned`: when the parser reports EOF, the chunk is empty. This
    uses `FirstSlotMin`, the existence of the least slot, proved from the
    well-foundedness of `<` on Nat.
- **`ReportCapInvariant`**: `Spec => []ReportCap`, with the invariant
  `IInv /\ ReportCap`. `NextCounters` shows that every step either performs
  `FilterRow` once or leaves `filtered` and `reported` unchanged.
  `FilterRowCap` shows that the post-increment test keeps
  `reported = min(filtered, ReportMax)`.

### `CSVBufferProofs.tla`

**`TypeCorrect`**: `CSVBuffer!Spec => []TypeOK`. It holds for every `Capacity`
in `Nat \ {0}`, every nonempty delimiter and every set of files. The
conjunct that matters is `pos \in 0..Len(buf) /\ Len(buf) <= Capacity`,
which is the spec's buffer invariant `0 ≤ position ≤ limit ≤ capacity`.
`TypeOK` is inductive as it stands, and the proof has one lemma per step:

- `FillBufferType`: one case per branch of `_fill_buffer`. A read is bounded
  by the free space. A delimiter is appended only when `NoRoomForDelim` is
  false. The `n = 0` skip moves the position exactly onto the new limit,
  because a delimiter was appended (`n = 0 < L`).
- `NextRecordFoundType`: the cut ends inside the window.
  `LeftmostDelimInside` shows this from `NatSetMin`, the least element of
  a nonempty set of naturals, which is proved from the well-foundedness of
  `<`.
- `NextRecordRefillType`: compaction to the window.

The sequence facts come from `SequenceTheorems` (`ConcatProperties`,
`SubSeqProperties`), through `ReadSplit` and `AppendDelim`.

### `SchemaInferenceProofs.tla`

These hold for every `SampleCount`, `SkipHeader`, mode and set of files.

- **`TypeDescLadder`**: `get_type_desc` equals the reference ladder
  `RefType` on every field, i.e. on every set of accepting parsers. The proof
  has four cases, by the first parser in the ladder that accepts the field,
  and `LeastRung` evaluates `RefType`'s `CHOOSE`.
- **`TypeCorrect`**: `Spec => []TypeOK`. `TypeOK` is inductive, and it holds
  the interesting bounds: `reader <= Len(file)` and `i <= SampleCount`.
  `TypeRowType` shows that a typed record is a sequence of types.

`TypeStep` is the step half of `TypeCorrect`, as a lemma that the next module
reuses.

### `SchemaInferenceSampleProofs.tla`

**`SampleFaithfulInvariant`**: under `~V2`, `Spec => []SampleFaithful`, for
every sample count, header length and set of files. The hypothesis is the
`schema_v2` finding: the v2 loop breaks on EndOfFile before sampling the
last record, so the theorem is false in v2 mode.

The inductive invariant is `TypeOK /\ SampleInv`. `SampleFaithful` alone
is not inductive, because it says nothing until the loop ends. `SampleInv`
says that while the loop runs (or once it ended with OK):

- the reader is at or past the header, and `i` is the rank of the reader's
  position, i.e. the number of non-blank records read after the header;
- for every data record `j` read so far, `schemas[Rank(j)]` is its
  reference schema;
- every index `1..i` is the rank of some record read so far;
- the loop ended with OK only at the end of the file or with `i` equal to
  the sample count.

The lemmas are:

- `RankStep`: reading one more record keeps the rank (blank) or adds one
  (data). `RankMono`, `RankBounds` and `RankInjective` say that ranks grow
  along the file and that two data records never share one. All of these
  are cardinality facts from `FiniteSetTheorems`;
- `ReadStep`: one iteration of the loop body keeps `SampleInv`;
- `SampleStep`: every action keeps `SampleInv` (one case per action);
- `SampleEnd`: `SampleInv` at a successful end gives `SampleFaithful`. The
  record that `DataRows[k]` `CHOOSE`s is the witness of rank `k`, by
  injectivity. The count `MinOf(SampleCount, Len(DataRows))` is `i`,
  because either the whole file was read or the sample is full.

TLC also checked `SampleInv` as an invariant of the `schema_plain` instance.

### `CSVScannerOrderProofs.tla`

These are proofs about the ghost history: `Delivered = out \o batch`, the
rows returned plus the uncommitted ones. None of these invariants is
inductive as it stands. The missing fact is where the rows sit relative to
the reader. `ReadBefore(id, f, r)` says that row `id` lies before the
reader's position. With a reader open at `r` in range `f`, that means
`id` precedes record `r + 1` of `f`. With no reader, it means `id` is in
range `f` or an earlier one. Two lemmas carry the argument:

- `NextShape`: every step keeps a prefix of `Delivered`, or appends the
  record at the cursor and moves past it (`DeliveredStep`), and the
  position only moves forward (`CursorForward`);
- `RowStepShape` / `EndParseShape`: what a row handler or the end of the
  row loop may do to `out`, `batch` and `reader`.

The results:

- **`DeliveredInOrderInvariant`**: `Spec => []DeliveredInOrder`, with
  `OInv = IInv /\ OrderInv`. `OrderInv` adds that every delivered row is
  `ReadBefore` the current position. An appended row is the cursor, which
  follows every earlier row. The sequence facts (`InOrderPrefix`,
  `InOrderAppend`, `ConcatAppend`) come from `SequenceTheorems`.
- **`NoHeaderDeliveredInvariant`**: under `MaxTimeouts = 0`,
  `Spec => []NoHeaderDelivered`, with `HInv = IInv /\ HeaderInv`.
  `HeaderInv` adds that a reader still in use is at or past `Skipped(fileIdx)`.
  The skip loop either reads all the skipped records or ends the scan, so
  the cursor row is a data row. The hypothesis is exactly the
  `headertimeout` finding: with a timeout inside the skip loop the reader
  stays short of the header and the theorem is false.
- **`OkChunkNonEmptyProperty`**: `Spec => [][ChunkHasRows]_vars`, with the
  invariant `IInv /\ ChunkAligned` of `ChunkAlignedInvariant`. In
  `EndParseHasRows`, OK is returned only when `NumRowsOf(c) > 0`, and
  alignment makes that `Len(b) > 0`, so `out` grows.

### `CSVScannerScanProofs.tla`

**`ScanOutcomeInvariant`**: under `PlainModeOnly` (no configuration uses
the v2 reader) and `RangesHoldSkipped` (every range but the last has at
least the records `_init_reader` skips), `Spec => []ScanOutcome`. Each
hypothesis is one of the violation runs (`v2eof`, `shortfile`). The
theorem shows that these two are the only ways the outcome fails.

The inductive invariant is
`SInv = IInv /\ ChunkAligned /\ conf \in Configs /\ ranges \in Ranges /\ ScanInv`.
`ScanInv` has three parts:

- outside the row loop, nothing is uncommitted;
- while the scan goes on, or once it ended with EndOfFile, every data row
  `ReadBefore` the position is handled (`RowHandled`);
- EndOfFile is returned only with every data row before the position.

`ScanOutcome` alone is not inductive, because it says nothing until the
last step. The lemmas, one per part of the code:

- `RowStepScan`: a row handler moves the position past record `p + 1`
  only after handling it. A filtered row joins `filteredIds`, a loaded row
  joins `batch`, and a failing row ends the scan with an error.
- `EndParseScan`: EndOfFile of a range is reached with an empty chunk and
  the reader at the range's end, so the reset position covers the range.
  A committed chunk and a timeout without rows lose nothing.
- `InitScan`: a newly opened range puts only skipped records before the
  position. EndOfFile from `_init_reader` happens only at the last range,
  which is where `RangesHoldSkipped` is used.
- `HandledMono` / `SamePosition`: handled rows stay handled, since rows are
  dropped only from an empty chunk or by an error.

`Verdict` is the policy decision of the row loop. It is written as an
`IF` chain in the loop's test order. With `CASE`, the guards overlap and
which arm applies would be unspecified.

### Left to TLC

- `ScanTerminates`, which is liveness;
- `ImplementsRecordStream`, the refinement of `RecordStream` by `CSVBuffer`.
  Its invariant, that `recs \o Split[Window \o src]` is `Split[file]` up to
  the synthesized delimiter, rests on what `Split` computes over a
  concatenation. That is induction over data, which the installed provers
  cannot do;
- the liveness part of `ImplementsRecordStream`: the reader does not stop
  before EndOfFile.

## 5. Not modelled (yet), and the plan

1. A proof that `CSVBuffer` refines `RecordStream`: an invariant relating
   `recs \o Split[Window \o src]` to `Split[file]`. It needs lemmas about
   `Split` over concatenation, which is induction over data. That is out of
   the prover's reach here (see §4), so the refinement stays with TLC.
2. **Abstract scan specification**: the scan as the filter/map of the data
   rows of each range. `CSVScanner` would be shown to refine it through a
   mapping of `out` and `filtered`, for configurations without the three
   divergences.
3. A proof of `ScanOutcome` for v2 mode, which needs the model's v2
   divergence (`v2eof`) to be fixed in the code first, and the step
   simulation of the abstract scan specification of item 2.

Not modelled, by choice:

- the message formatting (30-79);
- the range checks of `open` (each is an early return before any state);
- the column memory layout and materialization;
- the reader internals outside `src/` (the record splitters). Their contract
  is the record abstraction of `CSVScanner`. The plain-mode `next_record`
  loop is modelled from the spec in `CSVBuffer`. The enclose/escape reader
  is not modelled.

A configuration in which every column is ignored (`Slots = {}`) is excluded
by assumption. With it the chunk has no column and every range reads as
EOF (hazard at 560).
