------------------------ MODULE CSVScannerScanProofs ------------------------
(***************************************************************************)
(* Proof of ScanOutcome: a scan that ends with EndOfFile has loaded every *)
(* data row the policies load, counted every row they filter and met no   *)
(* row a files() query fails on.  It holds in plain mode (_parse_csv) when *)
(* every range but the last holds the records _init_reader skips; the     *)
(* v2eof and shortfile runs show that it fails without either hypothesis. *)
(*                                                                         *)
(* The argument: the reader's position (ReadBefore) only moves forward,   *)
(* each step that moves it past a record handles that record, handled     *)
(* records stay handled because rows are only dropped from an empty chunk *)
(* or by a step that ends the scan with an error, and EndOfFile is         *)
(* returned with the position past every data row.                         *)
(***************************************************************************)
EXTENDS CSVScannerOrderProofs

(* Hypotheses of the theorem.                                              *)

(* Every configuration is plain mode (no enclose, no escape).              *)
PlainModeOnly == \A c \in Configs : ~c.v2

(* Every range but the last holds at least the records _init_reader       *)
(* skips in it.                                                           *)
RangesHoldSkipped ==
  \A rs \in Ranges : \A f \in 1..Len(rs) - 1 :
    Len(rs[f].rows) >= (IF rs[f].offset THEN 1 ELSE 0) + SkipHeader

-----------------------------------------------------------------------------
(* Handled rows.                                                           *)

(* Every data row before the reader's position has been handled.           *)
Handled == \A id \in DataRowIds : ReadBefore(id, fileIdx, reader) => RowHandled(id)

(* The reader's position is past every data row.                           *)
AllRead == \A id \in DataRowIds : ReadBefore(id, fileIdx, reader)

(* A row stays handled while the configuration and the ranges stay and    *)
(* the rows returned or counted only grow.                                 *)
LEMMA HandledMono ==
  ASSUME UNCHANGED <<conf, ranges>>,
         DeliveredSet \subseteq DeliveredSet', filteredIds \subseteq filteredIds',
         NEW id, RowHandled(id)
  PROVE  RowHandled(id)'
BY DEF RowHandled, Verdict, RowOf, Rows, FilteredShape, FailedShape, FailingSlots

(* What the policies decide for a row does not change while the           *)
(* configuration and the ranges stay.                                      *)
LEMMA VerdictConst ==
  ASSUME UNCHANGED <<conf, ranges>>, NEW id
  PROVE  Verdict(RowOf(id))' = Verdict(RowOf(id))
BY DEF Verdict, RowOf, Rows, FilteredShape, FailedShape, FailingSlots

(* The elements of a sequence with an element appended.                    *)
LEMMA AppendElems ==
  ASSUME NEW s \in Ids, NEW x
  PROVE  {Append(s, x)[i] : i \in 1..Len(Append(s, x))}
           = {s[i] : i \in 1..Len(s)} \cup {x}
<1>1. Len(Append(s, x)) = Len(s) + 1
      /\ \A i \in 1..Len(s) : Append(s, x)[i] = s[i]
      /\ Append(s, x)[Len(s) + 1] = x
  BY AppendProperties DEF Ids
<1>2. QED
  BY <1>1 DEF Ids

(* The rows returned or counted after a step that keeps them or counts     *)
(* one more row x.                                                         *)
LEMMA DeliveredGrows ==
  ASSUME out \in Ids, batch \in Ids, NEW x \in Nat \X Nat,
         out' = out, batch' \in {batch, Append(batch, x)}
  PROVE  /\ DeliveredSet \subseteq DeliveredSet'
         /\ batch' = Append(batch, x) => x \in DeliveredSet'
<1>1. CASE batch' = batch
  BY <1>1 DEF DeliveredSet, Delivered
<1>2. CASE batch' = Append(batch, x)
  <2>1. Delivered' = Append(Delivered, x)
    BY <1>2, ConcatAppend DEF Delivered
  <2>2. Delivered \in Ids
    BY ConcatIds DEF Delivered
  <2>3. QED
    BY <2>1, <2>2, AppendElems DEF DeliveredSet
<1>3. QED
  BY <1>1, <1>2

(* A data row is a pair of naturals.                                       *)
LEMMA DataRowIdPair ==
  ASSUME NEW id \in DataRowIds
  PROVE  /\ id = <<id[1], id[2]>> /\ id[1] \in Nat /\ id[2] \in Nat
         /\ id[1] \in 1..Len(ranges) /\ id[2] \in 1..Len(Rows(id[1]))
BY DEF DataRowIds, RowIds

(* A step of the row loop that moves the reader one record forward, to    *)
(* record x, and has handled x keeps every row before the reader handled. *)
LEMMA AdvanceHandled ==
  ASSUME NEW f \in Nat, NEW p \in Nat, fileIdx = f, reader = p,
         UNCHANGED <<conf, ranges, fileIdx>>, reader' = p + 1,
         DeliveredSet \subseteq DeliveredSet', filteredIds \subseteq filteredIds',
         Handled, RowHandled(<<f, p + 1>>)'
  PROVE  Handled'
<1> SUFFICES ASSUME NEW id \in DataRowIds', ReadBefore(id, fileIdx, reader)'
             PROVE  RowHandled(id)'
  BY DEF Handled
<1>1. DataRowIds' = DataRowIds
  BY DEF DataRowIds, RowIds, Skipped, Rows
<1>2. id \in DataRowIds /\ id = <<id[1], id[2]>> /\ id[1] \in Nat /\ id[2] \in Nat
  BY <1>1, DataRowIdPair
<1>3. id[1] < f \/ (id[1] = f /\ id[2] < p + 2)
  BY <1>2, NoReaderAssumption DEF ReadBefore, Precedes
<1>4. CASE id[1] = f /\ id[2] = p + 1
  BY <1>2, <1>4
<1>5. CASE ~(id[1] = f /\ id[2] = p + 1)
  <2>1. ReadBefore(id, fileIdx, reader)
    BY <1>2, <1>3, <1>5, NoReaderAssumption DEF ReadBefore, Precedes
  <2>2. RowHandled(id)
    BY <1>2, <2>1 DEF Handled
  <2>3. QED
    BY <2>2, HandledMono
<1>6. QED
  BY <1>4, <1>5

(* One iteration of the plain-mode row loop over record p + 1 of range f  *)
(* handles that record: a blank row needs nothing, a filtered row is      *)
(* counted, a loaded row joins the chunk, and a row a files() query fails *)
(* on ends the scan with an error.                                         *)
LEMMA RowStepScan ==
  ASSUME IInv, ScanInv, pc = "parse",
         NEW f \in 1..Len(ranges), NEW p \in Nat, fileIdx = f, reader = p,
         p < Len(Rows(f)), UNCHANGED <<conf, ranges, fileIdx>>,
         \/ RowBlank(Rows(f)[p + 1], FALSE, p + 1)
         \/ RowShapeFiltered(Rows(f)[p + 1], <<f, p + 1>>, FALSE, p + 1)
         \/ RowShapeFailed(Rows(f)[p + 1], FALSE, p + 1)
         \/ RowInvalidUtf8(Rows(f)[p + 1], <<f, p + 1>>, p + 1)
         \/ RowConverted(Rows(f)[p + 1], <<f, p + 1>>, FALSE, p + 1)
  PROVE  ScanInv'
<1> DEFINE r == Rows(f)[p + 1]
           x == <<f, p + 1>>
<1>1. out \in Ids /\ batch \in Ids /\ x \in Nat \X Nat
  BY DEF IInv, TypeOK, Ids
<1>2. Handled
  BY DEF ScanInv, Handled
<1>3. Verdict(RowOf(x))' = Verdict(r)
  <2>1. Verdict(RowOf(x))' = Verdict(RowOf(x))
    BY VerdictConst
  <2>2. QED
    BY <2>1 DEF RowOf
(* The row is handled and the loop goes on with the reader past it.        *)
<1>4. ASSUME pc' = "parse", reader' = p + 1, out' = out,
             batch' \in {batch, Append(batch, x)},
             filteredIds \subseteq filteredIds', RowHandled(x)'
      PROVE  ScanInv'
  <2>1. DeliveredSet \subseteq DeliveredSet'
    BY <1>1, <1>4, DeliveredGrows
  <2>2. Handled'
    BY <1>2, <1>4, <2>1, AdvanceHandled
  <2>3. QED
    BY <1>4, <2>2 DEF ScanInv, Handled
<1>5. FilterRow(x) => filteredIds \subseteq filteredIds' /\ x \in filteredIds'
  BY DEF FilterRow
<1>6. KeepCounters => filteredIds \subseteq filteredIds'
  BY DEF KeepCounters
<1>7. CASE RowBlank(r, FALSE, p + 1)
  <2>1. Verdict(RowOf(x))' = "blank"
    BY <1>3, <1>7 DEF RowBlank, Verdict
  <2>2. QED
    BY <1>4, <1>6, <1>7, <2>1 DEF RowBlank, RowHandled
<1>8. CASE RowShapeFiltered(r, x, FALSE, p + 1)
  <2>1. Verdict(RowOf(x))' = "filter"
    BY <1>3, <1>8 DEF RowShapeFiltered, Verdict
  <2>2. FilterRow(x) /\ reader' = p + 1 /\ UNCHANGED <<pc, batch, out>>
    BY <1>8 DEF RowShapeFiltered
  <2>3. QED
    BY <1>4, <1>5, <2>1, <2>2 DEF RowHandled
<1>9. CASE RowShapeFailed(r, FALSE, p + 1)
  <2>1. pc' = "done" /\ result' = "dq_error" /\ batch' = <<>>
    BY <1>9 DEF RowShapeFailed, EndParse, Return
  <2>2. QED
    BY <2>1 DEF ScanInv
<1>10. CASE RowInvalidUtf8(r, x, p + 1)
  <2>1. Verdict(RowOf(x))' = "filter"
    BY <1>3, <1>10 DEF RowInvalidUtf8, Verdict
  <2>2. FilterRow(x) /\ reader' = p + 1 /\ UNCHANGED <<pc, batch, out>>
    BY <1>10 DEF RowInvalidUtf8
  <2>3. QED
    BY <1>4, <1>5, <2>1, <2>2 DEF RowHandled
<1>11. CASE RowConverted(r, x, FALSE, p + 1)
  <2>1. reader' = p + 1 /\ UNCHANGED <<pc, out>>
    BY <1>11 DEF RowConverted
  <2>2. CASE FailingSlots(r) = {}
    <3>1. Verdict(RowOf(x))' = "load"
      BY <1>3, <1>11, <2>2 DEF RowConverted, Verdict
    <3>2. batch' = Append(batch, x) /\ KeepCounters
      BY <1>11, <2>2 DEF RowConverted
    <3>3. x \in DeliveredSet'
      BY <1>1, <2>1, <3>2, DeliveredGrows
    <3>4. QED
      BY <1>4, <1>6, <2>1, <3>1, <3>2, <3>3 DEF RowHandled
  <2>3. CASE FailingSlots(r) # {}
    <3>1. Verdict(RowOf(x))' = "filter"
      BY <1>3, <1>11, <2>3 DEF RowConverted, Verdict
    <3>2. batch' = batch /\ FilterRow(x)
      BY <1>11, <2>3 DEF RowConverted
    <3>3. QED
      BY <1>4, <1>5, <2>1, <3>1, <3>2 DEF RowHandled
  <2>4. QED
    BY <2>2, <2>3
<1>12. QED
  BY <1>7, <1>8, <1>9, <1>10, <1>11

(* A step that leaves the reader where it is and loses no row returned or *)
(* counted keeps every row before the reader handled, and keeps the       *)
(* reader past every data row.                                            *)
LEMMA SamePosition ==
  ASSUME UNCHANGED <<conf, ranges, fileIdx, reader>>,
         DeliveredSet \subseteq DeliveredSet', filteredIds \subseteq filteredIds'
  PROVE  /\ Handled => Handled'
         /\ AllRead => AllRead'
<1>1. DataRowIds' = DataRowIds
  BY DEF DataRowIds, RowIds, Skipped, Rows
<1>2. ASSUME Handled, NEW id \in DataRowIds, ReadBefore(id, fileIdx, reader)'
      PROVE  RowHandled(id)'
  <2>1. RowHandled(id)
    BY <1>2 DEF Handled, ReadBefore
  <2>2. QED
    BY <2>1, HandledMono
<1>3. QED
  BY <1>1, <1>2 DEF Handled, AllRead, ReadBefore

(* The end of the row loop with status st: at EndOfFile of the range (an  *)
(* empty chunk, the reader reset) every record of the range is before the *)
(* new position and was handled; a chunk with rows is committed and the   *)
(* reader stays; a timeout without rows drops nothing; an error ends the  *)
(* scan.                                                                   *)
LEMMA EndParseScan ==
  ASSUME IInv, ChunkAligned, ScanInv, pc = "parse",
         UNCHANGED <<conf, ranges, fileIdx>>, KeepCounters,
         NEW st \in {"break", "timeout", "error"}, EndParse(st, cols, batch, reader),
         st = "break" => (reader = Len(Rows(fileIdx)) \/ Len(batch) > 0)
  PROVE  ScanInv'
<1> DEFINE s == IF st = "break" THEN IF NumRowsOf(cols) > 0 THEN "ok" ELSE "eof"
                ELSE st
<1>1. /\ out \in Ids /\ batch \in Ids
      /\ reader \in Nat /\ fileIdx \in 1..Len(ranges)
      /\ reader <= Len(Rows(fileIdx))
  BY DEF IInv, TypeOK, ReaderInv, Ids
<1>2. NumRowsOf(cols) = Len(batch)
  BY FirstSlotMin DEF ChunkAligned, NumRowsOf
<1>3. Handled
  BY DEF ScanInv, Handled
<1>4. (batch = <<>> /\ out' = out /\ batch' = <<>>) => Delivered' = Delivered
  BY <1>1, ConcatEmptySeq DEF Delivered, Ids
<1>5. CASE s = "eof"
  <2>1. batch = <<>> /\ reader = Len(Rows(fileIdx))
    BY <1>1, <1>2, <1>5 DEF Ids
  <2>2. reader' = NoReader /\ pc' = "init" /\ batch' = <<>> /\ out' = out
    BY <1>5 DEF EndParse
  <2>3. DeliveredSet' = DeliveredSet
    BY <1>4, <2>1, <2>2 DEF DeliveredSet
  <2>4. ASSUME NEW id \in DataRowIds', ReadBefore(id, fileIdx, reader)'
        PROVE  RowHandled(id)'
    <3>1. id \in DataRowIds
      BY DEF DataRowIds, RowIds, Skipped, Rows
    <3>2. id[1] \in 1..Len(ranges) /\ id[2] \in 1..Len(Rows(id[1]))
      BY <3>1, DataRowIdPair
    <3>3. id[1] <= fileIdx
      BY <2>2, <2>4 DEF ReadBefore
    <3>4. ReadBefore(id, fileIdx, reader)
      BY <1>1, <2>1, <3>2, <3>3, NoReaderAssumption DEF ReadBefore, Precedes
    <3>5. QED
      BY <1>3, <2>3, <3>1, <3>4, HandledMono DEF Handled, KeepCounters
  <2>5. QED
    BY <2>2, <2>4 DEF ScanInv
<1>6. CASE s = "ok" \/ (s = "timeout" /\ NumRowsOf(cols) > 0)
  <2>1. reader' = reader /\ out' = out \o batch /\ batch' = <<>> /\ pc' = "idle"
    BY <1>6 DEF EndParse, Return
  <2>2. Delivered' = Delivered
    BY <1>1, <2>1, ConcatProperties, ConcatEmptySeq DEF Delivered, Ids
  <2>3. Handled'
    BY <1>3, <2>1, <2>2, SamePosition DEF DeliveredSet, KeepCounters
  <2>4. QED
    BY <2>1, <2>3 DEF ScanInv, Handled
<1>7. CASE s = "timeout" /\ ~(NumRowsOf(cols) > 0)
  <2>1. reader' = reader /\ out' = out /\ batch' = <<>> /\ pc' = "idle"
    BY <1>7 DEF EndParse, Return
  <2>2. batch = <<>>
    BY <1>1, <1>2, <1>7 DEF Ids
  <2>3. Handled'
    BY <1>3, <1>4, <2>1, <2>2, SamePosition DEF DeliveredSet, KeepCounters
  <2>4. QED
    BY <2>1, <2>3 DEF ScanInv, Handled
<1>8. CASE s = "error"
  BY <1>8 DEF EndParse, Return, ScanInv
<1>9. QED
  BY <1>5, <1>6, <1>7, <1>8

(* The _init_reader steps: they start with no uncommitted rows, keep the  *)
(* rows returned or counted, and open a range with the reader inside or   *)
(* at the end of its skipped records, which are not data rows.  EndOfFile *)
(* from ++_curr_file_index past the last range, or from a skip loop that *)
(* reached the end of the last range, leaves every data row behind.       *)
LEMMA InitScan ==
  ASSUME RangesHoldSkipped, IInv, ranges \in Ranges, ScanInv,
         InitKeepReader \/ InitNoMoreFiles \/ InitOpenFails \/ InitSkipTimeout
         \/ InitOpenFile
  PROVE  ScanInv'
<1>1. pc = "init" /\ batch = <<>> /\ Handled /\ out \in Ids
  BY DEF InitKeepReader, InitNoMoreFiles, InitOpenFails, InitSkipTimeout,
         InitOpenFile, ScanInv, Handled, IInv, TypeOK, Ids
<1>2. ASSUME out' = out, batch' = <<>>, KeepCounters
      PROVE  DeliveredSet \subseteq DeliveredSet' /\ filteredIds \subseteq filteredIds'
  BY <1>1, <1>2, ConcatEmptySeq DEF Delivered, DeliveredSet, Ids, KeepCounters
<1>3. CASE InitKeepReader \/ InitSkipTimeout
  <2>1. UNCHANGED <<conf, ranges, fileIdx, reader, out>> /\ KeepCounters
        /\ batch' = <<>> /\ pc' \in {"parse", "idle"}
    BY <1>3 DEF InitKeepReader, InitSkipTimeout, Return, KeepCounters
  <2>2. DeliveredSet \subseteq DeliveredSet' /\ filteredIds \subseteq filteredIds'
    BY <1>2, <2>1
  <2>3. Handled'
    BY <1>1, <2>1, <2>2, SamePosition
  <2>4. QED
    BY <2>1, <2>3 DEF ScanInv, Handled
<1>4. CASE InitOpenFails
  BY <1>4 DEF InitOpenFails, Return, ScanInv
<1>5. CASE InitNoMoreFiles
  <2>1. /\ UNCHANGED <<conf, ranges, reader, out>> /\ KeepCounters
        /\ batch' = <<>> /\ pc' = "done" /\ result' = "eof"
        /\ reader = NoReader /\ fileIdx' = fileIdx + 1 /\ fileIdx >= Len(ranges)
    BY <1>1, <1>5 DEF InitNoMoreFiles, Return, KeepCounters
  <2>2. DataRowIds' = DataRowIds
    BY <2>1 DEF DataRowIds, RowIds, Skipped, Rows
  <2>3. ASSUME NEW id \in DataRowIds
        PROVE  ReadBefore(id, fileIdx, reader) /\ ReadBefore(id, fileIdx', reader')
    <3>1. id[1] \in 1..Len(ranges) /\ fileIdx \in Nat
      BY DataRowIdPair DEF IInv, TypeOK
    <3>2. QED
      BY <2>1, <3>1 DEF ReadBefore
  <2>4. ASSUME NEW id \in DataRowIds PROVE RowHandled(id)'
    <3>1. DeliveredSet \subseteq DeliveredSet' /\ filteredIds \subseteq filteredIds'
      BY <1>2, <2>1
    <3>2. RowHandled(id)
      BY <1>1, <2>3 DEF Handled
    <3>3. QED
      BY <2>1, <3>1, <3>2, HandledMono
  <2>5. QED
    BY <2>1, <2>2, <2>3, <2>4 DEF ScanInv
<1>6. CASE InitOpenFile
  <2> DEFINE f == fileIdx + 1
  <2>1. f \in 1..Len(ranges) /\ reader = NoReader /\ Skipped(f) \in Nat
    BY <1>6, SkipHeaderAssumption DEF InitOpenFile, IInv, TypeOK, Skipped
  <2>2. PICK t \in 0..Skipped(f) :
          /\ reader' = t
          /\ \/ t = Skipped(f) /\ pc' = "parse" /\ batch' = <<>>
             \/ t < Skipped(f) /\ t = Len(Rows(f)) /\ Return("eof")
             \/ \E st \in {"timeout", "error"} : Return(st)
    BY <1>6 DEF InitOpenFile
  <2>3. fileIdx' = f /\ UNCHANGED <<conf, ranges, out>> /\ KeepCounters
    BY <1>6 DEF InitOpenFile, KeepCounters
  <2>4. batch' = <<>>
    BY <2>2 DEF Return
  <2>5. DataRowIds' = DataRowIds
    BY <2>3 DEF DataRowIds, RowIds, Skipped, Rows
  <2>6. t \in Nat /\ t # NoReader
    BY <2>1, NoReaderAssumption
  <2>7. ASSUME NEW id \in DataRowIds, ReadBefore(id, fileIdx', reader')
        PROVE  RowHandled(id)'
    <3>1. id[1] \in 1..Len(ranges) /\ id[2] \in Nat /\ id[2] > Skipped(id[1])
      BY DataRowIdPair DEF DataRowIds
    <3>2. Precedes(id, <<f, t + 1>>)
      BY <2>2, <2>3, <2>6, <2>7 DEF ReadBefore
    <3>3. id[1] <= fileIdx
      <4>1. fileIdx \in Nat
        BY DEF IInv, TypeOK
      <4>2. id[1] # f
        <5>1. SUFFICES ASSUME id[1] = f PROVE FALSE
          OBVIOUS
        <5>2. id[2] > Skipped(f) /\ id[2] < t + 1
          BY <3>1, <3>2, <5>1 DEF Precedes
        <5>3. QED
          BY <2>1, <2>6, <3>1, <5>2
      <4>3. QED
        BY <3>1, <3>2, <4>1, <4>2 DEF Precedes
    <3>4. ReadBefore(id, fileIdx, reader)
      BY <2>1, <3>3 DEF ReadBefore
    <3>5. RowHandled(id)
      BY <1>1, <3>4 DEF Handled
    <3>6. DeliveredSet \subseteq DeliveredSet' /\ filteredIds \subseteq filteredIds'
      BY <1>2, <2>3, <2>4
    <3>7. QED
      BY <2>3, <3>5, <3>6, HandledMono
  <2>8. ASSUME pc' = "done", result' = "eof"
        PROVE  \A id \in DataRowIds : ReadBefore(id, fileIdx', reader')
    <3>1. t < Skipped(f) /\ t = Len(Rows(f))
      BY <2>2, <2>8 DEF Return
    <3>2. f = Len(ranges)
      <4>1. SUFFICES ASSUME f # Len(ranges) PROVE FALSE
        OBVIOUS
      <4>2. Len(ranges[f].rows) >= Skipped(f)
        BY <2>1, <4>1 DEF RangesHoldSkipped, Skipped
      <4>3. Len(Rows(f)) \in Nat
        BY <2>1 DEF IInv, TypeOK, Rows, File
      <4>4. QED
        BY <2>1, <2>6, <3>1, <4>2, <4>3 DEF Rows
    <3>3. ASSUME NEW id \in DataRowIds PROVE Precedes(id, <<f, t + 1>>)
      BY <3>1, <3>2, DataRowIdPair DEF Precedes
    <3>4. QED
      BY <2>2, <2>3, <2>6, <3>3 DEF ReadBefore
  <2>9. QED
    BY <2>4, <2>5, <2>7, <2>8 DEF ScanInv
<1>7. QED
  BY <1>3, <1>4, <1>5, <1>6

(* No step changes the configuration.                                      *)
LEMMA ConfConstant ==
  ASSUME [Next]_vars
  PROVE  conf' = conf
BY DEF Next, vars, GetNext, InitKeepReader, InitNoMoreFiles, InitOpenFails,
       InitSkipTimeout, InitOpenFile, ParseRead, ParseFull, Terminated

(* ScanInv is preserved by every step of a plain-mode scan.                *)
LEMMA NextScan ==
  ASSUME PlainModeOnly, RangesHoldSkipped, IInv, ChunkAligned,
         conf \in Configs, ranges \in Ranges, ScanInv, [Next]_vars
  PROVE  ScanInv'
<1>1. CASE GetNext
  <2>1. UNCHANGED <<conf, ranges, fileIdx, reader, out, batch, filteredIds>>
        /\ pc = "idle" /\ pc' = "init"
    BY <1>1 DEF GetNext
  <2>2. Handled'
    BY <2>1, SamePosition DEF ScanInv, Handled, DeliveredSet, Delivered
  <2>3. QED
    BY <2>1, <2>2 DEF ScanInv, Handled
<1>2. CASE InitKeepReader \/ InitNoMoreFiles \/ InitOpenFails \/ InitSkipTimeout
           \/ InitOpenFile
  BY <1>2, InitScan
<1>3. CASE ParseFull
  <2>1. Len(batch) > 0
    BY <1>3, ChunkSizeAssumption DEF ParseFull, IInv, TypeOK
  <2>2. QED
    BY <1>3, <2>1, EndParseScan DEF ParseFull
<1>4. CASE ParseRead
  <2> DEFINE f == fileIdx
             p == reader
  <2>1. /\ pc = "parse" /\ f \in 1..Len(ranges) /\ p \in Nat
        /\ UNCHANGED <<conf, ranges, fileIdx>>
    BY <1>4 DEF ParseRead, IInv, ReaderInv
  <2>2. CASE /\ p = Len(Rows(f))
             /\ EndParse("break", cols, batch, p) /\ KeepCounters
    BY <2>1, <2>2, EndParseScan
  <2>3. CASE \E st \in {"timeout", "error"} : EndParse(st, cols, batch, p) /\ KeepCounters
    BY <2>1, <2>3, EndParseScan
  <2>4. CASE /\ p < Len(Rows(f))
             /\ \E eof \in IF conf.v2 /\ p + 1 = Len(Rows(f)) THEN BOOLEAN ELSE {FALSE} :
                  \/ RowBlank(Rows(f)[p + 1], eof, p + 1)
                  \/ RowShapeFiltered(Rows(f)[p + 1], <<f, p + 1>>, eof, p + 1)
                  \/ RowShapeFailed(Rows(f)[p + 1], eof, p + 1)
                  \/ RowInvalidUtf8(Rows(f)[p + 1], <<f, p + 1>>, p + 1)
                  \/ RowConverted(Rows(f)[p + 1], <<f, p + 1>>, eof, p + 1)
    <3>1. ~conf.v2
      BY DEF PlainModeOnly
    <3>2. QED
      BY <2>1, <2>4, <3>1, RowStepScan
  <2>5. QED
    BY <1>4, <2>2, <2>3, <2>4 DEF ParseRead
<1>5. CASE Terminated \/ UNCHANGED vars
  <2>1. UNCHANGED vars
    BY <1>5 DEF Terminated
  <2>2. UNCHANGED <<conf, ranges, fileIdx, reader, out, batch, filteredIds, pc, result>>
    BY <2>1 DEF vars
  <2>3. (Handled => Handled') /\ (AllRead => AllRead')
    BY <2>2, SamePosition DEF DeliveredSet, Delivered
  <2>4. QED
    BY <2>2, <2>3 DEF ScanInv, Handled, AllRead
<1>6. QED
  BY <1>1, <1>2, <1>3, <1>4, <1>5 DEF Next

-----------------------------------------------------------------------------
(* The inductive invariant: IInv, the aligned chunk, the constant          *)
(* configuration and ranges, and ScanInv.                                  *)
SInv == IInv /\ ChunkAligned /\ conf \in Configs /\ ranges \in Ranges /\ ScanInv

(* In plain mode (_parse_csv), when every range but the last holds the    *)
(* records _init_reader skips in it, a scan that get_next ends with       *)
(* EndOfFile has returned every data row that the column-count, UTF-8 and *)
(* conversion policies load, counted every row they filter, and met no    *)
(* row a files() query must fail on, across chunks, timeouts and reopened *)
(* ranges, for every chunk size, skip_header and input.  The v2eof and    *)
(* shortfile runs show that neither hypothesis can be dropped.            *)
THEOREM ScanOutcomeInvariant ==
  ASSUME PlainModeOnly, RangesHoldSkipped
  PROVE  Spec => []ScanOutcome
<1>1. Init => SInv
  <2> SUFFICES ASSUME Init PROVE SInv
    OBVIOUS
  <2>1. IInv /\ ChunkAligned
    BY InitIInv DEF Init, ChunkAligned, ZeroCols
  <2>2. ASSUME NEW id \in DataRowIds PROVE ~ReadBefore(id, fileIdx, reader)
    BY DataRowIdPair DEF Init, ReadBefore
  <2>3. QED
    BY <2>1, <2>2 DEF Init, SInv, ScanInv
<1>2. SInv /\ [Next]_vars => SInv'
  <2> SUFFICES ASSUME SInv, [Next]_vars PROVE SInv'
    OBVIOUS
  <2>1. IInv' /\ ChunkAligned'
    BY NextIInv, NextAligned DEF SInv, AInv
  <2>2. conf' \in Configs /\ ranges' \in Ranges
    BY ConfConstant, RangesConstant DEF SInv
  <2>3. ScanInv'
    BY NextScan DEF SInv
  <2>4. QED
    BY <2>1, <2>2, <2>3 DEF SInv
<1>3. SInv => ScanOutcome
  BY DEF SInv, ScanInv, ScanOutcome
<1>4. QED
  BY <1>1, <1>2, <1>3, PTL DEF Spec

=============================================================================
