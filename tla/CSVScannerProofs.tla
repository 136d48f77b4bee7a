-------------------------- MODULE CSVScannerProofs --------------------------
(***************************************************************************)
(* Proofs about CSVScanner for every value of its constants: the type     *)
(* invariant (through the strengthening IInv) and the alignment of the    *)
(* chunk's columns.                                                        *)
(***************************************************************************)
EXTENDS CSVScanner, TLAPS, WellFoundedInduction

USE NumFieldsAssumption, SlotsAssumption, ChunkSizeAssumption,
    ReportMaxAssumption, MaxTimeoutsAssumption, SkipHeaderAssumption,
    ConfigsAssumption, RangesAssumption, NoReaderAssumption

-----------------------------------------------------------------------------
(* Lemmas about the operators the actions are built from.                  *)

(* Every record of an opened range is a Row.                              *)
LEMMA RowType ==
  ASSUME ranges \in Seq(File), NEW f \in 1..Len(ranges), NEW i \in 1..Len(Rows(f))
  PROVE  Rows(f)[i] \in Row
<1>1. ranges[f] \in File
  OBVIOUS
<1>2. Rows(f) \in Seq(Row)
  BY <1>1 DEF Rows, File
<1>3. QED
  BY <1>2

(* The converter loop leaves every column a size.                         *)
LEMMA FillRowType ==
  ASSUME NEW c \in [Slots -> Nat], NEW r \in Row, NEW n \in Nat
  PROVE  FillRow(c, r, n) \in [Slots -> Nat]
BY DEF FillRow, AppendUpTo, SetNumRows

(* get_next's return keeps the chunk and control variables typed.         *)
LEMMA ReturnType ==
  ASSUME NEW s \in {"ok", "timeout", "eof", "error", "dq_error"}, Return(s)
  PROVE  /\ pc' \in {"idle", "done"}
         /\ cols' \in [Slots -> Nat]
         /\ batch' \in Seq(Nat \X Nat)
         /\ result' \in {"none", "ok", "timeout", "eof", "error", "dq_error"}
BY DEF Return, ZeroCols


(* Counting a filtered row keeps the counters typed.                      *)
LEMMA FilterRowType ==
  ASSUME TypeOK, NEW id \in Nat \X Nat, FilterRow(id)
  PROVE  /\ filtered' \in Nat
         /\ filteredIds' \subseteq Nat \X Nat
         /\ reported' \in Nat
         /\ rejected' \in Nat
BY DEF FilterRow, TypeOK

(* The end of the row loop and get_next's handling of its status keep     *)
(* IInv's parts about the chunk, the reader and the returned rows.        *)
LEMMA EndParseType ==
  ASSUME TypeOK, fileIdx \in 1..Len(ranges),
         NEW st \in {"break", "timeout", "error", "dq_error"},
         NEW c \in [Slots -> Nat], NEW b \in Seq(Nat \X Nat),
         NEW rd \in 0..Len(Rows(fileIdx)),
         EndParse(st, c, b, rd)
  PROVE  /\ pc' \in {"idle", "init", "done"}
         /\ cols' \in [Slots -> Nat]
         /\ batch' \in Seq(Nat \X Nat)
         /\ out' \in Seq(Nat \X Nat)
         /\ result' \in {"none", "ok", "timeout", "eof", "error", "dq_error"}
         /\ reader' \in (0..Len(Rows(fileIdx))) \cup {NoReader}
<1> DEFINE s == IF st = "break" THEN IF NumRowsOf(c) > 0 THEN "ok" ELSE "eof" ELSE st
<1>1. s \in {"ok", "eof", "timeout", "error", "dq_error"}
  OBVIOUS
<1>2. CASE s = "eof"
  <2>1. /\ reader' = NoReader /\ pc' = "init" /\ cols' = c /\ batch' = <<>>
        /\ UNCHANGED <<out, result>>
    BY <1>2 DEF EndParse
  <2>2. QED
    BY <2>1 DEF TypeOK
<1>3. CASE s = "ok" \/ (s = "timeout" /\ NumRowsOf(c) > 0)
  <2>1. reader' = rd /\ out' = out \o b /\ Return("ok")
    BY <1>3 DEF EndParse
  <2>2. QED
    BY <2>1, ReturnType DEF TypeOK
<1>4. CASE s = "timeout" /\ ~(NumRowsOf(c) > 0)
  <2>1. reader' = rd /\ Return("timeout") /\ UNCHANGED out
    BY <1>4 DEF EndParse
  <2>2. QED
    BY <2>1, ReturnType DEF TypeOK
<1>5. CASE s \in {"error", "dq_error"}
  <2>1. reader' = rd /\ Return(s) /\ UNCHANGED out
    BY <1>5 DEF EndParse
  <2>2. QED
    BY <1>5, <2>1, ReturnType DEF TypeOK
<1>6. QED
  BY <1>1, <1>2, <1>3, <1>4, <1>5


(* The first column of the chunk is the smallest non-null slot: Slots is  *)
(* a non-empty set of naturals, so its least element exists.              *)
LEMMA FirstSlotMin ==
  FirstSlot \in Slots /\ \A i \in Slots : FirstSlot <= i
<1> DEFINE LT == {ss \in Nat \X Nat : ss[1] < ss[2]}
<1>1. OpToRel(<, Nat) = LT
  BY Zenon DEF OpToRel
<1>2. IsWellFoundedOn(LT, Nat)
  BY <1>1, NatLessThanWellFounded, Zenon
<1>3. Slots \subseteq Nat /\ Slots # {}
  OBVIOUS
<1>4. \E x \in Slots : \A y \in Slots : ~(<<y, x>> \in LT)
  <2>1. \A R, S : \A T \in SUBSET S :
          IsWellFoundedOn(R, S) /\ T # {} => \E x \in T : \A y \in T : ~(<<y, x>> \in R)
    BY WFMin
  <2>2. QED
    BY <1>2, <1>3, <2>1
<1>5. \E x \in Slots : \A y \in Slots : x <= y
  <2>1. PICK x \in Slots : \A y \in Slots : ~(<<y, x>> \in LT)
    BY <1>4
  <2>2. ASSUME NEW y \in Slots PROVE x <= y
    <3>1. <<y, x>> \in Nat \X Nat /\ ~(<<y, x>> \in LT)
      BY <1>3, <2>1
    <3>2. ~(y < x)
      BY <3>1
    <3>3. QED
      BY <1>3, <3>2
  <2>3. QED
    BY <2>2
<1>6. QED
  BY <1>5 DEF FirstSlot

(* IInv in the next state, from its parts.                                *)
LEMMA IInvPrime ==
  ASSUME conf' \in Config, ranges' \in Seq(File),
         pc' \in {"idle", "init", "parse", "done"},
         fileIdx' \in Nat, reader' \in Nat \cup {NoReader},
         cols' \in [Slots -> Nat], batch' \in Seq(Nat \X Nat),
         out' \in Seq(Nat \X Nat), filtered' \in Nat,
         filteredIds' \subseteq Nat \X Nat, reported' \in Nat, rejected' \in Nat,
         timeouts' \in 0..MaxTimeouts,
         result' \in {"none", "ok", "timeout", "eof", "error", "dq_error"},
         reader' # NoReader => /\ fileIdx' \in 1..Len(ranges')
                               /\ reader' \in 0..Len(Rows(fileIdx)'),
         pc' = "parse" => reader' # NoReader
  PROVE  IInv'
BY DEF IInv, TypeOK, ReaderInv

(* One iteration of the row loop, after a record was read, keeps IInv.    *)
LEMMA RowStepIInv ==
  ASSUME IInv, pc = "parse", fileIdx \in 1..Len(ranges),
         NEW r \in Row, NEW id \in Nat \X Nat, NEW eof \in BOOLEAN,
         NEW rd \in 0..Len(Rows(fileIdx)),
         UNCHANGED <<conf, ranges, fileIdx, timeouts>>,
         \/ RowBlank(r, eof, rd)
         \/ RowShapeFiltered(r, id, eof, rd)
         \/ RowShapeFailed(r, eof, rd)
         \/ RowInvalidUtf8(r, id, rd)
         \/ RowConverted(r, id, eof, rd)
  PROVE  IInv'
<1> USE DEF IInv
<1>1. /\ conf' \in Config /\ ranges' \in Seq(File) /\ fileIdx' \in Nat
      /\ timeouts' \in 0..MaxTimeouts
      /\ Rows(fileIdx)' = Rows(fileIdx) /\ Len(ranges') = Len(ranges)
  BY DEF TypeOK, Rows
<1>2. cols \in [Slots -> Nat] /\ batch \in Seq(Nat \X Nat)
  BY DEF TypeOK
(* The branches that stay in the loop: the reader advances to rd.         *)
<1> DEFINE Stay(c, b) == /\ reader' = rd /\ pc' = pc /\ cols' = c /\ batch' = b
                         /\ UNCHANGED <<out, result>>
<1>3. ASSUME NEW c \in [Slots -> Nat], NEW b \in Seq(Nat \X Nat), Stay(c, b),
             /\ filtered' \in Nat /\ filteredIds' \subseteq Nat \X Nat
             /\ reported' \in Nat /\ rejected' \in Nat
      PROVE  IInv'
  <2>1. reader' \in Nat /\ reader' # NoReader /\ reader' \in 0..Len(Rows(fileIdx)')
    BY <1>1, <1>3
  <2>2. pc' = "parse" /\ out' \in Seq(Nat \X Nat)
        /\ result' \in {"none", "ok", "timeout", "eof", "error", "dq_error"}
    BY <1>3 DEF TypeOK
  <2>3. QED
    BY <1>1, <1>3, <2>1, <2>2, IInvPrime
(* The branches that leave the loop.                                      *)
<1>4. ASSUME NEW st \in {"break", "timeout", "error", "dq_error"},
             NEW c \in [Slots -> Nat], NEW b \in Seq(Nat \X Nat),
             EndParse(st, c, b, rd),
             /\ filtered' \in Nat /\ filteredIds' \subseteq Nat \X Nat
             /\ reported' \in Nat /\ rejected' \in Nat
      PROVE  IInv'
  <2>1. /\ pc' \in {"idle", "init", "done"}
        /\ cols' \in [Slots -> Nat]
        /\ batch' \in Seq(Nat \X Nat)
        /\ out' \in Seq(Nat \X Nat)
        /\ result' \in {"none", "ok", "timeout", "eof", "error", "dq_error"}
        /\ reader' \in (0..Len(Rows(fileIdx))) \cup {NoReader}
    BY <1>4, EndParseType
  <2>2. QED
    BY <1>1, <1>4, <2>1, IInvPrime
<1>5. KeepCounters => /\ filtered' \in Nat /\ filteredIds' \subseteq Nat \X Nat
                      /\ reported' \in Nat /\ rejected' \in Nat
  BY DEF KeepCounters, TypeOK
<1>6. FilterRow(id) => /\ filtered' \in Nat /\ filteredIds' \subseteq Nat \X Nat
                       /\ reported' \in Nat /\ rejected' \in Nat
  BY FilterRowType
<1>7. CASE RowBlank(r, eof, rd)
  BY <1>2, <1>3, <1>4, <1>5, <1>7 DEF RowBlank
<1>8. CASE RowShapeFiltered(r, id, eof, rd)
  BY <1>2, <1>3, <1>4, <1>5, <1>6, <1>8 DEF RowShapeFiltered
<1>9. CASE RowShapeFailed(r, eof, rd)
  BY <1>2, <1>4, <1>5, <1>9 DEF RowShapeFailed
<1>10. CASE RowInvalidUtf8(r, id, rd)
  BY <1>2, <1>3, <1>6, <1>10 DEF RowInvalidUtf8
<1>11. CASE RowConverted(r, id, eof, rd)
  <2> DEFINE c == FillRow(cols, r, Len(batch))
             b == IF FailingSlots(r) = {} THEN Append(batch, id) ELSE batch
  <2>0. Len(batch) \in Nat
    BY <1>2
  <2>1. c \in [Slots -> Nat]
    BY <1>2, <2>0, FillRowType, Zenon
  <2>5. b \in Seq(Nat \X Nat)
    BY <1>2
  <2>2. /\ filtered' \in Nat /\ filteredIds' \subseteq Nat \X Nat
        /\ reported' \in Nat /\ rejected' \in Nat
    BY <1>5, <1>6, <1>11 DEF RowConverted
  <2>3. IF eof THEN EndParse("break", c, b, rd) ELSE Stay(c, b)
    BY <1>11 DEF RowConverted
  <2>4. QED
    BY <1>3, <1>4, <2>1, <2>5, <2>2, <2>3
<1>12. QED
  BY <1>7, <1>8, <1>9, <1>10, <1>11


-----------------------------------------------------------------------------
(* IInv is inductive.                                                      *)

LEMMA InitIInv == Init => IInv
BY DEF Init, IInv, TypeOK, ReaderInv, ZeroCols

LEMMA NextIInv == IInv /\ [Next]_vars => IInv'
<1> SUFFICES ASSUME IInv, [Next]_vars PROVE IInv'
  OBVIOUS
<1> USE DEF IInv
<1>1. CASE GetNext
  BY <1>1, IInvPrime DEF GetNext, TypeOK, ReaderInv, Rows
<1>2. CASE InitKeepReader
  <2>1. fileIdx \in 1..Len(ranges) /\ reader \in 0..Len(Rows(fileIdx))
    BY <1>2 DEF InitKeepReader, ReaderInv
  <2>2. QED
    BY <1>2, <2>1, IInvPrime DEF InitKeepReader, TypeOK, Rows, ZeroCols
<1>3. CASE InitNoMoreFiles
  <2>1. /\ pc' \in {"idle", "done"} /\ cols' \in [Slots -> Nat]
        /\ batch' \in Seq(Nat \X Nat) /\ result' = "eof"
    BY <1>3 DEF InitNoMoreFiles, Return, ZeroCols
  <2>2. QED
    BY <1>3, <2>1, IInvPrime DEF InitNoMoreFiles, TypeOK
<1>4. CASE InitOpenFails
  <2>1. /\ pc' \in {"idle", "done"} /\ cols' \in [Slots -> Nat]
        /\ batch' \in Seq(Nat \X Nat) /\ result' = "error"
    BY <1>4 DEF InitOpenFails, Return, ZeroCols
  <2>2. QED
    BY <1>4, <2>1, IInvPrime DEF InitOpenFails, TypeOK
<1>5. CASE InitSkipTimeout
  <2>1. /\ pc' \in {"idle", "done"} /\ cols' \in [Slots -> Nat]
        /\ batch' \in Seq(Nat \X Nat) /\ result' = "timeout"
    BY <1>5 DEF InitSkipTimeout, Return, ZeroCols
  <2>2. QED
    BY <1>5, <2>1, IInvPrime DEF InitSkipTimeout, TypeOK, TimeoutAllowed
<1>6. CASE InitOpenFile
  <2> DEFINE f == fileIdx + 1
  <2>1. f \in 1..Len(ranges) /\ fileIdx' = f /\ Len(ranges') = Len(ranges)
        /\ Rows(fileIdx)' = Rows(f)
    BY <1>6 DEF InitOpenFile, TypeOK, Rows
  <2>2. PICK t \in 0..Skipped(f) :
          /\ reader' = t
          /\ \/ /\ t = Skipped(f) /\ t <= Len(Rows(f))
                /\ pc' = "parse" /\ cols' = ZeroCols /\ batch' = <<>>
                /\ UNCHANGED <<result, timeouts>>
             \/ /\ t < Skipped(f) /\ t = Len(Rows(f))
                /\ Return("eof") /\ UNCHANGED timeouts
             \/ /\ t < Skipped(f) /\ t < Len(Rows(f))
                /\ TimeoutAllowed /\ timeouts' = timeouts + 1
                /\ Return("timeout")
             \/ /\ t < Skipped(f) /\ t < Len(Rows(f))
                /\ conf.ioErrors /\ Return("error") /\ UNCHANGED timeouts
    BY <1>6 DEF InitOpenFile
  <2>3. Skipped(f) \in Nat
    BY DEF Skipped
  <2>4. /\ reader' \in 0..Len(Rows(fileIdx)')
        /\ pc' \in {"idle", "init", "parse", "done"} /\ cols' \in [Slots -> Nat]
        /\ batch' \in Seq(Nat \X Nat)
        /\ result' \in {"none", "ok", "timeout", "eof", "error", "dq_error"}
        /\ timeouts' \in 0..MaxTimeouts
    <3>1. reader' \in 0..Len(Rows(fileIdx)')
      BY <2>1, <2>2, <2>3
    <3>2. /\ pc' \in {"idle", "init", "parse", "done"} /\ cols' \in [Slots -> Nat]
          /\ batch' \in Seq(Nat \X Nat)
          /\ result' \in {"none", "ok", "timeout", "eof", "error", "dq_error"}
      <4>1. CASE pc' = "parse" /\ cols' = ZeroCols /\ batch' = <<>> /\ UNCHANGED result
        BY <4>1 DEF ZeroCols, TypeOK
      <4>2. CASE \E st \in {"eof", "timeout", "error"} : Return(st)
        BY <4>2 DEF Return, ZeroCols
      <4>3. QED
        BY <2>2, <4>1, <4>2
    <3>3. timeouts' \in 0..MaxTimeouts
      BY <2>2 DEF TimeoutAllowed, TypeOK
    <3>4. QED
      BY <3>1, <3>2, <3>3
  <2>5. QED
    BY <1>6, <2>1, <2>4, IInvPrime DEF InitOpenFile, TypeOK
<1>7. CASE ParseRead
  <2> DEFINE f == fileIdx
             p == reader
  <2>1. f \in 1..Len(ranges) /\ p \in 0..Len(Rows(f)) /\ pc = "parse"
    BY <1>7 DEF ParseRead, ReaderInv
  <2>2. UNCHANGED <<conf, ranges, fileIdx>>
    BY <1>7 DEF ParseRead
  <2>3. Rows(fileIdx)' = Rows(f) /\ Len(ranges') = Len(ranges)
    BY <2>2 DEF Rows
  <2>4. cols \in [Slots -> Nat] /\ batch \in Seq(Nat \X Nat)
    BY DEF TypeOK
  (* The loop leaves through EndParse with the reader at p.                *)
  <2>5. ASSUME NEW st \in {"break", "timeout", "error", "dq_error"},
               EndParse(st, cols, batch, p),
               timeouts' \in 0..MaxTimeouts, KeepCounters
        PROVE  IInv'
    <3>1. /\ pc' \in {"idle", "init", "done"}
          /\ cols' \in [Slots -> Nat]
          /\ batch' \in Seq(Nat \X Nat)
          /\ out' \in Seq(Nat \X Nat)
          /\ result' \in {"none", "ok", "timeout", "eof", "error", "dq_error"}
          /\ reader' \in (0..Len(Rows(fileIdx))) \cup {NoReader}
      BY <2>1, <2>4, <2>5, EndParseType
    <3>2. QED
      BY <2>1, <2>2, <2>3, <2>5, <3>1, IInvPrime DEF KeepCounters, TypeOK
  <2>6. CASE p = Len(Rows(f)) /\ EndParse("break", cols, batch, p)
             /\ UNCHANGED timeouts /\ KeepCounters
    BY <2>5, <2>6 DEF TypeOK
  <2>7. CASE p < Len(Rows(f)) /\ TimeoutAllowed /\ timeouts' = timeouts + 1
             /\ EndParse("timeout", cols, batch, p) /\ KeepCounters
    BY <2>5, <2>7 DEF TypeOK, TimeoutAllowed
  <2>8. CASE p < Len(Rows(f)) /\ conf.ioErrors /\ EndParse("error", cols, batch, p)
             /\ UNCHANGED timeouts /\ KeepCounters
    BY <2>5, <2>8 DEF TypeOK
  <2>9. CASE /\ p < Len(Rows(f))
             /\ UNCHANGED timeouts
             /\ LET r == Rows(f)[p + 1]
                    id == <<f, p + 1>>
                IN  \E eof \in IF conf.v2 /\ p + 1 = Len(Rows(f)) THEN BOOLEAN ELSE {FALSE} :
                      \/ RowBlank(r, eof, p + 1)
                      \/ RowShapeFiltered(r, id, eof, p + 1)
                      \/ RowShapeFailed(r, eof, p + 1)
                      \/ RowInvalidUtf8(r, id, p + 1)
                      \/ RowConverted(r, id, eof, p + 1)
    <3>1. Rows(f)[p + 1] \in Row
      BY <2>1, <2>9, RowType DEF TypeOK
    <3>2. <<f, p + 1>> \in Nat \X Nat /\ p + 1 \in 0..Len(Rows(f))
      BY <2>1, <2>9
    <3>3. PICK eof \in BOOLEAN :
            \/ RowBlank(Rows(f)[p + 1], eof, p + 1)
            \/ RowShapeFiltered(Rows(f)[p + 1], <<f, p + 1>>, eof, p + 1)
            \/ RowShapeFailed(Rows(f)[p + 1], eof, p + 1)
            \/ RowInvalidUtf8(Rows(f)[p + 1], <<f, p + 1>>, p + 1)
            \/ RowConverted(Rows(f)[p + 1], <<f, p + 1>>, eof, p + 1)
      BY <2>9
    <3>4. QED
      BY <2>1, <2>2, <2>9, <3>1, <3>2, <3>3, RowStepIInv
  <2>10. QED
    BY <1>7, <2>6, <2>7, <2>8, <2>9 DEF ParseRead
<1>8. CASE ParseFull
  <2>1. fileIdx \in 1..Len(ranges) /\ reader \in 0..Len(Rows(fileIdx))
    BY <1>8 DEF ParseFull, ReaderInv
  <2>2. /\ pc' \in {"idle", "init", "done"}
        /\ cols' \in [Slots -> Nat]
        /\ batch' \in Seq(Nat \X Nat)
        /\ out' \in Seq(Nat \X Nat)
        /\ result' \in {"none", "ok", "timeout", "eof", "error", "dq_error"}
        /\ reader' \in (0..Len(Rows(fileIdx))) \cup {NoReader}
    BY <1>8, <2>1, EndParseType DEF ParseFull, TypeOK
  <2>3. UNCHANGED <<conf, ranges, fileIdx, timeouts, filtered, filteredIds,
                   reported, rejected>>
    BY <1>8 DEF ParseFull, KeepCounters
  <2>4. /\ conf' \in Config /\ ranges' \in Seq(File) /\ fileIdx' \in Nat
        /\ filtered' \in Nat /\ filteredIds' \subseteq Nat \X Nat
        /\ reported' \in Nat /\ rejected' \in Nat
        /\ timeouts' \in 0..MaxTimeouts
    BY <2>3 DEF TypeOK
  <2>5. reader' # NoReader => /\ fileIdx' \in 1..Len(ranges')
                              /\ reader' \in 0..Len(Rows(fileIdx)')
    BY <2>1, <2>2, <2>3 DEF Rows
  <2>6. pc' # "parse"
    BY <2>2
  <2>7. QED
    BY <2>2, <2>4, <2>5, <2>6, IInvPrime
<1>9. CASE Terminated \/ UNCHANGED vars
  BY <1>9 DEF Terminated, vars, TypeOK, ReaderInv, Rows
<1>10. QED
  BY <1>1, <1>2, <1>3, <1>4, <1>5, <1>6, <1>7, <1>8, <1>9 DEF Next

(* The scanner's state is always well typed: in particular the reader     *)
(* never points past the last record of the range it reads, and every     *)
(* row id get_next returns names a record of an opened range.             *)
THEOREM TypeCorrect == Spec => []TypeOK
<1>1. Init => IInv
  BY InitIInv
<1>2. IInv /\ [Next]_vars => IInv'
  BY NextIInv
<1>3. IInv => TypeOK
  BY DEF IInv
<1>4. QED
  BY <1>1, <1>2, <1>3, PTL DEF Spec


-----------------------------------------------------------------------------
(* The chunk's columns stay aligned with the rows counted.                 *)

(* get_next's return releases the chunk.                                   *)
LEMMA ReturnAligned ==
  ASSUME NEW s, Return(s)
  PROVE  ChunkAligned'
BY DEF Return, ZeroCols, ChunkAligned

(* The converter loop over an aligned chunk, with the rollback of a       *)
(* failure, leaves the chunk aligned with the rows counted after it.      *)
LEMMA FillRowAligned ==
  ASSUME NEW c \in [Slots -> Nat], NEW b \in Seq(Nat \X Nat),
         \A j \in Slots : c[j] = Len(b),
         NEW r \in Row, NEW id \in Nat \X Nat
  PROVE  \A j \in Slots :
           FillRow(c, r, Len(b))[j]
             = Len(IF FailingSlots(r) = {} THEN Append(b, id) ELSE b)
<1>1. CASE FailingSlots(r) = {}
  BY <1>1 DEF FillRow, AppendUpTo
<1>2. CASE FailingSlots(r) # {}
  BY <1>2 DEF FillRow, SetNumRows
<1>3. QED
  BY <1>1, <1>2

(* Leaving the row loop keeps the chunk aligned: it is released, or (at   *)
(* EndOfFile with no row counted) kept with every column empty.           *)
LEMMA EndParseAligned ==
  ASSUME NEW st \in {"break", "timeout", "error", "dq_error"},
         NEW c \in [Slots -> Nat], NEW b \in Seq(Nat \X Nat),
         \A j \in Slots : c[j] = Len(b),
         NEW rd, EndParse(st, c, b, rd)
  PROVE  ChunkAligned'
<1> DEFINE s == IF st = "break" THEN IF NumRowsOf(c) > 0 THEN "ok" ELSE "eof" ELSE st
<1>1. CASE s = "eof"
  <2>1. cols' = c /\ batch' = <<>>
    BY <1>1 DEF EndParse
  <2>2. c[FirstSlot] = 0
    BY <1>1, FirstSlotMin DEF NumRowsOf
  <2>3. Len(b) = 0
    BY <2>2, FirstSlotMin
  <2>4. QED
    BY <2>1, <2>3 DEF ChunkAligned
<1>2. CASE s # "eof"
  <2>1. \E v : Return(v)
    BY <1>2 DEF EndParse
  <2>2. QED
    BY <2>1, ReturnAligned
<1>3. QED
  BY <1>1, <1>2


(* One iteration of the row loop keeps the chunk aligned.                  *)
LEMMA RowStepAligned ==
  ASSUME TypeOK, ChunkAligned,
         NEW r \in Row, NEW id \in Nat \X Nat, NEW eof \in BOOLEAN, NEW rd,
         \/ RowBlank(r, eof, rd)
         \/ RowShapeFiltered(r, id, eof, rd)
         \/ RowShapeFailed(r, eof, rd)
         \/ RowInvalidUtf8(r, id, rd)
         \/ RowConverted(r, id, eof, rd)
  PROVE  ChunkAligned'
<1>1. cols \in [Slots -> Nat] /\ batch \in Seq(Nat \X Nat)
      /\ \A j \in Slots : cols[j] = Len(batch)
  BY DEF TypeOK, ChunkAligned
<1>2. ASSUME NEW st \in {"break", "dq_error"}, EndParse(st, cols, batch, rd)
      PROVE  ChunkAligned'
  BY <1>1, <1>2, EndParseAligned
<1>3. UNCHANGED <<cols, batch>> => ChunkAligned'
  BY <1>1 DEF ChunkAligned
<1>4. CASE RowBlank(r, eof, rd)
  BY <1>2, <1>3, <1>4 DEF RowBlank
<1>5. CASE RowShapeFiltered(r, id, eof, rd)
  BY <1>2, <1>3, <1>5 DEF RowShapeFiltered
<1>6. CASE RowShapeFailed(r, eof, rd)
  BY <1>2, <1>6 DEF RowShapeFailed
<1>7. CASE RowInvalidUtf8(r, id, rd)
  BY <1>3, <1>7 DEF RowInvalidUtf8
<1>8. CASE RowConverted(r, id, eof, rd)
  <2> DEFINE c == FillRow(cols, r, Len(batch))
             b == IF FailingSlots(r) = {} THEN Append(batch, id) ELSE batch
  <2>0. Len(batch) \in Nat
    BY <1>1
  <2>1. c \in [Slots -> Nat]
    BY <1>1, <2>0, FillRowType, Zenon
  <2>7. b \in Seq(Nat \X Nat)
    BY <1>1
  <2>2. \A j \in Slots : c[j] = Len(b)
    <3>1. /\ cols \in [Slots -> Nat] /\ batch \in Seq(Nat \X Nat)
          /\ \A j \in Slots : cols[j] = Len(batch)
      BY <1>1
    <3>2. QED
      BY <3>1, FillRowAligned, Zenon
  <2>3. IF eof THEN EndParse("break", c, b, rd)
        ELSE cols' = c /\ batch' = b
    BY <1>8 DEF RowConverted
  <2>4. CASE eof
    BY <2>1, <2>7, <2>2, <2>3, <2>4, EndParseAligned
  <2>5. CASE ~eof
    BY <2>2, <2>3, <2>5 DEF ChunkAligned
  <2>6. QED
    BY <2>4, <2>5
<1>9. QED
  BY <1>4, <1>5, <1>6, <1>7, <1>8

(* The invariant the alignment theorem is proved with.                    *)
AInv == IInv /\ ChunkAligned

LEMMA NextAligned == AInv /\ [Next]_vars => ChunkAligned'
<1> SUFFICES ASSUME IInv, ChunkAligned, [Next]_vars PROVE ChunkAligned'
  BY DEF AInv
<1>1. TypeOK /\ ReaderInv
  BY DEF IInv
<1>2. cols \in [Slots -> Nat] /\ batch \in Seq(Nat \X Nat)
      /\ \A j \in Slots : cols[j] = Len(batch)
  BY <1>1 DEF TypeOK, ChunkAligned
<1>3. CASE GetNext \/ Terminated \/ UNCHANGED vars
  BY <1>2, <1>3 DEF GetNext, Terminated, vars, ChunkAligned
<1>4. CASE InitKeepReader
  BY <1>4 DEF InitKeepReader, ZeroCols, ChunkAligned
<1>5. CASE InitNoMoreFiles \/ InitOpenFails \/ InitSkipTimeout
  BY <1>5, ReturnAligned DEF InitNoMoreFiles, InitOpenFails, InitSkipTimeout
<1>6. CASE InitOpenFile
  <2>1. \/ cols' = ZeroCols /\ batch' = <<>>
        \/ \E v : Return(v)
    BY <1>6 DEF InitOpenFile
  <2>2. QED
    BY <2>1, ReturnAligned DEF ZeroCols, ChunkAligned
<1>7. CASE ParseFull
  <2>1. EndParse("break", cols, batch, reader)
    BY <1>7 DEF ParseFull
  <2>2. QED
    BY <1>2, <2>1, EndParseAligned
<1>8. CASE ParseRead
  <2> DEFINE f == fileIdx
             p == reader
  <2>1. f \in 1..Len(ranges) /\ p \in 0..Len(Rows(f))
    BY <1>1, <1>8 DEF ParseRead, ReaderInv
  <2>2. ASSUME NEW st \in {"break", "timeout", "error"}, EndParse(st, cols, batch, p)
        PROVE  ChunkAligned'
    BY <1>2, <2>2, EndParseAligned
  <2>3. CASE /\ p < Len(Rows(f))
             /\ LET r == Rows(f)[p + 1]
                    id == <<f, p + 1>>
                IN  \E eof \in IF conf.v2 /\ p + 1 = Len(Rows(f)) THEN BOOLEAN ELSE {FALSE} :
                      \/ RowBlank(r, eof, p + 1)
                      \/ RowShapeFiltered(r, id, eof, p + 1)
                      \/ RowShapeFailed(r, eof, p + 1)
                      \/ RowInvalidUtf8(r, id, p + 1)
                      \/ RowConverted(r, id, eof, p + 1)
    <3>1. Rows(f)[p + 1] \in Row
      BY <1>1, <2>1, <2>3, RowType DEF TypeOK
    <3>2. <<f, p + 1>> \in Nat \X Nat
      BY <2>1
    <3>3. PICK eof \in BOOLEAN :
            \/ RowBlank(Rows(f)[p + 1], eof, p + 1)
            \/ RowShapeFiltered(Rows(f)[p + 1], <<f, p + 1>>, eof, p + 1)
            \/ RowShapeFailed(Rows(f)[p + 1], eof, p + 1)
            \/ RowInvalidUtf8(Rows(f)[p + 1], <<f, p + 1>>, p + 1)
            \/ RowConverted(Rows(f)[p + 1], <<f, p + 1>>, eof, p + 1)
      BY <2>3
    <3>4. QED
      BY <1>1, <3>1, <3>2, <3>3, RowStepAligned
  <2>4. QED
    BY <1>8, <2>2, <2>3 DEF ParseRead
<1>9. QED
  BY <1>3, <1>4, <1>5, <1>6, <1>7, <1>8 DEF Next

(* Every column of the chunk being filled holds exactly the rows counted  *)
(* so far, for every slot layout, chunk size and input: the rollback      *)
(* chunk->set_num_rows(num_rows) after a failed conversion in             *)
(* _parse_csv / _parse_csv_v2 removes every value appended for the row.   *)
THEOREM ChunkAlignedInvariant == Spec => []ChunkAligned
<1>1. Init => AInv
  BY InitIInv DEF Init, AInv, ChunkAligned, ZeroCols
<1>2. AInv /\ [Next]_vars => AInv'
  BY NextIInv, NextAligned DEF AInv
<1>3. AInv => ChunkAligned
  BY DEF AInv
<1>4. QED
  BY <1>1, <1>2, <1>3, PTL DEF Spec


-----------------------------------------------------------------------------
(* The report cap.                                                         *)

(* A filtered row moves the counter and the report count together while   *)
(* the counter is below the cap (num_rows_filtered++ < max).               *)
LEMMA FilterRowCap ==
  ASSUME filtered \in Nat, reported \in Nat, ReportCap,
         NEW id, FilterRow(id)
  PROVE  ReportCap'
BY ReportMaxAssumption DEF FilterRow, ReportCap

(* A row handler either filters the row or leaves the counters alone.     *)
LEMMA RowStepCounters ==
  ASSUME NEW r, NEW id, NEW eof, NEW rd,
         \/ RowBlank(r, eof, rd)
         \/ RowShapeFiltered(r, id, eof, rd)
         \/ RowShapeFailed(r, eof, rd)
         \/ RowInvalidUtf8(r, id, rd)
         \/ RowConverted(r, id, eof, rd)
  PROVE  FilterRow(id) \/ UNCHANGED <<filtered, reported>>
<1>1. CASE RowBlank(r, eof, rd)
  BY <1>1 DEF RowBlank, KeepCounters
<1>2. CASE RowShapeFiltered(r, id, eof, rd)
  BY <1>2 DEF RowShapeFiltered, KeepCounters
<1>3. CASE RowShapeFailed(r, eof, rd)
  BY <1>3 DEF RowShapeFailed, KeepCounters
<1>4. CASE RowInvalidUtf8(r, id, rd)
  BY <1>4 DEF RowInvalidUtf8
<1>5. CASE RowConverted(r, id, eof, rd)
  BY <1>5 DEF RowConverted, KeepCounters
<1>6. QED
  BY <1>1, <1>2, <1>3, <1>4, <1>5

(* Every step of the scanner filters one row or leaves the counters.      *)
LEMMA NextCounters ==
  [Next]_vars => \/ \E id : FilterRow(id)
                 \/ UNCHANGED <<filtered, reported>>
<1> SUFFICES ASSUME [Next]_vars
             PROVE  \/ \E id : FilterRow(id)
                    \/ UNCHANGED <<filtered, reported>>
  OBVIOUS
<1>1. CASE ParseRead
  <2>1. CASE reader < Len(Rows(fileIdx)) /\ UNCHANGED timeouts
             /\ \E eof \in BOOLEAN :
                  \/ RowBlank(Rows(fileIdx)[reader + 1], eof, reader + 1)
                  \/ RowShapeFiltered(Rows(fileIdx)[reader + 1], <<fileIdx, reader + 1>>, eof, reader + 1)
                  \/ RowShapeFailed(Rows(fileIdx)[reader + 1], eof, reader + 1)
                  \/ RowInvalidUtf8(Rows(fileIdx)[reader + 1], <<fileIdx, reader + 1>>, reader + 1)
                  \/ RowConverted(Rows(fileIdx)[reader + 1], <<fileIdx, reader + 1>>, eof, reader + 1)
    BY <2>1, RowStepCounters
  <2>2. QED
    BY <1>1, <2>1 DEF ParseRead, KeepCounters
<1>2. CASE ~ParseRead
  BY <1>2 DEF Next, vars, GetNext, InitKeepReader, InitNoMoreFiles,
             InitOpenFails, InitSkipTimeout, InitOpenFile, ParseFull,
             Terminated, KeepCounters
<1>3. QED
  BY <1>1, <1>2

(* The invariant the report cap is proved with.                           *)
RInv == IInv /\ ReportCap

(* _report_error is called for exactly the first ReportMax filtered rows  *)
(* of a scan, for every cap and every input: the post-increment test      *)
(* num_rows_filtered++ < REPORT_ERROR_MAX_NUMBER in each of the five      *)
(* filtering branches of _parse_csv and _parse_csv_v2 neither skips a     *)
(* report below the cap nor adds one above it.                            *)
THEOREM ReportCapInvariant == Spec => []ReportCap
<1>1. Init => RInv
  BY InitIInv, ReportMaxAssumption DEF Init, RInv, ReportCap
<1>2. RInv /\ [Next]_vars => RInv'
  <2> SUFFICES ASSUME IInv, ReportCap, [Next]_vars PROVE IInv' /\ ReportCap'
    BY DEF RInv
  <2>1. IInv'
    BY NextIInv
  <2>2. filtered \in Nat /\ reported \in Nat
    BY DEF IInv, TypeOK
  <2>3. ReportCap'
    <3>1. CASE \E id : FilterRow(id)
      BY <2>2, <3>1, FilterRowCap
    <3>2. CASE UNCHANGED <<filtered, reported>>
      BY <3>2 DEF ReportCap
    <3>3. QED
      BY <3>1, <3>2, NextCounters
  <2>4. QED
    BY <2>1, <2>3
<1>3. QED
  BY <1>1, <1>2, PTL DEF Spec, RInv

=============================================================================
