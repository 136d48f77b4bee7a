----------------------- MODULE CSVScannerOrderProofs -----------------------
(***************************************************************************)
(* Proofs about the rows get_next returns, for every value of CSVScanner's *)
(* constants: they come in file order and never twice (DeliveredInOrder), *)
(* without a skipped record when no skip read times out                  *)
(* (NoHeaderDelivered), and a chunk returned with OK carries rows         *)
(* (OkChunkNonEmpty).  The argument: every row returned or counted lies   *)
(* before the reader's position (ReadBefore), the position only moves     *)
(* forward, and a step only appends the record at that position or drops *)
(* the uncommitted rows.                                                  *)
(***************************************************************************)
EXTENDS CSVScannerProofs, SequenceTheorems


-----------------------------------------------------------------------------
(* Sequences of row ids.                                                   *)

Ids == Seq(Nat \X Nat)

(* u consists of the first Len(u) elements of s.                          *)
PrefixOf(u, s) == Len(u) <= Len(s) /\ \A i \in 1..Len(u) : u[i] = s[i]

LEMMA PrefixRefl ==
  ASSUME NEW s \in Ids
  PROVE  PrefixOf(s, s)
BY DEF PrefixOf

(* Dropping the uncommitted rows: s is a prefix of s \o t.                 *)
LEMMA ConcatPrefix ==
  ASSUME NEW s \in Ids, NEW t \in Ids
  PROVE  PrefixOf(s, s \o t) /\ PrefixOf(s \o <<>>, s \o t)
<1>1. s \o <<>> = s
  BY ConcatEmptySeq
<1>2. QED
  BY <1>1, ConcatProperties DEF PrefixOf

(* Committing a chunk, with or without a last row x, keeps the sequence.   *)
LEMMA ConcatAppend ==
  ASSUME NEW s \in Ids, NEW t \in Ids, NEW x \in Nat \X Nat
  PROVE  /\ (s \o Append(t, x)) \o <<>> = Append(s \o t, x)
         /\ s \o Append(t, x) = Append(s \o t, x)
<1>1. Append(t, x) = t \o <<x>> /\ Append(s \o t, x) = (s \o t) \o <<x>>
  BY AppendIsConcat, ConcatProperties
<1>2. s \o (t \o <<x>>) = (s \o t) \o <<x>>
  BY ConcatAssociative
<1>3. s \o Append(t, x) \in Ids
  BY AppendProperties, ConcatProperties DEF Ids
<1>4. QED
  BY <1>1, <1>2, <1>3, ConcatEmptySeq

LEMMA PrefixTrans ==
  ASSUME NEW u \in Ids, NEW v \in Ids, NEW s \in Ids,
         PrefixOf(u, v), PrefixOf(v, s)
  PROVE  PrefixOf(u, s)
BY DEF PrefixOf

(* A prefix of an ordered sequence is ordered.                             *)
LEMMA InOrderPrefix ==
  ASSUME NEW u \in Ids, NEW s \in Ids, InOrder(s), PrefixOf(u, s)
  PROVE  InOrder(u)
BY DEF InOrder, PrefixOf

(* An id that follows every element extends an ordered sequence.          *)
LEMMA InOrderAppend ==
  ASSUME NEW s \in Ids, NEW x \in Nat \X Nat, InOrder(s),
         \A k \in 1..Len(s) : Precedes(s[k], x)
  PROVE  InOrder(Append(s, x))
<1>1. Len(Append(s, x)) = Len(s) + 1
      /\ \A i \in 1..Len(s) : Append(s, x)[i] = s[i]
      /\ Append(s, x)[Len(s) + 1] = x
  BY AppendProperties
<1>2. QED
  BY <1>1 DEF InOrder

-----------------------------------------------------------------------------
(* What a step does to the rows returned or counted, and to the reader's   *)
(* position.                                                               *)

(* The record at the reader's position.                                    *)
Cursor == <<fileIdx, reader + 1>>

(* A step keeps a prefix of the rows, or of the rows followed by the       *)
(* record at the reader's position, which it has then read.               *)
DeliveredStep ==
  \/ PrefixOf(Delivered', Delivered)
  \/ /\ pc = "parse" /\ reader # NoReader /\ reader < Len(Rows(fileIdx))
     /\ PrefixOf(Delivered', Append(Delivered, Cursor))
     /\ ReadBefore(Cursor, fileIdx', reader')

(* The reader's position only moves forward.                               *)
CursorForward ==
  \A id \in Nat \X Nat : ReadBefore(id, fileIdx, reader) => ReadBefore(id, fileIdx', reader')

(* The end of the row loop drops the uncommitted rows or commits the       *)
(* chunk's rows b, and leaves the reader at rd or resets it.              *)
LEMMA EndParseShape ==
  ASSUME NEW st, NEW c, NEW b, NEW rd, EndParse(st, c, b, rd)
  PROVE  /\ batch' = <<>>
         /\ out' = out \/ out' = out \o b
         /\ reader' = rd \/ reader' = NoReader
         /\ pc' # "parse"
BY DEF EndParse, Return

(* A row handler stays in the loop with the reader at rd, having counted  *)
(* the row or not, or leaves the loop.                                    *)
LEMMA RowStepShape ==
  ASSUME NEW r, NEW id, NEW eof, NEW rd,
         \/ RowBlank(r, eof, rd)
         \/ RowShapeFiltered(r, id, eof, rd)
         \/ RowShapeFailed(r, eof, rd)
         \/ RowInvalidUtf8(r, id, rd)
         \/ RowConverted(r, id, eof, rd)
  PROVE  \E b \in {batch, Append(batch, id)} :
           \/ out' = out /\ batch' = b /\ reader' = rd /\ pc' = pc
           \/ \E st, c : EndParse(st, c, b, rd)
<1>1. CASE RowBlank(r, eof, rd) \/ RowShapeFiltered(r, id, eof, rd)
           \/ RowShapeFailed(r, eof, rd) \/ RowInvalidUtf8(r, id, rd)
  BY <1>1 DEF RowBlank, RowShapeFiltered, RowShapeFailed, RowInvalidUtf8
<1>2. CASE RowConverted(r, id, eof, rd)
  <2> DEFINE b == IF FailingSlots(r) = {} THEN Append(batch, id) ELSE batch
  <2>1. b \in {batch, Append(batch, id)}
    OBVIOUS
  <2>2. \/ out' = out /\ batch' = b /\ reader' = rd /\ pc' = pc
        \/ \E st, c : EndParse(st, c, b, rd)
    BY <1>2 DEF RowConverted
  <2>3. QED
    BY <2>1, <2>2
<1>3. QED
  BY <1>1, <1>2

(* The rows after a step that keeps them, drops the uncommitted ones or   *)
(* commits them.                                                           *)
LEMMA KeepShape ==
  ASSUME out \in Ids, batch \in Ids,
         \/ out' = out /\ batch' = batch
         \/ batch' = <<>> /\ (out' = out \/ out' = out \o batch)
  PROVE  PrefixOf(Delivered', Delivered)
<1>1. out \o batch \in Ids
  BY ConcatProperties DEF Ids
<1>2. (out \o batch) \o <<>> = out \o batch
  BY <1>1, ConcatEmptySeq DEF Ids
<1>3. PrefixOf(out \o <<>>, out \o batch)
  BY ConcatPrefix
<1>4. QED
  BY <1>1, <1>2, <1>3, PrefixRefl DEF Delivered

(* The rows after a step that keeps or drops the uncommitted rows, or     *)
(* commits them with or without the record x.                             *)
LEMMA DeliveredShape ==
  ASSUME out \in Ids, batch \in Ids, NEW x \in Nat \X Nat,
         NEW b \in {batch, Append(batch, x)},
         \/ out' = out /\ batch' = b
         \/ batch' = <<>> /\ (out' = out \/ out' = out \o b)
  PROVE  /\ b = batch => PrefixOf(Delivered', Delivered)
         /\ b = Append(batch, x) => PrefixOf(Delivered', Append(Delivered, x))
<1>1. out \o batch \in Ids /\ Append(out \o batch, x) \in Ids
      /\ Append(batch, x) \in Ids
  BY ConcatProperties, AppendProperties DEF Ids
<1>2. PrefixOf(out \o batch, Append(out \o batch, x))
  BY <1>1, AppendProperties DEF PrefixOf, Ids
<1>3. ASSUME b = batch PROVE PrefixOf(Delivered', Delivered)
  BY <1>3, KeepShape
<1>4. ASSUME b = Append(batch, x) PROVE PrefixOf(Delivered', Append(Delivered, x))
  <2>1. out \o b = Append(out \o batch, x) /\ (out \o b) \o <<>> = Append(out \o batch, x)
    BY <1>4, ConcatAppend
  <2>2. PrefixOf(out \o <<>>, out \o batch)
    BY ConcatPrefix
  <2>3. PrefixOf(out \o <<>>, Append(out \o batch, x))
    <3>1. out \o <<>> \in Ids
      BY ConcatEmptySeq DEF Ids
    <3>2. QED
      BY <1>1, <1>2, <2>2, <3>1, PrefixTrans
  <2>4. QED
    BY <1>1, <1>4, <2>1, <2>3, PrefixRefl DEF Delivered
<1>5. QED
  BY <1>3, <1>4

(* The ways a step moves the reader: not at all, one record forward or    *)
(* reset within the range, or from no reader to the next range.           *)
LEMMA ForwardCases ==
  ASSUME reader \in Nat \cup {NoReader}, fileIdx \in Nat,
         \/ fileIdx' = fileIdx /\ reader' = reader
         \/ fileIdx' = fileIdx /\ reader # NoReader /\ reader' \in {reader + 1, NoReader}
         \/ reader = NoReader /\ fileIdx' = fileIdx + 1 /\ reader' \in Nat \cup {NoReader}
  PROVE  CursorForward
BY NoReaderAssumption DEF CursorForward, ReadBefore, Precedes

(* Every step of the scanner keeps or extends the rows in one of the two  *)
(* ways of DeliveredStep and moves the reader's position forward.         *)
LEMMA NextShape ==
  ASSUME IInv, [Next]_vars
  PROVE  DeliveredStep /\ CursorForward
<1> USE DEF IInv
<1>1. out \in Ids /\ batch \in Ids /\ reader \in Nat \cup {NoReader} /\ fileIdx \in Nat
  BY DEF TypeOK, Ids
(* Steps that keep or drop the uncommitted rows.                          *)
<1>3. ASSUME out' = out, batch' \in {batch, <<>>} PROVE PrefixOf(Delivered', Delivered)
  BY <1>1, <1>3, KeepShape
<1>4. CASE GetNext \/ Terminated \/ UNCHANGED vars
  <2>1. UNCHANGED <<out, batch, fileIdx, reader>>
    BY <1>4 DEF GetNext, Terminated, vars
  <2>2. QED
    BY <1>1, <1>3, <2>1, ForwardCases DEF DeliveredStep
<1>5. CASE InitKeepReader \/ InitSkipTimeout
  <2>1. out' = out /\ batch' = <<>> /\ UNCHANGED <<fileIdx, reader>>
    BY <1>5 DEF InitKeepReader, InitSkipTimeout, Return
  <2>2. QED
    BY <1>1, <1>3, <2>1, ForwardCases DEF DeliveredStep
<1>6. CASE InitNoMoreFiles \/ InitOpenFails \/ InitOpenFile
  <2>1. /\ out' = out /\ batch' = <<>>
        /\ reader = NoReader /\ fileIdx' = fileIdx + 1 /\ reader' \in Nat \cup {NoReader}
    BY <1>6 DEF InitNoMoreFiles, InitOpenFails, InitOpenFile, Return, Skipped
  <2>2. QED
    BY <1>1, <1>3, <2>1, ForwardCases DEF DeliveredStep
<1>7. ASSUME NEW st, NEW c, EndParse(st, c, batch, reader), UNCHANGED fileIdx
      PROVE  DeliveredStep /\ CursorForward
  <2>1. /\ batch' = <<>> /\ (out' = out \/ out' = out \o batch)
        /\ (reader' = reader \/ reader' = NoReader)
    BY <1>7, EndParseShape
  <2>2. PrefixOf(Delivered', Delivered)
    BY <1>1, <2>1, KeepShape
  <2>3. CursorForward
    BY <1>1, <1>7, <2>1, ForwardCases
  <2>4. QED
    BY <2>2, <2>3 DEF DeliveredStep
<1>8. CASE ParseFull
  BY <1>7, <1>8 DEF ParseFull
<1>9. CASE ParseRead
  <2> DEFINE f == fileIdx
             p == reader
  <2>1. /\ f \in 1..Len(ranges) /\ p \in 0..Len(Rows(f))
        /\ pc = "parse" /\ reader # NoReader /\ UNCHANGED fileIdx
    BY <1>9 DEF ParseRead, ReaderInv
  <2>2. CASE \E st : EndParse(st, cols, batch, p)
    BY <2>1, <2>2, <1>7
  <2>3. CASE /\ p < Len(Rows(f))
             /\ \E eof \in BOOLEAN :
                  \/ RowBlank(Rows(f)[p + 1], eof, p + 1)
                  \/ RowShapeFiltered(Rows(f)[p + 1], <<f, p + 1>>, eof, p + 1)
                  \/ RowShapeFailed(Rows(f)[p + 1], eof, p + 1)
                  \/ RowInvalidUtf8(Rows(f)[p + 1], <<f, p + 1>>, p + 1)
                  \/ RowConverted(Rows(f)[p + 1], <<f, p + 1>>, eof, p + 1)
    <3>1. Cursor = <<f, p + 1>> /\ Cursor \in Nat \X Nat
      BY <2>1 DEF Cursor
    <3>2. PICK b \in {batch, Append(batch, Cursor)} :
            \/ out' = out /\ batch' = b /\ reader' = p + 1
            \/ \E st, c : EndParse(st, c, b, p + 1)
      <4>1. \E bb \in {batch, Append(batch, <<f, p + 1>>)} :
              \/ out' = out /\ batch' = bb /\ reader' = p + 1 /\ pc' = pc
              \/ \E st, c : EndParse(st, c, bb, p + 1)
        BY <2>3, RowStepShape
      <4>2. QED
        BY <3>1, <4>1
    <3>3. /\ \/ out' = out /\ batch' = b
             \/ batch' = <<>> /\ (out' = out \/ out' = out \o b)
          /\ reader' \in {p + 1, NoReader}
      BY <3>2, EndParseShape
    <3>4. CursorForward
      BY <1>1, <2>1, <3>3, ForwardCases
    <3>5. ReadBefore(Cursor, fileIdx', reader')
      <4>1. fileIdx' = f /\ p \in Nat
        BY <2>1
      <4>2. CASE reader' = p + 1
        BY <3>1, <4>1, <4>2, NoReaderAssumption DEF ReadBefore, Precedes
      <4>3. CASE reader' = NoReader
        BY <3>1, <4>1, <4>3 DEF ReadBefore
      <4>4. QED
        BY <3>3, <4>2, <4>3
    <3>6. CASE b = batch
      BY <1>1, <3>1, <3>3, <3>4, <3>6, DeliveredShape DEF DeliveredStep
    <3>7. CASE b = Append(batch, Cursor)
      <4>1. PrefixOf(Delivered', Append(Delivered, Cursor))
        BY <1>1, <3>1, <3>3, <3>7, DeliveredShape
      <4>2. QED
        BY <2>1, <2>3, <3>4, <3>5, <4>1 DEF DeliveredStep
    <3>8. QED
      BY <3>6, <3>7
  <2>4. QED
    BY <1>9, <2>2, <2>3 DEF ParseRead
<1>10. QED
  BY <1>4, <1>5, <1>6, <1>8, <1>9 DEF Next

-----------------------------------------------------------------------------
(* The order of the rows get_next returns.                                 *)

LEMMA ConcatIds ==
  ASSUME NEW o \in Ids, NEW b \in Ids
  PROVE  o \o b \in Ids
BY ConcatProperties DEF Ids

LEMMA NextOrder ==
  ASSUME IInv, OrderInv, [Next]_vars
  PROVE  OrderInv'
<1>1. DeliveredStep /\ CursorForward
  BY NextShape
<1>2. Delivered \in Ids /\ Delivered' \in Ids
  <2>1. TypeOK'
    BY NextIInv DEF IInv
  <2>2. out \in Ids /\ batch \in Ids /\ out' \in Ids /\ batch' \in Ids
    BY <2>1 DEF IInv, TypeOK, Ids
  <2>3. QED
    BY <2>2, ConcatIds DEF Delivered
<1>3. InOrder(Delivered)
      /\ \A k \in 1..Len(Delivered) : ReadBefore(Delivered[k], fileIdx, reader)
  BY DEF OrderInv, DeliveredInOrder
<1>4. \A k \in 1..Len(Delivered) : ReadBefore(Delivered[k], fileIdx', reader')
  <2>1. \A k \in 1..Len(Delivered) : Delivered[k] \in Nat \X Nat
    BY <1>2 DEF Ids
  <2>2. QED
    BY <1>1, <1>3, <2>1 DEF CursorForward
<1>5. CASE PrefixOf(Delivered', Delivered)
  <2>1. InOrder(Delivered')
    BY <1>2, <1>3, <1>5, InOrderPrefix
  <2>2. \A k \in 1..Len(Delivered') : ReadBefore(Delivered'[k], fileIdx', reader')
    <3>1. \A k \in 1..Len(Delivered') : k \in 1..Len(Delivered) /\ Delivered'[k] = Delivered[k]
      BY <1>2, <1>5 DEF PrefixOf, Ids
    <3>2. QED
      BY <1>1, <1>2, <1>3, <1>4, <3>1
  <2>3. QED
    BY <2>1, <2>2 DEF OrderInv, DeliveredInOrder
<1>6. CASE /\ pc = "parse" /\ reader # NoReader /\ reader < Len(Rows(fileIdx))
           /\ PrefixOf(Delivered', Append(Delivered, Cursor))
           /\ ReadBefore(Cursor, fileIdx', reader')
  <2> DEFINE x == Cursor
             S == Append(Delivered, x)
  <2>1. x = <<fileIdx, reader + 1>> /\ x \in Nat \X Nat
    BY <1>6 DEF Cursor, IInv, TypeOK
  <2>2. \A k \in 1..Len(Delivered) : Precedes(Delivered[k], x)
    BY <1>3, <1>6, <2>1 DEF ReadBefore
  <2>3. S \in Ids /\ Len(S) = Len(Delivered) + 1
        /\ \A k \in 1..Len(Delivered) : S[k] = Delivered[k]
        /\ S[Len(Delivered) + 1] = x
    BY <1>2, <2>1, AppendProperties DEF Ids
  <2>4. InOrder(S)
    BY <1>2, <1>3, <2>1, <2>2, InOrderAppend
  <2>6. \A k \in 1..Len(S) : ReadBefore(S[k], fileIdx', reader')
    BY <1>4, <1>6, <2>3
  <2>7. InOrder(Delivered')
    BY <1>2, <1>6, <2>3, <2>4, InOrderPrefix
  <2>8. \A k \in 1..Len(Delivered') : ReadBefore(Delivered'[k], fileIdx', reader')
    BY <1>6, <2>3, <2>6 DEF PrefixOf
  <2>9. QED
    BY <2>7, <2>8 DEF OrderInv, DeliveredInOrder
<1>7. QED
  BY <1>1, <1>5, <1>6 DEF DeliveredStep

(* The invariant the order theorem is proved with.                         *)
OInv == IInv /\ OrderInv

(* Across calls of get_next, timeouts that leave the reader in place,     *)
(* ranges opened again after a timed-out skip, and chunk boundaries, the  *)
(* rows get_next returns are in file order and none is returned twice,    *)
(* for every chunk size, number of ranges and input.                      *)
THEOREM DeliveredInOrderInvariant == Spec => []DeliveredInOrder
<1>1. Init => OInv
  BY InitIInv DEF Init, OInv, OrderInv, DeliveredInOrder, InOrder, Delivered
<1>2. OInv /\ [Next]_vars => OInv'
  BY NextIInv, NextOrder DEF OInv
<1>3. OInv => DeliveredInOrder
  BY DEF OInv, OrderInv
<1>4. QED
  BY <1>1, <1>2, <1>3, PTL DEF Spec

-----------------------------------------------------------------------------
(* The records _init_reader skips are never returned.                      *)

(* The second conjunct of HeaderInv.                                       *)
SkipInv == (reader # NoReader /\ pc # "done") => reader >= Skipped(fileIdx)

(* No step changes the scan ranges.                                        *)
LEMMA RangesConstant ==
  ASSUME [Next]_vars
  PROVE  ranges' = ranges
BY DEF Next, vars, GetNext, InitKeepReader, InitNoMoreFiles, InitOpenFails,
       InitSkipTimeout, InitOpenFile, ParseRead, ParseFull, Terminated

(* Without timeouts, an open reader that get_next may still use has read  *)
(* past the skipped records: the skip loop of _init_reader either reads   *)
(* all of them or ends the scan, and the row loop only moves forward.     *)
LEMMA NextSkip ==
  ASSUME MaxTimeouts = 0, IInv, SkipInv, [Next]_vars
  PROVE  SkipInv'
<1> USE DEF IInv
<1>1. timeouts \in Nat /\ ~TimeoutAllowed
  BY DEF TypeOK, TimeoutAllowed
<1>2. CASE GetNext \/ InitKeepReader
  <2>1. pc # "done" /\ pc' # "done" /\ UNCHANGED <<reader, fileIdx, ranges>>
    BY <1>2 DEF GetNext, InitKeepReader
  <2>2. QED
    BY <2>1 DEF SkipInv, Skipped
<1>9. CASE Terminated \/ UNCHANGED vars
  BY <1>9 DEF SkipInv, Terminated, vars, Skipped
<1>3. CASE InitNoMoreFiles \/ InitOpenFails \/ InitSkipTimeout
  BY <1>1, <1>3 DEF SkipInv, InitNoMoreFiles, InitOpenFails, InitSkipTimeout
<1>4. CASE InitOpenFile
  <2> DEFINE f == fileIdx + 1
  <2>1. PICK t \in 0..Skipped(f) :
          /\ reader' = t
          /\ \/ t = Skipped(f) /\ pc' = "parse"
             \/ \E st \in {"eof", "error"} : Return(st)
    BY <1>1, <1>4 DEF InitOpenFile
  <2>2. fileIdx' = f
    BY <1>4 DEF InitOpenFile
  <2>3. ranges' = ranges
    BY <1>4 DEF InitOpenFile
  <2>4. QED
    BY <2>1, <2>2, <2>3 DEF SkipInv, Return, Skipped, Rows
(* The row loop: the reader stays, moves one record or is reset.          *)
<1>5. ASSUME pc = "parse", UNCHANGED <<fileIdx, ranges>>,
             reader' \in {reader, reader + 1, NoReader}
      PROVE  SkipInv'
  <2>1. reader \in Nat /\ Skipped(fileIdx) \in Nat
    BY <1>5, SkipHeaderAssumption DEF ReaderInv, TypeOK, Skipped
  <2>2. reader >= Skipped(fileIdx)
    BY <1>5, NoReaderAssumption DEF SkipInv, ReaderInv
  <2>3. QED
    BY <1>5, <2>1, <2>2 DEF SkipInv, Skipped, Rows
<1>6. CASE ParseFull
  <2>1. reader' \in {reader, NoReader}
    BY <1>6, EndParseShape DEF ParseFull
  <2>2. QED
    BY <1>5, <1>6, <2>1 DEF ParseFull
<1>7. CASE ParseRead
  <2> DEFINE p == reader
  <2>1. pc = "parse" /\ UNCHANGED <<fileIdx, ranges>>
    BY <1>7 DEF ParseRead
  <2>2. CASE \E st : EndParse(st, cols, batch, p)
    BY <2>1, <2>2, <1>5, EndParseShape
  <2>3. CASE \E eof \in BOOLEAN :
               \/ RowBlank(Rows(fileIdx)[p + 1], eof, p + 1)
               \/ RowShapeFiltered(Rows(fileIdx)[p + 1], <<fileIdx, p + 1>>, eof, p + 1)
               \/ RowShapeFailed(Rows(fileIdx)[p + 1], eof, p + 1)
               \/ RowInvalidUtf8(Rows(fileIdx)[p + 1], <<fileIdx, p + 1>>, p + 1)
               \/ RowConverted(Rows(fileIdx)[p + 1], <<fileIdx, p + 1>>, eof, p + 1)
    <3>1. \E bb \in {batch, Append(batch, <<fileIdx, p + 1>>)} :
            \/ out' = out /\ batch' = bb /\ reader' = p + 1 /\ pc' = pc
            \/ \E st, c : EndParse(st, c, bb, p + 1)
      BY <2>3, RowStepShape
    <3>2. reader' \in {p + 1, NoReader}
      BY <3>1, EndParseShape
    <3>3. QED
      BY <1>5, <2>1, <3>2
  <2>4. QED
    BY <1>7, <2>2, <2>3 DEF ParseRead
<1>8. QED
  BY <1>2, <1>3, <1>4, <1>6, <1>7, <1>9 DEF Next

(* A record of an opened range past the skipped ones is a data row.       *)
LEMMA DataRowId ==
  ASSUME NEW f \in 1..Len(ranges), NEW i \in 1..Len(Rows(f)), i > Skipped(f)
  PROVE  <<f, i>> \in DataRowIds
<1>1. <<f, i>> \in RowIds
  BY DEF RowIds
<1>2. QED
  BY <1>1 DEF DataRowIds

LEMMA NextHeader ==
  ASSUME MaxTimeouts = 0, IInv, HeaderInv, [Next]_vars
  PROVE  HeaderInv'
<1>1. SkipInv'
  BY NextSkip DEF HeaderInv, SkipInv
<1>2. DeliveredStep
  BY NextShape
<1>3. DataRowIds' = DataRowIds
  BY RangesConstant DEF DataRowIds, RowIds, Skipped, Rows
<1>4. Delivered \in Ids /\ Delivered' \in Ids
  <2>1. TypeOK'
    BY NextIInv DEF IInv
  <2>2. out \in Ids /\ batch \in Ids /\ out' \in Ids /\ batch' \in Ids
    BY <2>1 DEF IInv, TypeOK, Ids
  <2>3. QED
    BY <2>2, ConcatIds DEF Delivered
<1>5. \A k \in 1..Len(Delivered) : Delivered[k] \in DataRowIds
  BY DEF HeaderInv, NoHeaderDelivered
<1>6. CASE PrefixOf(Delivered', Delivered)
  BY <1>1, <1>3, <1>4, <1>5, <1>6 DEF PrefixOf, HeaderInv, NoHeaderDelivered, SkipInv
<1>7. CASE /\ pc = "parse" /\ reader # NoReader /\ reader < Len(Rows(fileIdx))
           /\ PrefixOf(Delivered', Append(Delivered, Cursor))
  <2>1. fileIdx \in 1..Len(ranges) /\ reader \in Nat
    BY <1>7 DEF IInv, ReaderInv, TypeOK
  <2>2. reader >= Skipped(fileIdx)
    BY <1>7 DEF HeaderInv
  <2>3. Cursor \in DataRowIds
    <3>1. Skipped(fileIdx) \in Nat /\ Len(Rows(fileIdx)) \in Nat
      BY SkipHeaderAssumption DEF Skipped
    <3>2. reader + 1 \in 1..Len(Rows(fileIdx)) /\ reader + 1 > Skipped(fileIdx)
      BY <1>7, <2>1, <2>2, <3>1
    <3>3. QED
      BY <2>1, <3>2, DataRowId DEF Cursor
  <2>4. \A k \in 1..Len(Append(Delivered, Cursor)) : Append(Delivered, Cursor)[k] \in DataRowIds
    BY <1>4, <1>5, <2>3, AppendProperties DEF Ids
  <2>5. QED
    BY <1>1, <1>3, <1>4, <1>7, <2>4 DEF PrefixOf, HeaderInv, NoHeaderDelivered, SkipInv
<1>8. QED
  BY <1>2, <1>6, <1>7 DEF DeliveredStep

(* The invariant the header theorem is proved with.                        *)
HInv == IInv /\ HeaderInv

(* When no read of the source times out, no record that _init_reader is   *)
(* meant to consume (the partial line after a start offset and the        *)
(* skip_header rows) is ever returned as data, for every skip_header,     *)
(* chunk size and input.  With timeouts the property fails: a skip read   *)
(* that times out leaves _curr_reader in place and the next get_next      *)
(* parses the rest of the header (the headertimeout run).                 *)
THEOREM NoHeaderDeliveredInvariant ==
  ASSUME MaxTimeouts = 0
  PROVE  Spec => []NoHeaderDelivered
<1>1. Init => HInv
  BY InitIInv DEF Init, HInv, HeaderInv, NoHeaderDelivered, Delivered
<1>2. HInv /\ [Next]_vars => HInv'
  BY NextIInv, NextHeader DEF HInv
<1>3. HInv => NoHeaderDelivered
  BY DEF HInv, HeaderInv
<1>4. QED
  BY <1>1, <1>2, <1>3, PTL DEF Spec

-----------------------------------------------------------------------------
(* A chunk returned with OK holds rows.                                    *)

(* Leaving the row loop with a chunk c aligned with its rows b: OK is     *)
(* returned only when c's first column, and so b, is not empty, and the  *)
(* rows b are then committed.                                             *)
LEMMA EndParseHasRows ==
  ASSUME out \in Ids, NEW c \in [Slots -> Nat], NEW b \in Ids,
         \A j \in Slots : c[j] = Len(b),
         NEW st \in {"break", "timeout", "error", "dq_error"}, NEW rd,
         EndParse(st, c, b, rd)
  PROVE  ChunkHasRows
<1> DEFINE s == IF st = "break" THEN IF NumRowsOf(c) > 0 THEN "ok" ELSE "eof" ELSE st
<1>1. CASE s = "ok" \/ (s = "timeout" /\ NumRowsOf(c) > 0)
  <2>1. out' = out \o b
    BY <1>1 DEF EndParse
  <2>2. NumRowsOf(c) > 0
    BY <1>1
  <2>3. Len(b) > 0
    BY <2>2, FirstSlotMin DEF NumRowsOf
  <2>4. Len(out \o b) = Len(out) + Len(b)
    BY ConcatProperties DEF Ids
  <2>5. QED
    BY <2>1, <2>3, <2>4 DEF ChunkHasRows, Ids
<1>2. CASE s = "eof"
  BY <1>2 DEF EndParse, ChunkHasRows
<1>3. CASE s = "timeout" /\ ~(NumRowsOf(c) > 0)
  BY <1>3 DEF EndParse, Return, ChunkHasRows
<1>4. CASE s \in {"error", "dq_error"}
  BY <1>4 DEF EndParse, Return, ChunkHasRows
<1>5. QED
  BY <1>1, <1>2, <1>3, <1>4

(* One iteration of the row loop returns OK only with rows.                *)
LEMMA RowStepHasRows ==
  ASSUME TypeOK, ChunkAligned, pc = "parse",
         NEW r \in Row, NEW id \in Nat \X Nat, NEW eof \in BOOLEAN, NEW rd,
         \/ RowBlank(r, eof, rd)
         \/ RowShapeFiltered(r, id, eof, rd)
         \/ RowShapeFailed(r, eof, rd)
         \/ RowInvalidUtf8(r, id, rd)
         \/ RowConverted(r, id, eof, rd)
  PROVE  ChunkHasRows
<1>1. out \in Ids /\ cols \in [Slots -> Nat] /\ batch \in Ids
      /\ \A j \in Slots : cols[j] = Len(batch)
  BY DEF TypeOK, ChunkAligned, Ids
<1>2. ASSUME NEW st \in {"break", "dq_error"}, EndParse(st, cols, batch, rd)
      PROVE  ChunkHasRows
  BY <1>1, <1>2, EndParseHasRows
<1>3. pc' = pc => ChunkHasRows
  BY DEF ChunkHasRows
<1>4. CASE RowBlank(r, eof, rd)
  BY <1>2, <1>3, <1>4 DEF RowBlank
<1>5. CASE RowShapeFiltered(r, id, eof, rd)
  BY <1>2, <1>3, <1>5 DEF RowShapeFiltered
<1>6. CASE RowShapeFailed(r, eof, rd)
  BY <1>2, <1>6 DEF RowShapeFailed
<1>7. CASE RowInvalidUtf8(r, id, rd)
  BY <1>3, <1>7 DEF RowInvalidUtf8
<1>8. CASE RowConverted(r, id, eof, rd)
  <2> DEFINE c == FillRow(cols, r, Len(batch))
             b == IF FailingSlots(r) = {} THEN Append(batch, id) ELSE batch
  <2>0. Len(batch) \in Nat
    BY <1>1 DEF Ids
  <2>1. c \in [Slots -> Nat]
    BY <1>1, <2>0, FillRowType, Zenon
  <2>2. b \in Ids
    BY <1>1 DEF Ids
  <2>3. \A j \in Slots : c[j] = Len(b)
    <3>1. /\ cols \in [Slots -> Nat] /\ batch \in Seq(Nat \X Nat)
          /\ \A j \in Slots : cols[j] = Len(batch)
      BY <1>1 DEF Ids
    <3>2. QED
      BY <3>1, FillRowAligned, Zenon
  <2>4. IF eof THEN EndParse("break", c, b, rd) ELSE pc' = pc
    BY <1>8 DEF RowConverted
  <2>5. QED
    BY <1>1, <1>3, <2>1, <2>2, <2>3, <2>4, EndParseHasRows
<1>9. QED
  BY <1>4, <1>5, <1>6, <1>7, <1>8

LEMMA NextHasRows ==
  ASSUME IInv, ChunkAligned, [Next]_vars
  PROVE  [ChunkHasRows]_vars
<1> USE DEF IInv
<1>1. out \in Ids /\ cols \in [Slots -> Nat] /\ batch \in Ids
      /\ \A j \in Slots : cols[j] = Len(batch)
  BY DEF TypeOK, ChunkAligned, Ids
<1>2. CASE GetNext \/ InitKeepReader \/ InitNoMoreFiles \/ InitOpenFails
           \/ InitSkipTimeout \/ InitOpenFile
  BY <1>2 DEF GetNext, InitKeepReader, InitNoMoreFiles, InitOpenFails,
             InitSkipTimeout, InitOpenFile, Return, ChunkHasRows
<1>3. CASE Terminated \/ UNCHANGED vars
  BY <1>3 DEF Terminated, vars
<1>4. CASE ParseFull
  BY <1>1, <1>4, EndParseHasRows DEF ParseFull
<1>5. CASE ParseRead
  <2> DEFINE f == fileIdx
             p == reader
  <2>1. f \in 1..Len(ranges) /\ p \in 0..Len(Rows(f)) /\ pc = "parse"
    BY <1>5 DEF ParseRead, ReaderInv
  <2>2. CASE \E st \in {"break", "timeout", "error"} : EndParse(st, cols, batch, p)
    BY <1>1, <2>2, EndParseHasRows
  <2>3. CASE /\ p < Len(Rows(f))
             /\ \E eof \in BOOLEAN :
                  \/ RowBlank(Rows(f)[p + 1], eof, p + 1)
                  \/ RowShapeFiltered(Rows(f)[p + 1], <<f, p + 1>>, eof, p + 1)
                  \/ RowShapeFailed(Rows(f)[p + 1], eof, p + 1)
                  \/ RowInvalidUtf8(Rows(f)[p + 1], <<f, p + 1>>, p + 1)
                  \/ RowConverted(Rows(f)[p + 1], <<f, p + 1>>, eof, p + 1)
    <3>1. Rows(f)[p + 1] \in Row /\ <<f, p + 1>> \in Nat \X Nat
      BY <2>1, <2>3, RowType DEF TypeOK
    <3>2. QED
      BY <2>1, <2>3, <3>1, RowStepHasRows
  <2>4. QED
    BY <1>5, <2>2, <2>3 DEF ParseRead
<1>6. QED
  BY <1>2, <1>3, <1>4, <1>5 DEF Next

(* get_next never returns OK with an empty chunk, for every slot layout,  *)
(* chunk size and input: the status of _parse_csv / _parse_csv_v2 is      *)
(* decided by the size of the chunk's first column, and after the         *)
(* rollback of a failed conversion that size is the number of rows the    *)
(* chunk carries.                                                         *)
THEOREM OkChunkNonEmptyProperty == Spec => OkChunkNonEmpty
<1>1. Init => AInv
  BY InitIInv DEF Init, AInv, ChunkAligned, ZeroCols
<1>2. AInv /\ [Next]_vars => AInv'
  BY NextIInv, NextAligned DEF AInv
<1>3. AInv /\ [Next]_vars => [ChunkHasRows]_vars
  BY NextHasRows DEF AInv
<1>4. QED
  BY <1>1, <1>2, <1>3, PTL DEF Spec, OkChunkNonEmpty

=============================================================================
