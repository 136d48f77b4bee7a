--------------------- MODULE SchemaInferenceSampleProofs ---------------------
(***************************************************************************)
(* Proof of SampleFaithful in plain mode (_get_schema): when get_schema   *)
(* returns OK, the schemas handed to merge_schema are those of the first  *)
(* schema_sample_file_row_count non-blank records after the header, in    *)
(* file order, each field typed by the ladder of the specification.  The  *)
(* schema_v2 run shows that it fails for _get_schema_v2.                  *)
(*                                                                         *)
(* The argument: the k-th data record is the one of rank k (k data        *)
(* records at or before it); ranks are fixed by the file and distinct,    *)
(* and the loop keeps the schema of every data record it has read at the  *)
(* index of its rank, the counter i at the rank of the reader's position. *)
(***************************************************************************)
EXTENDS SchemaInferenceProofs, FiniteSetTheorems

(* DataIdx and DataUpTo of SchemaInference for a file f, and the rank of  *)
(* position j: the number of data records at or before it.                *)
Idx(f) == {j \in SkipHeader + 1..Len(f) : f[j] # <<>>}
UpTo(f, j) == {d \in Idx(f) : d <= j}
Rank(f, j) == Cardinality(UpTo(f, j))

(* A record typed field by field with the ladder of the specification.    *)
RefRow(r) == [j \in 1..Len(r) |-> RefType(r[j])]

USE SkipHeaderAssumption, SampleCountAssumption

-----------------------------------------------------------------------------
(* Ranks of data records.                                                  *)

LEMMA IdxBounded ==
  ASSUME NEW f \in Seq(Record)
  PROVE  /\ Idx(f) \subseteq 1..Len(f)
         /\ IsFiniteSet(Idx(f))
         /\ Cardinality(Idx(f)) \in Nat
<1>1. Idx(f) \subseteq 1..Len(f)
  BY DEF Idx
<1>2. IsFiniteSet(Idx(f))
  <2>1. Idx(f) \in SUBSET Nat /\ Len(f) \in Nat /\ \A d \in Idx(f) : d <= Len(f)
    BY <1>1
  <2>2. QED
    BY <2>1, FS_BoundedSetOfNaturals
<1>3. QED
  BY <1>1, <1>2, FS_CardinalityType

LEMMA RankType ==
  ASSUME NEW f \in Seq(Record), NEW j
  PROVE  /\ IsFiniteSet(UpTo(f, j))
         /\ UpTo(f, j) \subseteq Idx(f)
         /\ Rank(f, j) \in Nat
         /\ Rank(f, j) <= Cardinality(Idx(f))
<1>1. UpTo(f, j) \subseteq Idx(f)
  BY DEF UpTo
<1>2. QED
  BY <1>1, IdxBounded, FS_Subset, FS_CardinalityType DEF Rank

(* Ranks only grow along the file.                                         *)
LEMMA RankMono ==
  ASSUME NEW f \in Seq(Record), NEW a \in Nat, NEW b \in Nat, a <= b
  PROVE  /\ UpTo(f, a) \subseteq UpTo(f, b)
         /\ Rank(f, a) <= Rank(f, b)
<1>1. UpTo(f, a) \subseteq UpTo(f, b)
  BY IdxBounded DEF UpTo
<1>2. QED
  BY <1>1, RankType, FS_Subset DEF Rank

(* Two data records of the same rank are the same record.                  *)
LEMMA RankInjective ==
  ASSUME NEW f \in Seq(Record), NEW a \in Idx(f), NEW b \in Idx(f),
         Rank(f, a) = Rank(f, b)
  PROVE  a = b
<1>1. a \in Nat /\ b \in Nat
  BY IdxBounded
<1>2. ASSUME NEW x \in Idx(f), NEW y \in Idx(f), x < y
      PROVE  Rank(f, x) # Rank(f, y)
  <2>1. UpTo(f, x) \subseteq UpTo(f, y)
    BY <1>2, IdxBounded, RankMono
  <2>2. y \in UpTo(f, y) /\ y \notin UpTo(f, x)
    BY <1>2, IdxBounded DEF UpTo
  <2>3. IsFiniteSet(UpTo(f, y))
    BY RankType
  <2>4. Cardinality(UpTo(f, y)) = Cardinality(UpTo(f, x)) => UpTo(f, y) = UpTo(f, x)
    BY <2>1, <2>3, FS_Subset
  <2>5. QED
    BY <2>2, <2>4 DEF Rank
<1>3. QED
  BY <1>1, <1>2

(* Reading record n + 1 after the header: a blank record keeps the rank, *)
(* a data record gets the next one.                                        *)
LEMMA RankStep ==
  ASSUME NEW f \in Seq(Record), NEW n \in Nat, SkipHeader <= n, n < Len(f)
  PROVE  /\ f[n + 1] = <<>> => UpTo(f, n + 1) = UpTo(f, n)
         /\ f[n + 1] # <<>> =>
              /\ n + 1 \in UpTo(f, n + 1)
              /\ UpTo(f, n + 1) = UpTo(f, n) \cup {n + 1}
              /\ Rank(f, n + 1) = Rank(f, n) + 1
<1>1. f[n + 1] = <<>> => UpTo(f, n + 1) = UpTo(f, n)
  BY DEF UpTo, Idx
<1>2. ASSUME f[n + 1] # <<>>
      PROVE  /\ n + 1 \in UpTo(f, n + 1)
             /\ UpTo(f, n + 1) = UpTo(f, n) \cup {n + 1}
             /\ Rank(f, n + 1) = Rank(f, n) + 1
  <2>1. n + 1 \in UpTo(f, n + 1) /\ n + 1 \notin UpTo(f, n)
    BY <1>2 DEF UpTo, Idx
  <2>2. UpTo(f, n + 1) = UpTo(f, n) \cup {n + 1}
    BY <2>1, IdxBounded DEF UpTo, Idx
  <2>3. Cardinality(UpTo(f, n) \cup {n + 1}) = Cardinality(UpTo(f, n)) + 1
    BY <2>1, RankType, FS_AddElement
  <2>4. QED
    BY <2>1, <2>2, <2>3 DEF Rank
<1>3. QED
  BY <1>1, <1>2

(* No data record lies in the header; every one lies in the file.          *)
LEMMA RankEnds ==
  ASSUME NEW f \in Seq(Record)
  PROVE  /\ UpTo(f, SkipHeader) = {}
         /\ Rank(f, SkipHeader) = 0
         /\ UpTo(f, Len(f)) = Idx(f)
<1>1. UpTo(f, SkipHeader) = {}
  BY DEF UpTo, Idx
<1>2. Rank(f, SkipHeader) = 0
  BY <1>1, FS_EmptySet DEF Rank
<1>3. UpTo(f, Len(f)) = Idx(f)
  BY DEF UpTo, Idx
<1>4. QED
  BY <1>1, <1>2, <1>3


(* A data record has rank at least 1, and at most the rank of any later    *)
(* position.                                                               *)
LEMMA RankBounds ==
  ASSUME NEW f \in Seq(Record), NEW n \in Nat, NEW j \in UpTo(f, n)
  PROVE  /\ j \in Nat /\ j <= n /\ j \in Idx(f)
         /\ 1 <= Rank(f, j) /\ Rank(f, j) <= Rank(f, n)
<1>1. j \in Nat /\ j <= n /\ j \in Idx(f) /\ j \in UpTo(f, j)
  BY IdxBounded DEF UpTo
<1>2. UpTo(f, j) # {} /\ IsFiniteSet(UpTo(f, j)) /\ Rank(f, j) \in Nat
  BY <1>1, RankType
<1>3. Rank(f, j) # 0
  BY <1>2, FS_EmptySet DEF Rank
<1>4. QED
  BY <1>1, <1>2, <1>3, RankMono

-----------------------------------------------------------------------------
(* The invariant of the sampling loop.                                     *)

(* get_schema is in the loop or has returned OK from it.                   *)
InLoop == pc = "sample" \/ (pc = "done" /\ result = "ok")

(* Before the loop nothing is sampled; the counter i is the number of      *)
(* schemas; in the loop the reader is past the header, i is the rank of    *)
(* its position, every data record read so far has its schema at the      *)
(* index of its rank, and every index up to i is the rank of one of them;  *)
(* OK is returned at the end of the file or with the sample full.         *)
SampleInv ==
  /\ pc = "start" => i = 0
  /\ Len(schemas) = i
  /\ InLoop =>
       /\ SkipHeader <= reader
       /\ i = Rank(file, reader)
       /\ \A j \in UpTo(file, reader) : schemas[Rank(file, j)] = RefRow(file[j])
       /\ \A k \in 1..i : \E j \in UpTo(file, reader) : Rank(file, j) = k
  /\ (pc = "done" /\ result = "ok") => (reader = Len(file) \/ i = SampleCount)

(* get_type_desc types a record as the ladder does.                        *)
LEMMA TypeRowRef ==
  ASSUME NEW r \in Record
  PROVE  TypeRow(r) = RefRow(r)
<1>1. \A j \in 1..Len(r) : r[j] \in Field
  BY DEF Record
<1>2. \A fd \in Field : TypeDesc(fd) = RefType(fd)
  BY TypeDescLadder DEF TypeDescIsLadder
<1>3. QED
  BY <1>1, <1>2 DEF TypeRow, RefRow

(* One iteration of the loop body over record reader + 1: a blank record   *)
(* is skipped (continue, i unchanged), a data record has its schema        *)
(* appended at index i + 1, which is its rank.                             *)
LEMMA ReadStep ==
  ASSUME TypeOK, SampleInv, pc = "sample", reader < Len(file),
         reader' = reader + 1, file' = file, SampleRecord(file[reader + 1])
  PROVE  SampleInv'
<1> DEFINE n == reader
           F == file
           r == file[reader + 1]
<1>1. /\ F \in Seq(Record) /\ n \in Nat /\ SkipHeader <= n
      /\ i = Rank(F, n) /\ Len(schemas) = i /\ schemas \in Seq(Seq(Types))
      /\ r \in Record
  BY FilesAssumption DEF TypeOK, SampleInv, InLoop
<1>2. pc' = "sample"
  BY DEF SampleRecord
<1>3. CASE r = <<>>
  <2>1. i' = i /\ schemas' = schemas
    BY <1>3 DEF SampleRecord
  <2>2. UpTo(F, n + 1) = UpTo(F, n)
    BY <1>1, <1>3, RankStep
  <2>3. Rank(F, n + 1) = Rank(F, n)
    BY <2>2 DEF Rank
  <2>4. QED
    BY <1>1, <1>2, <2>1, <2>2, <2>3 DEF SampleInv, InLoop
<1>4. CASE r # <<>>
  <2>1. schemas' = Append(schemas, TypeRow(r)) /\ i' = i + 1
    BY <1>4 DEF SampleRecord
  <2>2. /\ n + 1 \in UpTo(F, n + 1)
        /\ UpTo(F, n + 1) = UpTo(F, n) \cup {n + 1}
        /\ Rank(F, n + 1) = i + 1
    BY <1>1, <1>4, RankStep
  <2>3. TypeRow(r) = RefRow(r)
    BY <1>1, TypeRowRef
  <2>4. Len(schemas') = i' /\ schemas'[i + 1] = RefRow(r)
        /\ \A k \in 1..i : schemas'[k] = schemas[k]
    BY <1>1, <2>1, <2>3
  <2>5. ASSUME NEW j \in UpTo(F, n + 1)
        PROVE  schemas'[Rank(F, j)] = RefRow(F[j])
    <3>1. CASE j = n + 1
      BY <2>2, <2>4, <3>1
    <3>2. CASE j # n + 1
      <4>1. j \in UpTo(F, n)
        BY <2>2, <3>2
      <4>2. Rank(F, j) \in 1..i
        <5>1. 1 <= Rank(F, j) /\ Rank(F, j) <= Rank(F, n)
          BY <1>1, <4>1, RankBounds
        <5>2. Rank(F, j) \in Nat
          BY <1>1, RankType
        <5>3. QED
          BY <1>1, <5>1, <5>2
      <4>3. schemas[Rank(F, j)] = RefRow(F[j])
        BY <1>1, <4>1 DEF SampleInv, InLoop
      <4>4. QED
        BY <2>4, <4>2, <4>3
    <3>3. QED
      BY <3>1, <3>2
  <2>6. ASSUME NEW k \in 1..i + 1
        PROVE  \E j \in UpTo(F, n + 1) : Rank(F, j) = k
    <3>1. CASE k = i + 1
      BY <2>2, <3>1
    <3>2. CASE k # i + 1
      <4>1. k \in 1..i
        BY <1>1, <3>2
      <4>2. PICK j \in UpTo(F, n) : Rank(F, j) = k
        BY <1>1, <4>1 DEF SampleInv, InLoop
      <4>3. QED
        BY <2>2, <4>2
    <3>3. QED
      BY <3>1, <3>2
  <2>7. /\ UpTo(file', reader') = UpTo(F, n + 1)
        /\ Rank(file', reader') = Rank(F, n + 1)
        /\ \A j : Rank(file', j) = Rank(F, j)
    OBVIOUS
  <2>8. SkipHeader <= reader' /\ i' = Rank(file', reader')
    BY <1>1, <2>1, <2>2, <2>7
  <2>9. \A j \in UpTo(file', reader') : schemas'[Rank(file', j)] = RefRow(file'[j])
    <3>1. \A j \in UpTo(F, n + 1) : schemas'[Rank(F, j)] = RefRow(F[j])
      BY <2>5
    <3>2. QED
      BY <3>1, <2>7
  <2>10. \A k \in 1..i' : \E j \in UpTo(file', reader') : Rank(file', j) = k
    <3>1. \A k \in 1..i + 1 : \E j \in UpTo(F, n + 1) : Rank(F, j) = k
      BY <2>6
    <3>2. QED
      BY <3>1, <2>1, <2>7
  <2>11. QED
    BY <1>2, <2>4, <2>8, <2>9, <2>10 DEF SampleInv, InLoop
<1>5. QED
  BY <1>3, <1>4

(* Every step of _get_schema keeps SampleInv, when the scanner is not the *)
(* v2 one (the v2 loop may stop at the last record without sampling it). *)
LEMMA SampleStep ==
  ASSUME ~V2, TypeOK, SampleInv, [Next]_vars
  PROVE  SampleInv'
<1>1. file \in Seq(Record)
  BY FilesAssumption DEF TypeOK
<1>2. CASE GetSchema
  <2>1. CASE pc' = "sample"
    <3>1. /\ reader' = SkipHeader /\ file' = file
          /\ i' = 0 /\ Len(schemas') = 0 /\ result' = result
      BY <1>2, <2>1 DEF GetSchema, Finish, SampleInv
    <3>2. UpTo(file', reader') = {} /\ Rank(file', reader') = 0
      BY <1>1, <3>1, RankEnds
    <3>3. QED
      BY <2>1, <3>1, <3>2, SkipHeaderAssumption DEF SampleInv, InLoop
  <2>2. CASE pc' # "sample"
    <3>1. pc' = "done" /\ result' # "ok" /\ i' = i /\ schemas' = schemas
      BY <1>2, <2>2 DEF GetSchema, Finish
    <3>2. QED
      BY <3>1 DEF SampleInv, InLoop
  <2>3. QED
    BY <2>1, <2>2
<1>3. CASE SampleNext
  <2>1. CASE reader = Len(file)
    <3>1. /\ pc' = "done" /\ result' = "ok" /\ pc = "sample"
          /\ UNCHANGED <<file, reader, i, schemas>>
      BY <1>3, <2>1 DEF SampleNext, Finish
    <3>2. QED
      BY <2>1, <3>1 DEF SampleInv, InLoop
  <2>2. CASE reader < Len(file) /\ reader' = reader + 1
             /\ SampleRecord(file[reader + 1])
    BY <1>3, <2>2, ReadStep DEF SampleNext
  <2>3. CASE ~(reader = Len(file)) /\
             ~(reader < Len(file) /\ reader' = reader + 1
               /\ SampleRecord(file[reader + 1]))
    <3>1. pc' = "done" /\ result' = "error" /\ UNCHANGED <<i, schemas>>
      BY <1>3, <2>3 DEF SampleNext, Finish
    <3>2. QED
      BY <3>1 DEF SampleInv, InLoop
  <2>4. QED
    BY <2>1, <2>2, <2>3
<1>4. CASE SampleDone
  <3>1. /\ pc' = "done" /\ result' = "ok" /\ pc = "sample"
        /\ UNCHANGED <<file, reader, i, schemas>>
    BY <1>4 DEF SampleDone, Finish
  <3>2. i = SampleCount
    BY <1>4, SampleCountAssumption DEF SampleDone, LoopCond, TypeOK
  <3>3. QED
    BY <3>1, <3>2 DEF SampleInv, InLoop
<1>5. CASE Terminated \/ UNCHANGED vars
  <3>1. UNCHANGED vars
    BY <1>5 DEF Terminated
  <3>2. QED
    BY <3>1 DEF SampleInv, InLoop, vars
<1>6. QED
  BY <1>2, <1>3, <1>4, <1>5 DEF Next

(* Where the loop ends with OK, SampleInv says SampleFaithful: the k-th   *)
(* collected schema is that of the record of rank k, which is DataRows[k] *)
(* because ranks are one-to-one, and there are as many as the smaller of *)
(* the sample count and the data records.                                 *)
LEMMA SampleEnd ==
  ASSUME TypeOK, SampleInv
  PROVE  SampleFaithful
<1> SUFFICES ASSUME pc = "done", result = "ok"
             PROVE  schemas = [k \in 1..MinOf(SampleCount, Len(DataRows)) |->
                                 [j \in 1..Len(DataRows[k]) |->
                                    RefType(DataRows[k][j])]]
  BY DEF SampleFaithful
<1> DEFINE N == Cardinality(Idx(file))
<1>1. file \in Seq(Record) /\ reader \in Nat /\ i \in Nat
      /\ SampleCount \in Nat /\ schemas \in Seq(Seq(Types)) /\ Len(schemas) = i
  BY FilesAssumption, SampleCountAssumption DEF TypeOK, SampleInv
<1>2. /\ i = Rank(file, reader)
      /\ \A j \in UpTo(file, reader) : schemas[Rank(file, j)] = RefRow(file[j])
      /\ \A k \in 1..i : \E j \in UpTo(file, reader) : Rank(file, j) = k
      /\ reader = Len(file) \/ i = SampleCount
  BY DEF SampleInv, InLoop
<1>3. Idx(file) = DataIdx /\ \A j : UpTo(file, j) = DataUpTo(j)
  BY DEF Idx, DataIdx, UpTo, DataUpTo
<1>4. N \in Nat /\ Len(DataRows) = N
  <2>1. N \in Nat
    BY <1>1, IdxBounded
  <2>2. DataRows \in Seq({DataRows[k] : k \in 1..N})
    <3>1. DataRows \in [1..N -> {DataRows[k] : k \in 1..N}]
      BY <1>3 DEF DataRows
    <3>2. QED
      BY <2>1, <3>1
  <2>3. QED
    BY <1>3, <2>1, <2>2 DEF DataRows
<1>5. MinOf(SampleCount, N) = i
  <2>1. CASE reader = Len(file)
    <3>1. i = N
      BY <1>1, <1>2, <2>1, RankEnds DEF Rank
    <3>2. QED
      BY <1>1, <3>1 DEF MinOf, TypeOK
  <2>2. CASE i = SampleCount
    <3>1. i <= N
      BY <1>1, <1>2, RankType
    <3>2. QED
      BY <1>1, <2>2, <3>1, <1>4 DEF MinOf
  <2>3. QED
    BY <1>2, <2>1, <2>2
<1>6. ASSUME NEW k \in 1..i
      PROVE  schemas[k] = [j \in 1..Len(DataRows[k]) |-> RefType(DataRows[k][j])]
  <2>1. PICK w \in UpTo(file, reader) : Rank(file, w) = k
    BY <1>2, <1>6
  <2>2. w \in Idx(file)
    BY <1>1, RankType
  <2>3. \A x \in Idx(file) : Rank(file, x) = k => x = w
    BY <1>1, <2>1, <2>2, RankInjective
  <2>4. (CHOOSE x \in DataIdx : Cardinality(DataUpTo(x)) = k) = w
    <3>1. \A x : Cardinality(DataUpTo(x)) = Rank(file, x)
      BY <1>3 DEF Rank
    <3>2. w \in DataIdx /\ Cardinality(DataUpTo(w)) = k
      BY <1>3, <2>1, <2>2, <3>1
    <3>3. \A x \in DataIdx : Cardinality(DataUpTo(x)) = k => x = w
      BY <1>3, <2>3, <3>1
    <3>4. QED
      BY <3>2, <3>3
  <2>5. k \in 1..N
    <3>1. MinOf(SampleCount, N) <= N
      BY <1>1, <1>4 DEF MinOf
    <3>2. QED
      BY <1>1, <1>5, <3>1, <1>4
  <2>6. DataRows[k] = file[w]
    BY <1>3, <2>4, <2>5 DEF DataRows
  <2>7. schemas[k] = RefRow(file[w])
    BY <1>2, <2>1
  <2>8. QED
    BY <2>6, <2>7 DEF RefRow
<1>7. QED
  <2>1. schemas = [k \in 1..i |-> schemas[k]]
    BY <1>1
  <2>2. QED
    BY <1>4, <1>5, <1>6, <2>1

(* Outside the v2 scanner, whenever _get_schema returns OK the schemas it *)
(* handed to merge_schema are those of the first                         *)
(* min(schema_sample_file_row_count, data records) non-blank records     *)
(* after the skipped header, in file order, each typed by the ladder of  *)
(* get_type_desc.  The inductive invariant is TypeOK /\ SampleInv.  The  *)
(* hypothesis ~V2 is needed: the schema_v2 run shows the v2 loop leaving *)
(* out the last record.                                                  *)
THEOREM SampleFaithfulInvariant ==
  ASSUME ~V2
  PROVE  Spec => []SampleFaithful
<1>1. Init => TypeOK /\ SampleInv
  BY DEF Init, TypeOK, SampleInv, InLoop
<1>2. TypeOK /\ SampleInv /\ [Next]_vars => TypeOK' /\ SampleInv'
  BY TypeStep, SampleStep
<1>3. TypeOK /\ SampleInv => SampleFaithful
  BY SampleEnd
<1>4. QED
  BY <1>1, <1>2, <1>3, PTL DEF Spec

=============================================================================
