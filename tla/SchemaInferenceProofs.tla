------------------------ MODULE SchemaInferenceProofs ------------------------
(***************************************************************************)
(* Proofs about SchemaInference for every sample count, header length and *)
(* file: get_type_desc implements the type ladder of the specification,   *)
(* and the sampling loop keeps its counters within bounds.                *)
(***************************************************************************)
EXTENDS SchemaInference, TLAPS

USE SampleCountAssumption, SkipHeaderAssumption, V2Assumption,
    FilesAssumption, IOErrorsAssumption

-----------------------------------------------------------------------------
(* The CHOOSE of RefType picks the least accepted rung.                    *)
LEMMA LeastRung ==
  ASSUME NEW ok \in SUBSET (1..3), NEW m \in ok, \A j \in ok : m <= j
  PROVE  (CHOOSE k \in ok : \A j \in ok : k <= j) = m
<1> DEFINE c == CHOOSE k \in ok : \A j \in ok : k <= j
<1>1. c \in ok /\ \A j \in ok : c <= j
  OBVIOUS
<1>2. c <= m /\ m <= c
  BY <1>1
<1>3. c \in 1..3 /\ m \in 1..3
  BY <1>1
<1>4. QED
  BY <1>2, <1>3

(* get_type_desc tries string_to_int, string_to_float and string_to_bool   *)
(* in the order of the specification's ladder (4.6), whatever set of      *)
(* parsers accepts the field: the first rung that succeeds wins, and a    *)
(* field no parser accepts is VARCHAR.                                    *)
THEOREM TypeDescLadder == TypeDescIsLadder
<1> SUFFICES ASSUME NEW f \in Field PROVE TypeDesc(f) = RefType(f)
  BY DEF TypeDescIsLadder
<1> DEFINE ok == {k \in 1..3 : Ladder[k] \in f}
<1>0. ok \in SUBSET (1..3)
  OBVIOUS
<1>1. CASE "int" \in f
  <2>1. 1 \in ok /\ \A j \in ok : 1 <= j
    BY <1>1 DEF Ladder
  <2>2. (CHOOSE k \in ok : \A j \in ok : k <= j) = 1
    BY <1>0, <2>1, LeastRung
  <2>3. QED
    BY <1>1, <2>1, <2>2 DEF TypeDesc, RefType, LadderType
<1>2. CASE "int" \notin f /\ "float" \in f
  <2>1. 2 \in ok /\ \A j \in ok : 2 <= j
    BY <1>2 DEF Ladder
  <2>2. (CHOOSE k \in ok : \A j \in ok : k <= j) = 2
    BY <1>0, <2>1, LeastRung
  <2>3. QED
    BY <1>2, <2>1, <2>2 DEF TypeDesc, RefType, LadderType
<1>3. CASE "int" \notin f /\ "float" \notin f /\ "bool" \in f
  <2>1. 3 \in ok /\ \A j \in ok : 3 <= j
    BY <1>3 DEF Ladder
  <2>2. (CHOOSE k \in ok : \A j \in ok : k <= j) = 3
    BY <1>0, <2>1, LeastRung
  <2>3. QED
    BY <1>3, <2>1, <2>2 DEF TypeDesc, RefType, LadderType
<1>4. CASE "int" \notin f /\ "float" \notin f /\ "bool" \notin f
  <2>1. ok = {}
    BY <1>4 DEF Ladder
  <2>2. QED
    BY <1>4, <2>1 DEF TypeDesc, RefType
<1>5. QED
  BY <1>1, <1>2, <1>3, <1>4

-----------------------------------------------------------------------------
(* The schema of a record is a sequence of types.                          *)
LEMMA TypeRowType ==
  ASSUME NEW r \in Record
  PROVE  TypeRow(r) \in Seq(Types)
<1>1. \A f \in Field : TypeDesc(f) \in Types
  BY DEF TypeDesc, Types
<1>2. \A j \in 1..Len(r) : r[j] \in Field
  BY DEF Record
<1>3. QED
  BY <1>1, <1>2 DEF TypeRow

(* Every step of _get_schema keeps TypeOK.                                 *)
LEMMA TypeStep == TypeOK /\ [Next]_vars => TypeOK'
<1> SUFFICES ASSUME TypeOK, [Next]_vars PROVE TypeOK'
  OBVIOUS
<1>1. CASE GetSchema
  BY <1>1 DEF GetSchema, Finish, TypeOK
<1>2. CASE SampleNext
  <2>1. file \in Seq(Record)
    BY DEF TypeOK
  <2>2. CASE reader < Len(file) /\ reader' = reader + 1
              /\ SampleRecord(file[reader + 1]) /\ LoopCond
    <3>1. file[reader + 1] \in Record
      BY <2>1, <2>2 DEF TypeOK
    <3>2. TypeRow(file[reader + 1]) \in Seq(Types)
      BY <3>1, TypeRowType
    <3>3. reader' \in 0..Len(file') /\ file' \in Files
      BY <1>2, <2>2 DEF SampleNext, TypeOK
    <3>4. CASE file[reader + 1] = <<>>
      BY <2>2, <3>3, <3>4 DEF SampleRecord, TypeOK
    <3>5. CASE file[reader + 1] # <<>>
      <4>1. schemas' = Append(schemas, TypeRow(file[reader + 1]))
            /\ i' = i + 1 /\ pc' = pc /\ result' = result
        BY <2>2, <3>5 DEF SampleRecord
      <4>2. QED
        BY <2>2, <3>2, <3>3, <4>1 DEF LoopCond, TypeOK
    <3>6. QED
      BY <3>4, <3>5
  <2>3. CASE ~(reader < Len(file) /\ reader' = reader + 1
               /\ SampleRecord(file[reader + 1]))
    BY <1>2, <2>3 DEF SampleNext, Finish, TypeOK
  <2>4. QED
    BY <1>2, <2>2, <2>3 DEF SampleNext
<1>3. CASE SampleDone
  BY <1>3 DEF SampleDone, Finish, TypeOK
<1>4. CASE Terminated \/ UNCHANGED vars
  BY <1>4 DEF Terminated, TypeOK, vars
<1>5. QED
  BY <1>1, <1>2, <1>3, <1>4 DEF Next

(* TypeOK holds in every state: the reader never passes the end of the    *)
(* file, the loop counter of _get_schema / _get_schema_v2 never passes    *)
(* schema_sample_file_row_count, and every collected schema is a row of   *)
(* types.                                                                  *)
THEOREM TypeCorrect == Spec => []TypeOK
<1>1. Init => TypeOK
  BY DEF Init, TypeOK
<1>2. QED
  BY <1>1, TypeStep, PTL DEF Spec

=============================================================================
