--------------------------- MODULE SchemaInference ---------------------------
(***************************************************************************)
(* Schema inference of CSVScanner (be/src/exec/csv_scanner.cpp 594-692):   *)
(* get_schema opens the first range through _init_reader (skip_header     *)
(* included), then _get_schema (plain mode) or _get_schema_v2 samples up  *)
(* to schema_sample_file_row_count non-blank records and types each field *)
(* with get_type_desc.  The per-row schemas go to merge_schema, which is  *)
(* outside this file.                                                     *)
(*                                                                         *)
(* Data abstraction: a field is the set of parsers of get_type_desc that  *)
(* accept it; a record is its sequence of fields (a blank record has      *)
(* none); a file is its sequence of records.                              *)
(***************************************************************************)
EXTENDS Naturals, Sequences, FiniteSets

CONSTANTS
  SampleCount,  \* _scan_range.params.schema_sample_file_row_count
  SkipHeader,   \* _parse_options.skip_header
  V2,           \* _use_v2: enclose or escape set
  Files,        \* candidate contents of the first range
  IOErrors      \* whether open, reads and the source may fail or time out

Parsers == {"int", "float", "bool"}
Field == SUBSET Parsers
Record == Seq(Field)

ASSUME SampleCountAssumption == SampleCount \in Nat
ASSUME SkipHeaderAssumption == SkipHeader \in Nat
ASSUME V2Assumption == V2 \in BOOLEAN
ASSUME FilesAssumption == Files \subseteq Seq(Record) /\ Files # {}
ASSUME IOErrorsAssumption == IOErrors \in BOOLEAN

VARIABLES
  file,     \* the records of the first range
  reader,   \* records _curr_reader has returned
  i,        \* the loop counter: records sampled
  schemas,  \* the per-row schemas collected for merge_schema
  pc,       \* "start", "sample" (in the loop) or "done"
  result    \* the status get_schema returned

vars == <<file, reader, i, schemas, pc, result>>

Types == {"BIGINT", "DOUBLE", "BOOLEAN", "VARCHAR"}

-----------------------------------------------------------------------------
(* get_type_desc: string_to_int, then string_to_float, then string_to_bool *)
(* are tried, and VARCHAR is the default.                                 *)
TypeDesc(f) ==
  IF "int" \in f THEN "BIGINT"
  ELSE IF "float" \in f THEN "DOUBLE"
  ELSE IF "bool" \in f THEN "BOOLEAN"
  ELSE "VARCHAR"

(* The schema of one record: field j is column $j with its type.          *)
TypeRow(r) == [j \in 1..Len(r) |-> TypeDesc(r[j])]

Finish(res) == pc' = "done" /\ result' = res

-----------------------------------------------------------------------------
Init ==
  /\ file \in Files
  /\ reader = 0
  /\ i = 0
  /\ schemas = <<>>
  /\ pc = "start"
  /\ result = "none"

(* get_schema calls _init_reader on a fresh scanner: the first range is   *)
(* opened (create_sequential_file may fail) and the skip_header loop      *)
(* reads t records; it ends after SkipHeader of them, at EndOfFile of a   *)
(* shorter file, or at a failed or timed-out read, whose status get_schema *)
(* returns.                                                               *)
GetSchema ==
  /\ pc = "start"
  /\ \/ /\ IOErrors
        /\ Finish("error")
        /\ UNCHANGED reader
     \/ \E t \in 0..SkipHeader :
          /\ reader' = t
          /\ \/ /\ t = SkipHeader /\ t <= Len(file)
                /\ pc' = "sample"
                /\ UNCHANGED result
             \/ /\ t < SkipHeader /\ t = Len(file)
                /\ Finish("eof")
             \/ /\ t < SkipHeader /\ t < Len(file)
                /\ IOErrors
                /\ Finish("error")
  /\ UNCHANGED <<file, i, schemas>>

(* Mutant of LoopCond: the loop runs while i <= sample count.              *)
LoopCondOffByOne == i <= SampleCount

(* The for condition i < schema_sample_file_row_count.                    *)
LoopCond == i < SampleCount

(* Mutant of SampleRecord: a blank record consumes a sample.               *)
SampleRecordCountBlank(r) ==
  /\ i' = i + 1
  /\ schemas' = IF r = <<>> THEN schemas ELSE Append(schemas, TypeRow(r))
  /\ UNCHANGED <<pc, result>>

(* The body after a record r was read: a blank record is skipped           *)
(* (continue, i unchanged); any other is split, each field typed by       *)
(* get_type_desc, the schema collected, and i incremented.                *)
SampleRecord(r) ==
  \/ /\ r = <<>>
     /\ UNCHANGED <<i, schemas, pc, result>>
  \/ /\ r # <<>>
     /\ schemas' = Append(schemas, TypeRow(r))
     /\ i' = i + 1
     /\ UNCHANGED <<pc, result>>

(* One iteration of the sampling loop of _get_schema / _get_schema_v2:    *)
(* next_record returns EndOfFile (break, then merge_schema and OK), fails  *)
(* or times out (returned), or returns a record.  The v2 reader may       *)
(* return the last record together with EndOfFile, and the loop breaks on *)
(* that status before looking at the row.                                 *)
SampleNext ==
  /\ pc = "sample"
  /\ LoopCond
  /\ \/ /\ reader = Len(file)
        /\ Finish("ok")
        /\ UNCHANGED <<reader, i, schemas>>
     \/ /\ reader < Len(file)
        /\ IOErrors
        /\ Finish("error")
        /\ UNCHANGED <<reader, i, schemas>>
     \/ /\ reader < Len(file)
        /\ reader' = reader + 1
        /\ \/ /\ V2 /\ reader + 1 = Len(file)
              /\ Finish("ok")
              /\ UNCHANGED <<i, schemas>>
           \/ SampleRecord(file[reader + 1])
  /\ UNCHANGED file

(* The loop condition fails: merge_schema, then OK.                        *)
SampleDone ==
  /\ pc = "sample"
  /\ ~LoopCond
  /\ Finish("ok")
  /\ UNCHANGED <<file, reader, i, schemas>>

(* The caller has the status and stops.                                   *)
Terminated ==
  /\ pc = "done"
  /\ UNCHANGED vars

Next == GetSchema \/ SampleNext \/ SampleDone \/ Terminated

(* Each call of get_schema runs its loop to the end.                       *)
Spec == Init /\ [][Next]_vars /\ WF_vars(Next)

-----------------------------------------------------------------------------
(* Properties.                                                             *)

TypeOK ==
  /\ file \in Files
  /\ reader \in 0..Len(file)
  /\ i \in 0..SampleCount
  /\ schemas \in Seq(Seq(Types))
  /\ pc \in {"start", "sample", "done"}
  /\ result \in {"none", "ok", "eof", "error"}

(* The reference ladder of the specification (4.6): the first rung whose  *)
(* parse succeeds wins, else string.                                      *)
Ladder == <<"int", "float", "bool">>
LadderType == <<"BIGINT", "DOUBLE", "BOOLEAN">>
RefType(f) ==
  LET ok == {k \in 1..3 : Ladder[k] \in f}
  IN  IF ok = {} THEN "VARCHAR"
      ELSE LadderType[CHOOSE k \in ok : \A j \in ok : k <= j]

(* get_type_desc agrees with the ladder of the specification on every     *)
(* field, whichever parsers accept it: a field that several parsers accept *)
(* gets the type of the earliest rung (an integer literal is also a float, *)
(* "1" may also be a boolean).                                             *)
TypeDescIsLadder == \A f \in Field : TypeDesc(f) = RefType(f)

(* The positions of the records after the header that are not blank, and *)
(* those at or before position j.                                         *)
DataIdx == {j \in SkipHeader + 1..Len(file) : file[j] # <<>>}
DataUpTo(j) == {d \in DataIdx : d <= j}

(* The records after the header that are not blank, in file order: the    *)
(* k-th is the one with exactly k such records at or before it.  This is  *)
(* SelectSeq(SubSeq(file, SkipHeader + 1, Len(file)), LAMBDA r : r # <<>>) *)
(* written without recursion.                                             *)
DataRows == [k \in 1..Cardinality(DataIdx) |->
               file[CHOOSE j \in DataIdx : Cardinality(DataUpTo(j)) = k]]

MinOf(a, b) == IF a <= b THEN a ELSE b

(* When get_schema returns OK, the schemas passed to merge_schema are those *)
(* of the first schema_sample_file_row_count non-blank records after the   *)
(* header, in file order, each field typed by the first ladder rung that  *)
(* accepts it: blank rows do not consume a sample (the continue at 639 and *)
(* 669), no sampled row is lost at the end of the file, and get_type_desc *)
(* probes in the specified order.                                          *)
SampleFaithful ==
  (pc = "done" /\ result = "ok") =>
    schemas = [k \in 1..MinOf(SampleCount, Len(DataRows)) |->
                 [j \in 1..Len(DataRows[k]) |-> RefType(DataRows[k][j])]]

=============================================================================
