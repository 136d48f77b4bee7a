------------------------- MODULE MC_SchemaInference -------------------------
(* Small instances of SchemaInference for TLC.                             *)
EXTENDS SchemaInference

(* A blank record, and records whose fields cover the rungs of the ladder: *)
(* a field every parser accepts, one that is a float and a boolean, a     *)
(* boolean, a string, an integer.                                         *)
Blank == <<>>
RecA == <<{"int", "float", "bool"}, {"float", "bool"}>>
RecB == <<{"bool"}, {}>>
RecC == <<{"int"}>>

(* Every file of up to four records: a header, then up to three data      *)
(* records, so that a sample of two is cut short, filled exactly, or      *)
(* filled with records left over, with blank records anywhere.            *)
MCFiles == UNION {[1..n -> {Blank, RecA, RecB, RecC}] : n \in 0..4}

=============================================================================
