---------------------------- MODULE MC_CSVScanner ----------------------------
(* Small instances of CSVScanner for TLC: three declared columns of which *)
(* the second is ignored, chunks of two rows, one report before the cap.  *)
EXTENDS CSVScanner

MCNumFields == 3
MCSlots == {1, 3}
MCChunkSize == 2
MCReportMax == 1

(* Representative records: blank, well formed, an unparsable value in the *)
(* ignored column, an unparsable value in the last slot (reached after    *)
(* the first slot was appended), one column short, one column extra, and  *)
(* invalid UTF-8.                                                         *)
Blank      == [n |-> 0, utf8 |-> TRUE,  bad |-> {}]
Good       == [n |-> 3, utf8 |-> TRUE,  bad |-> {}]
BadIgnored == [n |-> 3, utf8 |-> TRUE,  bad |-> {2}]
BadLast    == [n |-> 3, utf8 |-> TRUE,  bad |-> {3}]
Short      == [n |-> 2, utf8 |-> TRUE,  bad |-> {}]
Long       == [n |-> 4, utf8 |-> TRUE,  bad |-> {}]
NotUtf8    == [n |-> 3, utf8 |-> FALSE, bad |-> {}]

FilesOver(rows, minLen, maxLen) ==
  {[offset |-> o, rows |-> s] :
     o \in BOOLEAN,
     s \in UNION {[1..k -> rows] : k \in minLen..maxLen}}

AllConfigs(v2s) ==
  [scanType : ScanTypes, strict : BOOLEAN, flexible : BOOLEAN,
   logRejected : {TRUE}, v2 : v2s, ioErrors : BOOLEAN]

(* Plain mode, no header: every range but the last holds more than its   *)
(* partial first line; the last may hold nothing at all.                 *)
MCConfigsV1 == AllConfigs({FALSE})
MCRangesRows ==
  {<<f1, f2>> : f1 \in {f \in FilesOver({Good, BadLast, Short, Long, NotUtf8}, 1, 2) :
                          Len(f.rows) > (IF f.offset THEN 1 ELSE 0)},
                f2 \in {[offset |-> FALSE, rows |-> <<r1, Blank>>] : r1 \in {Good, BadIgnored}}
                        \cup {[offset |-> TRUE, rows |-> <<>>]}}

(* Both modes with one header row, no offset: files with a header and a   *)
(* data row or two.                                                       *)
MCConfigsBoth == AllConfigs(BOOLEAN)
MCRangesHeader ==
  {<<f1, f2>> : f1 \in {[offset |-> FALSE, rows |-> <<Good>> \o s] :
                          s \in UNION {[1..k -> {Good, BadLast, Short, Long}] : k \in 1..2}},
                f2 \in {[offset |-> o, rows |-> <<Short, Good, r>>] :
                          o \in BOOLEAN, r \in {Good, NotUtf8, Blank}}}

(* Enclose/escape mode: the last record of a range is one column short.   *)
MCConfigsV2Load ==
  {c \in AllConfigs({TRUE}) : c.scanType # "FILES_QUERY" /\ ~c.ioErrors /\ ~c.flexible}
MCRangesShortLast == {<<[offset |-> FALSE, rows |-> <<Good, Short>>]>>}

(* A range with fewer records than skip_header, followed by another range. *)
MCConfigsLoadV1 == {c \in MCConfigsV1 : c.scanType = "LOAD" /\ ~c.ioErrors}
MCRangesShortFile ==
  {<<[offset |-> FALSE, rows |-> <<>>], [offset |-> FALSE, rows |-> <<Good, Good>>]>>}

(* A range with a header row and a data row, read by a source that times  *)
(* out once.                                                              *)
MCRangesOneHeader == {<<[offset |-> o, rows |-> <<Good, Good, Good>>]>> : o \in BOOLEAN}

=============================================================================
