---------------------------- MODULE MC_CSVBuffer ----------------------------
(* Small instances of CSVBuffer for TLC: every file up to a few bytes     *)
(* over a data byte and the bytes of the delimiter.                       *)
EXTENDS CSVBuffer

FilesUpTo(bytes, n) == UNION {[1..k -> bytes] : k \in 0..n}

(* One-byte delimiter, a 3-byte buffer: records of up to two bytes fit,   *)
(* files of up to five bytes force compactions and end-of-file handling   *)
(* with any number of bytes left.                                         *)
MCDelim1 == <<"d">>
MCFiles1 == FilesUpTo({"x", "d"}, 5)

(* Two-byte delimiter "ab" in a buffer larger than any file: delimiters   *)
(* split across reads, partial delimiters at the end of the file.         *)
MCDelim2 == <<"a", "b">>
MCFiles2 == FilesUpTo({"x", "a", "b"}, 4)

=============================================================================
