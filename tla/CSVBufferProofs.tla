-------------------------- MODULE CSVBufferProofs ---------------------------
(***************************************************************************)
(* Proof that the read buffer of ScannerCSVReader keeps                    *)
(* 0 <= position <= limit <= capacity under every read size, compaction   *)
(* and end-of-file branch of _fill_buffer, for every capacity, delimiter  *)
(* and file.                                                               *)
(***************************************************************************)
EXTENDS CSVBuffer, TLAPS, WellFoundedInduction, SequenceTheorems

USE CapacityAssumption, DelimAssumption, FilesAssumption, IOErrorsAssumption

-----------------------------------------------------------------------------
(* A nonempty set of naturals has a least element.                         *)
LEMMA NatSetMin ==
  ASSUME NEW S \in SUBSET Nat, S # {}
  PROVE  \E x \in S : \A y \in S : x <= y
<1> DEFINE LT == {ss \in Nat \X Nat : ss[1] < ss[2]}
<1>1. OpToRel(<, Nat) = LT
  BY Zenon DEF OpToRel
<1>2. IsWellFoundedOn(LT, Nat)
  BY <1>1, NatLessThanWellFounded, Zenon
<1>3. PICK x \in S : \A y \in S : ~(<<y, x>> \in LT)
  <2>1. \A R, T : \A U \in SUBSET T :
          IsWellFoundedOn(R, T) /\ U # {} => \E z \in U : \A y \in U : ~(<<y, z>> \in R)
    BY WFMin
  <2>2. QED
    BY <1>2, <2>1
<1>4. ASSUME NEW y \in S PROVE x <= y
  <2>1. <<y, x>> \in Nat \X Nat /\ ~(<<y, x>> \in LT)
    BY <1>3
  <2>2. QED
    BY <2>1
<1>5. QED
  BY <1>4

(* The leftmost delimiter of a window that holds one ends inside it.       *)
LEMMA LeftmostDelimInside ==
  ASSUME NEW s \in Seq(STRING), RS!DelimsIn(s) # {}
  PROVE  /\ RS!LeftmostDelim(s) \in 1..Len(s)
         /\ RS!LeftmostDelim(s) + L - 1 <= Len(s)
<1>1. RS!DelimsIn(s) \subseteq Nat
  BY DEF RS!DelimsIn
<1>2. \E i \in RS!DelimsIn(s) : \A j \in RS!DelimsIn(s) : i <= j
  BY <1>1, NatSetMin
<1>3. RS!LeftmostDelim(s) \in RS!DelimsIn(s)
  BY <1>2 DEF RS!LeftmostDelim
<1>4. QED
  BY <1>3 DEF RS!DelimsIn, RS!DelimAt, RS!L, L

(* A read of k bytes of s appended to b, and what s has left.              *)
LEMMA ReadSplit ==
  ASSUME NEW b \in Seq(STRING), NEW s \in Seq(STRING), NEW k \in 0..Len(s)
  PROVE  /\ b \o SubSeq(s, 1, k) \in Seq(STRING)
         /\ Len(b \o SubSeq(s, 1, k)) = Len(b) + k
         /\ SubSeq(s, k + 1, Len(s)) \in Seq(STRING)
<1>1. SubSeq(s, 1, k) \in Seq(STRING) /\ Len(SubSeq(s, 1, k)) = k
  BY SubSeqProperties
<1>2. SubSeq(s, k + 1, Len(s)) \in Seq(STRING)
  BY SubSeqProperties
<1>3. QED
  BY <1>1, <1>2, ConcatProperties

(* The delimiter appended to a buffer.                                     *)
LEMMA AppendDelim ==
  ASSUME NEW b \in Seq(STRING)
  PROVE  b \o Delim \in Seq(STRING) /\ Len(b \o Delim) = Len(b) + L
BY ConcatProperties DEF L

-----------------------------------------------------------------------------
(* One _fill_buffer on a buffer b with position p that is within bounds    *)
(* and not full leaves the buffer within bounds.                           *)
LEMMA FillBufferType ==
  ASSUME TypeOK,
         NEW b \in Seq(STRING), Len(b) < Capacity,
         NEW p \in 0..Len(b),
         FillBuffer(b, p)
  PROVE  TypeOK'
<1> L \in Nat \ {0}
  BY DEF L
<1>1. CASE /\ IOErrors
           /\ st' = "io_error"
           /\ buf' = b /\ pos' = p
           /\ UNCHANGED <<file, src, recs>>
  BY <1>1 DEF TypeOK
<1>2. CASE \E k \in ReadSizes(b) :
             LET b1 == b \o SubSeq(src, 1, k)
             IN  /\ src' = SubSeq(src, k + 1, Len(src))
                 /\ UNCHANGED <<file, recs>>
                 /\ IF k > 0 THEN buf' = b1 /\ pos' = p /\ UNCHANGED st
                    ELSE IF NeedsDelim(b1, p) /\ NoRoomForDelim(b1)
                         THEN st' = "too_long" /\ buf' = b1 /\ pos' = p
                    ELSE /\ buf' = EofAppend(b1, p)
                         /\ IF Len(b1) = p THEN pos' = p + L /\ st' = "eof"
                            ELSE pos' = p /\ UNCHANGED st
  <2>1. PICK k \in ReadSizes(b) :
             LET b1 == b \o SubSeq(src, 1, k)
             IN  /\ src' = SubSeq(src, k + 1, Len(src))
                 /\ UNCHANGED <<file, recs>>
                 /\ IF k > 0 THEN buf' = b1 /\ pos' = p /\ UNCHANGED st
                    ELSE IF NeedsDelim(b1, p) /\ NoRoomForDelim(b1)
                         THEN st' = "too_long" /\ buf' = b1 /\ pos' = p
                    ELSE /\ buf' = EofAppend(b1, p)
                         /\ IF Len(b1) = p THEN pos' = p + L /\ st' = "eof"
                            ELSE pos' = p /\ UNCHANGED st
    BY <1>2
  <2> DEFINE b1 == b \o SubSeq(src, 1, k)
  <2>2. k \in 0..Len(src) /\ Len(b) + k <= Capacity
    BY DEF ReadSizes, Min2, TypeOK
  <2>3. b1 \in Seq(STRING) /\ Len(b1) = Len(b) + k /\ Len(b1) <= Capacity
    BY <2>2, ReadSplit DEF TypeOK
  <2>4. src' \in Seq(STRING) /\ file' \in Files /\ recs' \in Seq(Seq(STRING))
    BY <2>1, <2>2, ReadSplit DEF TypeOK
  <2>5. CASE k > 0
    <3>1. buf' = b1 /\ pos' = p /\ st' = st
      BY <2>1, <2>5
    <3>2. QED
      BY <3>1, <2>2, <2>3, <2>4 DEF TypeOK
  <2>6. CASE k = 0 /\ NeedsDelim(b1, p) /\ NoRoomForDelim(b1)
    <3>1. buf' = b1 /\ pos' = p /\ st' = "too_long"
      BY <2>1, <2>6
    <3>2. QED
      BY <3>1, <2>2, <2>3, <2>4 DEF TypeOK
  <2>7. CASE k = 0 /\ ~(NeedsDelim(b1, p) /\ NoRoomForDelim(b1))
    <3>1. buf' = EofAppend(b1, p)
      BY <2>1, <2>7
    <3>2. buf' \in Seq(STRING) /\ Len(buf') <= Capacity
      <4>1. CASE NeedsDelim(b1, p)
        <5>1. buf' = b1 \o Delim /\ Len(b1) + L <= Capacity
          BY <3>1, <4>1, <2>7 DEF EofAppend, NoRoomForDelim
        <5>2. QED
          BY <5>1, <2>3, AppendDelim
      <4>2. CASE ~NeedsDelim(b1, p)
        BY <3>1, <4>2, <2>3 DEF EofAppend
      <4>3. QED
        BY <4>1, <4>2
    <3>3. CASE Len(b1) = p
      <4>1. NeedsDelim(b1, p)
        BY <3>3, <2>3 DEF NeedsDelim
      <4>2. buf' = b1 \o Delim /\ pos' = p + L /\ st' = "eof"
        BY <2>1, <2>7, <3>1, <3>3, <4>1 DEF EofAppend
      <4>3. Len(buf') = p + L
        BY <4>2, <3>3, <2>3, AppendDelim
      <4>4. QED
        BY <4>2, <4>3, <3>2, <2>4 DEF TypeOK
    <3>4. CASE Len(b1) # p
      <4>1. pos' = p /\ st' = st
        BY <2>1, <2>7, <3>4
      <4>2. Len(b1) <= Len(buf')
        BY <3>1, <2>3, AppendDelim DEF EofAppend
      <4>3. QED
        BY <4>1, <4>2, <3>2, <2>3, <2>4 DEF TypeOK
    <3>5. QED
      BY <3>3, <3>4
  <2>8. QED
    BY <2>2, <2>5, <2>6, <2>7
<1>3. QED
  BY <1>1, <1>2 DEF FillBuffer

-----------------------------------------------------------------------------
(* The next_record steps.                                                  *)

LEMMA WindowType ==
  ASSUME TypeOK
  PROVE  Window \in Seq(STRING) /\ Len(Window) = Len(buf) - pos
BY DEF Window, TypeOK

LEMMA NextRecordFoundType ==
  ASSUME TypeOK, NextRecordFound
  PROVE  TypeOK'
<1>1. RS!DelimsIn(Window) # {} /\ FindLineDelimiter = RS!LeftmostDelim(Window)
  BY DEF NextRecordFound, FindLineDelimiter
<1> DEFINE i == FindLineDelimiter
<1>2. i \in 1..Len(Window) /\ i + L - 1 <= Len(Window)
  BY <1>1, WindowType, LeftmostDelimInside
<1>3. recs' = Append(recs, SubSeq(Window, 1, i - 1)) /\ pos' = pos + i - 1 + L
      /\ UNCHANGED <<file, src, buf, st>>
  BY DEF NextRecordFound
<1>4. L \in Nat \ {0}
  BY DEF L
<1>5. QED
  BY <1>2, <1>3, <1>4, WindowType DEF TypeOK

LEMMA NextRecordRefillType ==
  ASSUME TypeOK, NextRecordRefill
  PROVE  TypeOK'
<1> DEFINE b == IF FreeSpace = 0 THEN Window ELSE buf
           p == IF FreeSpace = 0 THEN 0 ELSE pos
<1>1. b \in Seq(STRING) /\ Len(b) <= Capacity /\ p \in 0..Len(b)
  BY WindowType DEF TypeOK, FreeSpace
<1>2. CASE Len(b) = Capacity
  BY <1>2 DEF NextRecordRefill, TypeOK
<1>3. CASE Len(b) # Capacity
  <2>1. FillBuffer(b, p)
    BY <1>3 DEF NextRecordRefill
  <2>2. QED
    BY <1>1, <1>3, <2>1, FillBufferType
<1>4. QED
  BY <1>2, <1>3

-----------------------------------------------------------------------------
(* TypeOK holds in every state: the reader's buffer never grows past its   *)
(* capacity and its position never passes its limit, through reads,       *)
(* compactions, the synthesized delimiter and the skip at EndOfFile of    *)
(* _fill_buffer (lines 104-122).                                          *)
THEOREM TypeCorrect == Spec => []TypeOK
<1>1. Init => TypeOK
  BY DEF Init, TypeOK
<1>2. TypeOK /\ [Next]_vars => TypeOK'
  <2> SUFFICES ASSUME TypeOK, [Next]_vars PROVE TypeOK'
    OBVIOUS
  <2>1. CASE NextRecordFound
    BY <2>1, NextRecordFoundType
  <2>2. CASE NextRecordRefill
    BY <2>2, NextRecordRefillType
  <2>3. CASE Stopped
    BY <2>3 DEF Stopped, TypeOK, vars
  <2>4. CASE UNCHANGED vars
    BY <2>4 DEF TypeOK, vars
  <2>5. QED
    BY <2>1, <2>2, <2>3, <2>4 DEF Next
<1>3. QED
  BY <1>1, <1>2, PTL DEF Spec

=============================================================================
