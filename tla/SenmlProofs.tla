---------------------------- MODULE SenmlProofs ----------------------------
(***************************************************************************)
(* The encoder (Senml) stays inside its buffer, whatever the pack and      *)
(* however small the buffer.                                               *)
(*                                                                         *)
(* InBounds is not inductive: a record that turns out empty, or one whose  *)
(* last comma becomes '}' and a comma, gives back or takes a byte without  *)
(* a test.  Room says that the byte is there: at each place, how ins_pos   *)
(* and buf_len divide the buffer and whether a byte is left, or a '{' to   *)
(* take back.                                                              *)
(***************************************************************************)
EXTENDS Senml, SequenceTheorems, TLAPS

\* Where the encoder is in the pack.
Place ==
  /\ pc = "open" => r = 0 /\ k = 1
  /\ pc = "fields" => r <= Num /\ k <= Len(Fields) + 1
  /\ pc = "record" => r > 0

\* Every cell of out is at least one byte, and a field leaves its comma there.
Cells ==
  /\ pc # "done" => Len(out) <= ins_pos
  /\ pc = "fields" /\ k > 1 => out # << >>

Room ==
  /\ pc = "open" => ins_pos = 0 /\ buf_len = len
  /\ pc \in {"fields", "record"} =>
       /\ len >= 3
       /\ r = 0 => ins_pos + buf_len = len
       /\ r > 0 => ins_pos + buf_len = len - 1
       /\ buf_len >= 0
  /\ pc = "fields" /\ (r = 0 \/ k > 1) => buf_len >= 1
  /\ pc = "fields" /\ r > 0 /\ k = 1 => buf_len >= 1 \/ EndsIn("lbrace")
  /\ pc = "record" /\ r <= Num => buf_len >= 1
  /\ pc \in {"done", "failed"} => ins_pos <= len /\ buf_len >= 0
  /\ pc = "failed" => ins_pos + buf_len <= len

IInv == TypeOK /\ Place /\ Cells /\ Room

----------------------------------------------------------------------------

\* What is left of a sequence when the rest is taken back.
LEMMA Prefix ==
  ASSUME NEW S, NEW s, NEW n \in Nat, \A i \in 1 .. n : s[i] \in S
  PROVE  SubSeq(s, 1, n) \in Seq(S) /\ Len(SubSeq(s, 1, n)) = n
BY SMT

\* Taking back the last byte.
LEMMA ButLast ==
  ASSUME NEW S, NEW s \in Seq(S)
  PROVE  But(s) \in Seq(S) /\ (s # << >> => Len(But(s)) = Len(s) - 1)
<1>1. CASE s = << >>
  BY <1>1, EmptySeq, SubSeqEmpty DEF But
<1>2. CASE s # << >>
  <2>1. Len(s) - 1 \in Nat
    BY <1>2, EmptySeq
  <2>2. \A i \in 1 .. Len(s) - 1 : s[i] \in S
    BY <2>1, ElementOfSeq
  <2> QED BY <2>1, <2>2, Prefix DEF But
<1> QED BY <1>1, <1>2

\* Inserting two cells.
LEMMA TwoAppended ==
  ASSUME NEW S, NEW s \in Seq(S), NEW a \in S, NEW b \in S
  PROVE  /\ Append(Append(s, a), b) \in Seq(S)
         /\ Len(Append(Append(s, a), b)) = Len(s) + 2
BY AppendProperties, LenProperties

\* A mark written last is seen there.
LEMMA EndsAppended ==
  ASSUME NEW S, out \in Seq(S), NEW s, Mark(s) \in S, out' = Append(out, Mark(s))
  PROVE  EndsIn(s)' /\ Len(out') = Len(out) + 1 /\ out' \in Seq(S)
BY AppendProperties DEF EndsIn

\* The field that comes next has a size.
LEMMA NextField ==
  ASSUME TypeOK, r <= Num
  PROVE  /\ Fields \in Seq(Size)
         /\ k <= Len(Fields) => Fields[k] \in Size
<1>1. pack \in Pack
  BY PacksAssumption DEF PacksAssumption, TypeOK
<1>2. CASE r = 0
  BY <1>1, <1>2 DEF Pack, Fields, TypeOK
<1>3. CASE r # 0
  <2>1. pack.records \in Seq(Seq(Size)) /\ r \in 1 .. Len(pack.records)
    BY <1>1, <1>3 DEF Pack, TypeOK, Num
  <2>2. pack.records[r] \in Seq(Size)
    BY <2>1
  <2> QED BY <2>2, <1>3 DEF Fields, TypeOK
<1> QED BY <1>2, <1>3

----------------------------------------------------------------------------

Cell == Marks \cup Field

\* The inductive step: one action at a time.
LEMMA StepIInv == IInv /\ [Next]_vars => IInv'
<1> SUFFICES ASSUME IInv, [Next]_vars PROVE IInv'
  OBVIOUS
<1>t. TypeOK /\ Place /\ Cells /\ Room
  BY DEF IInv
<1>0. len \in Nat /\ Num \in Nat /\ pack \in Pack
  <2>1. pack \in Pack /\ len \in Nat
    BY <1>t, PacksAssumption, RoomsAssumption DEF PacksAssumption, RoomsAssumption, TypeOK
  <2>2. pack.records \in Seq(Seq(Size))
    BY <2>1 DEF Pack
  <2> QED BY <2>1, <2>2, LenProperties DEF Num
<1>n. ins_pos \in Nat /\ buf_len \in Int /\ k \in Nat \ {0} /\ r \in Nat /\ after_bi \in Nat
  BY <1>t, <1>0 DEF TypeOK
<1>m. \A x \in {"lbracket", "lbrace", "comma", "rbrace", "rbracket"} : Mark(x) \in Cell
  BY DEF Marks, Cell
<1>o. out \in Seq(Cell) /\ Len(out) \in Nat
  BY <1>t, LenProperties DEF TypeOK, Cell
<1>f. r <= Num => /\ Fields \in Seq(Size) /\ Len(Fields) \in Nat
                  /\ k <= Len(Fields) => Fields[k] \in Size
  BY <1>t, NextField, LenProperties
<1>1. ASSUME TooShort PROVE IInv'
  <2>1. TypeOK'
    BY <1>t, <1>1 DEF TooShort, Fail, input, TypeOK, Num
  <2>2. Place' /\ Cells' /\ Room'
    BY <1>t, <1>0, <1>1 DEF TooShort, Fail, input, TypeOK, Place, Cells, Room
  <2> QED BY <2>1, <2>2 DEF IInv
<1>2. ASSUME Open PROVE IInv'
  <2>1. /\ UNCHANGED <<pack, len, after_bi, r, k>>
        /\ pc = "open" /\ pc' = "fields" /\ brace' \in BOOLEAN
    BY <1>2 DEF Open, Goto, input
  <2>2. r = 0 /\ k = 1 /\ ins_pos = 0 /\ buf_len = len /\ len >= 3 /\ Len(out) <= 0
    BY <1>t, <1>2, <2>1 DEF Open, Place, Room, Cells
  <2>3. Fields' = Fields /\ Num' = Num /\ Len(Fields) \in Nat
    BY <1>0, <1>f, <2>1, <2>2 DEF Fields, Num
  <2>4. \E n \in {1, 2} : /\ ins_pos' = n /\ buf_len' = len - n
                          /\ out' \in Seq(Cell) /\ Len(out') = n
    <3>1. CASE pack.info
      BY <1>2, <1>m, <1>o, <2>2, <3>1, TwoAppended DEF Open, Insert
    <3>2. CASE ~pack.info
      BY <1>2, <1>m, <1>o, <2>2, <3>2, AppendProperties DEF Open, Insert
    <3> QED BY <3>1, <3>2
  <2>5. TypeOK'
    BY <1>t, <1>0, <2>1, <2>3, <2>4 DEF TypeOK, Cell
  <2>6. Place' /\ Cells' /\ Room'
    BY <1>0, <2>1, <2>2, <2>3, <2>4 DEF Place, Cells, Room
  <2> QED BY <2>5, <2>6 DEF IInv
<1>3. ASSUME WriteField PROVE IInv'
  <2>1. r <= Num /\ k <= Len(Fields) /\ pc = "fields"
    BY <1>t, <1>3 DEF WriteField, Place
  <2>2. Fields' = Fields /\ Num' = Num /\ Fields[k] \in Size /\ Len(Fields) \in Nat
    BY <1>3, <1>f, <2>1 DEF WriteField, input, Fields, Num
  <2>3. CASE Fields[k] >= buf_len
    <3>1. pc' = "failed" /\ UNCHANGED <<pack, len, out, ins_pos, buf_len, brace, after_bi, r, k>>
      BY <1>3, <2>3 DEF WriteField, Fail, input
    <3>2. TypeOK'
      BY <1>t, <2>2, <3>1 DEF TypeOK
    <3>3. Place' /\ Cells' /\ Room'
      BY <1>t, <1>0, <2>1, <3>1 DEF TypeOK, Place, Cells, Room
    <3> QED BY <3>2, <3>3 DEF IInv
  <2>4. CASE ~(Fields[k] >= buf_len)
    <3>0. out' = Append(Append(out, <<r, k>>), Mark("comma"))
      BY <1>3, <2>4 DEF WriteField
    <3>1. /\ ins_pos' = ins_pos + Fields[k] /\ buf_len' = buf_len - Fields[k]
          /\ k' = k + 1
          /\ UNCHANGED <<pack, len, pc, brace, after_bi, r>>
      BY <1>3, <2>4 DEF WriteField, Insert, input
    <3>2. <<r, k>> \in Cell
      BY <1>t, <1>0 DEF TypeOK, Cell, Field
    <3>4. out' \in Seq(Cell) /\ Len(out') = Len(out) + 2
      BY <1>m, <1>o, <3>0, <3>2, TwoAppended
    <3>3. Fields[k] \in Nat /\ Fields[k] > 1
      BY <2>2 DEF Size
    <3>5. ins_pos' \in Nat /\ buf_len' \in Int /\ k' \in Nat \ {0}
      BY <1>n, <3>1, <3>3
    <3>6. TypeOK'
      BY <1>t, <2>2, <3>1, <3>4, <3>5 DEF TypeOK, Cell
    <3>7. Place'
      BY <1>n, <2>1, <2>2, <3>1 DEF Place
    <3>8. Cells'
      <4>1. Len(out') <= ins_pos'
        BY <1>t, <1>n, <1>o, <2>1, <3>1, <3>3, <3>4 DEF Cells
      <4>2. out' # << >>
        BY <1>o, <3>4, EmptySeq
      <4> QED BY <4>1, <4>2 DEF Cells
    <3>9. Room'
      <4>1. buf_len' >= 1 /\ k' > 1 /\ ins_pos' + buf_len' = ins_pos + buf_len
        BY <1>n, <2>4, <3>1, <3>3
      <4>2. pc' = "fields" /\ len' = len /\ r' = r
        BY <2>1, <3>1
      <4>3. /\ len >= 3
            /\ r = 0 => ins_pos + buf_len = len
            /\ r > 0 => ins_pos + buf_len = len - 1
        BY <1>t, <2>1 DEF Room
      <4>4. pc' \notin {"open", "record", "done", "failed"} /\ k' # 1 /\ buf_len' >= 0
        BY <3>5, <4>1, <4>2
      <4>5. (r' = 0 => ins_pos' + buf_len' = len') /\ (r' > 0 => ins_pos' + buf_len' = len' - 1)
        BY <4>1, <4>2, <4>3
      <4> QED BY <4>1, <4>2, <4>3, <4>4, <4>5 DEF Room
    <3> QED BY <3>6, <3>7, <3>8, <3>9 DEF IInv
  <2> QED BY <2>3, <2>4
<1>4. ASSUME NoRecords PROVE IInv'
  <2>1. r = 0 /\ pc = "fields" /\ Num' = Num
    BY <1>4 DEF NoRecords, BaseDone, input, Num
  <2>2. CASE ins_pos = 1
    <3>1. /\ pc' = "done" /\ out' = Append(out, Mark("rbracket"))
          /\ ins_pos' = ins_pos + 2 /\ buf_len' = buf_len - 2 /\ after_bi' = ins_pos
          /\ UNCHANGED <<pack, len, brace, r, k>>
      BY <1>4, <2>2 DEF NoRecords, Insert, input
    <3>2. out' \in Seq(Cell)
      BY <1>o, <1>m, <3>1, AppendProperties
    <3>3. TypeOK'
      BY <1>t, <2>1, <3>1, <3>2 DEF TypeOK, Cell
    <3>4. Place' /\ Cells' /\ Room'
      BY <1>t, <1>0, <2>1, <2>2, <3>1 DEF TypeOK, Place, Cells, Room
    <3> QED BY <3>3, <3>4 DEF IInv
  <2>3. CASE ins_pos # 1
    <3>1. /\ pc' = "failed" /\ after_bi' = ins_pos
          /\ UNCHANGED <<pack, len, out, ins_pos, buf_len, brace, r, k>>
      BY <1>4, <2>3 DEF NoRecords, Fail, input
    <3>2. TypeOK'
      BY <1>t, <2>1, <3>1 DEF TypeOK
    <3>3. Place' /\ Cells' /\ Room'
      BY <1>t, <1>0, <2>1, <3>1 DEF TypeOK, Place, Cells, Room
    <3> QED BY <3>2, <3>3 DEF IInv
  <2> QED BY <2>2, <2>3
<1>5. ASSUME ReserveNul PROVE IInv'
  <2>1. r = 0 /\ pc = "fields" /\ Num > 0 /\ Num' = Num
    BY <1>5 DEF ReserveNul, BaseDone, input, Num
  <2>2. CASE buf_len < 4
    <3>1. /\ pc' = "failed" /\ after_bi' = ins_pos
          /\ UNCHANGED <<pack, len, out, ins_pos, buf_len, brace, r, k>>
      BY <1>5, <2>2 DEF ReserveNul, Fail, input
    <3>2. TypeOK'
      BY <1>t, <2>1, <3>1 DEF TypeOK
    <3>3. Place' /\ Cells' /\ Room'
      BY <1>t, <1>0, <2>1, <3>1 DEF TypeOK, Place, Cells, Room
    <3> QED BY <3>2, <3>3 DEF IInv
  <2>3. CASE ~(buf_len < 4)
    <3>1. /\ pc' = "record" /\ r' = 1 /\ buf_len' = buf_len - 1 /\ after_bi' = ins_pos
          /\ UNCHANGED <<pack, len, out, ins_pos, brace, k>>
      BY <1>5, <2>3 DEF ReserveNul, input
    <3>2. TypeOK'
      BY <1>t, <1>0, <2>1, <3>1 DEF TypeOK
    <3>3. Place' /\ Cells' /\ Room'
      BY <1>t, <1>0, <2>1, <2>3, <3>1 DEF TypeOK, Place, Cells, Room
    <3> QED BY <3>2, <3>3 DEF IInv
  <2> QED BY <2>2, <2>3
<1>6. ASSUME OpenRecord PROVE IInv'
  <2>1. r <= Num /\ r > 0 /\ pc = "record" /\ pc' = "fields" /\ k' = 1 /\ buf_len >= 1
    BY <1>t, <1>6 DEF OpenRecord, Goto, Place, Room
  <2>2. UNCHANGED <<pack, len, brace, after_bi, r>> /\ Num' = Num
    BY <1>6 DEF OpenRecord, input, Num
  <2>3. Len(Fields') \in Nat
    BY <1>f, <2>1, <2>2 DEF Fields
  <2>4. CASE brace
    <3>1. out' = Append(out, Mark("lbrace")) /\ ins_pos' = ins_pos + 1 /\ buf_len' = buf_len - 1
      BY <1>6, <2>4 DEF OpenRecord, Insert
    <3>2. out' \in Seq(Cell) /\ Len(out') = Len(out) + 1 /\ EndsIn("lbrace")'
      BY <1>o, <1>m, <3>1, EndsAppended
    <3>3. TypeOK'
      BY <1>t, <2>1, <2>2, <3>1, <3>2 DEF TypeOK, Cell
    <3>4. Place' /\ Cells' /\ Room'
      BY <1>t, <1>0, <1>o, <2>1, <2>2, <2>3, <3>1, <3>2 DEF TypeOK, Place, Cells, Room
    <3> QED BY <3>3, <3>4 DEF IInv
  <2>5. CASE ~brace
    <3>1. UNCHANGED <<out, ins_pos, buf_len>>
      BY <1>6, <2>5 DEF OpenRecord
    <3>2. TypeOK'
      BY <1>t, <2>1, <2>2, <3>1 DEF TypeOK
    <3>3. Place' /\ Cells' /\ Room'
      BY <1>t, <1>0, <2>1, <2>2, <2>3, <3>1 DEF TypeOK, Place, Cells, Room
    <3> QED BY <3>2, <3>3 DEF IInv
  <2> QED BY <2>4, <2>5
<1>7. ASSUME DropRecord PROVE IInv'
  <2>1. r <= Num /\ r > 0 /\ pc = "fields" /\ pc' = "record" /\ r' = r + 1 /\ k = 1
    BY <1>t, <1>7 DEF DropRecord, RecordDone, Place, TypeOK
  <2>2. UNCHANGED <<pack, len, after_bi, k>> /\ Num' = Num
    BY <1>7 DEF DropRecord, input, Num
  <2>3. CASE EndsIn("lbrace")
    <3>1. out' = But(out) /\ ins_pos' = ins_pos - 1 /\ buf_len' = buf_len + 1 /\ brace' = brace
      BY <1>t, <1>7, <2>3 DEF DropRecord, Insert, TypeOK
    <3>2. out' \in Seq(Cell) /\ Len(out') = Len(out) - 1 /\ Len(out') \in Nat
      BY <1>o, <2>3, <3>1, ButLast, EmptySeq, LenProperties DEF EndsIn
    <3>3. ins_pos' \in Nat /\ Len(out') <= ins_pos'
      BY <1>t, <1>o, <2>1, <3>1, <3>2 DEF TypeOK, Cells
    <3>4. TypeOK'
      BY <1>t, <1>0, <2>1, <2>2, <3>1, <3>2, <3>3 DEF TypeOK, Cell
    <3>5. Place' /\ Cells' /\ Room'
      BY <1>t, <1>0, <2>1, <2>2, <3>1, <3>3 DEF TypeOK, Place, Cells, Room
    <3> QED BY <3>4, <3>5 DEF IInv
  <2>4. CASE ~EndsIn("lbrace")
    <3>1. brace' = FALSE /\ UNCHANGED <<out, ins_pos, buf_len>>
      BY <1>7, <2>4 DEF DropRecord
    <3>2. TypeOK'
      <4>1. r' \in 0 .. Num' + 1
        BY <1>n, <1>0, <2>1, <2>2
      <4>2. brace' \in BOOLEAN
        BY <3>1
      <4>3. UNCHANGED <<out, ins_pos, buf_len>>
        BY <3>1
      <4> QED BY <1>t, <2>1, <2>2, <4>1, <4>2, <4>3 DEF TypeOK
    <3>3. Place' /\ Cells' /\ Room'
      BY <1>t, <1>0, <2>1, <2>2, <2>4, <3>1 DEF TypeOK, Place, Cells, Room
    <3> QED BY <3>2, <3>3 DEF IInv
  <2> QED BY <2>3, <2>4
<1>8. ASSUME CloseRecord PROVE IInv'
  <2>1. r <= Num /\ r > 0 /\ pc = "fields" /\ Fields # << >> /\ k > Len(Fields)
    BY <1>t, <1>8 DEF CloseRecord, RecordDone, Place
  <2>2. UNCHANGED <<pack, len, after_bi, k>> /\ Num' = Num
    BY <1>8 DEF CloseRecord, input, Num
  <2>3. k > 1 /\ buf_len >= 1
    BY <1>t, <1>f, <2>1, EmptySeq DEF TypeOK, Room
  <2>4. /\ out' = Append(Append(But(out), Mark("rbrace")), Mark("comma"))
        /\ ins_pos' = ins_pos + 1 /\ buf_len' = buf_len - 1 /\ brace' = TRUE
    BY <1>8 DEF CloseRecord, Insert
  <2>5. out' \in Seq(Cell) /\ Len(out') = Len(out) + 1
    <3>1. But(out) \in Seq(Cell) /\ Len(But(out)) = Len(out) - 1
      BY <1>t, <1>o, <2>1, <2>3, ButLast DEF Cells
    <3> QED BY <1>m, <1>o, <2>4, <3>1, TwoAppended
  <2>6. \/ pc' = "failed" /\ r' = r
        \/ pc' = "record" /\ r' = r + 1 /\ (r < Num => buf_len' # 0)
    BY <1>8 DEF CloseRecord
  <2>7. TypeOK'
    BY <1>t, <1>0, <1>n, <2>1, <2>2, <2>3, <2>4, <2>5, <2>6 DEF TypeOK, Cell
  <2>8. Place' /\ Cells' /\ Room'
    BY <1>t, <1>0, <1>n, <1>o, <2>1, <2>2, <2>3, <2>4, <2>5, <2>6 DEF Place, Cells, Room
  <2> QED BY <2>7, <2>8 DEF IInv
<1>9. ASSUME CloseArray PROVE IInv'
  <2>1. pc = "record" /\ r > Num /\ r > 0 /\ Num' = Num
    BY <1>t, <1>9 DEF CloseArray, Place, input, Num
  <2>2. UNCHANGED <<pack, len, brace, after_bi, r, k>>
    BY <1>9 DEF CloseArray, input
  <2>3. CASE ins_pos + 1 = after_bi
    <3>1. pc' = "failed" /\ UNCHANGED <<out, ins_pos, buf_len>>
      BY <1>9, <2>3 DEF CloseArray, Fail
    <3>2. TypeOK'
      BY <1>t, <2>1, <2>2, <3>1 DEF TypeOK
    <3>3. Place' /\ Cells' /\ Room'
      BY <1>t, <1>0, <1>n, <2>1, <2>2, <3>1 DEF Place, Cells, Room
    <3> QED BY <3>2, <3>3 DEF IInv
  <2>4. CASE ins_pos + 1 # after_bi
    <3>1. /\ pc' = "done" /\ buf_len' = buf_len + 2 - 2
          /\ ins_pos' = IF ins_pos > 1 THEN ins_pos - 1 + 2 ELSE ins_pos + 2
          /\ out' = Append(IF ins_pos > 1 THEN But(out) ELSE out, Mark("rbracket"))
      BY <1>9, <2>4 DEF CloseArray
    <3>2. (IF ins_pos > 1 THEN But(out) ELSE out) \in Seq(Cell)
      BY <1>o, ButLast
    <3>3. out' \in Seq(Cell)
      BY <1>m, <3>1, <3>2, AppendProperties
    <3>4. TypeOK'
      BY <1>t, <1>n, <2>1, <2>2, <3>1, <3>3 DEF TypeOK, Cell
    <3>5. Place' /\ Cells' /\ Room'
      BY <1>t, <1>0, <1>n, <2>1, <2>2, <3>1 DEF Place, Cells, Room
    <3> QED BY <3>4, <3>5 DEF IInv
  <2> QED BY <2>3, <2>4
<1>10. CASE UNCHANGED vars
  <2>1. TypeOK'
    BY <1>t, <1>10 DEF vars, TypeOK, Num
  <2>2. Place' /\ Cells' /\ Room'
    BY <1>t, <1>10 DEF vars, Place, Cells, Room, Num, Fields, EndsIn
  <2> QED BY <2>1, <2>2 DEF IInv
<1> QED
  BY <1>1, <1>2, <1>3, <1>4, <1>5, <1>6, <1>7, <1>8, <1>9, <1>10 DEF Next

\* IInv holds of an empty output.
LEMMA InitIInv == Init => IInv
<1> SUFFICES ASSUME Init PROVE IInv
  OBVIOUS
<1>1. pack \in Pack /\ len \in Nat
  BY PacksAssumption, RoomsAssumption DEF PacksAssumption, RoomsAssumption, Init
<1>2. Num \in Nat
  BY <1>1, LenProperties DEF Pack, Num
<1>3. TypeOK
  BY <1>1, <1>2, EmptySeq DEF Init, TypeOK
<1>4. Place /\ Cells /\ Room
  BY <1>1, EmptySeq DEF Init, Place, Cells, Room
<1> QED BY <1>3, <1>4 DEF IInv

\* IInv is inductive: what is written, taken back, set apart and left adds up.
THEOREM Invariance == Spec => []IInv
BY InitIInv, StepIInv, PTL DEF Spec

\* Types, of which buf_len's is the weaker half of InBounds (senml.c 190-466).
THEOREM TypeCorrect == Spec => []TypeOK
<1>1. IInv => TypeOK
  BY DEF IInv
<1> QED BY <1>1, Invariance, PTL

\* The encoder never writes past its buffer and its count of the bytes left never
\* wraps, for every pack and every length (senml.c 190-466).
THEOREM InBoundsHolds == Spec => []InBounds
<1>1. IInv => InBounds
  <2> SUFFICES ASSUME IInv PROVE InBounds
    OBVIOUS
  <2>1. TypeOK /\ Place /\ Room /\ len \in Nat
    BY RoomsAssumption DEF IInv, TypeOK, RoomsAssumption
  <2> QED BY <2>1 DEF TypeOK, Place, Room, InBounds
<1> QED BY <1>1, Invariance, PTL
=============================================================================
