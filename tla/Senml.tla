------------------------------- MODULE Senml -------------------------------
(***************************************************************************)
(* senml_encode_json_s() (senml.c): writing a pack of records as JSON into *)
(* a buffer of len bytes.                                                  *)
(*                                                                         *)
(* A field is what one snprintf() prints, its trailing comma included; all *)
(* that matters of it is how many bytes that is.  So base information and  *)
(* records are the sequences of the sizes of the fields they have, in the  *)
(* order of the code: an absent field is not in the sequence.              *)
(*                                                                         *)
(* out is what was written, without the bytes the code has taken back: the *)
(* brackets and commas as marks, the k-th field of record r (0 for the     *)
(* base information) as the pair <<r, k>>.                                 *)
(***************************************************************************)
EXTENDS Integers, Sequences

CONSTANTS
  Packs,        \* the packs to encode
  Rooms         \* the sizes of the output buffer

VARIABLES
  pack,         \* [info, base, records]; info: base_info is not NULL
  len,          \* the size of output
  pc,           \* where the encoder is; "done" or "failed" at the end
  out,          \* what output holds
  ins_pos,      \* where the next byte goes
  buf_len,      \* how many bytes the code takes to be left
  brace,        \* insert_opening_brace
  after_bi,     \* ins_pos_after_bi
  r, k          \* the record (0 is base_info) and the field that come next

vars == <<pack, len, pc, out, ins_pos, buf_len, brace, after_bi, r, k>>

input == <<pack, len>>

\* A field is more than its comma.
Size == Nat \ {0, 1}

Pack == [info : BOOLEAN, base : Seq(Size), records : Seq(Seq(Size))]

ASSUME PacksAssumption == Packs \subseteq {p \in Pack : p.base # << >> => p.info}
ASSUME RoomsAssumption == Rooms \subseteq Nat

Num == Len(pack.records)

Fields == IF r = 0 THEN pack.base ELSE pack.records[r]

Field == Nat \X Nat

Mark(s) == <<s>>
Marks == {Mark(s) : s \in {"lbracket", "lbrace", "comma", "rbrace", "rbracket"}}

\* The output so far ends in s, which is one byte.
EndsIn(s) == out # << >> /\ out[Len(out)] = Mark(s)

But(seq) == SubSeq(seq, 1, Len(seq) - 1)

Init ==
  /\ pack \in Packs
  /\ len \in Rooms
  /\ pc = "open"
  /\ out = << >>
  /\ ins_pos = 0
  /\ buf_len = len
  /\ brace = TRUE
  /\ after_bi = 0
  /\ r = 0
  /\ k = 1

Goto(from, to) == pc = from /\ pc' = to

\* The size_t arithmetic of one byte, or of n bytes, inserted or taken back.
Insert(n) == ins_pos' = ins_pos + n /\ buf_len' = buf_len - n

Fail == pc' = "failed" /\ UNCHANGED <<out, ins_pos, buf_len>>

----------------------------------------------------------------------------
TooShort ==
  /\ pc = "open"
  /\ len < 3
  /\ Fail
  /\ UNCHANGED <<input, brace, after_bi, r, k>>

Open ==
  /\ Goto("open", "fields")
  /\ len >= 3
  /\ IF pack.info THEN out' = Append(Append(out, Mark("lbracket")), Mark("lbrace")) /\ Insert(2)
                  ELSE out' = Append(out, Mark("lbracket")) /\ Insert(1)
  /\ brace' = ~pack.info
  /\ UNCHANGED <<input, after_bi, r, k>>

\* Mutant: a field that fills the space exactly is accepted.
WriteField_exact ==
  /\ pc = "fields"
  /\ k <= Len(Fields)
  /\ IF Fields[k] > buf_len
       THEN Fail /\ UNCHANGED k
       ELSE /\ out' = Append(Append(out, <<r, k>>), Mark("comma"))
            /\ Insert(Fields[k])
            /\ k' = k + 1
            /\ UNCHANGED pc
  /\ UNCHANGED <<input, brace, after_bi, r>>

\* One snprintf() of buf_len bytes at most, the terminating NUL included.
WriteField ==
  /\ pc = "fields"
  /\ k <= Len(Fields)
  /\ IF Fields[k] >= buf_len
       THEN Fail /\ UNCHANGED k
       ELSE /\ out' = Append(Append(out, <<r, k>>), Mark("comma"))
            /\ Insert(Fields[k])
            /\ k' = k + 1
            /\ UNCHANGED pc
  /\ UNCHANGED <<input, brace, after_bi, r>>

BaseDone == pc = "fields" /\ r = 0 /\ k > Len(Fields)

\* No records: the empty document, unless there is base information.
NoRecords ==
  /\ BaseDone
  /\ Num = 0
  /\ after_bi' = ins_pos
  /\ IF ins_pos = 1
       THEN pc' = "done" /\ out' = Append(out, Mark("rbracket")) /\ Insert(2)
       ELSE Fail
  /\ UNCHANGED <<input, brace, r, k>>

\* Mutant: no byte is set apart for the NUL.
ReserveNul_forgets ==
  /\ BaseDone
  /\ Num > 0
  /\ after_bi' = ins_pos
  /\ IF buf_len < 4
       THEN Fail /\ UNCHANGED r
       ELSE pc' = "record" /\ r' = 1 /\ UNCHANGED <<out, ins_pos, buf_len>>
  /\ UNCHANGED <<input, brace, k>>

\* Some records: one byte is set apart for the terminating NUL.
ReserveNul ==
  /\ BaseDone
  /\ Num > 0
  /\ after_bi' = ins_pos
  /\ IF buf_len < 4
       THEN Fail /\ UNCHANGED r
       ELSE pc' = "record" /\ r' = 1 /\ buf_len' = buf_len - 1 /\ UNCHANGED <<out, ins_pos>>
  /\ UNCHANGED <<input, brace, k>>

OpenRecord ==
  /\ Goto("record", "fields")
  /\ r <= Num
  /\ IF brace THEN out' = Append(out, Mark("lbrace")) /\ Insert(1)
              ELSE UNCHANGED <<out, ins_pos, buf_len>>
  /\ k' = 1
  /\ UNCHANGED <<input, brace, after_bi, r>>

RecordDone == pc = "fields" /\ r > 0 /\ k > Len(Fields)

\* Mutant: the '{' of an empty record stays.
DropRecord_keepsBrace ==
  /\ RecordDone
  /\ Fields = << >>
  /\ pc' = "record"
  /\ r' = r + 1
  /\ UNCHANGED <<input, out, ins_pos, buf_len, brace, after_bi, k>>

\* Mutant: leaving out a record leaves out the one after it too.
DropRecord_twice ==
  /\ RecordDone
  /\ Fields = << >>
  /\ pc' = "record"
  /\ r' = r + 2
  /\ IF EndsIn("lbrace") THEN out' = But(out) /\ Insert(-1) /\ UNCHANGED brace
                         ELSE brace' = FALSE /\ UNCHANGED <<out, ins_pos, buf_len>>
  /\ UNCHANGED <<input, after_bi, k>>

\* Nothing was inserted for the record: its '{' is taken back.
DropRecord ==
  /\ RecordDone
  /\ Fields = << >>
  /\ pc' = "record"
  /\ r' = r + 1
  /\ IF EndsIn("lbrace") THEN out' = But(out) /\ Insert(-1) /\ UNCHANGED brace
                         ELSE brace' = FALSE /\ UNCHANGED <<out, ins_pos, buf_len>>
  /\ UNCHANGED <<input, after_bi, k>>

\* The comma of the last field gives way to '}' and a comma.
CloseRecord ==
  /\ RecordDone
  /\ Fields # << >>
  /\ out' = Append(Append(But(out), Mark("rbrace")), Mark("comma"))
  /\ Insert(1)
  /\ brace' = TRUE
  /\ IF r < Num /\ buf_len' = 0 THEN pc' = "failed" /\ UNCHANGED r
                                ELSE pc' = "record" /\ r' = r + 1
  /\ UNCHANGED <<input, after_bi, k>>

\* The comma of the last record gives way to ']' and the NUL.
CloseArray ==
  /\ pc = "record"
  /\ r > Num
  /\ IF ins_pos + 1 = after_bi
       THEN Fail
       ELSE LET kept == IF ins_pos > 1 THEN But(out) ELSE out IN
            /\ pc' = "done"
            /\ out' = Append(kept, Mark("rbracket"))
            /\ ins_pos' = IF ins_pos > 1 THEN ins_pos - 1 + 2 ELSE ins_pos + 2
            /\ buf_len' = buf_len + 2 - 2
  /\ UNCHANGED <<input, brace, after_bi, r, k>>

Next ==
  \/ TooShort \/ Open \/ WriteField
  \/ NoRecords \/ ReserveNul
  \/ OpenRecord \/ DropRecord \/ CloseRecord \/ CloseArray

Spec == Init /\ [][Next]_vars

----------------------------------------------------------------------------
(* Safety.                                                                 *)

TypeOK ==
  /\ pack \in Packs /\ len \in Rooms
  /\ pc \in {"open", "fields", "record", "done", "failed"}
  /\ out \in Seq(Marks \cup Field)
  /\ ins_pos \in Nat /\ buf_len \in Int
  /\ brace \in BOOLEAN
  /\ after_bi \in Nat
  /\ r \in 0 .. Num + 1 /\ k \in Nat \ {0}

\* No byte is written past output, buf_len (a size_t) never wraps below zero, and
\* it never tells snprintf() of more room than there is: the bytes taken back,
\* the one set apart and those inserted for a record balance, whichever records
\* are empty (senml.c 190-466).
InBounds ==
  /\ ins_pos <= len
  /\ buf_len >= 0
  /\ pc # "done" => ins_pos + buf_len <= len
=============================================================================
