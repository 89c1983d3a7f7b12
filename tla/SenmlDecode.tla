---------------------------- MODULE SenmlDecode ----------------------------
(***************************************************************************)
(* senml_decode_json_s() (senml.c): reading a JSON document into an array  *)
(* of Cap records.                                                         *)
(*                                                                         *)
(* The document is a sequence of marks and fields as Senml writes it.  The *)
(* parser (jsmn, a library) makes tokens of it: an array, objects, and a   *)
(* key and a value for each field.  A field <<r, k>> stands for its key    *)
(* and its value: a key of the base information if r = 0.                  *)
(***************************************************************************)
EXTENDS Integers, Sequences

CONSTANTS
  Cap,          \* pack->num as the caller sets it: how many records there are
  Opening(_),   \* the kind of token the mark opens, "array" or "object", or "none"
  Closing(_),   \* the kind of token the mark closes, or "none"
  IsField(_)    \* the cell is a field

VARIABLES
  doc,          \* input
  dpc,          \* "idle", "tokens", "decoded" or "failed"
  tok,          \* the token that comes next
  array_num,
  last_type,
  found,        \* found_base_info; at the end: base_info is not NULL
  base,         \* the fields stored in base_info
  records       \* the fields stored in each record, by array_num

dvars == <<dpc, tok, array_num, last_type, found, base, records>>

stored == <<found, base, records>>

Init ==
  /\ dpc = "idle"
  /\ tok = 1
  /\ array_num = -1
  /\ last_type = "none"
  /\ found = FALSE
  /\ base = {}
  /\ records = [n \in 0 .. Cap - 1 |-> {}]

----------------------------------------------------------------------------
\* Every bracket closes the bracket that was opened last, and none stays open.
WellFormed ==
  LET Depth[n \in 0 .. Len(doc)] ==     \* the kinds open after n cells
        IF n = 0 THEN << >>
        ELSE LET open == Depth[n - 1]
                 c == doc[n]
             IN IF open = <<"error">> THEN open
                ELSE IF Opening(c) # "none" THEN <<Opening(c)>> \o open
                ELSE IF Closing(c) = "none" THEN open
                ELSE IF open # << >> /\ Head(open) = Closing(c) THEN Tail(open)
                ELSE <<"error">>
  IN Depth[Len(doc)] = << >>

IsToken(c) == Opening(c) # "none" \/ IsField(c)

\* jsmn_parse() twice, and the test that the document is an array.
Parse ==
  /\ dpc = "idle"
  /\ dpc' = IF WellFormed /\ doc # << >> /\ Opening(doc[1]) = "array"
              THEN "tokens" ELSE "failed"
  /\ UNCHANGED <<tok, array_num, last_type, stored>>

Tokens ==
  LET First[n \in 0 .. Len(doc)] ==     \* those of the first n cells
        IF n = 0 THEN << >>
        ELSE IF IsToken(doc[n]) THEN Append(First[n - 1], doc[n])
        ELSE First[n - 1]
  IN First[Len(doc)]

Token == Tokens[tok]

More == dpc = "tokens" /\ tok <= Len(Tokens)

TakeArray ==
  /\ More
  /\ Opening(Token) = "array"
  /\ last_type' = "array"
  /\ tok' = tok + 1
  /\ UNCHANGED <<dpc, array_num, stored>>

\* Mutant: one record more than there is room for.
TakeObject_pastEnd ==
  /\ More
  /\ Opening(Token) = "object"
  /\ last_type' = "object"
  /\ array_num' = array_num + 1
  /\ dpc' = IF array_num' > Cap THEN "failed" ELSE "tokens"
  /\ tok' = tok + 1
  /\ UNCHANGED stored

\* One more record, if there is room for it.
TakeObject ==
  /\ More
  /\ Opening(Token) = "object"
  /\ last_type' = "object"
  /\ array_num' = array_num + 1
  /\ dpc' = IF array_num' >= Cap THEN "failed" ELSE "tokens"
  /\ tok' = tok + 1
  /\ UNCHANGED stored

\* Mutant: base information is looked for in the object after the first.
TakeMember_late ==
  /\ More
  /\ IsField(Token) /\ last_type = "object"
  /\ IF Token[1] = 0
       THEN /\ IF array_num = 1 THEN base' = base \cup {Token} /\ found' = TRUE
                                ELSE UNCHANGED <<base, found>>
            /\ UNCHANGED records
       ELSE /\ records' = [records EXCEPT ![array_num] = @ \cup {Token}]
            /\ UNCHANGED <<base, found>>
  /\ tok' = tok + 1
  /\ UNCHANGED <<dpc, array_num, last_type>>

\* A key and its value: base information counts in the first object only.
TakeMember ==
  /\ More
  /\ IsField(Token) /\ last_type = "object"
  /\ IF Token[1] = 0
       THEN /\ IF array_num = 0 THEN base' = base \cup {Token} /\ found' = TRUE
                                ELSE UNCHANGED <<base, found>>
            /\ UNCHANGED records
       ELSE /\ records' = [records EXCEPT ![array_num] = @ \cup {Token}]
            /\ UNCHANGED <<base, found>>
  /\ tok' = tok + 1
  /\ UNCHANGED <<dpc, array_num, last_type>>

\* pack->num = array_num + 1
Finish ==
  /\ dpc = "tokens"
  /\ tok > Len(Tokens)
  /\ dpc' = "decoded"
  /\ UNCHANGED <<tok, array_num, last_type, stored>>

Next == Parse \/ TakeArray \/ TakeObject \/ TakeMember \/ Finish

----------------------------------------------------------------------------
\* No record is stored outside the caller's array, and none is counted that is not
\* in it: wherever the decoder may store into records[array_num], which it starts
\* at -1 and compares unsigned, that is one of the records (senml.c 56, 72-85,
\* 118-162, 167).
InCapacity ==
  /\ dpc = "tokens" /\ last_type = "object" => array_num \in DOMAIN records
  /\ dpc = "decoded" => array_num + 1 \in 0 .. Cap
  /\ DOMAIN records = 0 .. Cap - 1
=============================================================================
