------------------------------ MODULE MCSenml ------------------------------
(* The encoder followed by the decoder, the document a pack stands for     *)
(* written down without the encoder's bookkeeping, and small packs for TLC. *)
EXTENDS Senml, SequencesExt

CONSTANT Cap    \* the records the decoder's caller provides

ASSUME CapAssumption == Cap \in Nat

VARIABLES dpc, tok, array_num, last_type, found, base, records

Opening(c) == CASE c = Mark("lbracket") -> "array"
                [] c = Mark("lbrace") -> "object"
                [] OTHER -> "none"

Closing(c) == CASE c = Mark("rbracket") -> "array"
                [] c = Mark("rbrace") -> "object"
                [] OTHER -> "none"

IsField(c) == c \notin Marks

D == INSTANCE SenmlDecode WITH doc <- out

decoder == <<dpc, tok, array_num, last_type, found, base, records>>

RoundTripInit == Init /\ D!Init

\* What was encoded is decoded.
RoundTripNext ==
  \/ Next /\ UNCHANGED decoder
  \/ pc = "done" /\ D!Next /\ UNCHANGED vars

RoundTripSpec == RoundTripInit /\ [][RoundTripNext]_<<vars, decoder>>

----------------------------------------------------------------------------
\* The first n fields of record i; the base information goes before those of the
\* first record.
Members(p, i, n) ==
  LET based == IF i = 1 THEN Len(p.base) ELSE 0 IN
  [j \in 1 .. based + n |-> IF j <= based THEN <<0, j>> ELSE <<i, j - based>>]

\* The cells with commas between them.
Commas(cells) ==
  [j \in 1 .. 2 * Len(cells) - 1 |->
     IF j % 2 = 1 THEN cells[(j + 1) \div 2] ELSE Mark("comma")]

Object(p, i) ==
  <<Mark("lbrace")>> \o Commas(Members(p, i, Len(p.records[i]))) \o <<Mark("rbrace")>>

\* The object of record i after the objects of others; records without fields are
\* left out.
WithObject(p, i, objects) ==
  IF p.records[i] = << >> THEN objects
  ELSE IF objects = << >> THEN Object(p, i)
  ELSE objects \o <<Mark("comma")>> \o Object(p, i)

\* The objects of the first n records, for each n.
Objects(p) ==
  LET first[n \in 0 .. Len(p.records)] ==
        IF n = 0 THEN << >> ELSE WithObject(p, n, first[n - 1])
  IN first

Document(p) == <<Mark("lbracket")>> \o Objects(p)[Len(p.records)] \o <<Mark("rbracket")>>

CellBytes(p, c) ==
  IF c \in Marks THEN 1 ELSE (IF c[1] = 0 THEN p.base ELSE p.records[c[1]])[c[2]] - 1

\* The bytes of the cells.
Bytes(p, cells) ==
  LET first[n \in 0 .. Len(cells)] ==
        IF n = 0 THEN 0 ELSE first[n - 1] + CellBytes(p, cells[n])
  IN first[Len(cells)]

\* The bytes the encoder wants beyond the document and its NUL.  After a record it
\* wants one for the next, though that may have no fields (senml.c 439); before the
\* first it wants four, though no record may have any (293).
Spare(p) ==
  LET last == Len(p.records) IN
  IF last = 0 \/ p.records[last] # << >> THEN 0
  ELSE IF \A i \in 1 .. last : p.records[i] = << >> THEN 2
  ELSE 1

Needed(p) == Bytes(p, Document(p)) + 1 + Spare(p)

\* If there is base information, the first record has fields.  Of the other packs
\* the encoder writes some as broken JSON and returns 0: base information without
\* fields before an empty record and a full one (senml.c 410-417), and with fields
\* before records that are all empty (444).
Proper(p) == p.info => p.records # << >> /\ p.records[1] # << >>

\* The records that have fields.
Full(p) ==
  LET first[n \in 0 .. Len(p.records)] ==     \* those of the first n records
        IF n = 0 THEN << >>
        ELSE IF p.records[n] = << >> THEN first[n - 1]
        ELSE Append(first[n - 1], n)
  IN first[Len(p.records)]

\* "Creates a SenML document in JSON format from a SenML pack" (senml.h 143):
\* every field once, in order, with the brackets and commas JSON wants, whatever
\* was taken back on the way, if the pack is Proper.
WritesDocument == pc = "done" /\ Proper(pack) => out = Document(pack)

\* When the encoder says "-1 when output is not big enough" (senml.h 149), to the
\* byte: whether it succeeds depends on the room alone, and that of the document and
\* its NUL is enough unless the last record has no fields.
RoomDecides ==
  pc \in {"done", "failed"} /\ Proper(pack) => (pc = "done" <=> Needed(pack) <= len)

InCapacity == D!InCapacity

\* Decoding what was encoded gives back the base information and, in their order,
\* the records that have fields, each with its own fields and no other; it fails
\* only if there are more of them than the caller has room for (senml.c 26-172).
DecodesBack ==
  LET Stored(rec, sizes) == {<<rec, i>> : i \in DOMAIN sizes} IN
  Proper(pack) =>
    /\ dpc = "decoded" =>
         /\ array_num + 1 = Len(Full(pack))
         /\ base = Stored(0, pack.base)
         /\ found <=> pack.base # << >>
         /\ \A n \in 1 .. Len(Full(pack)) :
              records[n - 1] = Stored(Full(pack)[n], pack.records[Full(pack)[n]])
    /\ dpc = "failed" => Len(Full(pack)) > Cap

SmallPacks ==
  LET Sizes == {<< >>, <<6>>, <<6, 9>>}
  IN {p \in [info : BOOLEAN, base : {<< >>, <<9>>, <<7, 7>>}, records : BoundedSeq(Sizes, 3)] :
        p.base # << >> => p.info}

SmallRooms == 0 .. 70
=============================================================================
