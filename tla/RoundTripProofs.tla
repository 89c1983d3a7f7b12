-------------------------- MODULE RoundTripProofs --------------------------
(***************************************************************************)
(* Theorems about encoding and decoding in turn (MCSenml): the encoder is  *)
(* left what it is, it writes the document of a proper pack if there is    *)
(* space for it (and for what an empty last record asks for besides), and  *)
(* the decoder (SenmlDecode) gives the pack back, or stays inside its      *)
(* caller's array.                                                         *)
(***************************************************************************)
EXTENDS MCSenml, SenmlProofs, WellFoundedInduction

----------------------------------------------------------------------------
(* Induction over the data.                                                *)

\* The natural numbers are the least set that has 0 and, with a number, the next.
LEMMA SetInduction ==
  ASSUME NEW S, 0 \in S, \A n \in Nat : n \in S => n + 1 \in S
  PROVE  Nat \subseteq S
<1>. DEFINE Less == OpToRel(<, Nat)
            Missing == Nat \ S
<1>1. SUFFICES ASSUME Missing # {} PROVE FALSE
  OBVIOUS
<1>2. IsWellFoundedOn(Less, Nat)
  BY NatLessThanWellFounded
<1>3. \A x, y \in Nat : x < y => <<x, y>> \in Less
  BY DEF OpToRel
<1>4. Missing \subseteq Nat
  OBVIOUS
<1>. HIDE DEF Less, Missing
<1>5. PICK x \in Missing : \A y \in Missing : ~(<<y, x>> \in Less)
  BY <1>1, <1>2, <1>4, WFMin
<1>6. x \in Nat /\ x # 0 /\ x \notin S
  BY DEF Missing
<1>7. x - 1 \in Nat /\ x - 1 < x
  BY <1>6
<1>8. x - 1 \in Missing
  BY <1>6, <1>7 DEF Missing
<1>9. <<x - 1, x>> \in Less
  BY <1>3, <1>6, <1>7
<1>. QED  BY <1>5, <1>8, <1>9

\* f is built up from a by G, from 0 to N.
BuiltUp(f, N, a, G) == f[0] = a /\ \A n \in 1 .. N : f[n] = G[<<n, f[n - 1]>>]

\* There is such a function.
LEMMA Recursion ==
  ASSUME NEW N \in Nat, NEW A, NEW a \in A, NEW G \in [(1 .. N) \X A -> A]
  PROVE  \E f \in [0 .. N -> A] : BuiltUp(f, N, a, G)
<1>. DEFINE Upto(n, f) == f[0] = a /\ \A i \in 1 .. n : f[i] = G[<<i, f[i - 1]>>]
            S == {n \in Nat : n <= N => \E f \in [0 .. n -> A] : Upto(n, f)}
<1>1. 0 \in S
  <2>1. Upto(0, [i \in 0 .. 0 |-> a]) /\ [i \in 0 .. 0 |-> a] \in [0 .. 0 -> A]
    OBVIOUS
  <2>. QED  BY <2>1
<1>2. ASSUME NEW n \in Nat, n \in S PROVE n + 1 \in S
  <2>1. SUFFICES ASSUME n + 1 <= N PROVE \E f \in [0 .. n + 1 -> A] : Upto(n + 1, f)
    OBVIOUS
  <2>2. PICK f \in [0 .. n -> A] : Upto(n, f)
    BY <1>2, <2>1
  <2>. DEFINE b == G[<<n + 1, f[n]>>]
              g == [i \in 0 .. n + 1 |-> IF i = n + 1 THEN b ELSE f[i]]
  <2>3. b \in A
    <3>1. <<n + 1, f[n]>> \in (1 .. N) \X A
      BY <2>1, <2>2
    <3>. QED  BY <3>1
  <2>4. g \in [0 .. n + 1 -> A]
    BY <2>2, <2>3
  <2>5. g[0] = a /\ g[n + 1] = b /\ \A i \in 0 .. n : g[i] = f[i]
    BY <2>2
  <2>. HIDE DEF g
  <2>6. ASSUME NEW i \in 1 .. n + 1 PROVE g[i] = G[<<i, g[i - 1]>>]
    <3>1. i - 1 \in 0 .. n /\ g[i - 1] = f[i - 1]
      BY <2>5
    <3>2. CASE i = n + 1
      <4>1. i - 1 = n
        BY <3>2
      <4>. QED  BY <2>5, <3>1, <3>2, <4>1
    <3>3. CASE i # n + 1
      <4>1. i \in 1 .. n
        BY <3>3
      <4>2. g[i] = f[i] /\ f[i] = G[<<i, f[i - 1]>>]
        BY <2>2, <2>5, <4>1
      <4>. QED  BY <3>1, <4>2
    <3>. QED  BY <3>2, <3>3
  <2>. QED  BY <2>4, <2>5, <2>6
<1>3. N \in S
  <2>. HIDE DEF S
  <2>. QED  BY <1>1, <1>2, SetInduction
<1>. QED  BY <1>3 DEF BuiltUp

----------------------------------------------------------------------------
(* Cells, and the bytes they take.                                         *)

\* What a document of pack p is made of.
CellsOf(p) ==
  Marks \cup {<<0, j>> : j \in 1 .. Len(p.base)}
        \cup UNION {{<<i, j>> : j \in 1 .. Len(p.records[i])} : i \in 1 .. Len(p.records)}

\* No field is a mark, and each takes a byte at least.
LEMMA CellBytesType ==
  ASSUME NEW p \in Pack, NEW c \in CellsOf(p)
  PROVE  CellBytes(p, c) \in Nat \ {0}
<1>1. p.base \in Seq(Size) /\ \A i \in 1 .. Len(p.records) : p.records[i] \in Seq(Size)
  BY DEF Pack
<1>2. CASE c \in Marks
  BY <1>2 DEF CellBytes
<1>3. CASE \E j \in 1 .. Len(p.base) : c = <<0, j>>
  <2>1. PICK j \in 1 .. Len(p.base) : c = <<0, j>>
    BY <1>3
  <2>2. p.base[j] \in Size
    BY <1>1
  <2>. QED  BY <2>1, <2>2 DEF CellBytes, Size
<1>4. CASE \E i \in 1 .. Len(p.records) : \E j \in 1 .. Len(p.records[i]) : c = <<i, j>>
  <2>1. PICK i \in 1 .. Len(p.records) : \E j \in 1 .. Len(p.records[i]) : c = <<i, j>>
    BY <1>4
  <2>3. PICK j \in 1 .. Len(p.records[i]) : c = <<i, j>>
    BY <2>1
  <2>2. p.records[i][j] \in Size /\ i # 0
    BY <1>1
  <2>. QED  BY <2>3, <2>2 DEF CellBytes, Size
<1>. QED  BY <1>2, <1>3, <1>4 DEF CellsOf

\* sum[n] is what the first n cells take.
IsSum(p, s, sum) ==
  /\ sum \in [0 .. Len(s) -> Nat]
  /\ sum[0] = 0
  /\ \A n \in 1 .. Len(s) : sum[n] = sum[n - 1] + CellBytes(p, s[n])

\* There is such a sum.
LEMMA SumExists ==
  ASSUME NEW p \in Pack, NEW s \in Seq(CellsOf(p))
  PROVE  \E sum : IsSum(p, s, sum)
<1>. DEFINE N == Len(s)
            G == [x \in (1 .. N) \X Nat |-> x[2] + CellBytes(p, s[x[1]])]
<1>1. N \in Nat /\ \A n \in 1 .. N : CellBytes(p, s[n]) \in Nat
  BY CellBytesType, LenProperties, ElementOfSeq
<1>2. G \in [(1 .. N) \X Nat -> Nat]
  BY <1>1
<1>3. ASSUME NEW n \in 1 .. N, NEW m \in Nat PROVE G[<<n, m>>] = m + CellBytes(p, s[n])
  <2>1. <<n, m>> \in (1 .. N) \X Nat
    OBVIOUS
  <2>. QED  BY <2>1
<1>. HIDE DEF G, N
<1>4. PICK f \in [0 .. N -> Nat] : BuiltUp(f, N, 0, G)
  BY <1>1, <1>2, Recursion
<1>5. ASSUME NEW n \in 1 .. N PROVE f[n] = f[n - 1] + CellBytes(p, s[n])
  <2>1. f[n - 1] \in Nat
    BY <1>1
  <2>. QED  BY <1>3, <1>4, <2>1 DEF BuiltUp
<1>. QED  BY <1>4, <1>5 DEF IsSum, BuiltUp, N

\* Bytes is its last value.
LEMMA BytesIsSum ==
  ASSUME NEW p \in Pack, NEW s \in Seq(CellsOf(p)), NEW sum, IsSum(p, s, sum)
  PROVE  Bytes(p, s) = sum[Len(s)]
<1>. DEFINE N == Len(s)
            Def(f) == f = [n \in 0 .. N |-> IF n = 0 THEN 0 ELSE f[n - 1] + CellBytes(p, s[n])]
            f == CHOOSE g : Def(g)
            S == {n \in Nat : n <= N => f[n] = sum[n]}
<1>1. N \in Nat
  BY LenProperties
<1>2. Def(sum)
  BY <1>1 DEF IsSum
<1>3. Def(f)
  BY <1>2
<1>4. Bytes(p, s) = f[N]
  BY DEF Bytes
<1>. HIDE DEF f
<1>5. f[0] = 0 /\ \A n \in 1 .. N : f[n] = f[n - 1] + CellBytes(p, s[n])
  BY <1>1, <1>3
<1>. HIDE DEF Def
<1>6. 0 \in S
  BY <1>5 DEF IsSum
<1>7. ASSUME NEW n \in Nat, n \in S PROVE n + 1 \in S
  <2>1. SUFFICES ASSUME n + 1 <= N PROVE f[n + 1] = sum[n + 1]
    OBVIOUS
  <2>2. n + 1 \in 1 .. N /\ (n + 1) - 1 = n /\ f[n] = sum[n]
    BY <1>1, <1>7, <2>1
  <2>3. f[n + 1] = f[n] + CellBytes(p, s[n + 1])
    BY <1>5, <2>2
  <2>4. sum[n + 1] = sum[n] + CellBytes(p, s[n + 1])
    BY <2>2 DEF IsSum
  <2>. QED  BY <2>2, <2>3, <2>4
<1>8. N \in S
  <2>. HIDE DEF S
  <2>. QED  BY <1>1, <1>6, <1>7, SetInduction
<1>. QED  BY <1>4, <1>8

\* No cells take no bytes, and none take a negative number of them.
LEMMA BytesType ==
  ASSUME NEW p \in Pack, NEW s \in Seq(CellsOf(p))
  PROVE  Bytes(p, s) \in Nat /\ (s = << >> => Bytes(p, s) = 0)
<1>1. PICK sum : IsSum(p, s, sum)
  BY SumExists
<1>2. Bytes(p, s) = sum[Len(s)] /\ Len(s) \in 0 .. Len(s)
  BY <1>1, BytesIsSum, LenProperties
<1>. QED  BY <1>1, <1>2 DEF IsSum

\* What two sequences of cells take adds up.
LEMMA BytesConcat ==
  ASSUME NEW p \in Pack, NEW s \in Seq(CellsOf(p)), NEW t \in Seq(CellsOf(p))
  PROVE  Bytes(p, s \o t) = Bytes(p, s) + Bytes(p, t)
<1>. DEFINE A == CellsOf(p)
<1>. HIDE DEF A
<1>0. s \in Seq(A) /\ t \in Seq(A)
  BY DEF A
<1>1. Len(s) \in Nat /\ Len(t) \in Nat
  BY <1>0, LenProperties
<1>2. /\ s \o t \in Seq(A) /\ Len(s \o t) = Len(s) + Len(t)
      /\ \A i \in 1 .. Len(s) + Len(t) : (s \o t)[i] = IF i <= Len(s) THEN s[i] ELSE t[i - Len(s)]
  BY <1>0, ConcatProperties
<1>3. PICK a : IsSum(p, s, a)
  BY SumExists
<1>4. PICK b : IsSum(p, t, b)
  BY SumExists
<1>. DEFINE sum == [n \in 0 .. Len(s) + Len(t) |->
                      IF n <= Len(s) THEN a[n] ELSE a[Len(s)] + b[n - Len(s)]]
<1>5. sum \in [0 .. Len(s) + Len(t) -> Nat] /\ sum[0] = 0
  <2>1. /\ \A n \in 0 .. Len(s) : a[n] \in Nat
        /\ \A n \in 0 .. Len(t) : b[n] \in Nat
        /\ a[0] = 0
    BY <1>3, <1>4 DEF IsSum
  <2>2. ASSUME NEW n \in 0 .. Len(s) + Len(t) PROVE sum[n] \in Nat
    <3>1. CASE n <= Len(s)
      BY <1>1, <2>1, <3>1
    <3>2. CASE n > Len(s)
      <4>1. n - Len(s) \in 0 .. Len(t) /\ Len(s) \in 0 .. Len(s)
        BY <1>1, <3>2
      <4>2. sum[n] = a[Len(s)] + b[n - Len(s)]
        BY <1>1, <3>2
      <4>. QED  BY <2>1, <4>1, <4>2
    <3>. QED  BY <1>1, <3>1, <3>2
  <2>. QED  BY <1>1, <2>1, <2>2
<1>6. sum[Len(s) + Len(t)] = a[Len(s)] + b[Len(t)]
  BY <1>1, <1>3, <1>4 DEF IsSum
<1>7. ASSUME NEW n \in 1 .. Len(s) + Len(t)
      PROVE  sum[n] = sum[n - 1] + CellBytes(p, (s \o t)[n])
  <2>1. CASE n <= Len(s)
    <3>1. sum[n] = a[n] /\ sum[n - 1] = a[n - 1] /\ (s \o t)[n] = s[n] /\ n \in 1 .. Len(s)
      BY <1>1, <1>2, <2>1
    <3>. QED  BY <1>3, <3>1 DEF IsSum
  <2>2. CASE n > Len(s)
    <3>. DEFINE m == n - Len(s)
    <3>1. m \in 1 .. Len(t) /\ (s \o t)[n] = t[m] /\ sum[n] = a[Len(s)] + b[m]
      BY <1>1, <1>2, <2>2
    <3>2. sum[n - 1] = a[Len(s)] + b[m - 1]
      <4>1. CASE m = 1
        BY <1>1, <1>3, <1>4, <4>1 DEF IsSum
      <4>2. CASE m # 1
        BY <1>1, <2>2, <4>2
      <4>. QED  BY <4>1, <4>2
    <3>3. b[m] = b[m - 1] + CellBytes(p, t[m])
      BY <1>4, <3>1 DEF IsSum
    <3>4. a[Len(s)] \in Nat /\ b[m - 1] \in Nat /\ CellBytes(p, t[m]) \in Nat
      <4>1. Len(s) \in 0 .. Len(s) /\ m - 1 \in 0 .. Len(t) /\ t[m] \in CellsOf(p)
        BY <1>1, <3>1, ElementOfSeq
      <4>. QED  BY <1>3, <1>4, <4>1, CellBytesType DEF IsSum
    <3>. HIDE DEF m, sum
    <3>. QED  BY <3>1, <3>2, <3>3, <3>4
  <2>. QED  BY <1>1, <2>1, <2>2
<1>8. IsSum(p, s \o t, sum)
  BY <1>2, <1>5, <1>7 DEF IsSum
<1>9. Bytes(p, s) = a[Len(s)] /\ Bytes(p, t) = b[Len(t)]
  BY <1>3, <1>4, BytesIsSum
<1>10. Bytes(p, s \o t) = sum[Len(s \o t)]
  <2>. HIDE DEF sum
  <2>. QED  BY <1>2, <1>8, BytesIsSum DEF A
<1>. QED  BY <1>2, <1>6, <1>9, <1>10

\* One more cell.
LEMMA BytesOne ==
  ASSUME NEW p \in Pack, NEW c \in CellsOf(p)
  PROVE  <<c>> \in Seq(CellsOf(p)) /\ Bytes(p, <<c>>) = CellBytes(p, c)
<1>. DEFINE s == <<c>>
            sum == [n \in 0 .. 1 |-> IF n = 0 THEN 0 ELSE CellBytes(p, c)]
<1>1. s \in Seq(CellsOf(p)) /\ Len(s) = 1 /\ s[1] = c
  OBVIOUS
<1>2. sum \in [0 .. 1 -> Nat] /\ sum[0] = 0 /\ sum[1] = sum[0] + CellBytes(p, c)
  BY CellBytesType
<1>3. sum[1] = CellBytes(p, c)
  OBVIOUS
<1>. HIDE DEF sum, s
<1>4. ASSUME NEW n \in 1 .. 1 PROVE sum[n] = sum[n - 1] + CellBytes(p, s[n])
  <2>1. n = 1 /\ n - 1 = 0
    OBVIOUS
  <2>. QED  BY <1>1, <1>2, <2>1
<1>5. IsSum(p, s, sum)
  BY <1>1, <1>2, <1>4 DEF IsSum
<1>6. Bytes(p, s) = sum[1]
  BY <1>1, <1>5, BytesIsSum
<1>. QED  BY <1>1, <1>3, <1>6 DEF s

----------------------------------------------------------------------------
(* The parts of a document.                                                *)

\* The cells, each with its comma.
Ended(cells) ==
  [j \in 1 .. 2 * Len(cells) |->
     IF j % 2 = 1 THEN cells[(j + 1) \div 2] ELSE Mark("comma")]

\* The objects, with the comma that comes before the next.
Trailing(objects) == IF objects = << >> THEN << >> ELSE objects \o <<Mark("comma")>>

\* The fields of record i's object before its field j; record 0 is the base
\* information.
Before(p, i, j) ==
  IF i = 0 THEN [m \in 1 .. j - 1 |-> <<0, m>>] ELSE Members(p, i, j - 1)

\* Taking back what was appended.
LEMMA TakenBack ==
  ASSUME NEW S, NEW s \in Seq(S), NEW c \in S
  PROVE  /\ s \o <<c>> \in Seq(S) /\ s \o <<c>> # << >>
         /\ (s \o <<c>>)[Len(s \o <<c>>)] = c
         /\ But(s \o <<c>>) = s
         /\ Append(s, c) = s \o <<c>>
<1>1. Append(s, c) = s \o <<c>>
  BY AppendIsConcat
<1>2. /\ Append(s, c) \in Seq(S) /\ Append(s, c) # << >> /\ Len(Append(s, c)) = Len(s) + 1
      /\ \A i \in 1 .. Len(s) : Append(s, c)[i] = s[i]
      /\ Append(s, c)[Len(s) + 1] = c
  BY AppendProperties
<1>3. But(Append(s, c)) = s
  <2>0. Len(s) \in Nat
    BY LenProperties
  <2>1. But(Append(s, c)) \in Seq(S) /\ Len(But(Append(s, c))) = Len(s)
    <3>1. But(Append(s, c)) \in Seq(S) /\ Len(But(Append(s, c))) = Len(Append(s, c)) - 1
      BY <1>2, ButLast
    <3>. QED  BY <1>2, <2>0, <3>1
  <2>2. \A i \in 1 .. Len(s) : But(Append(s, c))[i] = s[i]
    BY <1>2, <2>0, <2>1 DEF But
  <2>. QED  BY <2>1, <2>2, SeqEqual
<1>. QED  BY <1>1, <1>2, <1>3

\* Fields with their commas, and with commas between them.
LEMMA EndedCells ==
  ASSUME NEW S, Marks \subseteq S, NEW cells \in Seq(S)
  PROVE  /\ Ended(cells) \in Seq(S) /\ Len(Ended(cells)) = 2 * Len(cells)
         /\ Commas(cells) \in Seq(S)
         /\ cells = << >> => Ended(cells) = << >>
         /\ cells # << >> => Ended(cells) = Commas(cells) \o <<Mark("comma")>>
<1>1. Len(cells) \in Nat /\ \A i \in 1 .. Len(cells) : cells[i] \in S
  BY LenProperties, ElementOfSeq
<1>2. Mark("comma") \in S
  BY DEF Marks
<1>3. ASSUME NEW j \in 1 .. 2 * Len(cells), j % 2 = 1
      PROVE  (j + 1) \div 2 \in 1 .. Len(cells) /\ j <= 2 * Len(cells) - 1
  BY <1>1, <1>3
<1>4. Ended(cells) \in Seq(S) /\ Len(Ended(cells)) = 2 * Len(cells)
  BY <1>1, <1>2, <1>3 DEF Ended
<1>5. Commas(cells) \in Seq(S) /\ Len(Commas(cells)) = IF Len(cells) = 0 THEN 0 ELSE 2 * Len(cells) - 1
  <2>. DEFINE m == IF Len(cells) = 0 THEN 0 ELSE 2 * Len(cells) - 1
  <2>1. m \in Nat /\ m <= 2 * Len(cells) /\ 1 .. 2 * Len(cells) - 1 = 1 .. m
    BY <1>1
  <2>2. ASSUME NEW j \in 1 .. m
        PROVE  (IF j % 2 = 1 THEN cells[(j + 1) \div 2] ELSE Mark("comma")) \in S
    <3>1. j \in 1 .. 2 * Len(cells)
      BY <1>1, <2>1
    <3>. QED  BY <1>1, <1>2, <1>3, <3>1
  <2>. HIDE DEF m
  <2>3. Commas(cells) \in [1 .. m -> S]
    BY <2>1, <2>2 DEF Commas
  <2>4. Commas(cells) \in Seq(S) /\ Len(Commas(cells)) = m
    BY <2>1, <2>3
  <2>. QED  BY <2>4 DEF m
<1>6. cells = << >> => Ended(cells) = << >>
  BY <1>4, EmptySeq
<1>7. ASSUME cells # << >> PROVE Ended(cells) = Commas(cells) \o <<Mark("comma")>>
  <2>1. Len(cells) > 0 /\ Len(Commas(cells)) = 2 * Len(cells) - 1
    BY <1>1, <1>5, <1>7, EmptySeq
  <2>2. <<Mark("comma")>> \in Seq(S) /\ Len(<<Mark("comma")>>) = 1
    BY <1>2
  <2>. DEFINE t == Commas(cells) \o <<Mark("comma")>>
  <2>3. /\ t \in Seq(S) /\ Len(t) = 2 * Len(cells)
        /\ \A j \in 1 .. 2 * Len(cells) :
             t[j] = IF j <= 2 * Len(cells) - 1 THEN Commas(cells)[j] ELSE Mark("comma")
    BY <1>1, <1>5, <2>1, <2>2, ConcatProperties
  <2>4. ASSUME NEW j \in 1 .. 2 * Len(cells) PROVE Ended(cells)[j] = t[j]
    <3>1. CASE j <= 2 * Len(cells) - 1
      BY <1>1, <2>3, <3>1 DEF Ended, Commas
    <3>2. CASE j = 2 * Len(cells)
      BY <1>1, <2>3, <3>2 DEF Ended
    <3>3. j <= 2 * Len(cells) - 1 \/ j = 2 * Len(cells)
      BY <1>1
    <3>. HIDE DEF t
    <3>. QED  BY <3>1, <3>2, <3>3
  <2>. HIDE DEF t
  <2>5. Ended(cells) = t
    BY <1>4, <2>3, <2>4, SeqEqual
  <2>. QED  BY <2>5 DEF t
<1>. QED  BY <1>4, <1>5, <1>6, <1>7

\* One more field.
LEMMA EndedAppend ==
  ASSUME NEW S, Marks \subseteq S, NEW cells \in Seq(S), NEW c \in S
  PROVE  Ended(Append(cells, c)) = Append(Append(Ended(cells), c), Mark("comma"))
<1>. DEFINE n == Len(cells)
            s == Ended(cells)
            t == Append(Append(s, c), Mark("comma"))
            more == Append(cells, c)
<1>1. n \in Nat /\ Mark("comma") \in S
  BY LenProperties DEF Marks
<1>2. s \in Seq(S) /\ Len(s) = 2 * n
  BY EndedCells
<1>3. /\ more \in Seq(S) /\ Len(more) = n + 1 /\ more[n + 1] = c
      /\ \A i \in 1 .. n : more[i] = cells[i]
  BY AppendProperties
<1>4. Ended(more) \in Seq(S) /\ Len(Ended(more)) = 2 * (n + 1)
  BY <1>3, EndedCells
<1>5. /\ Append(s, c) \in Seq(S) /\ Len(Append(s, c)) = 2 * n + 1 /\ Append(s, c)[2 * n + 1] = c
      /\ \A i \in 1 .. 2 * n : Append(s, c)[i] = s[i]
  BY <1>2, AppendProperties
<1>6. /\ t \in Seq(S) /\ Len(t) = 2 * n + 2 /\ t[2 * n + 2] = Mark("comma")
      /\ \A i \in 1 .. 2 * n + 1 : t[i] = Append(s, c)[i]
  BY <1>1, <1>5, AppendProperties
<1>7. ASSUME NEW j \in 1 .. 2 * n + 2 PROVE Ended(more)[j] = t[j]
  <2>1. Ended(more)[j] = IF j % 2 = 1 THEN more[(j + 1) \div 2] ELSE Mark("comma")
    BY <1>1, <1>3 DEF Ended
  <2>2. CASE j <= 2 * n
    <3>1. t[j] = s[j] /\ s[j] = IF j % 2 = 1 THEN cells[(j + 1) \div 2] ELSE Mark("comma")
      BY <1>1, <1>5, <1>6, <2>2 DEF Ended
    <3>2. j % 2 = 1 => (j + 1) \div 2 \in 1 .. n
      BY <1>1, <2>2
    <3>. QED  BY <1>3, <2>1, <3>1, <3>2
  <2>3. CASE j = 2 * n + 1
    <3>1. j % 2 = 1 /\ (j + 1) \div 2 = n + 1
      BY <1>1, <2>3
    <3>. QED  BY <1>1, <1>3, <1>5, <1>6, <2>1, <2>3, <3>1
  <2>4. CASE j = 2 * n + 2
    <3>1. j % 2 # 1
      BY <1>1, <2>4
    <3>. QED  BY <1>6, <2>1, <2>4, <3>1
  <2>5. j <= 2 * n \/ j = 2 * n + 1 \/ j = 2 * n + 2
    BY <1>1
  <2>. HIDE DEF t, more, n
  <2>. QED  BY <2>2, <2>3, <2>4, <2>5
<1>. HIDE DEF t, more
<1>8. Ended(more) = t
  BY <1>4, <1>6, <1>7, SeqEqual
<1>. QED  BY <1>8 DEF t, more, s

\* How many fields record i has; record 0 is the base information.
Width(p, i) == IF i = 0 THEN Len(p.base) ELSE Len(p.records[i])

\* Lengths are numbers.
LEMMA PackLengths ==
  ASSUME NEW p \in Pack
  PROVE  /\ Len(p.base) \in Nat /\ Len(p.records) \in Nat
         /\ \A i \in 1 .. Len(p.records) : Len(p.records[i]) \in Nat /\ p.records[i] \in Seq(Size)
         /\ \A i \in 0 .. Len(p.records) : Width(p, i) \in Nat
<1>1. p.base \in Seq(Size) /\ p.records \in Seq(Seq(Size))
  BY DEF Pack
<1>2. \A i \in 1 .. Len(p.records) : p.records[i] \in Seq(Size)
  BY <1>1, ElementOfSeq
<1>3. Len(p.base) \in Nat /\ Len(p.records) \in Nat
  BY <1>1, LenProperties
<1>4. \A i \in 1 .. Len(p.records) : Len(p.records[i]) \in Nat
  BY <1>2, LenProperties
<1>. QED  BY <1>2, <1>3, <1>4 DEF Width

\* The marks, and the fields that there are, are cells.
LEMMA AreCells ==
  ASSUME NEW p \in Pack
  PROVE  /\ Marks \subseteq CellsOf(p)
         /\ \A x \in {"lbracket", "lbrace", "comma", "rbrace", "rbracket"} : Mark(x) \in CellsOf(p)
         /\ \A i \in 0 .. Len(p.records) : \A j \in 1 .. Width(p, i) : <<i, j>> \in CellsOf(p)
<1>1. Marks \subseteq CellsOf(p)
  BY DEF CellsOf
<1>2. \A x \in {"lbracket", "lbrace", "comma", "rbrace", "rbracket"} : Mark(x) \in Marks
  BY DEF Marks
<1>3. ASSUME NEW i \in 0 .. Len(p.records), NEW j \in 1 .. Width(p, i) PROVE <<i, j>> \in CellsOf(p)
  BY PackLengths DEF Width, CellsOf
<1>. QED  BY <1>1, <1>2, <1>3

\* The members of an object are cells, and no members are none.
LEMMA MembersType ==
  ASSUME NEW p \in Pack, NEW i \in 1 .. Len(p.records), NEW n \in 0 .. Len(p.records[i])
  PROVE  /\ Members(p, i, n) \in Seq(CellsOf(p))
         /\ Len(Members(p, i, n)) = (IF i = 1 THEN Len(p.base) ELSE 0) + n
<1>. DEFINE based == IF i = 1 THEN Len(p.base) ELSE 0
            m == based + n
<1>1. based \in Nat /\ m \in Nat /\ n <= Width(p, i) /\ Len(p.records) \in Nat /\ n \in Nat
      /\ (i = 1 => based = Width(p, 0)) /\ (i # 1 => based = 0)
  BY PackLengths DEF Width
<1>2. ASSUME NEW j \in 1 .. m
      PROVE  (IF j <= based THEN <<0, j>> ELSE <<i, j - based>>) \in CellsOf(p)
  <2>1. CASE j <= based
    <3>1. 0 \in 0 .. Len(p.records) /\ j \in 1 .. Width(p, 0)
      BY <1>1, <2>1
    <3>. QED  BY <2>1, <3>1, AreCells
  <2>2. CASE j > based
    <3>1. i \in 0 .. Len(p.records) /\ j - based \in 1 .. Width(p, i)
      BY <1>1, <2>2, PackLengths
    <3>. HIDE DEF based
    <3>. QED  BY <1>1, <2>2, <3>1, AreCells
  <2>. QED  BY <1>1, <2>1, <2>2
<1>3. Members(p, i, n) \in [1 .. m -> CellsOf(p)]
  BY <1>2 DEF Members
<1>. HIDE DEF m
<1>4. Members(p, i, n) \in Seq(CellsOf(p)) /\ Len(Members(p, i, n)) = m
  BY <1>1, <1>3
<1>. QED  BY <1>4 DEF m

\* The fields before the first, and before the next one.
LEMMA BeforeType ==
  ASSUME NEW p \in Pack, NEW i \in 0 .. Len(p.records), NEW j \in 1 .. Width(p, i) + 1
  PROVE  /\ Before(p, i, j) \in Seq(CellsOf(p))
         /\ j <= Width(p, i) => Before(p, i, j + 1) = Append(Before(p, i, j), <<i, j>>)
<1>. DEFINE A == CellsOf(p)
            f(b, n) == [x \in 1 .. b + n |-> IF x <= b THEN <<0, x>> ELSE <<i, x - b>>]
<1>1. Width(p, i) \in Nat
  BY PackLengths
<1>2. PICK b \in Nat : \A n \in 0 .. Width(p, i) :
                         Before(p, i, n + 1) = f(b, n) /\ f(b, n) \in Seq(A) /\ Len(f(b, n)) = b + n
  <2>1. CASE i = 0
    <3>1. ASSUME NEW n \in 0 .. Width(p, i)
          PROVE  Before(p, i, n + 1) = f(0, n) /\ f(0, n) \in Seq(A) /\ Len(f(0, n)) = n
      <4>1. Before(p, i, n + 1) = [m \in 1 .. n |-> <<0, m>>]
        BY <1>1, <2>1 DEF Before
      <4>2. f(0, n) = [m \in 1 .. n |-> <<0, m>>]
        BY <1>1, <2>1
      <4>3. f(0, n) \in [1 .. n -> A]
        BY <1>1, <2>1, <4>2, AreCells
      <4>. HIDE DEF f
      <4>. QED  BY <4>1, <4>2, <4>3, <1>1
    <3>. HIDE DEF f
    <3>. QED  BY <3>1
  <2>2. CASE i # 0
    <3>. DEFINE based == IF i = 1 THEN Len(p.base) ELSE 0
    <3>1. i \in 1 .. Len(p.records) /\ Width(p, i) = Len(p.records[i]) /\ based \in Nat
      BY <2>2, PackLengths DEF Width
    <3>2. ASSUME NEW n \in 0 .. Width(p, i)
          PROVE  /\ Before(p, i, n + 1) = f(based, n) /\ f(based, n) \in Seq(A)
                 /\ Len(f(based, n)) = based + n
      <4>1. Before(p, i, n + 1) = Members(p, i, n)
        BY <1>1, <2>2 DEF Before
      <4>2. Members(p, i, n) = f(based, n)
        BY DEF Members
      <4>. HIDE DEF f
      <4>. QED  BY <4>1, <4>2, <3>1, MembersType
    <3>. HIDE DEF f, based
    <3>. QED  BY <3>1, <3>2
  <2>. QED  BY <2>1, <2>2
<1>3. j - 1 \in 0 .. Width(p, i) /\ (j - 1) + 1 = j
  BY <1>1
<1>4. Before(p, i, j) = f(b, j - 1) /\ f(b, j - 1) \in Seq(A) /\ Len(f(b, j - 1)) = b + (j - 1)
  <2>. HIDE DEF f
  <2>. QED  BY <1>2, <1>3
<1>5. ASSUME j <= Width(p, i) PROVE Before(p, i, j + 1) = Append(Before(p, i, j), <<i, j>>)
  <2>1. Before(p, i, j + 1) = f(b, j) /\ f(b, j) \in Seq(A) /\ Len(f(b, j)) = b + j
    <3>. HIDE DEF f
    <3>. QED  BY <1>2, <1>5
  <2>. DEFINE s == f(b, j - 1)
              t == Append(s, <<i, j>>)
  <2>2. <<i, j>> \in A
    BY <1>5, AreCells
  <2>3. /\ t \in Seq(A) /\ Len(t) = b + j /\ t[b + j] = <<i, j>>
        /\ \A x \in 1 .. b + j - 1 : t[x] = s[x]
    <3>1. /\ t \in Seq(A) /\ Len(t) = Len(s) + 1 /\ t[Len(s) + 1] = <<i, j>>
          /\ \A x \in 1 .. Len(s) : t[x] = s[x]
      <4>. HIDE DEF f
      <4>. QED  BY <1>4, <2>2, AppendProperties
    <3>2. Len(s) = b + j - 1 /\ Len(s) + 1 = b + j
      BY <1>4
    <3>. HIDE DEF t, s
    <3>. QED  BY <3>1, <3>2
  <2>4. \A x \in 1 .. b + j - 1 : s[x] = f(b, j)[x]
    OBVIOUS
  <2>5. f(b, j)[b + j] = <<i, j>>
    OBVIOUS
  <2>6. \A x \in 1 .. b + j : x \in 1 .. b + j - 1 \/ x = b + j
    OBVIOUS
  <2>. HIDE DEF f, t
  <2>7. \A x \in 1 .. b + j : f(b, j)[x] = t[x]
    BY <2>3, <2>4, <2>5, <2>6
  <2>8. f(b, j) = t
    BY <2>1, <2>3, <2>7, SeqEqual
  <2>. QED  BY <1>4, <2>1, <2>8 DEF t
<1>. HIDE DEF f
<1>. QED  BY <1>4, <1>5

\* An object is cells.
LEMMA WithObjectType ==
  ASSUME NEW p \in Pack, NEW i \in 1 .. Len(p.records), NEW objects \in Seq(CellsOf(p))
  PROVE  /\ Object(p, i) \in Seq(CellsOf(p))
         /\ WithObject(p, i, objects) \in Seq(CellsOf(p))
         /\ p.records[i] # << >> =>
              WithObject(p, i, objects) = Trailing(objects) \o Object(p, i) /\ WithObject(p, i, objects) # << >>
<1>. DEFINE A == CellsOf(p)
            mem == Members(p, i, Len(p.records[i]))
<1>1. mem \in Seq(A)
  BY MembersType, PackLengths
<1>2. <<Mark("lbrace")>> \in Seq(A) /\ <<Mark("rbrace")>> \in Seq(A) /\ <<Mark("comma")>> \in Seq(A)
  BY AreCells
<1>3. Commas(mem) \in Seq(A)
  BY <1>1, EndedCells, AreCells
<1>. HIDE DEF A, mem
<1>4. Object(p, i) \in Seq(A)
  <2>1. <<Mark("lbrace")>> \o Commas(mem) \in Seq(A)
    BY <1>2, <1>3, ConcatProperties
  <2>. QED  BY <1>2, <2>1, ConcatProperties DEF Object, mem
<1>5. objects \in Seq(A)
  BY DEF A
<1>6. objects \o <<Mark("comma")>> \in Seq(A)
  BY <1>2, <1>5, ConcatProperties
<1>7. objects \o <<Mark("comma")>> \o Object(p, i) \in Seq(A)
  BY <1>4, <1>6, ConcatProperties
<1>8. WithObject(p, i, objects) \in Seq(A)
  BY <1>4, <1>5, <1>7 DEF WithObject
<1>9. p.records[i] # << >> => WithObject(p, i, objects) = Trailing(objects) \o Object(p, i)
  BY <1>4, ConcatEmptySeq DEF WithObject, Trailing
<1>10. \A s \in Seq(A) : s \o Object(p, i) # << >>
  <2>. SUFFICES ASSUME NEW s \in Seq(A) PROVE s \o Object(p, i) # << >>
    OBVIOUS
  <2>0. <<Mark("lbrace")>> \o Commas(mem) \in Seq(A)
    BY <1>2, <1>3, ConcatProperties
  <2>1. Object(p, i) # << >>
    <3>1. Object(p, i) = (<<Mark("lbrace")>> \o Commas(mem)) \o <<Mark("rbrace")>>
      BY DEF Object, mem
    <3>2. Mark("rbrace") \in A
      BY AreCells DEF A
    <3>. QED  BY <2>0, <3>1, <3>2, TakenBack
  <2>2. Len(s) \in Nat /\ Len(Object(p, i)) \in Nat /\ Len(Object(p, i)) # 0
    BY <1>4, <2>1, LenProperties, EmptySeq
  <2>3. Len(s \o Object(p, i)) = Len(s) + Len(Object(p, i))
    BY <1>4, ConcatProperties
  <2>4. Len(s \o Object(p, i)) # 0
    BY <2>2, <2>3
  <2>. QED  BY <2>4, EmptySeq
<1>11. Trailing(objects) \in Seq(A)
  BY <1>5, <1>6 DEF Trailing
<1>. QED  BY <1>4, <1>8, <1>9, <1>10, <1>11 DEF A

\* The objects of the first records, one record at a time.
LEMMA ObjectsAre ==
  ASSUME NEW p \in Pack
  PROVE  /\ Objects(p)[0] = << >>
         /\ \A n \in 0 .. Len(p.records) : Objects(p)[n] \in Seq(CellsOf(p))
         /\ \A n \in 1 .. Len(p.records) : Objects(p)[n] = WithObject(p, n, Objects(p)[n - 1])
<1>. DEFINE N == Len(p.records)
            A == Seq(CellsOf(p))
            G == [x \in (1 .. N) \X A |-> WithObject(p, x[1], x[2])]
            Def(f) == f = [n \in 0 .. N |-> IF n = 0 THEN << >> ELSE WithObject(p, n, f[n - 1])]
            f == CHOOSE g : Def(g)
            S == {n \in Nat : n <= N => f[n] \in A}
<1>1. N \in Nat /\ << >> \in A
  BY PackLengths, EmptySeq
<1>2. ASSUME NEW n \in 1 .. N, NEW s \in A PROVE WithObject(p, n, s) \in A
  BY WithObjectType
<1>. HIDE DEF A, N
<1>3. G \in [(1 .. N) \X A -> A]
  BY <1>2
<1>4. ASSUME NEW n \in 1 .. N, NEW s \in A PROVE G[<<n, s>>] = WithObject(p, n, s)
  <2>1. <<n, s>> \in (1 .. N) \X A
    OBVIOUS
  <2>. QED  BY <2>1
<1>. HIDE DEF G
<1>5. PICK g \in [0 .. N -> A] : BuiltUp(g, N, << >>, G)
  BY <1>1, <1>3, Recursion
<1>6. Def(g)
  <2>1. g[0] = << >> /\ \A n \in 1 .. N : g[n] = G[<<n, g[n - 1]>>]
    BY <1>5 DEF BuiltUp
  <2>2. ASSUME NEW n \in 1 .. N PROVE g[n] = WithObject(p, n, g[n - 1])
    <3>1. g[n - 1] \in A
      BY <1>1, <1>5
    <3>. QED  BY <1>4, <2>1, <3>1
  <2>3. ASSUME NEW n \in 0 .. N PROVE g[n] = IF n = 0 THEN << >> ELSE WithObject(p, n, g[n - 1])
    <3>1. n = 0 \/ n \in 1 .. N
      BY <1>1
    <3>. QED  BY <2>1, <2>2, <3>1
  <2>. QED  BY <1>5, <2>3
<1>7. Def(f)
  BY <1>6
<1>8. Objects(p) = f
  BY DEF Objects, N
<1>. HIDE DEF f
<1>9. f[0] = << >> /\ \A n \in 1 .. N : f[n] = WithObject(p, n, f[n - 1])
  BY <1>1, <1>7
<1>. HIDE DEF Def
<1>10. 0 \in S
  BY <1>1, <1>9
<1>11. ASSUME NEW n \in Nat, n \in S PROVE n + 1 \in S
  <2>1. SUFFICES ASSUME n + 1 <= N PROVE f[n + 1] \in A
    OBVIOUS
  <2>2. n + 1 \in 1 .. N /\ (n + 1) - 1 = n /\ f[n] \in A
    BY <1>1, <1>11, <2>1
  <2>. QED  BY <1>2, <1>9, <2>2
<1>12. Nat \subseteq S
  <2>. HIDE DEF S
  <2>. QED  BY <1>10, <1>11, SetInduction
<1>13. \A n \in 0 .. N : f[n] \in A
  BY <1>1, <1>12
<1>. QED  BY <1>8, <1>9, <1>13 DEF A, N

----------------------------------------------------------------------------
(* The encoder writes the document from left to right: SoFar says what      *)
(* output holds at each place of the code, and how many bytes that is.      *)

\* The array with the objects of the first n records, and a comma if there are any.
Opened(p, n) == <<Mark("lbracket")>> \o Trailing(Objects(p)[n])

\* The array up to field j of record i, which is in an object unless it is a base
\* information that is not there.
Inside(p, i, j) ==
  IF i = 0 /\ ~p.info THEN Opened(p, 0)
  ELSE Opened(p, IF i = 0 THEN 0 ELSE i - 1) \o <<Mark("lbrace")>> \o Ended(Before(p, i, j))

\* What is written of the document of pack p when record i comes next.
Waiting(p, i) ==
  IF i = 1 /\ p.info THEN Inside(p, 0, Len(p.base) + 1) ELSE Opened(p, i - 1)

SoFar ==
  /\ pc = "open" => out = << >> /\ brace
  /\ pc = "fields" => out = Inside(pack, r, k)
  /\ pc = "record" => out = Waiting(pack, r) /\ Num > 0
  /\ pc \in {"fields", "record"} => brace = ~(pack.info /\ r <= 1)
  /\ pc = "done" => out = Document(pack) /\ ins_pos = Bytes(pack, Document(pack)) + 1
  /\ pc \in {"open", "fields", "record"} => ins_pos = Bytes(pack, out)

\* What is tested when the array is closed, the byte that is left if the last record
\* has no fields, and what the room was when the encoder stopped.
RoomSoFar ==
  /\ pc \in {"fields", "record"} /\ r > 0 =>
       /\ after_bi = Bytes(pack, Inside(pack, 0, Len(pack.base) + 1))
       /\ ~pack.info => len >= 5
  /\ pc = "record" /\ pack.records[Num] = << >> => buf_len >= 1
  /\ pc = "failed" => Needed(pack) > len
  /\ pc = "done" => Needed(pack) <= len

DocumentInv == Proper(pack) => SoFar /\ RoomSoFar

\* One mark more or less is one byte.
LEMMA BytesMark ==
  ASSUME NEW p \in Pack, NEW s \in Seq(CellsOf(p)), NEW c \in Marks
  PROVE  s \o <<c>> \in Seq(CellsOf(p)) /\ Bytes(p, s \o <<c>>) = Bytes(p, s) + 1
<1>1. c \in CellsOf(p) /\ CellBytes(p, c) = 1
  BY AreCells DEF CellBytes
<1>2. <<c>> \in Seq(CellsOf(p)) /\ Bytes(p, <<c>>) = 1
  BY <1>1, BytesOne
<1>. QED  BY <1>2, BytesConcat, ConcatProperties

\* The marks of JSON are marks.
LEMMA AreMarks == \A x \in {"lbracket", "lbrace", "comma", "rbrace", "rbracket"} : Mark(x) \in Marks
BY DEF Marks

\* The array so far is cells.
LEMMA OpenedType ==
  ASSUME NEW p \in Pack, NEW n \in 0 .. Len(p.records)
  PROVE  /\ Opened(p, n) \in Seq(CellsOf(p))
         /\ Trailing(Objects(p)[n]) \in Seq(CellsOf(p))
<1>1. Objects(p)[n] \in Seq(CellsOf(p))
  BY ObjectsAre
<1>2. Trailing(Objects(p)[n]) \in Seq(CellsOf(p))
  BY <1>1, BytesMark, AreMarks DEF Trailing
<1>3. <<Mark("lbracket")>> \in Seq(CellsOf(p))
  BY AreCells
<1>. QED  BY <1>2, <1>3, ConcatProperties DEF Opened

\* Appending to the second of two sequences.
LEMMA ConcatAppend ==
  ASSUME NEW S, NEW s \in Seq(S), NEW t \in Seq(S), NEW c \in S
  PROVE  Append(t, c) \in Seq(S) /\ s \o Append(t, c) = Append(s \o t, c)
<1>1. <<c>> \in Seq(S) /\ s \o t \in Seq(S)
  BY ConcatProperties
<1>2. Append(t, c) = t \o <<c>> /\ Append(s \o t, c) = (s \o t) \o <<c>>
  BY <1>1, AppendIsConcat
<1>3. (s \o t) \o <<c>> = s \o (t \o <<c>>)
  BY <1>1, ConcatAssociative
<1>. QED  BY <1>2, <1>3, AppendProperties

\* Three sequences, joined from the right and from the left.
LEMMA JoinRight ==
  ASSUME NEW S, NEW s \in Seq(S), NEW t \in Seq(S), NEW u \in Seq(S)
  PROVE  s \o (t \o u) = (s \o t) \o u
BY ConcatAssociative

\* A sequence in six parts, taken together from the right and from the left.
Regroups(S, l, t, b, m, e, c) ==
  /\ ((l \o t) \o b) \o m \in Seq(S)
  /\ ((l \o t) \o b) \o (m \o c) = (((l \o t) \o b) \o m) \o c
  /\ l \o ((t \o ((b \o m) \o e)) \o c) = ((((l \o t) \o b) \o m) \o e) \o c

\* It is the same sequence.
LEMMA Regroup ==
  ASSUME NEW S, NEW l, NEW t, NEW b, NEW m, NEW e, NEW c
  PROVE  l \in Seq(S) /\ t \in Seq(S) /\ b \in Seq(S) /\ m \in Seq(S) /\ e \in Seq(S) /\ c \in Seq(S) =>
           Regroups(S, l, t, b, m, e, c)
<1>0. HAVE l \in Seq(S) /\ t \in Seq(S) /\ b \in Seq(S) /\ m \in Seq(S) /\ e \in Seq(S) /\ c \in Seq(S)
<1>l. l \in Seq(S)
  BY <1>0
<1>t. t \in Seq(S)
  BY <1>0
<1>b. b \in Seq(S)
  BY <1>0
<1>m. m \in Seq(S)
  BY <1>0
<1>e. e \in Seq(S)
  BY <1>0
<1>c. c \in Seq(S)
  BY <1>0
<1>. DEFINE bm == b \o m
            z == l \o t
            zb == z \o b
            o == bm \o e
            to == t \o o
<1>1. bm \in Seq(S)
  BY <1>b, <1>m, ConcatProperties
<1>2. z \in Seq(S)
  BY <1>l, <1>t, ConcatProperties
<1>. HIDE DEF bm, z
<1>3. zb \in Seq(S)
  BY <1>2, <1>b, ConcatProperties
<1>4. o \in Seq(S)
  BY <1>1, <1>e, ConcatProperties
<1>. HIDE DEF zb, o
<1>5. to \in Seq(S)
  BY <1>4, <1>t, ConcatProperties
<1>6. zb \o m \in Seq(S)
  BY <1>3, <1>m, ConcatProperties
<1>. HIDE DEF to
<1>7. zb \o (m \o c) = (zb \o m) \o c
  BY <1>3, <1>m, <1>c, JoinRight
<1>8. l \o (to \o c) = (l \o to) \o c
  BY <1>5, <1>l, <1>c, JoinRight
<1>9. l \o to = z \o o
  BY <1>4, <1>l, <1>t, JoinRight DEF to, z
<1>10. z \o o = (z \o bm) \o e
  BY <1>1, <1>2, <1>e, JoinRight DEF o
<1>11. z \o bm = zb \o m
  BY <1>2, <1>b, <1>m, JoinRight DEF bm, zb
<1>12. l \o (to \o c) = ((zb \o m) \o e) \o c
  BY <1>8, <1>9, <1>10, <1>11
<1>. QED  BY <1>6, <1>7, <1>12 DEF Regroups, to, o, bm, z, zb

\* A field appends itself and its comma.
LEMMA InsideType ==
  ASSUME NEW p \in Pack, p.base # << >> => p.info,
         NEW i \in 0 .. Len(p.records), NEW j \in 1 .. Width(p, i) + 1
  PROVE  /\ Inside(p, i, j) \in Seq(CellsOf(p))
         /\ j <= Width(p, i) =>
              Inside(p, i, j + 1) = Append(Append(Inside(p, i, j), <<i, j>>), Mark("comma"))
<1>. DEFINE A == CellsOf(p)
            n == IF i = 0 THEN 0 ELSE i - 1
            s == Opened(p, n) \o <<Mark("lbrace")>>
            b == Before(p, i, j)
<1>0. Len(p.records) \in Nat /\ Width(p, i) \in Nat
  BY PackLengths
<1>1. n \in 0 .. Len(p.records)
  BY <1>0
<1>2. Opened(p, n) \in Seq(A) /\ Opened(p, 0) \in Seq(A)
  BY <1>0, <1>1, OpenedType
<1>3. s \in Seq(A)
  BY <1>2, BytesMark, AreMarks
<1>4. b \in Seq(A) /\ Ended(b) \in Seq(A)
  BY BeforeType, EndedCells, AreCells
<1>5. Inside(p, i, j) \in Seq(A)
  BY <1>2, <1>3, <1>4, ConcatProperties DEF Inside
<1>6. ASSUME j <= Width(p, i)
      PROVE  Inside(p, i, j + 1) = Append(Append(Inside(p, i, j), <<i, j>>), Mark("comma"))
  <2>1. i = 0 => p.info
    <3>1. i = 0 => Len(p.base) # 0
      BY <1>6 DEF Width
    <3>. QED  BY <3>1, EmptySeq
  <2>2. Inside(p, i, j) = s \o Ended(b) /\ Inside(p, i, j + 1) = s \o Ended(Before(p, i, j + 1))
    BY <2>1 DEF Inside
  <2>3. Before(p, i, j + 1) = Append(b, <<i, j>>) /\ <<i, j>> \in A /\ Mark("comma") \in A
    BY <1>6, BeforeType, AreCells
  <2>4. Ended(Before(p, i, j + 1)) = Append(Append(Ended(b), <<i, j>>), Mark("comma"))
    BY <1>4, <2>3, EndedAppend, AreCells
  <2>. HIDE DEF s, b, A
  <2>5. s \o Append(Append(Ended(b), <<i, j>>), Mark("comma"))
          = Append(Append(s \o Ended(b), <<i, j>>), Mark("comma"))
    <3>. DEFINE u == Append(Ended(b), <<i, j>>)
    <3>0. Ended(b) \in Seq(A) /\ <<i, j>> \in A
      BY <1>4, <2>3
    <3>1. u \in Seq(A) /\ s \o u = Append(s \o Ended(b), <<i, j>>)
      BY <1>3, <3>0, ConcatAppend
    <3>2. u \in Seq(A) /\ Mark("comma") \in A
      BY <2>3, <3>1
    <3>. HIDE DEF u
    <3>3. s \o Append(u, Mark("comma")) = Append(s \o u, Mark("comma"))
      BY <1>3, <3>2, ConcatAppend
    <3>. QED  BY <3>1, <3>3 DEF u
  <2>. QED  BY <2>2, <2>4, <2>5
<1>. QED  BY <1>5, <1>6

\* No field comes before the first but the base information before that of the
\* first record.
LEMMA BeforeEmpty ==
  ASSUME NEW p \in Pack, p.base # << >> => p.info
  PROVE  /\ Before(p, 0, 1) = << >>
         /\ Len(p.records) > 0 => Before(p, 1, 1) = Before(p, 0, Len(p.base) + 1)
         /\ \A i \in 1 .. Len(p.records) : ~(i = 1 /\ p.info) => Before(p, i, 1) = << >>
<1>. DEFINE b == Len(p.base)
<1>0. b \in Nat /\ Len(p.records) \in Nat /\ \A i \in 1 .. Len(p.records) : Len(p.records[i]) \in Nat
  BY PackLengths
<1>1. Before(p, 0, 1) = << >>
  <2>1. /\ Before(p, 0, 1) \in Seq(CellsOf(p)) /\ Before(p, 0, 1) = [m \in 1 .. 0 |-> <<0, m>>]
    <3>1. 0 \in 0 .. Len(p.records) /\ 1 \in 1 .. Width(p, 0) + 1
      BY <1>0 DEF Width
    <3>. QED  BY <3>1, BeforeType DEF Before
  <2>. QED  BY <2>1
<1>2. Len(p.records) > 0 => Before(p, 1, 1) = Before(p, 0, b + 1)
  <2>1. Before(p, 1, 1) = [j \in 1 .. b + 0 |-> IF j <= b THEN <<0, j>> ELSE <<1, j - b>>]
    BY DEF Before, Members
  <2>2. Before(p, 0, b + 1) = [j \in 1 .. b |-> <<0, j>>]
    BY <1>0 DEF Before
  <2>3. \A j \in 1 .. b : j <= b
    BY <1>0
  <2>4. b + 0 = b
    BY <1>0
  <2>. QED  BY <2>1, <2>2, <2>3, <2>4
<1>3. ASSUME NEW i \in 1 .. Len(p.records), ~(i = 1 /\ p.info) PROVE Before(p, i, 1) = << >>
  <2>1. Before(p, i, 1) = Members(p, i, 0)
    BY DEF Before
  <2>2. /\ Members(p, i, 0) \in Seq(CellsOf(p))
        /\ Len(Members(p, i, 0)) = (IF i = 1 THEN b ELSE 0) + 0
    <3>1. 0 \in 0 .. Len(p.records[i])
      BY <1>0
    <3>. QED  BY <3>1, MembersType
  <2>3. i = 1 => b = 0
    BY <1>3, EmptySeq
  <2>4. Len(Members(p, i, 0)) = 0
    BY <2>2, <2>3
  <2>. QED  BY <2>1, <2>2, <2>4, EmptySeq
<1>. QED  BY <1>1, <1>2, <1>3

\* Where a record's object begins.
LEMMA InsideStarts ==
  ASSUME NEW p \in Pack, p.base # << >> => p.info
  PROVE  /\ Inside(p, 0, 1) =
              IF p.info THEN Append(Append(<< >>, Mark("lbracket")), Mark("lbrace"))
                        ELSE Append(<< >>, Mark("lbracket"))
         /\ \A i \in 1 .. Len(p.records) :
              /\ Waiting(p, i) \in Seq(CellsOf(p))
              /\ Inside(p, i, 1) = IF i = 1 /\ p.info THEN Waiting(p, i)
                                                     ELSE Append(Waiting(p, i), Mark("lbrace"))
<1>. DEFINE A == CellsOf(p)
            L == <<Mark("lbracket")>>
<1>0. Len(p.records) \in Nat /\ Len(p.base) \in Nat /\ Width(p, 0) = Len(p.base)
  BY PackLengths DEF Width
<1>1. Mark("lbrace") \in A /\ Mark("lbracket") \in A /\ L \in Seq(A)
  BY AreCells
<1>2. Opened(p, 0) = L
  <2>1. Trailing(Objects(p)[0]) = << >>
    BY ObjectsAre DEF Trailing
  <2>. QED  BY <1>1, <2>1, ConcatEmptySeq DEF Opened
<1>3. L = Append(<< >>, Mark("lbracket"))
  OBVIOUS
<1>4. \A s \in Seq(A) : s \o <<Mark("lbrace")>> = Append(s, Mark("lbrace"))
  BY <1>1, AppendIsConcat
<1>5. \A s \in Seq(A) : (s \o <<Mark("lbrace")>>) \o << >> = Append(s, Mark("lbrace"))
  BY <1>1, <1>4, AppendProperties, ConcatEmptySeq
<1>6. Ended(<< >>) = << >>
  BY EndedCells, AreCells, EmptySeq
<1>7. Before(p, 0, 1) = << >>
  BY BeforeEmpty
<1>8. Inside(p, 0, 1) = IF p.info THEN Append(L, Mark("lbrace")) ELSE L
  BY <1>1, <1>2, <1>5, <1>6, <1>7 DEF Inside
<1>9. ASSUME NEW i \in 1 .. Len(p.records)
      PROVE  /\ Waiting(p, i) \in Seq(A)
             /\ Inside(p, i, 1) = IF i = 1 /\ p.info THEN Waiting(p, i)
                                                    ELSE Append(Waiting(p, i), Mark("lbrace"))
  <2>1. i - 1 \in 0 .. Len(p.records) /\ Opened(p, i - 1) \in Seq(A)
    BY <1>0, OpenedType
  <2>2. Inside(p, i, 1) = Opened(p, i - 1) \o <<Mark("lbrace")>> \o Ended(Before(p, i, 1))
    BY DEF Inside
  <2>3. CASE i = 1 /\ p.info
    <3>1. Before(p, 1, 1) = Before(p, 0, Len(p.base) + 1)
      BY <2>3, BeforeEmpty
    <3>2. Waiting(p, i) = Inside(p, i, 1)
      BY <2>2, <2>3, <3>1 DEF Waiting, Inside
    <3>3. 0 \in 0 .. Len(p.records) /\ Len(p.base) + 1 \in 1 .. Width(p, 0) + 1
      BY <1>0
    <3>4. Waiting(p, i) \in Seq(A)
      BY <2>3, <3>3, InsideType DEF Waiting
    <3>. QED  BY <2>3, <3>2, <3>4
  <2>4. CASE ~(i = 1 /\ p.info)
    <3>1. Before(p, i, 1) = << >>
      BY <2>4, BeforeEmpty
    <3>2. Waiting(p, i) = Opened(p, i - 1)
      BY <2>4 DEF Waiting
    <3>. QED  BY <1>5, <1>6, <2>1, <2>2, <2>4, <3>1, <3>2
  <2>. QED  BY <2>3, <2>4
<1>. QED  BY <1>3, <1>8, <1>9

\* The comma of the last field gives way to the object's end and a comma.
LEMMA RecordEnds ==
  ASSUME NEW p \in Pack, NEW i \in 1 .. Len(p.records), p.records[i] # << >>
  PROVE  \E s \in Seq(CellsOf(p)) :
           /\ Inside(p, i, Len(p.records[i]) + 1) = s \o <<Mark("comma")>>
           /\ Opened(p, i) = (s \o <<Mark("rbrace")>>) \o <<Mark("comma")>>
<1>. DEFINE A == CellsOf(p)
            z == Opened(p, i - 1)
            mem == Members(p, i, Len(p.records[i]))
            B == <<Mark("lbrace")>>
            E == <<Mark("rbrace")>>
            C == <<Mark("comma")>>
            L == <<Mark("lbracket")>>
            T == Trailing(Objects(p)[i - 1])
<1>0. /\ Len(p.records) \in Nat /\ Len(p.records[i]) \in Nat /\ Len(p.records[i]) # 0
      /\ i - 1 \in 0 .. Len(p.records)
  BY PackLengths, EmptySeq
<1>1. B \in Seq(A) /\ E \in Seq(A) /\ C \in Seq(A) /\ L \in Seq(A)
  BY AreCells
<1>2. z \in Seq(A) /\ T \in Seq(A) /\ Objects(p)[i - 1] \in Seq(A)
  BY <1>0, OpenedType, ObjectsAre
<1>3. mem \in Seq(A) /\ mem # << >>
  <2>1. mem \in Seq(A) /\ Len(mem) = (IF i = 1 THEN Len(p.base) ELSE 0) + Len(p.records[i])
    <3>1. Len(p.records[i]) \in 0 .. Len(p.records[i])
      BY <1>0
    <3>. QED  BY <3>1, MembersType
  <2>2. Len(mem) # 0
    <3>. DEFINE w == Len(p.records[i])
                b == IF i = 1 THEN Len(p.base) ELSE 0
    <3>1. b \in Nat /\ w \in Nat /\ w # 0 /\ Len(mem) = b + w
      BY <1>0, <2>1, PackLengths
    <3>. HIDE DEF mem, w, b
    <3>. QED  BY <3>1
  <2>. QED  BY <2>1, <2>2, EmptySeq
<1>4. Commas(mem) \in Seq(A) /\ Ended(mem) = Commas(mem) \o C
  BY <1>3, EndedCells, AreCells
<1>5. Inside(p, i, Len(p.records[i]) + 1) = (z \o B) \o Ended(mem)
  <2>1. i # 0 /\ (Len(p.records[i]) + 1) - 1 = Len(p.records[i])
    BY <1>0
  <2>. QED  BY <2>1 DEF Inside, Before
<1>6. Opened(p, i) = L \o Trailing(WithObject(p, i, Objects(p)[i - 1]))
  BY ObjectsAre DEF Opened
<1>7. /\ WithObject(p, i, Objects(p)[i - 1]) = T \o Object(p, i)
      /\ WithObject(p, i, Objects(p)[i - 1]) # << >>
      /\ Object(p, i) \in Seq(A)
  BY <1>2, WithObjectType
<1>8. Opened(p, i) = L \o ((T \o Object(p, i)) \o C)
  BY <1>6, <1>7 DEF Trailing
<1>9. Object(p, i) = (B \o Commas(mem)) \o E
  BY DEF Object
<1>10. z = L \o T
  BY DEF Opened
<1>. DEFINE m == Commas(mem)
            s == ((L \o T) \o B) \o m
<1>11. m \in Seq(A)
  BY <1>4
<1>. HIDE DEF A, z, B, E, C, L, T, m, mem
<1>12. /\ s \in Seq(A)
       /\ ((L \o T) \o B) \o (m \o C) = s \o C
       /\ L \o ((T \o ((B \o m) \o E)) \o C) = (s \o E) \o C
  <2>1. L \in Seq(A) /\ T \in Seq(A) /\ B \in Seq(A) /\ m \in Seq(A) /\ E \in Seq(A) /\ C \in Seq(A)
    BY <1>1, <1>2, <1>11
  <2>2. Regroups(A, L, T, B, m, E, C)
    BY <2>1, Regroup
  <2>. QED  BY <2>2 DEF Regroups
<1>13. /\ Inside(p, i, Len(p.records[i]) + 1) = s \o C
       /\ Opened(p, i) = (s \o E) \o C
  BY <1>4, <1>5, <1>8, <1>9, <1>10, <1>12 DEF m
<1>. HIDE DEF s
<1>. QED  BY <1>12, <1>13 DEF A, C, E

\* Nothing is left of a record without fields.
LEMMA RecordLeftOut ==
  ASSUME NEW p \in Pack, NEW i \in 1 .. Len(p.records), p.records[i] = << >>
  PROVE  Opened(p, i) = Opened(p, i - 1)
BY ObjectsAre DEF Opened, WithObject

\* The comma of the last object, if there is one, gives way to the array's end.
LEMMA ArrayEnds ==
  ASSUME NEW p \in Pack
  PROVE  LET N == Len(p.records) IN
         \/ /\ Objects(p)[N] = << >>
            /\ Opened(p, N) = <<Mark("lbracket")>>
            /\ Document(p) = Opened(p, N) \o <<Mark("rbracket")>>
            /\ Bytes(p, Opened(p, N)) = 1
         \/ \E s \in Seq(CellsOf(p)) :
              /\ Opened(p, N) = s \o <<Mark("comma")>>
              /\ Document(p) = s \o <<Mark("rbracket")>>
              /\ Bytes(p, s) \in Nat \ {0}
<1>. DEFINE A == CellsOf(p)
            N == Len(p.records)
            L == <<Mark("lbracket")>>
            O == Objects(p)[N]
            C == <<Mark("comma")>>
            R == <<Mark("rbracket")>>
<1>1. N \in 0 .. N /\ O \in Seq(A)
  BY PackLengths, ObjectsAre
<1>2. L \in Seq(A) /\ C \in Seq(A) /\ R \in Seq(A) /\ Bytes(p, L) = 1
  <2>1. Mark("lbracket") \in Marks /\ Mark("lbracket") \in A
    BY AreCells, AreMarks
  <2>. QED  BY <2>1, BytesOne, AreCells DEF CellBytes
<1>3. Document(p) = (L \o O) \o R
  BY DEF Document
<1>4. CASE O = << >>
  <2>1. Opened(p, N) = L /\ L \o O = L
    BY <1>2, <1>4, ConcatEmptySeq DEF Opened, Trailing
  <2>. QED  BY <1>2, <1>3, <1>4, <2>1
<1>5. CASE O # << >>
  <2>1. Opened(p, N) = L \o (O \o C)
    BY <1>5 DEF Opened, Trailing
  <2>. HIDE DEF A, L, O, C, R
  <2>2. L \in Seq(A) /\ O \in Seq(A) /\ C \in Seq(A)
    BY <1>1, <1>2
  <2>4. Opened(p, N) = (L \o O) \o C
    BY <2>1, <2>2, JoinRight
  <2>5. L \o O \in Seq(A)
    BY <2>2, ConcatProperties
  <2>3. Bytes(p, L \o O) = 1 + Bytes(p, O) /\ Bytes(p, O) \in Nat
    BY <1>1, <1>2, BytesConcat, BytesType DEF A
  <2>6. Bytes(p, L \o O) \in Nat \ {0}
    BY <2>3
  <2>. QED  BY <1>3, <2>4, <2>5, <2>6 DEF A, C, R
<1>. QED  BY <1>4, <1>5

\* What the encoder's own invariant says of its pack.
LEMMA PackFacts ==
  ASSUME IInv
  PROVE  /\ pack \in Pack /\ (pack.base # << >> => pack.info)
         /\ len \in Nat /\ Num = Len(pack.records) /\ Num \in Nat
         /\ r \in Nat /\ k \in Nat \ {0} /\ ins_pos \in Nat /\ buf_len \in Int
         /\ r <= Num + 1
         /\ r <= Num => Width(pack, r) = Len(Fields) /\ Len(Fields) \in Nat
<1>1. /\ TypeOK
      /\ pack \in Pack /\ (pack.base # << >> => pack.info) /\ len \in Nat
  BY PacksAssumption, RoomsAssumption DEF PacksAssumption, RoomsAssumption, IInv, TypeOK
<1>2. Num = Len(pack.records) /\ Num \in Nat
  BY <1>1, PackLengths DEF Num
<1>3. r <= Num => Width(pack, r) = Len(Fields) /\ Len(Fields) \in Nat
  BY <1>1, <1>2, PackLengths DEF Width, Fields, TypeOK
<1>. QED  BY <1>1, <1>2, <1>3 DEF TypeOK

\* A mark appended.
LEMMA AppendMark ==
  ASSUME NEW p \in Pack, NEW s \in Seq(CellsOf(p)), NEW x \in {"lbracket", "lbrace", "comma", "rbrace", "rbracket"}
  PROVE  /\ Append(s, Mark(x)) \in Seq(CellsOf(p))
         /\ Append(s, Mark(x)) = s \o <<Mark(x)>>
         /\ Bytes(p, Append(s, Mark(x))) = Bytes(p, s) + 1
         /\ Bytes(p, s) \in Nat
<1>1. Mark(x) \in Marks /\ Mark(x) \in CellsOf(p)
  BY AreMarks, AreCells
<1>2. Append(s, Mark(x)) = s \o <<Mark(x)>>
  BY <1>1, AppendIsConcat
<1>. QED  BY <1>1, <1>2, BytesMark, BytesType

\* A field and its comma appended.
LEMMA AppendField ==
  ASSUME NEW p \in Pack, NEW s \in Seq(CellsOf(p)),
         NEW i \in 0 .. Len(p.records), NEW j \in 1 .. Width(p, i)
  PROVE  LET size == (IF i = 0 THEN p.base ELSE p.records[i])[j] IN
         /\ size \in Nat /\ size > 1
         /\ Append(Append(s, <<i, j>>), Mark("comma")) \in Seq(CellsOf(p))
         /\ Bytes(p, Append(Append(s, <<i, j>>), Mark("comma"))) = Bytes(p, s) + size
<1>. DEFINE size == (IF i = 0 THEN p.base ELSE p.records[i])[j]
            t == Append(s, <<i, j>>)
<1>1. <<i, j>> \in CellsOf(p)
  BY AreCells
<1>2. size \in Size
  <2>1. p.base \in Seq(Size)
    BY DEF Pack
  <2>2. i # 0 => p.records[i] \in Seq(Size)
    BY PackLengths
  <2>. QED  BY <2>1, <2>2 DEF Width
<1>3. <<i, j>> \notin Marks
  BY DEF Marks, Mark
<1>4. CellBytes(p, <<i, j>>) = size - 1
  BY <1>3 DEF CellBytes
<1>5. t = s \o <<<<i, j>>>> /\ t \in Seq(CellsOf(p))
  BY <1>1, AppendIsConcat, AppendProperties
<1>6. <<<<i, j>>>> \in Seq(CellsOf(p)) /\ Bytes(p, <<<<i, j>>>>) = size - 1
  BY <1>1, <1>4, BytesOne
<1>7. Bytes(p, t) = Bytes(p, s) + (size - 1)
  BY <1>5, <1>6, BytesConcat
<1>. HIDE DEF t
<1>8. /\ Append(t, Mark("comma")) \in Seq(CellsOf(p))
      /\ Bytes(p, Append(t, Mark("comma"))) = Bytes(p, t) + 1
  BY <1>5, AppendMark
<1>9. size \in Nat /\ size > 1 /\ Bytes(p, s) \in Nat
  BY <1>2, BytesType DEF Size
<1>. HIDE DEF size
<1>10. Bytes(p, Append(t, Mark("comma"))) = Bytes(p, s) + size
  BY <1>7, <1>8, <1>9
<1>. QED  BY <1>8, <1>9, <1>10 DEF t, size

\* What is written is cells of the pack, and the fields that come next are a record's.
LEMMA OutIsCells ==
  ASSUME IInv, SoFar
  PROVE  pc \in {"open", "fields", "record"} => out \in Seq(CellsOf(pack))
<1>1. TypeOK /\ Place
  BY DEF IInv
<1>2. CASE pc = "open"
  BY <1>2, EmptySeq DEF SoFar
<1>3. CASE pc = "fields"
  <2>1. r \in 0 .. Len(pack.records) /\ k \in 1 .. Width(pack, r) + 1
    BY <1>1, <1>3, PackFacts DEF Place
  <2>. QED  BY <1>3, <2>1, InsideType, PackFacts DEF SoFar
<1>4. CASE pc = "record"
  <2>1. r > 0 /\ Num > 0 /\ Num \in Nat /\ Num = Len(pack.records) /\ r \in Nat /\ r <= Num + 1
    BY <1>1, <1>4, PackFacts DEF Place, SoFar
  <2>2. out = Waiting(pack, r)
    BY <1>4 DEF SoFar
  <2>3. CASE r <= Num
    <3>1. r \in 1 .. Len(pack.records)
      BY <2>1, <2>3
    <3>. QED  BY <2>2, <3>1, InsideStarts, PackFacts
  <2>4. CASE r = Num + 1
    <3>1. r # 1 /\ r - 1 \in 0 .. Len(pack.records)
      BY <2>1, <2>4
    <3>. QED  BY <2>2, <3>1, OpenedType, PackFacts DEF Waiting
  <2>. QED  BY <2>1, <2>3, <2>4
<1>. QED  BY <1>2, <1>3, <1>4

\* The bracket, and the brace if there is base information.
LEMMA OpenSoFar ==
  ASSUME IInv, SoFar, Open
  PROVE  SoFar'
<1>1. pack \in Pack /\ (pack.base # << >> => pack.info)
  BY PackFacts
<1>2. /\ pc = "open" /\ pc' = "fields" /\ pack' = pack /\ r' = r /\ k' = k /\ brace' = ~pack.info
      /\ r = 0 /\ k = 1 /\ out = << >> /\ ins_pos = 0
  BY DEF Open, Goto, input, IInv, Place, Room, SoFar
<1>. DEFINE s == Append(<< >>, Mark("lbracket"))
<1>3. << >> \in Seq(CellsOf(pack)) /\ Bytes(pack, << >>) = 0
  BY <1>1, BytesType, EmptySeq
<1>4. s \in Seq(CellsOf(pack)) /\ Bytes(pack, s) = 1
  <2>. DEFINE none == << >>
  <2>1. none \in Seq(CellsOf(pack)) /\ Bytes(pack, none) = 0 /\ s = Append(none, Mark("lbracket"))
    BY <1>3
  <2>. HIDE DEF none, s
  <2>. QED  BY <1>1, <2>1, AppendMark
<1>5. Bytes(pack, Append(s, Mark("lbrace"))) = 2
  <2>. HIDE DEF s
  <2>. QED  BY <1>1, <1>4, AppendMark
<1>6. out' = Inside(pack, 0, 1) /\ ins_pos' = Bytes(pack, out')
  <2>1. out' = IF pack.info THEN Append(s, Mark("lbrace")) ELSE s
    BY <1>2 DEF Open
  <2>2. ins_pos' = IF pack.info THEN 2 ELSE 1
    BY <1>2 DEF Open, Insert
  <2>3. Inside(pack, 0, 1) = IF pack.info THEN Append(s, Mark("lbrace")) ELSE s
    BY <1>1, InsideStarts
  <2>. HIDE DEF s
  <2>. QED  BY <1>4, <1>5, <2>1, <2>2, <2>3
<1>. QED  BY <1>2, <1>6 DEF SoFar

\* The next field.
LEMMA WriteFieldSoFar ==
  ASSUME IInv, SoFar, WriteField
  PROVE  SoFar'
<1>1. pack \in Pack /\ (pack.base # << >> => pack.info)
  BY PackFacts
<1>2. pc = "fields" /\ r <= Num /\ k <= Len(Fields) /\ out = Inside(pack, r, k) /\ ins_pos = Bytes(pack, out)
  BY DEF WriteField, IInv, Place, SoFar
<1>3. /\ r \in 0 .. Len(pack.records) /\ k \in 1 .. Width(pack, r) /\ k \in 1 .. Width(pack, r) + 1
      /\ k <= Width(pack, r)
  BY <1>2, PackFacts
<1>4. pack' = pack /\ r' = r /\ brace' = brace
  BY DEF WriteField, input
<1>5. CASE Fields[k] >= buf_len
  <2>1. pc' = "failed"
    BY <1>5 DEF WriteField, Fail
  <2>. QED  BY <2>1 DEF SoFar
<1>6. CASE ~(Fields[k] >= buf_len)
  <2>1. /\ out' = Append(Append(out, <<r, k>>), Mark("comma")) /\ ins_pos' = ins_pos + Fields[k]
        /\ k' = k + 1 /\ pc' = pc
    BY <1>6 DEF WriteField, Insert
  <2>2. out' = Inside(pack, r, k + 1)
    BY <1>1, <1>2, <1>3, <2>1, InsideType
  <2>3. out \in Seq(CellsOf(pack))
    BY <1>2, OutIsCells
  <2>4. Bytes(pack, out') = Bytes(pack, out) + Fields[k]
    BY <1>1, <1>3, <2>1, <2>3, AppendField DEF Fields
  <2>. QED  BY <1>2, <1>4, <2>1, <2>2, <2>4 DEF SoFar
<1>. QED  BY <1>5, <1>6

\* The empty document.
LEMMA NoRecordsSoFar ==
  ASSUME IInv, Proper(pack), SoFar, NoRecords
  PROVE  SoFar'
<1>1. pack \in Pack /\ (pack.base # << >> => pack.info)
  BY PackFacts
<1>2. pc = "fields" /\ r = 0 /\ Num = 0 /\ out = Inside(pack, r, k) /\ ins_pos = Bytes(pack, out)
  BY DEF NoRecords, BaseDone, SoFar
<1>3. ~pack.info /\ Len(pack.records) = 0
  <2>1. pack.records \in Seq(Seq(Size)) /\ Len(pack.records) = 0
    BY <1>1, <1>2 DEF Num, Pack
  <2>. QED  BY <2>1, EmptySeq DEF Proper
<1>4. out = Opened(pack, 0) /\ Objects(pack)[0] = << >>
  BY <1>1, <1>2, <1>3, ObjectsAre DEF Inside
<1>5. Opened(pack, 0) = <<Mark("lbracket")>>
  BY <1>1, <1>4, AreCells, ConcatEmptySeq DEF Opened, Trailing
<1>6. out \in Seq(CellsOf(pack))
  BY <1>2, OutIsCells
<1>7. pack' = pack
  BY DEF NoRecords, input
<1>8. CASE ins_pos = 1
  <2>1. pc' = "done" /\ out' = Append(out, Mark("rbracket")) /\ ins_pos' = ins_pos + 2
    BY <1>8 DEF NoRecords, Insert
  <2>2. out' = out \o <<Mark("rbracket")>> /\ Bytes(pack, out') = Bytes(pack, out) + 1
    BY <1>1, <1>6, <2>1, AppendMark
  <2>3. Document(pack) = (<<Mark("lbracket")>> \o Objects(pack)[0]) \o <<Mark("rbracket")>>
    BY <1>3 DEF Document
  <2>4. <<Mark("lbracket")>> \o Objects(pack)[0] = <<Mark("lbracket")>>
    BY <1>1, <1>4, AreCells, ConcatEmptySeq
  <2>5. out' = Document(pack)
    BY <1>4, <1>5, <2>2, <2>3, <2>4
  <2>6. ins_pos' = Bytes(pack, Document(pack)) + 1
    <3>1. Bytes(pack, out') = 2 /\ ins_pos' = 3
      BY <1>2, <1>8, <2>1, <2>2
    <3>. QED  BY <2>5, <3>1
  <2>. QED  BY <1>7, <2>1, <2>5, <2>6 DEF SoFar
<1>9. CASE ins_pos # 1
  <2>1. pc' = "failed"
    BY <1>9 DEF NoRecords, Fail
  <2>. QED  BY <2>1 DEF SoFar
<1>. QED  BY <1>8, <1>9

\* The base information is there; the records are next.
LEMMA ReserveNulSoFar ==
  ASSUME IInv, SoFar, ReserveNul
  PROVE  SoFar'
<1>1. pc = "fields" /\ r = 0 /\ Num > 0 /\ k > Len(Fields) /\ k <= Len(Fields) + 1
  BY DEF ReserveNul, BaseDone, IInv, Place
<1>2. k = Len(pack.base) + 1
  BY <1>1, PackFacts DEF Fields
<1>3. pack' = pack /\ brace' = brace /\ out' = out /\ ins_pos' = ins_pos
  BY DEF ReserveNul, input, Fail
<1>4. Waiting(pack, 1) = out
  BY <1>1, <1>2 DEF SoFar, Waiting, Inside
<1>5. \/ pc' = "failed"
      \/ pc' = "record" /\ r' = 1
  BY DEF ReserveNul, Fail
<1>6. Num' = Num
  BY <1>3 DEF Num
<1>. QED  BY <1>1, <1>3, <1>4, <1>5, <1>6 DEF SoFar

\* The brace of the next record, unless it is the first and the base information has it.
LEMMA OpenRecordSoFar ==
  ASSUME IInv, SoFar, OpenRecord
  PROVE  SoFar'
<1>1. pack \in Pack /\ (pack.base # << >> => pack.info)
  BY PackFacts
<1>2. /\ pc = "record" /\ pc' = "fields" /\ r > 0 /\ r <= Num /\ out = Waiting(pack, r)
      /\ brace = ~(pack.info /\ r <= 1) /\ ins_pos = Bytes(pack, out)
      /\ pack' = pack /\ r' = r /\ k' = 1 /\ brace' = brace
  BY DEF OpenRecord, Goto, IInv, Place, SoFar, input
<1>3. r \in 1 .. Len(pack.records) /\ (r <= 1 <=> r = 1)
  BY <1>2, PackFacts
<1>4. out \in Seq(CellsOf(pack))
  BY <1>2, OutIsCells
<1>5. CASE brace
  <2>1. out' = Append(out, Mark("lbrace")) /\ ins_pos' = ins_pos + 1
    BY <1>5 DEF OpenRecord, Insert
  <2>2. Inside(pack, r, 1) = out'
    BY <1>1, <1>2, <1>3, <1>5, <2>1, InsideStarts
  <2>3. Bytes(pack, out') = Bytes(pack, out) + 1
    BY <1>1, <1>4, <2>1, AppendMark
  <2>. QED  BY <1>2, <2>1, <2>2, <2>3 DEF SoFar
<1>6. CASE ~brace
  <2>1. out' = out /\ ins_pos' = ins_pos
    BY <1>6 DEF OpenRecord
  <2>2. Inside(pack, r, 1) = out
    BY <1>1, <1>2, <1>3, <1>6, InsideStarts
  <2>. QED  BY <1>2, <2>1, <2>2 DEF SoFar
<1>. QED  BY <1>5, <1>6

\* The last cell and its byte taken back.
LEMMA ButMark ==
  ASSUME NEW p \in Pack, NEW s \in Seq(CellsOf(p)), NEW x \in {"lbracket", "lbrace", "comma", "rbrace", "rbracket"}
  PROVE  LET t == s \o <<Mark(x)>> IN
         But(t) = s /\ t # << >> /\ t[Len(t)] = Mark(x) /\ Bytes(p, t) = Bytes(p, s) + 1
<1>1. Mark(x) \in CellsOf(p) /\ Mark(x) \in Marks
  BY AreCells, AreMarks
<1>. QED  BY <1>1, TakenBack, BytesMark

\* A record without fields leaves nothing behind.
LEMMA DropRecordSoFar ==
  ASSUME IInv, Proper(pack), SoFar, DropRecord
  PROVE  SoFar'
<1>1. pack \in Pack /\ (pack.base # << >> => pack.info) /\ Num \in Nat
  BY PackFacts
<1>2. /\ pc = "fields" /\ r > 0 /\ r <= Num /\ Fields = << >> /\ k > Len(Fields) /\ k <= Len(Fields) + 1
      /\ out = Inside(pack, r, k) /\ brace = ~(pack.info /\ r <= 1) /\ ins_pos = Bytes(pack, out)
  BY DEF DropRecord, RecordDone, IInv, Place, SoFar
<1>3. r \in 1 .. Len(pack.records) /\ pack.records[r] = << >> /\ k = 1
  BY <1>2, PackFacts, EmptySeq DEF Fields
<1>4. ~(r = 1 /\ pack.info) /\ ~(pack.info /\ r <= 1)
  BY <1>3 DEF Proper
<1>. DEFINE s == Waiting(pack, r)
<1>5. s \in Seq(CellsOf(pack)) /\ out = Append(s, Mark("lbrace"))
  BY <1>1, <1>2, <1>3, <1>4, InsideStarts
<1>6. s = Opened(pack, r - 1) /\ Waiting(pack, r + 1) = Opened(pack, r)
  <2>1. r + 1 # 1 /\ (r + 1) - 1 = r
    BY <1>3
  <2>. QED  BY <1>4, <2>1 DEF Waiting
<1>7. s = Waiting(pack, r + 1)
  BY <1>1, <1>3, <1>6, RecordLeftOut
<1>. HIDE DEF s
<1>8. out = s \o <<Mark("lbrace")>> /\ Bytes(pack, s) \in Nat
  BY <1>1, <1>5, AppendMark
<1>9. But(out) = s /\ EndsIn("lbrace") /\ Bytes(pack, out) = Bytes(pack, s) + 1
  BY <1>1, <1>5, <1>8, ButMark DEF EndsIn
<1>10. /\ out' = s /\ ins_pos' = ins_pos + (-1) /\ brace' = brace
       /\ pc' = "record" /\ r' = r + 1 /\ pack' = pack
  BY <1>9 DEF DropRecord, Insert, input
<1>11. ins_pos' = Bytes(pack, s) /\ ~(r + 1 <= 1) /\ Num' > 0
  BY <1>1, <1>2, <1>3, <1>8, <1>9, <1>10 DEF Num
<1>. QED  BY <1>2, <1>4, <1>7, <1>10, <1>11 DEF SoFar

\* A record with fields is closed.
LEMMA CloseRecordSoFar ==
  ASSUME IInv, SoFar, CloseRecord
  PROVE  SoFar'
<1>1. pack \in Pack /\ (pack.base # << >> => pack.info) /\ Num \in Nat
  BY PackFacts
<1>2. /\ pc = "fields" /\ r > 0 /\ r <= Num /\ Fields # << >> /\ k > Len(Fields) /\ k <= Len(Fields) + 1
      /\ out = Inside(pack, r, k) /\ ins_pos = Bytes(pack, out)
  BY DEF CloseRecord, RecordDone, IInv, Place, SoFar
<1>3. r \in 1 .. Len(pack.records) /\ pack.records[r] # << >> /\ k = Len(pack.records[r]) + 1
  BY <1>2, PackFacts DEF Fields
<1>4. PICK s \in Seq(CellsOf(pack)) :
        /\ Inside(pack, r, k) = s \o <<Mark("comma")>>
        /\ Opened(pack, r) = (s \o <<Mark("rbrace")>>) \o <<Mark("comma")>>
  BY <1>1, <1>3, RecordEnds
<1>5. But(out) = s /\ Bytes(pack, out) = Bytes(pack, s) + 1
  BY <1>1, <1>2, <1>4, ButMark
<1>. DEFINE t == Append(s, Mark("rbrace"))
<1>6. t \in Seq(CellsOf(pack)) /\ t = s \o <<Mark("rbrace")>> /\ Bytes(pack, t) = Bytes(pack, s) + 1 /\ Bytes(pack, s) \in Nat
  BY <1>1, AppendMark
<1>7. out' = Append(t, Mark("comma")) /\ ins_pos' = ins_pos + 1 /\ brace' = TRUE /\ pack' = pack
  BY <1>5 DEF CloseRecord, Insert, input
<1>. HIDE DEF t
<1>8. out' = t \o <<Mark("comma")>> /\ Bytes(pack, out') = Bytes(pack, t) + 1
  BY <1>1, <1>6, <1>7, AppendMark
<1>9. out' = Waiting(pack, r + 1) /\ ins_pos' = Bytes(pack, out')
  <2>1. r + 1 # 1 /\ (r + 1) - 1 = r
    BY <1>3
  <2>. QED  BY <1>2, <1>4, <1>5, <1>6, <1>7, <1>8, <2>1 DEF Waiting
<1>10. \/ pc' = "failed"
       \/ pc' = "record" /\ r' = r + 1
  BY DEF CloseRecord
<1>11. ~(r + 1 <= 1) /\ Num' > 0
  BY <1>1, <1>2, <1>3, <1>7 DEF Num
<1>. QED  BY <1>7, <1>9, <1>10, <1>11 DEF SoFar

\* The array is closed.
LEMMA CloseArraySoFar ==
  ASSUME IInv, SoFar, CloseArray
  PROVE  SoFar'
<1>1. pack \in Pack /\ Num \in Nat /\ Num = Len(pack.records)
  BY PackFacts
<1>2. /\ pc = "record" /\ r > Num /\ Num > 0 /\ out = Waiting(pack, r) /\ ins_pos = Bytes(pack, out)
  BY DEF CloseArray, SoFar
<1>3. r = Num + 1 /\ r # 1 /\ r - 1 = Num
  BY <1>2, PackFacts
<1>4. out = Opened(pack, Num) /\ out \in Seq(CellsOf(pack))
  BY <1>2, <1>3, OutIsCells DEF Waiting
<1>5. pack' = pack
  BY DEF CloseArray, input
<1>6. CASE ins_pos + 1 = after_bi
  <2>1. pc' = "failed"
    BY <1>6 DEF CloseArray, Fail
  <2>. QED  BY <2>1 DEF SoFar
<1>7. CASE ins_pos + 1 # after_bi
  <2>1. /\ pc' = "done"
        /\ out' = Append(IF ins_pos > 1 THEN But(out) ELSE out, Mark("rbracket"))
        /\ ins_pos' = IF ins_pos > 1 THEN ins_pos - 1 + 2 ELSE ins_pos + 2
    BY <1>7 DEF CloseArray
  <2>2. CASE Document(pack) = Opened(pack, Num) \o <<Mark("rbracket")>> /\ Bytes(pack, Opened(pack, Num)) = 1
    <3>0. ins_pos = 1 /\ ~(ins_pos > 1)
      BY <1>2, <1>4, <2>2
    <3>1. out' = Append(out, Mark("rbracket")) /\ ins_pos' = 3
      BY <2>1, <3>0
    <3>2. out' = Document(pack) /\ Bytes(pack, out') = 2
      BY <1>1, <1>4, <2>2, <3>1, AppendMark
    <3>. QED  BY <1>5, <2>1, <3>1, <3>2 DEF SoFar
  <2>3. ASSUME NEW s \in Seq(CellsOf(pack)),
               Opened(pack, Num) = s \o <<Mark("comma")>>,
               Document(pack) = s \o <<Mark("rbracket")>>,
               Bytes(pack, s) \in Nat \ {0}
        PROVE  SoFar'
    <3>0. out = s \o <<Mark("comma")>>
      BY <1>4, <2>3
    <3>1. But(out) = s /\ ins_pos = Bytes(pack, s) + 1
      BY <1>1, <1>2, <2>3, <3>0, ButMark
    <3>2. out' = Append(s, Mark("rbracket")) /\ ins_pos' = Bytes(pack, s) + 2
      BY <2>1, <2>3, <3>1
    <3>3. out' = Document(pack) /\ Bytes(pack, out') = Bytes(pack, s) + 1
      BY <1>1, <2>3, <3>2, AppendMark
    <3>4. ins_pos' = Bytes(pack, Document(pack)) + 1
      <4>1. Bytes(pack, s) + 2 = (Bytes(pack, s) + 1) + 1
        BY <2>3
      <4>2. Bytes(pack, out') = Bytes(pack, s) + 1 /\ out' = Document(pack)
        BY <3>3
      <4>3. ins_pos' = Bytes(pack, out') + 1
        BY <3>2, <4>1, <4>2
      <4>. QED  BY <4>2, <4>3
    <3>. QED  BY <1>5, <2>1, <3>3, <3>4 DEF SoFar
  <2>. QED  BY <1>1, <2>2, <2>3, ArrayEnds
<1>. QED  BY <1>6, <1>7

\* What is written stays the beginning of the document.
LEMMA SoFarStep ==
  ASSUME IInv, [Next]_vars, Proper(pack), SoFar
  PROVE  SoFar'
<1>1. CASE TooShort
  <2>1. pc' = "failed"
    BY <1>1 DEF TooShort, Fail
  <2>. QED  BY <2>1 DEF SoFar
<1>2. CASE UNCHANGED vars
  BY <1>2 DEF vars, SoFar, Num
<1>. QED
  BY <1>1, <1>2, OpenSoFar, WriteFieldSoFar, NoRecordsSoFar, ReserveNulSoFar, OpenRecordSoFar,
     DropRecordSoFar, CloseRecordSoFar, CloseArraySoFar DEF Next

----------------------------------------------------------------------------
(* How long the document is.                                               *)

\* What is written of an object up to a field is part of the object.
LEMMA InsideGrows ==
  ASSUME NEW p \in Pack, p.base # << >> => p.info, NEW i \in 0 .. Len(p.records)
  PROVE  LET w == Width(p, i) IN
         /\ \A j \in 1 .. w + 1 :
              /\ Bytes(p, Inside(p, i, j)) \in Nat
              /\ Bytes(p, Inside(p, i, j)) <= Bytes(p, Inside(p, i, w + 1))
         /\ w > 0 => Bytes(p, Inside(p, i, 1)) + 2 <= Bytes(p, Inside(p, i, w + 1))
<1>. DEFINE w == Width(p, i)
            B(j) == Bytes(p, Inside(p, i, j))
            S == {d \in Nat : d <= w => B(w + 1 - d) <= B(w + 1)}
<1>1. w \in Nat
  BY PackLengths
<1>2. ASSUME NEW j \in 1 .. w + 1 PROVE B(j) \in Nat
  BY InsideType, BytesType
<1>3. ASSUME NEW j \in 1 .. w PROVE B(j) + 2 <= B(j + 1)
  <2>1. j \in 1 .. w + 1 /\ j <= w
    BY <1>1
  <2>2. /\ Inside(p, i, j) \in Seq(CellsOf(p))
        /\ Inside(p, i, j + 1) = Append(Append(Inside(p, i, j), <<i, j>>), Mark("comma"))
    BY <2>1, InsideType
  <2>. DEFINE size == (IF i = 0 THEN p.base ELSE p.records[i])[j]
  <2>3. size \in Nat /\ size > 1 /\ B(j + 1) = B(j) + size
    <3>. DEFINE s == Inside(p, i, j)
                t == Append(Append(s, <<i, j>>), Mark("comma"))
    <3>1. size \in Nat /\ size > 1 /\ Bytes(p, t) = Bytes(p, s) + size
      <4>. HIDE DEF s
      <4>. QED  BY <2>2, AppendField DEF s
    <3>. QED  BY <2>2, <3>1
  <2>4. B(j) \in Nat
    BY <1>2, <2>1
  <2>. HIDE DEF B, size
  <2>. QED  BY <2>3, <2>4
<1>. HIDE DEF B, w
<1>4. 0 \in S
  <2>1. w + 1 - 0 = w + 1 /\ w + 1 \in 1 .. w + 1
    BY <1>1
  <2>2. B(w + 1) \in Nat
    BY <1>2, <2>1
  <2>. QED  BY <2>1, <2>2
<1>5. ASSUME NEW d \in Nat, d \in S PROVE d + 1 \in S
  <2>1. SUFFICES ASSUME d + 1 <= w PROVE B(w + 1 - (d + 1)) <= B(w + 1)
    OBVIOUS
  <2>. DEFINE j == w - d
  <2>2. j \in 1 .. w /\ j \in 1 .. w + 1 /\ j + 1 \in 1 .. w + 1 /\ w + 1 \in 1 .. w + 1
        /\ w + 1 - (d + 1) = j /\ w + 1 - d = j + 1
    BY <1>1, <2>1
  <2>3. B(j + 1) <= B(w + 1)
    BY <1>1, <1>5, <2>1, <2>2
  <2>4. B(j) + 2 <= B(j + 1) /\ B(j) \in Nat /\ B(j + 1) \in Nat /\ B(w + 1) \in Nat
    BY <1>2, <1>3, <2>2
  <2>5. B(j) <= B(w + 1)
    <3>. HIDE DEF j
    <3>. QED  BY <2>3, <2>4
  <2>. QED  BY <2>2, <2>5
<1>6. Nat \subseteq S
  <2>. HIDE DEF S
  <2>. QED  BY <1>4, <1>5, SetInduction
<1>7. ASSUME NEW j \in 1 .. w + 1 PROVE B(j) <= B(w + 1)
  <2>1. w + 1 - j \in Nat /\ w + 1 - j <= w /\ w + 1 - (w + 1 - j) = j
    BY <1>1
  <2>2. w + 1 - j \in S
    BY <1>6, <2>1
  <2>3. B(w + 1 - (w + 1 - j)) <= B(w + 1)
    BY <2>1, <2>2
  <2>. QED  BY <2>1, <2>3
<1>8. ASSUME w > 0 PROVE B(1) + 2 <= B(w + 1)
  <2>1. 1 \in 1 .. w /\ 1 \in 1 .. w + 1 /\ 2 \in 1 .. w + 1 /\ w + 1 \in 1 .. w + 1 /\ 1 + 1 = 2
    BY <1>1, <1>8
  <2>2. B(1) + 2 <= B(2) /\ B(2) <= B(w + 1) /\ B(1) \in Nat /\ B(2) \in Nat /\ B(w + 1) \in Nat
    BY <1>2, <1>3, <1>7, <2>1
  <2>. QED  BY <2>2
<1>. QED  BY <1>2, <1>7, <1>8 DEF B, w

\* A record adds its object, and a comma, to what is written when it comes next.
LEMMA RecordGrows ==
  ASSUME NEW p \in Pack, p.base # << >> => p.info,
         NEW i \in 1 .. Len(p.records), p.records[i] # << >>
  PROVE  /\ Bytes(p, Waiting(p, i)) \in Nat /\ Bytes(p, Opened(p, i)) \in Nat
         /\ Bytes(p, Waiting(p, i)) + 3 <= Bytes(p, Opened(p, i))
         /\ Bytes(p, Opened(p, i)) = Bytes(p, Inside(p, i, Width(p, i) + 1)) + 1
<1>. DEFINE w == Width(p, i)
<1>0. i # 0 /\ i \in 0 .. Len(p.records) /\ w \in Nat /\ w = Len(p.records[i]) /\ w > 0
  BY PackLengths, EmptySeq DEF Width
<1>1. Waiting(p, i) \in Seq(CellsOf(p)) /\ Bytes(p, Waiting(p, i)) \in Nat
  BY InsideStarts, BytesType
<1>2. Bytes(p, Waiting(p, i)) <= Bytes(p, Inside(p, i, 1))
  <2>1. CASE Inside(p, i, 1) = Waiting(p, i)
    BY <1>1, <2>1
  <2>2. CASE Inside(p, i, 1) = Append(Waiting(p, i), Mark("lbrace"))
    <3>1. Bytes(p, Inside(p, i, 1)) = Bytes(p, Waiting(p, i)) + 1
      BY <1>1, <2>2, AppendMark
    <3>. QED  BY <1>1, <3>1
  <2>. QED  BY <2>1, <2>2, InsideStarts
<1>3. /\ Bytes(p, Inside(p, i, 1)) + 2 <= Bytes(p, Inside(p, i, w + 1))
      /\ Bytes(p, Inside(p, i, 1)) \in Nat /\ Bytes(p, Inside(p, i, w + 1)) \in Nat
  <2>1. 1 \in 1 .. w + 1 /\ w + 1 \in 1 .. w + 1
    BY <1>0
  <2>. QED  BY <1>0, <2>1, InsideGrows
<1>4. Bytes(p, Opened(p, i)) = Bytes(p, Inside(p, i, w + 1)) + 1
  <2>1. PICK s \in Seq(CellsOf(p)) :
          /\ Inside(p, i, w + 1) = s \o <<Mark("comma")>>
          /\ Opened(p, i) = (s \o <<Mark("rbrace")>>) \o <<Mark("comma")>>
    BY <1>0, RecordEnds
  <2>. DEFINE t == s \o <<Mark("rbrace")>>
  <2>2. /\ Bytes(p, Inside(p, i, w + 1)) = Bytes(p, s) + 1 /\ Bytes(p, s) \in Nat
        /\ t \in Seq(CellsOf(p)) /\ Bytes(p, t) = Bytes(p, s) + 1
    <3>1. Bytes(p, s \o <<Mark("comma")>>) = Bytes(p, s) + 1
      BY BytesMark, AreMarks
    <3>2. t \in Seq(CellsOf(p)) /\ Bytes(p, t) = Bytes(p, s) + 1
      BY BytesMark, AreMarks
    <3>. QED  BY <2>1, <3>1, <3>2, BytesType
  <2>. HIDE DEF t
  <2>3. Opened(p, i) = t \o <<Mark("comma")>>
    BY <2>1 DEF t
  <2>4. Bytes(p, Opened(p, i)) = Bytes(p, t) + 1
    BY <2>2, <2>3, BytesMark, AreMarks
  <2>. HIDE DEF w
  <2>. QED  BY <2>2, <2>4
<1>. HIDE DEF w
<1>5. /\ Bytes(p, Opened(p, i)) \in Nat
      /\ Bytes(p, Waiting(p, i)) + 3 <= Bytes(p, Opened(p, i))
  BY <1>1, <1>2, <1>3, <1>4
<1>. QED  BY <1>1, <1>4, <1>5 DEF w

\* The array after a record is part of the array after the last.
LEMMA OpenedGrows ==
  ASSUME NEW p \in Pack, p.base # << >> => p.info, NEW m \in 1 .. Len(p.records)
  PROVE  \A n \in 1 .. m : /\ Bytes(p, Opened(p, n)) \in Nat
                           /\ Bytes(p, Opened(p, n)) <= Bytes(p, Opened(p, m))
<1>. DEFINE B(n) == Bytes(p, Opened(p, n))
            S == {d \in Nat : d < m => B(m - d) <= B(m)}
<1>1. m \in Nat /\ \A n \in 1 .. m : n \in 1 .. Len(p.records)
  BY PackLengths
<1>2. ASSUME NEW n \in 1 .. m PROVE B(n) \in Nat
  <2>1. n \in 0 .. Len(p.records)
    BY <1>1, PackLengths
  <2>. QED  BY <2>1, OpenedType, BytesType
<1>3. ASSUME NEW n \in 1 .. m, n < m PROVE B(n) <= B(n + 1)
  <2>1. n + 1 \in 1 .. m /\ n + 1 # 1 /\ (n + 1) - 1 = n
    BY <1>1, <1>3
  <2>2. CASE p.records[n + 1] = << >>
    <3>1. Opened(p, n + 1) = Opened(p, n)
      BY <2>1, <2>2, RecordLeftOut
    <3>. QED  BY <1>2, <3>1
  <2>3. CASE p.records[n + 1] # << >>
    <3>1. Waiting(p, n + 1) = Opened(p, n)
      BY <2>1 DEF Waiting
    <3>2. B(n) + 3 <= B(n + 1) /\ B(n + 1) \in Nat /\ B(n) \in Nat
      BY <2>1, <2>3, <3>1, RecordGrows
    <3>. HIDE DEF B
    <3>. QED  BY <3>2
  <2>. QED  BY <2>2, <2>3
<1>. HIDE DEF B
<1>4. 0 \in S
  <2>1. SUFFICES ASSUME 0 < m PROVE B(m - 0) <= B(m)
    OBVIOUS
  <2>2. m - 0 = m /\ m \in 1 .. m
    BY <1>1, <2>1
  <2>. QED  BY <1>2, <2>2
<1>5. ASSUME NEW d \in Nat, d \in S PROVE d + 1 \in S
  <2>1. SUFFICES ASSUME d + 1 < m PROVE B(m - (d + 1)) <= B(m)
    OBVIOUS
  <2>. DEFINE n == m - (d + 1)
  <2>2. n \in 1 .. m /\ n < m /\ n + 1 \in 1 .. m /\ m \in 1 .. m /\ m - d = n + 1 /\ d < m
    BY <1>1, <2>1
  <2>3. B(n + 1) <= B(m)
    BY <1>5, <2>2
  <2>4. B(n) <= B(n + 1) /\ B(n) \in Nat /\ B(n + 1) \in Nat /\ B(m) \in Nat
    BY <1>2, <1>3, <2>2
  <2>. HIDE DEF n
  <2>5. B(n) <= B(m)
    BY <2>3, <2>4
  <2>. QED  BY <2>5 DEF n
<1>6. Nat \subseteq S
  <2>. HIDE DEF S
  <2>. QED  BY <1>4, <1>5, SetInduction
<1>7. ASSUME NEW n \in 1 .. m PROVE B(n) <= B(m)
  <2>1. m - n \in Nat /\ m - n < m /\ m - (m - n) = n
    BY <1>1
  <2>2. m - n \in S
    BY <1>6, <2>1
  <2>3. B(m - (m - n)) <= B(m)
    BY <2>1, <2>2
  <2>. QED  BY <2>1, <2>3
<1>. QED  BY <1>2, <1>7 DEF B

\* The array before the first record is its '['.
LEMMA OpenedFirst ==
  ASSUME NEW p \in Pack
  PROVE  Opened(p, 0) = <<Mark("lbracket")>> /\ Bytes(p, Opened(p, 0)) = 1
<1>1. <<Mark("lbracket")>> \in Seq(CellsOf(p)) /\ Bytes(p, <<Mark("lbracket")>>) = 1
  <2>1. Mark("lbracket") \in Marks /\ Mark("lbracket") \in CellsOf(p)
    BY AreCells, AreMarks
  <2>. QED  BY <2>1, BytesOne, AreCells DEF CellBytes
<1>2. Objects(p)[0] = << >>
  BY ObjectsAre
<1>3. Opened(p, 0) = <<Mark("lbracket")>>
  BY <1>1, <1>2, ConcatEmptySeq DEF Opened, Trailing
<1>. QED  BY <1>1, <1>3

\* The array has its '[' at least.
LEMMA OpenedBytes ==
  ASSUME NEW p \in Pack, NEW n \in 0 .. Len(p.records)
  PROVE  Bytes(p, Opened(p, n)) \in Nat \ {0}
<1>. DEFINE L == <<Mark("lbracket")>>
            T == Trailing(Objects(p)[n])
<1>1. L \in Seq(CellsOf(p)) /\ Bytes(p, L) = 1
  BY OpenedFirst, OpenedType, PackLengths
<1>2. T \in Seq(CellsOf(p))
  BY OpenedType
<1>3. Opened(p, n) = L \o T
  BY DEF Opened
<1>. HIDE DEF L, T
<1>4. Bytes(p, L \o T) = 1 + Bytes(p, T) /\ Bytes(p, T) \in Nat
  BY <1>1, <1>2, BytesConcat, BytesType
<1>. QED  BY <1>3, <1>4

\* No object is in the array if no record has fields.
LEMMA NoneOpened ==
  ASSUME NEW p \in Pack, \A i \in 1 .. Len(p.records) : p.records[i] = << >>
  PROVE  Bytes(p, Opened(p, Len(p.records))) = 1
<1>. DEFINE N == Len(p.records)
            S == {n \in Nat : n <= N => Opened(p, n) = Opened(p, 0)}
<1>1. N \in Nat /\ 0 \in S
  BY PackLengths
<1>2. ASSUME NEW n \in Nat, n \in S PROVE n + 1 \in S
  <2>1. SUFFICES ASSUME n + 1 <= N PROVE Opened(p, n + 1) = Opened(p, 0)
    OBVIOUS
  <2>2. n + 1 \in 1 .. N /\ (n + 1) - 1 = n /\ n <= N
    BY <1>1, <2>1
  <2>. QED  BY <1>2, <2>2, RecordLeftOut
<1>3. Nat \subseteq S
  <2>. HIDE DEF S
  <2>. QED  BY <1>1, <1>2, SetInduction
<1>4. Opened(p, N) = Opened(p, 0)
  BY <1>1, <1>3
<1>. QED  BY <1>4, OpenedFirst

\* The document, of which each record's end is a part.
LEMMA DocumentBytes ==
  ASSUME NEW p \in Pack, p.base # << >> => p.info
  PROVE  LET total == Bytes(p, Document(p))
             N == Len(p.records)
         IN
         /\ total \in Nat /\ total >= 2
         /\ \A i \in 1 .. N :
              /\ Bytes(p, Opened(p, i)) \in Nat /\ Bytes(p, Opened(p, i)) <= total
              /\ Bytes(p, Opened(p, i)) <= Bytes(p, Opened(p, N))
              /\ p.records[i] # << >> =>
                   /\ Bytes(p, Waiting(p, i)) \in Nat
                   /\ Bytes(p, Waiting(p, i)) + 3 <= Bytes(p, Opened(p, i))
         /\ IF \A i \in 1 .. N : p.records[i] = << >> THEN total = 2 ELSE total = Bytes(p, Opened(p, N))
<1>. DEFINE N == Len(p.records)
            total == Bytes(p, Document(p))
            B(n) == Bytes(p, Opened(p, n))
            W(n) == Bytes(p, Waiting(p, n))
<1>1. N \in Nat /\ N \in 0 .. N
  BY PackLengths
<1>2. ASSUME NEW i \in 1 .. N PROVE B(i) \in Nat /\ B(i) <= B(N)
  <2>1. N \in 1 .. N
    BY <1>1
  <2>. QED  BY <2>1, OpenedGrows
<1>3. ASSUME NEW i \in 1 .. N, p.records[i] # << >> PROVE W(i) \in Nat /\ W(i) + 3 <= B(i)
  BY <1>3, RecordGrows
<1>4. \/ B(N) = 1 /\ total = 2
      \/ B(N) = total /\ total \in Nat /\ total >= 2
  <2>1. CASE Document(p) = Opened(p, N) \o <<Mark("rbracket")>> /\ Bytes(p, Opened(p, N)) = 1
    <3>1. Opened(p, N) \in Seq(CellsOf(p))
      BY <1>1, OpenedType
    <3>2. total = 1 + 1
      BY <2>1, <3>1, BytesMark, AreMarks
    <3>. QED  BY <2>1, <3>2
  <2>2. ASSUME NEW s \in Seq(CellsOf(p)),
               Opened(p, N) = s \o <<Mark("comma")>>,
               Document(p) = s \o <<Mark("rbracket")>>,
               Bytes(p, s) \in Nat \ {0}
        PROVE  B(N) = total /\ total \in Nat /\ total >= 2
    <3>1. total = Bytes(p, s) + 1 /\ B(N) = Bytes(p, s) + 1
      BY <2>2, BytesMark, AreMarks
    <3>2. Bytes(p, s) + 1 \in Nat /\ Bytes(p, s) + 1 >= 2
      BY <2>2
    <3>. QED  BY <3>1, <3>2
  <2>. QED  BY <2>1, <2>2, ArrayEnds
<1>5. ASSUME \A i \in 1 .. N : p.records[i] = << >> PROVE B(N) = 1
  BY <1>5, NoneOpened
<1>. HIDE DEF N, total, B, W
<1>6. ASSUME NEW i \in 1 .. N, p.records[i] # << >> PROVE B(N) = total
  BY <1>2, <1>3, <1>4, <1>6
<1>7. total \in Nat /\ total >= 2
  BY <1>4
<1>8. \A i \in 1 .. N : /\ B(i) \in Nat /\ B(i) <= B(N) /\ B(i) <= total
                        /\ p.records[i] # << >> => W(i) \in Nat /\ W(i) + 3 <= B(i)
  BY <1>1, <1>2, <1>3, <1>4
<1>9. IF \A i \in 1 .. N : p.records[i] = << >> THEN total = 2 ELSE total = B(N)
  BY <1>4, <1>5, <1>6, <1>7
<1>. QED  BY <1>7, <1>8, <1>9 DEF N, total, B, W

\* What is wanted beyond the document and its NUL is two bytes at most.
LEMMA SpareType ==
  ASSUME NEW p \in Pack
  PROVE  /\ Spare(p) \in 0 .. 2
         /\ Len(p.records) > 0 =>
              /\ Spare(p) = 0 <=> p.records[Len(p.records)] # << >>
              /\ Spare(p) = 2 <=> \A i \in 1 .. Len(p.records) : p.records[i] = << >>
BY PackLengths DEF Spare

----------------------------------------------------------------------------
\* The base information ends where the first record begins.
LEMMA FirstWaits ==
  ASSUME NEW p \in Pack
  PROVE  Waiting(p, 1) = Inside(p, 0, Len(p.base) + 1)
BY DEF Waiting, Inside

\* A field that does not fit is one the document has.
LEMMA WriteFieldRoom ==
  ASSUME IInv, Proper(pack), SoFar, RoomSoFar, WriteField
  PROVE  RoomSoFar'
<1>1. pack \in Pack /\ (pack.base # << >> => pack.info) /\ Num = Len(pack.records) /\ Num \in Nat
      /\ len \in Nat /\ ins_pos \in Nat /\ buf_len \in Int /\ r \in Nat
  BY PackFacts
<1>2. pc = "fields" /\ r <= Num /\ k <= Len(Fields) /\ out = Inside(pack, r, k) /\ ins_pos = Bytes(pack, out)
  BY DEF WriteField, IInv, Place, SoFar
<1>3. /\ r \in 0 .. Len(pack.records) /\ k \in 1 .. Width(pack, r) /\ k \in 1 .. Width(pack, r) + 1
      /\ k + 1 \in 1 .. Width(pack, r) + 1 /\ k <= Width(pack, r)
  BY <1>2, PackFacts
<1>4. pack' = pack /\ r' = r /\ after_bi' = after_bi /\ len' = len /\ Num' = Num
  BY DEF WriteField, input, Num
<1>5. CASE Fields[k] >= buf_len
  <2>0. pc' = "failed"
    BY <1>5 DEF WriteField, Fail
  <2>. DEFINE total == Bytes(pack, Document(pack))
              upto == Bytes(pack, Inside(pack, r, k + 1))
  <2>1. Fields[k] \in Nat /\ upto = ins_pos + Fields[k]
    <3>1. out \in Seq(CellsOf(pack))
      BY <1>2, OutIsCells
    <3>2. Inside(pack, r, k + 1) = Append(Append(out, <<r, k>>), Mark("comma"))
      BY <1>1, <1>2, <1>3, InsideType
    <3>3. /\ Fields[k] \in Nat
          /\ Bytes(pack, Append(Append(out, <<r, k>>), Mark("comma"))) = Bytes(pack, out) + Fields[k]
      BY <1>1, <1>3, <3>1, AppendField DEF Fields
    <3>. QED  BY <1>2, <3>2, <3>3
  <2>2. upto <= Bytes(pack, Inside(pack, r, Width(pack, r) + 1)) /\ upto \in Nat
        /\ Bytes(pack, Inside(pack, r, Width(pack, r) + 1)) \in Nat
    <3>1. Width(pack, r) + 1 \in 1 .. Width(pack, r) + 1
      BY <1>3, PackLengths, <1>1
    <3>. QED  BY <1>1, <1>3, <3>1, InsideGrows
  <2>3. total \in Nat /\ Spare(pack) \in 0 .. 2 /\ Needed(pack) = total + 1 + Spare(pack)
    BY <1>1, DocumentBytes, SpareType DEF Needed
  <2>4. CASE r = 0
    <3>1. 1 \in 1 .. Len(pack.records) /\ pack.records[1] # << >>
      <4>1. Len(pack.base) # 0 /\ pack.base # << >>
        BY <1>1, <1>3, <2>4, PackLengths, EmptySeq DEF Width
      <4>2. Len(pack.records) # 0 /\ pack.records[1] # << >>
        BY <1>1, <4>1, EmptySeq DEF Proper, Pack
      <4>. QED  BY <1>1, <4>2
    <3>2. Bytes(pack, Inside(pack, r, Width(pack, r) + 1)) = Bytes(pack, Waiting(pack, 1))
      BY <1>1, <2>4, FirstWaits DEF Width
    <3>3. /\ Bytes(pack, Waiting(pack, 1)) + 3 <= Bytes(pack, Opened(pack, 1))
          /\ Bytes(pack, Opened(pack, 1)) <= total
          /\ Bytes(pack, Opened(pack, 1)) \in Nat /\ Bytes(pack, Waiting(pack, 1)) \in Nat
      BY <1>1, <3>1, DocumentBytes
    <3>4. ins_pos + buf_len = len
      BY <1>2, <2>4 DEF IInv, Room
    <3>. HIDE DEF upto, total
    <3>5. Needed(pack) > len
      <4>1. ins_pos + Fields[k] + 3 <= total
        BY <1>1, <2>1, <2>2, <2>3, <3>2, <3>3
      <4>2. ins_pos + Fields[k] >= len
        BY <1>1, <1>5, <2>1, <3>4
      <4>. QED  BY <1>1, <2>1, <2>3, <4>1, <4>2
    <3>. QED  BY <1>4, <2>0, <3>5 DEF RoomSoFar
  <2>5. CASE r # 0
    <3>1. r \in 1 .. Len(pack.records) /\ r > 0
      BY <1>1, <1>3, <2>5
    <3>2. pack.records[r] # << >>
      <4>1. Len(pack.records[r]) # 0
        BY <1>3, <2>5, <3>1, <1>1, PackLengths DEF Width
      <4>. QED  BY <4>1, EmptySeq
    <3>3. Bytes(pack, Opened(pack, r)) = Bytes(pack, Inside(pack, r, Width(pack, r) + 1)) + 1
      BY <1>1, <3>1, <3>2, RecordGrows
    <3>4. Bytes(pack, Opened(pack, r)) <= total
      BY <1>1, <3>1, DocumentBytes
    <3>5. ins_pos + buf_len = len - 1
      BY <1>2, <3>1 DEF IInv, Room
    <3>. HIDE DEF upto, total
    <3>6. Needed(pack) > len
      BY <1>1, <1>5, <2>1, <2>2, <2>3, <3>3, <3>4, <3>5
    <3>. QED  BY <1>4, <2>0, <3>6 DEF RoomSoFar
  <2>. QED  BY <2>4, <2>5
<1>6. CASE ~(Fields[k] >= buf_len)
  <2>1. pc' = pc
    BY <1>6 DEF WriteField
  <2>. QED  BY <1>2, <1>4, <2>1 DEF RoomSoFar
<1>. QED  BY <1>5, <1>6

\* Without records the document is empty, and TooShort has seen that it fits.
LEMMA NoRecordsRoom ==
  ASSUME IInv, Proper(pack), SoFar, NoRecords
  PROVE  RoomSoFar'
<1>1. pack \in Pack /\ Len(pack.records) = Num /\ len \in Nat /\ (pack.base # << >> => pack.info)
  BY PackFacts
<1>2. pc = "fields" /\ r = 0 /\ Num = 0 /\ out = Inside(pack, r, k) /\ ins_pos = Bytes(pack, out) /\ len >= 3
  BY DEF NoRecords, BaseDone, SoFar, IInv, Room
<1>3. ~pack.info
  <2>1. pack.records \in Seq(Seq(Size)) /\ Len(pack.records) = 0
    BY <1>1, <1>2 DEF Pack
  <2>. QED  BY <2>1, EmptySeq DEF Proper
<1>4. ins_pos = 1
  BY <1>1, <1>2, <1>3, OpenedFirst DEF Inside
<1>5. pc' = "done" /\ pack' = pack /\ len' = len
  BY <1>4 DEF NoRecords, input
<1>6. Bytes(pack, Document(pack)) = 2
  <2>1. \A i \in 1 .. Len(pack.records) : pack.records[i] = << >>
    BY <1>1, <1>2
  <2>. QED  BY <1>1, <2>1, DocumentBytes
<1>7. Needed(pack) = 3
  BY <1>1, <1>2, <1>6 DEF Needed, Spare
<1>. QED  BY <1>1, <1>2, <1>5, <1>7 DEF RoomSoFar

\* Before the first record the encoder wants four bytes: the fewest a record takes,
\* with the end of the array and the NUL.
LEMMA ReserveNulRoom ==
  ASSUME IInv, Proper(pack), SoFar, ReserveNul
  PROVE  RoomSoFar'
<1>1. pack \in Pack /\ (pack.base # << >> => pack.info) /\ Num = Len(pack.records) /\ Num \in Nat
      /\ len \in Nat /\ ins_pos \in Nat /\ buf_len \in Int
  BY PackFacts
<1>2. /\ pc = "fields" /\ r = 0 /\ Num > 0 /\ k > Len(Fields) /\ k <= Len(Fields) + 1
      /\ out = Inside(pack, r, k) /\ ins_pos = Bytes(pack, out) /\ ins_pos + buf_len = len
  BY DEF ReserveNul, BaseDone, IInv, Place, Room, SoFar
<1>3. k = Len(pack.base) + 1
  BY <1>2, PackFacts DEF Fields
<1>4. pack' = pack /\ len' = len /\ after_bi' = ins_pos
  BY DEF ReserveNul, input
<1>5. out = Waiting(pack, 1) /\ 1 \in 1 .. Len(pack.records)
  BY <1>1, <1>2, <1>3, FirstWaits
<1>. DEFINE total == Bytes(pack, Document(pack))
<1>6. total \in Nat /\ total >= 2 /\ Spare(pack) \in 0 .. 2 /\ Needed(pack) = total + 1 + Spare(pack)
  BY <1>1, DocumentBytes, SpareType DEF Needed
<1>7. ~pack.info => ins_pos = 1
  BY <1>1, <1>2, OpenedFirst DEF Inside
<1>8. CASE buf_len < 4
  <2>1. pc' = "failed"
    BY <1>8 DEF ReserveNul, Fail
  <2>2. CASE \A i \in 1 .. Len(pack.records) : pack.records[i] = << >>
    <3>1. Spare(pack) = 2 /\ ins_pos = 1
      BY <1>1, <1>2, <1>5, <1>7, <2>2, SpareType DEF Proper
    <3>. HIDE DEF total
    <3>2. Needed(pack) > len
      BY <1>1, <1>2, <1>6, <1>8, <3>1
    <3>. QED  BY <1>4, <2>1, <3>2 DEF RoomSoFar
  <2>3. ASSUME NEW i \in 1 .. Len(pack.records), pack.records[i] # << >>,
               i = 1 \/ pack.records[1] = << >>
        PROVE  RoomSoFar'
    <3>1. /\ Bytes(pack, Waiting(pack, i)) \in Nat /\ Bytes(pack, Opened(pack, i)) \in Nat
          /\ Bytes(pack, Waiting(pack, i)) + 3 <= Bytes(pack, Opened(pack, i))
          /\ Bytes(pack, Opened(pack, i)) <= total
      BY <1>1, <2>3, DocumentBytes
    <3>2. ins_pos <= Bytes(pack, Waiting(pack, i))
      <4>1. CASE i = 1
        BY <1>1, <1>2, <1>5, <4>1
      <4>2. CASE i # 1
        <5>1. ins_pos = 1
          BY <1>7, <2>3, <4>2 DEF Proper
        <5>2. i - 1 \in 0 .. Len(pack.records) /\ Waiting(pack, i) = Opened(pack, i - 1)
          BY <1>1, <4>2 DEF Waiting
        <5>. QED  BY <1>1, <5>1, <5>2, OpenedBytes
      <4>. QED  BY <4>1, <4>2
    <3>. HIDE DEF total
    <3>3. Needed(pack) > len
      BY <1>1, <1>2, <1>6, <1>8, <3>1, <3>2
    <3>. QED  BY <1>4, <2>1, <3>3 DEF RoomSoFar
  <2>. QED  BY <1>5, <2>2, <2>3
<1>9. CASE ~(buf_len < 4)
  <2>1. pc' = "record" /\ buf_len' = buf_len - 1
    BY <1>9 DEF ReserveNul
  <2>2. buf_len' >= 1 /\ (~pack.info => len >= 5)
    BY <1>1, <1>2, <1>7, <1>9, <2>1
  <2>3. ins_pos = Bytes(pack, Inside(pack, 0, Len(pack.base) + 1))
    BY <1>2, <1>3
  <2>. QED  BY <1>4, <2>1, <2>2, <2>3 DEF RoomSoFar
<1>. QED  BY <1>8, <1>9

\* The '{' of a record without fields is taken back, and its byte is there again.
LEMMA DropRecordRoom ==
  ASSUME IInv, Proper(pack), SoFar, RoomSoFar, DropRecord
  PROVE  RoomSoFar'
<1>1. pack \in Pack /\ (pack.base # << >> => pack.info) /\ buf_len \in Int /\ Num \in Nat
  BY PackFacts
<1>2. /\ pc = "fields" /\ r > 0 /\ r <= Num /\ Fields = << >> /\ k > Len(Fields) /\ k <= Len(Fields) + 1
      /\ out = Inside(pack, r, k) /\ buf_len >= 0
  BY DEF DropRecord, RecordDone, IInv, Place, Room, SoFar
<1>3. r \in 1 .. Len(pack.records) /\ pack.records[r] = << >> /\ k = 1
  BY <1>2, PackFacts, EmptySeq DEF Fields
<1>4. ~(r = 1 /\ pack.info)
  BY <1>3 DEF Proper
<1>. DEFINE s == Waiting(pack, r)
<1>5. s \in Seq(CellsOf(pack)) /\ out = Append(s, Mark("lbrace"))
  BY <1>1, <1>2, <1>3, <1>4, InsideStarts
<1>. HIDE DEF s
<1>6. EndsIn("lbrace")
  BY <1>1, <1>5, ButMark, AppendMark DEF EndsIn
<1>7. /\ buf_len' = buf_len - (-1) /\ pc' = "record" /\ r' = r + 1
      /\ pack' = pack /\ len' = len /\ after_bi' = after_bi
  BY <1>6 DEF DropRecord, Insert, input
<1>8. buf_len' >= 1
  BY <1>1, <1>2, <1>7
<1>. QED  BY <1>2, <1>7, <1>8 DEF RoomSoFar

\* After a record the encoder wants a byte for the next, whatever that is.
LEMMA CloseRecordRoom ==
  ASSUME IInv, Proper(pack), SoFar, RoomSoFar, CloseRecord
  PROVE  RoomSoFar'
<1>1. pack \in Pack /\ (pack.base # << >> => pack.info) /\ Num = Len(pack.records) /\ Num \in Nat
      /\ len \in Nat /\ ins_pos \in Nat /\ buf_len \in Int /\ r \in Nat
  BY PackFacts
<1>2. /\ pc = "fields" /\ r > 0 /\ r <= Num /\ Fields # << >> /\ k > Len(Fields) /\ k <= Len(Fields) + 1
      /\ out = Inside(pack, r, k) /\ ins_pos = Bytes(pack, out) /\ ins_pos + buf_len = len - 1
  BY DEF CloseRecord, RecordDone, IInv, Place, Room, SoFar
<1>3. /\ r \in 1 .. Len(pack.records) /\ pack.records[r] # << >> /\ k = Width(pack, r) + 1
      /\ buf_len >= 1
  <2>1. /\ Width(pack, r) = Len(Fields) /\ Len(Fields) \in Nat /\ k \in Nat /\ r \in Nat
        /\ Num = Len(pack.records) /\ Num \in Nat
    BY <1>2, PackFacts
  <2>2. r \in 1 .. Len(pack.records) /\ k = Width(pack, r) + 1
    BY <1>2, <2>1
  <2>3. pack.records[r] # << >> /\ Len(pack.records[r]) # 0
    BY <1>1, <1>2, <2>2, PackLengths, EmptySeq DEF Fields
  <2>4. k > 1
    BY <1>2, <2>1, <2>2, <2>3 DEF Fields
  <2>5. buf_len >= 1
    BY <1>2, <2>4 DEF IInv, Room
  <2>. QED  BY <2>2, <2>3, <2>5
<1>4. pack' = pack /\ len' = len /\ after_bi' = after_bi /\ buf_len' = buf_len - 1 /\ Num' = Num
  BY DEF CloseRecord, Insert, input, Num
<1>5. CASE r < Num /\ buf_len' = 0
  <2>1. pc' = "failed"
    BY <1>5 DEF CloseRecord
  <2>. DEFINE total == Bytes(pack, Document(pack))
  <2>2. Num \in 1 .. Len(pack.records) /\ Num - 1 \in 1 .. Len(pack.records) /\ Num # 1 /\ r \in 1 .. Num - 1
    <3>1. Len(pack.records) = Num /\ Num \in Nat /\ r \in Nat /\ r > 0 /\ r < Num
      BY <1>1, <1>2, <1>5
    <3>. QED  BY <3>1
  <2>3. Bytes(pack, Opened(pack, r)) = ins_pos + 1
    BY <1>1, <1>2, <1>3, RecordGrows
  <2>4. /\ Bytes(pack, Opened(pack, r)) <= total
        /\ total \in Nat /\ Spare(pack) \in 0 .. 2 /\ Needed(pack) = total + 1 + Spare(pack)
    BY <1>1, <1>3, DocumentBytes, SpareType DEF Needed
  <2>5. Spare(pack) > 0 \/ Bytes(pack, Opened(pack, r)) < total
    <3>1. CASE pack.records[Num] = << >>
      BY <1>1, <2>2, <2>4, <3>1, SpareType
    <3>2. CASE pack.records[Num] # << >>
      <4>1. Bytes(pack, Opened(pack, r)) <= Bytes(pack, Opened(pack, Num - 1))
        BY <1>1, <1>3, <2>2, OpenedGrows
      <4>2. Waiting(pack, Num) = Opened(pack, Num - 1)
        BY <2>2 DEF Waiting
      <4>3. /\ Bytes(pack, Waiting(pack, Num)) \in Nat
            /\ Bytes(pack, Waiting(pack, Num)) + 3 <= Bytes(pack, Opened(pack, Num))
            /\ Bytes(pack, Opened(pack, Num)) <= total /\ Bytes(pack, Opened(pack, Num)) \in Nat
        BY <1>1, <2>2, <3>2, DocumentBytes
      <4>. HIDE DEF total
      <4>. QED  BY <1>1, <2>3, <2>4, <4>1, <4>2, <4>3
    <3>. QED  BY <3>1, <3>2
  <2>6. Needed(pack) > len
    <3>. HIDE DEF total
    <3>. QED  BY <1>1, <1>2, <1>4, <1>5, <2>3, <2>4, <2>5
  <2>. QED  BY <1>4, <2>1, <2>6 DEF RoomSoFar
<1>6. CASE ~(r < Num /\ buf_len' = 0)
  <2>1. pc' = "record" /\ r' = r + 1
    BY <1>6 DEF CloseRecord
  <2>2. pack.records[Num] = << >> => buf_len' >= 1
    BY <1>1, <1>2, <1>3, <1>4, <1>6
  <2>. QED  BY <1>2, <1>4, <2>1, <2>2 DEF RoomSoFar
<1>. QED  BY <1>5, <1>6

\* The array ends well after the base information, and there is room for its end.
LEMMA CloseArrayRoom ==
  ASSUME IInv, Proper(pack), SoFar, RoomSoFar, CloseArray, SoFar', InBounds'
  PROVE  RoomSoFar'
<1>1. pack \in Pack /\ (pack.base # << >> => pack.info) /\ Num = Len(pack.records) /\ Num \in Nat
      /\ ins_pos \in Nat /\ len \in Nat /\ buf_len \in Int
  BY PackFacts
<1>2. /\ pc = "record" /\ r > Num /\ Num > 0 /\ out = Waiting(pack, r) /\ ins_pos = Bytes(pack, out)
      /\ ins_pos + buf_len = len - 1
  BY PackFacts DEF CloseArray, SoFar, IInv, Room
<1>3. r = Num + 1 /\ r # 1 /\ r - 1 = Num /\ r > 0
  BY <1>2, PackFacts
<1>4. ins_pos = Bytes(pack, Opened(pack, Num))
  BY <1>2, <1>3 DEF Waiting
<1>5. after_bi = Bytes(pack, Waiting(pack, 1))
  BY <1>1, <1>2, <1>3, FirstWaits DEF RoomSoFar
<1>6. 1 \in 1 .. Len(pack.records) /\ Num \in 1 .. Len(pack.records) /\ Num \in 0 .. Len(pack.records)
  BY <1>1, <1>2
<1>7. ins_pos + 1 # after_bi
  <2>1. CASE pack.records[1] # << >>
    <3>1. /\ Bytes(pack, Waiting(pack, 1)) + 3 <= Bytes(pack, Opened(pack, 1))
          /\ Bytes(pack, Opened(pack, 1)) <= Bytes(pack, Opened(pack, Num))
          /\ Bytes(pack, Waiting(pack, 1)) \in Nat /\ Bytes(pack, Opened(pack, 1)) \in Nat
      BY <1>1, <1>6, <2>1, DocumentBytes
    <3>. QED  BY <1>1, <1>4, <1>5, <3>1
  <2>2. CASE pack.records[1] = << >>
    <3>1. ~pack.info
      BY <2>2 DEF Proper
    <3>2. after_bi = 1
      BY <1>1, <1>5, <3>1, OpenedFirst DEF Waiting
    <3>3. ins_pos \in Nat \ {0}
      BY <1>1, <1>4, <1>6, OpenedBytes
    <3>. QED  BY <3>2, <3>3
  <2>. QED  BY <2>1, <2>2
<1>8. pc' = "done" /\ pack' = pack /\ len' = len
  BY <1>7 DEF CloseArray, input
<1>. DEFINE total == Bytes(pack, Document(pack))
<1>9. total \in Nat /\ Spare(pack) \in 0 .. 2 /\ Needed(pack) = total + 1 + Spare(pack)
  BY <1>1, DocumentBytes, SpareType DEF Needed
<1>10. ins_pos' = total + 1 /\ ins_pos' <= len
  BY <1>8 DEF SoFar, InBounds
<1>11. Needed(pack) <= len
  <2>1. CASE pack.records[Num] # << >>
    BY <1>1, <1>6, <1>9, <1>10, <2>1, SpareType
  <2>2. CASE pack.records[Num] = << >> /\ \A i \in 1 .. Len(pack.records) : pack.records[i] = << >>
    <3>1. ~pack.info
      BY <1>6, <2>2 DEF Proper
    <3>2. len >= 5
      BY <1>2, <1>3, <3>1 DEF RoomSoFar
    <3>3. total = 2
      BY <1>1, <2>2, DocumentBytes
    <3>. HIDE DEF total
    <3>. QED  BY <1>1, <1>9, <3>2, <3>3
  <2>3. CASE pack.records[Num] = << >> /\ ~(\A i \in 1 .. Len(pack.records) : pack.records[i] = << >>)
    <3>1. Spare(pack) # 2
      BY <1>1, <1>2, <2>3, SpareType
    <3>2. buf_len >= 1
      BY <1>2, <2>3 DEF RoomSoFar
    <3>3. total = ins_pos
      <4>1. total = Bytes(pack, Opened(pack, Len(pack.records)))
        BY <1>1, <2>3, DocumentBytes
      <4>. QED  BY <1>1, <1>4, <4>1
    <3>. HIDE DEF total
    <3>. QED  BY <1>1, <1>2, <1>9, <3>1, <3>2, <3>3
  <2>. QED  BY <2>1, <2>2, <2>3
<1>. QED  BY <1>8, <1>11 DEF RoomSoFar

\* The room decides, step by step.
LEMMA RoomStep ==
  ASSUME IInv, [Next]_vars, Proper(pack), SoFar, RoomSoFar, SoFar', InBounds'
  PROVE  RoomSoFar'
<1>1. CASE TooShort
  <2>1. pc' = "failed" /\ pack' = pack /\ len' = len /\ len < 3
    BY <1>1 DEF TooShort, Fail, input
  <2>2. /\ Bytes(pack, Document(pack)) \in Nat /\ Bytes(pack, Document(pack)) >= 2 /\ len \in Nat
        /\ Spare(pack) \in 0 .. 2
    BY PackFacts, DocumentBytes, SpareType
  <2>3. Needed(pack) > len
    BY <2>1, <2>2 DEF Needed
  <2>. QED  BY <2>1, <2>3 DEF RoomSoFar
<1>2. CASE Open
  BY <1>2 DEF Open, Goto, IInv, Place, RoomSoFar
<1>3. CASE OpenRecord
  BY <1>3 DEF OpenRecord, Goto, input, IInv, Place, RoomSoFar
<1>4. CASE UNCHANGED vars
  BY <1>4 DEF vars, RoomSoFar, Num
<1>. QED
  BY <1>1, <1>2, <1>3, <1>4, WriteFieldRoom, NoRecordsRoom, ReserveNulRoom, DropRecordRoom,
     CloseRecordRoom, CloseArrayRoom DEF Next

\* DocumentInv is inductive relative to the encoder's own invariant.
LEMMA DocumentAlways == Spec => []DocumentInv
<1>1. ASSUME Init PROVE DocumentInv
  <2>1. pack \in Pack
    BY <1>1, PacksAssumption DEF PacksAssumption, Init
  <2>2. Bytes(pack, << >>) = 0
    <3>1. << >> \in Seq(CellsOf(pack))
      BY EmptySeq
    <3>. QED  BY <2>1, <3>1, BytesType
  <2>. QED  BY <1>1, <2>2 DEF Init, DocumentInv, SoFar, RoomSoFar
<1>2. ASSUME IInv, DocumentInv, [Next]_vars, InBounds' PROVE DocumentInv'
  <2>1. pack' = pack
    BY <1>2 DEF Next, vars, input, TooShort, Open, WriteField, NoRecords, ReserveNul, OpenRecord,
                DropRecord, CloseRecord, CloseArray
  <2>. QED  BY <1>2, <2>1, SoFarStep, RoomStep DEF DocumentInv
<1>. QED  BY <1>1, <1>2, Invariance, InBoundsHolds, PTL DEF Spec

----------------------------------------------------------------------------
\* InCapacity is not inductive: it does not say that the first object is the one
\* that takes array_num from -1 to a record.
DecoderInv ==
  /\ array_num \in Int /\ array_num >= -1
  /\ last_type = "object" => array_num >= 0
  /\ dpc # "failed" => array_num < Cap
  /\ DOMAIN records = 0 .. Cap - 1

\* The decoder starts before the first record.
LEMMA DecoderStarts == D!Init => DecoderInv
BY CapAssumption DEF CapAssumption, D!Init, DecoderInv

\* Nothing is asked of the document: it may be any sequence of cells.
LEMMA DecoderStep == ASSUME DecoderInv, D!Next PROVE DecoderInv'
<1>. USE CapAssumption DEF CapAssumption
<1>1. CASE D!Parse
  BY <1>1 DEF D!Parse, D!stored, DecoderInv
<1>2. CASE D!TakeArray
  BY <1>2 DEF D!TakeArray, D!More, D!stored, DecoderInv
<1>3. CASE D!TakeObject
  <2>1. /\ array_num' = array_num + 1 /\ UNCHANGED records
        /\ dpc' # "failed" => array_num' < Cap
    BY <1>3 DEF D!TakeObject, D!stored, DecoderInv
  <2>. QED  BY <2>1 DEF DecoderInv
<1>4. CASE D!TakeMember
  <2>1. UNCHANGED <<dpc, array_num, last_type>> /\ DOMAIN records' = DOMAIN records
    BY <1>4 DEF D!TakeMember
  <2>. QED  BY <2>1 DEF DecoderInv
<1>5. CASE D!Finish
  BY <1>5 DEF D!Finish, D!stored, DecoderInv
<1>. QED  BY <1>1, <1>2, <1>3, <1>4, <1>5 DEF D!Next

\* DecoderInv is an invariant.
LEMMA DecoderAlways == RoundTripSpec => []DecoderInv
<1>1. RoundTripInit => DecoderInv
  BY DecoderStarts DEF RoundTripInit
<1>2. DecoderInv /\ [RoundTripNext]_<<vars, decoder>> => DecoderInv'
  <2>. SUFFICES ASSUME DecoderInv, [RoundTripNext]_<<vars, decoder>> PROVE DecoderInv'
    OBVIOUS
  <2>1. CASE UNCHANGED decoder
    BY <2>1 DEF decoder, DecoderInv
  <2>. QED  BY <2>1, DecoderStep DEF RoundTripNext
<1>. QED  BY <1>1, <1>2, PTL DEF RoundTripSpec

\* Whatever the document and however many records the caller has room for, the
\* decoder stores into none outside the array (see SenmlDecode's InCapacity).
THEOREM InCapacityHolds == RoundTripSpec => []InCapacity
<1>1. DecoderInv => InCapacity
  BY CapAssumption DEF CapAssumption, DecoderInv, InCapacity, D!InCapacity
<1>. QED  BY <1>1, DecoderAlways, PTL

\* Decoding is no step of the encoder's: what is proved of the encoder alone holds
\* when its output is decoded.
THEOREM EncoderUndisturbed == RoundTripSpec => Spec
<1>1. RoundTripInit => Init
  BY DEF RoundTripInit
<1>2. [RoundTripNext]_<<vars, decoder>> => [Next]_vars
  BY DEF RoundTripNext
<1>. QED  BY <1>1, <1>2, PTL DEF RoundTripSpec, Spec

\* No byte is written past the output while packs are encoded and decoded again
\* (see InBounds).
COROLLARY RoundTripInBounds == RoundTripSpec => [](TypeOK /\ InBounds)
BY EncoderUndisturbed, TypeCorrect, InBoundsHolds, PTL

\* Whatever the number of records and fields and their sizes, which records are
\* empty, and the buffer: an encoder that succeeds on a Proper pack has written the
\* document the pack stands for, every field once, in order, with JSON's brackets
\* and commas (senml.c 190-466).  Nothing is said of the packs that are not Proper.
THEOREM WritesDocumentHolds == RoundTripSpec => []WritesDocument
<1>1. DocumentInv => WritesDocument
  BY DEF DocumentInv, SoFar, WritesDocument
<1>. QED  BY <1>1, DocumentAlways, EncoderUndisturbed, PTL

\* Whatever the Proper pack, empty records included, and the buffer: the encoder
\* succeeds exactly if the buffer has the bytes of the document, one for the NUL,
\* and those of Spare, which are none unless the last record is empty
\* (senml.c 190-466).
THEOREM RoomDecidesHolds == RoundTripSpec => []RoomDecides
<1>1. ASSUME IInv, DocumentInv PROVE RoomDecides
  <2>. SUFFICES ASSUME pc \in {"done", "failed"}, Proper(pack)
                PROVE  pc = "done" <=> Needed(pack) <= len
    BY DEF RoomDecides
  <2>1. len \in Nat /\ Needed(pack) \in Nat
    <3>1. pack \in Pack /\ (pack.base # << >> => pack.info) /\ len \in Nat
      BY <1>1, PackFacts
    <3>2. Bytes(pack, Document(pack)) \in Nat /\ Spare(pack) \in 0 .. 2
      BY <3>1, DocumentBytes, SpareType
    <3>. QED  BY <3>1, <3>2 DEF Needed
  <2>. QED  BY <1>1, <2>1 DEF DocumentInv, RoomSoFar
<1>. QED  BY <1>1, Invariance, DocumentAlways, EncoderUndisturbed, PTL
----------------------------------------------------------------------------
(* What the decoder makes of the document.                                 *)

\* The kinds open after c, if those of open were before it.
Nest(open, c) ==
  IF open = <<"error">> THEN open
  ELSE IF Opening(c) # "none" THEN <<Opening(c)>> \o open
  ELSE IF Closing(c) = "none" THEN open
  ELSE IF open # << >> /\ Head(open) = Closing(c) THEN Tail(open)
  ELSE <<"error">>

\* The tokens with c, if it is one.
Grow(tokens, c) == IF D!IsToken(c) THEN Append(tokens, c) ELSE tokens

\* f[n] is what the first n cells of s leave open, and their tokens.
Reads(s, f) ==
  f = [n \in 0 .. Len(s) |->
         IF n = 0 THEN <<<< >>, << >>>>
         ELSE <<Nest(f[n - 1][1], s[n]), Grow(f[n - 1][2], s[n])>>]

Parsed(s, open, tokens) == \E f : Reads(s, f) /\ f[Len(s)] = <<open, tokens>>

\* Nothing is read of nothing.
LEMMA ParsedEmpty == Parsed(<< >>, << >>, << >>)
<1>. DEFINE f == [n \in 0 .. 0 |-> <<<< >>, << >>>>]
<1>1. Len(<< >>) = 0
  OBVIOUS
<1>2. Reads(<< >>, f)
  BY <1>1 DEF Reads
<1>3. f[0] = <<<< >>, << >>>>
  OBVIOUS
<1>. HIDE DEF f
<1>. QED  BY <1>1, <1>2, <1>3 DEF Parsed

\* Cell by cell.
LEMMA ReadsSteps ==
  ASSUME NEW s, Len(s) \in Nat, NEW f, Reads(s, f)
  PROVE  /\ f[0] = <<<< >>, << >>>>
         /\ \A n \in 1 .. Len(s) : f[n] = <<Nest(f[n - 1][1], s[n]), Grow(f[n - 1][2], s[n])>>
<1>. DEFINE Step(n) == <<Nest(f[n - 1][1], s[n]), Grow(f[n - 1][2], s[n])>>
            none == <<<< >>, << >>>>
<1>1. f = [n \in 0 .. Len(s) |-> IF n = 0 THEN none ELSE Step(n)]
  BY DEF Reads
<1>. HIDE DEF Step, none
<1>2. f[0] = none /\ \A n \in 1 .. Len(s) : f[n] = Step(n)
  BY <1>1
<1>. QED  BY <1>2 DEF Step, none

\* One more cell is one step more.
LEMMA ParsedAppend ==
  ASSUME NEW S, NEW s \in Seq(S), NEW c \in S, NEW open, NEW tokens, Parsed(s, open, tokens)
  PROVE  Parsed(Append(s, c), Nest(open, c), Grow(tokens, c))
<1>1. PICK f : Reads(s, f) /\ f[Len(s)] = <<open, tokens>>
  BY DEF Parsed
<1>. DEFINE N == Len(s)
            t == Append(s, c)
            end == <<Nest(open, c), Grow(tokens, c)>>
            g == [n \in 0 .. N + 1 |-> IF n = N + 1 THEN end ELSE f[n]]
<1>2. N \in Nat /\ Len(t) = N + 1 /\ t[N + 1] = c /\ \A n \in 1 .. N : t[n] = s[n]
  BY LenProperties, AppendProperties
<1>3. /\ f[0] = <<<< >>, << >>>>
      /\ \A n \in 1 .. N : f[n] = <<Nest(f[n - 1][1], s[n]), Grow(f[n - 1][2], s[n])>>
  BY <1>1, <1>2, ReadsSteps
<1>4. f[N][1] = open /\ f[N][2] = tokens
  BY <1>1
<1>5. g[N + 1] = end /\ \A n \in 0 .. N : g[n] = f[n]
  BY <1>2
<1>. HIDE DEF end, t
<1>6. \A n \in 0 .. N + 1 :
        g[n] = IF n = 0 THEN <<<< >>, << >>>>
               ELSE <<Nest(g[n - 1][1], t[n]), Grow(g[n - 1][2], t[n])>>
  <2>. SUFFICES ASSUME NEW n \in 0 .. N + 1
                PROVE  g[n] = IF n = 0 THEN <<<< >>, << >>>>
                              ELSE <<Nest(g[n - 1][1], t[n]), Grow(g[n - 1][2], t[n])>>
    OBVIOUS
  <2>1. CASE n = 0
    BY <1>2, <1>3, <1>5, <2>1
  <2>2. CASE n \in 1 .. N
    <3>1. n # 0 /\ n - 1 \in 0 .. N /\ n \in 0 .. N
      BY <1>2, <2>2
    <3>. QED  BY <1>2, <1>3, <1>5, <2>2, <3>1
  <2>3. CASE n = N + 1
    <3>1. n # 0 /\ n - 1 = N /\ N \in 0 .. N
      BY <1>2, <2>3
    <3>. QED  BY <1>2, <1>4, <1>5, <2>3, <3>1 DEF end
  <2>. QED  BY <1>2, <2>1, <2>2, <2>3
<1>7. Reads(t, g)
  BY <1>2, <1>6 DEF Reads
<1>. HIDE DEF g
<1>. QED  BY <1>2, <1>5, <1>7 DEF Parsed, t, end

\* The decoder's tokens, and its test of the brackets, are these.
LEMMA ParsedIs ==
  ASSUME NEW S, out \in Seq(S), NEW open, NEW tokens, Parsed(out, open, tokens)
  PROVE  D!Tokens = tokens /\ (D!WellFormed <=> open = << >>)
<1>1. PICK f : Reads(out, f) /\ f[Len(out)] = <<open, tokens>>
  BY DEF Parsed
<1>. DEFINE N == Len(out)
            DefDepth(d) == d = [n \in 0 .. N |-> IF n = 0 THEN << >> ELSE Nest(d[n - 1], out[n])]
            DefFirst(d) == d = [n \in 0 .. N |-> IF n = 0 THEN << >> ELSE Grow(d[n - 1], out[n])]
            depth == CHOOSE d : DefDepth(d)
            first == CHOOSE d : DefFirst(d)
            S1 == {n \in Nat : n <= N => depth[n] = f[n][1] /\ first[n] = f[n][2]}
<1>2. N \in Nat
  BY LenProperties
<1>3. /\ f[0] = <<<< >>, << >>>>
      /\ \A n \in 1 .. N : f[n] = <<Nest(f[n - 1][1], out[n]), Grow(f[n - 1][2], out[n])>>
  BY <1>1, <1>2, ReadsSteps
<1>4. /\ f[0][1] = << >> /\ f[0][2] = << >>
      /\ \A n \in 1 .. N : f[n][1] = Nest(f[n - 1][1], out[n]) /\ f[n][2] = Grow(f[n - 1][2], out[n])
  BY <1>3
<1>5. DefDepth(depth)
  <2>. DEFINE d == [n \in 0 .. N |-> f[n][1]]
  <2>1. \A n \in 0 .. N : d[n] = IF n = 0 THEN << >> ELSE Nest(d[n - 1], out[n])
    BY <1>2, <1>4
  <2>2. DefDepth(d)
    BY <2>1
  <2>. HIDE DEF d, DefDepth
  <2>. QED  BY <2>2
<1>6. DefFirst(first)
  <2>. DEFINE d == [n \in 0 .. N |-> f[n][2]]
  <2>1. \A n \in 0 .. N : d[n] = IF n = 0 THEN << >> ELSE Grow(d[n - 1], out[n])
    BY <1>2, <1>4
  <2>2. DefFirst(d)
    BY <2>1
  <2>. HIDE DEF d, DefFirst
  <2>. QED  BY <2>2
<1>7. D!WellFormed <=> depth[N] = << >>
  BY DEF D!WellFormed, Nest
<1>8. D!Tokens = first[N]
  BY DEF D!Tokens, Grow
<1>. HIDE DEF depth, first
<1>9. /\ depth[0] = << >> /\ first[0] = << >>
      /\ \A n \in 1 .. N : depth[n] = Nest(depth[n - 1], out[n])
      /\ \A n \in 1 .. N : first[n] = Grow(first[n - 1], out[n])
  <2>1. depth[0] = << >> /\ \A n \in 1 .. N : depth[n] = Nest(depth[n - 1], out[n])
    BY <1>2, <1>5
  <2>2. first[0] = << >> /\ \A n \in 1 .. N : first[n] = Grow(first[n - 1], out[n])
    BY <1>2, <1>6
  <2>. QED  BY <2>1, <2>2
<1>. HIDE DEF DefDepth, DefFirst
<1>10. 0 \in S1
  BY <1>4, <1>9
<1>11. ASSUME NEW n \in Nat, n \in S1 PROVE n + 1 \in S1
  <2>1. SUFFICES ASSUME n + 1 <= N PROVE depth[n + 1] = f[n + 1][1] /\ first[n + 1] = f[n + 1][2]
    OBVIOUS
  <2>2. n + 1 \in 1 .. N /\ (n + 1) - 1 = n /\ depth[n] = f[n][1] /\ first[n] = f[n][2]
    BY <1>2, <1>11, <2>1
  <2>. QED  BY <1>4, <1>9, <2>2
<1>12. Nat \subseteq S1
  <2>. HIDE DEF S1
  <2>. QED  BY <1>10, <1>11, SetInduction
<1>13. depth[N] = f[N][1] /\ first[N] = f[N][2]
  BY <1>2, <1>12
<1>. QED  BY <1>1, <1>7, <1>8, <1>13

\* What the marks and the fields open, and what are tokens.
LEMMA OpeningIs ==
  /\ Opening(Mark("lbracket")) = "array" /\ Opening(Mark("lbrace")) = "object"
  /\ \A x \in {"comma", "rbrace", "rbracket"} : Opening(Mark(x)) = "none"
  /\ \A c : c \notin Marks => Opening(c) = "none"
  /\ \A c : IsField(c) <=> c \notin Marks
<1>1. /\ \A x, y \in {"lbracket", "lbrace", "comma", "rbrace", "rbracket"} : Mark(x) = Mark(y) => x = y
      /\ \A x \in {"lbracket", "lbrace", "comma", "rbrace", "rbracket"} : Mark(x) \in Marks
  BY DEF Mark, Marks
<1>. HIDE DEF Mark
<1>. QED  BY <1>1 DEF Opening, IsField

\* What each cell does to what is open and to the tokens.
LEMMA CellsRead ==
  /\ \A open : Nest(open, Mark("comma")) = open
  /\ \A open, c : c \notin Marks => Nest(open, c) = open
  /\ Nest(<< >>, Mark("lbracket")) = <<"array">>
  /\ Nest(<<"array">>, Mark("lbrace")) = <<"object", "array">>
  /\ Nest(<<"object", "array">>, Mark("rbrace")) = <<"array">>
  /\ Nest(<<"array">>, Mark("rbracket")) = << >>
  /\ \A tokens : \A x \in {"comma", "rbrace", "rbracket"} : Grow(tokens, Mark(x)) = tokens
  /\ \A tokens : \A x \in {"lbracket", "lbrace"} : Grow(tokens, Mark(x)) = Append(tokens, Mark(x))
  /\ \A tokens, c : c \notin Marks => Grow(tokens, c) = Append(tokens, c)
<1>1. /\ \A x, y \in {"lbracket", "lbrace", "comma", "rbrace", "rbracket"} : Mark(x) = Mark(y) => x = y
      /\ \A x \in {"lbracket", "lbrace", "comma", "rbrace", "rbracket"} : Mark(x) \in Marks
  BY DEF Mark, Marks
<1>. HIDE DEF Mark
<1>2. /\ Opening(Mark("lbracket")) = "array" /\ Opening(Mark("lbrace")) = "object"
      /\ \A x \in {"comma", "rbrace", "rbracket"} : Opening(Mark(x)) = "none"
      /\ \A c : c \notin Marks => Opening(c) = "none"
  BY OpeningIs
<1>3. /\ Closing(Mark("rbracket")) = "array" /\ Closing(Mark("rbrace")) = "object"
      /\ Closing(Mark("comma")) = "none"
      /\ \A c : c \notin Marks => Closing(c) = "none"
  BY <1>1 DEF Closing
<1>4. /\ \A x \in {"comma", "rbrace", "rbracket"} : ~D!IsToken(Mark(x))
      /\ \A x \in {"lbracket", "lbrace"} : D!IsToken(Mark(x))
      /\ \A c : c \notin Marks => D!IsToken(c)
  BY <1>1, <1>2 DEF D!IsToken, IsField
<1>5. /\ \A open : Nest(open, Mark("comma")) = open
      /\ \A open, c : c \notin Marks => Nest(open, c) = open
  BY <1>2, <1>3 DEF Nest
<1>6. <<"array">> \o << >> = <<"array">> /\ <<"object">> \o <<"array">> = <<"object", "array">>
  <2>. DEFINE a == <<"array">>
              o == <<"object">>
              oa == <<"object", "array">>
              S == {"array", "object"}
  <2>1. a \in Seq(S) /\ o \in Seq(S) /\ oa \in Seq(S)
    OBVIOUS
  <2>2. Len(a) = 1 /\ a[1] = "array" /\ Len(o) = 1 /\ o[1] = "object"
    OBVIOUS
  <2>3. Len(oa) = 2 /\ oa[1] = "object" /\ oa[2] = "array"
    OBVIOUS
  <2>. HIDE DEF a, o, oa, S
  <2>4. a \o << >> = a
    BY <2>1, ConcatEmptySeq
  <2>5. /\ o \o a \in Seq(S) /\ Len(o \o a) = 2
        /\ \A i \in 1 .. 2 : (o \o a)[i] = IF i <= 1 THEN o[i] ELSE a[i - 1]
    <3>1. /\ o \o a \in Seq(S) /\ Len(o \o a) = Len(o) + Len(a)
          /\ \A i \in 1 .. Len(o) + Len(a) :
               (o \o a)[i] = IF i <= Len(o) THEN o[i] ELSE a[i - Len(o)]
      BY <2>1, ConcatProperties
    <3>. QED  BY <2>2, <3>1
  <2>6. (o \o a)[1] = "object" /\ (o \o a)[2] = "array"
    BY <2>2, <2>5
  <2>7. o \o a = oa
    <3>1. \A i \in 1 .. 2 : i = 1 \/ i = 2
      OBVIOUS
    <3>2. \A i \in 1 .. 2 : (o \o a)[i] = oa[i]
      BY <2>3, <2>6, <3>1
    <3>. QED  BY <2>1, <2>3, <2>5, <3>2, SeqEqual
  <2>. QED  BY <2>4, <2>7 DEF a, o, oa
<1>7. << >> # <<"error">> /\ <<"array">> # <<"error">> /\ <<"object", "array">> # <<"error">>
  OBVIOUS
<1>8. /\ Head(<<"object", "array">>) = "object" /\ Tail(<<"object", "array">>) = <<"array">>
      /\ Head(<<"array">>) = "array" /\ Tail(<<"array">>) = << >>
      /\ <<"object", "array">> # << >> /\ <<"array">> # << >>
  OBVIOUS
<1>9. /\ Nest(<< >>, Mark("lbracket")) = <<"array">>
      /\ Nest(<<"array">>, Mark("lbrace")) = <<"object", "array">>
  BY <1>2, <1>6, <1>7 DEF Nest
<1>10. /\ Nest(<<"object", "array">>, Mark("rbrace")) = <<"array">>
       /\ Nest(<<"array">>, Mark("rbracket")) = << >>
  BY <1>2, <1>3, <1>7, <1>8 DEF Nest
<1>11. /\ \A tokens : \A x \in {"comma", "rbrace", "rbracket"} : Grow(tokens, Mark(x)) = tokens
       /\ \A tokens : \A x \in {"lbracket", "lbrace"} : Grow(tokens, Mark(x)) = Append(tokens, Mark(x))
       /\ \A tokens, c : c \notin Marks => Grow(tokens, c) = Append(tokens, c)
  BY <1>4 DEF Grow
<1>. QED  BY <1>5, <1>9, <1>10, <1>11

\* The first n of a sequence.
First(s, n) == [j \in 1 .. n |-> s[j]]

\* One more of it at a time, up to all.
LEMMA FirstGrows ==
  ASSUME NEW S, NEW s \in Seq(S)
  PROVE  /\ First(s, 0) = << >> /\ First(s, Len(s)) = s
         /\ \A n \in 0 .. Len(s) : First(s, n) \in Seq(S) /\ Len(First(s, n)) = n
         /\ \A n \in 1 .. Len(s) : First(s, n) = Append(First(s, n - 1), s[n])
<1>1. Len(s) \in Nat /\ \A i \in 1 .. Len(s) : s[i] \in S
  BY LenProperties, ElementOfSeq
<1>2. ASSUME NEW n \in 0 .. Len(s)
      PROVE  First(s, n) \in Seq(S) /\ Len(First(s, n)) = n /\ \A j \in 1 .. n : First(s, n)[j] = s[j]
  <2>1. n \in Nat /\ First(s, n) \in [1 .. n -> S]
    BY <1>1 DEF First
  <2>. QED  BY <2>1 DEF First
<1>3. First(s, 0) = << >>
  <2>1. 0 \in 0 .. Len(s)
    BY <1>1
  <2>. QED  BY <1>2, <2>1, EmptySeq
<1>4. First(s, Len(s)) = s
  <2>1. Len(s) \in 0 .. Len(s)
    BY <1>1
  <2>. QED  BY <1>2, <2>1, SeqEqual
<1>5. ASSUME NEW n \in 1 .. Len(s) PROVE First(s, n) = Append(First(s, n - 1), s[n])
  <2>. DEFINE u == First(s, n - 1)
              v == First(s, n)
              w == Append(u, s[n])
  <2>1. n - 1 \in 0 .. Len(s) /\ n \in 0 .. Len(s) /\ (n - 1) + 1 = n /\ s[n] \in S
    BY <1>1
  <2>2. u \in Seq(S) /\ Len(u) = n - 1 /\ \A j \in 1 .. n - 1 : u[j] = s[j]
    BY <1>2, <2>1
  <2>3. v \in Seq(S) /\ Len(v) = n /\ \A j \in 1 .. n : v[j] = s[j]
    BY <1>2, <2>1
  <2>. HIDE DEF u, v
  <2>4. /\ w \in Seq(S) /\ Len(w) = Len(u) + 1 /\ w[Len(u) + 1] = s[n]
        /\ \A j \in 1 .. Len(u) : w[j] = u[j]
    BY <2>1, <2>2, AppendProperties
  <2>. HIDE DEF w
  <2>5. \A j \in 1 .. n : j \in 1 .. n - 1 \/ j = n
    BY <2>1
  <2>6. \A j \in 1 .. n : v[j] = w[j]
    BY <2>1, <2>2, <2>3, <2>4, <2>5
  <2>7. v = w
    BY <2>1, <2>2, <2>3, <2>4, <2>6, SeqEqual
  <2>. QED  BY <2>7 DEF u, v, w
<1>. QED  BY <1>2, <1>3, <1>4, <1>5

\* Fields with commas between them open and close nothing, and each is a token.
LEMMA ParsedCommas ==
  ASSUME NEW S, Marks \subseteq S, NEW s \in Seq(S), NEW open, NEW t \in Seq(S),
         Parsed(s, open, t),
         NEW cells \in Seq(S), \A i \in 1 .. Len(cells) : cells[i] \notin Marks
  PROVE  Parsed(s \o Commas(cells), open, t \o cells)
<1>. DEFINE L == Len(cells)
            all == Commas(cells)
            half(n) == (n + 1) \div 2
            R == {n \in Nat : n <= Len(all) =>
                    Parsed(s \o First(all, n), open, t \o First(cells, half(n)))}
<1>1. L \in Nat /\ \A i \in 1 .. L : cells[i] \in S
  BY LenProperties, ElementOfSeq
<1>2. Mark("comma") \in S
  BY DEF Marks
<1>3. CASE L = 0
  <2>1. cells = << >>
    BY <1>3, EmptySeq
  <2>2. all = << >>
    BY <1>3 DEF Commas
  <2>. HIDE DEF all
  <2>3. s \o all = s /\ t \o cells = t
    BY <2>1, <2>2, ConcatEmptySeq
  <2>. QED  BY <2>3 DEF all
<1>4. CASE L # 0
  <2>1. all \in Seq(S)
    BY EndedCells
  <2>2. Len(all) = 2 * L - 1 /\ 2 * L - 1 \in Nat
    <3>1. 2 * L - 1 \in Nat
      BY <1>1, <1>4
    <3>. QED  BY <3>1 DEF Commas
  <2>3. \A j \in 1 .. 2 * L - 1 : all[j] = IF j % 2 = 1 THEN cells[half(j)] ELSE Mark("comma")
    BY DEF Commas
  <2>. HIDE DEF all, L
  <2>4. 0 \in R
    <3>1. half(0) = 0
      OBVIOUS
    <3>. HIDE DEF half
    <3>2. First(all, 0) = << >> /\ First(cells, half(0)) = << >>
      BY <2>1, <3>1, FirstGrows
    <3>3. s \o First(all, 0) = s /\ t \o First(cells, half(0)) = t
      BY <3>2, ConcatEmptySeq
    <3>. QED  BY <3>3
  <2>5. ASSUME NEW n \in Nat, n \in R PROVE n + 1 \in R
    <3>. DEFINE i == half(n + 1)
                j == half(n)
                c == all[n + 1]
                u == First(all, n)
                v == First(cells, j)
    <3>1. SUFFICES ASSUME n + 1 <= Len(all)
                   PROVE  Parsed(s \o First(all, n + 1), open, t \o First(cells, i))
      OBVIOUS
    <3>2. n + 1 \in 1 .. 2 * L - 1 /\ n \in 0 .. Len(all) /\ n + 1 \in 1 .. Len(all) /\ (n + 1) - 1 = n
      BY <1>1, <2>2, <3>1
    <3>3. i \in 1 .. L /\ j \in 0 .. L
      BY <1>1, <3>2
    <3>4. (n + 1) % 2 = 1 => i = j + 1
      BY <3>2
    <3>5. (n + 1) % 2 # 1 => i = j
      BY <3>2
    <3>6. c = IF (n + 1) % 2 = 1 THEN cells[i] ELSE Mark("comma")
      BY <2>3, <3>2
    <3>7. Parsed(s \o u, open, t \o v)
      BY <2>5, <3>2
    <3>. HIDE DEF half, R
    <3>8. u \in Seq(S) /\ First(all, n + 1) = Append(u, c)
      BY <2>1, <3>2, FirstGrows
    <3>9. v \in Seq(S) /\ First(cells, i) \in Seq(S) /\ (i = j + 1 => First(cells, i) = Append(v, cells[i]))
      <4>1. i \in 0 .. L /\ (i = j + 1 => i - 1 = j)
        BY <1>1, <3>3
      <4>. HIDE DEF i, j
      <4>. QED  BY <3>3, <4>1, FirstGrows DEF L
    <3>. HIDE DEF i, j, u, v, c
    <3>10. c \in S
      BY <1>1, <1>2, <3>3, <3>6 DEF L
    <3>11. s \o First(all, n + 1) = Append(s \o u, c) /\ s \o u \in Seq(S)
      <4>1. s \o Append(u, c) = Append(s \o u, c)
        BY <3>8, <3>10, ConcatAppend
      <4>2. s \o u \in Seq(S)
        BY <3>8, ConcatProperties
      <4>. QED  BY <3>8, <4>1, <4>2
    <3>12. Parsed(s \o First(all, n + 1), Nest(open, c), Grow(t \o v, c))
      BY <3>7, <3>10, <3>11, ParsedAppend
    <3>13. CASE (n + 1) % 2 = 1
      <4>1. c = cells[i] /\ c \notin Marks /\ First(cells, i) = Append(v, c)
        BY <3>3, <3>4, <3>6, <3>9, <3>13 DEF L
      <4>2. Nest(open, c) = open /\ Grow(t \o v, c) = Append(t \o v, c)
        BY <4>1, CellsRead
      <4>3. t \o First(cells, i) = Append(t \o v, c)
        BY <3>9, <3>10, <4>1, ConcatAppend
      <4>. QED  BY <3>12, <4>2, <4>3
    <3>14. CASE (n + 1) % 2 # 1
      <4>1. c = Mark("comma") /\ First(cells, i) = v
        BY <3>5, <3>6, <3>14 DEF v
      <4>2. Nest(open, c) = open /\ Grow(t \o v, c) = t \o v
        BY <4>1, CellsRead
      <4>. QED  BY <3>12, <4>1, <4>2
    <3>. QED  BY <3>13, <3>14
  <2>6. Len(all) \in R
    <3>. HIDE DEF R
    <3>. QED  BY <2>2, <2>4, <2>5, SetInduction
  <2>7. half(Len(all)) = Len(cells)
    BY <1>1, <2>2 DEF L
  <2>8. Parsed(s \o First(all, Len(all)), open, t \o First(cells, Len(cells)))
    <3>. HIDE DEF half
    <3>. QED  BY <2>2, <2>6, <2>7
  <2>9. First(all, Len(all)) = all /\ First(cells, Len(cells)) = cells
    BY <2>1, FirstGrows
  <2>. QED  BY <2>8, <2>9 DEF all
<1>. QED  BY <1>3, <1>4

\* All members of record i's object.
Whole(p, i) == Members(p, i, Len(p.records[i]))

\* The base information that goes before a record's fields.
Ahead(p, i) == IF i = 1 THEN Len(p.base) ELSE 0

\* They are fields of the record, after the base information in the first.
LEMMA WholeType ==
  ASSUME NEW p \in Pack, NEW i \in 1 .. Len(p.records)
  PROVE  /\ Ahead(p, i) \in Nat /\ Len(p.records[i]) \in Nat
         /\ Whole(p, i) \in Seq(CellsOf(p)) /\ Len(Whole(p, i)) = Ahead(p, i) + Len(p.records[i])
         /\ \A j \in 1 .. Ahead(p, i) + Len(p.records[i]) :
              /\ Whole(p, i)[j] = IF j <= Ahead(p, i) THEN <<0, j>> ELSE <<i, j - Ahead(p, i)>>
              /\ Whole(p, i)[j] \notin Marks
<1>. DEFINE width == Len(p.records[i])
<1>1. Ahead(p, i) \in Nat /\ width \in Nat /\ width \in 0 .. Len(p.records[i])
  BY PackLengths DEF Ahead
<1>2. Whole(p, i) \in Seq(CellsOf(p)) /\ Len(Whole(p, i)) = Ahead(p, i) + width
  BY <1>1, MembersType DEF Whole, Ahead
<1>3. \A j \in 1 .. Ahead(p, i) + width :
        Whole(p, i)[j] = IF j <= Ahead(p, i) THEN <<0, j>> ELSE <<i, j - Ahead(p, i)>>
  BY DEF Whole, Members, Ahead
<1>4. \A a, b : <<a, b>> \notin Marks
  BY DEF Marks, Mark
<1>5. \A j \in 1 .. Ahead(p, i) + width : Whole(p, i)[j] \notin Marks
  BY <1>3, <1>4
<1>. QED  BY <1>1, <1>2, <1>3, <1>5

\* An object is read as its opening brace and its members.
LEMMA ParsedObject ==
  ASSUME NEW p \in Pack, NEW i \in 1 .. Len(p.records),
         NEW s \in Seq(CellsOf(p)), NEW t \in Seq(CellsOf(p)), Parsed(s, <<"array">>, t)
  PROVE  Parsed(s \o Object(p, i), <<"array">>, Append(t, Mark("lbrace")) \o Whole(p, i))
<1>. DEFINE A == CellsOf(p)
            l == Mark("lbrace")
            e == Mark("rbrace")
            w == Whole(p, i)
            c == Commas(w)
            sl == Append(s, l)
            tl == Append(t, l)
<1>1. w \in Seq(A) /\ \A j \in 1 .. Len(w) : w[j] \notin Marks
  BY WholeType
<1>2. Marks \subseteq A /\ l \in A /\ e \in A
  BY AreCells
<1>3. c \in Seq(A)
  BY <1>1, <1>2, EndedCells
<1>4. Object(p, i) = (<<l>> \o c) \o <<e>>
  BY DEF Object, Whole
<1>5. s \in Seq(A) /\ t \in Seq(A)
  OBVIOUS
<1>6. sl \in Seq(A) /\ tl \in Seq(A)
  <2>. HIDE DEF A, l
  <2>. QED  BY <1>2, <1>5, AppendProperties
<1>7. Parsed(sl, <<"object", "array">>, tl)
  <2>1. Parsed(sl, Nest(<<"array">>, l), Grow(t, l))
    <3>. HIDE DEF A, l
    <3>. QED  BY <1>2, <1>5, ParsedAppend
  <2>. QED  BY <2>1, CellsRead
<1>. HIDE DEF A, l, e, w, c, sl, tl
<1>8. Parsed(sl \o c, <<"object", "array">>, tl \o w)
  BY <1>1, <1>2, <1>6, <1>7, ParsedCommas DEF c
<1>9. sl \o c \in Seq(A)
  BY <1>3, <1>6, ConcatProperties
<1>10. Parsed(Append(sl \o c, e), Nest(<<"object", "array">>, e), Grow(tl \o w, e))
  BY <1>2, <1>8, <1>9, ParsedAppend
<1>11. Parsed(Append(sl \o c, e), <<"array">>, tl \o w)
  BY <1>10, CellsRead DEF e
<1>12. s \o Object(p, i) = Append(sl \o c, e)
  <2>. DEFINE ll == <<l>>
              ee == <<e>>
  <2>1. ll \in Seq(A) /\ ee \in Seq(A)
    BY <1>2
  <2>2. sl = s \o ll
    BY <1>2, <1>5, AppendIsConcat DEF sl
  <2>3. Append(sl \o c, e) = (sl \o c) \o ee
    BY <1>2, <1>9, AppendIsConcat
  <2>. HIDE DEF ll, ee
  <2>4. ll \o c \in Seq(A)
    BY <1>3, <2>1, ConcatProperties
  <2>5. s \o ((ll \o c) \o ee) = (s \o (ll \o c)) \o ee
    <3>. DEFINE lc == ll \o c
    <3>1. s \in Seq(A) /\ lc \in Seq(A) /\ ee \in Seq(A)
      BY <1>5, <2>1, <2>4
    <3>. HIDE DEF lc
    <3>2. s \o (lc \o ee) = (s \o lc) \o ee
      BY <3>1, JoinRight
    <3>. QED  BY <3>2 DEF lc
  <2>6. s \o (ll \o c) = (s \o ll) \o c
    <3>1. s \in Seq(A) /\ ll \in Seq(A) /\ c \in Seq(A)
      BY <1>3, <1>5, <2>1
    <3>. QED  BY <3>1, JoinRight
  <2>. QED  BY <1>4, <2>2, <2>3, <2>5, <2>6 DEF ll, ee
<1>. QED  BY <1>11, <1>12 DEF l, w, tl

\* The records that have fields, one record at a time.
LEMMA FullAre ==
  ASSUME NEW p \in Pack
  PROVE  \E f : /\ Full(p) = f[Len(p.records)]
                /\ f[0] = << >>
                /\ \A n \in 0 .. Len(p.records) : f[n] \in Seq(1 .. Len(p.records))
                /\ \A n \in 1 .. Len(p.records) :
                     f[n] = IF p.records[n] = << >> THEN f[n - 1] ELSE Append(f[n - 1], n)
<1>. DEFINE N == Len(p.records)
            A == Seq(1 .. N)
            With(n, s) == IF p.records[n] = << >> THEN s ELSE Append(s, n)
            G == [x \in (1 .. N) \X A |-> With(x[1], x[2])]
            Def(f) == f = [n \in 0 .. N |-> IF n = 0 THEN << >> ELSE With(n, f[n - 1])]
            f == CHOOSE g : Def(g)
            S == {n \in Nat : n <= N => f[n] \in A}
<1>1. N \in Nat /\ << >> \in A
  BY PackLengths, EmptySeq
<1>2. ASSUME NEW n \in 1 .. N, NEW s \in A PROVE With(n, s) \in A
  BY AppendProperties
<1>3. Full(p) = f[N]
  BY DEF Full
<1>. HIDE DEF A, N, With
<1>4. G \in [(1 .. N) \X A -> A]
  BY <1>2
<1>5. ASSUME NEW n \in 1 .. N, NEW s \in A PROVE G[<<n, s>>] = With(n, s)
  <2>1. <<n, s>> \in (1 .. N) \X A
    OBVIOUS
  <2>. QED  BY <2>1
<1>. HIDE DEF G
<1>6. PICK g \in [0 .. N -> A] : BuiltUp(g, N, << >>, G)
  BY <1>1, <1>4, Recursion
<1>7. Def(g)
  <2>1. g[0] = << >> /\ \A n \in 1 .. N : g[n] = G[<<n, g[n - 1]>>]
    BY <1>6 DEF BuiltUp
  <2>2. ASSUME NEW n \in 1 .. N PROVE g[n] = With(n, g[n - 1])
    <3>1. g[n - 1] \in A
      BY <1>1, <1>6
    <3>. QED  BY <1>5, <2>1, <3>1
  <2>3. ASSUME NEW n \in 0 .. N PROVE g[n] = IF n = 0 THEN << >> ELSE With(n, g[n - 1])
    <3>1. n = 0 \/ n \in 1 .. N
      BY <1>1
    <3>. QED  BY <2>1, <2>2, <3>1
  <2>. QED  BY <1>6, <2>3
<1>8. Def(f)
  BY <1>7
<1>. HIDE DEF f
<1>9. f[0] = << >> /\ \A n \in 1 .. N : f[n] = With(n, f[n - 1])
  BY <1>1, <1>8
<1>. HIDE DEF Def
<1>10. 0 \in S
  BY <1>1, <1>9
<1>11. ASSUME NEW n \in Nat, n \in S PROVE n + 1 \in S
  <2>1. SUFFICES ASSUME n + 1 <= N PROVE f[n + 1] \in A
    OBVIOUS
  <2>2. n + 1 \in 1 .. N /\ (n + 1) - 1 = n /\ f[n] \in A
    BY <1>1, <1>11, <2>1
  <2>. QED  BY <1>2, <1>9, <2>2
<1>12. Nat \subseteq S
  <2>. HIDE DEF S
  <2>. QED  BY <1>10, <1>11, SetInduction
<1>13. \A n \in 0 .. N : f[n] \in A
  BY <1>1, <1>12
<1>. QED  BY <1>3, <1>9, <1>13 DEF A, N, With

\* The tokens are the array, and the objects of the records in full with their
\* members; start[m] is where the m-th object stands among them.
Listing(p, tokens, full, start) ==
  /\ tokens \in Seq(CellsOf(p)) /\ Len(tokens) > 0 /\ tokens[1] = Mark("lbracket")
  /\ full \in Seq(1 .. Len(p.records))
  /\ start \in [1 .. Len(full) + 1 -> Nat]
  /\ start[1] = 2 /\ start[Len(full) + 1] = Len(tokens) + 1
  /\ \A m \in 1 .. Len(full) :
       /\ p.records[full[m]] # << >> /\ (full[m] = 1 => m = 1)
       /\ start[m] >= 2 /\ start[m + 1] = start[m] + 1 + Len(Whole(p, full[m]))
       /\ start[m + 1] <= Len(tokens) + 1
       /\ tokens[start[m]] = Mark("lbrace")
       /\ \A j \in 1 .. Len(Whole(p, full[m])) : tokens[start[m] + j] = Whole(p, full[m])[j]

\* One record more.
LEMMA ListingGrows ==
  ASSUME NEW p \in Pack, NEW n \in 1 .. Len(p.records), p.records[n] # << >>,
         NEW tokens, NEW full, NEW start, Listing(p, tokens, full, start), n = 1 => full = << >>
  PROVE  \E more : Listing(p, Append(tokens, Mark("lbrace")) \o Whole(p, n), Append(full, n), more)
<1>. DEFINE A == CellsOf(p)
            R == 1 .. Len(p.records)
            w == Whole(p, n)
            u == Append(tokens, Mark("lbrace"))
            t == u \o w
            F == Append(full, n)
            N == Len(full)
            T == Len(tokens)
            W == Len(w)
            more == [m \in 1 .. N + 2 |-> IF m <= N + 1 THEN start[m] ELSE T + W + 2]
<1>1. /\ N \in Nat /\ F \in Seq(R) /\ Len(F) = N + 1 /\ F[N + 1] = n
      /\ \A m \in 1 .. N : F[m] = full[m]
  <2>1. full \in Seq(R) /\ n \in R
    BY DEF Listing
  <2>. HIDE DEF R
  <2>. QED  BY <2>1, LenProperties, AppendProperties
<1>2. tokens \in Seq(A) /\ T \in Nat /\ T > 0
  BY LenProperties DEF Listing
<1>3. w \in Seq(A) /\ W \in Nat
  BY WholeType, LenProperties
<1>4. /\ u \in Seq(A) /\ Len(u) = T + 1 /\ u[T + 1] = Mark("lbrace")
      /\ \A x \in 1 .. T : u[x] = tokens[x]
  <2>1. Mark("lbrace") \in A
    BY AreCells
  <2>. HIDE DEF A
  <2>. QED  BY <1>2, <2>1, AppendProperties
<1>5. /\ t \in Seq(A) /\ Len(t) = T + 1 + W
      /\ \A x \in 1 .. T : t[x] = tokens[x]
      /\ t[T + 1] = Mark("lbrace")
      /\ \A j \in 1 .. W : t[T + 1 + j] = w[j]
  <2>. HIDE DEF A, u, w
  <2>1. /\ t \in Seq(A) /\ Len(t) = Len(u) + W
        /\ \A x \in 1 .. Len(u) + W : t[x] = IF x <= Len(u) THEN u[x] ELSE w[x - Len(u)]
    BY <1>3, <1>4, ConcatProperties
  <2>. HIDE DEF t
  <2>2. ASSUME NEW j \in 1 .. W PROVE t[T + 1 + j] = w[j]
    <3>1. T + 1 + j \in 1 .. Len(u) + W /\ ~(T + 1 + j <= Len(u)) /\ (T + 1 + j) - Len(u) = j
      BY <1>2, <1>3, <1>4
    <3>. QED  BY <2>1, <3>1
  <2>3. /\ \A x \in 1 .. T : x \in 1 .. Len(u) + W /\ x <= Len(u)
        /\ T + 1 \in 1 .. Len(u) + W /\ T + 1 <= Len(u)
    BY <1>2, <1>3, <1>4
  <2>. QED  BY <1>2, <1>3, <1>4, <2>1, <2>2, <2>3
<1>6. /\ start \in [1 .. N + 1 -> Nat] /\ start[1] = 2 /\ start[N + 1] = T + 1
      /\ tokens[1] = Mark("lbracket")
      /\ \A m \in 1 .. N :
           /\ p.records[full[m]] # << >> /\ (full[m] = 1 => m = 1)
           /\ start[m] >= 2 /\ start[m + 1] = start[m] + 1 + Len(Whole(p, full[m]))
           /\ start[m + 1] <= T + 1
           /\ tokens[start[m]] = Mark("lbrace")
           /\ \A j \in 1 .. Len(Whole(p, full[m])) : tokens[start[m] + j] = Whole(p, full[m])[j]
  BY DEF Listing
<1>. HIDE DEF A, R, w, u, t, F, W, T, N
<1>7. /\ more \in [1 .. N + 2 -> Nat]
      /\ \A m \in 1 .. N + 1 : more[m] = start[m]
      /\ more[N + 2] = T + W + 2
  BY <1>1, <1>2, <1>3, <1>6
<1>. HIDE DEF more
<1>8. ASSUME NEW m \in 1 .. N + 1
      PROVE  /\ p.records[F[m]] # << >> /\ (F[m] = 1 => m = 1)
             /\ more[m] >= 2 /\ more[m + 1] = more[m] + 1 + Len(Whole(p, F[m]))
             /\ more[m + 1] <= Len(t) + 1
             /\ t[more[m]] = Mark("lbrace")
             /\ \A j \in 1 .. Len(Whole(p, F[m])) : t[more[m] + j] = Whole(p, F[m])[j]
  <2>1. CASE m \in 1 .. N
    <3>1. F[m] = full[m] /\ more[m] = start[m] /\ more[m + 1] = start[m + 1] /\ start[m] \in Nat
      <4>1. m \in 1 .. N + 1 /\ m + 1 \in 1 .. N + 1
        BY <1>1, <2>1
      <4>2. F[m] = full[m]
        BY <1>1, <2>1
      <4>3. more[m] = start[m] /\ more[m + 1] = start[m + 1]
        BY <1>7, <4>1
      <4>4. start[m] \in Nat
        BY <1>6, <4>1
      <4>. QED  BY <4>2, <4>3, <4>4
    <3>2. full[m] \in R
      BY <2>1, ElementOfSeq DEF Listing, R, N
    <3>. DEFINE V == Len(Whole(p, full[m]))
    <3>3. V \in Nat
      BY <3>2, WholeType, LenProperties DEF R
    <3>4. start[m] >= 2 /\ start[m + 1] = start[m] + 1 + V /\ start[m + 1] <= T + 1
      BY <1>6, <2>1
    <3>. HIDE DEF V
    <3>5. start[m] \in 1 .. T /\ \A j \in 1 .. V : start[m] + j \in 1 .. T
      <4>. DEFINE x == start[m]
      <4>1. x \in Nat /\ x >= 2 /\ x + 1 + V <= T + 1
        BY <3>1, <3>4
      <4>. HIDE DEF x
      <4>2. T \in Nat /\ V \in Nat
        BY <1>2, <3>3
      <4>3. x \in 1 .. T
        BY <4>1, <4>2
      <4>4. ASSUME NEW j \in 1 .. V PROVE x + j \in 1 .. T
        BY <4>1, <4>2
      <4>. QED  BY <4>3, <4>4 DEF x
    <3>6. t[start[m]] = Mark("lbrace") /\ \A j \in 1 .. V : t[start[m] + j] = Whole(p, full[m])[j]
      <4>1. /\ tokens[start[m]] = Mark("lbrace")
            /\ \A j \in 1 .. V : tokens[start[m] + j] = Whole(p, full[m])[j]
        BY <1>6, <2>1 DEF V
      <4>2. \A x \in 1 .. T : t[x] = tokens[x]
        BY <1>5
      <4>. QED  BY <3>5, <4>1, <4>2
    <3>7. start[m + 1] <= Len(t) + 1
      BY <1>2, <1>3, <1>5, <3>1, <3>3, <3>4
    <3>. QED  BY <1>6, <2>1, <3>1, <3>4, <3>6, <3>7 DEF V
  <2>2. CASE m = N + 1
    <3>1. F[m] = n /\ more[m] = T + 1 /\ more[m + 1] = T + W + 2
      <4>1. m + 1 = N + 2 /\ N + 1 \in 1 .. N + 1
        BY <1>1, <2>2
      <4>. QED  BY <1>1, <1>6, <1>7, <2>2, <4>1
    <3>2. n = 1 => m = 1
      BY <2>2 DEF N
    <3>3. t[more[m]] = Mark("lbrace") /\ \A j \in 1 .. W : t[more[m] + j] = w[j]
      BY <1>5, <3>1
    <3>4. more[m] >= 2 /\ more[m + 1] = more[m] + 1 + W /\ more[m + 1] <= Len(t) + 1
      BY <1>2, <1>3, <1>5, <3>1
    <3>. QED  BY <3>1, <3>2, <3>3, <3>4 DEF W, w
  <2>. QED  BY <1>1, <2>1, <2>2
<1>9. /\ Len(t) > 0 /\ t[1] = Mark("lbracket") /\ more[1] = 2 /\ more[Len(F) + 1] = Len(t) + 1
      /\ more \in [1 .. Len(F) + 1 -> Nat]
  <2>1. 1 \in 1 .. N + 1 /\ Len(F) + 1 = N + 2
    BY <1>1
  <2>2. 1 \in 1 .. T /\ Len(t) + 1 = T + W + 2 /\ Len(t) > 0
    BY <1>2, <1>3, <1>5
  <2>. QED  BY <1>5, <1>6, <1>7, <2>1, <2>2
<1>10. Listing(p, t, F, more)
  BY <1>1, <1>5, <1>8, <1>9 DEF Listing, A, R
<1>. QED  BY <1>10 DEF t, u, w, F

\* The array with the first records' objects is read as their listing, and the first
\* record is the first of those that have fields if it has any.
LEMMA OpenedIsListed ==
  ASSUME NEW p \in Pack, NEW f, f[0] = << >>,
         \A n \in 0 .. Len(p.records) : f[n] \in Seq(1 .. Len(p.records)),
         \A n \in 1 .. Len(p.records) :
           f[n] = IF p.records[n] = << >> THEN f[n - 1] ELSE Append(f[n - 1], n),
         NEW n \in 0 .. Len(p.records)
  PROVE  /\ \E tokens, start : /\ Parsed(<<Mark("lbracket")>> \o Objects(p)[n], <<"array">>, tokens)
                               /\ Listing(p, tokens, f[n], start)
         /\ n > 0 /\ p.records[1] # << >> => Len(f[n]) > 0 /\ f[n][1] = 1
<1>. DEFINE A == CellsOf(p)
            N == Len(p.records)
            L == <<Mark("lbracket")>>
            Listed(i) == \E tokens, start : /\ Parsed(L \o Objects(p)[i], <<"array">>, tokens)
                                            /\ Listing(p, tokens, f[i], start)
            Starts(i) == i > 0 /\ p.records[1] # << >> => Len(f[i]) > 0 /\ f[i][1] = 1
            S == {i \in Nat : i <= N => Listed(i) /\ Starts(i)}
<1>1. N \in Nat
  BY PackLengths
<1>2. L \in Seq(A) /\ Len(L) = 1 /\ L[1] = Mark("lbracket") /\ Mark("lbracket") \in A
  BY AreCells
<1>3. /\ Objects(p)[0] = << >>
      /\ \A i \in 0 .. N : Objects(p)[i] \in Seq(A)
      /\ \A i \in 1 .. N : Objects(p)[i] = WithObject(p, i, Objects(p)[i - 1])
  BY ObjectsAre
<1>. HIDE DEF L
<1>4. 0 \in S
  <2>1. L \o Objects(p)[0] = L
    BY <1>2, <1>3, ConcatEmptySeq
  <2>2. Parsed(L, <<"array">>, L)
    <3>1. Append(<< >>, Mark("lbracket")) = L
      BY DEF L
    <3>2. << >> \in Seq(A)
      BY EmptySeq
    <3>3. Parsed(Append(<< >>, Mark("lbracket")), Nest(<< >>, Mark("lbracket")), Grow(<< >>, Mark("lbracket")))
      <4>. HIDE DEF A
      <4>. QED  BY <1>2, <3>2, ParsedEmpty, ParsedAppend
    <3>4. Grow(<< >>, Mark("lbracket")) = Append(<< >>, Mark("lbracket"))
      BY CellsRead
    <3>. QED  BY <3>1, <3>3, <3>4, CellsRead
  <2>3. Listing(p, L, << >>, [m \in 1 .. 1 |-> 2])
    <3>1. Len(<< >>) = 0 /\ << >> \in Seq(1 .. N)
      BY EmptySeq
    <3>. DEFINE start == [m \in 1 .. 1 |-> 2]
    <3>2. start \in [1 .. 1 -> Nat] /\ start[1] = 2
      OBVIOUS
    <3>. HIDE DEF start
    <3>3. 0 + 1 = 1 /\ 1 + 1 = 2 /\ 1 .. 0 = {} /\ 1 > 0
      OBVIOUS
    <3>4. Listing(p, L, << >>, start)
      BY <1>2, <3>1, <3>2, <3>3 DEF Listing
    <3>. QED  BY <3>4 DEF start
  <2>4. Listed(0)
    BY <2>1, <2>2, <2>3
  <2>. QED  BY <2>4
<1>5. ASSUME NEW i \in Nat, i \in S PROVE i + 1 \in S
  <2>1. SUFFICES ASSUME i + 1 <= N PROVE Listed(i + 1) /\ Starts(i + 1)
    OBVIOUS
  <2>. DEFINE n1 == i + 1
              O == Objects(p)[i]
  <2>2. n1 \in 1 .. N /\ n1 - 1 = i /\ i \in 0 .. N /\ n1 > 0
    BY <1>1, <2>1
  <2>3. Listed(i) /\ Starts(i)
    BY <1>5, <2>2
  <2>4. O \in Seq(A) /\ Objects(p)[n1] = WithObject(p, n1, O)
    BY <1>3, <2>2
  <2>5. f[n1] = IF p.records[n1] = << >> THEN f[i] ELSE Append(f[i], n1)
    BY <2>2
  <2>6. f[i] \in Seq(1 .. N)
    BY <2>2
  <2>7. Starts(n1)
    <3>1. CASE i = 0
      <4>1. n1 = 1 /\ f[i] = << >>
        BY <3>1
      <4>2. p.records[1] # << >> => f[n1] = <<1>>
        BY <2>5, <4>1
      <4>. QED  BY <4>2
    <3>2. CASE i # 0
      <4>. HIDE DEF N
      <4>1. SUFFICES ASSUME p.records[1] # << >> PROVE Len(f[n1]) > 0 /\ f[n1][1] = 1
        OBVIOUS
      <4>2. Len(f[i]) > 0 /\ f[i][1] = 1 /\ Len(f[i]) \in Nat
        BY <2>3, <2>6, <3>2, <4>1, LenProperties
      <4>3. /\ Len(Append(f[i], n1)) = Len(f[i]) + 1
            /\ \A j \in 1 .. Len(f[i]) : Append(f[i], n1)[j] = f[i][j]
        BY <2>2, <2>6, AppendProperties
      <4>. QED  BY <2>5, <4>2, <4>3
    <3>. QED  BY <3>1, <3>2
  <2>8. Listed(n1)
    <3>1. PICK t, start : Parsed(L \o O, <<"array">>, t) /\ Listing(p, t, f[i], start)
      BY <2>3
    <3>2. CASE p.records[n1] = << >>
      <4>1. Objects(p)[n1] = O /\ f[n1] = f[i]
        BY <2>4, <2>5, <3>2 DEF WithObject
      <4>. QED  BY <3>1, <4>1
    <3>3. CASE p.records[n1] # << >>
      <4>. DEFINE B == Object(p, n1)
                  t1 == Append(t, Mark("lbrace")) \o Whole(p, n1)
                  s == L \o Trailing(O)
      <4>1. Objects(p)[n1] = Trailing(O) \o B /\ B \in Seq(A)
        BY <2>2, <2>4, <3>3, WithObjectType
      <4>2. t \in Seq(A)
        BY <3>1 DEF Listing
      <4>3. Trailing(O) \in Seq(A) /\ s \in Seq(A)
        BY <2>2, OpenedType DEF Opened, L
      <4>4. Parsed(s, <<"array">>, t)
        <5>1. CASE O = << >>
          BY <3>1, <5>1 DEF Trailing
        <5>2. CASE O # << >>
          <6>. DEFINE c == Mark("comma")
          <6>1. c \in A
            BY AreCells
          <6>. HIDE DEF A, O, c
          <6>2. Trailing(O) = O \o <<c>>
            BY <5>2 DEF Trailing, c
          <6>3. O \o <<c>> = Append(O, c)
            BY <2>4, <6>1, AppendIsConcat
          <6>4. L \o Append(O, c) = Append(L \o O, c)
            BY <1>2, <2>4, <6>1, ConcatAppend
          <6>5. L \o O \in Seq(A)
            BY <1>2, <2>4, ConcatProperties
          <6>6. Parsed(Append(L \o O, c), Nest(<<"array">>, c), Grow(t, c))
            BY <3>1, <6>1, <6>5, ParsedAppend
          <6>7. Nest(<<"array">>, c) = <<"array">> /\ Grow(t, c) = t
            BY CellsRead DEF c
          <6>. QED  BY <6>2, <6>3, <6>4, <6>6, <6>7
        <5>. QED  BY <5>1, <5>2
      <4>5. Parsed(s \o B, <<"array">>, t1)
        <5>. HIDE DEF s, O
        <5>. QED  BY <2>2, <4>2, <4>3, <4>4, ParsedObject
      <4>6. L \o Objects(p)[n1] = s \o B
        <5>. DEFINE T == Trailing(O)
        <5>1. L \in Seq(A) /\ T \in Seq(A) /\ B \in Seq(A)
          BY <1>2, <4>1, <4>3
        <5>. HIDE DEF T, B, A
        <5>2. L \o (T \o B) = (L \o T) \o B
          BY <5>1, JoinRight, SMTT(30)
        <5>. QED  BY <4>1, <5>2 DEF T
      <4>7. PICK more : Listing(p, t1, Append(f[i], n1), more)
        <5>1. n1 = 1 => f[i] = << >>
          BY <2>2
        <5>. QED  BY <2>2, <3>1, <3>3, <5>1, ListingGrows
      <4>. HIDE DEF t1, s, B
      <4>. QED  BY <2>5, <3>3, <4>5, <4>6, <4>7
    <3>. QED  BY <3>2, <3>3
  <2>. QED  BY <2>7, <2>8
<1>6. Nat \subseteq S
  <2>. HIDE DEF S
  <2>. QED  BY <1>4, <1>5, SetInduction
<1>7. Listed(n) /\ Starts(n)
  <2>1. n \in S /\ n <= N
    BY <1>1, <1>6
  <2>. HIDE DEF Listed, Starts
  <2>. QED  BY <2>1
<1>. QED  BY <1>7 DEF L

\* The document is an array: nothing stays open, and its tokens are the listing of
\* the records that have fields.
LEMMA DocumentIsListed ==
  ASSUME NEW p \in Pack
  PROVE  /\ \E tokens, start : /\ Parsed(Document(p), << >>, tokens)
                               /\ Listing(p, tokens, Full(p), start)
         /\ Len(p.records) > 0 /\ p.records[1] # << >> => Len(Full(p)) > 0 /\ Full(p)[1] = 1
         /\ Document(p) \in Seq(CellsOf(p)) /\ Document(p) # << >>
         /\ Document(p)[1] = Mark("lbracket")
<1>. DEFINE A == CellsOf(p)
            N == Len(p.records)
            O == Objects(p)[N]
            L == <<Mark("lbracket")>>
            e == Mark("rbracket")
<1>1. N \in Nat /\ N \in 0 .. N
  BY PackLengths
<1>2. PICK f : /\ Full(p) = f[N] /\ f[0] = << >>
               /\ \A n \in 0 .. N : f[n] \in Seq(1 .. N)
               /\ \A n \in 1 .. N : f[n] = IF p.records[n] = << >> THEN f[n - 1] ELSE Append(f[n - 1], n)
  BY FullAre
<1>3. PICK t, start : Parsed(L \o O, <<"array">>, t) /\ Listing(p, t, f[N], start)
  BY <1>1, <1>2, OpenedIsListed
<1>4. N > 0 /\ p.records[1] # << >> => Len(f[N]) > 0 /\ f[N][1] = 1
  BY <1>1, <1>2, OpenedIsListed
<1>5. O \in Seq(A) /\ L \in Seq(A) /\ e \in A /\ Len(L) = 1 /\ L[1] = Mark("lbracket")
  BY <1>1, ObjectsAre, AreCells
<1>6. Document(p) = (L \o O) \o <<e>>
  BY DEF Document
<1>7. Nest(<<"array">>, e) = << >> /\ Grow(t, e) = t
  BY CellsRead
<1>. HIDE DEF A, O, L, e
<1>8. L \o O \in Seq(A)
  BY <1>5, ConcatProperties
<1>9. Document(p) = Append(L \o O, e)
  BY <1>5, <1>6, <1>8, AppendIsConcat
<1>10. Parsed(Document(p), << >>, t)
  <2>1. Parsed(Append(L \o O, e), Nest(<<"array">>, e), Grow(t, e))
    BY <1>3, <1>5, <1>8, ParsedAppend
  <2>. QED  BY <1>7, <1>9, <2>1
<1>11. /\ Document(p) \in Seq(A) /\ Document(p) # << >>
       /\ \A i \in 1 .. Len(L \o O) : Document(p)[i] = (L \o O)[i]
  BY <1>5, <1>8, <1>9, AppendProperties
<1>12. Document(p)[1] = Mark("lbracket")
  <2>1. Len(O) \in Nat
    BY <1>5, LenProperties
  <2>2. /\ Len(L \o O) = Len(L) + Len(O)
        /\ \A i \in 1 .. Len(L) + Len(O) : (L \o O)[i] = IF i <= Len(L) THEN L[i] ELSE O[i - Len(L)]
    BY <1>5, ConcatProperties
  <2>3. 1 \in 1 .. Len(L) + Len(O) /\ 1 <= Len(L)
    BY <1>5, <2>1
  <2>. QED  BY <1>5, <1>11, <2>2, <2>3
<1>. QED  BY <1>2, <1>3, <1>4, <1>10, <1>11, <1>12 DEF A

\* What the decoder sees of an encoded pack.
LEMMA SeesDocument ==
  ASSUME pack \in Pack, Proper(pack), pc = "done", WritesDocument,
         NEW tokens, Parsed(Document(pack), << >>, tokens)
  PROVE  /\ D!Tokens = tokens /\ D!Token = tokens[tok]
         /\ D!WellFormed /\ out # << >> /\ Opening(out[1]) = "array"
<1>1. out = Document(pack)
  BY DEF WritesDocument
<1>2. out \in Seq(CellsOf(pack)) /\ out # << >> /\ out[1] = Mark("lbracket")
  BY <1>1, DocumentIsListed
<1>3. D!Tokens = tokens /\ D!WellFormed
  BY <1>1, <1>2, ParsedIs
<1>4. Opening(out[1]) = "array"
  BY <1>2, OpeningIs
<1>. QED  BY <1>2, <1>3, <1>4 DEF D!Token

----------------------------------------------------------------------------
(* Reading the document.                                                   *)

\* The members of the m-th object, and what is stored of the first j of them.
Mem(m) == Whole(pack, Full(pack)[m])
Taken(m, j) == {Mem(m)[i] : i \in 1 .. j}
Based(S) == {c \in S : c[1] = 0}
Own(S) == {c \in S : c[1] # 0}

\* No object has been taken yet.
Untouched == tok \in {1, 2} /\ array_num = -1 /\ base = {}

\* j members of the m-th object have been taken.
Within(start, m, j) ==
  /\ tok = start[m] + 1 + j
  /\ array_num = m - 1
  /\ base = Based(Taken(1, IF m = 1 THEN j ELSE Len(Mem(1))))
  /\ \A n \in 1 .. m : records[n - 1] = Own(Taken(n, IF n = m THEN j ELSE Len(Mem(n))))

Reading(start) ==
  \/ Untouched
  \/ \E m \in 1 .. Len(Full(pack)) : \E j \in 0 .. Len(Mem(m)) : Within(start, m, j)

\* The base information and the records are those of the pack.
Decoded ==
  /\ array_num + 1 = Len(Full(pack))
  /\ base = {<<0, i>> : i \in DOMAIN pack.base}
  /\ \A n \in 1 .. Len(Full(pack)) :
       records[n - 1] = {<<Full(pack)[n], i>> : i \in DOMAIN pack.records[Full(pack)[n]]}

DecodesSoFar ==
  /\ found <=> base # {}
  /\ \A n \in array_num + 1 .. Cap - 1 : records[n] = {}
  /\ dpc = "idle" => Untouched
  /\ dpc = "tokens" => \E tokens, start : /\ Parsed(Document(pack), << >>, tokens)
                                          /\ Listing(pack, tokens, Full(pack), start)
                                          /\ Reading(start)
  /\ dpc = "decoded" => Decoded
  /\ dpc = "failed" => Len(Full(pack)) > Cap

DecodingInv ==
  /\ dpc # "idle" => pc = "done"
  /\ Proper(pack) => DecodesSoFar

\* Which token is the next.
LEMMA NextToken ==
  ASSUME pack \in Pack, NEW tokens, NEW start, Listing(pack, tokens, Full(pack), start),
         NEW m \in 1 .. Len(Full(pack)), NEW j \in 0 .. Len(Mem(m)), tok = start[m] + 1 + j
  PROVE  /\ Len(Mem(m)) \in Nat /\ start[m] \in Nat /\ Len(tokens) \in Nat
         /\ j < Len(Mem(m)) => tokens[tok] = Mem(m)[j + 1] /\ tok <= Len(tokens)
         /\ j = Len(Mem(m)) /\ m < Len(Full(pack)) =>
              tok = start[m + 1] /\ tokens[tok] = Mark("lbrace") /\ tok <= Len(tokens)
         /\ j = Len(Mem(m)) /\ m = Len(Full(pack)) => tok > Len(tokens)
<1>. DEFINE N == Len(Full(pack))
            W(n) == Len(Mem(n))
<1>1. N \in Nat /\ \A n \in 1 .. N : Full(pack)[n] \in 1 .. Len(pack.records)
  BY LenProperties, ElementOfSeq DEF Listing
<1>2. \A n \in 1 .. N : W(n) \in Nat
  BY <1>1, WholeType, LenProperties DEF Mem
<1>3. /\ Len(tokens) \in Nat /\ start \in [1 .. N + 1 -> Nat] /\ start[N + 1] = Len(tokens) + 1
      /\ \A n \in 1 .. N : /\ start[n + 1] = start[n] + 1 + W(n) /\ start[n + 1] <= Len(tokens) + 1
                           /\ tokens[start[n]] = Mark("lbrace")
                           /\ \A i \in 1 .. W(n) : tokens[start[n] + i] = Mem(n)[i]
  BY LenProperties DEF Listing, Mem
<1>. HIDE DEF N, W
<1>4. m \in 1 .. N /\ W(m) \in Nat /\ j \in 0 .. W(m)
  BY <1>2 DEF N, W
<1>5. start[m] \in Nat /\ start[m + 1] = start[m] + 1 + W(m) /\ start[m + 1] <= Len(tokens) + 1
  BY <1>1, <1>3, <1>4
<1>6. ASSUME j < W(m) PROVE tokens[tok] = Mem(m)[j + 1] /\ tok <= Len(tokens)
  <2>1. j + 1 \in 1 .. W(m) /\ tok = start[m] + (j + 1)
    BY <1>4, <1>5, <1>6
  <2>2. tok <= Len(tokens)
    BY <1>3, <1>4, <1>5, <1>6
  <2>. QED  BY <1>3, <1>4, <2>1, <2>2
<1>7. ASSUME j = W(m), m < N
      PROVE  tok = start[m + 1] /\ tokens[tok] = Mark("lbrace") /\ tok <= Len(tokens)
  <2>1. m + 1 \in 1 .. N /\ tok = start[m + 1]
    BY <1>1, <1>4, <1>5, <1>7
  <2>2. start[m + 1] \in Nat /\ W(m + 1) \in Nat /\ start[(m + 1) + 1] <= Len(tokens) + 1
        /\ start[(m + 1) + 1] = start[m + 1] + 1 + W(m + 1)
    BY <1>1, <1>2, <1>3, <2>1
  <2>3. tok <= Len(tokens)
    BY <1>3, <2>1, <2>2
  <2>. QED  BY <1>3, <2>1, <2>3
<1>8. ASSUME j = W(m), m = N PROVE tok > Len(tokens)
  BY <1>3, <1>4, <1>5, <1>8
<1>. QED  BY <1>3, <1>4, <1>5, <1>6, <1>7, <1>8 DEF N, W

\* The tokens before the first member.
LEMMA FirstTokens ==
  ASSUME pack \in Pack, NEW tokens, NEW start, Listing(pack, tokens, Full(pack), start)
  PROVE  /\ Len(tokens) \in Nat /\ Len(tokens) > 0 /\ Len(Full(pack)) \in Nat
         /\ tokens[1] = Mark("lbracket") /\ start[1] = 2
         /\ Len(tokens) >= 2 => Len(Full(pack)) > 0 /\ tokens[2] = Mark("lbrace")
         /\ Len(tokens) < 2 => Len(Full(pack)) = 0
<1>. DEFINE N == Len(Full(pack))
<1>1. N \in Nat /\ Len(tokens) \in Nat
  BY LenProperties DEF Listing
<1>2. /\ Len(tokens) > 0 /\ tokens[1] = Mark("lbracket") /\ start[1] = 2
      /\ start[N + 1] = Len(tokens) + 1
  BY DEF Listing
<1>3. ASSUME N > 0 PROVE Len(tokens) >= 2 /\ tokens[2] = Mark("lbrace")
  <2>1. 1 \in 1 .. N
    BY <1>1, <1>3
  <2>2. /\ tokens[start[1]] = Mark("lbrace") /\ start[1 + 1] <= Len(tokens) + 1
        /\ start[1 + 1] = start[1] + 1 + Len(Mem(1))
    BY <2>1 DEF Listing, Mem
  <2>3. Full(pack)[1] \in 1 .. Len(pack.records)
    BY <2>1, ElementOfSeq DEF Listing
  <2>4. Len(Mem(1)) \in Nat
    BY <2>3, WholeType, LenProperties DEF Mem
  <2>. HIDE DEF N
  <2>. QED  BY <1>1, <1>2, <2>2, <2>4
<1>4. N = 0 => Len(tokens) = 1
  <2>1. N = 0 => N + 1 = 1
    OBVIOUS
  <2>2. N = 0 => Len(tokens) + 1 = 2
    BY <1>2, <2>1
  <2>. DEFINE T == Len(tokens)
  <2>3. T \in Nat
    BY <1>1
  <2>. HIDE DEF T
  <2>4. T + 1 = 2 => T = 1
    BY <2>3
  <2>. QED  BY <2>2, <2>4 DEF T
<1>. QED  BY <1>1, <1>2, <1>3, <1>4

\* Taking one member more.
LEMMA TakenOne ==
  ASSUME NEW m, NEW j \in Nat
  PROVE  Taken(m, 0) = {} /\ Taken(m, j + 1) = Taken(m, j) \cup {Mem(m)[j + 1]}
<1>1. 1 .. 0 = {} /\ 1 .. j + 1 = 1 .. j \cup {j + 1}
  OBVIOUS
<1>. QED  BY <1>1 DEF Taken

\* It is base information, or the record's own.
LEMMA EitherKind ==
  /\ Based({}) = {} /\ Own({}) = {}
  /\ \A S, c : c[1] = 0 => Based(S \cup {c}) = Based(S) \cup {c} /\ Own(S \cup {c}) = Own(S)
  /\ \A S, c : c[1] # 0 => Based(S \cup {c}) = Based(S) /\ Own(S \cup {c}) = Own(S) \cup {c}
BY DEF Based, Own

\* Base information is in the first object only.
LEMMA BasedFirst ==
  ASSUME pack \in Pack, NEW tokens, NEW start, Listing(pack, tokens, Full(pack), start),
         NEW m \in 1 .. Len(Full(pack)), NEW j \in 1 .. Len(Mem(m)), Mem(m)[j][1] = 0
  PROVE  m = 1
<1>. DEFINE i == Full(pack)[m]
            width == Len(pack.records[i])
            ahead == Ahead(pack, i)
<1>1. i \in 1 .. Len(pack.records) /\ (i = 1 => m = 1)
  BY ElementOfSeq DEF Listing
<1>. HIDE DEF i
<1>2. /\ ahead \in Nat /\ width \in Nat /\ Len(Whole(pack, i)) = ahead + width
      /\ \A n \in 1 .. ahead + width : Whole(pack, i)[n] = IF n <= ahead THEN <<0, n>> ELSE <<i, n - ahead>>
  BY <1>1, WholeType
<1>3. Mem(m) = Whole(pack, i)
  BY DEF Mem, i
<1>4. j \in 1 .. ahead + width /\ Whole(pack, i)[j][1] = 0
  BY <1>2, <1>3
<1>5. i # 0
  BY <1>1
<1>. HIDE DEF ahead, width
<1>6. j <= ahead
  BY <1>2, <1>4, <1>5
<1>. QED  BY <1>1, <1>4, <1>6 DEF ahead, Ahead

\* A member is stored where it belongs.
LEMMA TakeMemberReads ==
  ASSUME pack \in Pack, NEW tokens, NEW start, Listing(pack, tokens, Full(pack), start),
         D!Tokens = tokens, D!Token = tokens[tok], DecoderInv,
         Reading(start), found <=> base # {},
         \A n \in array_num + 1 .. Cap - 1 : records[n] = {},
         D!TakeMember, UNCHANGED vars
  PROVE  /\ Reading(start)' /\ (found' <=> base' # {})
         /\ \A n \in array_num' + 1 .. Cap - 1 : records'[n] = {}
<1>. DEFINE N == Len(Full(pack))
            c == tokens[tok]
<1>1. /\ tok <= Len(tokens) /\ c \notin Marks /\ last_type = "object"
      /\ c[1] = 0 /\ array_num = 0 => base' = base \cup {c} /\ found' = TRUE
      /\ c[1] = 0 /\ array_num # 0 => UNCHANGED <<base, found>>
      /\ c[1] = 0 => UNCHANGED records
      /\ c[1] # 0 => UNCHANGED <<base, found>> /\ records' = [records EXCEPT ![array_num] = @ \cup {c}]
      /\ tok' = tok + 1 /\ UNCHANGED <<dpc, array_num, last_type>>
  BY OpeningIs DEF D!TakeMember, D!More
<1>2. found' <=> base' # {}
  BY <1>1
<1>3. pack' = pack
  BY DEF vars
<1>4. array_num \in Int /\ array_num >= 0 /\ array_num < Cap /\ DOMAIN records = 0 .. Cap - 1 /\ Cap \in Nat
  BY <1>1, CapAssumption DEF DecoderInv, CapAssumption, D!TakeMember, D!More
<1>5. \A n \in 0 .. Cap - 1 : n # array_num => records'[n] = records[n]
  BY <1>1, <1>4
<1>6. \A n \in array_num' + 1 .. Cap - 1 : records'[n] = {}
  BY <1>1, <1>4, <1>5
<1>7. Mark("lbracket") \in Marks /\ Mark("lbrace") \in Marks
  BY AreMarks
<1>8. PICK m \in 1 .. N : \E j \in 0 .. Len(Mem(m)) : Within(start, m, j)
  <2>1. ~Untouched
    BY <1>1, <1>4 DEF Untouched
  <2>. QED  BY <2>1 DEF Reading
<1>9. PICK j \in 0 .. Len(Mem(m)) : Within(start, m, j)
  BY <1>8
<1>10. tok = start[m] + 1 + j /\ array_num = m - 1
  BY <1>9 DEF Within
<1>. DEFINE W == Len(Mem(m))
<1>11. W \in Nat /\ start[m] \in Nat /\ N \in Nat /\ j < W /\ c = Mem(m)[j + 1]
  <2>1. N \in Nat
    BY FirstTokens
  <2>2. /\ W \in Nat /\ start[m] \in Nat /\ Len(tokens) \in Nat
        /\ j < W => c = Mem(m)[j + 1] /\ tok <= Len(tokens)
        /\ j = W /\ m < N => c = Mark("lbrace")
        /\ j = W /\ m = N => tok > Len(tokens)
    BY <1>10, NextToken
  <2>. HIDE DEF c, W, N
  <2>3. j = W \/ j < W
    BY <2>2 DEF W
  <2>4. m < N \/ m = N
    BY <2>1
  <2>. QED  BY <1>1, <1>7, <1>10, <2>1, <2>2, <2>3, <2>4
<1>12. j \in Nat /\ j + 1 \in 0 .. W /\ j + 1 \in 1 .. W
  BY <1>11
<1>13. Taken(m, j + 1) = Taken(m, j) \cup {c}
  BY <1>11, <1>12, TakenOne
<1>14. c[1] = 0 => m = 1
  BY <1>11, <1>12, BasedFirst
<1>. HIDE DEF c, W, N
<1>15. tok' = start[m] + 1 + (j + 1) /\ array_num' = m - 1
  <2>1. tok' = tok + 1 /\ array_num' = array_num
    BY <1>1
  <2>2. start[m] \in Nat /\ j \in Nat
    BY <1>11, <1>12
  <2>3. tok' = (start[m] + 1 + j) + 1
    BY <1>10, <2>1
  <2>4. (start[m] + 1 + j) + 1 = start[m] + 1 + (j + 1)
    BY <2>2
  <2>. QED  BY <1>10, <2>1, <2>3, <2>4
<1>16. /\ c[1] = 0 => /\ Based(Taken(m, j + 1)) = Based(Taken(m, j)) \cup {c}
                      /\ Own(Taken(m, j + 1)) = Own(Taken(m, j))
       /\ c[1] # 0 => /\ Based(Taken(m, j + 1)) = Based(Taken(m, j))
                      /\ Own(Taken(m, j + 1)) = Own(Taken(m, j)) \cup {c}
  <2>. DEFINE S == Taken(m, j)
  <2>1. Taken(m, j + 1) = S \cup {c}
    BY <1>13
  <2>. HIDE DEF S
  <2>2. /\ c[1] = 0 => Based(S \cup {c}) = Based(S) \cup {c} /\ Own(S \cup {c}) = Own(S)
        /\ c[1] # 0 => Based(S \cup {c}) = Based(S) /\ Own(S \cup {c}) = Own(S) \cup {c}
    BY EitherKind
  <2>. QED  BY <2>1, <2>2 DEF S
<1>17. base' = Based(Taken(1, IF m = 1 THEN j + 1 ELSE Len(Mem(1))))
  <2>1. base = Based(Taken(1, IF m = 1 THEN j ELSE Len(Mem(1))))
    BY <1>9 DEF Within
  <2>2. CASE c[1] = 0
    <3>1. m = 1 /\ array_num = 0
      BY <1>10, <1>14, <2>2
    <3>2. base = Based(Taken(m, j)) /\ base' = base \cup {c}
      BY <1>1, <2>1, <2>2, <3>1
    <3>. QED  BY <1>16, <2>2, <3>1, <3>2
  <2>3. CASE c[1] # 0
    <3>1. base' = base
      BY <1>1, <2>3
    <3>2. m = 1 => base' = Based(Taken(m, j + 1))
      BY <1>16, <2>1, <2>3, <3>1
    <3>. QED  BY <2>1, <3>1, <3>2
  <2>. QED  BY <2>2, <2>3
<1>18. ASSUME NEW n \in 1 .. m
       PROVE  records'[n - 1] = Own(Taken(n, IF n = m THEN j + 1 ELSE Len(Mem(n))))
  <2>1. records[n - 1] = Own(Taken(n, IF n = m THEN j ELSE Len(Mem(n))))
    BY <1>9 DEF Within
  <2>2. n - 1 \in 0 .. Cap - 1 /\ (n = m <=> n - 1 = array_num)
    BY <1>4, <1>10
  <2>3. CASE n # m
    BY <1>5, <2>1, <2>2, <2>3
  <2>4. CASE n = m
    <3>1. CASE c[1] = 0
      <4>1. records' = records
        BY <1>1, <3>1
      <4>. QED  BY <1>16, <2>1, <2>4, <3>1, <4>1
    <3>2. CASE c[1] # 0
      <4>1. records' = [records EXCEPT ![array_num] = @ \cup {c}] /\ array_num = n - 1
        BY <1>1, <2>2, <2>4, <3>2
      <4>2. records'[n - 1] = records[n - 1] \cup {c}
        BY <1>4, <2>2, <4>1
      <4>. QED  BY <1>16, <2>1, <2>4, <3>2, <4>2
    <3>. QED  BY <3>1, <3>2
  <2>. QED  BY <2>3, <2>4
<1>19. Within(start, m, j + 1)'
  <2>1. \A n, i : Taken(n, i)' = Taken(n, i) /\ Mem(n)' = Mem(n)
    BY <1>3 DEF Taken, Mem
  <2>. QED  BY <1>15, <1>17, <1>18, <2>1 DEF Within
<1>20. m \in (1 .. Len(Full(pack)))' /\ j + 1 \in (0 .. Len(Mem(m)))'
  BY <1>3, <1>12 DEF Mem, W, N
<1>. QED  BY <1>2, <1>6, <1>19, <1>20 DEF Reading

\* An object is taken when all of the one before is, and refused only if there is no
\* room for the records that have fields.
LEMMA TakeObjectReads ==
  ASSUME pack \in Pack, NEW tokens, NEW start, Listing(pack, tokens, Full(pack), start),
         D!Tokens = tokens, D!Token = tokens[tok], DecoderInv,
         Reading(start), found <=> base # {},
         \A n \in array_num + 1 .. Cap - 1 : records[n] = {},
         D!TakeObject, UNCHANGED vars
  PROVE  /\ dpc' = "tokens" => Reading(start)'
         /\ dpc' = "failed" => Len(Full(pack)) > Cap
         /\ dpc' \in {"tokens", "failed"} /\ (found' <=> base' # {})
         /\ \A n \in array_num' + 1 .. Cap - 1 : records'[n] = {}
<1>. DEFINE N == Len(Full(pack))
            c == tokens[tok]
<1>1. /\ tok <= Len(tokens) /\ Opening(c) = "object"
      /\ array_num' = array_num + 1 /\ tok' = tok + 1
      /\ dpc' = IF array_num' >= Cap THEN "failed" ELSE "tokens"
      /\ UNCHANGED <<found, base, records>>
  BY DEF D!TakeObject, D!More, D!stored
<1>2. pack' = pack
  BY DEF vars
<1>3. array_num \in Int /\ array_num >= -1 /\ Cap \in Nat /\ DOMAIN records = 0 .. Cap - 1
  BY CapAssumption DEF DecoderInv, CapAssumption
<1>4. dpc' \in {"tokens", "failed"} /\ (found' <=> base' # {})
  BY <1>1
<1>5. \A n \in array_num' + 1 .. Cap - 1 : records'[n] = {}
  BY <1>1, <1>3
<1>6. N \in Nat /\ Len(tokens) \in Nat
  BY FirstTokens
<1>7. CASE Untouched
  <2>1. tok = 2 /\ array_num = -1 /\ base = {}
    <3>1. tok # 1
      BY <1>1, FirstTokens, OpeningIs
    <3>. QED  BY <1>7, <3>1 DEF Untouched
  <2>2. N > 0 /\ start[1] = 2
    <3>1. Len(tokens) >= 2
      BY <1>1, <1>6, <2>1
    <3>. QED  BY <3>1, FirstTokens
  <2>3. array_num' = 0 /\ tok' = start[1] + 1 + 0
    BY <1>1, <2>1, <2>2
  <2>4. ASSUME dpc' = "failed" PROVE N > Cap
    BY <1>1, <1>3, <1>6, <2>2, <2>3, <2>4
  <2>5. ASSUME dpc' = "tokens" PROVE Reading(start)'
    <3>1. 0 \in 0 .. Cap - 1 /\ 0 \in array_num + 1 .. Cap - 1
      BY <1>1, <1>3, <2>1, <2>3, <2>5
    <3>2. records'[0] = {} /\ base' = {}
      BY <1>1, <2>1, <3>1
    <3>3. Based(Taken(1, 0)) = {} /\ Own(Taken(1, 0)) = {}
      BY TakenOne, EitherKind
    <3>4. \A n \in 1 .. 1 : n = 1 /\ n - 1 = 0
      OBVIOUS
    <3>5. array_num' = 1 - 1
      BY <2>3
    <3>6. base' = Based(Taken(1, IF 1 = 1 THEN 0 ELSE Len(Mem(1))))
      BY <3>2, <3>3
    <3>7. \A n \in 1 .. 1 : records'[n - 1] = Own(Taken(n, IF n = 1 THEN 0 ELSE Len(Mem(n))))
      BY <3>2, <3>3, <3>4
    <3>8. Within(start, 1, 0)'
      BY <1>2, <2>3, <3>5, <3>6, <3>7 DEF Within, Taken, Mem
    <3>9. 1 \in 1 .. N
      BY <1>6, <2>2
    <3>10. Len(Mem(1)) \in Nat
      BY <3>9, <1>2, ElementOfSeq, WholeType, LenProperties DEF Mem, Listing
    <3>11. 1 \in (1 .. Len(Full(pack)))' /\ 0 \in (0 .. Len(Mem(1)))'
      BY <1>2, <3>9, <3>10 DEF Mem
    <3>. QED  BY <3>8, <3>11 DEF Reading
  <2>. QED  BY <1>4, <1>5, <2>4, <2>5
<1>8. CASE \E m \in 1 .. N : \E j \in 0 .. Len(Mem(m)) : Within(start, m, j)
  <2>1. PICK m \in 1 .. N : \E j \in 0 .. Len(Mem(m)) : Within(start, m, j)
    BY <1>8
  <2>2. PICK j \in 0 .. Len(Mem(m)) : Within(start, m, j)
    BY <2>1
  <2>3. tok = start[m] + 1 + j /\ array_num = m - 1
    BY <2>2 DEF Within
  <2>. DEFINE W == Len(Mem(m))
  <2>4. W \in Nat /\ j = W /\ m < N /\ tok = start[m + 1] /\ start[m + 1] \in Int
    <3>1. /\ W \in Nat /\ start[m] \in Nat /\ Len(tokens) \in Nat
          /\ j < W => c = Mem(m)[j + 1] /\ tok <= Len(tokens)
          /\ j = W /\ m < N => tok = start[m + 1]
          /\ j = W /\ m = N => tok > Len(tokens)
      BY <2>3, NextToken
    <3>2. ~(j < W)
      <4>1. SUFFICES ASSUME j < W PROVE FALSE
        OBVIOUS
      <4>2. c = Mem(m)[j + 1] /\ j + 1 \in 1 .. W
        BY <3>1, <4>1
      <4>3. Full(pack)[m] \in 1 .. Len(pack.records)
        BY <2>1, ElementOfSeq DEF Listing
      <4>4. Mem(m)[j + 1] \notin Marks
        BY <4>2, <4>3, WholeType DEF Mem
      <4>. QED  BY <1>1, <4>2, <4>4, OpeningIs
    <3>. HIDE DEF c, W, N
    <3>3. j = W \/ j < W
      BY <3>1 DEF W
    <3>4. m < N \/ m = N
      BY <1>6
    <3>5. start[m] + 1 + j \in Int
      BY <3>1 DEF W
    <3>6. j = W
      BY <3>2, <3>3
    <3>7. tok \in Int /\ ~(tok > Len(tokens))
      BY <1>1, <1>6, <2>3, <3>5
    <3>8. m < N
      BY <3>1, <3>4, <3>6, <3>7
    <3>9. tok = start[m + 1]
      BY <3>1, <3>6, <3>8
    <3>. QED  BY <3>1, <3>6, <3>7, <3>8, <3>9
  <2>. HIDE DEF W, N
  <2>5. m \in Nat /\ m >= 1 /\ m + 1 \in 1 .. N /\ array_num' = (m + 1) - 1 /\ array_num' = m
    BY <1>1, <1>6, <2>3, <2>4
  <2>6. tok' = start[m + 1] + 1 + 0
    BY <1>1, <2>4
  <2>7. ASSUME dpc' = "failed" PROVE N > Cap
    BY <1>1, <1>3, <1>6, <2>4, <2>5, <2>7
  <2>8. ASSUME dpc' = "tokens" PROVE Reading(start)'
    <3>1. m \in 0 .. Cap - 1 /\ m \in array_num + 1 .. Cap - 1
      BY <1>1, <1>3, <2>3, <2>5, <2>8
    <3>2. records'[m] = {} /\ base' = base
      BY <1>1, <3>1
    <3>3. Own(Taken(m + 1, 0)) = {}
      BY TakenOne, EitherKind
    <3>4. base' = Based(Taken(1, Len(Mem(1))))
      BY <2>2, <2>4, <3>2 DEF Within, W
    <3>5. m + 1 # 1
      BY <2>5
    <3>6. base' = Based(Taken(1, IF m + 1 = 1 THEN 0 ELSE Len(Mem(1))))
      BY <3>4, <3>5
    <3>7. ASSUME NEW n \in 1 .. m + 1
          PROVE  records'[n - 1] = Own(Taken(n, IF n = m + 1 THEN 0 ELSE Len(Mem(n))))
      <4>1. CASE n = m + 1
        BY <2>5, <3>2, <3>3, <4>1
      <4>2. CASE n # m + 1
        <5>1. n \in 1 .. m
          BY <2>5, <4>2
        <5>2. records[n - 1] = Own(Taken(n, IF n = m THEN j ELSE Len(Mem(n))))
          BY <2>2, <5>1 DEF Within
        <5>3. records[n - 1] = Own(Taken(n, Len(Mem(n))))
          BY <2>4, <5>2 DEF W
        <5>. QED  BY <1>1, <4>2, <5>3
      <4>. QED  BY <4>1, <4>2
    <3>8. Within(start, m + 1, 0)'
      BY <1>2, <2>5, <2>6, <3>6, <3>7 DEF Within, Taken, Mem
    <3>9. Len(Mem(m + 1)) \in Nat
      BY <2>5, ElementOfSeq, WholeType, LenProperties DEF Mem, Listing, N
    <3>10. m + 1 \in (1 .. Len(Full(pack)))' /\ 0 \in (0 .. Len(Mem(m + 1)))'
      BY <1>2, <2>5, <3>9 DEF Mem, N
    <3>. QED  BY <3>8, <3>10 DEF Reading
  <2>. QED  BY <1>4, <1>5, <2>7, <2>8 DEF N
<1>. QED  BY <1>7, <1>8 DEF Reading

\* The members of an object are the base information ahead and the record's fields.
LEMMA KindsOfWhole ==
  ASSUME NEW p \in Pack, NEW i \in 1 .. Len(p.records)
  PROVE  LET all == {Whole(p, i)[j] : j \in 1 .. Len(Whole(p, i))}
         IN /\ Based(all) = {<<0, j>> : j \in 1 .. Ahead(p, i)}
            /\ Own(all) = {<<i, j>> : j \in 1 .. Len(p.records[i])}
<1>. DEFINE w == Whole(p, i)
            a == Ahead(p, i)
            n == Len(p.records[i])
            all == {w[j] : j \in 1 .. Len(w)}
<1>1. /\ a \in Nat /\ n \in Nat /\ Len(w) = a + n /\ i # 0
      /\ \A j \in 1 .. a + n : w[j] = IF j <= a THEN <<0, j>> ELSE <<i, j - a>>
  BY WholeType
<1>. HIDE DEF w, a, n
<1>2. /\ \A j \in 1 .. a : w[j] = <<0, j>> /\ j \in 1 .. Len(w)
      /\ \A j \in 1 .. n : w[a + j] = <<i, j>> /\ a + j \in 1 .. Len(w)
  <2>1. \A j \in 1 .. a : j <= a /\ j \in 1 .. a + n
    BY <1>1
  <2>2. \A j \in 1 .. n : ~(a + j <= a) /\ a + j \in 1 .. a + n /\ (a + j) - a = j
    BY <1>1
  <2>. QED  BY <1>1, <2>1, <2>2
<1>3. \A j \in 1 .. Len(w) : j \in 1 .. a \/ \E m \in 1 .. n : j = a + m
  <2>. SUFFICES ASSUME NEW j \in 1 .. Len(w), j \notin 1 .. a PROVE \E m \in 1 .. n : j = a + m
    OBVIOUS
  <2>1. j - a \in 1 .. n /\ j = a + (j - a)
    BY <1>1
  <2>. QED  BY <2>1
<1>4. Based(all) = {<<0, j>> : j \in 1 .. a}
  <2>1. ASSUME NEW c \in Based(all) PROVE c \in {<<0, j>> : j \in 1 .. a}
    <3>1. PICK j \in 1 .. Len(w) : c = w[j]
      BY DEF Based
    <3>2. c[1] = 0
      BY DEF Based
    <3>. QED  BY <1>1, <1>2, <1>3, <3>1, <3>2
  <2>2. ASSUME NEW j \in 1 .. a PROVE <<0, j>> \in Based(all)
    <3>1. w[j] = <<0, j>> /\ j \in 1 .. Len(w)
      BY <1>2
    <3>2. w[j] \in all /\ w[j][1] = 0
      BY <3>1
    <3>. HIDE DEF all
    <3>. QED  BY <3>1, <3>2 DEF Based
  <2>. HIDE DEF all
  <2>. QED  BY <2>1, <2>2
<1>5. Own(all) = {<<i, j>> : j \in 1 .. n}
  <2>1. ASSUME NEW c \in Own(all) PROVE c \in {<<i, j>> : j \in 1 .. n}
    <3>1. PICK j \in 1 .. Len(w) : c = w[j]
      BY DEF Own
    <3>2. c[1] # 0
      BY DEF Own
    <3>. QED  BY <1>1, <1>2, <1>3, <3>1, <3>2
  <2>2. ASSUME NEW j \in 1 .. n PROVE <<i, j>> \in Own(all)
    <3>1. w[a + j] = <<i, j>> /\ a + j \in 1 .. Len(w)
      BY <1>2
    <3>2. w[a + j] \in all /\ w[a + j][1] # 0
      BY <1>1, <3>1
    <3>. HIDE DEF all
    <3>. QED  BY <3>1, <3>2 DEF Own
  <2>. HIDE DEF all
  <2>. QED  BY <2>1, <2>2
<1>. QED  BY <1>4, <1>5 DEF w, a, n

\* When no token is left, all is stored.
LEMMA AllDecoded ==
  ASSUME pack \in Pack, Proper(pack), pack.base # << >> => pack.info,
         NEW tokens, NEW start, Listing(pack, tokens, Full(pack), start),
         Reading(start), tok > Len(tokens)
  PROVE  Decoded
<1>. DEFINE N == Len(Full(pack))
            F(n) == Full(pack)[n]
<1>1. N \in Nat /\ \A n \in 1 .. N : F(n) \in 1 .. Len(pack.records)
  BY LenProperties, ElementOfSeq DEF Listing
<1>2. pack.base # << >> => N > 0 /\ F(1) = 1
  <2>1. SUFFICES ASSUME pack.base # << >> PROVE N > 0 /\ F(1) = 1
    OBVIOUS
  <2>2. pack.records # << >> /\ pack.records[1] # << >>
    BY <2>1 DEF Proper
  <2>3. Len(pack.records) > 0
    <3>1. pack.records \in Seq(Seq(Size))
      BY DEF Pack
    <3>. QED  BY <2>2, <3>1, LenProperties, EmptySeq
  <2>. QED  BY <2>2, <2>3, DocumentIsListed
<1>3. pack.base \in Seq(Size) /\ DOMAIN pack.base = 1 .. Len(pack.base)
  <2>1. pack.base \in Seq(Size)
    BY DEF Pack
  <2>. QED  BY <2>1, LenProperties
<1>4. \A n \in 1 .. N : DOMAIN pack.records[F(n)] = 1 .. Len(pack.records[F(n)])
  <2>1. \A i \in 1 .. Len(pack.records) : pack.records[i] \in Seq(Size)
    BY DEF Pack
  <2>. QED  BY <1>1, <2>1, LenProperties
<1>5. CASE Untouched
  <2>1. N = 0
    BY <1>5, FirstTokens DEF Untouched
  <2>2. array_num + 1 = N /\ base = {}
    BY <1>5, <2>1 DEF Untouched
  <2>3. pack.base = << >>
    BY <1>2, <2>1
  <2>4. {<<0, i>> : i \in DOMAIN pack.base} = {}
    BY <2>3
  <2>5. 1 .. N = {}
    BY <2>1
  <2>. HIDE DEF N
  <2>6. 1 .. Len(Full(pack)) = {}
    BY <2>5 DEF N
  <2>. QED  BY <2>2, <2>4, <2>6 DEF Decoded, N
<1>6. CASE \E m \in 1 .. N : \E j \in 0 .. Len(Mem(m)) : Within(start, m, j)
  <2>1. PICK m \in 1 .. N : \E j \in 0 .. Len(Mem(m)) : Within(start, m, j)
    BY <1>6
  <2>2. PICK j \in 0 .. Len(Mem(m)) : Within(start, m, j)
    BY <2>1
  <2>3. j = Len(Mem(m)) /\ m = N
    <3>1. tok = start[m] + 1 + j
      BY <2>2 DEF Within
    <3>2. /\ Len(Mem(m)) \in Nat /\ Len(tokens) \in Nat /\ start[m] \in Nat
          /\ j < Len(Mem(m)) => tok <= Len(tokens)
          /\ j = Len(Mem(m)) /\ m < N => tok <= Len(tokens)
      BY <3>1, NextToken
    <3>. HIDE DEF N
    <3>3. ~(tok <= Len(tokens))
      BY <3>1, <3>2
    <3>4. j = Len(Mem(m)) \/ j < Len(Mem(m))
      BY <3>2
    <3>5. m < N \/ m = N
      BY <1>1
    <3>. QED  BY <3>2, <3>3, <3>4, <3>5
  <2>4. /\ array_num + 1 = N
        /\ base = Based(Taken(1, Len(Mem(1))))
        /\ \A n \in 1 .. N : records[n - 1] = Own(Taken(n, Len(Mem(n))))
    <3>1. /\ array_num = m - 1
          /\ base = Based(Taken(1, IF m = 1 THEN j ELSE Len(Mem(1))))
          /\ \A n \in 1 .. m : records[n - 1] = Own(Taken(n, IF n = m THEN j ELSE Len(Mem(n))))
      BY <2>2 DEF Within
    <3>. HIDE DEF N
    <3>2. array_num + 1 = N
      BY <1>1, <2>3, <3>1
    <3>3. base = Based(Taken(1, Len(Mem(1))))
      BY <2>3, <3>1
    <3>4. \A n \in 1 .. N : records[n - 1] = Own(Taken(n, Len(Mem(n))))
      BY <2>3, <3>1
    <3>. QED  BY <3>2, <3>3, <3>4
  <2>5. ASSUME NEW n \in 1 .. N
        PROVE  /\ Based(Taken(n, Len(Mem(n)))) = {<<0, i>> : i \in 1 .. Ahead(pack, F(n))}
               /\ Own(Taken(n, Len(Mem(n)))) = {<<F(n), i>> : i \in 1 .. Len(pack.records[F(n)])}
    BY <1>1, KindsOfWhole DEF Taken, Mem
  <2>6. base = {<<0, i>> : i \in DOMAIN pack.base}
    <3>1. 1 \in 1 .. N
      BY <1>1
    <3>2. Ahead(pack, F(1)) = Len(pack.base)
      <4>1. F(1) # 1 => Len(pack.base) = 0
        BY <1>2
      <4>. QED  BY <4>1 DEF Ahead
    <3>. QED  BY <1>3, <2>4, <2>5, <3>1, <3>2
  <2>7. \A n \in 1 .. N : records[n - 1] = {<<F(n), i>> : i \in DOMAIN pack.records[F(n)]}
    BY <1>4, <2>4, <2>5
  <2>. QED  BY <2>4, <2>6, <2>7 DEF Decoded
<1>. QED  BY <1>5, <1>6 DEF Reading

\* An unchanged pack is decoded as before.
LEMMA DecodesOn ==
  ASSUME DecodesSoFar, pack' = pack, UNCHANGED decoder
  PROVE  DecodesSoFar'
<1>1. /\ dpc' = dpc /\ tok' = tok /\ array_num' = array_num /\ found' = found
      /\ base' = base /\ records' = records
  BY DEF decoder
<1>2. \A start : Reading(start)' <=> Reading(start)
  BY <1>1 DEF Reading, Untouched, Within, Taken, Mem
<1>3. (Untouched' <=> Untouched) /\ (Decoded' <=> Decoded)
  BY <1>1 DEF Untouched, Decoded
<1>. QED  BY <1>1, <1>2, <1>3 DEF DecodesSoFar

\* The document is one jsmn can parse.
LEMMA ParseReads ==
  ASSUME pack \in Pack, Proper(pack), pc = "done", WritesDocument, DecodesSoFar,
         D!Parse, UNCHANGED vars
  PROVE  DecodesSoFar'
<1>1. PICK tokens, start : /\ Parsed(Document(pack), << >>, tokens)
                           /\ Listing(pack, tokens, Full(pack), start)
  BY DocumentIsListed
<1>2. D!WellFormed /\ out # << >> /\ Opening(out[1]) = "array"
  BY <1>1, SeesDocument
<1>3. /\ dpc = "idle" /\ dpc' = "tokens"
      /\ UNCHANGED <<tok, array_num, found, base, records>>
  BY <1>2 DEF D!Parse, D!stored
<1>4. pack' = pack
  BY DEF vars
<1>5. Untouched
  BY <1>3 DEF DecodesSoFar
<1>6. Untouched'
  BY <1>3, <1>5 DEF Untouched
<1>7. Reading(start)'
  BY <1>6 DEF Reading
<1>8. (found' <=> base' # {}) /\ \A n \in array_num' + 1 .. Cap - 1 : records'[n] = {}
  BY <1>3 DEF DecodesSoFar
<1>. QED  BY <1>1, <1>3, <1>4, <1>7, <1>8 DEF DecodesSoFar

\* Each step that takes a token stores what it should.
LEMMA TokenReads ==
  ASSUME pack \in Pack, pack.base # << >> => pack.info, Proper(pack), pc = "done",
         WritesDocument, DecoderInv, DecodesSoFar, D!Next, dpc = "tokens", UNCHANGED vars
  PROVE  DecodesSoFar'
<1>1. PICK tokens, start : /\ Parsed(Document(pack), << >>, tokens)
                           /\ Listing(pack, tokens, Full(pack), start)
                           /\ Reading(start)
  BY DEF DecodesSoFar
<1>2. D!Tokens = tokens /\ D!Token = tokens[tok]
  BY <1>1, SeesDocument
<1>3. (found <=> base # {}) /\ \A n \in array_num + 1 .. Cap - 1 : records[n] = {}
  BY DEF DecodesSoFar
<1>4. pack' = pack
  BY DEF vars
<1>5. SUFFICES /\ found' <=> base' # {}
               /\ \A n \in array_num' + 1 .. Cap - 1 : records'[n] = {}
               /\ dpc' \in {"tokens", "decoded", "failed"}
               /\ dpc' = "tokens" => Reading(start)'
               /\ dpc' = "decoded" => Decoded'
               /\ dpc' = "failed" => Len(Full(pack)) > Cap
  BY <1>1, <1>4 DEF DecodesSoFar
<1>6. CASE D!TakeArray
  <2>1. /\ tok <= Len(tokens) /\ Opening(tokens[tok]) = "array" /\ tok' = tok + 1
        /\ UNCHANGED <<dpc, array_num, found, base, records>>
    BY <1>2, <1>6 DEF D!TakeArray, D!More, D!stored
  <2>2. Untouched'
    <3>1. CASE Untouched
      <4>1. tok # 2
        <5>1. SUFFICES ASSUME tok = 2 PROVE FALSE
          OBVIOUS
        <5>2. tokens[2] = Mark("lbrace")
          BY <1>1, <2>1, <5>1, FirstTokens
        <5>. QED  BY <2>1, <5>1, <5>2, OpeningIs
      <4>2. tok = 1 /\ array_num = -1 /\ base = {}
        BY <3>1, <4>1 DEF Untouched
      <4>. QED  BY <2>1, <4>2 DEF Untouched
    <3>2. CASE \E m \in 1 .. Len(Full(pack)) : \E j \in 0 .. Len(Mem(m)) : Within(start, m, j)
      <4>1. PICK m \in 1 .. Len(Full(pack)) : \E j \in 0 .. Len(Mem(m)) : Within(start, m, j)
        BY <3>2
      <4>2. PICK j \in 0 .. Len(Mem(m)) : Within(start, m, j)
        BY <4>1
      <4>3. ~(tok > Len(tokens))
        <5>1. tok \in Int
          BY <1>1, <4>2, NextToken DEF Within
        <5>. QED  BY <1>1, <2>1, <5>1, FirstTokens
      <4>4. tok = start[m] + 1 + j
        BY <4>2 DEF Within
      <4>5. /\ Len(Mem(m)) \in Nat
            /\ j < Len(Mem(m)) => tokens[tok] = Mem(m)[j + 1]
            /\ j = Len(Mem(m)) /\ m < Len(Full(pack)) => tokens[tok] = Mark("lbrace")
            /\ j = Len(Mem(m)) /\ m = Len(Full(pack)) => tok > Len(tokens)
        BY <1>1, <4>4, NextToken
      <4>6. CASE j < Len(Mem(m))
        <5>1. Full(pack)[m] \in 1 .. Len(pack.records)
          BY <1>1, ElementOfSeq DEF Listing
        <5>2. j + 1 \in 1 .. Len(Mem(m))
          BY <4>5, <4>6
        <5>3. Mem(m)[j + 1] \notin Marks
          BY <5>1, <5>2, WholeType DEF Mem
        <5>. QED  BY <2>1, <4>5, <4>6, <5>3, OpeningIs
      <4>7. CASE j = Len(Mem(m))
        <5>. DEFINE N == Len(Full(pack))
        <5>1. N \in Nat /\ m \in 1 .. N
          BY <1>1, FirstTokens
        <5>. HIDE DEF N
        <5>2. m < N \/ m = N
          BY <5>1
        <5>3. tokens[tok] = Mark("lbrace")
          BY <4>3, <4>5, <4>7, <5>2 DEF N
        <5>. QED  BY <2>1, <5>3, OpeningIs
      <4>. QED  BY <4>5, <4>6, <4>7
    <3>. QED  BY <1>1, <3>1, <3>2 DEF Reading
  <2>. QED  BY <1>3, <2>1, <2>2 DEF Reading
<1>7. CASE D!TakeObject
  BY <1>1, <1>2, <1>3, <1>7, TakeObjectReads
<1>8. CASE D!TakeMember
  <2>1. dpc' = "tokens"
    BY <1>8 DEF D!TakeMember, D!More
  <2>. QED  BY <1>1, <1>2, <1>3, <1>8, <2>1, TakeMemberReads
<1>9. CASE D!Finish
  <2>1. /\ tok > Len(tokens) /\ dpc' = "decoded"
        /\ UNCHANGED <<tok, array_num, found, base, records>>
    BY <1>2, <1>9 DEF D!Finish, D!stored
  <2>2. Decoded
    BY <1>1, <2>1, AllDecoded
  <2>3. Decoded'
    BY <1>4, <2>1, <2>2 DEF Decoded
  <2>. QED  BY <1>3, <2>1, <2>3
<1>. QED  BY <1>6, <1>7, <1>8, <1>9 DEF D!Next, D!Parse

\* DecodingInv is inductive relative to the encoder's and the decoder's invariants.
LEMMA DecodingStep ==
  ASSUME IInv, WritesDocument, DecoderInv, DecodingInv, [RoundTripNext]_<<vars, decoder>>
  PROVE  DecodingInv'
<1>1. pack \in Pack /\ (pack.base # << >> => pack.info)
  BY PackFacts
<1>2. pack' = pack
  BY DEF RoundTripNext, Next, vars, input, TooShort, Open, WriteField, NoRecords, ReserveNul,
         OpenRecord, DropRecord, CloseRecord, CloseArray
<1>3. CASE UNCHANGED decoder
  <2>1. dpc' = dpc
    BY <1>3 DEF decoder
  <2>2. pc = "done" => pc' = "done"
    BY DEF RoundTripNext, Next, vars, TooShort, Open, WriteField, BaseDone, NoRecords, ReserveNul,
           OpenRecord, RecordDone, DropRecord, CloseRecord, CloseArray, Goto
  <2>. QED  BY <1>2, <1>3, <2>1, <2>2, DecodesOn DEF DecodingInv
<1>4. CASE pc = "done" /\ D!Next /\ UNCHANGED vars
  <2>1. pc' = "done"
    BY <1>4 DEF vars
  <2>2. SUFFICES ASSUME Proper(pack) PROVE DecodesSoFar'
    BY <1>2, <2>1 DEF DecodingInv
  <2>3. DecodesSoFar
    BY <2>2 DEF DecodingInv
  <2>4. CASE D!Parse
    BY <1>1, <1>4, <2>2, <2>3, <2>4, ParseReads
  <2>5. CASE ~D!Parse
    <3>1. dpc = "tokens"
      BY <1>4, <2>5 DEF D!Next, D!TakeArray, D!TakeObject, D!TakeMember, D!Finish, D!More
    <3>. QED  BY <1>1, <1>4, <2>2, <2>3, <3>1, TokenReads
  <2>. QED  BY <2>4, <2>5
<1>. QED  BY <1>3, <1>4 DEF RoundTripNext

\* DecodingInv is an invariant.
LEMMA DecodingAlways == RoundTripSpec => []DecodingInv
<1>1. RoundTripInit => DecodingInv
  BY DEF RoundTripInit, D!Init, DecodingInv, DecodesSoFar, Untouched
<1>2. IInv /\ WritesDocument /\ DecoderInv /\ DecodingInv /\ [RoundTripNext]_<<vars, decoder>>
        => DecodingInv'
  BY DecodingStep
<1>. QED  BY <1>1, <1>2, Invariance, EncoderUndisturbed, WritesDocumentHolds, DecoderAlways, PTL DEF RoundTripSpec

\* Decoding what was encoded gives back the base information and the records that
\* have fields, each with its own, and fails only if there are more of them than
\* the caller has room for, whatever the pack, the buffer and the array
\* (senml.c 26-172).
THEOREM DecodesBackHolds == RoundTripSpec => []DecodesBack
<1>1. ASSUME IInv, DecodingInv PROVE DecodesBack
  <2>1. pack \in Pack
    BY <1>1, PackFacts
  <2>2. SUFFICES ASSUME Proper(pack), DecodesSoFar
                 PROVE  /\ dpc = "decoded" => Decoded /\ (found <=> pack.base # << >>)
                        /\ dpc = "failed" => Len(Full(pack)) > Cap
    BY <1>1 DEF DecodingInv, DecodesBack, Decoded
  <2>3. dpc = "failed" => Len(Full(pack)) > Cap
    BY <2>2 DEF DecodesSoFar
  <2>4. ASSUME dpc = "decoded" PROVE Decoded /\ (found <=> pack.base # << >>)
    <3>1. Decoded /\ (found <=> base # {})
      BY <2>2, <2>4 DEF DecodesSoFar
    <3>2. base = {<<0, i>> : i \in DOMAIN pack.base}
      BY <3>1 DEF Decoded
    <3>3. pack.base = << >> <=> DOMAIN pack.base = {}
      <4>1. pack.base \in Seq(Size) /\ DOMAIN pack.base = 1 .. Len(pack.base)
        <5>1. pack.base \in Seq(Size)
          BY <2>1 DEF Pack
        <5>. QED  BY <5>1, LenProperties
      <4>2. Len(pack.base) \in Nat /\ (pack.base = << >> <=> Len(pack.base) = 0)
        BY <4>1, LenProperties, EmptySeq
      <4>3. \A n \in Nat : n = 0 <=> 1 .. n = {}
        OBVIOUS
      <4>. QED  BY <4>1, <4>2, <4>3
    <3>. QED  BY <3>1, <3>2, <3>3
  <2>. QED  BY <2>3, <2>4
<1>. QED  BY <1>1, Invariance, EncoderUndisturbed, DecodingAlways, PTL
=============================================================================
