-------------------------- MODULE HighscoreProofs --------------------------
(***************************************************************************)
(* Theorems about the highscore lists (Highscore), for every length of the *)
(* lists and every place at which entry_counter starts again.              *)
(*                                                                         *)
(* IndexInBounds and ReadsWritten say nothing of the value the client   *)
(* thread keeps in a register while the gcoap thread empties the list.     *)
(* IInv does: the counter is the value last read or 0, and whichever of    *)
(* the two the next statement uses, what the statements before it promised *)
(* of its place holds.                                                     *)
(***************************************************************************)
EXTENDS Highscore, TLAPS

Even(n) == n % 2 = 0

\* Both halves of every place below n were stored once.
Covered(n) == \A p \in Place : p < n => nameslist[p] # 0 /\ resultslist[p] # 0

Busy == cpc # "play"

CounterInv ==
  /\ Even(entry_counter) /\ Even(idx)
  /\ cpc # "wrap" => entry_counter < WrapAt
  /\ cpc \notin {"play", "wrap"} => idx < WrapAt
  /\ game <= MaxGames
  /\ Busy => game # 0 /\ entry_counter \in {idx, 0}

\* Nothing is ever taken out of the lists, so what was covered stays covered.
CoverInv == Covered(entry_counter) /\ Covered(idx) /\ Covered(size)

\* What the statements up to cpc have stored at the place in the register.
PlaceInv ==
  /\ cpc \in {"M1_name", "M0_result", "M1_result", "load", "store"} => nameslist[idx] # 0
  /\ cpc \in {"M0_result", "M1_result", "load", "store"} => nameslist[idx + 1] # 0
  /\ cpc \in {"M1_result", "load", "store"} => resultslist[idx] # 0
  /\ cpc \in {"load", "store"} => resultslist[idx + 1] # 0

IInv == TypeOK /\ CounterInv /\ CoverInv /\ PlaceInv
----------------------------------------------------------------------------

\* Two counters that start at 0 and grow by 2 stay two below the even place at
\* which they start again.
LEMMA EvenBelow ==
  ASSUME NEW m \in Nat, NEW n \in Nat, Even(m), Even(n), m < n
  PROVE  m + 2 <= n /\ Even(m + 2)
BY DEF Even

\* Zero is even.
LEMMA EvenZero == Even(0)
BY DEF Even

\* A place below the counter is a place of the lists, and so is the next one.
LEMMA RoomForTwo ==
  ASSUME NEW m \in Nat, Even(m), m < WrapAt
  PROVE  m \in Place /\ m + 1 \in Place
<1>1. m + 2 <= WrapAt
  BY EvenBelow, ListsAssumption, WrapAssumption DEF ListsAssumption, WrapAssumption, Even
<1> QED BY <1>1, ListsAssumption, WrapAssumption DEF ListsAssumption, WrapAssumption, Place

\* A store keeps the lists' types and only adds to what they cover.
LEMMA WriteKeeps ==
  ASSUME NEW list \in [Place -> Game \cup {0}], NEW p \in Place, game \in Game
  PROVE  /\ Write(list, p) \in [Place -> Game \cup {0}]
         /\ Write(list, p)[p] # 0
         /\ \A q \in Place : list[q] # 0 => Write(list, p)[q] # 0
BY ListsAssumption DEF Write, Game, ListsAssumption

----------------------------------------------------------------------------

\* IInv holds of empty lists.
LEMMA InitIInv == Init => IInv
<1> SUFFICES ASSUME Init PROVE IInv
  OBVIOUS
<1>1. TypeOK
  BY ListsAssumption DEF Init, TypeOK, ListsAssumption
<1>2. CounterInv
  BY EvenZero, ListsAssumption, WrapAssumption
     DEF Init, CounterInv, Busy, ListsAssumption, WrapAssumption
<1>3. CoverInv /\ PlaceInv
  BY DEF Init, CoverInv, Covered, Place, PlaceInv
<1> QED BY <1>1, <1>2, <1>3 DEF IInv

\* Whichever value of the counter the next statement uses, the place it names
\* holds what the statements before it stored.
LEMMA EitherValue ==
  ASSUME IInv, Busy, cpc # "wrap", NEW c \in Counter
  PROVE  /\ c \in Nat /\ c \in 0 .. WrapAt /\ c < WrapAt /\ Even(c) /\ Covered(c)
         /\ c \in Place /\ c + 1 \in Place
         /\ cpc \in {"M1_name", "M0_result", "M1_result", "load", "store"} => nameslist[c] # 0
         /\ cpc \in {"M0_result", "M1_result", "load", "store"} => nameslist[c + 1] # 0
         /\ cpc \in {"M1_result", "load", "store"} => resultslist[c] # 0
         /\ cpc \in {"load", "store"} => resultslist[c + 1] # 0
<1>1. c \in Nat /\ c \in 0 .. WrapAt /\ c < WrapAt /\ Even(c) /\ Covered(c)
  BY ListsAssumption
     DEF IInv, TypeOK, CounterInv, CoverInv, Counter, Busy, ListsAssumption
<1>2. c \in Place /\ c + 1 \in Place
  BY <1>1, RoomForTwo
<1>3. CASE c = idx
  BY <1>1, <1>2, <1>3 DEF IInv, PlaceInv
<1>4. CASE c = 0 /\ idx # 0
  <2>1. idx \in Nat /\ idx >= 2
    BY <1>4, ListsAssumption DEF IInv, TypeOK, CounterInv, Even, ListsAssumption
  <2>2. \A p \in {0, 1} : nameslist[p] # 0 /\ resultslist[p] # 0
    BY <1>2, <1>4, <2>1 DEF IInv, CoverInv, Covered, Place
  <2> QED BY <1>1, <1>2, <1>4, <2>2
<1> QED BY <1>3, <1>4 DEF IInv, CounterInv, Counter, Busy

\* What the steps of set_entry_counter() keep.
LEMMA ClientStep == ASSUME IInv, Client PROVE IInv'
<1> USE ListsAssumption, WrapAssumption DEF ListsAssumption, WrapAssumption
<1>1. CASE Play
  <2>1. TypeOK'
    BY <1>1 DEF Play, ClientAt, lists, handler, IInv, TypeOK
  <2>2. CounterInv'
    BY <1>1 DEF Play, ClientAt, lists, handler, IInv, TypeOK, CounterInv, Busy, Even
  <2>3. CoverInv' /\ PlaceInv'
    BY <1>1 DEF Play, ClientAt, lists, handler, IInv, CoverInv, Covered, PlaceInv
  <2> QED BY <2>1, <2>2, <2>3 DEF IInv
<1>2. CASE AddNames
  <2>1. Busy /\ cpc # "wrap" /\ idx' \in Counter /\ game \in Game
    BY <1>2 DEF AddNames, ClientAt, Busy, IInv, TypeOK, CounterInv, Game
  <2>2. /\ idx' \in 0 .. WrapAt /\ idx' < WrapAt /\ Even(idx') /\ Covered(idx')
        /\ idx' \in Place /\ idx' + 1 \in Place
        /\ cpc = "M1_name" => nameslist[idx'] # 0
    BY <2>1, EitherValue
  <2>3. PICK p \in {idx', idx' + 1} :
          /\ nameslist' = Write(nameslist, p)
          /\ \/ cpc = "M0_name" /\ cpc' = "M1_name" /\ p = idx'
             \/ cpc = "M1_name" /\ cpc' = "M0_result" /\ p = idx' + 1
    BY <1>2 DEF AddNames, ClientAt
  <2>4. /\ nameslist' \in [Place -> Game \cup {0}]
        /\ nameslist'[p] # 0
        /\ \A q \in Place : nameslist[q] # 0 => nameslist'[q] # 0
    <3>1. p \in Place /\ nameslist \in [Place -> Game \cup {0}]
      BY <2>2, <2>3 DEF IInv, TypeOK
    <3> QED BY <2>1, <2>3, <3>1, WriteKeeps
  <2>5. UNCHANGED <<entry_counter, resultslist, game, hpc, size, i, num>>
    BY <1>2 DEF AddNames, handler
  <2>6. TypeOK'
    BY <2>2, <2>3, <2>4, <2>5 DEF IInv, TypeOK
  <2>7. CounterInv'
    BY <2>1, <2>2, <2>3, <2>5 DEF IInv, CounterInv, Busy, Counter
  <2>8. CoverInv'
    BY <2>2, <2>4, <2>5 DEF IInv, CoverInv, Covered
  <2>9. PlaceInv'
    BY <2>2, <2>3, <2>4 DEF PlaceInv
  <2> QED BY <2>6, <2>7, <2>8, <2>9 DEF IInv
<1>3. CASE AddResults
  <2>1. Busy /\ cpc # "wrap" /\ idx' \in Counter /\ game \in Game
    BY <1>3 DEF AddResults, ClientAt, Busy, IInv, TypeOK, CounterInv, Game
  <2>2. /\ idx' \in 0 .. WrapAt /\ idx' < WrapAt /\ Even(idx') /\ Covered(idx')
        /\ idx' \in Place /\ idx' + 1 \in Place
        /\ cpc \in {"M0_result", "M1_result"} => nameslist[idx'] # 0 /\ nameslist[idx' + 1] # 0
        /\ cpc = "M1_result" => resultslist[idx'] # 0
    BY <2>1, EitherValue
  <2>3. PICK p \in {idx', idx' + 1} :
          /\ resultslist' = Write(resultslist, p)
          /\ \/ cpc = "M0_result" /\ cpc' = "M1_result" /\ p = idx'
             \/ cpc = "M1_result" /\ cpc' = "load" /\ p = idx' + 1
    BY <1>3 DEF AddResults, ClientAt
  <2>4. /\ resultslist' \in [Place -> Game \cup {0}]
        /\ resultslist'[p] # 0
        /\ \A q \in Place : resultslist[q] # 0 => resultslist'[q] # 0
    <3>1. p \in Place /\ resultslist \in [Place -> Game \cup {0}]
      BY <2>2, <2>3 DEF IInv, TypeOK
    <3> QED BY <2>1, <2>3, <3>1, WriteKeeps
  <2>5. UNCHANGED <<entry_counter, nameslist, game, hpc, size, i, num>>
    BY <1>3 DEF AddResults, handler
  <2>6. TypeOK'
    BY <2>2, <2>3, <2>4, <2>5 DEF IInv, TypeOK
  <2>7. CounterInv'
    BY <2>1, <2>2, <2>3, <2>5 DEF IInv, CounterInv, Busy, Counter
  <2>8. CoverInv'
    BY <2>2, <2>4, <2>5 DEF IInv, CoverInv, Covered
  <2>9. PlaceInv'
    BY <2>2, <2>3, <2>4, <2>5 DEF PlaceInv
  <2> QED BY <2>6, <2>7, <2>8, <2>9 DEF IInv
<1>4. CASE Load
  <2>1. Busy /\ cpc = "load" /\ cpc' = "store" /\ idx' \in Counter
    BY <1>4 DEF Load, ClientAt, Busy
  <2>2. /\ idx' \in 0 .. WrapAt /\ idx' < WrapAt /\ Even(idx') /\ Covered(idx')
        /\ nameslist[idx'] # 0 /\ nameslist[idx' + 1] # 0
        /\ resultslist[idx'] # 0 /\ resultslist[idx' + 1] # 0
    BY <2>1, EitherValue
  <2>3. UNCHANGED <<entry_counter, nameslist, resultslist, game, hpc, size, i, num>>
    BY <1>4 DEF Load, lists, handler
  <2>4. TypeOK'
    BY <2>1, <2>2, <2>3 DEF IInv, TypeOK
  <2>5. CounterInv'
    BY <2>1, <2>2, <2>3 DEF IInv, CounterInv, Busy, Counter
  <2>6. CoverInv' /\ PlaceInv'
    BY <2>1, <2>2, <2>3 DEF IInv, CoverInv, Covered, PlaceInv
  <2> QED BY <2>4, <2>5, <2>6 DEF IInv
<1>5. CASE Store
  <2>1. /\ Busy /\ cpc = "store" /\ cpc' = "wrap" /\ idx' = idx + 2 /\ entry_counter' = idx + 2
        /\ UNCHANGED <<nameslist, resultslist, game, hpc, size, i, num>>
    BY <1>5 DEF Store, ClientAt, Busy, lists, handler
  <2>2. idx \in Nat /\ idx + 2 <= WrapAt /\ Even(idx + 2)
    BY <2>1, EvenBelow DEF IInv, TypeOK, CounterInv, Even
  <2>3. TypeOK'
    BY <2>1, <2>2 DEF IInv, TypeOK
  <2>4. CounterInv'
    BY <2>1, <2>2 DEF IInv, CounterInv, Busy
  <2>5. Covered(idx + 2)
    BY <2>1, <2>2 DEF IInv, CoverInv, Covered, PlaceInv, Place
  <2>6. CoverInv' /\ PlaceInv'
    BY <2>1, <2>5 DEF IInv, CoverInv, Covered, PlaceInv
  <2> QED BY <2>3, <2>4, <2>6 DEF IInv
<1>6. CASE Wrap
  <2>1. /\ cpc = "wrap" /\ cpc' = "play" /\ Busy
        /\ UNCHANGED <<nameslist, resultslist, idx, game, hpc, size, i, num>>
    BY <1>6 DEF Wrap, ClientAt, Busy, lists, handler
  <2>2. PICK c \in Counter : entry_counter' = IF c >= WrapAt THEN 0 ELSE entry_counter
    BY <1>6 DEF Wrap
  <2>3. entry_counter' \in {0, entry_counter} /\ entry_counter' < WrapAt
    BY <2>1, <2>2 DEF IInv, TypeOK, CounterInv, Counter, Busy
  <2>4. TypeOK'
    BY <2>1, <2>3 DEF IInv, TypeOK
  <2>5. CounterInv'
    BY <2>1, <2>3, EvenZero DEF IInv, CounterInv, Busy
  <2>6. CoverInv' /\ PlaceInv'
    BY <2>1, <2>3 DEF IInv, CoverInv, Covered, Place, PlaceInv
  <2> QED BY <2>4, <2>5, <2>6 DEF IInv
<1> QED BY <1>1, <1>2, <1>3, <1>4, <1>5, <1>6 DEF Client

\* What the steps of entry_handler() keep.
LEMMA HandlerStep == ASSUME IInv, Handler PROVE IInv'
<1> USE ListsAssumption, WrapAssumption DEF ListsAssumption, WrapAssumption
<1>1. CASE Request
  <2>1. TypeOK'
    BY <1>1 DEF Request, lists, client, IInv, TypeOK
  <2>2. CounterInv' /\ CoverInv' /\ PlaceInv'
    BY <1>1 DEF Request, lists, client, IInv, CounterInv, Busy, CoverInv, Covered, PlaceInv
  <2> QED BY <2>1, <2>2 DEF IInv
<1>2. CASE FillRecord
  <2>1. TypeOK'
    BY <1>2 DEF FillRecord, HandlerAt, Bound, lists, client, IInv, TypeOK
  <2>2. CounterInv' /\ CoverInv' /\ PlaceInv'
    BY <1>2 DEF FillRecord, lists, client, IInv, CounterInv, Busy, CoverInv, Covered, PlaceInv
  <2> QED BY <2>1, <2>2 DEF IInv
<1>3. CASE LeaveLoop \/ Encode
  <2>1. TypeOK'
    BY <1>3 DEF LeaveLoop, Encode, Bound, HandlerAt, lists, client, IInv, TypeOK
  <2>2. CounterInv' /\ CoverInv' /\ PlaceInv'
    BY <1>3 DEF LeaveLoop, Encode, lists, client, IInv, CounterInv, Busy, CoverInv, Covered, PlaceInv
  <2> QED BY <2>1, <2>2 DEF IInv
<1>4. CASE Clear
  <2>1. TypeOK'
    BY <1>4 DEF Clear, HandlerAt, lists, client, IInv, TypeOK
  <2>2. CounterInv'
    BY <1>4, EvenZero DEF Clear, client, IInv, TypeOK, CounterInv, Busy
  <2>3. CoverInv' /\ PlaceInv'
    BY <1>4 DEF Clear, lists, client, IInv, CoverInv, Covered, Place, PlaceInv
  <2> QED BY <2>1, <2>2, <2>3 DEF IInv
<1> QED BY <1>1, <1>2, <1>3, <1>4 DEF Handler

\* The inductive invariant: however the handler's reset falls between the
\* statements of the client thread, a value of the counter that a statement may
\* still use names a place the statements before it have filled.
THEOREM Invariance == Spec => []IInv
<1>1. IInv /\ [Next]_vars => IInv'
  <2> SUFFICES ASSUME IInv, [Next]_vars PROVE IInv'
    OBVIOUS
  <2>1. CASE UNCHANGED vars
    BY <2>1 DEF vars, IInv, TypeOK, CounterInv, Busy, CoverInv, Covered, PlaceInv
  <2> QED BY <2>1, ClientStep, HandlerStep DEF Next
<1> QED BY InitIInv, <1>1, PTL DEF Spec

\* Every variable keeps its type; the counter never passes the place at which it
\* starts again (coap_client.c 242-252).
THEOREM TypeCorrect == Spec => []TypeOK
<1>1. IInv => TypeOK
  BY DEF IInv
<1> QED BY <1>1, Invariance, PTL

\* Both threads stay inside the lists, whatever values of the counter they use
\* (see IndexInBounds).
THEOREM IndexInBoundsHolds == Spec => []IndexInBounds
<1>1. IInv => IndexInBounds
  <2> SUFFICES ASSUME IInv PROVE IndexInBounds
    OBVIOUS
  <2>1. cpc \notin {"play", "wrap"} => {idx + 1, entry_counter + 1} \subseteq Place
    BY EitherValue DEF Busy, Counter
  <2>2. hpc = "fill" /\ (\E n \in Bound : i < n) => i \in Place
    BY ListsAssumption, WrapAssumption
       DEF ListsAssumption, WrapAssumption, IInv, TypeOK, Bound, Place
  <2> QED BY <2>1, <2>2 DEF IndexInBounds
<1> QED BY <1>1, Invariance, PTL

\* The handler's loop reads only places of which both halves were stored (see
\* ReadsWritten).
THEOREM ReadsWrittenHolds == Spec => []ReadsWritten
<1>1. IInv => ReadsWritten
  BY ListsAssumption, WrapAssumption
     DEF ListsAssumption, WrapAssumption, IInv, TypeOK, CoverInv, Covered, Bound, Place,
         ReadsWritten
<1> QED BY <1>1, Invariance, PTL
=============================================================================
