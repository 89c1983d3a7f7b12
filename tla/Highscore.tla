----------------------------- MODULE Highscore -----------------------------
(***************************************************************************)
(* The highscore lists of M0 (coap_client.c): the client thread adds both  *)
(* players of a game (set_entry_counter) while the gcoap thread publishes  *)
(* the lists and empties them (entry_handler, senml_json_send and          *)
(* senml_json_strout).  They share entry_counter and both lists unlocked.  *)
(*                                                                         *)
(* A place of a list holds the number of the game it was written for, 0    *)
(* being never written.  Of the encoder only its answer matters; Senml     *)
(* shows that it succeeds exactly if the document and its NUL fit.         *)
(***************************************************************************)
EXTENDS Naturals

CONSTANTS
  WrapAt,       \* entry_counter starts again from here (48 in the code)
  Places,       \* the length of the lists (50 in the code)
  SENML_LEN,    \* the bytes for the document (75 in the code)
  RecordSizes,  \* the bytes one record of the document takes
  MaxGames      \* bound: games played

ASSUME ListsAssumption ==
  {WrapAt, Places, SENML_LEN, MaxGames} \subseteq Nat /\ RecordSizes \subseteq Nat
ASSUME WrapAssumption == WrapAt % 2 = 0 /\ 0 < WrapAt /\ WrapAt <= Places

VARIABLES
  entry_counter,  \* the next free place
  nameslist, resultslist,
  cpc,            \* the client thread: the statement of set_entry_counter
  idx,            \* entry_counter as the client thread read it last
  game,           \* the number of the game that was played last
  hpc,            \* the gcoap thread: the statement of senml_json_strout
  size,           \* the length of its array records
  i,              \* its loop's position, and the records it has filled
  num             \* pack.num, the records it publishes

vars == <<entry_counter, nameslist, resultslist, cpc, idx, game, hpc, size, i, num>>

lists == <<nameslist, resultslist>>
client == <<cpc, idx, game>>
handler == <<hpc, size, i, num>>

Place == 0 .. Places - 1
Game == 1 .. MaxGames

Init ==
  /\ entry_counter = 0
  /\ nameslist = [p \in Place |-> 0]
  /\ resultslist = [p \in Place |-> 0]
  /\ cpc = "play"
  /\ idx = 0
  /\ game = 0
  /\ hpc = "idle"
  /\ size = 0
  /\ i = 0
  /\ num = 0

----------------------------------------------------------------------------
(* The client thread.  entry_counter is not volatile: every statement may  *)
(* read it again or use the value read before.                             *)

ClientAt(from, to) == cpc = from /\ cpc' = to

Counter == {idx, entry_counter}

Write(list, p) == [list EXCEPT ![p] = game]

\* Mutant: the place is given out before it is written.
Play_countsFirst ==
  /\ ClientAt("play", "M0_name")
  /\ game < MaxGames
  /\ game' = game + 1
  /\ idx' = entry_counter
  /\ entry_counter' = entry_counter + 2
  /\ UNCHANGED <<lists, handler>>

\* A game was decided.
Play ==
  /\ ClientAt("play", "M0_name")
  /\ game < MaxGames
  /\ game' = game + 1
  /\ idx' = entry_counter
  /\ UNCHANGED <<entry_counter, lists, handler>>

AddNames ==
  /\ idx' \in Counter
  /\ \/ ClientAt("M0_name", "M1_name") /\ nameslist' = Write(nameslist, idx')
     \/ ClientAt("M1_name", "M0_result") /\ nameslist' = Write(nameslist, idx' + 1)
  /\ UNCHANGED <<entry_counter, resultslist, game, handler>>

AddResults ==
  /\ idx' \in Counter
  /\ \/ ClientAt("M0_result", "M1_result") /\ resultslist' = Write(resultslist, idx')
     \/ ClientAt("M1_result", "load") /\ resultslist' = Write(resultslist, idx' + 1)
  /\ UNCHANGED <<entry_counter, nameslist, game, handler>>

\* entry_counter += 2 is a load and a store.
Load ==
  /\ ClientAt("load", "store")
  /\ idx' \in Counter
  /\ UNCHANGED <<entry_counter, lists, game, handler>>

Store ==
  /\ ClientAt("store", "wrap")
  /\ idx' = idx + 2
  /\ entry_counter' = idx + 2
  /\ UNCHANGED <<lists, game, handler>>

\* Mutant: entry_counter never starts again.
Wrap_never ==
  /\ ClientAt("wrap", "play")
  /\ UNCHANGED <<entry_counter, lists, idx, game, handler>>

Wrap ==
  /\ ClientAt("wrap", "play")
  /\ \E c \in Counter :
       entry_counter' = IF c >= WrapAt THEN 0 ELSE entry_counter
  /\ UNCHANGED <<lists, idx, game, handler>>

Client == Play \/ AddNames \/ AddResults \/ Load \/ Store \/ Wrap

----------------------------------------------------------------------------
(* The gcoap thread answering /se-app/entries.                             *)

HandlerAt(from, to) == hpc = from /\ hpc' = to

\* senml_record_t records[entry_counter]
Request ==
  /\ hpc \in {"idle", "failed"}
  /\ hpc' = "fill"
  /\ size' = entry_counter
  /\ i' = 0
  /\ UNCHANGED <<entry_counter, lists, client, num>>

\* entry_counter as the build may have it here: read again, or as it was read first.
Bound == {size, entry_counter}

FillRecord ==
  /\ HandlerAt("fill", "fill")
  /\ \E n \in Bound : i < n
  /\ i' = i + 1
  /\ UNCHANGED <<entry_counter, lists, client, size, num>>

LeaveLoop ==
  /\ HandlerAt("fill", "pack")
  /\ \E n \in Bound : i >= n
  /\ UNCHANGED <<entry_counter, lists, client, size, i, num>>

\* "[", base information (30 bytes) and the NUL, and n records of s bytes each.
Fits(n, s) == n > 0 /\ 32 + n * s <= SENML_LEN

\* The counter is read once more for pack.num, so a game added since the loop's last
\* test is published by records that were never filled.  No records is an error of
\* its own: there is base information.
Encode ==
  /\ hpc = "pack"
  /\ num' \in Bound
  /\ \E s \in RecordSizes : hpc' = IF Fits(num', s) THEN "clear" ELSE "failed"
  /\ UNCHANGED <<entry_counter, lists, client, size, i>>

Clear ==
  /\ HandlerAt("clear", "idle")
  /\ entry_counter' = 0
  /\ UNCHANGED <<lists, client, size, i, num>>

Handler == Request \/ FillRecord \/ LeaveLoop \/ Encode \/ Clear

Next == Client \/ Handler

Spec == Init /\ [][Next]_vars

----------------------------------------------------------------------------
(* Safety.                                                                 *)

TypeOK ==
  /\ entry_counter \in 0 .. WrapAt
  /\ nameslist \in [Place -> Game \cup {0}]
  /\ resultslist \in [Place -> Game \cup {0}]
  /\ cpc \in {"play", "M0_name", "M1_name", "M0_result", "M1_result",
              "load", "store", "wrap"}
  /\ idx \in 0 .. WrapAt
  /\ game \in Nat
  /\ hpc \in {"idle", "fill", "pack", "clear", "failed"}
  /\ size \in 0 .. WrapAt
  /\ i \in 0 .. WrapAt
  /\ num \in 0 .. WrapAt

\* However the handler's reset falls between the statements that add a game, both
\* threads stay inside the lists: the counter may be WrapAt only before the test
\* that starts it again (coap_client.c 242-252 and 35-39).
IndexInBounds ==
  /\ cpc \notin {"play", "wrap"} => {idx + 1, entry_counter + 1} \subseteq Place
  /\ hpc = "fill" /\ (\E n \in Bound : i < n) => i \in Place

\* The handler's loop takes no name and no result from a place that was never
\* written: the counter covers only places both of whose halves were stored, also
\* after a reset it did not see (coap_client.c 35-39 and 243-247).  How many records
\* are published is another question (Encode).
ReadsWritten ==
  hpc = "fill" /\ (\E n \in Bound : i < n) => nameslist[i] # 0 /\ resultslist[i] # 0

\* README.md 38: the server has a resource "which provides highscore information
\* ... when requested": a request fails only if it came when no game was listed
\* (coap_client.c 47-48).
ProvidesEntries == hpc = "failed" => size = 0
=============================================================================
