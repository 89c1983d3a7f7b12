----------------------------- MODULE GameMaster -----------------------------
(***************************************************************************)
(* The CoAP client of board M0, which drives the game (coap_client.c): its *)
(* thread, which polls the collected states and sends one batch of         *)
(* requests per look, and the response handler, which the gcoap thread     *)
(* runs and which fills those states in.  M0's game thread calls           *)
(* reset_client_states() as well.  Nothing is locked.                      *)
(*                                                                         *)
(* This module holds the state and one action per operation; Reaction says *)
(* when the threads run and what the network does with the requests.       *)
(*                                                                         *)
(* A stored result is a number, 0 being the empty string (atol("") is 0).  *)
(* A stored name is only whether there is one.                             *)
(***************************************************************************)
EXTENDS Naturals

CONSTANTS
  M0, M1,         \* the two boards
  AllTimes,       \* the reaction times the boards can report
  FrameReused,    \* a stored text may have been overwritten when it is read
  WrapAt          \* entry_counter starts again from here (48 in the code)

Machine == {M0, M1}

VARIABLES
  mpc,            \* where the client thread is
  cst,            \* client.M0_state, client.M1_state
  named,          \* client.M0_name, client.M1_name are not ""
  res,            \* client.M0_result, client.M1_result
  winner,         \* the board the comparison chose
  entry_counter,  \* the next free place of the highscore lists
  last            \* what the lists got last: per board, name and result

vars == <<mpc, cst, named, res, winner, entry_counter, last>>

client == <<cst, named, res>>
highscore == <<entry_counter, last>>

ClientState == {"WAITING", "HAS_NAME", "IS_WORKING", "RCVD_RESULT"}

\* "poll" is the top of the loop, "spin" a loop no branch of which applies; at
\* "askName", "askStart", "askResult", "verdict" and "rest" the thread sleeps.
Label ==
  {"poll", "spin", "askName", "askStart", "askResult", "verdict", "record",
   "resetStates", "resetStrings", "rest"}

TypeOK ==
  /\ mpc \in Label
  /\ cst \in [Machine -> ClientState]
  /\ named \in [Machine -> BOOLEAN]
  /\ res \in [Machine -> AllTimes \cup {0}]
  /\ winner \in Machine
  /\ entry_counter \in 0 .. WrapAt - 1
  /\ last \in [Machine -> BOOLEAN \X (AllTimes \cup {0})]

Init ==
  /\ mpc = "poll"
  /\ cst = [m \in Machine |-> "WAITING"]
  /\ named = [m \in Machine |-> FALSE]
  /\ res = [m \in Machine |-> 0]
  /\ winner = M0
  /\ entry_counter = 0
  /\ last = [m \in Machine |-> <<FALSE, 0>>]

AnyIs(s) == \E m \in Machine : cst[m] = s
AllAre(s) == \A m \in Machine : cst[m] = s

Goto(from, to) == mpc = from /\ mpc' = to

----------------------------------------------------------------------------
(* The client thread: one look at the states, first branch that applies.   *)

ChooseNames ==
  /\ Goto("poll", "askName")
  /\ AnyIs("WAITING")
  /\ UNCHANGED <<client, winner, highscore>>

\* Mutant: one name is enough to start.
ChooseStart_oneName ==
  /\ Goto("poll", "askStart")
  /\ AnyIs("HAS_NAME")
  /\ UNCHANGED <<client, winner, highscore>>

ChooseStart ==
  /\ Goto("poll", "askStart")
  /\ AllAre("HAS_NAME")
  /\ UNCHANGED <<client, winner, highscore>>

ChooseResults ==
  /\ Goto("poll", "askResult")
  /\ ~AnyIs("WAITING")
  /\ AnyIs("IS_WORKING")
  /\ UNCHANGED <<client, winner, highscore>>

\* What a read of a stored result may give.  set_result() stored a pointer into
\* the stack frame of _resp_handler(), which has returned since.
Reads(m) == IF FrameReused /\ res[m] # 0 THEN AllTimes \cup {0} ELSE {res[m]}

\* Mutant: the branch for a faster M1 is missing.
Compare_oneBranch ==
  /\ mpc = "poll"
  /\ AllAre("RCVD_RESULT")
  /\ \E a \in Reads(M0), b \in Reads(M1) :
       IF a < b THEN winner' = M0 /\ mpc' = "verdict"
                ELSE winner' = winner /\ mpc' = "record"
  /\ UNCHANGED <<client, highscore>>

\* The two comparisons of atol(M0_result) with atol(M1_result); the second is
\* made only if the first fails, and reads both again.
Compare ==
  /\ mpc = "poll"
  /\ AllAre("RCVD_RESULT")
  /\ \E a, c \in Reads(M0), b, d \in Reads(M1) :
       \/ /\ a < b
          /\ winner' = M0
          /\ mpc' = "verdict"
       \/ /\ a >= b /\ c > d
          /\ winner' = M1
          /\ mpc' = "verdict"
       \/ /\ a >= b /\ c <= d
          /\ winner' = winner
          /\ mpc' = "record"
  /\ UNCHANGED <<client, highscore>>

\* One board has a name and the other a result: the loop turns without any call.
\* client is not volatile, so a build may never read the states again.
Spin ==
  /\ Goto("poll", "spin")
  /\ AnyIs("HAS_NAME") /\ AnyIs("RCVD_RESULT")
  /\ UNCHANGED <<client, winner, highscore>>

LookAgain ==
  /\ Goto("spin", "poll")
  /\ UNCHANGED <<client, winner, highscore>>

\* The request the batch holds for board m.
Ask(m) ==
  CASE mpc = "askName"   -> "name"
    [] mpc = "askStart"  -> "start"
    [] mpc = "askResult" -> "result"
    [] mpc = "verdict"   -> IF m = winner THEN "winner" ELSE "looser"

\* After the sleep the batch goes out, whatever the states say by now.
SendBatch ==
  /\ \/ mpc \in {"askName", "askStart", "askResult"} /\ mpc' = "poll"
     \/ Goto("verdict", "record")
  /\ UNCHANGED <<client, winner, highscore>>

\* Mutant: the entry of M1 is not written.
Record_half ==
  /\ Goto("record", "resetStates")
  /\ \E t \in Reads(M0) : last' = [last EXCEPT ![M0] = <<named[M0], t>>]
  /\ entry_counter' = IF entry_counter + 2 >= WrapAt THEN 0 ELSE entry_counter + 2
  /\ UNCHANGED <<client, winner>>

\* Mutant: entry_counter never starts again.
Record_noWrap ==
  /\ Goto("record", "resetStates")
  /\ last' = [m \in Machine |-> <<named[m], res[m]>>]
  /\ entry_counter' = entry_counter + 2
  /\ UNCHANGED <<client, winner>>

\* set_entry_counter()
Record ==
  /\ Goto("record", "resetStates")
  /\ \E t \in [Machine -> AllTimes \cup {0}] :
       /\ \A m \in Machine : t[m] \in Reads(m)
       /\ last' = [m \in Machine |-> <<named[m], t[m]>>]
  /\ entry_counter' = IF entry_counter + 2 >= WrapAt THEN 0 ELSE entry_counter + 2
  /\ UNCHANGED <<client, winner>>

\* reset_client_states(): the states first, the texts after them.
ClearStates == cst' = [m \in Machine |-> "WAITING"] /\ UNCHANGED <<named, res>>
ClearStrings ==
  /\ named' = [m \in Machine |-> FALSE]
  /\ res' = [m \in Machine |-> 0]
  /\ UNCHANGED cst

\* Mutant: the states are not reset.
ResetStates_noop ==
  /\ Goto("resetStates", "resetStrings")
  /\ UNCHANGED <<client, winner, highscore>>

\* Mutant: the state of M1 is not reset.
ResetStates_half ==
  /\ Goto("resetStates", "resetStrings")
  /\ cst' = [cst EXCEPT ![M0] = "WAITING"]
  /\ UNCHANGED <<named, res, winner, highscore>>

ResetStates ==
  /\ Goto("resetStates", "resetStrings")
  /\ ClearStates
  /\ UNCHANGED <<winner, highscore>>

ResetStrings ==
  /\ Goto("resetStrings", "rest")
  /\ ClearStrings
  /\ UNCHANGED <<winner, highscore>>

Rest ==
  /\ Goto("rest", "poll")
  /\ UNCHANGED <<client, winner, highscore>>

----------------------------------------------------------------------------
(* The response handler (on the gcoap thread).                             *)

set_name(m) ==
  /\ named' = [named EXCEPT ![m] = TRUE]
  /\ cst' = [cst EXCEPT ![m] = "HAS_NAME"]
  /\ UNCHANGED <<mpc, res, winner, highscore>>

set_is_working(m) ==
  /\ cst' = [cst EXCEPT ![m] = "IS_WORKING"]
  /\ UNCHANGED <<mpc, named, res, winner, highscore>>

set_result(m, t) ==
  /\ res' = [res EXCEPT ![m] = t]
  /\ cst' = [cst EXCEPT ![m] = "RCVD_RESULT"]
  /\ UNCHANGED <<mpc, named, winner, highscore>>

----------------------------------------------------------------------------
(* reset_client_states(), called by the game thread of M0.                 *)

GameClearsStates == ClearStates /\ UNCHANGED <<mpc, winner, highscore>>
GameClearsStrings == ClearStrings /\ UNCHANGED <<mpc, winner, highscore>>
=============================================================================
