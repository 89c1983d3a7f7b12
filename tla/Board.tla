------------------------------- MODULE Board -------------------------------
(***************************************************************************)
(* What one game board promises, seen through the shared variable          *)
(* game.state: the rounds of the game thread (game.c, game_run) and the    *)
(* writes the CoAP request handlers make to that variable (main.c).        *)
(*                                                                         *)
(* GameLoop is the statement-level model of the same board and is checked  *)
(* and proved to implement this one; Reaction composes two of these boards *)
(* with the game master and the network.                                   *)
(*                                                                         *)
(* The phases of a round, in order:                                        *)
(*   naming    state = INIT was written; the player enters a name          *)
(*   waiting   NAME_READY was written; busy-waiting for START_GAME         *)
(*   racing    START_GAME was seen; from here to the end of the wait for   *)
(*             the button                                                  *)
(*   timed     a button press was timed, the motors are being stopped      *)
(*   reported  GET_RESULT was written; busy-waiting for the verdict        *)
(*   told      WINNER or LOOSER was seen once                              *)
(*   winning, losing   the animation the second read of state chose        *)
(* or, when nobody presses in time,                                        *)
(*   late      the wait for the button timed out                           *)
(*   dropping  reset_client_states() is under way                          *)
(*   over      FAILED was written (and before the very first round)        *)
(***************************************************************************)
EXTENDS Naturals

CONSTANTS
  Machine,      \* the boards
  Times         \* Times[m] \subseteq Nat: the reaction times board m can measure

VARIABLES
  phase,        \* where the game thread of each board is in its round
  state,        \* game.state
  result        \* game.reaction_time, as the last press was timed

vars == <<phase, state, result>>

GameState ==
  {"INIT", "NAME_READY", "START_GAME", "GET_RESULT", "WINNER", "LOOSER", "FAILED"}

Verdict == {"WINNER", "LOOSER"}

Phase ==
  {"over", "naming", "waiting", "racing", "timed", "reported", "told",
   "winning", "losing", "late", "dropping"}

TypeOK ==
  /\ phase \in [Machine -> Phase]
  /\ state \in [Machine -> GameState]
  /\ result \in [Machine -> Nat]

----------------------------------------------------------------------------
(* The game thread.  Only it writes INIT, NAME_READY, GET_RESULT, FAILED.  *)

Move(m, from, to) ==
  /\ phase[m] = from
  /\ phase' = [phase EXCEPT ![m] = to]

Write(m, s) == state' = [state EXCEPT ![m] = s]

NextRound(m) ==
  /\ phase[m] \in {"over", "winning", "losing"}
  /\ phase' = [phase EXCEPT ![m] = "naming"]
  /\ Write(m, "INIT")
  /\ UNCHANGED result

EnterName(m) ==
  /\ Move(m, "naming", "waiting")
  /\ Write(m, "NAME_READY")
  /\ UNCHANGED result

Go(m) ==
  /\ Move(m, "waiting", "racing")
  /\ state[m] = "START_GAME"
  /\ UNCHANGED <<state, result>>

\* Mutant: a press is timed again after the result was reported.
Measure_again(m) ==
  /\ \/ Move(m, "racing", "timed")
     \/ phase[m] = "reported" /\ UNCHANGED phase
  /\ \E t \in Times[m] : result' = [result EXCEPT ![m] = t]
  /\ UNCHANGED state

Measure(m) ==
  /\ Move(m, "racing", "timed")
  /\ \E t \in Times[m] : result' = [result EXCEPT ![m] = t]
  /\ UNCHANGED state

Report(m) ==
  /\ Move(m, "timed", "reported")
  /\ Write(m, "GET_RESULT")
  /\ UNCHANGED result

TimeOut(m) ==
  /\ Move(m, "racing", "late")
  /\ UNCHANGED <<state, result>>

DropClient(m) ==
  /\ Move(m, "late", "dropping")
  /\ UNCHANGED <<state, result>>

Fail(m) ==
  /\ Move(m, "dropping", "over")
  /\ Write(m, "FAILED")
  /\ UNCHANGED result

\* The loop that waits for the verdict reads state once ...
SeeVerdict(m) ==
  /\ Move(m, "reported", "told")
  /\ state[m] \in Verdict
  /\ UNCHANGED <<state, result>>

\* ... and the choice of the animation reads it again.
Animate(m) ==
  /\ Move(m, "told", IF state[m] = "WINNER" THEN "winning" ELSE "losing")
  /\ UNCHANGED <<state, result>>

GameThread(m) ==
  \/ NextRound(m) \/ EnterName(m) \/ Go(m)
  \/ Measure(m) \/ Report(m)
  \/ TimeOut(m) \/ DropClient(m) \/ Fail(m)
  \/ SeeVerdict(m) \/ Animate(m)

----------------------------------------------------------------------------
(* The request handlers that write state, whatever the game thread does.   *)

StartGame(m) == Write(m, "START_GAME") /\ UNCHANGED <<phase, result>>
SetWinner(m) == Write(m, "WINNER") /\ UNCHANGED <<phase, result>>
SetLooser(m) == Write(m, "LOOSER") /\ UNCHANGED <<phase, result>>

Handler(m) == StartGame(m) \/ SetWinner(m) \/ SetLooser(m)

Init ==
  /\ phase = [m \in Machine |-> "over"]
  /\ state = [m \in Machine |-> "INIT"]
  /\ result = [m \in Machine |-> 0]

Next == \E m \in Machine : GameThread(m) \/ Handler(m)

Spec == Init /\ [][Next]_vars
=============================================================================
