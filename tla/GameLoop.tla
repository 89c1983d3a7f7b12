------------------------------ MODULE GameLoop ------------------------------
(***************************************************************************)
(* One board, statement by statement: the game thread (game.c), the gcoap  *)
(* thread that runs the request handlers (main.c, coap_handler.c), the     *)
(* button interrupt and the timer.  They share game.state, playername,     *)
(* reaction_time and enableBtns without any lock.                          *)
(*                                                                         *)
(* Every step is the code between two accesses to shared data, so any      *)
(* interleaving of the threads is a behaviour.  The environment is open:   *)
(* any request may arrive at any time, in any order, any number of times.  *)
(*                                                                         *)
(* From RIOT, as the code uses it: the game thread has no message queue,   *)
(* so msg_send_int() and the xtimer message reach it only while it is      *)
(* blocked in xtimer_msg_receive_timeout() and are dropped otherwise.      *)
(***************************************************************************)
EXTENDS Naturals

CONSTANTS
  NameLen,      \* letters a player enters (15 in the code)
  Letters,      \* the letters the player can choose
  Nul,          \* what static storage holds before a name was entered
  Times,        \* reaction times that can be measured
  Self          \* this board, for the abstract specification

ASSUME NameAssumption == NameLen \in Nat \ {0} /\ Nul \notin Letters
ASSUME TimesAssumption == Times \subseteq Nat

VARIABLES
  pc,             \* the next statement of the game thread
  state,          \* game.state (volatile)
  playername,     \* game.playername
  curr_idx,       \* get_player_name()'s position in it
  reaction_time,  \* game.reaction_time
  enableBtns,     \* main.c's flag the button interrupt reads
  motor,          \* both motors, as motor_controller_set_speed() leaves them
  handler         \* the gcoap thread: the reply it is copying, or "idle"

vars == <<pc, state, playername, curr_idx, reaction_time, enableBtns, motor, handler>>

GameState ==
  {"INIT", "NAME_READY", "START_GAME", "GET_RESULT", "WINNER", "LOOSER", "FAILED"}

Labels ==
  {"init", "naming", "nameDone", "waitStart", "enable", "spinUp", "stamp", "receive",
   "blocked", "timedOut", "resetClient", "fail", "pressed", "measure", "stop",
   "report", "waitVerdict", "told", "winning", "losing"}

Indices == 0 .. NameLen - 1

TypeOK ==
  /\ pc \in Labels
  /\ state \in GameState
  /\ playername \in [Indices -> Letters \cup {Nul}]
  /\ curr_idx \in 0 .. NameLen
  /\ reaction_time \in Nat
  /\ enableBtns \in BOOLEAN
  /\ motor \in {"running", "stopped"}
  /\ handler \in {"idle", "name", "result"}

Init ==
  /\ pc = "init"
  /\ state = "INIT"
  /\ playername = [i \in Indices |-> Nul]
  /\ curr_idx = 0
  /\ reaction_time = 0
  /\ enableBtns = FALSE
  /\ motor = "stopped"
  /\ handler = "idle"

Goto(from, to) == pc = from /\ pc' = to

name_vars == <<playername, curr_idx>>
race_vars == <<reaction_time, enableBtns, motor>>

----------------------------------------------------------------------------
(* The game thread.                                                        *)

\* Mutant: the next round starts without resetting state.
NextRound_keepsState ==
  /\ pc \in {"init", "winning", "losing"}
  /\ pc' = "naming"
  /\ curr_idx' = 0
  /\ UNCHANGED <<state, playername, race_vars, handler>>

\* game.state = INIT, and get_player_name() starts at the first letter.
NextRound ==
  /\ pc \in {"init", "winning", "losing"}
  /\ pc' = "naming"
  /\ state' = "INIT"
  /\ curr_idx' = 0
  /\ UNCHANGED <<playername, race_vars, handler>>

\* Mutant: one letter more than the name has room for.
ConfirmLetter_pastEnd ==
  /\ pc = "naming"
  /\ \E c \in Letters :
       playername' = [i \in Indices \cup {curr_idx} |->
                        IF i = curr_idx THEN c ELSE playername[i]]
  /\ curr_idx' = curr_idx + 1
  /\ pc' = IF curr_idx' > NameLen THEN "nameDone" ELSE "naming"
  /\ UNCHANGED <<state, race_vars, handler>>

\* The player confirms a letter; moving through the alphabet shares nothing.
ConfirmLetter ==
  /\ pc = "naming"
  /\ \E c \in Letters : playername' = [playername EXCEPT ![curr_idx] = c]
  /\ curr_idx' = curr_idx + 1
  /\ pc' = IF curr_idx' >= NameLen THEN "nameDone" ELSE "naming"
  /\ UNCHANGED <<state, race_vars, handler>>

AnnounceName ==
  /\ Goto("nameDone", "waitStart")
  /\ state' = "NAME_READY"
  /\ UNCHANGED <<name_vars, race_vars, handler>>

\* while (1) if (dev->state == START_GAME) break;
SeeStart ==
  /\ Goto("waitStart", "enable")
  /\ state = "START_GAME"
  /\ UNCHANGED <<state, name_vars, race_vars, handler>>

EnableButtons ==
  /\ Goto("enable", "spinUp")
  /\ enableBtns' = TRUE
  /\ UNCHANGED <<state, name_vars, reaction_time, motor, handler>>

StartMotor ==
  /\ Goto("spinUp", "stamp")
  /\ motor' = "running"
  /\ UNCHANGED <<state, name_vars, reaction_time, enableBtns, handler>>

\* start_time = xtimer_now_usec()
StampStart ==
  /\ Goto("stamp", "receive")
  /\ UNCHANGED <<state, name_vars, race_vars, handler>>

\* xtimer_msg_receive_timeout(): the thread is RECEIVE_BLOCKED from here on.
BlockOnMessage ==
  /\ Goto("receive", "blocked")
  /\ UNCHANGED <<state, name_vars, race_vars, handler>>

\* The timeout path leaves enableBtns set.
StopMotorLate ==
  /\ Goto("timedOut", "resetClient")
  /\ motor' = "stopped"
  /\ UNCHANGED <<state, name_vars, reaction_time, enableBtns, handler>>

\* reset_client_states() touches nothing of this board.
ResetClient ==
  /\ Goto("resetClient", "fail")
  /\ UNCHANGED <<state, name_vars, race_vars, handler>>

Fail ==
  /\ Goto("fail", "init")
  /\ state' = "FAILED"
  /\ UNCHANGED <<name_vars, race_vars, handler>>

\* Mutant: the result is announced before it was measured.
DisableButtons_announces ==
  /\ Goto("pressed", "measure")
  /\ enableBtns' = FALSE
  /\ state' = "GET_RESULT"
  /\ UNCHANGED <<name_vars, reaction_time, motor, handler>>

DisableButtons ==
  /\ Goto("pressed", "measure")
  /\ enableBtns' = FALSE
  /\ UNCHANGED <<state, name_vars, reaction_time, motor, handler>>

\* reaction_time = xtimer_now_usec() - start_time
MeasureTime ==
  /\ Goto("measure", "stop")
  /\ reaction_time' \in Times
  /\ UNCHANGED <<state, name_vars, enableBtns, motor, handler>>

\* Mutant: a press does not stop the motors.
StopMotor_noop ==
  /\ Goto("stop", "report")
  /\ UNCHANGED <<state, name_vars, race_vars, handler>>

StopMotor ==
  /\ Goto("stop", "report")
  /\ motor' = "stopped"
  /\ UNCHANGED <<state, name_vars, reaction_time, enableBtns, handler>>

ReportResult ==
  /\ Goto("report", "waitVerdict")
  /\ state' = "GET_RESULT"
  /\ UNCHANGED <<name_vars, race_vars, handler>>

\* while (1) if (dev->state == WINNER || dev->state == LOOSER) break;
SeeVerdict ==
  /\ Goto("waitVerdict", "told")
  /\ state \in {"WINNER", "LOOSER"}
  /\ UNCHANGED <<state, name_vars, race_vars, handler>>

\* A second read of the volatile state chooses the animation.
PlayAnimation ==
  /\ Goto("told", IF state = "WINNER" THEN "winning" ELSE "losing")
  /\ UNCHANGED <<state, name_vars, race_vars, handler>>

GameThread ==
  \/ NextRound \/ AnnounceName \/ SeeStart
  \/ EnableButtons \/ StartMotor \/ StampStart \/ BlockOnMessage
  \/ StopMotorLate \/ ResetClient \/ Fail
  \/ DisableButtons \/ MeasureTime \/ StopMotor \/ ReportResult
  \/ SeeVerdict \/ PlayAnimation

----------------------------------------------------------------------------
(* The interrupts.                                                         *)

\* A press whose message is dropped changes nothing and is not a step here.
ButtonIrq ==
  /\ enableBtns
  /\ Goto("blocked", "pressed")
  /\ UNCHANGED <<state, name_vars, race_vars, handler>>

TimerFires ==
  /\ Goto("blocked", "timedOut")
  /\ UNCHANGED <<state, name_vars, race_vars, handler>>

----------------------------------------------------------------------------
(* The gcoap thread: one request at a time.  get_name_of_player() and      *)
(* get_result() test state first and then copy the data the game thread    *)
(* owns; a request they answer without it is not a step here.              *)

WriteState(s) ==
  /\ handler = "idle"
  /\ state' = s
  /\ UNCHANGED <<pc, name_vars, race_vars, handler>>

StartGame == WriteState("START_GAME")
SetWinner == WriteState("WINNER")
SetLooser == WriteState("LOOSER")

get_name_of_player ==
  /\ handler = "idle"
  /\ state = "NAME_READY"
  /\ handler' = "name"
  /\ UNCHANGED <<pc, state, name_vars, race_vars>>

\* Mutant: the result is formatted whatever the state.
get_result_unchecked ==
  /\ handler = "idle"
  /\ handler' = "result"
  /\ UNCHANGED <<pc, state, name_vars, race_vars>>

get_result ==
  /\ handler = "idle"
  /\ state = "GET_RESULT"
  /\ handler' = "result"
  /\ UNCHANGED <<pc, state, name_vars, race_vars>>

FinishReply ==
  /\ handler # "idle"
  /\ handler' = "idle"
  /\ UNCHANGED <<pc, state, name_vars, race_vars>>

GcoapThread ==
  \/ StartGame \/ SetWinner \/ SetLooser
  \/ get_name_of_player \/ get_result \/ FinishReply

Next == GameThread \/ ConfirmLetter \/ ButtonIrq \/ TimerFires \/ GcoapThread

\* RIOT runs every ready thread of the priority these share, and a timer that
\* was set fires.  Nothing makes the player press or a request arrive.
Fairness ==
  /\ WF_vars(GameThread)
  /\ WF_vars(TimerFires)
  /\ WF_vars(FinishReply)

Spec == Init /\ [][Next]_vars

FairSpec == Spec /\ Fairness

----------------------------------------------------------------------------
(* Safety.                                                                 *)

\* What state announces to the request handlers is there: NAME_READY means the
\* game thread has entered every letter of this round's name and waits for the
\* start; GET_RESULT means the press was timed and the thread waits for the
\* verdict.  In both, and from FAILED or INIT on, the motors are off, whichever
\* way the race before was left (game.c 157-203, main.c 60 and 73).
Announced ==
  /\ state = "NAME_READY" =>
       /\ pc = "waitStart"
       /\ curr_idx = NameLen
       /\ \A i \in Indices : playername[i] \in Letters
  /\ state = "GET_RESULT" =>
       /\ pc = "waitVerdict"
       /\ reaction_time \in Times
  /\ state \in {"INIT", "NAME_READY", "GET_RESULT", "FAILED"} => motor = "stopped"

\* The handlers test state and then copy playername or reaction_time without a
\* lock.  No interleaving with the game thread changes what is being copied, or
\* moves state on to another answer (main.c 59-65 and 72-78).
NoTornReply ==
  [][ /\ handler = "name" => UNCHANGED <<playername, state>>
      /\ handler = "result" => UNCHANGED <<reaction_time, state>> ]_vars

----------------------------------------------------------------------------
(* Liveness.                                                               *)

\* Motors that were started are stopped again, whether or not the player ever
\* presses and whatever requests arrive meanwhile (game.c 186-201).
MotorStops == motor = "running" ~> motor = "stopped"

----------------------------------------------------------------------------
(* This board implements Board: the program counter becomes the phase, and *)
(* the names, buttons, motors and replies are hidden.                      *)

PhaseOf ==
  CASE pc \in {"init"}                                                 -> "over"
    [] pc \in {"naming", "nameDone"}                                   -> "naming"
    [] pc = "waitStart"                                                -> "waiting"
    [] pc \in {"enable", "spinUp", "stamp", "receive", "blocked",
               "pressed", "measure"}                                   -> "racing"
    [] pc \in {"stop", "report"}                                       -> "timed"
    [] pc = "waitVerdict"                                              -> "reported"
    [] pc \in {"timedOut", "resetClient"}                              -> "late"
    [] pc = "fail"                                                     -> "dropping"
    [] OTHER                                                           -> pc

ABoard == INSTANCE Board WITH
  Machine <- {Self},
  Times <- [m \in {Self} |-> Times],
  phase <- [m \in {Self} |-> PhaseOf],
  state <- [m \in {Self} |-> state],
  result <- [m \in {Self} |-> reaction_time]

\* Every step of the threads and interrupts is a step of the abstract board or
\* leaves it alone (game.c 151-230, main.c 59-91).
ImplementsBoard == ABoard!Spec
=============================================================================
