-------------------------------- MODULE Boot --------------------------------
(***************************************************************************)
(* main() of one board (main.c): it initialises the devices, starts the    *)
(* threads and becomes the shell, while the threads it has started already *)
(* run.                                                                    *)
(*                                                                         *)
(* main has the lowest priority: the client, the ping thread and the game  *)
(* thread run as soon as they are created, and main goes on only when all  *)
(* of them sleep or wait.  A sleep (7.5 ms, 20 ms) is taken to outlast     *)
(* what main has left to do once it runs: a few calls.                     *)
(***************************************************************************)
EXTENDS Buttons, CoapServer

CONSTANTS
  HasClient,    \* MACHINE is "M0"
  ShortSends    \* the client sends a batch in less than 7.5 ms

ASSUME MachineAssumption == HasClient \in BOOLEAN /\ ShortSends \in BOOLEAN

\* What main() initialises, in this order.
Devices ==
  <<"pwm", "motor_a", "motor_b", "motor_controller", "led_stripe", "multiplexer", "display">>

VARIABLES
  mpc,          \* main: "devices", ..., "shell", or "ended" after an error
  ready,        \* how many of the devices are initialised
  client,       \* the client thread: "absent", "asleep" or "sending"
  ping,         \* the ping thread: "absent", "asleep" or "ended"
  listening,    \* coap_server_listener is registered
  game_set,     \* game_init() has set the game's devices
  gamePid       \* gamePid is that of the game thread

boot_vars == <<mpc, ready, client, ping, listening, game_set, gamePid>>

vars == <<button_vars, boot_vars>>

Init ==
  /\ ButtonsInit
  /\ mpc = "devices"
  /\ ready = 0
  /\ client = "absent"
  /\ ping = "absent"
  /\ listening = FALSE
  /\ game_set = FALSE
  /\ gamePid = FALSE

----------------------------------------------------------------------------
\* main is ready to run and every thread above it is asleep.
MainRuns ==
  /\ mpc \notin {"shell", "ended"}
  /\ GameAsleep
  /\ client # "sending"

Goto(from, to) == MainRuns /\ mpc = from /\ mpc' = to

\* One of pwm_init(), dcmotor_init(), motor_controller_init(), neopixel_init(),
\* multiplexer_init_int() and lcd_spi_init(); main returns if it fails.
InitDevice ==
  /\ MainRuns
  /\ mpc = "devices"
  /\ ready < Len(Devices)
  /\ \/ ready' = ready + 1 /\ UNCHANGED mpc
     \/ mpc' = "ended" /\ UNCHANGED ready
  /\ UNCHANGED <<button_vars, client, ping, listening, game_set, gamePid>>

DevicesDone ==
  /\ ready = Len(Devices)
  /\ Goto("devices", IF HasClient THEN "client" ELSE "server")
  /\ UNCHANGED <<button_vars, ready, client, ping, listening, game_set, gamePid>>

\* Mutant: the client thread asks before it sleeps.
StartClient_eager ==
  /\ Goto("client", "server")
  /\ client' = "sending"
  /\ UNCHANGED <<button_vars, ready, ping, listening, game_set, gamePid>>

\* coap_client_init(): the states are WAITING, so the thread sleeps at once.
StartClient ==
  /\ Goto("client", "server")
  /\ client' = "asleep"
  /\ UNCHANGED <<button_vars, ready, ping, listening, game_set, gamePid>>

\* coap_server_init(): the listener, then the ping thread and its first datagram.
StartServer ==
  /\ Goto("server", "game")
  /\ listening' = TRUE
  /\ ping' \in {"asleep", "ended"}
  /\ UNCHANGED <<button_vars, ready, client, game_set, gamePid>>

InitGame ==
  /\ Goto("game", "create")
  /\ game_set' = TRUE
  /\ UNCHANGED <<button_vars, ready, client, ping, listening, gamePid>>

\* thread_create(): the game thread runs before main gets its pid.
StartGameThread ==
  /\ Goto("create", "assign")
  /\ gpc' = "sweep"
  /\ AskName
  /\ UNCHANGED <<pressed, mux, enableBtns, spc, history>>
  /\ UNCHANGED <<ready, client, ping, listening, game_set, gamePid>>

AssignPid ==
  /\ Goto("assign", "shell")
  /\ gamePid' = TRUE
  /\ UNCHANGED <<button_vars, ready, client, ping, listening, game_set>>

Main ==
  \/ InitDevice \/ DevicesDone \/ StartClient \/ StartServer
  \/ InitGame \/ StartGameThread \/ AssignPid

----------------------------------------------------------------------------
(* The threads main has started.                                           *)

\* Mutant: nobody waits for the sleep.
Sleep_none == TRUE

\* A sleep ends when main has done what it could.
Sleep == ~MainRuns

\* The nap of name entry; without ShortSends the client may need all of it.
GameWakes ==
  /\ Sleep
  /\ ShortSends => client # "sending"
  /\ Wake
  /\ UNCHANGED boot_vars

GameRuns == GameThread /\ UNCHANGED boot_vars

ClientWakes ==
  /\ client = "asleep"
  /\ Sleep
  /\ client' = "sending"
  /\ UNCHANGED <<button_vars, mpc, ready, ping, listening, game_set, gamePid>>

\* M0's client asks M0's own server, and M1's.
ClientSends ==
  /\ client = "sending"
  /\ client' = "asleep"
  /\ UNCHANGED <<button_vars, mpc, ready, ping, listening, game_set, gamePid>>

\* Every minute; an error ends the thread.
PingAgain ==
  /\ ping = "asleep"
  /\ Sleep
  /\ ping' \in {"asleep", "ended"}
  /\ UNCHANGED <<button_vars, mpc, ready, client, listening, game_set, gamePid>>

Shell == mpc = "shell" /\ client # "sending" /\ Diagnosis /\ UNCHANGED boot_vars

Player == (\E b \in 0 .. Addresses - 1 : Touch(b)) /\ UNCHANGED boot_vars

Next ==
  \/ Main
  \/ GameRuns \/ GameWakes
  \/ ClientWakes \/ ClientSends \/ PingAgain
  \/ Shell
  \/ Player

Spec == Init /\ [][Next]_vars

\* RIOT runs the game thread when it is ready, main when all others sleep, and
\* timers end sleeps; the client's sends are short.
Fairness ==
  /\ WF_vars(GameRuns) /\ SF_vars(GameWakes)
  /\ WF_vars(Main)
  /\ WF_vars(ClientSends)

FairSpec == Spec /\ Fairness

----------------------------------------------------------------------------
(* Correctness.                                                            *)

TypeOK ==
  /\ ButtonsTypeOK
  /\ mpc \in {"devices", "client", "server", "game", "create", "assign", "shell", "ended"}
  /\ ready \in 0 .. Len(Devices)
  /\ client \in {"absent", "asleep", "sending"}
  /\ ping \in {"absent", "asleep", "ended"}
  /\ listening \in BOOLEAN /\ game_set \in BOOLEAN /\ gamePid \in BOOLEAN

\* When the buttons are enabled the interrupt finds the pid of the game thread,
\* although main gets it only after that thread has started and outranks main:
\* the sleeps of name entry let main assign it in time (main.c 279-284, 102,
\* game.c 147, 185).
PidKnown == enableBtns => gamePid

\* Which handler answers a request that arrives now.
Answers(path, early) == IF listening THEN Handler(path, early) ELSE "4.04"

\* Every request of the game that M0's client sends to its own server finds its
\* handler, although main starts the client before it registers the listener, and
\* however gcoap scans the table, in which "/se-app/entries" is out of order
\* (main.c 271-275, coap_client.c 258, coap_handler.c 79-96).
Served ==
  client = "sending" => \A path \in GamePaths, early \in BOOLEAN : Answers(path, early) = path
=============================================================================
