------------------------------ MODULE Buttons ------------------------------
(***************************************************************************)
(* The buttons of one board: the multiplexer that connects one of them to  *)
(* the receive pin (multiplexer.c), the pin's interrupt (main.c), and the  *)
(* three that drive the multiplexer: name entry and race on the game       *)
(* thread (game.c), and "hwdiag -b" on the shell's thread (main.c).        *)
(*                                                                         *)
(* A thread's accesses to the multiplexer are separate steps only where    *)
(* another thread can come between them: the game thread has the higher    *)
(* priority, so its calls are whole, and the shell runs only while the     *)
(* game thread sleeps or waits for a message.                              *)
(*                                                                         *)
(* From RIOT, as the code uses it: a rising edge of the pin interrupts;    *)
(* one that comes while the interrupt is disabled may or may not be        *)
(* remembered, and a remembered one interrupts when it is enabled again.   *)
(***************************************************************************)
EXTENDS Integers

CONSTANTS
  Addresses,    \* addresses the three lines select among (8 in the code)
  CharRange,    \* values of the char the sweep counts in (256)
  NameLen,      \* letters of a name (15)
  AlphabetLen   \* letters a player can reach (27)

\* The sweep goes through whole rounds of the addresses before its char wraps.
ASSUME SweepAssumption ==
  /\ Addresses \in Nat /\ Addresses > 2
  /\ CharRange \in Nat /\ CharRange % Addresses = 0 /\ CharRange > 0
ASSUME NameEntryAssumption == NameLen \in Nat \ {0} /\ AlphabetLen \in Nat \ {0}

VARIABLES
  pressed,        \* the buttons that are held
  lines,          \* what the address lines select
  irq,            \* the pin's interrupt is enabled
  edge,           \* an edge is remembered
  enableBtns,     \* main.c's flag
  gpc,            \* the game thread
  action,         \* get_player_name(): the sweep
  curr_idx,
  curr_char_idx,
  spc,            \* the shell: "idle", or in multiplexer_receive() of hwdiag -b
  fresh,          \* history: button 0 was pressed since the game thread waits
  diagnosed       \* history: hwdiag -b touched the multiplexer since the race set it

mux == <<lines, irq, edge>>
entry == <<action, curr_idx, curr_char_idx>>
history == <<fresh, diagnosed>>

button_vars == <<pressed, mux, enableBtns, gpc, entry, spc, history>>

NameEntry == {"sweep", "nap"}

\* The game thread leaves the processor to threads of lower priority.
GameAsleep == gpc \in {"absent", "nap", "blocked", "animation"}

ButtonsInit ==
  /\ pressed = {}
  /\ lines = 0
  /\ irq = TRUE
  /\ edge = FALSE
  /\ enableBtns = FALSE
  /\ gpc = "absent"
  /\ action = 0
  /\ curr_idx = 0
  /\ curr_char_idx = 0
  /\ spc = "idle"
  /\ fresh = FALSE
  /\ diagnosed = FALSE

----------------------------------------------------------------------------
(* The receive pin and its interrupt.                                      *)

Pin(addr, held) == addr % Addresses \in held

\* Mutant: the interrupt is set up for both edges.
Interrupts_both(before, after) == before # after

\* GPIO_RISING
Interrupts(before, after) == ~before /\ after

\* int_multiplexer_receive(): the message reaches the game thread only if it waits.
Interrupt ==
  IF enableBtns /\ gpc = "blocked" THEN gpc' = "pressed" ELSE UNCHANGED gpc

\* A player presses or releases a button.
Touch(b) ==
  /\ pressed' = IF b \in pressed THEN pressed \ {b} ELSE pressed \cup {b}
  /\ fresh' = (fresh \/ (gpc = "blocked" /\ b = 0 /\ b \notin pressed))
  /\ IF Interrupts(Pin(lines, pressed), Pin(lines, pressed'))
       THEN IF irq THEN Interrupt /\ UNCHANGED edge
                   ELSE edge' \in {edge, TRUE} /\ UNCHANGED gpc
       ELSE UNCHANGED <<gpc, edge>>
  /\ UNCHANGED <<lines, irq, enableBtns, entry, spc, diagnosed>>

\* Mutant: the pin is read before the lines are set.
Reads_before(addr) == Pin(lines, pressed)

\* What multiplexer_receive() returns.
Reads(addr) == Pin(addr, pressed)

\* Mutant: the interrupt stays disabled.
Select_keepsDisabled(addr) ==
  /\ lines' = addr % Addresses
  /\ irq' = FALSE
  /\ edge' \in {edge, TRUE}

\* multiplexer_receive() on the game thread.  An edge remembered while the
\* interrupt is disabled finds the thread running, so its message is dropped.
Select(addr) ==
  /\ lines' = addr % Addresses
  /\ irq' = TRUE
  /\ edge' = FALSE

----------------------------------------------------------------------------
(* The game thread: name entry.                                            *)

\* get_player_name() starts.
AskName == curr_idx' = 0 /\ curr_char_idx' = 0 /\ action' = 0

\* No button at this address: ++action, in a char.
SweepOn ==
  /\ gpc = "sweep"
  /\ ~Reads(action)
  /\ Select(action)
  /\ action' = (action + 1) % CharRange
  /\ UNCHANGED <<pressed, enableBtns, gpc, curr_idx, curr_char_idx, spc, history>>

\* A button was seen at address a.
See(a) ==
  /\ gpc = "sweep" /\ action = a
  /\ Reads(a)
  /\ Select(a)
  /\ UNCHANGED <<pressed, enableBtns, action, spc, history>>

Confirm ==
  /\ See(0)
  /\ curr_idx' = curr_idx + 1
  /\ curr_char_idx' = 0
  /\ gpc' = IF curr_idx' >= NameLen THEN "waitStart" ELSE "nap"

NextLetter ==
  /\ See(1)
  /\ curr_char_idx' = (curr_char_idx + 1) % AlphabetLen
  /\ gpc' = "nap"
  /\ UNCHANGED curr_idx

\* Mutant: the first letter has no letter before it.
PreviousLetter_noWrap ==
  /\ See(2)
  /\ curr_char_idx' = curr_char_idx - 1
  /\ gpc' = "nap"
  /\ UNCHANGED curr_idx

PreviousLetter ==
  /\ See(2)
  /\ curr_char_idx' = IF curr_char_idx = 0 THEN AlphabetLen - 1 ELSE curr_char_idx - 1
  /\ gpc' = "nap"
  /\ UNCHANGED curr_idx

\* Another button, or the sweep has come to a button for the second time.
Ignore ==
  /\ \E a \in 3 .. CharRange - 1 : See(a)
  /\ gpc' = "nap"
  /\ UNCHANGED <<curr_idx, curr_char_idx>>

\* xtimer_usleep(7500) is over, and the next sweep starts.
Wake ==
  /\ gpc = "nap"
  /\ gpc' = "sweep"
  /\ action' = 0
  /\ UNCHANGED <<pressed, mux, enableBtns, curr_idx, curr_char_idx, spc, history>>

----------------------------------------------------------------------------
(* The game thread: the race.                                              *)

\* state = START_GAME was seen: multiplexer_receive(0).
SeeStart ==
  /\ gpc = "waitStart"
  /\ gpc' = "enable"
  /\ Select(0)
  /\ diagnosed' = FALSE
  /\ UNCHANGED <<pressed, enableBtns, entry, spc, fresh>>

EnableButtons ==
  /\ gpc = "enable"
  /\ gpc' = "receive"
  /\ enableBtns' = TRUE
  /\ UNCHANGED <<pressed, mux, entry, spc, history>>

\* xtimer_msg_receive_timeout()
BlockOnMessage ==
  /\ gpc = "receive"
  /\ gpc' = "blocked"
  /\ fresh' = FALSE
  /\ UNCHANGED <<pressed, mux, enableBtns, entry, spc, diagnosed>>

\* The motors' time is over: the next name is asked for with enableBtns still set.
TimeOut ==
  /\ gpc = "blocked"
  /\ gpc' = "sweep"
  /\ AskName
  /\ UNCHANGED <<pressed, mux, enableBtns, spc, history>>

DisableButtons ==
  /\ gpc = "pressed"
  /\ gpc' = "waitVerdict"
  /\ enableBtns' = FALSE
  /\ UNCHANGED <<pressed, mux, entry, spc, history>>

\* A verdict came; the animation sleeps between its pictures.
SeeVerdict ==
  /\ gpc = "waitVerdict"
  /\ gpc' = "animation"
  /\ UNCHANGED <<pressed, mux, enableBtns, entry, spc, history>>

NextRound ==
  /\ gpc = "animation"
  /\ gpc' = "sweep"
  /\ AskName
  /\ UNCHANGED <<pressed, mux, enableBtns, spc, history>>

Race ==
  \/ SeeStart \/ EnableButtons \/ BlockOnMessage \/ TimeOut
  \/ DisableButtons \/ SeeVerdict \/ NextRound

GameThread ==
  \/ SweepOn \/ Confirm \/ NextLetter \/ PreviousLetter \/ Ignore
  \/ Race

----------------------------------------------------------------------------
(* hwdiag -b: multiplexer_receive(1), again and again, on the shell.       *)

DiagDisable ==
  /\ spc = "idle" /\ GameAsleep
  /\ spc' = "select"
  /\ irq' = FALSE
  /\ diagnosed' = TRUE
  /\ UNCHANGED <<pressed, lines, edge, enableBtns, gpc, entry, fresh>>

\* Setting the lines may raise the pin.
DiagSelect ==
  /\ spc = "select" /\ GameAsleep
  /\ spc' = "enable"
  /\ lines' = 1
  /\ diagnosed' = TRUE
  /\ IF irq THEN UNCHANGED edge ELSE edge' \in {edge, TRUE}
  /\ IF irq /\ Interrupts(Pin(lines, pressed), Pin(1, pressed))
       THEN Interrupt ELSE UNCHANGED gpc
  /\ UNCHANGED <<pressed, irq, enableBtns, entry, fresh>>

\* A remembered edge interrupts now.
DiagEnable ==
  /\ spc = "enable" /\ GameAsleep
  /\ spc' = "idle"
  /\ irq' = TRUE
  /\ edge' = FALSE
  /\ IF edge THEN Interrupt ELSE UNCHANGED gpc
  /\ UNCHANGED <<pressed, lines, enableBtns, entry, history>>

Diagnosis == DiagDisable \/ DiagSelect \/ DiagEnable

----------------------------------------------------------------------------
(* Correctness.                                                            *)

\* Name entry stays inside the name and the alphabet, whichever buttons are seen.
ButtonsTypeOK ==
  /\ pressed \subseteq 0 .. Addresses - 1
  /\ lines \in 0 .. Addresses - 1
  /\ irq \in BOOLEAN /\ edge \in BOOLEAN /\ enableBtns \in BOOLEAN
  /\ gpc \in NameEntry \cup {"absent", "waitStart", "enable", "receive", "blocked",
                             "pressed", "waitVerdict", "animation"}
  /\ action \in 0 .. CharRange - 1
  /\ curr_idx \in 0 .. NameLen
  /\ gpc \in NameEntry => curr_idx < NameLen
  /\ curr_char_idx \in 0 .. AlphabetLen - 1
  /\ spc \in {"idle", "select", "enable"}
  /\ fresh \in BOOLEAN /\ diagnosed \in BOOLEAN

\* A race ends only with a new press of button 0: not with the confirm button
\* still held from name entry, not with another button, and not with an edge
\* remembered from before, unless the diagnosis interferes (game.c 181-197).
NoFalseStart == gpc = "pressed" /\ ~diagnosed => fresh

\* As long as the game thread waits, every new press of button 0 ends the race,
\* unless the diagnosis interferes: the sweep and the diagnosis leave lines and
\* interrupt so that the next race hears it (game.c 181-189, main.c 93-104).
EveryPressCounts ==
  [][gpc = "blocked" /\ ~diagnosed /\ 0 \in pressed' \ pressed => gpc' = "pressed"]_button_vars

\* Whoever holds just the confirm button gets through name entry, although the
\* sweep ignores what it sees after its first round (game.c 118-140).
NameCompletes ==
  (gpc \in NameEntry /\ pressed = {0}) ~> (gpc = "waitStart" \/ pressed # {0})
=============================================================================
