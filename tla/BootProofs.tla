----------------------------- MODULE BootProofs -----------------------------
(***************************************************************************)
(* Theorems about a board from power-on (Boot, with Buttons and            *)
(* CoapServer), for every number of buttons, alphabet and name length, and *)
(* whatever is pressed when.                                               *)
(*                                                                         *)
(* Two inductive invariants carry them.  RaceInv is about the pin: what    *)
(* the last one to touch the multiplexer left, as long as it was the game  *)
(* thread.  BootInv is about the scheduling: how far main is tells which   *)
(* threads can have got how far, because the sleeps of the threads outlast *)
(* what main has left to do.                                               *)
(***************************************************************************)
EXTENDS Boot, TLAPS

\* No interrupt is pending once the pin's interrupt is enabled, and from the start
\* of a race the pin is button 0's, unless the diagnosis moved it.
RaceInv ==
  /\ irq => ~edge
  /\ ~diagnosed /\ gpc \in {"enable", "receive", "blocked"} => irq /\ lines = 0
  /\ gpc \in {"receive", "blocked"} => enableBtns
  /\ NoFalseStart

\* What main has started.
BootInv ==
  /\ mpc \in {"devices", "ended"} => client = "absent"
  /\ listening <=> mpc \notin {"devices", "client", "server", "ended"}
  /\ client = "sending" => listening
  /\ mpc \notin {"assign", "shell"} => gpc = "absent"

\* While main has not got the pid, the game thread is in the first sweep of name
\* entry or in the nap after it.
PidInv ==
  /\ ~HasClient => client = "absent" /\ mpc # "client"
  /\ mpc = "assign" => gpc \in NameEntry /\ (gpc = "sweep" => curr_idx = 0)
  /\ mpc # "shell" => ~enableBtns
  /\ mpc = "shell" => gamePid

IInv == TypeOK /\ RaceInv /\ BootInv

----------------------------------------------------------------------------

\* Remainders stay below their divisor.
LEMMA Modulo ==
  ASSUME NEW m \in Nat, NEW n \in Nat, n > 0
  PROVE  m % n \in 0 .. n - 1 /\ 0 % n = 0
OBVIOUS

\* The three address lines select one of the addresses, 0 for 0.
LEMMA Selected ==
  /\ \A a \in 0 .. CharRange - 1 : a % Addresses \in 0 .. Addresses - 1
  /\ 0 % Addresses = 0
<1>1. Addresses \in Nat /\ Addresses > 0 /\ CharRange \in Nat
  BY SweepAssumption DEF SweepAssumption
<1> QED BY <1>1, Modulo

\* Zero lies in every range that starts there.
LEMMA Zeroes ==
  /\ 0 \in 0 .. Addresses - 1 /\ 0 \in 0 .. CharRange - 1 /\ 0 \in 0 .. AlphabetLen - 1
  /\ 0 \in 0 .. NameLen /\ 0 < NameLen
BY SweepAssumption, NameEntryAssumption DEF SweepAssumption, NameEntryAssumption

----------------------------------------------------------------------------
(* The buttons.                                                            *)

\* A step of the player, of the game thread, of its timer or of the diagnosis.
ButtonStep ==
  \/ \E b \in 0 .. Addresses - 1 : Touch(b)
  \/ GameThread
  \/ Wake
  \/ Diagnosis

\* No step of buttons, multiplexer, sweep or diagnosis leaves the types.
LEMMA ButtonsTypeStep == ASSUME ButtonsTypeOK, ButtonStep PROVE ButtonsTypeOK'
<1> USE SweepAssumption, NameEntryAssumption DEF SweepAssumption, NameEntryAssumption
<1> USE DEF ButtonsTypeOK, mux, entry, history, NameEntry
<1>1. ASSUME NEW b \in 0 .. Addresses - 1, Touch(b) PROVE ButtonsTypeOK'
  <2>1. pressed' \subseteq 0 .. Addresses - 1
    BY <1>1 DEF Touch
  <2>2. gpc' \in {gpc, "pressed"}
    BY <1>1 DEF Touch, Interrupt
  <2>3. edge' \in BOOLEAN /\ fresh' \in BOOLEAN
    BY <1>1 DEF Touch
  <2> QED BY <1>1, <2>1, <2>2, <2>3 DEF Touch
<1>2. ASSUME NEW a \in 0 .. CharRange - 1, Select(a)
      PROVE  lines' \in 0 .. Addresses - 1 /\ irq' \in BOOLEAN /\ edge' \in BOOLEAN
  BY <1>2, Selected DEF Select
<1>3. CASE SweepOn
  <2>1. action' \in 0 .. CharRange - 1
    BY <1>3, Modulo DEF SweepOn
  <2> QED BY <1>2, <1>3, <2>1 DEF SweepOn
<1>4. ASSUME NEW a \in 0 .. CharRange - 1, See(a)
      PROVE  /\ lines' \in 0 .. Addresses - 1 /\ irq' \in BOOLEAN /\ edge' \in BOOLEAN
             /\ UNCHANGED <<pressed, enableBtns, action, spc, fresh, diagnosed>>
             /\ gpc = "sweep"
  BY <1>2, <1>4 DEF See
<1>5. CASE Confirm
  BY <1>4, <1>5 DEF Confirm, See
<1>6. CASE NextLetter
  <2>1. curr_char_idx' \in 0 .. AlphabetLen - 1
    BY <1>6, Modulo DEF NextLetter
  <2> QED BY <1>4, <1>6, <2>1 DEF NextLetter, See
<1>7. CASE PreviousLetter
  <2>1. curr_char_idx' \in 0 .. AlphabetLen - 1
    BY <1>7 DEF PreviousLetter
  <2> QED BY <1>4, <1>7, <2>1 DEF PreviousLetter, See
<1>8. CASE Ignore
  <2>1. PICK a \in 0 .. CharRange - 1 : See(a)
    BY <1>8 DEF Ignore
  <2> QED BY <1>4, <1>8, <2>1 DEF Ignore
<1>9. CASE Wake
  BY <1>9 DEF Wake
<1>10. CASE SeeStart
  BY <1>2, <1>10, Zeroes DEF SeeStart
<1>11. CASE EnableButtons \/ BlockOnMessage \/ DisableButtons \/ SeeVerdict
  BY <1>11 DEF EnableButtons, BlockOnMessage, DisableButtons, SeeVerdict
<1>12. CASE TimeOut \/ NextRound
  BY <1>12, Zeroes DEF TimeOut, NextRound, AskName
<1>13. CASE DiagDisable
  BY <1>13 DEF DiagDisable
<1>14. CASE DiagSelect
  <2>1. gpc' \in {gpc, "pressed"} /\ edge' \in BOOLEAN
    BY <1>14 DEF DiagSelect, Interrupt
  <2> QED BY <1>14, <2>1 DEF DiagSelect
<1>15. CASE DiagEnable
  <2>1. gpc' \in {gpc, "pressed"}
    BY <1>15 DEF DiagEnable, Interrupt
  <2> QED BY <1>15, <2>1 DEF DiagEnable
<1> QED
  BY <1>1, <1>3, <1>5, <1>6, <1>7, <1>8, <1>9, <1>10, <1>11, <1>12, <1>13, <1>14, <1>15
     DEF ButtonStep, GameThread, Race, Diagnosis

\* What a press or a release does while the game thread waits for button 0.
LEMMA TouchWhileWaiting ==
  ASSUME ButtonsTypeOK, RaceInv, gpc = "blocked", ~diagnosed,
         NEW b \in 0 .. Addresses - 1, Touch(b)
  PROVE  IF b = 0 /\ 0 \notin pressed THEN gpc' = "pressed" /\ fresh' = TRUE
                                      ELSE gpc' = "blocked" /\ edge' = edge
<1>1. lines = 0 /\ irq /\ enableBtns
  BY DEF RaceInv
<1>2. Pin(lines, pressed) = (0 \in pressed) /\ Pin(lines, pressed') = (0 \in pressed')
  BY <1>1, Selected DEF Pin
<1>3. pressed' = IF b \in pressed THEN pressed \ {b} ELSE pressed \cup {b}
  BY DEF Touch
<1>4. Interrupts(Pin(lines, pressed), Pin(lines, pressed')) <=> b = 0 /\ 0 \notin pressed
  BY <1>2, <1>3 DEF Interrupts
<1> QED BY <1>1, <1>4 DEF Touch, Interrupt

\* No step of the race breaks RaceInv.
LEMMA RaceStep == ASSUME ButtonsTypeOK, RaceInv, ButtonStep PROVE RaceInv'
<1> USE DEF ButtonsTypeOK, RaceInv, NoFalseStart, mux, entry, history
<1>1. ASSUME NEW b \in 0 .. Addresses - 1, Touch(b) PROVE RaceInv'
  <2>1. CASE gpc = "blocked" /\ ~diagnosed
    BY <1>1, <2>1, TouchWhileWaiting DEF Touch
  <2>2. CASE gpc = "blocked" /\ diagnosed
    BY <1>1, <2>2 DEF Touch, Interrupt
  <2>3. CASE gpc # "blocked"
    BY <1>1, <2>3 DEF Touch, Interrupt
  <2> QED BY <2>1, <2>2, <2>3
<1>2. CASE SweepOn
  BY <1>2 DEF SweepOn, Select
<1>3. CASE Confirm
  BY <1>3 DEF Confirm, See, Select
<1>4. CASE NextLetter
  BY <1>4 DEF NextLetter, See, Select
<1>5. CASE PreviousLetter
  BY <1>5 DEF PreviousLetter, See, Select
<1>6. CASE Ignore
  BY <1>6 DEF Ignore, See, Select
<1>7. CASE Wake
  BY <1>7 DEF Wake
<1>8. CASE SeeStart
  BY <1>8, Selected DEF SeeStart, Select
<1>9. CASE EnableButtons \/ BlockOnMessage \/ DisableButtons \/ SeeVerdict
  BY <1>9 DEF EnableButtons, BlockOnMessage, DisableButtons, SeeVerdict
<1>10. CASE TimeOut \/ NextRound
  BY <1>10 DEF TimeOut, NextRound
<1>11. CASE DiagDisable
  BY <1>11 DEF DiagDisable, GameAsleep
<1>12. CASE DiagSelect
  BY <1>12 DEF DiagSelect, GameAsleep, Interrupt
<1>13. CASE DiagEnable
  BY <1>13 DEF DiagEnable, GameAsleep, Interrupt
<1> QED
  BY <1>1, <1>2, <1>3, <1>4, <1>5, <1>6, <1>7, <1>8, <1>9, <1>10, <1>11, <1>12, <1>13
     DEF ButtonStep, GameThread, Race, Diagnosis

----------------------------------------------------------------------------
(* The boot sequence.                                                      *)

\* At power-on nothing is set up and IInv holds.
LEMMA InitIInv == Init => IInv /\ PidInv
<1> SUFFICES ASSUME Init PROVE IInv /\ PidInv
  OBVIOUS
<1> USE DEF Init, ButtonsInit
<1>1. ButtonsTypeOK /\ RaceInv
  BY Zeroes DEF ButtonsTypeOK, RaceInv, NoFalseStart, NameEntry
<1>2. TypeOK
  <2>1. 0 \in 0 .. Len(Devices)
    BY DEF Devices
  <2> QED BY <1>1, <2>1 DEF TypeOK
<1>3. BootInv /\ PidInv
  BY DEF BootInv, PidInv
<1> QED BY <1>1, <1>2, <1>3 DEF IInv

\* The steps of main leave the buttons alone, but for the one that starts the game
\* thread.
LEMMA MainStep == ASSUME IInv, Main PROVE IInv'
<1> USE DEF IInv, TypeOK, BootInv, button_vars, mux, entry, history
<1> USE MachineAssumption DEF MachineAssumption
<1>1. ASSUME UNCHANGED button_vars PROVE ButtonsTypeOK' /\ RaceInv' /\ gpc' = gpc
  BY <1>1 DEF ButtonsTypeOK, RaceInv, NoFalseStart
<1>2. CASE InitDevice
  BY <1>1, <1>2 DEF InitDevice, Devices
<1>3. CASE DevicesDone
  BY <1>1, <1>3 DEF DevicesDone, Goto
<1>4. CASE StartClient
  BY <1>1, <1>4 DEF StartClient, Goto
<1>5. CASE StartServer
  BY <1>1, <1>5 DEF StartServer, Goto
<1>6. CASE InitGame
  BY <1>1, <1>6 DEF InitGame, Goto
<1>7. CASE StartGameThread
  <2>1. ButtonsTypeOK'
    BY <1>7, Zeroes DEF StartGameThread, AskName, ButtonsTypeOK, NameEntry
  <2>2. RaceInv'
    BY <1>7 DEF StartGameThread, RaceInv, NoFalseStart
  <2> QED BY <1>7, <2>1, <2>2 DEF StartGameThread, Goto
<1>8. CASE AssignPid
  BY <1>1, <1>8 DEF AssignPid, Goto
<1> QED
  BY <1>2, <1>3, <1>4, <1>5, <1>6, <1>7, <1>8 DEF Main

\* What main() and the threads it starts keep of IInv.
LEMMA ThreadStep ==
  ASSUME IInv, GameRuns \/ GameWakes \/ ClientWakes \/ ClientSends \/ PingAgain \/ Shell \/ Player
  PROVE  IInv'
<1> USE DEF IInv, TypeOK
<1>1. CASE ClientWakes \/ ClientSends \/ PingAgain
  <2>1. UNCHANGED button_vars /\ UNCHANGED <<mpc, ready, listening, game_set, gamePid>>
    BY <1>1 DEF ClientWakes, ClientSends, PingAgain
  <2>2. ButtonsTypeOK' /\ RaceInv' /\ gpc' = gpc
    BY <2>1 DEF button_vars, mux, entry, history, ButtonsTypeOK, RaceInv, NoFalseStart
  <2>3. client' \in {"absent", "asleep", "sending"} /\ ping' \in {"absent", "asleep", "ended"}
    BY <1>1 DEF ClientWakes, ClientSends, PingAgain
  <2>4. BootInv'
    <3>1. CASE ClientWakes
      BY <2>1, <2>2, <3>1 DEF ClientWakes, Sleep, MainRuns, GameAsleep, BootInv
    <3>2. CASE ClientSends \/ PingAgain
      BY <2>1, <2>2, <3>2 DEF ClientSends, PingAgain, BootInv
    <3> QED BY <1>1, <3>1, <3>2
  <2> QED BY <2>1, <2>2, <2>3, <2>4
<1>2. CASE GameRuns \/ GameWakes \/ Shell \/ Player
  <2>1. ButtonStep /\ UNCHANGED boot_vars
    BY <1>2 DEF GameRuns, GameWakes, Shell, Player, ButtonStep
  <2>2. ButtonsTypeOK' /\ RaceInv'
    BY <2>1, ButtonsTypeStep, RaceStep
  <2>3. gpc = "absent" => gpc' = "absent"
    BY <2>1
       DEF ButtonStep, Touch, Interrupt, GameThread, SweepOn, Confirm, NextLetter,
           PreviousLetter, Ignore, See, Race, SeeStart, EnableButtons, BlockOnMessage,
           TimeOut, DisableButtons, SeeVerdict, NextRound, Wake, Diagnosis, DiagDisable,
           DiagSelect, DiagEnable
  <2> QED BY <2>1, <2>2, <2>3 DEF boot_vars, BootInv
<1> QED BY <1>1, <1>2

\* The inductive invariant.
THEOREM Invariance == Spec => []IInv
<1>1. IInv /\ [Next]_vars => IInv'
  <2> SUFFICES ASSUME IInv, [Next]_vars PROVE IInv'
    OBVIOUS
  <2>1. CASE UNCHANGED vars
    BY <2>1 DEF vars, button_vars, boot_vars, mux, entry, history, IInv, TypeOK, ButtonsTypeOK,
       RaceInv, NoFalseStart, BootInv
  <2> QED BY <2>1, MainStep, ThreadStep DEF Next
<1> QED BY InitIInv, <1>1, PTL DEF Spec

\* Every variable keeps its type; in particular name entry stays inside the name and
\* the alphabet, whatever is pressed (game.c 118-146).
THEOREM TypeCorrect == Spec => []TypeOK
<1>1. IInv => TypeOK
  BY DEF IInv
<1> QED BY <1>1, Invariance, PTL

\* A race ends only with a new press of button 0 (see NoFalseStart).
THEOREM NoFalseStartHolds == Spec => []NoFalseStart
<1>1. IInv => NoFalseStart
  BY DEF IInv, RaceInv
<1> QED BY <1>1, Invariance, PTL

\* Every new press of button 0 ends the race (see EveryPressCounts).
THEOREM EveryPressCountsHolds == Spec => EveryPressCounts
<1> DEFINE Heard == gpc = "blocked" /\ ~diagnosed /\ 0 \in pressed' \ pressed => gpc' = "pressed"
<1>1. IInv /\ [Next]_vars => [Heard]_button_vars
  <2> SUFFICES ASSUME IInv, [Next]_vars, gpc = "blocked", ~diagnosed, 0 \in pressed' \ pressed
               PROVE  gpc' = "pressed"
    BY DEF IInv
  <2>1. pressed' # pressed
    OBVIOUS
  <2>2. PICK b \in 0 .. Addresses - 1 : Touch(b)
    BY <2>1
       DEF Next, Main, InitDevice, DevicesDone, StartClient, StartServer, InitGame,
           StartGameThread, AssignPid, GameRuns, GameThread, SweepOn, Confirm, NextLetter,
           PreviousLetter, Ignore, See, Race, SeeStart, EnableButtons, BlockOnMessage,
           TimeOut, DisableButtons, SeeVerdict, NextRound, GameWakes, Wake, ClientWakes,
           ClientSends, PingAgain, Shell, Diagnosis, DiagDisable, DiagSelect, DiagEnable,
           Player, vars, button_vars
  <2>3. b = 0 /\ 0 \notin pressed
    BY <2>2 DEF Touch
  <2> QED BY <2>2, <2>3, TouchWhileWaiting DEF IInv, TypeOK
<1> QED BY <1>1, Invariance, PTL DEF Spec, EveryPressCounts

----------------------------------------------------------------------------
(* What main, the game thread and the client find when they need it.       *)

\* The place of each path in the alphabetical order.
LEMMA Ranks ==
  /\ Rank("/.well-known/core") = 1 /\ Rank("/request/name") = 2 /\ Rank("/request/result") = 3
  /\ Rank("/se-app/entries") = 4 /\ Rank("/set/looser") = 5 /\ Rank("/set/winner") = 6
  /\ Rank("/start/game") = 7
BY DEF Rank, Sorted

\* Of the table's paths only "/se-app/entries" is out of order, and it comes before
\* none of the game master's that sorts before it.
LEMMA TableFindsAll ==
  ASSUME NEW path \in GamePaths, NEW early \in BOOLEAN
  PROVE  Handler(path, early) = path
<1>1. DOMAIN coap_resources = 1 .. 7
  BY DEF coap_resources
<1>2. /\ coap_resources[1] = "/.well-known/core" /\ coap_resources[2] = "/request/name"
      /\ coap_resources[3] = "/request/result" /\ coap_resources[4] = "/set/looser"
      /\ coap_resources[5] = "/set/winner" /\ coap_resources[6] = "/se-app/entries"
      /\ coap_resources[7] = "/start/game"
  BY DEF coap_resources
<1>3. \E i \in 1 .. 7 : /\ coap_resources[i] = path
                        /\ \A j \in 1 .. i - 1 : Rank(coap_resources[j]) < Rank(path)
  <2>1. CASE path = "/request/name"
    <3>1. \A j \in 1 .. 2 - 1 : j = 1
      OBVIOUS
    <3> QED BY <1>2, <2>1, <3>1, Ranks
  <2>2. CASE path = "/request/result"
    <3>1. \A j \in 1 .. 3 - 1 : j = 1 \/ j = 2
      OBVIOUS
    <3> QED BY <1>2, <2>2, <3>1, Ranks
  <2>3. CASE path = "/set/looser"
    <3>1. \A j \in 1 .. 4 - 1 : j = 1 \/ j = 2 \/ j = 3
      OBVIOUS
    <3> QED BY <1>2, <2>3, <3>1, Ranks
  <2>4. CASE path = "/set/winner"
    <3>1. \A j \in 1 .. 5 - 1 : j = 1 \/ j = 2 \/ j = 3 \/ j = 4
      OBVIOUS
    <3> QED BY <1>2, <2>4, <3>1, Ranks
  <2>5. CASE path = "/start/game"
    <3>1. \A j \in 1 .. 7 - 1 : j = 1 \/ j = 2 \/ j = 3 \/ j = 4 \/ j = 5 \/ j = 6
      OBVIOUS
    <3> QED BY <1>2, <2>5, <3>1, Ranks
  <2> QED BY <2>1, <2>2, <2>3, <2>4, <2>5 DEF GamePaths
<1> QED BY <1>1, <1>3 DEF Handler

\* Every request of M0's client to its own server finds its handler (see Served).
THEOREM ServedHolds == Spec => []Served
<1>1. IInv => Served
  BY TableFindsAll DEF IInv, BootInv, Served, Answers
<1> QED BY <1>1, Invariance, PTL

\* The steps of main keep PidInv: it starts the game thread and gets its pid next,
\* because that thread is asleep by then.
LEMMA MainPid == ASSUME IInv, PidInv, Main PROVE PidInv'
<1> USE DEF PidInv, button_vars, mux, entry, history
<1> USE MachineAssumption DEF MachineAssumption
<1>1. CASE InitDevice
  BY <1>1 DEF InitDevice
<1>2. CASE DevicesDone
  BY <1>2 DEF DevicesDone, Goto
<1>3. CASE StartClient
  BY <1>3 DEF StartClient, Goto
<1>4. CASE StartServer
  BY <1>4 DEF StartServer, Goto
<1>5. CASE InitGame
  BY <1>5 DEF InitGame, Goto
<1>6. CASE StartGameThread
  BY <1>6 DEF StartGameThread, AskName, NameEntry, Goto
<1>7. CASE AssignPid
  BY <1>7 DEF AssignPid, Goto
<1> QED BY <1>1, <1>2, <1>3, <1>4, <1>5, <1>6, <1>7 DEF Main

\* Until main has the pid, the game thread does not get past its first nap: the nap
\* outlasts what main has left to do, once no client keeps main from doing it.
LEMMA ThreadPid ==
  ASSUME IInv, PidInv, NameLen > 1, ShortSends \/ ~HasClient,
         GameRuns \/ GameWakes \/ ClientWakes \/ ClientSends \/ PingAgain \/ Shell \/ Player
  PROVE  PidInv'
<1> USE DEF PidInv, boot_vars
<1> USE MachineAssumption, NameEntryAssumption DEF MachineAssumption, NameEntryAssumption
<1>1. CASE ClientWakes \/ ClientSends \/ PingAgain
  BY <1>1
     DEF ClientWakes, ClientSends, PingAgain, button_vars, mux, entry, history
<1>2. CASE mpc = "shell" /\ (GameRuns \/ GameWakes \/ Shell \/ Player)
  BY <1>2 DEF GameRuns, GameWakes, Shell, Player
<1>3. CASE mpc = "assign" /\ GameRuns
  <2>1. gpc = "sweep" /\ curr_idx = 0
    BY <1>3
       DEF IInv, RaceInv, GameRuns, GameThread, SweepOn, Confirm, NextLetter, PreviousLetter,
           Ignore, See, Race, SeeStart, EnableButtons, BlockOnMessage, TimeOut, DisableButtons,
           SeeVerdict, NextRound, NameEntry
  <2>2. gpc' \in NameEntry /\ (gpc' = "sweep" => curr_idx' = 0) /\ UNCHANGED enableBtns
    BY <1>3, <2>1
       DEF GameRuns, GameThread, SweepOn, Confirm, NextLetter, PreviousLetter, Ignore, See,
           Race, SeeStart, EnableButtons, BlockOnMessage, TimeOut, DisableButtons, SeeVerdict,
           NextRound, NameEntry
  <2> QED BY <1>3, <2>2 DEF GameRuns
<1>4. mpc = "assign" => ~GameWakes
  <2> SUFFICES ASSUME mpc = "assign", GameWakes PROVE FALSE
    OBVIOUS
  <2>1. gpc = "nap" /\ client # "sending" /\ ~MainRuns
    BY DEF GameWakes, Wake, Sleep, IInv, TypeOK
  <2> QED BY <2>1 DEF MainRuns, GameAsleep
<1>5. CASE mpc # "shell" /\ (Player \/ Shell)
  <2>1. \E b \in 0 .. Addresses - 1 : Touch(b)
    BY <1>5 DEF Player, Shell
  <2>2. gpc # "blocked"
    BY <1>5 DEF IInv, BootInv, NameEntry
  <2>3. gpc' = gpc /\ curr_idx' = curr_idx /\ enableBtns' = enableBtns
    BY <2>1, <2>2 DEF Touch, Interrupt, entry
  <2> QED BY <1>5, <2>3 DEF Player, Shell
<1>6. CASE mpc \notin {"shell", "assign"} /\ (GameRuns \/ GameWakes)
  <2>1. gpc = "absent"
    BY <1>6 DEF IInv, BootInv
  <2> QED
    BY <1>6, <2>1
       DEF GameRuns, GameWakes, GameThread, Wake, SweepOn, Confirm, NextLetter, PreviousLetter,
           Ignore, See, Race, SeeStart, EnableButtons, BlockOnMessage, TimeOut, DisableButtons,
           SeeVerdict, NextRound
<1> QED BY <1>1, <1>2, <1>3, <1>4, <1>5, <1>6

\* The interrupt finds the game thread's pid (see PidKnown), if the client's sends do
\* not last as long as the nap, or there is no client, and a name has more than one
\* letter: with one, the game thread would not sleep before its first race.
THEOREM PidKnownHolds ==
  ASSUME NameLen > 1, ShortSends \/ ~HasClient
  PROVE  Spec => []PidKnown
<1>1. Init => PidInv
  BY InitIInv
<1>2. IInv /\ PidInv /\ [Next]_vars => PidInv'
  <2> SUFFICES ASSUME IInv, PidInv, [Next]_vars PROVE PidInv'
    OBVIOUS
  <2>1. CASE UNCHANGED vars
    BY <2>1 DEF vars, button_vars, boot_vars, mux, entry, history, PidInv
  <2> QED BY <2>1, MainPid, ThreadPid DEF Next
<1>3. PidInv => PidKnown
  BY DEF PidInv, PidKnown
<1> QED BY <1>1, <1>2, <1>3, Invariance, PTL DEF Spec
=============================================================================
