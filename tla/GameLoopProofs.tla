--------------------------- MODULE GameLoopProofs ---------------------------
(***************************************************************************)
(* Theorems about one board (GameLoop), for every name length, alphabet    *)
(* and set of reaction times, and whatever requests arrive.                *)
(*                                                                         *)
(* Announced is not inductive: it says nothing of the states from which    *)
(* the game thread writes NAME_READY or GET_RESULT.  IInv adds what holds  *)
(* at the statements before, and that a handler which is copying a reply   *)
(* passed its test in a state nobody but the gcoap thread can move on.     *)
(***************************************************************************)
EXTENDS GameLoop, TLAPS

\* The letters confirmed so far are in playername; all of them before and at
\* the announcement of the name.
NameInv ==
  /\ \A i \in Indices : i < curr_idx => playername[i] \in Letters
  /\ pc = "naming" => curr_idx < NameLen
  /\ pc \in {"nameDone", "waitStart"} => curr_idx = NameLen

\* Where the motors may be turning.
Spinning == {"stamp", "receive", "blocked", "timedOut", "pressed", "measure", "stop"}

\* Who may hold which announcement: in a race, only what the handlers wrote.
StateInv ==
  /\ state = "NAME_READY" => pc = "waitStart"
  /\ state = "GET_RESULT" => pc = "waitVerdict"
  /\ pc \in {"enable", "spinUp"} \cup Spinning => state \in {"START_GAME", "WINNER", "LOOSER"}

ResultInv ==
  pc \in {"stop", "report", "waitVerdict"} => reaction_time \in Times

MotorInv == motor = "running" => pc \in Spinning

HandlerInv ==
  /\ handler = "name" => state = "NAME_READY"
  /\ handler = "result" => state = "GET_RESULT"

SInv == StateInv /\ ResultInv /\ MotorInv /\ HandlerInv

IInv == TypeOK /\ NameInv /\ SInv

----------------------------------------------------------------------------

\* Every variable keeps its type (game.h 23-45): in particular get_player_name()
\* never writes behind the name (game.c 125).
THEOREM TypeCorrect == Spec => [](TypeOK /\ NameInv)
<1>1. Init => TypeOK /\ NameInv
  <2> SUFFICES ASSUME Init PROVE TypeOK /\ NameInv
    OBVIOUS
  <2>1. playername \in [Indices -> Letters \cup {Nul}]
    BY DEF Init
  <2>2. curr_idx \in 0 .. NameLen
    BY NameAssumption DEF NameAssumption, Init
  <2>3. TypeOK
    BY <2>1, <2>2 DEF Init, TypeOK, Labels, GameState
  <2>4. NameInv
    BY DEF Init, NameInv, Indices
  <2> QED BY <2>3, <2>4
<1>2. TypeOK /\ NameInv /\ [Next]_vars => (TypeOK /\ NameInv)'
  <2> SUFFICES ASSUME TypeOK, NameInv, [Next]_vars
               PROVE  TypeOK' /\ NameInv'
    OBVIOUS
  <2> USE NameAssumption, TimesAssumption DEF NameAssumption, TimesAssumption
  <2>1. CASE GameThread
    <3>1. UNCHANGED playername /\ (curr_idx' = curr_idx \/ (curr_idx' = 0 /\ pc' = "naming"))
      BY <2>1 DEF GameThread, NextRound, AnnounceName, SeeStart, EnableButtons, StartMotor,
         StampStart, BlockOnMessage, StopMotorLate, ResetClient, Fail, DisableButtons,
         MeasureTime, StopMotor, ReportResult, SeeVerdict, PlayAnimation, name_vars
    <3>2. pc' \in Labels
      BY <2>1 DEF GameThread, NextRound, AnnounceName, SeeStart, EnableButtons,
         StartMotor, StampStart, BlockOnMessage, StopMotorLate, ResetClient, Fail,
         DisableButtons, MeasureTime, StopMotor, ReportResult, SeeVerdict, PlayAnimation, Goto, Labels
    <3>3. state' \in GameState
      BY <2>1 DEF TypeOK, GameState, GameThread, NextRound, AnnounceName, SeeStart, EnableButtons,
         StartMotor, StampStart, BlockOnMessage, StopMotorLate, ResetClient, Fail,
         DisableButtons, MeasureTime, StopMotor, ReportResult, SeeVerdict, PlayAnimation
    <3>4. reaction_time' \in Nat
      BY <2>1 DEF TypeOK, race_vars, GameThread, NextRound, AnnounceName, SeeStart, EnableButtons,
         StartMotor, StampStart, BlockOnMessage, StopMotorLate, ResetClient, Fail,
         DisableButtons, MeasureTime, StopMotor, ReportResult, SeeVerdict, PlayAnimation
    <3>5. enableBtns' \in BOOLEAN /\ motor' \in {"running", "stopped"}
      BY <2>1 DEF TypeOK, race_vars, GameThread, NextRound, AnnounceName, SeeStart, EnableButtons,
         StartMotor, StampStart, BlockOnMessage, StopMotorLate, ResetClient, Fail,
         DisableButtons, MeasureTime, StopMotor, ReportResult, SeeVerdict, PlayAnimation
    <3>6. handler' = handler
      BY <2>1 DEF GameThread, NextRound, AnnounceName, SeeStart, EnableButtons,
         StartMotor, StampStart, BlockOnMessage, StopMotorLate, ResetClient, Fail,
         DisableButtons, MeasureTime, StopMotor, ReportResult, SeeVerdict, PlayAnimation
    <3>7. TypeOK'
      BY <3>1, <3>2, <3>3, <3>4, <3>5, <3>6 DEF TypeOK
    <3>8. NameInv'
      BY <2>1, <3>1 DEF TypeOK, NameInv, Goto, Indices, GameThread, NextRound, AnnounceName, SeeStart, EnableButtons,
         StartMotor, StampStart, BlockOnMessage, StopMotorLate, ResetClient, Fail,
         DisableButtons, MeasureTime, StopMotor, ReportResult, SeeVerdict, PlayAnimation
    <3> QED BY <3>7, <3>8
  <2>2. CASE ConfirmLetter
    <3>1. curr_idx \in Indices /\ curr_idx' = curr_idx + 1 /\ curr_idx' \in 0 .. NameLen
      BY <2>2 DEF ConfirmLetter, TypeOK, NameInv, Indices
    <3>2. PICK c \in Letters : playername' = [playername EXCEPT ![curr_idx] = c]
      BY <2>2 DEF ConfirmLetter
    <3>3. TypeOK'
      BY <2>2, <3>1, <3>2 DEF ConfirmLetter, TypeOK, race_vars, Labels
    <3>4. \A i \in Indices : i < curr_idx' => playername'[i] \in Letters
      BY <3>1, <3>2 DEF TypeOK, NameInv, Indices
    <3>5. NameInv'
      BY <2>2, <3>1, <3>4 DEF ConfirmLetter, NameInv, TypeOK
    <3> QED BY <3>3, <3>5
  <2>3. CASE ButtonIrq \/ TimerFires
    BY <2>3 DEF ButtonIrq, TimerFires, TypeOK, NameInv, Goto, Labels, name_vars, race_vars
  <2>4. CASE GcoapThread
    BY <2>4 DEF GcoapThread, StartGame, SetWinner, SetLooser, WriteState, get_name_of_player,
       get_result, FinishReply, TypeOK, NameInv, GameState, name_vars, race_vars
  <2>5. CASE UNCHANGED vars
    BY <2>5 DEF vars, TypeOK, NameInv
  <2> QED BY <2>1, <2>2, <2>3, <2>4, <2>5 DEF Next
<1> QED BY <1>1, <1>2, PTL DEF Spec

----------------------------------------------------------------------------

\* No step of a thread or interrupt breaks the announcements, the motor window or
\* a copy under way.
LEMMA StepSInv == ASSUME TypeOK, SInv, [Next]_vars PROVE SInv'
<1> USE DEF SInv, StateInv, ResultInv, MotorInv, HandlerInv, name_vars, race_vars
<1>1. CASE NextRound
  BY <1>1 DEF NextRound, Spinning
<1>2. CASE AnnounceName
  BY <1>2 DEF AnnounceName, Goto, Spinning
<1>3. CASE SeeStart
  BY <1>3 DEF SeeStart, Goto, Spinning
<1>4. CASE EnableButtons
  BY <1>4 DEF EnableButtons, Goto, Spinning
<1>5. CASE StartMotor
  BY <1>5 DEF StartMotor, Goto, Spinning
<1>6. CASE StampStart
  BY <1>6 DEF StampStart, Goto, Spinning
<1>7. CASE BlockOnMessage
  BY <1>7 DEF BlockOnMessage, Goto, Spinning
<1>8. CASE StopMotorLate
  BY <1>8 DEF StopMotorLate, Goto, Spinning
<1>9. CASE ResetClient
  BY <1>9 DEF ResetClient, Goto, Spinning
<1>10. CASE Fail
  BY <1>10 DEF Fail, Goto, Spinning
<1>11. CASE DisableButtons
  BY <1>11 DEF DisableButtons, Goto, Spinning
<1>12. CASE MeasureTime
  BY <1>12 DEF MeasureTime, Goto, Spinning
<1>13. CASE StopMotor
  BY <1>13 DEF StopMotor, Goto, Spinning
<1>14. CASE ReportResult
  BY <1>14 DEF ReportResult, Goto, Spinning
<1>15. CASE SeeVerdict
  BY <1>15 DEF SeeVerdict, Goto, Spinning
<1>16. CASE PlayAnimation
  BY <1>16 DEF PlayAnimation, Goto, Spinning
<1>17. CASE ConfirmLetter
  BY <1>17 DEF ConfirmLetter, Spinning
<1>18. CASE ButtonIrq
  BY <1>18 DEF ButtonIrq, Goto, Spinning
<1>19. CASE TimerFires
  BY <1>19 DEF TimerFires, Goto, Spinning
<1>20. CASE StartGame
  BY <1>20 DEF StartGame, WriteState, Spinning
<1>21. CASE SetWinner
  BY <1>21 DEF SetWinner, WriteState, Spinning
<1>22. CASE SetLooser
  BY <1>22 DEF SetLooser, WriteState, Spinning
<1>23. CASE get_name_of_player
  BY <1>23 DEF get_name_of_player
<1>24. CASE get_result
  BY <1>24 DEF get_result
<1>25. CASE FinishReply
  BY <1>25 DEF FinishReply, TypeOK
<1>26. CASE UNCHANGED vars
  BY <1>26 DEF vars
<1> QED
  BY <1>1, <1>2, <1>3, <1>4, <1>5, <1>6, <1>7, <1>8, <1>9, <1>10, <1>11, <1>12, <1>13, <1>14, <1>15, <1>16, <1>17, <1>18, <1>19, <1>20, <1>21, <1>22, <1>23, <1>24, <1>25, <1>26
     DEF Next, GameThread, GcoapThread

\* The inductive invariant.
THEOREM Invariance == Spec => []IInv
<1>1. Init => SInv
  BY DEF Init, SInv, StateInv, ResultInv, MotorInv, HandlerInv, Spinning
<1>2. TypeOK /\ SInv /\ [Next]_vars => SInv'
  BY StepSInv
<1>3. Spec => [](TypeOK /\ NameInv)
  BY TypeCorrect
<1> QED BY <1>1, <1>2, <1>3, PTL DEF Spec, IInv

\* What state announces to the request handlers is there (see Announced).
THEOREM AnnouncedHolds == Spec => []Announced
<1>1. IInv => Announced
  BY DEF IInv, TypeOK, NameInv, SInv, StateInv, ResultInv, MotorInv, Announced, Spinning,
     MotorInv, Indices
<1> QED BY <1>1, Invariance, PTL

\* What a handler is copying, no interleaving changes (see NoTornReply): while it
\* copies, state is NAME_READY or GET_RESULT, so the game thread is in the busy
\* loop it leaves only after the gcoap thread has taken another request.
THEOREM NoTornReplyHolds == Spec => NoTornReply
<1> DEFINE Kept ==
      /\ handler = "name" => UNCHANGED <<playername, state>>
      /\ handler = "result" => UNCHANGED <<reaction_time, state>>
<1>1. IInv /\ [Next]_vars => Kept
  <2> SUFFICES ASSUME IInv, [Next]_vars, handler # "idle" PROVE Kept
    OBVIOUS
  <2>1. pc \in {"waitStart", "waitVerdict"} /\ state \in {"NAME_READY", "GET_RESULT"}
    BY DEF IInv, TypeOK, SInv, StateInv, HandlerInv
  <2>2. ~ConfirmLetter /\ ~ButtonIrq /\ ~TimerFires
    BY <2>1 DEF ConfirmLetter, ButtonIrq, TimerFires, Goto
  <2>3. ~GameThread
    BY <2>1 DEF GameThread, NextRound, AnnounceName, SeeStart, EnableButtons, StartMotor,
       StampStart, BlockOnMessage, StopMotorLate, ResetClient, Fail, DisableButtons,
       MeasureTime, StopMotor, ReportResult, SeeVerdict, PlayAnimation, Goto
  <2>4. GcoapThread => FinishReply
    BY DEF GcoapThread, StartGame, SetWinner, SetLooser, WriteState, get_name_of_player,
       get_result
  <2> QED
    BY <2>2, <2>3, <2>4 DEF Next, FinishReply, name_vars, race_vars, vars
<1> QED
  BY <1>1, Invariance, PTL DEF Spec, NoTornReply

----------------------------------------------------------------------------
(* The board implements its abstract specification.                        *)

\* GameLoop starts as Board does.
LEMMA InitImplements == Init => ABoard!Init
  BY DEF Init, ABoard!Init, PhaseOf

\* Every step is a step of the abstract board or leaves it alone.
LEMMA StepImplements ==
  ASSUME TypeOK, [Next]_vars
  PROVE  [ABoard!Next]_(ABoard!vars)
<1> USE DEF PhaseOf, name_vars, race_vars
<1> DEFINE Hidden == UNCHANGED <<PhaseOf, state, reaction_time>>
<1>1. NextRound => ABoard!NextRound(Self)
  BY DEF NextRound, ABoard!NextRound, ABoard!Write
<1>2. AnnounceName => ABoard!EnterName(Self)
  BY DEF AnnounceName, Goto, ABoard!EnterName, ABoard!Move, ABoard!Write
<1>3. SeeStart => ABoard!Go(Self)
  BY DEF SeeStart, Goto, ABoard!Go, ABoard!Move
<1>4. MeasureTime => ABoard!Measure(Self)
  BY DEF MeasureTime, Goto, ABoard!Measure, ABoard!Move
<1>5. ReportResult => ABoard!Report(Self)
  BY DEF ReportResult, Goto, ABoard!Report, ABoard!Move, ABoard!Write
<1>6. TimerFires => ABoard!TimeOut(Self)
  BY DEF TimerFires, Goto, ABoard!TimeOut, ABoard!Move
<1>7. ResetClient => ABoard!DropClient(Self)
  BY DEF ResetClient, Goto, ABoard!DropClient, ABoard!Move
<1>8. Fail => ABoard!Fail(Self)
  BY DEF Fail, Goto, ABoard!Fail, ABoard!Move, ABoard!Write
<1>9. SeeVerdict => ABoard!SeeVerdict(Self)
  BY DEF SeeVerdict, Goto, ABoard!SeeVerdict, ABoard!Move, ABoard!Verdict
<1>10. PlayAnimation => ABoard!Animate(Self)
  BY DEF PlayAnimation, Goto, ABoard!Animate, ABoard!Move
<1>11. StartGame => ABoard!StartGame(Self)
  BY DEF StartGame, WriteState, ABoard!StartGame, ABoard!Write
<1>12. SetWinner => ABoard!SetWinner(Self)
  BY DEF SetWinner, WriteState, ABoard!SetWinner, ABoard!Write
<1>13. SetLooser => ABoard!SetLooser(Self)
  BY DEF SetLooser, WriteState, ABoard!SetLooser, ABoard!Write
<1>14. ConfirmLetter => Hidden
  BY DEF ConfirmLetter
<1>15. EnableButtons => Hidden
  BY DEF EnableButtons, Goto
<1>16. StartMotor => Hidden
  BY DEF StartMotor, Goto
<1>17. StampStart => Hidden
  BY DEF StampStart, Goto
<1>18. BlockOnMessage => Hidden
  BY DEF BlockOnMessage, Goto
<1>19. StopMotorLate => Hidden
  BY DEF StopMotorLate, Goto
<1>20. DisableButtons => Hidden
  BY DEF DisableButtons, Goto
<1>21. StopMotor => Hidden
  BY DEF StopMotor, Goto
<1>22. ButtonIrq => Hidden
  BY DEF ButtonIrq, Goto
<1>23. get_name_of_player => Hidden
  BY DEF get_name_of_player
<1>24. get_result => Hidden
  BY DEF get_result
<1>25. FinishReply => Hidden
  BY DEF FinishReply
<1>26. UNCHANGED vars => Hidden
  BY DEF vars
<1>27. Hidden => UNCHANGED ABoard!vars
  BY DEF ABoard!vars
<1> QED
  BY <1>1, <1>2, <1>3, <1>4, <1>5, <1>6, <1>7, <1>8, <1>9, <1>10, <1>11, <1>12, <1>13, <1>14, <1>15, <1>16, <1>17, <1>18, <1>19, <1>20, <1>21, <1>22, <1>23, <1>24, <1>25, <1>26, <1>27
     DEF Next, GameThread, GcoapThread, ABoard!Next, ABoard!GameThread, ABoard!Handler

\* The statement-level board implements the abstract one (see ImplementsBoard).
THEOREM Implements == Spec => ImplementsBoard
<1>1. TypeOK /\ [Next]_vars => [ABoard!Next]_(ABoard!vars)
  BY StepImplements
<1>2. Spec => []TypeOK
  BY TypeCorrect, PTL
<1> QED
  BY InitImplements, <1>1, <1>2, PTL DEF Spec, ImplementsBoard, ABoard!Spec
=============================================================================
