--------------------------- MODULE ReactionProofs ---------------------------
(***************************************************************************)
(* Theorems about the game over the network (Reaction), for every pair of  *)
(* sets of times and every place at which the lists start again.           *)
(*                                                                         *)
(* Types hold in every environment.  The rest needs a prompt network, as   *)
(* the 20 ms sleep before each batch wants it, but may lose any datagram.  *)
(* Then one kind of request is under way at a time, and IInv says for each *)
(* thing the client believes of a board that it is so, or that nothing can *)
(* come of it any more.  GameInv adds, as long as every player has pressed *)
(* in time, that client and boards are in the same game.                   *)
(***************************************************************************)
EXTENDS Reaction, TLAPS

USE DEF history

----------------------------------------------------------------------------
(* Bags.  All that matters below is which datagrams a bag holds.           *)

\* Taking a datagram out of a bag adds none.
LEMMA BagLess ==
  ASSUME NEW b, IsABag(b), NEW x
  PROVE  /\ IsABag(b (-) SetToBag({x}))
         /\ BagToSet(b (-) SetToBag({x})) \subseteq BagToSet(b)
BY DEF IsABag, BagToSet, SetToBag, (-)

\* A set taken as a bag holds the members of the set.
LEMMA BagOfSet ==
  ASSUME NEW S
  PROVE  IsABag(SetToBag(S)) /\ BagToSet(SetToBag(S)) = S
BY DEF IsABag, BagToSet, SetToBag

\* Joining two bags joins their members.
LEMMA BagMore ==
  ASSUME NEW b, NEW c, IsABag(b), IsABag(c)
  PROVE  IsABag(b (+) c) /\ BagToSet(b (+) c) = BagToSet(b) \cup BagToSet(c)
BY DEF IsABag, BagToSet, (+)

\* Nothing is in the empty bag.
LEMMA BagEmpty == IsABag(EmptyBag) /\ BagToSet(EmptyBag) = {}
BY BagOfSet DEF EmptyBag

----------------------------------------------------------------------------
(* The datagrams under way.                                                *)

Net == BagToSet(net)

NetOK == IsABag(net) /\ Net \subseteq Request \cup Response

\* A datagram that was taken is not answered here, or with answer.
LEMMA Taken ==
  ASSUME NEW msg, NetOK, Take(msg)
  PROVE  msg \in Net /\ NetOK' /\ Net' \subseteq Net
BY BagLess DEF Take, BagIn, Net, NetOK

\* The bag after a datagram was taken and answered.
LEMMA TakenAndAnswered ==
  ASSUME NEW msg, NEW answer, NetOK, TakeAndAnswer(msg, answer),
         answer \subseteq Request \cup Response
  PROVE  msg \in Net /\ NetOK' /\ Net' \subseteq Net \cup answer
<1>. DEFINE less == net (-) SetToBag({msg})
<1>1. IsABag(less) /\ BagToSet(less) \subseteq Net
  BY BagLess DEF NetOK, Net
<1>2. IsABag(SetToBag(answer)) /\ BagToSet(SetToBag(answer)) = answer
  BY BagOfSet
<1>3. net' = less (+) SetToBag(answer) /\ msg \in Net
  BY DEF TakeAndAnswer, BagIn, Net
<1>4. IsABag(net') /\ BagToSet(net') = BagToSet(less) \cup answer
  BY <1>1, <1>2, <1>3, BagMore
<1>. QED  BY <1>1, <1>3, <1>4 DEF NetOK, Net, Request, Response
----------------------------------------------------------------------------
(* Type correctness, whatever the environment does.                        *)

\* Two boards.
LEMMA Machines ==
  /\ Machine = {M0, M1} /\ M0 # M1
  /\ \A m \in Machine :
       /\ Other(m) \in Machine /\ Other(m) # m /\ Other(Other(m)) = m
       /\ \A n \in Machine : n = m \/ n = Other(m)
BY BoardsAssumption DEF BoardsAssumption, Machine, Other

\* The phases from the press to the end of the animation.
Played == {"reported", "told", "winning", "losing"}

\* TypeOK is not inductive: the answer to a result request carries a reaction
\* time only because GET_RESULT is written after a press was timed.
BoardInv ==
  \A m \in Machine :
    /\ state[m] = "NAME_READY" => phase[m] = "waiting"
    /\ state[m] = "GET_RESULT" => phase[m] = "reported"
    /\ phase[m] \in {"timed"} \cup Played => result[m] \in Times[m]

TypedInv == TypeOK /\ BoardInv

\* The game thread and the handlers keep it.
LEMMA BoardStep ==
  ASSUME B!TypeOK, BoardInv, NEW m \in Machine, B!GameThread(m) \/ B!Handler(m)
  PROVE  B!TypeOK' /\ BoardInv'
<1>. USE DEF B!TypeOK, BoardInv, Played, B!Move, B!Write, B!Phase, B!GameState
<1>1. CASE B!NextRound(m)
  BY <1>1 DEF B!NextRound
<1>2. CASE B!EnterName(m)
  BY <1>2 DEF B!EnterName
<1>3. CASE B!Go(m)
  BY <1>3 DEF B!Go
<1>4. CASE B!Measure(m)
  <2>1. Times[m] \subseteq Nat
    BY TimesAssumption DEF TimesAssumption
  <2>. QED  BY <1>4, <2>1 DEF B!Measure
<1>5. CASE B!Report(m)
  BY <1>5 DEF B!Report
<1>6. CASE B!TimeOut(m) \/ B!DropClient(m)
  BY <1>6 DEF B!TimeOut, B!DropClient
<1>7. CASE B!Fail(m)
  BY <1>7 DEF B!Fail
<1>8. CASE B!SeeVerdict(m)
  BY <1>8 DEF B!SeeVerdict, B!Verdict
<1>9. CASE B!Animate(m)
  BY <1>9 DEF B!Animate
<1>10. CASE B!Handler(m)
  BY <1>10 DEF B!Handler, B!StartGame, B!SetWinner, B!SetLooser
<1>. QED
  BY <1>1, <1>2, <1>3, <1>4, <1>5, <1>6, <1>7, <1>8, <1>9, <1>10 DEF B!GameThread

\* What is left of a function after one place was set to TRUE.
LEMMA NowTrue ==
  ASSUME NEW S, NEW f \in [S -> BOOLEAN], NEW x \in S
  PROVE  [f EXCEPT ![x] = TRUE] \in [S -> BOOLEAN]
OBVIOUS

\* The client thread, the response handler and M0's game thread keep the types of
\* what the client stores.
LEMMA MasterStep ==
  ASSUME C!TypeOK,
         \/ C!ChooseNames \/ C!ChooseStart \/ C!ChooseResults \/ C!Compare \/ C!Spin
         \/ C!LookAgain \/ C!SendBatch \/ C!Record \/ C!ResetStates \/ C!ResetStrings
         \/ C!Rest \/ C!GameClearsStates \/ C!GameClearsStrings
         \/ \E m \in Machine :
              C!set_name(m) \/ C!set_is_working(m) \/ \E t \in AllTimes : C!set_result(m, t)
  PROVE  C!TypeOK'
<1>. USE DEF C!TypeOK, C!Label, C!ClientState, C!client, C!highscore, C!Goto, C!Machine,
             Machine, C!ClearStates, C!ClearStrings
<1>1. CASE C!ChooseNames \/ C!ChooseStart \/ C!ChooseResults \/ C!Spin \/ C!LookAgain
  BY <1>1 DEF C!ChooseNames, C!ChooseStart, C!ChooseResults, C!Spin, C!LookAgain
<1>2. CASE C!Compare
  BY <1>2 DEF C!Compare
<1>3. CASE C!SendBatch \/ C!Rest
  BY <1>3 DEF C!SendBatch, C!Rest
<1>4. CASE C!Record
  <2>1. PICK t \in [Machine -> AllTimes \cup {0}] :
          last' = [m \in Machine |-> <<named[m], t[m]>>]
    BY <1>4 DEF C!Record
  <2>2. last' \in [Machine -> BOOLEAN \X (AllTimes \cup {0})]
    BY <2>1
  <2>3. entry_counter' \in 0 .. WrapAt - 1
    BY <1>4, WrapAssumption DEF C!Record, WrapAssumption
  <2>. QED  BY <1>4, <2>2, <2>3 DEF C!Record
<1>5. CASE C!ResetStates \/ C!ResetStrings
  BY <1>5 DEF C!ResetStates, C!ResetStrings
<1>6. CASE C!GameClearsStates \/ C!GameClearsStrings
  BY <1>6 DEF C!GameClearsStates, C!GameClearsStrings
<1>7. ASSUME NEW m \in Machine, C!set_name(m) \/ C!set_is_working(m)
      PROVE  C!TypeOK'
  <2>1. [named EXCEPT ![m] = TRUE] \in [Machine -> BOOLEAN]
    BY NowTrue
  <2>2. named' = [named EXCEPT ![m] = TRUE] \/ named' = named
    BY <1>7 DEF C!set_name, C!set_is_working
  <2>3. named' \in [C!Machine -> BOOLEAN]
    BY <2>1, <2>2, Zenon
  <2>4. cst' \in [C!Machine -> C!ClientState]
    BY <1>7 DEF C!set_name, C!set_is_working
  <2>. QED  BY <1>7, <2>3, <2>4 DEF C!set_name, C!set_is_working
<1>8. ASSUME NEW m \in Machine, NEW t \in AllTimes, C!set_result(m, t)
      PROVE  C!TypeOK'
  BY <1>8 DEF C!set_result
<1>. QED  BY <1>1, <1>2, <1>3, <1>4, <1>5, <1>6, <1>7, <1>8

\* A request is taken, or a response the client does not ignore.
LEMMA ServerNet ==
  ASSUME TypedInv, NEW m \in Machine, Server(m)
  PROVE  NetOK'
<1>. USE DEF TypedInv, TypeOK, NetOK, Net
<1>1. CASE HandleName(m)
  <2>. DEFINE answer == {[from |-> m, tells |-> "na", time |-> 0] :
                           s \in {state[m]} \cap {"NAME_READY"}}
  <2>1. answer \subseteq Request \cup Response
    BY DEF Response
  <2>. QED  BY <1>1, <2>1, TakenAndAnswered DEF HandleName
<1>2. CASE HandleResult(m)
  <2>. DEFINE answer == {[from |-> m, tells |-> "re", time |-> result[m]] :
                           s \in {state[m]} \cap {"GET_RESULT"}}
  <2>1. state[m] = "GET_RESULT" => result[m] \in AllTimes
    BY DEF BoardInv, Played, AllTimes
  <2>2. answer \subseteq Request \cup Response
    BY <2>1 DEF Response
  <2>. QED  BY <1>2, <2>2, TakenAndAnswered DEF HandleResult
<1>3. CASE HandleStart(m)
  <2>. DEFINE answer == {[from |-> m, tells |-> "st", time |-> 0]}
  <2>1. answer \subseteq Request \cup Response
    BY DEF Response
  <2>. QED  BY <1>3, <2>1, TakenAndAnswered DEF HandleStart
<1>4. CASE HandleVerdict(m)
  BY <1>4, Taken DEF HandleVerdict
<1>. QED  BY <1>1, <1>2, <1>3, <1>4 DEF Server

\* A batch adds one kind of request to the datagrams, and nothing else.
LEMMA ClientNet ==
  ASSUME TypedInv, SendBatch
  PROVE  /\ NetOK'
         /\ Net' \subseteq Net \cup {[to |-> m, ask |-> C!Ask(m)] : m \in Machine}
<1>. DEFINE asked == {[to |-> m, ask |-> C!Ask(m)] : m \in Machine}
            batch == SetToBag(asked)
            once == net (+) batch
<1>1. asked \subseteq Request
  <2>1. mpc \in {"askName", "askStart", "askResult", "verdict"}
    BY DEF SendBatch, C!SendBatch, C!Goto
  <2>2. \A m \in Machine : C!Ask(m) \in {"name", "start", "result", "winner", "looser"}
    BY <2>1 DEF C!Ask
  <2>. QED  BY <2>2 DEF Request
<1>2. IsABag(batch) /\ BagToSet(batch) = asked
  BY BagOfSet
<1>3. IsABag(net) /\ net' = once (+) batch
  BY DEF TypedInv, TypeOK, SendBatch
<1>4. IsABag(once) /\ BagToSet(once) = Net \cup asked
  BY <1>2, <1>3, BagMore DEF Net
<1>5. IsABag(net') /\ BagToSet(net') = Net \cup asked
  <2>. HIDE DEF once, batch, asked
  <2>. QED  BY <1>2, <1>3, <1>4, BagMore
<1>. QED  BY <1>1, <1>5 DEF NetOK, Net, TypedInv, TypeOK

\* What a response the client handles says.
LEMMA ResponseNet ==
  ASSUME TypedInv, NEW m \in Machine, HandleResponse(m)
  PROVE  /\ NetOK' /\ Net' \subseteq Net
         /\ \/ [from |-> m, tells |-> "na", time |-> 0] \in Net /\ C!set_name(m)
            \/ [from |-> m, tells |-> "st", time |-> 0] \in Net /\ C!set_is_working(m)
            \/ \E t \in AllTimes :
                 [from |-> m, tells |-> "re", time |-> t] \in Net /\ C!set_result(m, t)
<1>1. PICK msg \in BagToSet(net) \cap Response :
        /\ msg.from = m
        /\ Take(msg)
        /\ \/ msg.tells = "na" /\ C!set_name(m)
           \/ msg.tells = "st" /\ C!set_is_working(m)
           \/ msg.tells = "re" /\ C!set_result(m, msg.time)
  BY DEF HandleResponse
<1>2. NetOK' /\ Net' \subseteq Net
  BY <1>1, Taken DEF TypedInv, TypeOK, NetOK, Net
<1>3. /\ msg = [from |-> m, tells |-> msg.tells, time |-> msg.time]
      /\ msg.tells \in {"na", "st"} => msg.time = 0
      /\ msg.tells = "re" => msg.time \in AllTimes
  BY <1>1 DEF Response
<1>. QED  BY <1>1, <1>2, <1>3 DEF Net

\* No step of any actor leaves the types.
LEMMA TypedStep == TypedInv /\ [Next]_vars => TypedInv'
<1>. SUFFICES ASSUME TypedInv, [Next]_vars PROVE TypedInv'
  OBVIOUS
<1>. USE DEF TypedInv, TypeOK
<1>0. NetOK
  BY DEF NetOK, Net
<1>1. ASSUME UNCHANGED board PROVE B!TypeOK' /\ BoardInv'
  BY <1>1 DEF board, B!TypeOK, BoardInv, Played
<1>2. ASSUME UNCHANGED master PROVE C!TypeOK'
  BY <1>2 DEF master, C!TypeOK
<1>3. ASSUME UNCHANGED net PROVE NetOK'
  BY <1>0, <1>3 DEF NetOK, Net
<1>4. ASSUME NetOK' PROVE IsABag(net)' /\ (BagToSet(net) \subseteq Request \cup Response)'
  BY <1>4 DEF NetOK, Net, Request, Response
<1>5. ASSUME NEW m \in Machine, Server(m) PROVE TypedInv'
  <2>1. B!TypeOK' /\ BoardInv'
    <3>1. UNCHANGED board \/ B!Handler(m)
      BY <1>5 DEF Server, HandleName, HandleResult, HandleStart, HandleVerdict, B!Handler
    <3>. QED  BY <1>1, <3>1, BoardStep
  <2>2. UNCHANGED <<master, history>>
    BY <1>5 DEF Server, HandleName, HandleResult, HandleStart, HandleVerdict
  <2>3. NetOK'
    BY <1>5, ServerNet
  <2>. QED  BY <1>2, <1>4, <2>1, <2>2, <2>3
<1>6. ASSUME NEW m \in Machine, HandleResponse(m) PROVE TypedInv'
  <2>1. C!TypeOK' /\ NetOK'
    BY <1>6, ResponseNet, MasterStep
  <2>. QED  BY <1>1, <1>4, <1>6, <2>1 DEF HandleResponse
<1>7. ASSUME NEW m \in Machine, EnterName(m) \/ Press(m) \/ TimeOut(m) \/ System(m)
      PROVE  TypedInv'
  <2>1. B!GameThread(m)
    BY <1>7 DEF EnterName, Press, TimeOut, System, Go, Advance, DropClient, Fail, B!GameThread
  <2>2. UNCHANGED master \/ C!GameClearsStates \/ C!GameClearsStrings
    BY <1>7 DEF EnterName, Press, TimeOut, System, Go, Advance, DropClient, Fail
  <2>3. UNCHANGED net /\ recorded' \in BOOLEAN /\ missed' \in BOOLEAN
    BY <1>7 DEF EnterName, Press, TimeOut, System, Go, Advance, DropClient, Fail
  <2>4. C!TypeOK'
    BY <1>2, <2>2, MasterStep
  <2>. QED  BY <1>3, <1>4, <2>1, <2>3, <2>4, BoardStep
<1>8. CASE Client \/ LookAgain
  <2>1. C!TypeOK'
    BY <1>8, MasterStep DEF Client, SendBatch, Rest, Choose, Record, Reset, LookAgain
  <2>2. UNCHANGED board /\ recorded' \in BOOLEAN /\ missed' \in BOOLEAN
    BY <1>8 DEF Client, SendBatch, Rest, Choose, Record, Reset, LookAgain
  <2>3. SendBatch \/ UNCHANGED net
    BY <1>8 DEF Client, Rest, Choose, Record, Reset, LookAgain
  <2>. QED  BY <1>1, <1>3, <1>4, <2>1, <2>2, <2>3, ClientNet
<1>9. CASE Lose
  <2>1. NetOK'
    BY <1>0, <1>9, Taken DEF Lose
  <2>. QED  BY <1>1, <1>2, <1>4, <1>9, <2>1 DEF Lose
<1>10. CASE UNCHANGED vars
  BY <1>0, <1>1, <1>2, <1>3, <1>4, <1>10 DEF vars
<1>. QED  BY <1>5, <1>6, <1>7, <1>8, <1>9, <1>10 DEF Next, Named, Raced

\* TypedInv holds at power-on.
LEMMA InitTyped == Init => TypedInv
<1>. SUFFICES ASSUME Init PROVE TypedInv
  OBVIOUS
<1>1. B!TypeOK /\ BoardInv
  BY DEF Init, BoardInv, Played, B!Init, B!TypeOK, B!Phase, B!GameState
<1>2. C!TypeOK
  <2>. USE DEF Init, C!Init, C!Machine, Machine
  <2>1. cst \in [C!Machine -> C!ClientState] /\ res \in [C!Machine -> AllTimes \cup {0}]
    BY DEF C!ClientState
  <2>2. named \in [C!Machine -> BOOLEAN]
    OBVIOUS
  <2>3. last \in [C!Machine -> BOOLEAN \X (AllTimes \cup {0})]
    OBVIOUS
  <2>4. entry_counter \in 0 .. WrapAt - 1 /\ winner \in C!Machine /\ mpc \in C!Label
    BY WrapAssumption DEF WrapAssumption, C!Label
  <2>. QED  BY <2>1, <2>2, <2>3, <2>4 DEF C!TypeOK
<1>3. IsABag(net) /\ BagToSet(net) = {} /\ recorded \in BOOLEAN /\ missed \in BOOLEAN
  BY BagEmpty DEF Init
<1>. QED  BY <1>1, <1>2, <1>3 DEF TypedInv, TypeOK

\* Every value stays what the code declares it to be: the indices of the highscore
\* lists below their length, the stored results times the players had, the
\* datagrams among those the two programs send (main.c, coap_client.c).
THEOREM TypeCorrect == Spec => []TypeOK
<1>1. TypedInv => TypeOK
  BY DEF TypedInv
<1>. QED  BY <1>1, InitTyped, TypedStep, PTL DEF Spec

----------------------------------------------------------------------------
(* The rounds of the protocol, when the network is prompt.                 *)
(*                                                                         *)
(* One kind of request is under way at a time: the client sends a batch    *)
(* only when the one before is gone.  Everything else is about what the    *)
(* client believes of the boards (cst) while they move on: a name or a     *)
(* result it holds may be a round old if a player was too slow, yet not so *)
(* old that a comparison or a verdict concerns another game.               *)

\* The network delivers or loses what was sent before the client sends again, the
\* stored texts survive, and two players are never equally fast (ReactionDraw,
\* ReactionFrame show what happens otherwise).
Environment == Prompt /\ ~FrameReused /\ Times[M0] \cap Times[M1] = {}

Asked(m, a) == [to |-> m, ask |-> a] \in Net
Told(m, k, t) == [from |-> m, tells |-> k, time |-> t] \in Net

\* What is under way, requests and answers together.
Names == \E m \in Machine : Asked(m, "name") \/ Told(m, "na", 0)
Starts == \E m \in Machine : Asked(m, "start") \/ Told(m, "st", 0)
Results ==
  \E m \in Machine : Asked(m, "result") \/ \E t \in AllTimes : Told(m, "re", t)
Verdicts == \E m \in Machine : Asked(m, "winner") \/ Asked(m, "looser")

OneKind ==
  /\ Names => ~Starts /\ ~Results /\ ~Verdicts
  /\ Starts => ~Results /\ ~Verdicts
  /\ Results => ~Verdicts

\* The player entered a name and the race has not been started; the result is there
\* to be fetched.
Ready(m) == phase[m] = "waiting" /\ state[m] = "NAME_READY"
Shows(m) == phase[m] = "reported" /\ state[m] = "GET_RESULT"

\* An answer under way is still true of the board, a verdict right.
Answers ==
  \A m \in Machine :
    /\ Told(m, "na", 0) => Ready(m)
    /\ \A t \in AllTimes : Told(m, "re", t) => Shows(m) /\ t = result[m]
    /\ Asked(m, "winner") => winner = m
    /\ Asked(m, "looser") => winner # m

AllNamed == \A m \in Machine : cst[m] = "HAS_NAME"
AllReady == \A m \in Machine : Ready(m)

\* The client has sent the verdicts and has not looked at the states since.
Closing == mpc \in {"record", "resetStates", "resetStrings", "rest"}

\* Nobody is in a race or about to enter one; the winner is the faster player.
Calm ==
  \A m \in Machine :
    phase[m] \in Played \cup {"naming", "waiting"} /\ state[m] # "START_GAME"
Judged == result[winner] < result[Other(winner)]

\* M0 failed in this race and is not in the next one.
MissedByM0 ==
  \/ phase[M0] \in {"over", "naming"}
  \/ phase[M0] = "waiting" /\ state[M0] # "START_GAME"

\* A result the client holds is the one the board shows.  M1's may have been wiped
\* by M0's game thread in the meantime, which comes to nothing.
RcvdInv ==
  \A m \in Machine :
    cst[m] = "RCVD_RESULT" /\ ~Closing =>
      /\ Shows(m)
      /\ res[m] = result[m] \/ (m = M1 /\ MissedByM0)
      /\ ~Starts /\ ~Verdicts /\ mpc # "askStart"

\* A name the client holds while it still collects names is that of a board that
\* waits.
NameInv ==
  \A m \in Machine :
    cst[m] = "HAS_NAME" =>
      /\ ~Verdicts
      /\ Names \/ mpc = "askName" => Ready(m) /\ ~Starts
      /\ cst[Other(m)] = "WAITING" => Ready(m) /\ ~Starts /\ mpc # "askStart"

\* Both names are held: a batch that is not the start batch changes nothing.
StartInv ==
  /\ mpc = "askStart" /\ (Names \/ Results) => AllNamed /\ AllReady
  /\ mpc = "askResult" /\ AllNamed => AllReady /\ ~Starts
  /\ Results /\ AllNamed => AllReady

\* The verdicts are about the results both boards show.
VerdictInv ==
  mpc = "verdict" =>
    /\ \A m \in Machine : cst[m] = "RCVD_RESULT" /\ phase[m] = "reported"
    /\ Judged /\ ~recorded

\* From the verdicts to the reset both boards stand still or end their round.
ClosingInv ==
  /\ Verdicts => Closing
  /\ Closing => Calm /\ Judged /\ ~Names /\ ~Starts /\ ~Results
  /\ mpc \in {"record", "resetStates"} => \A m \in Machine : cst[m] = "RCVD_RESULT"
  /\ mpc \in {"resetStrings", "rest"} => \A m \in Machine : cst[m] = "WAITING"

RecordedInv ==
  /\ mpc = "record" => ~recorded
  /\ mpc \in {"resetStates", "resetStrings", "rest"} => recorded
  /\ recorded => \A m \in Machine : phase[m] \in Played \cup {"naming", "waiting"}

\* A board that knows its verdict, from the state its handler wrote on.
Heard(m) ==
  \/ phase[m] \in {"told", "winning", "losing"}
  \/ phase[m] = "reported" /\ state[m] \in B!Verdict

\* What the boards were told is what the client decided in this game.
HeardInv ==
  \A m \in Machine :
    /\ Heard(m) => recorded \/ mpc = "record"
    /\ phase[m] = "told" => state[m] \in B!Verdict
    /\ phase[m] \in {"told", "reported"} =>
         (state[m] = "WINNER" => winner = m) /\ (state[m] = "LOOSER" => winner # m)
    /\ phase[m] = "winning" => winner = m
    /\ phase[m] = "losing" => winner # m

\* While a board is still at the end of a game that was entered in the lists, the
\* client asks for names and gets none from it.
BehindInv ==
  \A m \in Machine :
    recorded /\ phase[m] \in Played /\ ~Closing =>
      /\ cst[m] = "WAITING" /\ mpc \in {"poll", "askName"}
      /\ ~Starts /\ ~Results /\ ~Verdicts
      /\ Calm /\ Judged

ProtocolInv ==
  /\ OneKind /\ Answers
  /\ RcvdInv /\ NameInv /\ StartInv
  /\ VerdictInv /\ ClosingInv /\ RecordedInv
  /\ HeardInv /\ BehindInv

IInv == TypedInv /\ ProtocolInv

----------------------------------------------------------------------------
(* Steps that add nothing to what is under way.                            *)

Fewer ==
  /\ (Names' => Names) /\ (Starts' => Starts)
  /\ (Results' => Results) /\ (Verdicts' => Verdicts)

\* With fewer datagrams, fewer are under way: losing one breaks nothing.
LEMMA FewerNet ==
  ASSUME Net' \subseteq Net
  PROVE  /\ Fewer
         /\ \A m \in Machine :
              /\ \A a : Asked(m, a)' => Asked(m, a)
              /\ \A k, t : Told(m, k, t)' => Told(m, k, t)
<1>1. \A m \in Machine :
        /\ \A a : Asked(m, a)' => Asked(m, a)
        /\ \A k, t : Told(m, k, t)' => Told(m, k, t)
  BY DEF Asked, Told
<1>2. Fewer
  BY <1>1 DEF Fewer, Names, Starts, Results, Verdicts
<1>. QED  BY <1>1, <1>2

\* HandleName, HandleResult, Lose, and no step at all: boards and client are as they
\* were, and an answer is one to a question that was there.
LEMMA NetStep ==
  ASSUME IInv, UNCHANGED <<board, master, recorded>>,
         \/ HandleName(M0) \/ HandleName(M1) \/ HandleResult(M0) \/ HandleResult(M1)
         \/ Lose \/ UNCHANGED net
  PROVE  ProtocolInv'
<1>. USE DEF IInv, TypedInv, TypeOK
<1>0. NetOK
  BY DEF NetOK, Net
<1>1. ASSUME NEW m \in Machine, HandleName(m)
      PROVE  /\ Names
             /\ Net' \subseteq Net \cup {[from |-> m, tells |-> "na", time |-> 0] :
                                           s \in {state[m]} \cap {"NAME_READY"}}
  <2>. DEFINE answer == {[from |-> m, tells |-> "na", time |-> 0] :
                           s \in {state[m]} \cap {"NAME_READY"}}
  <2>1. answer \subseteq Request \cup Response
    BY DEF Response
  <2>2. [to |-> m, ask |-> "name"] \in Net /\ Net' \subseteq Net \cup answer
    BY <1>0, <1>1, <2>1, TakenAndAnswered DEF HandleName
  <2>. QED  BY <2>2 DEF Names, Asked
<1>2. ASSUME NEW m \in Machine, HandleResult(m)
      PROVE  /\ Results
             /\ Net' \subseteq Net \cup {[from |-> m, tells |-> "re", time |-> result[m]] :
                                           s \in {state[m]} \cap {"GET_RESULT"}}
  <2>. DEFINE answer == {[from |-> m, tells |-> "re", time |-> result[m]] :
                           s \in {state[m]} \cap {"GET_RESULT"}}
  <2>1. state[m] = "GET_RESULT" => result[m] \in AllTimes
    BY DEF BoardInv, Played, AllTimes
  <2>2. answer \subseteq Request \cup Response
    BY <2>1 DEF Response
  <2>3. [to |-> m, ask |-> "result"] \in Net /\ Net' \subseteq Net \cup answer
    BY <1>0, <1>2, <2>2, TakenAndAnswered DEF HandleResult
  <2>. QED  BY <2>3 DEF Results, Asked
<1>3. Fewer /\ Answers'
  <2>. USE DEF board, master, ProtocolInv, Answers, Ready, Shows
  <2>1. CASE Lose \/ UNCHANGED net
    <3>1. Net' \subseteq Net
      BY <1>0, <2>1, Taken DEF Lose, Net
    <3>. QED  BY <3>1, FewerNet
  <2>2. ASSUME NEW m \in Machine, HandleName(m) PROVE Fewer /\ Answers'
    <3>1. \A n \in Machine :
            /\ \A a : Asked(n, a)' => Asked(n, a)
            /\ \A t : Told(n, "re", t)' => Told(n, "re", t)
            /\ Told(n, "st", 0)' => Told(n, "st", 0)
            /\ Told(n, "na", 0)' => Told(n, "na", 0) \/ (n = m /\ state[m] = "NAME_READY")
      BY <1>1, <2>2 DEF Asked, Told
    <3>. QED  BY <1>1, <2>2, <3>1 DEF Fewer, Names, Starts, Results, Verdicts, BoardInv
  <2>3. ASSUME NEW m \in Machine, HandleResult(m) PROVE Fewer /\ Answers'
    <3>1. \A n \in Machine :
            /\ \A a : Asked(n, a)' => Asked(n, a)
            /\ \A t : Told(n, "re", t)' =>
                 Told(n, "re", t) \/ (n = m /\ state[m] = "GET_RESULT" /\ t = result[m])
            /\ Told(n, "st", 0)' => Told(n, "st", 0)
            /\ Told(n, "na", 0)' => Told(n, "na", 0)
      BY <1>2, <2>3 DEF Asked, Told
    <3>. QED  BY <1>2, <2>3, <3>1 DEF Fewer, Names, Starts, Results, Verdicts, BoardInv
  <2>. QED  BY <2>1, <2>2, <2>3, Machines
<1>. QED
  BY <1>3 DEF board, master, ProtocolInv, OneKind, Fewer, RcvdInv, NameInv, StartInv,
    VerdictInv, ClosingInv, RecordedInv, HeardInv, BehindInv, Ready, Shows, AllNamed,
    AllReady, Closing, Calm, Judged, MissedByM0, Heard


\* A start request overwrites NAME_READY, or nothing that still matters.
LEMMA HandleStartStep ==
  ASSUME IInv, NEW m \in Machine, HandleStart(m)
  PROVE  ProtocolInv'
<1>. USE DEF IInv, TypedInv, TypeOK
<1>1. /\ Starts
      /\ Net' \subseteq Net \cup {[from |-> m, tells |-> "st", time |-> 0]}
  <2>. DEFINE answer == {[from |-> m, tells |-> "st", time |-> 0]}
  <2>1. NetOK /\ answer \subseteq Request \cup Response
    BY DEF NetOK, Net, Response
  <2>2. [to |-> m, ask |-> "start"] \in Net /\ Net' \subseteq Net \cup answer
    BY <2>1, TakenAndAnswered DEF HandleStart
  <2>. QED  BY <2>2 DEF Starts, Asked
<1>2. Fewer /\ \A n \in Machine :
                 /\ \A a : Asked(n, a)' => Asked(n, a)
                 /\ \A t : Told(n, "re", t)' => Told(n, "re", t)
                 /\ Told(n, "na", 0)' => Told(n, "na", 0)
  <2>1. \A n \in Machine :
          /\ \A a : Asked(n, a)' => Asked(n, a)
          /\ \A t : Told(n, "re", t)' => Told(n, "re", t)
          /\ Told(n, "na", 0)' => Told(n, "na", 0)
    BY <1>1 DEF Asked, Told
  <2>. QED  BY <1>1, <2>1 DEF Fewer, Names, Starts, Results, Verdicts
<1>3. UNCHANGED <<phase, result, master, recorded>> /\ state' = [state EXCEPT ![m] = "START_GAME"]
  BY DEF HandleStart, B!StartGame, B!Write
<1>4. ~Names /\ ~Results /\ ~Verdicts /\ ~Closing
  BY <1>1 DEF ProtocolInv, OneKind, ClosingInv
<1>. USE <1>1, <1>2, <1>3, <1>4 DEF ProtocolInv, Fewer, Ready, Shows, Closing, master, B!TypeOK
<1>5. OneKind' /\ Answers'
  BY DEF OneKind, Answers, Names, Results, Verdicts
<1>6. RcvdInv' /\ NameInv' /\ StartInv'
  BY Machines DEF RcvdInv, NameInv, StartInv, AllNamed, AllReady
<1>7. VerdictInv' /\ ClosingInv' /\ RecordedInv'
  BY DEF VerdictInv, ClosingInv, RecordedInv, Judged
<1>8. HeardInv' /\ BehindInv'
  BY DEF HeardInv, BehindInv, Heard, B!Verdict, Played
<1>. QED  BY <1>5, <1>6, <1>7, <1>8

\* A verdict reaches a board that shows its result or is past it.
LEMMA HandleVerdictStep ==
  ASSUME IInv, NEW m \in Machine, HandleVerdict(m)
  PROVE  ProtocolInv'
<1>. USE DEF IInv, TypedInv, TypeOK
<1>1. PICK w \in {"winner", "looser"} :
        /\ Take([to |-> m, ask |-> w])
        /\ UNCHANGED <<phase, result, master, recorded>>
        /\ state' = [state EXCEPT ![m] = IF w = "winner" THEN "WINNER" ELSE "LOOSER"]
  BY DEF HandleVerdict, B!SetWinner, B!SetLooser, B!Write
<1>2. Asked(m, w) /\ Verdicts /\ Net' \subseteq Net
  <2>1. [to |-> m, ask |-> w] \in Net /\ Net' \subseteq Net
    BY <1>1, Taken DEF NetOK, Net
  <2>. QED  BY <2>1 DEF Asked, Verdicts
<1>3. /\ Closing /\ Calm /\ Judged /\ ~Names /\ ~Starts /\ ~Results
      /\ w = "winner" <=> winner = m
  BY <1>2 DEF ProtocolInv, OneKind, ClosingInv, Answers
<1>4. recorded \/ mpc = "record"
  BY <1>3 DEF ProtocolInv, RecordedInv, Closing
<1>5. /\ Fewer
      /\ \A n \in Machine : \A a : Asked(n, a)' => Asked(n, a)
      /\ \A n \in Machine : \A k, t : Told(n, k, t)' => Told(n, k, t)
  BY <1>2, FewerNet
<1>. USE <1>1, <1>3, <1>4, <1>5 DEF ProtocolInv, Fewer, Ready, Shows, Closing, master, B!TypeOK
<1>6. OneKind' /\ Answers'
  BY DEF OneKind, Answers, Names, Results
<1>7. RcvdInv' /\ NameInv' /\ StartInv'
  BY Machines DEF RcvdInv, NameInv, StartInv, AllNamed, AllReady, ClosingInv
<1>8. VerdictInv' /\ ClosingInv' /\ RecordedInv'
  BY DEF VerdictInv, ClosingInv, RecordedInv, Calm, Judged
<1>9. HeardInv' /\ BehindInv'
  BY DEF HeardInv, BehindInv, Heard, B!Verdict
<1>. QED  BY <1>6, <1>7, <1>8, <1>9

\* The client stores what it is told, which is still true.
LEMMA HandleResponseStep ==
  ASSUME IInv, NEW m \in Machine, HandleResponse(m)
  PROVE  ProtocolInv'
<1>. USE DEF IInv, TypedInv, TypeOK
<1>1. /\ Net' \subseteq Net /\ UNCHANGED <<board, recorded>>
      /\ \/ Told(m, "na", 0) /\ C!set_name(m)
         \/ Told(m, "st", 0) /\ C!set_is_working(m)
         \/ \E t \in AllTimes : Told(m, "re", t) /\ C!set_result(m, t)
  BY ResponseNet DEF HandleResponse, Told
<1>2. /\ Fewer
      /\ \A n \in Machine : \A a : Asked(n, a)' => Asked(n, a)
      /\ \A n \in Machine : \A k, t : Told(n, k, t)' => Told(n, k, t)
  BY <1>1, FewerNet
<1>3. OneKind' /\ Answers' /\ UNCHANGED <<mpc, winner, phase, state, result, recorded>>
  BY <1>1, <1>2 DEF ProtocolInv, OneKind, Fewer, Answers, Ready, Shows, board, C!set_name,
                    C!set_is_working, C!set_result
<1>. USE <1>2, <1>3 DEF ProtocolInv, Fewer, Closing, C!TypeOK, C!Machine, Machine
<1>4. CASE Told(m, "na", 0) /\ C!set_name(m)
  <2>1. Names /\ Ready(m) /\ ~Starts /\ ~Results /\ ~Verdicts
    BY <1>4 DEF Names, OneKind, Answers
  <2>. USE <1>4, <2>1 DEF C!set_name
  <2>2. RcvdInv' /\ NameInv' /\ StartInv'
    BY Machines DEF RcvdInv, NameInv, StartInv, Ready, Shows, MissedByM0, AllNamed, AllReady, ClosingInv
  <2>3. VerdictInv' /\ ClosingInv' /\ RecordedInv'
    BY DEF VerdictInv, ClosingInv, RecordedInv, Calm, Judged, Ready
  <2>4. HeardInv' /\ BehindInv'
    BY DEF HeardInv, BehindInv, Heard, Calm, Judged, Ready, Played
  <2>. QED  BY <2>2, <2>3, <2>4
<1>5. CASE Told(m, "st", 0) /\ C!set_is_working(m)
  <2>1. Starts /\ ~Names /\ ~Results /\ ~Verdicts /\ ~Closing
    BY <1>5 DEF Starts, OneKind, ClosingInv
  <2>. USE <1>5, <2>1 DEF C!set_is_working
  <2>2. RcvdInv' /\ NameInv' /\ StartInv'
    BY Machines DEF RcvdInv, NameInv, StartInv, Ready, Shows, MissedByM0, AllNamed, AllReady
  <2>3. VerdictInv' /\ ClosingInv' /\ RecordedInv'
    BY DEF VerdictInv, ClosingInv, RecordedInv, RcvdInv
  <2>4. HeardInv' /\ BehindInv'
    BY DEF HeardInv, BehindInv, Heard
  <2>. QED  BY <2>2, <2>3, <2>4
<1>6. ASSUME NEW t \in AllTimes, Told(m, "re", t), C!set_result(m, t)
      PROVE  ProtocolInv'
  <2>1. Results /\ Shows(m) /\ t = result[m] /\ ~Names /\ ~Starts /\ ~Verdicts /\ ~Closing
    BY <1>6 DEF Results, OneKind, Answers, ClosingInv
  <2>. USE <1>6, <2>1 DEF C!set_result
  <2>2. RcvdInv' /\ NameInv' /\ StartInv'
    BY Machines DEF RcvdInv, NameInv, StartInv, Ready, Shows, MissedByM0, AllNamed, AllReady
  <2>3. VerdictInv' /\ ClosingInv' /\ RecordedInv'
    BY DEF VerdictInv, ClosingInv, RecordedInv, Judged
  <2>4. HeardInv' /\ BehindInv'
    BY DEF HeardInv, BehindInv, Heard, Shows, Played
  <2>. QED  BY <2>2, <2>3, <2>4
<1>. QED  BY <1>1, <1>4, <1>5, <1>6

----------------------------------------------------------------------------
(* The game threads.                                                       *)

\* A name is entered, a button pressed in time or too late.
LEMMA PlayerStep ==
  ASSUME IInv, NEW m \in Machine, EnterName(m) \/ Press(m) \/ TimeOut(m)
  PROVE  ProtocolInv'
<1>. USE DEF IInv, TypedInv, TypeOK
<1>1. UNCHANGED <<master, net, recorded>> /\ Net' \subseteq Net
  BY DEF EnterName, Press, TimeOut, Net
<1>2. /\ Fewer
      /\ \A n \in Machine : \A a : Asked(n, a)' => Asked(n, a)
      /\ \A n \in Machine : \A k, t : Told(n, k, t)' => Told(n, k, t)
  BY <1>1, FewerNet
<1>3. /\ phase[m] \in {"naming", "racing"} /\ phase[m]' \in {"waiting", "timed", "late"}
      /\ phase[m] = "naming" <=> phase[m]' = "waiting"
      /\ state[m]' = IF phase[m] = "naming" THEN "NAME_READY" ELSE state[m]
      /\ \A n \in Machine \ {m} : UNCHANGED <<phase[n], state[n], result[n]>>
      /\ phase[m]' # "timed" => UNCHANGED result
  BY DEF EnterName, Press, TimeOut, B!EnterName, B!Measure, B!TimeOut, B!Move, B!Write, B!TypeOK
<1>. USE <1>1, <1>2, <1>3, Machines DEF ProtocolInv, Fewer, Ready, Shows, Closing, master, Played
<1>4. OneKind' /\ Answers'
  BY DEF OneKind, Answers
<1>5. RcvdInv' /\ NameInv' /\ StartInv'
  BY DEF RcvdInv, NameInv, StartInv, AllNamed, AllReady, MissedByM0
<1>6. VerdictInv' /\ ClosingInv' /\ RecordedInv'
  BY DEF VerdictInv, ClosingInv, RecordedInv, Calm, Judged
<1>7. HeardInv' /\ BehindInv'
  BY DEF HeardInv, BehindInv, Heard, Calm, Judged, ClosingInv, RecordedInv
<1>. QED  BY <1>4, <1>5, <1>6, <1>7

\* A board leaves its race without a result: on M0, the client's states and then its
\* texts are reset under it.
LEMMA FailStep ==
  ASSUME IInv, NEW m \in Machine, DropClient(m) \/ Fail(m)
  PROVE  ProtocolInv'
<1>. USE DEF IInv, TypedInv, TypeOK
<1>1. UNCHANGED <<net, recorded, mpc, winner, result>> /\ Net' \subseteq Net
  BY DEF DropClient, Fail, Net, master, B!DropClient, B!Fail, C!GameClearsStates,
         C!GameClearsStrings
<1>2. /\ Fewer
      /\ \A n \in Machine : \A a : Asked(n, a)' => Asked(n, a)
      /\ \A n \in Machine : \A k, t : Told(n, k, t)' => Told(n, k, t)
  BY <1>1, FewerNet
<1>3. /\ phase[m] \in {"late", "dropping"} /\ phase[m]' \in {"dropping", "over"}
      /\ state[m]' \in {state[m], "FAILED"}
      /\ \A n \in Machine \ {m} : UNCHANGED <<phase[n], state[n]>>
  BY DEF DropClient, Fail, B!DropClient, B!Fail, B!Move, B!Write, B!TypeOK
<1>4. \/ UNCHANGED <<cst, res>>
      \/ phase[m] = "late" /\ m = M0 /\ UNCHANGED res /\ \A n \in Machine : cst[n]' = "WAITING"
      \/ phase[m]' = "over" /\ m = M0 /\ UNCHANGED cst
  BY DEF DropClient, Fail, B!DropClient, B!Fail, B!Move, B!TypeOK, master, C!GameClearsStates,
         C!GameClearsStrings, C!ClearStates, C!ClearStrings, C!Machine, Machine
<1>. USE <1>1, <1>2, <1>3, <1>4, Machines
     DEF ProtocolInv, Fewer, Ready, Shows, Closing, Played
<1>5. OneKind' /\ Answers'
  BY DEF OneKind, Answers
<1>6. RcvdInv' /\ NameInv' /\ StartInv'
  BY DEF RcvdInv, NameInv, StartInv, AllNamed, AllReady, MissedByM0
<1>7. VerdictInv' /\ ClosingInv' /\ RecordedInv'
  BY DEF VerdictInv, ClosingInv, RecordedInv, Calm, Judged
<1>8. HeardInv' /\ BehindInv'
  BY DEF HeardInv, BehindInv, Heard, Calm, Judged
<1>. QED  BY <1>5, <1>6, <1>7, <1>8

\* A race begins: the game before is over for both boards.
LEMMA GoStep ==
  ASSUME IInv, NEW m \in Machine, Go(m)
  PROVE  ProtocolInv'
<1>. USE DEF IInv, TypedInv, TypeOK
<1>1. UNCHANGED <<master, net, state, result>> /\ recorded' = FALSE /\ Net' \subseteq Net
  BY DEF Go, B!Go, Net
<1>2. /\ Fewer
      /\ \A n \in Machine : \A a : Asked(n, a)' => Asked(n, a)
      /\ \A n \in Machine : \A k, t : Told(n, k, t)' => Told(n, k, t)
  BY <1>1, FewerNet
<1>3. /\ phase[m] = "waiting" /\ phase[m]' = "racing" /\ state[m] = "START_GAME"
      /\ \A n \in Machine \ {m} : UNCHANGED phase[n]
  BY DEF Go, B!Go, B!Move, B!TypeOK
<1>. USE <1>1, <1>2, <1>3, Machines DEF ProtocolInv, Fewer, Ready, Shows, Closing, master, Played
<1>4. OneKind' /\ Answers'
  BY DEF OneKind, Answers
<1>5. RcvdInv' /\ NameInv' /\ StartInv'
  BY DEF RcvdInv, NameInv, StartInv, AllNamed, AllReady, MissedByM0
<1>6. VerdictInv' /\ ClosingInv' /\ RecordedInv'
  BY DEF VerdictInv, ClosingInv, RecordedInv, Calm, Judged
<1>7. HeardInv' /\ BehindInv'
  BY DEF HeardInv, BehindInv, Heard, Calm, ClosingInv, B!Verdict
<1>. QED  BY <1>4, <1>5, <1>6, <1>7

\* The other steps of a game thread: a new round, the result, the verdict, the
\* animation.
LEMMA AdvanceStep ==
  ASSUME IInv, NEW m \in Machine, Advance(m)
  PROVE  ProtocolInv'
<1>. USE DEF IInv, TypedInv, TypeOK
<1>1. UNCHANGED <<master, net, recorded, result>> /\ Net' \subseteq Net
  BY DEF Advance, B!NextRound, B!Report, B!SeeVerdict, B!Animate, Net
<1>2. /\ Fewer
      /\ \A n \in Machine : \A a : Asked(n, a)' => Asked(n, a)
      /\ \A n \in Machine : \A k, t : Told(n, k, t)' => Told(n, k, t)
  BY <1>1, FewerNet
<1>3. \A n \in Machine \ {m} : UNCHANGED <<phase[n], state[n]>>
  BY DEF Advance, B!NextRound, B!Report, B!SeeVerdict, B!Animate, B!Move, B!Write, B!TypeOK
<1>. USE <1>1, <1>2, <1>3, Machines DEF ProtocolInv, Fewer, Ready, Shows, Closing, master, Played
<1>4. CASE B!NextRound(m)
  <2>1. /\ phase[m] \in {"over", "winning", "losing"} /\ phase[m]' = "naming"
        /\ state[m]' = "INIT"
    BY <1>4 DEF B!NextRound, B!Write, B!TypeOK
  <2>. USE <2>1
  <2>2. OneKind' /\ Answers'
    BY DEF OneKind, Answers
  <2>3. RcvdInv' /\ NameInv' /\ StartInv'
    BY DEF RcvdInv, NameInv, StartInv, AllNamed, AllReady, MissedByM0
  <2>4. VerdictInv' /\ ClosingInv' /\ RecordedInv'
    BY DEF VerdictInv, ClosingInv, RecordedInv, Calm, Judged
  <2>5. HeardInv' /\ BehindInv'
    BY DEF HeardInv, BehindInv, Heard, Calm, Judged
  <2>. QED  BY <2>2, <2>3, <2>4, <2>5
<1>5. CASE B!Report(m)
  <2>1. phase[m] = "timed" /\ phase[m]' = "reported" /\ state[m]' = "GET_RESULT"
    BY <1>5 DEF B!Report, B!Move, B!Write, B!TypeOK
  <2>. USE <2>1
  <2>2. OneKind' /\ Answers'
    BY DEF OneKind, Answers
  <2>3. RcvdInv' /\ NameInv' /\ StartInv'
    BY DEF RcvdInv, NameInv, StartInv, AllNamed, AllReady, MissedByM0
  <2>4. VerdictInv' /\ ClosingInv' /\ RecordedInv'
    BY DEF VerdictInv, ClosingInv, RecordedInv, Calm, Judged
  <2>5. HeardInv' /\ BehindInv'
    BY DEF HeardInv, BehindInv, Heard, Calm, Judged, RecordedInv, B!Verdict
  <2>. QED  BY <2>2, <2>3, <2>4, <2>5
<1>6. CASE B!SeeVerdict(m) \/ B!Animate(m)
  <2>1. /\ state' = state
        /\ \/ phase[m] = "reported" /\ phase[m]' = "told" /\ state[m] \in B!Verdict
           \/ phase[m] = "told" /\ phase[m]' = IF state[m] = "WINNER" THEN "winning" ELSE "losing"
    BY <1>6 DEF B!SeeVerdict, B!Animate, B!Move, B!TypeOK
  <2>. USE <2>1 DEF B!Verdict
  <2>2. OneKind' /\ Answers'
    BY DEF OneKind, Answers
  <2>3. RcvdInv' /\ NameInv' /\ StartInv'
    BY DEF RcvdInv, NameInv, StartInv, AllNamed, AllReady, MissedByM0
  <2>4. VerdictInv' /\ ClosingInv' /\ RecordedInv'
    BY DEF VerdictInv, ClosingInv, RecordedInv, HeardInv, Heard, Calm, Judged
  <2>5. HeardInv' /\ BehindInv'
    BY DEF HeardInv, BehindInv, Heard, Calm, Judged
  <2>. QED  BY <2>2, <2>3, <2>4, <2>5
<1>. QED  BY <1>4, <1>5, <1>6 DEF Advance

----------------------------------------------------------------------------
(* The client thread.                                                      *)

\* When the client wakes up, nothing is under way.
LEMMA Silence ==
  ASSUME Environment, Awake
  PROVE  Net = {} /\ ~Names /\ ~Starts /\ ~Results /\ ~Verdicts
<1>1. Net = {}
  BY BagEmpty DEF Environment, Awake, Net
<1>. QED  BY <1>1 DEF Names, Starts, Results, Verdicts, Asked, Told

\* The comparison is made between the results the boards show, and finds a winner.
LEMMA Comparison ==
  ASSUME Environment, IInv, C!Compare, UNCHANGED board
  PROVE  /\ mpc = "poll" /\ mpc' = "verdict" /\ \A n \in Machine : cst[n] = "RCVD_RESULT"
         /\ Judged' /\ \A n \in Machine : Shows(n)
         /\ ~Starts /\ ~Verdicts
<1>. USE DEF IInv, TypedInv, ProtocolInv
<1>1. /\ mpc = "poll" /\ \A n \in Machine : cst[n] = "RCVD_RESULT"
      /\ \/ res[M0] < res[M1] /\ winner' = M0 /\ mpc' = "verdict"
         \/ res[M0] > res[M1] /\ winner' = M1 /\ mpc' = "verdict"
         \/ res[M0] >= res[M1] /\ res[M0] <= res[M1]
  BY DEF C!Compare, C!Reads, C!AllAre, C!Machine, Machine, Environment
<1>2. /\ \A n \in Machine : Shows(n) /\ res[n] = result[n]
      /\ ~Starts /\ ~Verdicts
  BY <1>1, Machines DEF RcvdInv, MissedByM0, Shows, Closing
<1>3. result[M0] \in Times[M0] /\ result[M1] \in Times[M1]
  BY <1>2, Machines DEF BoardInv, Shows, Played
<1>4. result[M0] # result[M1] /\ result[M0] \in Nat /\ result[M1] \in Nat
  BY <1>3, Machines, TimesAssumption DEF Environment, TimesAssumption
<1>5. mpc' = "verdict" /\ Judged'
  BY <1>1, <1>2, <1>4, Machines DEF Judged, Other, board
<1>. QED  BY <1>1, <1>2, <1>5

\* The next look and the choice of the branch.
LEMMA ChooseStep ==
  ASSUME Environment, IInv, Choose \/ LookAgain \/ Rest
  PROVE  ProtocolInv'
<1>. USE DEF IInv, TypedInv, TypeOK
<1>1. UNCHANGED <<board, net, recorded, cst, res>> /\ Net' \subseteq Net
  BY DEF Choose, LookAgain, Rest, Net, C!ChooseNames, C!ChooseStart, C!ChooseResults, C!Compare,
         C!Spin, C!LookAgain, C!Rest, C!client
<1>2. /\ Fewer
      /\ \A n \in Machine : \A a : Asked(n, a)' => Asked(n, a)
      /\ \A n \in Machine : \A k, t : Told(n, k, t)' => Told(n, k, t)
  BY <1>1, FewerNet
<1>. USE <1>1, <1>2, Machines DEF ProtocolInv, Fewer, Ready, Shows, Closing, board, Played
<1>3. CASE Rest \/ LookAgain
  <2>1. mpc \in {"rest", "spin"} /\ mpc' = "poll" /\ winner' = winner
    BY <1>3 DEF Rest, LookAgain, C!Rest, C!LookAgain, C!Goto
  <2>2. mpc = "rest" => ~Names /\ ~Starts /\ ~Results /\ ~Verdicts
    BY <1>3, Silence DEF Rest, LookAgain, C!LookAgain, C!Goto
  <2>. USE <2>1, <2>2
  <2>3. OneKind' /\ Answers'
    BY DEF OneKind, Answers
  <2>4. RcvdInv' /\ NameInv' /\ StartInv'
    BY DEF RcvdInv, NameInv, StartInv, AllNamed, AllReady, MissedByM0, ClosingInv
  <2>5. VerdictInv' /\ ClosingInv' /\ RecordedInv'
    BY DEF VerdictInv, ClosingInv, RecordedInv, Calm, Judged
  <2>6. HeardInv' /\ BehindInv'
    BY DEF HeardInv, BehindInv, Heard, Calm, Judged, ClosingInv
  <2>. QED  BY <2>3, <2>4, <2>5, <2>6
<1>4. CASE C!ChooseNames \/ C!ChooseStart \/ C!ChooseResults \/ C!Spin
  <2>1. /\ mpc = "poll" /\ winner' = winner
        /\ \/ mpc' = "askName" /\ \E n \in Machine : cst[n] = "WAITING"
           \/ mpc' = "askStart" /\ AllNamed
           \/ mpc' = "askResult" /\ (\A n \in Machine : cst[n] # "WAITING")
                                 /\ \E n \in Machine : cst[n] = "IS_WORKING"
           \/ mpc' = "spin" /\ \A n \in Machine : cst[n] # "WAITING"
    BY <1>4 DEF C!ChooseNames, C!ChooseStart, C!ChooseResults, C!Spin, C!Goto, C!AnyIs,
                C!AllAre, C!Machine, Machine, AllNamed
  <2>. USE <2>1
  <2>2. OneKind' /\ Answers'
    BY DEF OneKind, Answers
  <2>3. RcvdInv' /\ NameInv' /\ StartInv'
    BY DEF RcvdInv, NameInv, StartInv, AllNamed, AllReady, MissedByM0
  <2>4. VerdictInv' /\ ClosingInv' /\ RecordedInv'
    BY DEF VerdictInv, ClosingInv, RecordedInv, Calm, Judged
  <2>5. HeardInv' /\ BehindInv'
    BY DEF HeardInv, BehindInv, Heard, Calm, Judged, AllNamed
  <2>. QED  BY <2>2, <2>3, <2>4, <2>5
<1>5. CASE C!Compare
  <2>1. /\ mpc = "poll" /\ mpc' = "verdict" /\ \A n \in Machine : cst[n] = "RCVD_RESULT"
        /\ Judged' /\ \A n \in Machine : Shows(n)
        /\ ~Starts /\ ~Verdicts
    BY <1>5, Comparison DEF Choose
  <2>2. ~recorded
    BY <2>1 DEF BehindInv
  <2>3. \A n \in Machine : ~Heard(n)
    BY <2>1, <2>2 DEF HeardInv
  <2>. USE <2>1, <2>2, <2>3
  <2>4. OneKind' /\ Answers'
    BY DEF OneKind, Answers, Verdicts
  <2>5. RcvdInv' /\ NameInv' /\ StartInv'
    BY <1>5 DEF RcvdInv, NameInv, StartInv, AllNamed, AllReady, MissedByM0
  <2>6. VerdictInv' /\ ClosingInv' /\ RecordedInv'
    BY DEF VerdictInv, ClosingInv, RecordedInv
  <2>7. HeardInv' /\ BehindInv'
    BY DEF HeardInv, BehindInv, Heard, B!Verdict
  <2>. QED  BY <2>4, <2>5, <2>6, <2>7
<1>. QED  BY <1>3, <1>4, <1>5 DEF Choose

\* A batch goes out when the one before is gone, whatever the states say by now.
LEMMA SendKinds ==
  ASSUME Environment, IInv, SendBatch
  PROVE  /\ \/ mpc \in {"askName", "askStart", "askResult"} /\ mpc' = "poll"
            \/ mpc = "verdict" /\ mpc' = "record"
         /\ UNCHANGED <<board, recorded, cst, res, winner>>
         /\ Names' => mpc = "askName"
         /\ Starts' => mpc = "askStart"
         /\ Results' => mpc = "askResult"
         /\ Verdicts' => mpc = "verdict"
         /\ \A n \in Machine :
              /\ Asked(n, "winner")' => n = winner
              /\ Asked(n, "looser")' => n # winner
              /\ \A k, t : ~Told(n, k, t)'
<1>. USE DEF IInv, TypedInv, TypeOK
<1>1. Net = {}
  BY Silence DEF SendBatch
<1>2. Net' \subseteq {[to |-> m, ask |-> C!Ask(m)] : m \in Machine}
  BY <1>1, ClientNet
<1>3. /\ \/ mpc \in {"askName", "askStart", "askResult"} /\ mpc' = "poll"
         \/ mpc = "verdict" /\ mpc' = "record"
      /\ UNCHANGED <<board, recorded, cst, res, winner>>
  BY DEF SendBatch, C!SendBatch, C!Goto, C!client
<1>4. \A n \in Machine :
        /\ mpc = "askName" => C!Ask(n) = "name"
        /\ mpc = "askStart" => C!Ask(n) = "start"
        /\ mpc = "askResult" => C!Ask(n) = "result"
        /\ mpc = "verdict" => C!Ask(n) = IF n = winner THEN "winner" ELSE "looser"
  BY DEF C!Ask
<1>5. /\ \A n \in Machine : \A a : Asked(n, a)' => a = C!Ask(n)
      /\ \A n \in Machine : \A k, t : ~Told(n, k, t)'
  BY <1>2 DEF Asked, Told
<1>6. /\ Names' => mpc = "askName"
      /\ Starts' => mpc = "askStart"
      /\ Results' => mpc = "askResult"
      /\ Verdicts' => mpc = "verdict"
  BY <1>3, <1>4, <1>5 DEF Names, Starts, Results, Verdicts
<1>7. \A n \in Machine :
        /\ Asked(n, "winner")' => n = winner
        /\ Asked(n, "looser")' => n # winner
  BY <1>3, <1>4, <1>5
<1>. QED  BY <1>3, <1>5, <1>6, <1>7

\* Sending a batch keeps what IInv says of the protocol.
LEMMA SendStep ==
  ASSUME Environment, IInv, SendBatch
  PROVE  ProtocolInv'
<1>. USE DEF IInv, TypedInv, TypeOK
<1>1. ~Names /\ ~Starts /\ ~Results /\ ~Verdicts
  BY Silence DEF SendBatch
<1>. USE <1>1, SendKinds, Machines DEF ProtocolInv, Ready, Shows, Closing, board, Played
<1>2. OneKind' /\ Answers'
  BY DEF OneKind, Answers
<1>3. RcvdInv' /\ NameInv' /\ StartInv'
  BY DEF RcvdInv, NameInv, StartInv, AllNamed, AllReady, MissedByM0, VerdictInv
<1>4. VerdictInv' /\ ClosingInv' /\ RecordedInv'
  BY DEF VerdictInv, ClosingInv, RecordedInv, HeardInv, Heard, RcvdInv, Calm, Judged
<1>5. HeardInv' /\ BehindInv'
  BY DEF HeardInv, BehindInv, Heard, Calm, Judged
<1>. QED  BY <1>2, <1>3, <1>4, <1>5

\* The game is entered in the lists, and what the client holds is reset.
LEMMA CloseStep ==
  ASSUME IInv, Record \/ Reset
  PROVE  ProtocolInv'
<1>. USE DEF IInv, TypedInv, TypeOK
<1>1. UNCHANGED <<board, net, winner>> /\ Net' \subseteq Net
  BY DEF Record, Reset, C!Record, C!ResetStates, C!ResetStrings, Net
<1>2. /\ Fewer
      /\ \A n \in Machine : \A a : Asked(n, a)' => Asked(n, a)
      /\ \A n \in Machine : \A k, t : Told(n, k, t)' => Told(n, k, t)
  BY <1>1, FewerNet
<1>3. \/ mpc = "record" /\ mpc' = "resetStates" /\ recorded' = TRUE /\ cst' = cst
      \/ mpc = "resetStates" /\ mpc' = "resetStrings" /\ recorded' = recorded
         /\ \A n \in Machine : cst'[n] = "WAITING"
      \/ mpc = "resetStrings" /\ mpc' = "rest" /\ recorded' = recorded /\ cst' = cst
  BY DEF Record, Reset, C!Record, C!ResetStates, C!ResetStrings, C!Goto, C!client,
         C!ClearStates, C!ClearStrings, C!Machine, Machine
<1>. USE <1>1, <1>2, <1>3, Machines DEF ProtocolInv, Fewer, Ready, Shows, Closing, board, Played
<1>4. OneKind' /\ Answers'
  BY DEF OneKind, Answers
<1>5. RcvdInv' /\ NameInv' /\ StartInv'
  BY DEF RcvdInv, NameInv, StartInv, AllNamed, AllReady, ClosingInv
<1>6. VerdictInv' /\ ClosingInv' /\ RecordedInv'
  BY DEF VerdictInv, ClosingInv, RecordedInv, Calm, Judged
<1>7. HeardInv' /\ BehindInv'
  BY DEF HeardInv, BehindInv, Heard
<1>. QED  BY <1>4, <1>5, <1>6, <1>7

----------------------------------------------------------------------------
(* The invariant and what follows from it.                                 *)

\* IInv holds at power-on.
LEMMA InitIInv == Init => IInv
<1>. SUFFICES ASSUME Init PROVE IInv
  OBVIOUS
<1>1. Net = {} /\ ~Names /\ ~Starts /\ ~Results /\ ~Verdicts
  BY BagEmpty DEF Init, Net, Names, Starts, Results, Verdicts, Asked, Told
<1>2. ProtocolInv
  BY <1>1, Machines
  DEF Init, B!Init, C!Init, C!Machine, Machine, ProtocolInv, OneKind, Answers, Asked, Told,
      RcvdInv, NameInv, StartInv, VerdictInv, ClosingInv, RecordedInv, HeardInv, BehindInv,
      Heard, Closing
<1>. QED  BY <1>2, InitTyped DEF IInv

\* The inductive step: one action at a time.
LEMMA StepIInv == ASSUME Environment, IInv, [Next]_vars PROVE IInv'
<1>. SUFFICES ProtocolInv'
  BY TypedStep DEF IInv
<1>2. ASSUME NEW m \in Machine, Server(m) PROVE ProtocolInv'
  <2>1. CASE HandleName(m) \/ HandleResult(m)
    BY <2>1, NetStep, Machines DEF HandleName, HandleResult
  <2>. QED  BY <1>2, <2>1, HandleStartStep, HandleVerdictStep DEF Server
<1>3. ASSUME NEW m \in Machine,
             HandleResponse(m) \/ EnterName(m) \/ Press(m) \/ TimeOut(m) \/ System(m)
      PROVE  ProtocolInv'
  BY <1>3, HandleResponseStep, PlayerStep, FailStep, GoStep, AdvanceStep DEF System
<1>4. CASE Client \/ LookAgain
  BY <1>4, SendStep, ChooseStep, CloseStep DEF Client
<1>5. CASE Lose
  BY <1>5, NetStep DEF Lose
<1>6. CASE UNCHANGED vars
  BY <1>6, NetStep DEF vars
<1>. QED  BY <1>2, <1>3, <1>4, <1>5, <1>6 DEF Next, Named, Raced

\* The whole invariant holds of every run in a prompt network, with lost datagrams,
\* hasty people and missed races.
THEOREM Invariance ==
  ASSUME Environment
  PROVE  Spec => []IInv
<1>1. IInv /\ [Next]_vars => IInv'
  BY StepIInv
<1>. QED  BY <1>1, InitIInv, PTL DEF Spec

\* Whoever plays the winner's animation was the faster player of this game, and the
\* other board plays the loser's: coap_client.c 204-231 compares the results the two
\* boards show, the verdicts reach those games, and game.c 203-218 reads them twice.
THEOREM FasterWinsHolds ==
  ASSUME Environment
  PROVE  Spec => []FasterWins
<1>1. IInv => FasterWins
  <2>. SUFFICES ASSUME IInv, NEW m \in Machine
                PROVE  /\ phase[m] = "winning" => result[m] < result[Other(m)]
                       /\ phase[m] = "losing" => result[m] > result[Other(m)]
    BY DEF FasterWins
  <2>1. \A n \in Machine : result[n] \in Nat
    BY DEF IInv, TypedInv, TypeOK, B!TypeOK
  <2>2. phase[m] \in {"winning", "losing"} => Judged
    BY DEF IInv, ProtocolInv, HeardInv, Heard, BehindInv, ClosingInv, Closing, Played
  <2>3. /\ phase[m] = "winning" => winner = m
        /\ phase[m] = "losing" => winner = Other(m)
    BY Machines DEF IInv, TypedInv, TypeOK, C!TypeOK, C!Machine, Machine, ProtocolInv, HeardInv
  <2>. QED  BY <2>1, <2>2, <2>3, Machines DEF Judged
<1>. QED  BY <1>1, Invariance, PTL

\* Only set_entry_counter() moves the place of the next entry.
LEMMA OnlyRecordCounts == Next /\ entry_counter' # entry_counter => Record
BY DEF Next, Named, Raced, Server, HandleName, HandleResult, HandleStart, HandleVerdict, HandleResponse,
       EnterName, Press, TimeOut, System, Go, Advance, DropClient, Fail, Client, SendBatch,
       Rest, Choose, Reset, LookAgain, Lose, master, C!ChooseNames, C!ChooseStart,
       C!ChooseResults, C!Compare, C!Spin, C!LookAgain, C!SendBatch, C!ResetStates,
       C!ResetStrings, C!Rest, C!GameClearsStates, C!GameClearsStrings, C!set_name,
       C!set_is_working, C!set_result, C!highscore

\* A game is entered in the highscore lists once: between two entries a board starts
\* a race (coap_client.c 241-252).
THEOREM OneEntryPerGameHolds ==
  ASSUME Environment
  PROVE  Spec => OneEntryPerGame
<1>1. IInv /\ [Next]_vars => [entry_counter' # entry_counter => ~recorded]_vars
  BY OnlyRecordCounts DEF Record, C!Record, C!Goto, IInv, ProtocolInv, RecordedInv
<1>. QED  BY <1>1, Invariance, PTL DEF Spec, OneEntryPerGame

----------------------------------------------------------------------------
(* As long as every player presses in time the boards are in one game.     *)

\* What the client holds or asks for is about the game both boards are in.
GameInv ==
  /\ \A m \in Machine :
       /\ phase[m] \notin {"late", "dropping"}
       /\ cst[m] # "WAITING" => named[m] = TRUE
       /\ cst[m] # "WAITING" /\ ~Closing =>
            phase[m] \in {"waiting", "racing", "timed", "reported"}
       /\ mpc = "record" => res[m] = result[m]
  /\ \/ Starts \/ Results
     \/ mpc \in {"askStart", "askResult"}
     \/ \E m \in Machine : state[m] = "START_GAME"
     => ~Closing /\ \A m \in Machine : cst[m] # "WAITING"

\* An answer is no request, and belongs to a request that was there.
LEMMA ServerAnswers ==
  ASSUME IInv, NEW m \in Machine, Server(m) \/ Lose
  PROVE  Fewer /\ \A n \in Machine : \A a : Asked(n, a)' => Asked(n, a)
<1>. USE DEF IInv, TypedInv, TypeOK
<1>1. NetOK
  BY DEF NetOK, Net
<1>. DEFINE na == {[from |-> m, tells |-> "na", time |-> 0] : s \in {state[m]} \cap {"NAME_READY"}}
            st == {[from |-> m, tells |-> "st", time |-> 0]}
            re == {[from |-> m, tells |-> "re", time |-> result[m]] :
                     s \in {state[m]} \cap {"GET_RESULT"}}
<1>2. na \subseteq Response /\ st \subseteq Response
  BY DEF Response
<1>3. re \subseteq Response
  <2>1. state[m] = "GET_RESULT" => result[m] \in AllTimes
    BY DEF BoardInv, Played, AllTimes
  <2>. QED  BY <2>1 DEF Response
<1>4. \/ Asked(m, "name") /\ Net' \subseteq Net \cup na
      \/ Asked(m, "start") /\ Net' \subseteq Net \cup st
      \/ Asked(m, "result") /\ Net' \subseteq Net \cup re
      \/ Net' \subseteq Net
  <2>. HIDE DEF na, st, re
  <2>1. CASE HandleName(m)
    BY <1>1, <1>2, <2>1, TakenAndAnswered DEF HandleName, Asked, na
  <2>2. CASE HandleStart(m)
    BY <1>1, <1>2, <2>2, TakenAndAnswered DEF HandleStart, Asked, st
  <2>3. CASE HandleResult(m)
    BY <1>1, <1>3, <2>3, TakenAndAnswered DEF HandleResult, Asked, re
  <2>4. CASE HandleVerdict(m) \/ Lose
    BY <1>1, <2>4, Taken DEF HandleVerdict, Lose
  <2>. QED  BY <2>1, <2>2, <2>3, <2>4 DEF Server
<1>5. \A n \in Machine : \A a : Asked(n, a)' => Asked(n, a)
  BY <1>4 DEF Asked
<1>6. \A n \in Machine : \A t :
        /\ Told(n, "na", t)' => Told(n, "na", t) \/ Asked(m, "name")
        /\ Told(n, "st", t)' => Told(n, "st", t) \/ Asked(m, "start")
        /\ Told(n, "re", t)' => Told(n, "re", t) \/ Asked(m, "result")
  BY <1>4 DEF Told
<1>. QED  BY <1>5, <1>6 DEF Fewer, Names, Starts, Results, Verdicts

\* A handled request keeps GameInv.
LEMMA ServerGame ==
  ASSUME IInv, GameInv, NEW m \in Machine, Server(m) \/ Lose
  PROVE  GameInv'
<1>1. UNCHANGED <<phase, result, master>> /\ Fewer
  BY ServerAnswers
  DEF Server, HandleName, HandleResult, HandleStart, HandleVerdict, Lose, board, B!StartGame,
      B!SetWinner, B!SetLooser
<1>2. \A n \in Machine : state'[n] = "START_GAME" => state[n] = "START_GAME" \/ Starts
  <2>1. HandleStart(m) => Starts
    BY DEF HandleStart, TakeAndAnswer, BagIn, Starts, Asked, Net
  <2>. QED
    BY <2>1 DEF Server, HandleName, HandleResult, HandleStart, HandleVerdict, Lose, board,
       B!SetWinner, B!SetLooser, B!Write, B!TypeOK, IInv, TypedInv, TypeOK
<1>. QED  BY <1>1, <1>2 DEF Fewer, GameInv, master, Closing

\* A handled response keeps GameInv.
LEMMA ResponseGame ==
  ASSUME IInv, GameInv, NEW m \in Machine, HandleResponse(m)
  PROVE  GameInv'
<1>. USE DEF IInv, TypedInv, TypeOK, ProtocolInv
<1>1. /\ Net' \subseteq Net /\ UNCHANGED <<board, recorded>>
      /\ \/ Told(m, "na", 0) /\ C!set_name(m)
         \/ Told(m, "st", 0) /\ C!set_is_working(m)
         \/ \E t \in AllTimes : Told(m, "re", t) /\ C!set_result(m, t)
  BY ResponseNet DEF HandleResponse, Told
<1>2. Fewer
  BY <1>1, FewerNet
<1>3. UNCHANGED <<mpc, phase, state, result>>
  BY <1>1 DEF board, C!set_name, C!set_is_working, C!set_result
<1>. USE <1>2, <1>3 DEF Fewer, GameInv, Closing, C!TypeOK, C!Machine, Machine
<1>4. CASE Told(m, "na", 0) /\ C!set_name(m)
  <2>1. Ready(m)
    BY <1>4 DEF Answers
  <2>2. /\ named'[m] = TRUE /\ cst'[m] = "HAS_NAME" /\ res' = res
        /\ \A n \in Machine \ {m} : cst'[n] = cst[n] /\ named'[n] = named[n]
    BY <1>4 DEF C!set_name
  <2>. QED  BY <2>1, <2>2 DEF Ready
<1>5. CASE Told(m, "st", 0) /\ C!set_is_working(m)
  <2>1. Starts
    BY <1>5 DEF Starts
  <2>. QED  BY <1>5, <2>1 DEF C!set_is_working
<1>6. ASSUME NEW t \in AllTimes, Told(m, "re", t), C!set_result(m, t)
      PROVE  GameInv'
  <2>1. Results
    BY <1>6 DEF Results
  <2>. QED  BY <1>6, <2>1 DEF C!set_result
<1>. QED  BY <1>1, <1>4, <1>5, <1>6

\* A step of a board's game thread keeps GameInv.
LEMMA BoardGame ==
  ASSUME IInv, GameInv, NEW m \in Machine, EnterName(m) \/ Press(m) \/ System(m)
  PROVE  GameInv'
<1>. USE DEF IInv, TypedInv, TypeOK, B!TypeOK, ProtocolInv, GameInv, Closing
<1>1. ~DropClient(m) /\ ~Fail(m)
  BY DEF DropClient, Fail, B!DropClient, B!Fail, B!Move
<1>2. UNCHANGED <<master, net>> /\ Fewer
  <2>1. UNCHANGED <<master, net>>
    BY <1>1 DEF EnterName, Press, System, Go, Advance
  <2>. QED  BY <2>1, FewerNet DEF Net
<1>. USE <1>2 DEF master, Fewer
<1>3. CASE EnterName(m)
  BY <1>3 DEF EnterName, B!EnterName, B!Move, B!Write
<1>4. CASE Press(m)
  <2>1. phase[m] = "racing"
    BY <1>4 DEF Press, B!Measure, B!Move
  <2>2. mpc # "record"
    BY <2>1 DEF ClosingInv, Calm, Played
  <2>. QED  BY <1>4, <2>2 DEF Press, B!Measure, B!Move
<1>5. CASE Go(m)
  BY <1>5 DEF Go, B!Go, B!Move
<1>6. CASE Advance(m)
  <2>1. UNCHANGED result
    BY <1>6 DEF Advance, B!NextRound, B!Report, B!SeeVerdict, B!Animate
  <2>2. CASE B!NextRound(m)
    BY <2>1, <2>2 DEF B!NextRound, B!Write
  <2>3. CASE B!Report(m)
    BY <2>1, <2>3 DEF B!Report, B!Move, B!Write
  <2>4. CASE B!SeeVerdict(m)
    <3>1. cst[m] = "WAITING" \/ Closing
      BY <2>4 DEF B!SeeVerdict, B!Move, HeardInv, Heard, BehindInv, Played
    <3>. QED  BY <2>1, <2>4, <3>1 DEF B!SeeVerdict, B!Move
  <2>5. CASE B!Animate(m)
    BY <2>1, <2>5 DEF B!Animate, B!Move
  <2>. QED  BY <1>6, <2>2, <2>3, <2>4, <2>5 DEF Advance
<1>. QED  BY <1>1, <1>3, <1>4, <1>5, <1>6 DEF System

\* A step of the client thread keeps GameInv.
LEMMA ClientGame ==
  ASSUME Environment, IInv, IInv', GameInv, Client \/ LookAgain
  PROVE  GameInv'
<1>. USE DEF IInv, TypedInv, TypeOK, C!TypeOK, C!Machine, Machine, ProtocolInv, GameInv, Closing
<1>1. UNCHANGED board
  BY DEF Client, LookAgain, SendBatch, Rest, Choose, Record, Reset
<1>2. CASE Choose \/ LookAgain \/ Rest
  <2>1. UNCHANGED <<net, cst, named, res>> /\ Fewer
    <3>1. UNCHANGED <<net, cst, named, res>>
      BY <1>2 DEF Choose, LookAgain, Rest, C!ChooseNames, C!ChooseStart, C!ChooseResults,
                  C!Compare, C!Spin, C!LookAgain, C!Rest, C!client
    <3>. QED  BY <3>1, FewerNet DEF Net
  <2>2. mpc' \in {"askName", "askStart", "askResult", "verdict", "poll", "spin"}
    BY <1>1, <1>2, Comparison DEF Choose, LookAgain, Rest, C!ChooseNames, C!ChooseStart,
       C!ChooseResults, C!Spin, C!LookAgain, C!Rest, C!Goto
  <2>3. mpc \in {"poll", "spin", "rest"}
    BY <1>2 DEF Choose, LookAgain, Rest, C!ChooseNames, C!ChooseStart, C!ChooseResults,
                C!Compare, C!Spin, C!LookAgain, C!Rest, C!Goto
  <2>4. mpc = "rest" => mpc' = "poll" /\ \A n \in Machine : cst[n] = "WAITING"
    BY <1>2 DEF Choose, LookAgain, Rest, C!ChooseNames, C!ChooseStart, C!ChooseResults,
                C!Compare, C!Spin, C!LookAgain, C!Rest, C!Goto, ClosingInv
  <2>5. mpc' \in {"askStart", "askResult"} => \A n \in Machine : cst[n] # "WAITING"
    BY <1>2, <2>2 DEF Choose, LookAgain, Rest, C!ChooseNames, C!ChooseStart, C!ChooseResults,
       C!Compare, C!Spin, C!LookAgain, C!Rest, C!Goto, C!AllAre, C!AnyIs
  <2>. QED  BY <1>1, <2>1, <2>2, <2>3, <2>4, <2>5 DEF Fewer, board
<1>3. CASE SendBatch
  <2>1. ~Names /\ ~Starts /\ ~Results /\ ~Verdicts
    BY <1>3, Silence DEF SendBatch
  <2>2. UNCHANGED <<cst, named, res>>
        /\ \/ mpc \in {"askName", "askStart", "askResult"} /\ mpc' = "poll"
           \/ mpc = "verdict" /\ mpc' = "record"
    BY <1>3 DEF SendBatch, C!SendBatch, C!Goto, C!client
  <2>3. (Starts' => mpc = "askStart") /\ (Results' => mpc = "askResult")
    BY <1>3, SendKinds
  <2>4. mpc = "verdict" => \A n \in Machine : Shows(n) /\ res[n] = result[n]
    BY Machines DEF VerdictInv, RcvdInv, MissedByM0, Shows
  <2>. QED  BY <1>1, <2>2, <2>3, <2>4 DEF board, Shows
<1>4. CASE Record \/ Reset
  <2>1. UNCHANGED net /\ Fewer
    BY <1>4, FewerNet DEF Record, Reset, Net
  <2>2. \/ mpc = "record" /\ mpc' = "resetStates" /\ UNCHANGED <<cst, named>>
        \/ mpc = "resetStates" /\ mpc' = "resetStrings"
           /\ \A n \in Machine : cst'[n] = "WAITING"
        \/ mpc = "resetStrings" /\ mpc' = "rest" /\ cst' = cst
    BY <1>4 DEF Record, Reset, C!Record, C!ResetStates, C!ResetStrings, C!Goto, C!client,
                C!ClearStates, C!ClearStrings
  <2>. QED  BY <1>1, <2>1, <2>2 DEF ClosingInv, Fewer, board
<1>. QED  BY <1>2, <1>3, <1>4 DEF Client

\* A missed race is not forgotten.
LEMMA OnlyInTime ==
  ASSUME Next, ~missed'
  PROVE  ~missed /\ \A m \in Machine : ~TimeOut(m)
<1>1. \A m \in Machine : ~TimeOut(m)
  BY DEF TimeOut
<1>2. missed' = missed
  BY <1>1 DEF Next, Named, Raced, Server, HandleName, HandleResult, HandleStart, HandleVerdict,
     HandleResponse, EnterName, Press, System, Go, Advance, DropClient, Fail, Client, SendBatch,
     Rest, Choose, Record, Reset, LookAgain, Lose
<1>. QED  BY <1>1, <1>2

\* As long as nobody has been late, client and boards agree on the game.
THEOREM SameGame ==
  ASSUME Environment
  PROVE  Spec => [](~missed => GameInv)
<1>1. Init => GameInv
  <2>. SUFFICES ASSUME Init PROVE GameInv
    OBVIOUS
  <2>1. Net = {} /\ ~Starts /\ ~Results
    BY BagEmpty DEF Init, Net, Starts, Results, Asked, Told
  <2>. QED  BY <2>1 DEF Init, B!Init, C!Init, C!Machine, Machine, GameInv
<1>2. IInv /\ IInv' /\ (~missed => GameInv) /\ [Next]_vars => (~missed => GameInv)'
  <2>. SUFFICES ASSUME IInv, IInv', ~missed => GameInv, [Next]_vars, ~missed'
                PROVE  GameInv'
    OBVIOUS
  <2>1. CASE UNCHANGED vars
    BY <2>1 DEF vars, board, master, GameInv, Closing, Starts, Results, Asked, Told, Net
  <2>2. CASE Next
    <3>1. GameInv /\ \A m \in Machine : ~TimeOut(m)
      BY <2>2, OnlyInTime
    <3>. QED  BY <2>2, <3>1, Machines, ServerGame, ResponseGame, BoardGame, ClientGame
         DEF Next, Named, Raced
  <2>. QED  BY <2>1, <2>2
<1>. QED  BY <1>1, <1>2, Invariance, PTL DEF Spec

\* Until a race is missed, no board starts one while the other one's player enters a
\* name or has the game behind him: the client decides from both names
\* (coap_client.c 265), and a start that comes early is overwritten by NAME_READY
\* (game.c 163).
THEOREM StartTogetherHolds ==
  ASSUME Environment
  PROVE  Spec => StartTogether
<1>1. IInv /\ (~missed => GameInv) /\ [Next]_vars =>
        [\A m \in Machine :
           ~missed /\ phase[m] = "waiting" /\ phase'[m] = "racing" =>
             phase[Other(m)] \in {"waiting", "racing", "timed", "reported"}]_vars
  <2>. SUFFICES ASSUME IInv, ~missed => GameInv, Next, NEW m \in Machine, ~missed,
                       phase[m] = "waiting", phase'[m] = "racing"
                PROVE  phase[Other(m)] \in {"waiting", "racing", "timed", "reported"}
    OBVIOUS
  <2>1. state[m] = "START_GAME"
    <3>. USE DEF IInv, TypedInv, TypeOK, B!TypeOK
    <3>1. ASSUME NEW n \in Machine, Server(n) \/ HandleResponse(n) PROVE phase' = phase
      BY <3>1 DEF Server, HandleName, HandleResult, HandleStart, HandleVerdict, HandleResponse,
                  board, B!StartGame, B!SetWinner, B!SetLooser
    <3>2. ASSUME NEW n \in Machine, EnterName(n) \/ Press(n) \/ TimeOut(n) \/ System(n)
          PROVE  n = m /\ state[m] = "START_GAME"
      BY <3>2 DEF EnterName, Press, TimeOut, System, Go, Advance, DropClient, Fail, B!NextRound,
              B!EnterName, B!Go, B!Measure, B!Report, B!TimeOut, B!DropClient, B!Fail,
              B!SeeVerdict, B!Animate, B!Move
    <3>3. Client \/ LookAgain \/ Lose => phase' = phase
      BY DEF Client, LookAgain, Lose, SendBatch, Rest, Choose, Record, Reset, board
    <3>. QED  BY <3>1, <3>2, <3>3 DEF Next, Named, Raced
  <2>. QED  BY <2>1, Machines DEF GameInv
<1>. QED  BY <1>1, Invariance, SameGame, PTL DEF Spec, StartTogether

\* Until a race is missed, what enters the highscore lists are the two names and the two times of the game
\* both boards still show (coap_client.c 241, set_entry_counter).
THEOREM EntryOfThisGameHolds ==
  ASSUME Environment
  PROVE  Spec => EntryOfThisGame
<1>1. IInv /\ (~missed => GameInv) /\ [Next]_vars =>
        [~missed /\ entry_counter' # entry_counter =>
           \A m \in Machine : last'[m] = <<TRUE, result[m]>>]_vars
  <2>. SUFFICES ASSUME IInv, ~missed => GameInv, Next, ~missed,
                       entry_counter' # entry_counter, NEW m \in Machine
                PROVE  last'[m] = <<TRUE, result[m]>>
    OBVIOUS
  <2>1. C!Record
    BY OnlyRecordCounts DEF Record
  <2>2. mpc = "record" /\ last'[m] = <<named[m], res[m]>>
    BY <2>1 DEF C!Record, C!Goto, C!Reads, C!Machine, Machine, Environment
  <2>3. cst[m] = "RCVD_RESULT"
    BY <2>2 DEF IInv, ProtocolInv, ClosingInv
  <2>4. named[m] = TRUE /\ res[m] = result[m]
    BY <2>2, <2>3 DEF GameInv
  <2>. QED  BY <2>2, <2>4
<1>. QED  BY <1>1, Invariance, SameGame, PTL DEF Spec, EntryOfThisGame

=============================================================================
