------------------------------ MODULE Reaction ------------------------------
(***************************************************************************)
(* The reaction game: two boards (Board), the game master on M0            *)
(* (GameMaster), and the UDP network between the client and the two        *)
(* servers.                                                                *)
(*                                                                         *)
(* What the code does not decide is a parameter: whether datagrams are     *)
(* lost, whether people and animations are slower than the network,        *)
(* which players may fail to press in time, and whether the texts the      *)
(* response handler stored survive on its stack.                           *)
(***************************************************************************)
EXTENDS Naturals, Bags

CONSTANTS
  M0, M1,
  Times,          \* Times[m]: the reaction times of the player at board m
  FrameReused,    \* see GameMaster
  WrapAt,         \* see GameMaster
  CanLose,        \* the network loses datagrams
  Prompt,         \* nothing is under way any more when the client wakes up
  Hasty,          \* people may act before messages already sent have arrived
  Slow            \* the boards whose player may not press in time

Machine == {M0, M1}

ASSUME BoardsAssumption == M0 # M1 /\ Slow \subseteq Machine
ASSUME TimesAssumption == \A m \in Machine : Times[m] \subseteq Nat \ {0}
ASSUME WrapAssumption == WrapAt \in Nat \ {0}
ASSUME EnvironmentAssumption ==
  {FrameReused, CanLose, Prompt, Hasty} \subseteq BOOLEAN

AllTimes == UNION {Times[m] : m \in Machine}

VARIABLES
  phase, state, result,                                \* the boards
  mpc, cst, named, res, winner, entry_counter, last,   \* the game master
  net,                                                 \* datagrams under way
  recorded,   \* history: this game's entry is in the highscore lists
  missed      \* history: some player has not pressed in time

B == INSTANCE Board
C == INSTANCE GameMaster

board == <<phase, state, result>>
master == <<mpc, cst, named, res, winner, entry_counter, last>>
history == <<recorded, missed>>
vars == <<board, master, net, history>>

\* Requests and the responses the client does not ignore.  "unknown", "result"
\* and "winner was displayed" name no machine, so _resp_handler leaves them.
Request == [to : Machine, ask : {"name", "start", "result", "winner", "looser"}]
Response ==
  [from : Machine, tells : {"na", "st"}, time : {0}]
    \cup [from : Machine, tells : {"re"}, time : AllTimes]

TypeOK ==
  /\ B!TypeOK
  /\ C!TypeOK
  /\ IsABag(net) /\ BagToSet(net) \subseteq Request \cup Response
  /\ recorded \in BOOLEAN /\ missed \in BOOLEAN

Init ==
  /\ B!Init
  /\ C!Init
  /\ net = EmptyBag
  /\ recorded = FALSE /\ missed = FALSE

----------------------------------------------------------------------------
(* The servers: one request is taken and answered.  GameLoop shows that    *)
(* the copying handlers may be taken as one step.                          *)

Take(msg) == BagIn(msg, net) /\ net' = net (-) SetToBag({msg})

TakeAndAnswer(msg, answer) ==
  /\ BagIn(msg, net)
  /\ net' = (net (-) SetToBag({msg})) (+) SetToBag(answer)

HandleName(m) ==
  /\ TakeAndAnswer([to |-> m, ask |-> "name"],
       {[from |-> m, tells |-> "na", time |-> 0] : s \in {state[m]} \cap {"NAME_READY"}})
  /\ UNCHANGED <<board, master, history>>

HandleResult(m) ==
  /\ TakeAndAnswer([to |-> m, ask |-> "result"],
       {[from |-> m, tells |-> "re", time |-> result[m]] :
          s \in {state[m]} \cap {"GET_RESULT"}})
  /\ UNCHANGED <<board, master, history>>

HandleStart(m) ==
  /\ TakeAndAnswer([to |-> m, ask |-> "start"],
       {[from |-> m, tells |-> "st", time |-> 0]})
  /\ B!StartGame(m)
  /\ UNCHANGED <<master, history>>

HandleVerdict(m) ==
  /\ \/ Take([to |-> m, ask |-> "winner"]) /\ B!SetWinner(m)
     \/ Take([to |-> m, ask |-> "looser"]) /\ B!SetLooser(m)
  /\ UNCHANGED <<master, history>>

Server(m) == HandleName(m) \/ HandleResult(m) \/ HandleStart(m) \/ HandleVerdict(m)

----------------------------------------------------------------------------
(* The client.                                                             *)

\* _resp_handler
HandleResponse(m) ==
  /\ \E msg \in BagToSet(net) \cap Response :
       /\ msg.from = m
       /\ Take(msg)
       /\ \/ msg.tells = "na" /\ C!set_name(m)
          \/ msg.tells = "st" /\ C!set_is_working(m)
          \/ msg.tells = "re" /\ C!set_result(m, msg.time)
  /\ UNCHANGED <<board, history>>

\* The client sleeps TIMER (20 ms) before each batch.  If the network is prompt,
\* what was sent before has arrived, or is lost, when it wakes up.
Awake == Prompt => net = EmptyBag

\* gcoap_req_cmd() sends every request twice.
SendBatch ==
  /\ Awake
  /\ C!SendBatch
  /\ LET batch == SetToBag({[to |-> m, ask |-> C!Ask(m)] : m \in Machine})
     IN net' = net (+) batch (+) batch
  /\ UNCHANGED <<board, history>>

Rest == Awake /\ C!Rest /\ UNCHANGED <<board, net, history>>

Choose ==
  /\ C!ChooseNames \/ C!ChooseStart \/ C!ChooseResults \/ C!Compare \/ C!Spin
  /\ UNCHANGED <<board, net, history>>

LookAgain == C!LookAgain /\ UNCHANGED <<board, net, history>>

Record ==
  /\ C!Record
  /\ recorded' = TRUE
  /\ UNCHANGED <<board, net, missed>>

Reset ==
  /\ C!ResetStates \/ C!ResetStrings
  /\ UNCHANGED <<board, net, history>>

Client == SendBatch \/ Rest \/ Choose \/ Record \/ Reset

----------------------------------------------------------------------------
(* The game threads.                                                       *)

EnterName(m) == B!EnterName(m) /\ UNCHANGED <<master, net, history>>

Press(m) == B!Measure(m) /\ UNCHANGED <<master, net, history>>

TimeOut(m) ==
  /\ B!TimeOut(m)
  /\ missed' = TRUE
  /\ UNCHANGED <<master, net, recorded>>

\* On M1 reset_client_states() clears a client that never runs.
DropClient(m) ==
  /\ B!DropClient(m)
  /\ IF m = M0 THEN C!GameClearsStates ELSE UNCHANGED master
  /\ UNCHANGED <<net, history>>

Fail(m) ==
  /\ B!Fail(m)
  /\ IF m = M0 THEN C!GameClearsStrings ELSE UNCHANGED master
  /\ UNCHANGED <<net, history>>

Go(m) ==
  /\ B!Go(m)
  /\ recorded' = FALSE
  /\ UNCHANGED <<master, net, missed>>

Advance(m) ==
  /\ B!NextRound(m) \/ B!Report(m) \/ B!SeeVerdict(m) \/ B!Animate(m)
  /\ UNCHANGED <<master, net, history>>

System(m) == Go(m) \/ Advance(m) \/ DropClient(m) \/ Fail(m)

----------------------------------------------------------------------------
(* The environment: people and the network.                                *)

\* The client is about to send a start batch.
StartPending ==
  \/ mpc = "askStart"
  \/ mpc = "poll" /\ \A m \in Machine : cst[m] = "HAS_NAME"

\* Nothing in the code makes people wait for the requests on their way.  Unless
\* they are hasty they take longer, all the same, than the requests do.
Settled(m) ==
  Hasty \/ (~StartPending /\ \A msg \in BagToSet(net) \cap Request : msg.to # m)

Named(m) == Settled(m) /\ EnterName(m)

\* A race ends by a press, or by the timeout if the player may be slow.
Raced(m) == Settled(m) /\ (Press(m) \/ (m \in Slow /\ TimeOut(m)))

Lose ==
  /\ CanLose
  /\ \E msg \in BagToSet(net) : Take(msg)
  /\ UNCHANGED <<board, master, history>>

Next ==
  \/ \E m \in Machine :
       \/ Server(m) \/ HandleResponse(m)
       \/ Named(m) \/ Raced(m) \/ System(m)
  \/ Client \/ LookAgain
  \/ Lose

Spec == Init /\ [][Next]_vars

\* All threads run; a datagram that is not lost is handled; players do enter
\* their names, and press unless the timeout comes first.  Settled delays them
\* only while requests are under way, and quiet moments recur: hence SF.
Fairness ==
  /\ WF_vars(Client)
  /\ \A m \in Machine :
       /\ WF_vars(System(m))
       /\ WF_vars(Server(m))
       /\ WF_vars(HandleResponse(m))
       /\ SF_vars(Named(m))
       /\ SF_vars(Raced(m))

FairSpec == Spec /\ Fairness

----------------------------------------------------------------------------
(* Safety.                                                                 *)

Other(m) == IF m = M0 THEN M1 ELSE M0

\* As long as every player has pressed in time, no board starts a race while the
\* other's player still has to enter a name or has this game behind him
\* (report.tex 185-187): a start that reaches a board early is overwritten by
\* NAME_READY (game.c 163), and the client decides from both names
\* (coap_client.c 265).
StartTogether ==
  [][\A m \in Machine :
       ~missed /\ phase[m] = "waiting" /\ phase'[m] = "racing" =>
         phase[Other(m)] \in {"waiting", "racing", "timed", "reported"}]_vars

\* The board that plays the winner's animation has the smaller reaction time of
\* this game, and the other board the larger one (README.md 27-28): the stored
\* results, the comparison, the verdicts and the two reads of state agree.
FasterWins ==
  \A m \in Machine :
    /\ phase[m] = "winning" => result[m] < result[Other(m)]
    /\ phase[m] = "losing" => result[m] > result[Other(m)]

\* A game gets one pair of entries in the highscore lists (coap_client.c 241-252).
OneEntryPerGame == [][entry_counter' # entry_counter => ~recorded]_vars

\* coap_client.c 241: set_entry_counter "adds the names and results of current
\* game": as long as every player has pressed in time, both names and the times
\* both boards reported and still show.
EntryOfThisGame ==
  [][~missed /\ entry_counter' # entry_counter =>
       \A m \in Machine : last'[m] = <<TRUE, result[m]>>]_vars

\* Some branch of the client's loop always applies: it never finds a name of one
\* board beside a result of the other, which no look asks to change
\* (coap_client.c 257-279).
BranchApplies == mpc # "spin"

----------------------------------------------------------------------------
(* Liveness.                                                               *)

\* README.md 37: the client polls "until the servers provide the information to
\* proceed" and then tells each board its verdict.
Answered ==
  \A m \in Machine : phase[m] = "reported" ~> phase[m] \in {"winning", "losing"}

\* Games follow one another: every board is raced on again and again.
GamesGoOn == \A m \in Machine : []<>(phase[m] = "racing")
=============================================================================
