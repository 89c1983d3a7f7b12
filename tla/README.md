# Retro11 reaction game: TLA+ models, model checking and proofs

Two game boards (RIOT OS nodes `M0` and `M1`) play a reaction game over CoAP. On each
board a player enters a name; then both boards start their motors, a bottle opener lifts,
and whoever presses first wins. `M0` also runs the game master, a CoAP client that polls
both boards' servers, starts the race, collects both reaction times, tells each board its
verdict and keeps the highscore lists. The modules here model that program
(`src/retro11`): the statement-level behaviour of one board, the game master, the whole
game over a lossy, duplicating, reordering network, the publication of the highscore
lists as a SenML document and its decoding, a board from power-on with a player at its
buttons, and the drivers of display, LED stripe and motors.

## 1. Inventory

| Component | State | Operations | Source |
|---|---|---|---|
| Game thread | `game.state` (volatile), `playername`, `reaction_time`, motor/LED/LCD handles | `game_run`: name entry, wait for start, race, wait for verdict, animation | `game.c` |
| Request handlers | write `game.state`; read name and time | `get_name_of_player`, `start_game`, `get_result`, `set_winner`, `set_looser` and the CoAP resources that call them | `main.c` 59-91, `coap_handler.c` |
| Game master | `client` (two states, names, results), `entry_counter`, the highscore lists | client thread, `_resp_handler`, `set_name`/`set_is_working`/`set_result`, `reset_client_states`, `set_entry_counter` | `coap_client.c` |
| Buttons and multiplexer | `enableBtns`, the address lines, the interrupt's enable bit, edges it remembers | the button interrupt, `multiplexer_receive` | `main.c` 93-104, `multiplexer.c` |
| Name entry | position in the name and in the alphabet, the sweep's address (a `char`) | the sweep, confirm, next, previous, the nap | `game.c` 98-149 |
| Boot, ping, shell | what is initialised, which threads run, `gamePid`, the listener | `main`, `coap_client_init`, `coap_server_init`, `game_init`, the ping thread | `main.c`, `coap_handler.c` 90-146 |
| Hardware diagnosis | none of its own: it uses the game thread's devices | `hwdiag -m`, `-l`, `-n`, `-b` | `main.c` 106-176 |
| Motors | direction pins, PWM | `motor_controller_set_speed`, `dcmotor_set_speed` | `motor_controller.c`, `dcmotor.c` |
| LED stripe | `pixels`, what the LEDs show | `neopixel_set_pixel_color`, `neopixel_show`, the two animations | `neopixel.c`, `game.c` 24-96 |
| LCD and font | `ram`, the panel's contents and cursor, the command line | drawing, `lcd_spi_show` | `lcd_spi.c`, `font_5x7_col.c` |
| Highscore publication | the 50-place lists, `entry_counter` | `entry_handler` (resource `/se-app/entries`), `senml_json_send`, `senml_json_strout` | `coap_client.c` 24-83 |
| SenML encoder | position and space left in the output buffer | `senml_encode_json_s` | `senml.c` 172-466 |
| SenML decoder | the caller's records and base information | `senml_decode_json_s` (no caller in this program) | `senml.c` 26-170 |
| Menu | none | dead code | `menu.c` |

**Interactions.** On one board the game thread, the gcoap thread (request and response
handlers), the button interrupt and a timer share `game.state`, `playername`,
`reaction_time` and `enableBtns` with no lock. On `M0` the client thread, the gcoap thread
and the game thread (which calls `reset_client_states()` after a missed race) share
`client`, again with no lock; the client thread adds games to the highscore lists while the
gcoap thread publishes and empties them, with no lock either. The shell's thread, of lowest
priority, runs `hwdiag` on the multiplexer, motors, stripe and display the game thread uses,
whenever all others sleep. Boards and master communicate by CoAP over UDP only: every
request is sent twice (`gcoap_req_send2` twice in `gcoap_req_cmd`), is non-confirmable, and
is never matched to the game it belongs to.

**What is hard.** Busy waits on a variable another thread writes; a variable that is read
twice and may change in between; a batch of requests that is chosen, then delayed by 20 ms,
then sent whatever has happened since; duplicated requests that overwrite a later state;
resets while answers are under way; two threads resetting the same structure; a timeout path
that undoes half of what was set up; a space count that is taken, given back and taken again.

**What makes it correct.** Board: what `state` announces is really there, a reply is never
torn, motors that were started are stopped. Master and network: both boards start together,
the faster player is shown the winner's animation and the other the loser's, each game is
entered once and correctly, the client always finds something to ask, each result is answered,
games follow one another. Lists: no place outside them, no place read that was never written.
Encoder: never a byte past the buffer, the right document, refused only for want of room;
what it writes decodes to what was packed. Buttons: name entry completes, and a race ends with
exactly the new presses of its button. Boot: no thread uses what is not there yet. Drivers:
drawn and shown to the pixel, the display's light never off, no motor left turning.
Not all of this holds of the code, and not all of it everywhere: section 3 says where it does.
`PROJECT.json` lists each hazard with its line and the properties that cover it.

## 2. Modules

| Module | What it models |
|---|---|
| `Board` | Abstract board: the phases of a round and every write to `game.state`. A parameterised family (`Machine`), so that one instance is the specification of one board and another is a part of the composition. |
| `GameLoop` | One board, one action per statement that touches shared data, under an open environment: any request at any time, any number of times. Refines `Board`. |
| `GameMaster` | The client thread, the response handler, and the two halves of `reset_client_states()`: state and actions only, no scheduling. |
| `Reaction` | Two instances of `Board` and one of `GameMaster` joined by a bag of datagrams. |
| `MCReaction` | Values of the reaction times for TLC. |
| `Highscore` | `set_entry_counter()` statement by statement on the client thread against `entry_handler()` on the gcoap thread. |
| `Buttons` | Multiplexer, pin and interrupt, with the three that use them: name entry and race on the game thread, `hwdiag -b` on the shell's. |
| `CoapServer` | The resource table and gcoap's lookup in it: definitions only. |
| `Boot` | `main()` and the threads it starts; composes `Buttons` and `CoapServer` into one board from power-on. |
| `Display` | The LCD driver: every drawing function, one round of each loop a step, and the transfer to the panel. |
| `Stripe` | Pixels and the bits on the wire, the two animations, `hwdiag -n`. |
| `Motors` | Direction pins and duty, the race, `hwdiag -m`. |
| `MCDrivers` | The three drivers one at a time; a small screen, its font, and what is drawn on it. |
| `Senml` | `senml_encode_json_s()` as a state machine over an output buffer. |
| `SenmlDecode` | `senml_decode_json_s()` over the tokens of a document. |
| `MCSenml` | The encoder followed by the decoder; the document a pack stands for, as a definition without bookkeeping; small packs for TLC. |
| `GameLoopProofs`, `ReactionProofs`, `HighscoreProofs`, `BootProofs`, `DriversProofs`, `DisplayProofs`, `SenmlProofs`, `RoundTripProofs` | The theorems (section 4). |

`PROJECT.json` maps every definition to its lines.

Operators named like `X_something` with a comment "Mutant" are variants of `X` with a
plausible bug. Nothing uses them; they exist so that one can substitute them for `X` and see
the property named in `PROJECT.json` fail.

### How state and actions correspond to the code

`GameLoop.pc` is the next statement of `game_run`:

| `pc` | statement | action that leaves it |
|---|---|---|
| `init` | `dev->state = INIT` (157) | `NextRound` |
| `naming` | the loop of `get_player_name` (98-149) | `ConfirmLetter` |
| `nameDone` | `dev->state = NAME_READY` (163) | `AnnounceName` |
| `waitStart` | busy wait (171-175) | `SeeStart` |
| `enable`, `spinUp`, `stamp` | 185, 186, 187 | `EnableButtons`, `StartMotor`, `StampStart` |
| `receive`, `blocked` | `xtimer_msg_receive_timeout` (189): before and after the thread is `RECEIVE_BLOCKED` | `BlockOnMessage`; `ButtonIrq` or `TimerFires` |
| `timedOut`, `resetClient`, `fail` | 191, 192, 194 | `StopMotorLate`, `ResetClient`, `Fail` |
| `pressed`, `measure`, `stop`, `report` | 197, 199, 201, 203 | `DisableButtons`, `MeasureTime`, `StopMotor`, `ReportResult` |
| `waitVerdict`, `told` | 214-218, 225 | `SeeVerdict`, `PlayAnimation` |

Display and LED calls between these statements share nothing and belong to the step before
them. `get_name_of_player` and `get_result` are two steps each (test, then copy), so that the
copy can be raced; the handlers that write are one store.

`Board.phase` folds `pc` (definition `PhaseOf`). `GameMaster.mpc` is where the client thread
is between two accesses to `client`: it looks (`poll`), sleeps with a batch chosen (`ask...`,
`verdict`), enters the scores (`record`), resets the states, then the strings, and sleeps
(`rest`). A look (the if-chain of 257-300) is one step. The request handlers are one step
each in `Reaction`; `NoTornReply`, proved in `GameLoopProofs`, is what justifies it.

`Highscore.cpc` and `hpc` are the next statement of `set_entry_counter` and of
`senml_json_strout`. `entry_counter` is neither locked nor volatile, so at each use the build
may read it again or use what it read before: `Counter` on the client thread, `Bound` on the
gcoap thread. `senml_json_strout` uses it three times: for the size of `records[]` (`size`), in
each test of the loop (`FillRecord`, `LeaveLoop`) and for `pack.num` (`num`, in `Encode`). A
place of a list holds the number of the game it was written for. The encoder appears as its
answer (`Fits`): its records all have fields, so the encoder's refusal is for want of room only
(`RoomDecides`).

In `Reaction` the code's actions are `EnterName`, `Press` and `TimeOut`; `Named` and `Raced` are
those actions taken by people, whom nothing in the code holds back. `Settled` is all the model
knows of how fast people are: unless they are `Hasty`, they take longer than the requests on
their way to their board. `missed` is history: some race has ended by the timeout.

`Senml` keeps the encoder's variables (`ins_pos`, `buf_len`, `insert_opening_brace`,
`ins_pos_after_bi`) and its control; each field is one `WriteField` and is known by the bytes
it prints. `r = 0` is the base information.

`Buttons.gpc` is the game thread again, from the buttons' side: `sweep` and `nap` in
`get_player_name`, then the places of the race where the multiplexer, the flag or the message
matters. `pressed` are the buttons held, `lines` the one the pin sees. A call of
`multiplexer_receive` on the game thread is one step, because nothing of lower priority can
come between its statements and an interrupt there finds the thread running; on the shell's
thread it is three (`spc`). `fresh` and `diagnosed` are history: a new press of button 0 since
the wait began; the diagnosis touched the multiplexer since the race set it. `Boot.mpc` is the
next statement of `main`, which runs only when no thread it has started does (`MainRuns`).

`SenmlDecode` works on the encoder's output: a mark is a bracket, brace or comma, a field is a
key with its value. Which member of a record a key goes to, and the conversion of its value,
are left out; a key the decoder does not know is not written by the encoder.

`Display.todo` is the call stack, the running call first: `lcd_spi_draw_rect` is replaced by
its lines, a line by its rounds. Coordinates pass through `uint8_t` (`U8`) wherever the code
passes them so. `Stripe.leds` is what a WS2812B makes of the pulses `neopixel_show` sends;
each LED of `hwdiag` is a step, as the game thread may come between any two. The pixels of the
game thread's picture are one step: nothing of lower priority comes between them. In `Motors`
each register write of the shell's calls is a step for the same reason.

### External code, modelled from its use

* A RIOT thread without a message queue receives a message sent from an interrupt only while
  it is blocked in a receive; otherwise the message is dropped. That is why a press or timer
  in any other place is not a step.
* `gcoap_req_send2` failing, and the cap on requests in flight, lose a datagram (`Lose`).
* The datagrams are a bag: no order, both copies of a request count, any may be lost when
  `CanLose`. Every answer the client ignores (`unknown`, `result` from a start, the
  acknowledgement of a verdict: they name no machine) is left out.
* An edge of the receive pin while its interrupt is disabled may or may not be remembered
  until it is enabled (`edge`); only rising edges count (`GPIO_RISING`).
* gcoap's lookup: line 79 of `coap_handler.c` says the table must be sorted by path, which
  matters to a gcoap that stops at the first path after the request's; `Handler` is both kinds.
* jsmn makes tokens of a document whose brackets match and rejects any other.
* The panel's column moves on with each byte; its page does not. An LED takes 24 pulses, each
  byte highest bit first, a long high for 1. Both direction pins alike stop a motor.
* RIOT gives every ready thread of equal priority the processor again and again (the
  application threads and the gcoap thread all have `THREAD_PRIORITY_MAIN - 1`; the interrupts
  that wake the network's threads rotate them).

### What is abstracted

Texts: a name is letters of a small alphabet, a stored name is whether there is one, a stored
result is the number `atol` reads. The game's modules leave out LCD, LEDs and printed
output. `hwdiag` appears where it shares a device with the game thread (`Buttons`,
`Stripe`, `Motors`), not in the modules of the game itself. The string of `coap_handler.c` 86
misses a comma after its initialiser, so the file as committed does not compile; the models
take the evident reading.

## 3. Runs

| Run | Question | Answer |
|---|---|---|
| `game_loop` | Is one board sound under arbitrary requests? | Yes: announcements, replies, refinement of `Board`; motors that were started always stop. |
| `reaction_reliable` | Two boards, no loss, everybody presses, people slower than requests, times differ: does the game go on? | Yes: the client always finds something to ask, every result is answered, games follow one another. |
| `reaction_hostile` | With loss, hasty people and missed races on both boards: is what happens right? | Nobody is shown the wrong verdict and no game is entered twice; until a race is missed, boards start together and entries are those of the game. |
| `early_press` | No loss, everybody presses, but a player may press before the second copy of the start has come: is every result answered? | No: the second copy overwrites `GET_RESULT`, and the client asks for the result forever. |
| `slow_player` | One player of `M1` misses a race: is every result answered? | No: only `M1`'s own unused client is reset. |
| `draw` | Equal times? | Entered twice: without the verdict's sleep, late answers refill the reset states. |
| `dangling_result` | The stored pointers into the dead stack frame of `_resp_handler`? | The comparison may be about something else. |
| `senml` | Does the encoder stay inside its buffer, write the right document, and refuse only what does not fit? Does it decode again? | The buffer: yes, for every pack. The rest: for `Proper` packs, and to the byte, with one or two bytes refused too early if the last record is empty (below). The decoder gives back what was packed, storing nothing past the caller's records. |
| `highscore` | Do publication and game race safely? | Indices stay inside the lists and the loop reads no unwritten place. It may still publish more records than it filled (below). |
| `highscore_too_short` | Does the resource provide highscores when asked? | Not with whole names: 75 bytes are too few for two records. |
| `boot` | A board from power-on, with a player at its buttons and `hwdiag -b` in the shell: does each thread find what it needs, does name entry complete, does a race end when it should? | Yes: the first requests of `M0`'s client find the listener and their handlers, `gamePid` is known before the buttons are enabled, the held confirm button neither blocks name entry nor ends a race, and each new press does, unless the diagnosis interferes. |
| `drivers` | Do the drivers show what they are told to, and survive the diagnosis? | Yes, to the pixel; the display's light stays on, each picture the game thread shows of an animation is that picture until the diagnosis shows another, no motor is left turning. |

### What is not a run

* Which time is the reaction time. `src/README.md` 25-28 says the motors stop, and the time from
  that stop to the press is the reaction time. In the code the clock starts right after the
  motors do (`game.c` 185-187), they turn while the board waits for the press, and they are
  stopped after the time is taken (199-201). This is a disagreement of the text with the code;
  no property takes either side. `Announced` says only that the motors are at rest in every
  state a board announces from, `MotorStops` that they come to rest.
* `Prompt = FALSE`: every run has it TRUE. If a datagram may still be under way when the client
  wakes, `FasterWins`, `OneEntryPerGame`, `StartTogether`, `EntryOfThisGame` and `BranchApplies`
  all fail, without loss, haste or missed races; TLC finds each of them (most by simulation)
  on `ReactionReliable.cfg` with `Prompt = FALSE`. The 20 ms sleep is all that separates one
  batch from the next, and nothing in the code makes sure that it is enough. What is shown and
  proved of the protocol is shown and proved of a network faster than that.
* `BranchApplies` with loss: if both copies of a start are lost on the way to one board and the
  other board's result comes back, no branch of the client's loop applies and it spins
  (`coap_client.c` 257). Nothing need end that: `client` is not volatile.
* The records a publication claims to have (`coap_client.c` 35-43). If a game is stored after
  the loop's last test, `num` exceeds the records filled (`i`), and the encoder reads records that
  hold whatever the stack held; if it is stored after `size` was taken, the loop writes past the
  end of `records[]`. Both are in `Highscore`'s behaviours, and the repository states nothing
  they contradict; `IndexInBounds` and `ReadsWritten` are about the lists only.
* `/se-app/entries` is the path that is out of order in the resource table (`coap_handler.c`
  86): a gcoap that stops early answers 4.04 to it. `Served` is about the paths the game asks for.
* The refusals `RoomDecides` counts with `Spare` (section 4): `senml.h` 149 promises -1 "when
  output is not big enough", and there it is.
* `ShortSends = FALSE` in `boot`: if sending a batch may take a nap's length, name entry can
  end before `main` has assigned `gamePid`, and the first press goes to the wrong pid
  (`PidKnown`). With `HasClient = FALSE` it holds even so: `M1` has no client in the way.
* The diagnosis during a race: without `~diagnosed` both `NoFalseStart` and `EveryPressCounts`
  fail, since address 1 replaces address 0 until the next race.
* The conditions in `CirclesRound` and `TextPlaced`: without them a circle whose far side wraps
  into the screen again leaves stray pixels, and so does a text that goes on past the last
  `uint8_t`. No call in the program comes near.

### Environment assumptions, one constant each

| Constant | Meaning | `reaction_reliable` | `reaction_hostile` | `early_press` |
|---|---|---|---|---|
| `CanLose` | datagrams may be lost | no | yes | no |
| `Hasty` | people may act before requests already sent have arrived | no | yes | yes |
| `Slow` | boards whose player may let the time run out | none | both | none |
| `Prompt` | no datagram is under way any more when the client wakes from its 20 ms sleep | yes | yes | yes |
| `FrameReused` | stored texts may be overwritten | no | no | no |
| `Times` | reaction times | distinct | distinct | distinct |

Which property needs which assumption was found by switching them one at a time.
* `FasterWins` and `OneEntryPerGame` survive loss, haste and missed races.
* `StartTogether` and `EntryOfThisGame` survive loss and haste until a race is missed. After
  that a board that failed may be a round apart from the other: `StartTogether` then fails even
  without loss and haste, `EntryOfThisGame` with either.
* `Answered` needs all of it: no loss (a verdict is sent once), nobody late (`slow_player`) and
  nobody hasty (`early_press`). Haste alone is enough to lose a result: every start is sent twice
  (`coap_client.c` 227-228), and `start_game()` overwrites whatever state it finds.
* All need `Prompt`. Equal times break the properties about entries and verdicts (`draw`), a
  reused stack frame those about comparisons (`dangling_result`).

What the runs show for the instance is proved for every instance, safety properties other than
`BranchApplies` at least (section 4).

### Bounds

Two letters and two places make a name of which a part can be missing; two times make a new
time differ from an old one. Everything in `GameLoop` is per round and the rounds repeat, so
the state space is complete for these constants. `WrapAt = 4` makes `entry_counter` wrap every
second game, while 48 would only add unreachable difference: it is an index. `DistinctTimes` gives `M0` a faster and a slower time
than `M1`. The bag needs no bound: with `Prompt` a batch goes out only when nothing is
under way, so at most two copies of two requests and their answers exist.

`Senml.cfg`: up to three records, each without fields, with one or with two, base information
absent, empty, or of one or two fields, and every buffer from nothing to more than the largest
document: each record can be first, last or between, empty or not, and the space can run out at
every byte. The encoder terminates, so the deadlock check is off.

`Cap = 2` records for the decoder, so that three are one too many.

`Boot.cfg`: four addresses instead of eight (confirm, next, previous and one that does
nothing), a `char` of eight values, so that the sweep passes the addresses once and then meets
a button at an address it ignores, as 256 values over 8 addresses do; two letters of three. All
combinations of held buttons, every power-on with or without an error, and `M0`, which has all
threads of `M1` and the client. The board may stop after an error, so there is no deadlock check.

`Drivers.cfg`: a screen of 10 by 8 with two pages and a byte of 20 values, so that coordinates
leave the screen on each side and wrap; all lines with end points up to one place off the
screen, rectangles over each border, all circles with centre on the screen and every radius,
filled or not, texts with known and unknown characters on clear and inverted screens. Six LEDs
and an animation of four pictures: both parities, each twice. A drawing ends, so there is no
deadlock check.

`Highscore.cfg`: the counter starts again at 4 of 6 places as it does at 48 of 50, with one
spare pair at the end; two games fit, and four (`MaxGames`) wrap twice. `RecordSizes =
{15, 35}`: a record whose dangling name happens to be empty, and one with a whole name and a six-digit time; two of the first fit in 75 bytes, so
both answers of the encoder occur. After `MaxGames` games the client stops, so the deadlock
check is off.

### Fairness

`GameLoop`: weak fairness of the game thread, the timer and the copying reply. `Reaction`:
weak fairness of the client, of each board's game thread and of the handlers (RIOT schedules
them; a datagram that is not lost is handled); strong fairness of a name being entered
(`Named`) and of a race being ended (`Raced`), since `Settled` may delay people while requests are under way, and
there are quiet moments again and again. No fairness of `LookAgain`: the branchless turn of
the loop may be compiled to one that never reads `client` again. Nothing forces a player to
press: where no time-out is possible (`Slow` empty) pressing is what ends the wait.
`Boot`: weak fairness of the game thread, of `main` and of the end of a batch; strong fairness
of `GameWakes`, because the end of a nap is put off while `main` or the client runs, which is
again and again but never for good. No fairness of the player, the client's wake-up, the ping
thread or the shell.

## 4. What is proved

Every theorem holds for all values of the constants the `ASSUME`s of its module admit; a
further assumption about the environment is in the theorem's statement and in this table.

| Module | Theorem | What | Further assumptions |
|---|---|---|---|
| `GameLoopProofs` | `TypeCorrect`, `AnnouncedHolds` | safety of `game_loop` | none: any request at any time |
| | `NoTornReplyHolds` | the action property that lets a handler be one step in `Reaction` | none |
| | `Implements` | every behaviour of `GameLoop` is one of `Board` | none |
| `ReactionProofs` | `TypeCorrect` | `TypeOK` | none |
| | `FasterWinsHolds`, `OneEntryPerGameHolds` | right verdicts, one entry for a game | `Environment` |
| | `StartTogetherHolds`, `EntryOfThisGameHolds` | until a race is missed: the boards start together, the entry is that of the game | `Environment` |
| `HighscoreProofs` | `TypeCorrect`, `IndexInBoundsHolds`, `ReadsWrittenHolds` | safety of `highscore` | none |
| `BootProofs` | `TypeCorrect`, `NoFalseStartHolds`, `EveryPressCountsHolds`, `ServedHolds` | safety of `boot` and its action property | none |
| | `PidKnownHolds` | the interrupt finds the game thread's pid | `NameLen > 1`, `ShortSends \/ ~HasClient` |
| `DriversProofs` | `QuietHolds`, `BacklightKeptHolds`, `AnimationSeenHolds` | motors and stripe | none |
| `DisplayProofs` | `TypeCorrect` | the types of all three drivers: no pixel beside the screen | none |
| | `PanelShowsRamHolds` | the panel ends up showing the ram | none |
| | `DrawsWhatItSaysHolds`, `CirclesRoundHolds` | lines, rectangles, texts and circles are what their calls say, pixel by pixel | none |
| `SenmlProofs` | `TypeCorrect`, `InBoundsHolds` | the encoder and its buffer | none |
| `RoundTripProofs` | `InCapacityHolds` | the decoder and its caller's records | none |
| | `EncoderUndisturbed` | encoding and decoding in turn implements the encoder | none |
| | `WritesDocumentHolds`, `RoomDecidesHolds` | the encoder writes the pack's document, and refuses it exactly if there is less room than `Needed` | the pack is `Proper` (in the properties) |
| | `DecodesBackHolds` | what was encoded decodes to what was packed | the pack is `Proper` (in the property) |

`Environment` is `Prompt`, no reuse of the dead stack frame, and different times on the two
boards. Each of the three is needed: the runs `draw` and `dangling_result` show it of two, "What
is not a run" says it of `Prompt`. Losing datagrams, hasty people and missed
races are covered unless the table excludes them; so are any sets of times and any place at
which `entry_counter` starts again.

### The arguments

None of the properties is inductive. Each proof module has the invariant that is, proved one
action at a time; the theorems called `Invariance` state it where it is worth knowing.

*One board* (`GameLoopProofs`). What `Announced` and `NoTornReply` leave out is where the
threads are when a handler is copying (`handler = "name"` while the game thread has moved on
would break it) and which data each place of the program has already produced: all letters
after `naming`, the time after `measure`, the motors and buttons in the race. `IInv` is the
conjunction of `TypeOK`, `NameInv` (letters below the current index are entered), the
place-by-place facts, and what a copying handler pins down.

*The protocol* (`ReactionProofs`). `FasterWins` relates what two boards show to what a client
decided some messages ago. Three ideas carry it. At most one kind of request is under way,
because a batch waits until the one before is over (`OneKind`), and an answer under way is true
of its board or comes to nothing (`Answers`). What the client believes of a board is so, or the
batch that depends on it cannot be sent any more (`RcvdInv`, `NameInv`, `StartInv`). From the
verdicts to the reset no board can report or start (`VerdictInv`, `ClosingInv`), and a board
still at the end of a game already entered gives the client nothing to act on
(`HeardInv`, `RecordedInv`, `BehindInv`). A missed race is what makes this intricate: `M0`'s
game thread then resets the client's states under its hands, and what the client holds of `M1`
may be of a game `M0` is no longer in, so `RcvdInv` admits the case `MissedByM0`. `IInv` was
model-checked on the instance of `reaction_hostile` before it was proved. Until a race is missed,
client and boards agree on the game (`GameInv`, theorem `SameGame`), which is what
`StartTogether` and `EntryOfThisGame` need.

*Highscore lists* (`HighscoreProofs`). The properties do not mention the counter's value in a
register while the gcoap thread empties the list. `IInv` says that the counter is that value
or 0, that whichever of them a statement uses names a place the statements before it have
filled, and that what was filled stays so.

*Boot and buttons* (`BootProofs`). `RaceInv` is about the pin: what the last one to touch the
multiplexer left behind, as long as that was the game thread. `BootInv` and `PidInv` are about the
scheduling: how far `main` is says how far the threads it started can be. With a name of one letter
the game thread would not sleep before its first race, so `PidKnown` needs two.

*Motors and stripe* (`DriversProofs`). `MotorsInv` says which calls of the diagnosis are left
while a motor turns. `AnimationSeen` rests on the sum over the pulses of a byte
(`ValueUnrolled`) and on 0 and 255 reading the same both ways (`SymmetricBytes`).

*Display* (`DisplayProofs`). `PanelShowsRam` speaks of the end only. `ShowInv` says that until
then the calls left are drawing calls with `lcd_spi_show` after them (`WillShow`), or one call that
sends the pages from some page on, with the pages before it already on the panel (`Sent`) and
the bytes still to be sent those of the ram. `DrawnInv` says what is on the ram until then:
* A line's loop stands some columns and rows from its start, what it has set is one pixel for
  each place along the line so far (`Track`), and `err` is the distance of its pixel from the
  line, to the length of a line (`Segment`), which stays within half a pixel (`OnTrack`).
* For rectangles and circles, the pixels set and those the remaining calls will set are
  together always the same set (`ShapeSoFar`): each call may be replaced by what it makes
  (`ShapeKept`). That set is worked out once. In a circle `b` is the number nearest to the root of
  r^2 - a^2 and `P` the next midpoint's sign (`Rounding`), so the rounds visit exactly
  the pixels of one octant; their reflections are the circle, unless they wrap into the screen.
* Of a text the first characters are on the screen and the calls for the others are left
  (`TextSoFar`). A character's cell ends before the next begins, as `GlyphWidth <= Pitch`.

*Encoder* (`SenmlProofs`). Taking back a byte needs to know that the byte is there and that
the count was lowered for it, and closing the array needs to know that the byte set apart for
the NUL has not been spent. `IInv` adds where record and field index may be at each place of
the program (`Place`), that there is a byte to take back when one is taken back (`Cells`), and
the balance `ins_pos + buf_len = len`, less one once the NUL's byte is set apart, with at least
one byte left wherever the next step writes a brace unasked (`Room`).
For `WritesDocument` and `RoomDecides` (`RoundTripProofs`) the document, a fold over the
records, is unrolled record by record. A second invariant says that what is in the buffer is
the document of the records so far (`SoFar`), and that one who gives up had a next byte for
which there was no space, be it only the '{' of a record that turns out empty (`RoomSoFar`).

*Decoder* (`RoundTripProofs`). Before the first object `array_num` is no record: `DecoderInv`
adds that an object makes it one. Nothing is asked of the document, so this holds for those
the encoder does not write, too. `DecodesBack` is about those it does: `DecodingInv` says that
the tokens are the listing of the pack's records that have fields, and that the decoder has
taken some members of one of its objects and all of the objects before it. That every pack's
document has such a listing is an induction over the records, from the well-foundedness of `<`
on the naturals.

### What is only model-checked

* Liveness (`MotorStops`, `Answered`, `GamesGoOn`, `NameCompletes`): fairness and `ENABLED` are
  out of the prover's reach.

* `BranchApplies`, which depends on people (`Hasty`) as liveness does.

Every other invariant and every safety property of a step that a passing run checks has a theorem.

### What the models say about the encoder's edges

`WritesDocument`, `RoomDecides` and `DecodesBack` are stated for `Proper` packs: if there is base
information, the first record has fields. Of the others
* packs with base information that has fields and records of which none has any are answered
  with 0 and broken JSON, `[{"bn":"x"]`: the test of line 444 looks for a position one byte below the one
  it has;
* packs with base information that has no fields, an empty first record and a later one with
  fields are answered with 0 and an object without its '{' (410-417);
* packs with base information that has fields, an empty first record and a later one with fields
  come out right, base information and that record in one object; the properties do not cover
  them;
* the rest, which have no record or no field at all, are refused.

This program always passes a first record with a name and a value, so none of this happens here.
`InBounds` holds for all packs.

For a `Proper` pack the encoder needs room for the document and its NUL, and `Spare` bytes more:
none if there are no records or the last one has fields; one if the last record is empty and
another is not, since a record is followed by a test for room for the next (`senml.c` 439); two
if there are only empty records, since four bytes are wanted before the first (293) and `[]` with
its NUL, of which one is written already, wants two of them. In those two cases `senml.h` 149,
"-1 when output is not big enough", is not what the code does: the output is big enough.

### What the models say about the decoder and the drivers

* `senml_decode_json_s` answers -1 if there are too many records; `senml.h` 137-139 promises
  how many too many. It takes records for zeroed: it writes only the members it meets.
* Red and blue are sent lowest bit first (`neopixel.c` 185, 270), so the display's light is
  not the grey 50 of the configuration: an LED takes 76 for red and blue. The animations use
  only 0 and 255, which read the same both ways (`AnimationSeen`).
* A race sets speed 200 with resolution 100: `dcmotor_set_speed` clamps to the frequency.
* `neopixel_set_pixel_color` admits the index `led_count`; no caller uses it.
* `"GO"` is drawn with length 18 (`game.c` 177): `lcd_spi_draw_s` reads on past the literal.
* `hwdiag` without an option compares a null pointer (`main.c` 107); `lcd_spi_set_contrast`
  adds its value to the command byte (158). Like the last, they are sequential and outside the
  models.

## 5. Not modelled

* `menu.c`: nothing calls it. `multiplexer_init`, `neopixel_get_pixel_color`, `lcd_spi_reset`:
  no callers.
* `lcd_spi_init`, contrast and reverse: fixed commands to the panel.
* The thread of `motor_controller.c`: no code sends it a message.
* Registering network addresses (`main.c` 191-204): calls of RIOT that share no state.
* `hwdiag -l` drawing while the game thread draws, and the command line changed outside
  `spi_acquire` (`lcd_spi.c` 202): `Display` is one thread's view, and `PanelShowsRam` is about
  that. `AnimationSeen` is likewise about what the game thread's last show left (`shown =
  "game"`), not about a half-written picture `hwdiag -n` has shown since.
* The time of a bit on the LED wire, beyond which of its halves is longer; `periph_conf.h`.
* Whether a wild pointer in a record's unset members is followed (`coap_client.c` 35).

## 6. Plan

Proofs: an abstract game (a round of two players, a verdict, an entry) that `Reaction` implements
under `Environment`.

Models: two threads drawing on one display.
