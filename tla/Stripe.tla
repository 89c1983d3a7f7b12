------------------------------- MODULE Stripe -------------------------------
(***************************************************************************)
(* The LED stripe (neopixel.c) and those who use it: main() lights the two *)
(* LEDs behind the display, the game thread plays the winner's or the      *)
(* loser's animation (game.c), and "hwdiag -n" in the shell lights all     *)
(* LEDs and turns them off again (main.c).  All of them work on the same   *)
(* pixels; the game thread takes the processor from the shell between any  *)
(* two of its LEDs.  neopixel_show() disables interrupts: it is one step.  *)
(***************************************************************************)
EXTENDS Integers, Sequences

CONSTANTS
  LedCount,     \* CONF_LED_COUNT (57)
  Buffer,       \* places of dev->pixels (128)
  Pictures      \* of an animation (20)

ASSUME StripeAssumption ==
  /\ {LedCount, Buffer, Pictures} \subseteq Nat
  /\ LedCount > 2 /\ LedCount < Buffer

VARIABLES
  pixels,       \* dev->pixels
  leds,         \* what the LEDs were told last
  playing,      \* the game thread: "none", "winner" or "looser"
  picture,      \* how many pictures of it were shown
  diag,         \* hwdiag -n: "idle", "lighting", "asleep" or "clearing"
  at,           \* the LED it comes to
  shown         \* history: who called neopixel_show() last

stripe_vars == <<pixels, leds, playing, picture, diag, at, shown>>

Color == [r : 0 .. 255, g : 0 .. 255, b : 0 .. 255]

Black == [r |-> 0, g |-> 0, b |-> 0]
Red == [Black EXCEPT !.r = 255]
Green == [Black EXCEPT !.g = 255]

\* CONF_DISPLAY_BRIGHTNESS, CONF_DISPLAY_LED1 and CONF_DISPLAY_LED2
Bright == [r |-> 50, g |-> 50, b |-> 50]
DisplayLeds == {LedCount - 1, LedCount - 2}

----------------------------------------------------------------------------
(* neopixel.c                                                              *)

\* neopixel_set_pixel_color(); it accepts one index more than there are LEDs.
SetColor(all, index, color) ==
  IF index > LedCount THEN all ELSE [all EXCEPT ![index] = color]

\* v >> j & 1
PowersOf2 == <<1, 2, 4, 8, 16, 32, 64, 128>>
Bit(v, j) == (v \div PowersOf2[j + 1]) % 2

\* A bit is how long the line is high, then how long it is low, in nops.
GreenPulses(v) ==
  [n \in 1 .. 8 |-> IF Bit(v, 8 - n) = 1 THEN <<19, 12>> ELSE <<1, 30>>]

\* Mutant: the red byte one bit late.
RedPulses_late(v) ==
  [n \in 1 .. 8 |-> IF n < 8 /\ Bit(v, n) = 1 THEN <<19, 12>> ELSE <<1, 30>>]

\* Red and blue go out the other way round: the lowest bit first.
RedPulses(v) ==
  [n \in 1 .. 8 |-> IF Bit(v, n - 1) = 1 THEN <<19, 12>> ELSE <<1, 30>>]

BluePulses(v) ==
  [n \in 1 .. 8 |-> IF Bit(v, n - 1) = 1 THEN <<19, 12>> ELSE <<1, 30>>]

Pulses(color) == GreenPulses(color.g) \o RedPulses(color.r) \o BluePulses(color.b)

\* A WS2812B takes a long high for a 1, and the highest bit first.
Value(pulses) ==
  LET sum[n \in 0 .. 8] ==
        IF n = 0 THEN 0
        ELSE 2 * sum[n - 1] + IF pulses[n][1] > pulses[n][2] THEN 1 ELSE 0
  IN sum[8]

LedTakes(pulses) ==
  [g |-> Value(SubSeq(pulses, 1, 8)),
   r |-> Value(SubSeq(pulses, 9, 16)),
   b |-> Value(SubSeq(pulses, 17, 24))]

\* neopixel_show()
Shows(all) == [i \in 0 .. LedCount - 1 |-> LedTakes(Pulses(all[i]))]

----------------------------------------------------------------------------
\* The stripe as main() leaves it: dark but for the display's light.
StripeInit ==
  /\ pixels = [i \in 0 .. Buffer - 1 |-> IF i \in DisplayLeds THEN Bright ELSE Black]
  /\ leds = Shows(pixels)
  /\ playing = "none"
  /\ picture = 0
  /\ diag = "idle"
  /\ at = 0
  /\ shown = "main"

\* A verdict was seen.
StartAnimation ==
  /\ playing = "none"
  /\ playing' \in {"winner", "looser"}
  /\ picture' = 0
  /\ UNCHANGED <<pixels, leds, diag, at, shown>>

\* Mutant: the animation takes all LEDs.
AnimationLeds_all == 0 .. LedCount - 1

\* j < led_count - 2
AnimationLeds == 0 .. LedCount - 3

\* In the first picture, and every other, the LEDs with odd numbers are lit.
Lit(j, n) == (j % 2 # 0) = (n % 2 = 0)

Picture(n, verdict) ==
  [i \in 0 .. Buffer - 1 |->
     IF i \notin AnimationLeds THEN pixels[i]
     ELSE IF ~Lit(i, n) THEN Black
     ELSE IF verdict = "winner" THEN Green ELSE Red]

\* One round of play_winner_animation() or play_looser_animation(), then it sleeps.
ShowPicture ==
  /\ playing # "none"
  /\ picture < Pictures
  /\ pixels' = Picture(picture, playing)
  /\ leds' = Shows(pixels')
  /\ picture' = picture + 1
  /\ shown' = "game"
  /\ UNCHANGED <<playing, diag, at>>

EndAnimation ==
  /\ playing # "none"
  /\ picture = Pictures
  /\ playing' = "none"
  /\ UNCHANGED <<pixels, leds, picture, diag, at, shown>>

----------------------------------------------------------------------------
(* hwdiag -n                                                               *)

StartDiag ==
  /\ diag = "idle"
  /\ diag' = "lighting"
  /\ at' = 0
  /\ UNCHANGED <<pixels, leds, playing, picture, shown>>

\* for (i = 0; i < 57; i++)
LightLed ==
  /\ diag = "lighting"
  /\ at < LedCount
  /\ pixels' = SetColor(pixels, at, Bright)
  /\ at' = at + 1
  /\ UNCHANGED <<leds, playing, picture, diag, shown>>

\* for (i = 0; i < 55; i++)
Cleared == LedCount - 2

ClearLed ==
  /\ diag = "clearing"
  /\ at < Cleared
  /\ pixels' = SetColor(pixels, at, Black)
  /\ at' = at + 1
  /\ UNCHANGED <<leds, playing, picture, diag, shown>>

ShowDiag ==
  /\ \/ diag = "lighting" /\ at = LedCount /\ diag' = "asleep"
     \/ diag = "clearing" /\ at = Cleared /\ diag' = "idle"
  /\ leds' = Shows(pixels)
  /\ shown' = "hwdiag"
  /\ UNCHANGED <<pixels, playing, picture, at>>

\* xtimer_sleep(3) is over.
DiagWakes ==
  /\ diag = "asleep"
  /\ diag' = "clearing"
  /\ at' = 0
  /\ UNCHANGED <<pixels, leds, playing, picture, shown>>

StripeNext ==
  \/ StartAnimation \/ ShowPicture \/ EndAnimation
  \/ StartDiag \/ LightLed \/ ShowDiag \/ DiagWakes \/ ClearLed

----------------------------------------------------------------------------
(* Correctness.                                                            *)

StripeTypeOK ==
  /\ \A i \in 0 .. Buffer - 1 : pixels[i] \in Color
  /\ \A i \in 0 .. LedCount - 1 : leds[i] \in Color
  /\ picture \in 0 .. Pictures
  /\ at \in 0 .. LedCount

\* The light of the display never goes out: neither the animations nor the
\* diagnosis, however they interleave, ever show another colour there than main()
\* has (main.c 255-260, 135-147, game.c 30, 67).
BacklightKept ==
  \A i \in DisplayLeds : pixels[i] = Bright /\ leds[i] = LedTakes(Pulses(Bright))

\* Every picture of an animation lights every other LED in the verdict's colour,
\* green or red, and nothing else, whatever an unfinished diagnosis has left in
\* the pixels and although red and blue are sent with their bits reversed
\* (game.c 24-96, neopixel.c 75-359).
AnimationSeen ==
  shown = "game" /\ playing # "none" /\ picture > 0 =>
    \A j \in 0 .. LedCount - 3 :
      leds[j] = IF ~Lit(j, picture - 1) THEN Black
                ELSE IF playing = "winner" THEN Green ELSE Red
=============================================================================
