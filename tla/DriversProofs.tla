--------------------------- MODULE DriversProofs ---------------------------
(***************************************************************************)
(* Theorems about the LED stripe and the motors (MCDrivers, with Stripe    *)
(* and Motors), for every stripe, number of pictures and PWM frequency,    *)
(* and every interleaving of the game thread with the shell's diagnosis.   *)
(***************************************************************************)
EXTENDS MCDrivers, SequenceTheorems, TLAPS

----------------------------------------------------------------------------
(* The motors.                                                             *)

MotorState == [dir_a : BOOLEAN, dir_b : BOOLEAN, duty : 0 .. Freq]

\* hwdiag -m, from each of its statements on.
Rest1 == <<Call("b", 0)>>
Rest2 == <<Call("a", 0), Call("b", 0)>>
Rest3 == <<[op |-> "sleep"], Call("a", 0), Call("b", 0)>>
Rest4 == <<Call("b", 100), [op |-> "sleep"], Call("a", 0), Call("b", 0)>>

\* It has yet to stop the motor.
Owed(m) ==
  \/ calls \in {Rest2, Rest3, Rest4, Program}
  \/ calls = Rest1 /\ m = "b"

\* Quiet is not inductive: it does not tell which motor the diagnosis has turned
\* off already.
MotorsInv ==
  /\ motor \in [Motors -> MotorState]
  /\ stage \in {"dir_a", "dir_b", "pwm"}
  /\ calls \in {<< >>, Rest1, Rest2, Rest3, Rest4, Program}
  /\ ~racing => \A m \in Motors : Turns(m) => Owed(m)

\* The speeds the code asks for fit into every duty.
LEMMA SpeedType ==
  ASSUME NEW speed \in {0, 100, 200}
  PROVE  /\ SetMotor(speed) \in MotorState
         /\ Duty(speed) \in 0 .. Freq /\ DirA(speed) \in BOOLEAN /\ DirB(speed) \in BOOLEAN
BY MotorsAssumption DEF MotorsAssumption, SetMotor, MotorState, Duty, Clamp, DirA, DirB

\* Writing a direction pin.
LEMMA PinWritten ==
  ASSUME NEW m \in MotorState, NEW high \in BOOLEAN
  PROVE  [m EXCEPT !.dir_a = high] \in MotorState /\ [m EXCEPT !.dir_b = high] \in MotorState
BY DEF MotorState

\* What the diagnosis is about to do, and what is left then.
LEMMA Remaining ==
  ASSUME MotorsInv, calls # << >>
  PROVE  /\ Head(calls) \in {Call("a", 0), Call("b", 0), Call("a", 100), Call("b", 100),
                             [op |-> "sleep"]}
         /\ Tail(calls) = IF calls = Program THEN Rest4 ELSE IF calls = Rest4 THEN Rest3
                          ELSE IF calls = Rest3 THEN Rest2 ELSE IF calls = Rest2 THEN Rest1
                          ELSE << >>
         /\ calls = Rest2 => Head(calls) = Call("a", 0)
         /\ calls = Rest1 => Head(calls) = Call("b", 0)
<1>1. CASE calls = Program
  BY <1>1 DEF Program, Rest1, Rest2, Rest3, Rest4
<1>2. CASE calls = Rest4
  BY <1>2 DEF Program, Rest1, Rest2, Rest3, Rest4
<1>3. CASE calls = Rest3
  BY <1>3 DEF Program, Rest1, Rest2, Rest3, Rest4
<1>4. CASE calls = Rest2
  BY <1>4 DEF Program, Rest1, Rest2, Rest3, Rest4
<1>5. CASE calls = Rest1
  BY <1>5 DEF Program, Rest1, Rest2, Rest3, Rest4
<1> QED BY <1>1, <1>2, <1>3, <1>4, <1>5 DEF MotorsInv

\* A function with one value replaced keeps its type and every other value.
LEMMA OneUpdated ==
  ASSUME NEW D, NEW S, NEW f \in [D -> S], NEW d \in D, NEW v \in S
  PROVE  /\ [f EXCEPT ![d] = v] \in [D -> S]
         /\ \A n \in D : n # d => [f EXCEPT ![d] = v][n] = f[n]
OBVIOUS

\* The inductive step of the motors: one action at a time.
LEMMA MotorsStep == ASSUME MotorsInv, MotorsNext PROVE MotorsInv'
<1>1. CASE StartRace
  BY <1>1, SpeedType DEF StartRace, MotorsInv
<1>2. CASE StopRace
  <2>1. motor' \in [Motors -> MotorState]
    BY <1>2, SpeedType DEF StopRace
  <2>2. \A m \in Motors : ~Turns(m)'
    BY <1>2 DEF StopRace, Turns, SetMotor, Duty
  <2> QED BY <1>2, <2>1, <2>2 DEF StopRace, MotorsInv
<1>3. CASE StartDiagM
  BY <1>3 DEF StartDiagM, MotorsInv, Owed, Turns
<1>4. ASSUME Setting
      PROVE  \E m \in Motors, speed \in {0, 100} : Head(calls) = Call(m, speed)
  BY <1>4, Remaining DEF Setting, Call, Motors
<1>5. CASE WriteDirA \/ WriteDirB
  <2>1. PICK m \in Motors, speed \in {0, 100} : Head(calls) = Call(m, speed)
    BY <1>4, <1>5 DEF WriteDirA, WriteDirB
  <2>2. Head(calls).motor = m /\ Head(calls).speed = speed
    BY <2>1 DEF Call
  <2>3. motor' \in [Motors -> MotorState] /\ \A n \in Motors : n # m => motor'[n] = motor[n]
    <3>0. motor \in [Motors -> MotorState] /\ motor[m] \in MotorState
      BY DEF MotorsInv
    <3>1. CASE WriteDirA
      <4> DEFINE set == [motor[m] EXCEPT !.dir_a = DirA(speed)]
      <4>1. motor' = [motor EXCEPT ![m] = set]
        BY <3>1, <2>2 DEF WriteDirA
      <4>2. set \in MotorState
        <5>1. DirA(speed) \in BOOLEAN
          BY DEF DirA
        <5> QED BY <3>0, <5>1, PinWritten
      <4> HIDE DEF set
      <4> QED BY <3>0, <4>1, <4>2, OneUpdated
    <3>2. CASE WriteDirB
      <4> DEFINE set == [motor[m] EXCEPT !.dir_b = DirB(speed)]
      <4>1. motor' = [motor EXCEPT ![m] = set]
        BY <3>2, <2>2 DEF WriteDirB
      <4>2. set \in MotorState
        <5>1. DirB(speed) \in BOOLEAN
          BY DEF DirB
        <5> QED BY <3>0, <5>1, PinWritten
      <4> HIDE DEF set
      <4> QED BY <3>0, <4>1, <4>2, OneUpdated
    <3> QED BY <1>5, <3>1, <3>2
  <2>4. Owed(m) /\ UNCHANGED <<calls, racing>>
    <3>1. calls # << >> /\ UNCHANGED <<calls, racing>>
      BY <1>5 DEF WriteDirA, WriteDirB, Setting
    <3>2. calls = Rest1 => m = "b"
      BY <2>1, <3>1, Remaining DEF Call
    <3> QED BY <3>1, <3>2 DEF Owed, MotorsInv
  <2> QED BY <1>5, <2>3, <2>4 DEF WriteDirA, WriteDirB, MotorsInv, Turns, Owed
<1>6. CASE WritePwm
  <2>1. PICK m \in Motors, speed \in {0, 100} : Head(calls) = Call(m, speed)
    BY <1>4, <1>6 DEF WritePwm
  <2>2. Head(calls).motor = m /\ Head(calls).speed = speed
    BY <2>1 DEF Call
  <2>3. /\ motor' \in [Motors -> MotorState]
        /\ \A n \in Motors : n # m => motor'[n] = motor[n]
        /\ motor'[m].duty = Duty(speed)
    <3> DEFINE set == [motor[m] EXCEPT !.duty = Duty(speed)]
    <3>1. motor' = [motor EXCEPT ![m] = set]
      BY <1>6, <2>2 DEF WritePwm
    <3>2. motor \in [Motors -> MotorState] /\ set \in MotorState /\ set.duty = Duty(speed)
      BY SpeedType DEF MotorsInv, MotorState
    <3> HIDE DEF set
    <3> QED BY <3>1, <3>2
  <2>4. calls # << >> /\ calls' = Tail(calls) /\ UNCHANGED racing
    BY <1>6 DEF WritePwm, Setting
  <2>5. calls' \in {<< >>, Rest1, Rest2, Rest3, Rest4}
    BY <2>4, Remaining
  <2>6. ASSUME ~racing', NEW n \in Motors, Turns(n)' PROVE Owed(n)'
    <3>1. CASE calls \in {Program, Rest4, Rest3}
      BY <3>1, <2>4, Remaining DEF Owed, Program, Rest1, Rest2, Rest3, Rest4
    <3>2. CASE calls = Rest2
      <4>1. m = "a" /\ speed = 0 /\ calls' = Rest1
        BY <2>1, <2>4, <3>2, Remaining DEF Call, Program, Rest1, Rest2, Rest3, Rest4
      <4>2. n # "a"
        BY <2>3, <2>6, <4>1 DEF Turns, Duty
      <4> QED BY <4>1, <4>2 DEF Owed, Motors
    <3>3. CASE calls = Rest1
      <4>1. m = "b" /\ speed = 0
        BY <2>1, <3>3, <2>4, Remaining DEF Call
      <4>2. n # "b"
        BY <2>3, <2>6, <4>1 DEF Turns, Duty
      <4>3. ~Owed(n)
        BY <3>3, <4>2 DEF Owed, Program, Rest1, Rest2, Rest3, Rest4
      <4> QED BY <2>3, <2>4, <2>6, <4>1, <4>2, <4>3 DEF MotorsInv, Turns
    <3> QED BY <2>4, <3>1, <3>2, <3>3 DEF MotorsInv
  <2> QED BY <1>6, <2>3, <2>5, <2>6 DEF WritePwm, MotorsInv
<1>7. CASE SleepOver
  <2>1. calls # << >> /\ Head(calls) = [op |-> "sleep"]
    BY <1>7, Remaining DEF SleepOver, Call
  <2>2. calls \in {Program, Rest4, Rest3} /\ calls' = Tail(calls)
    BY <1>7, <2>1, Remaining DEF SleepOver, MotorsInv, Call
  <2>3. calls' \in {Rest4, Rest3, Rest2}
    BY <2>1, <2>2, Remaining
  <2> QED BY <1>7, <2>3 DEF SleepOver, MotorsInv, Owed, Turns
<1> QED BY <1>1, <1>2, <1>3, <1>5, <1>6, <1>7 DEF MotorsNext

\* MotorsInv is an invariant.
LEMMA MotorsAlways == Spec => []MotorsInv
<1>1. Init => MotorsInv
  BY MotorsAssumption DEF MotorsAssumption, Init, MotorsInit, MotorsInv, MotorState, Turns
<1>2. MotorsInv /\ [Next]_vars => MotorsInv'
  <2> SUFFICES ASSUME MotorsInv, [Next]_vars PROVE MotorsInv'
    OBVIOUS
  <2>1. CASE UNCHANGED motor_vars
    BY <2>1 DEF motor_vars, MotorsInv, Turns, Owed
  <2> QED BY <2>1, MotorsStep DEF Next, vars
<1> QED BY <1>1, <1>2, PTL DEF Spec

\* The motors do not turn unless the race or the diagnosis wants them to (see Quiet).
THEOREM QuietHolds == Spec => []Quiet
<1>1. MotorsInv => Quiet
  BY DEF MotorsInv, Quiet, Owed, Program, Rest1, Rest2, Rest3, Rest4
<1> QED BY <1>1, MotorsAlways, PTL

----------------------------------------------------------------------------
(* The stripe.                                                             *)

\* A pulse longer high than low.
Weight(pulses, n) == IF pulses[n][1] > pulses[n][2] THEN 1 ELSE 0

\* What the sum over a byte's pulses comes to.
LEMMA ValueUnrolled ==
  ASSUME NEW pulses
  PROVE  Value(pulses) =
           128 * Weight(pulses, 1) + 64 * Weight(pulses, 2) + 32 * Weight(pulses, 3)
             + 16 * Weight(pulses, 4) + 8 * Weight(pulses, 5) + 4 * Weight(pulses, 6)
             + 2 * Weight(pulses, 7) + Weight(pulses, 8)
<1> DEFINE w(n) == Weight(pulses, n)
           IsSum(s) == s = [n \in 0 .. 8 |-> IF n = 0 THEN 0 ELSE 2 * s[n - 1] + w(n)]
           total == 128 * w(1) + 64 * w(2) + 32 * w(3) + 16 * w(4) + 8 * w(5) + 4 * w(6)
                      + 2 * w(7) + w(8)
           s1 == w(1)
           s2 == 2 * s1 + w(2)
           s3 == 2 * s2 + w(3)
           s4 == 2 * s3 + w(4)
           s5 == 2 * s4 + w(5)
           s6 == 2 * s5 + w(6)
           s7 == 2 * s6 + w(7)
           s8 == 2 * s7 + w(8)
           f == [n \in 0 .. 8 |->
                   IF n = 0 THEN 0 ELSE IF n = 1 THEN s1 ELSE IF n = 2 THEN s2
                   ELSE IF n = 3 THEN s3 ELSE IF n = 4 THEN s4 ELSE IF n = 5 THEN s5
                   ELSE IF n = 6 THEN s6 ELSE IF n = 7 THEN s7 ELSE s8]
<1>1. \A n \in 1 .. 8 : w(n) \in 0 .. 1
  BY DEF Weight
<1>2. IsSum(f)
  BY <1>1
<1>3. \A s : IsSum(s) => s[8] = total
  BY <1>1
<1>4. IsSum(CHOOSE s : IsSum(s))
  BY <1>2
<1>5. Value(pulses) = (CHOOSE s : IsSum(s))[8]
  BY DEF Value, Weight
<1> HIDE DEF IsSum, total
<1>6. Value(pulses) = total
  BY <1>3, <1>4, <1>5
<1> QED BY <1>6 DEF total

\* Eight pulses make a byte.
LEMMA ValueByte == ASSUME NEW pulses PROVE Value(pulses) \in 0 .. 255
<1>1. \A n \in 1 .. 8 : Weight(pulses, n) \in 0 .. 1
  BY DEF Weight
<1> QED BY <1>1, ValueUnrolled

\* Every LED takes some colour, whatever is sent.
LEMMA ShowsColors ==
  ASSUME NEW all, NEW i \in 0 .. LedCount - 1
  PROVE  /\ Shows(all)[i] = LedTakes(Pulses(all[i]))
         /\ Shows(all)[i] \in Color
BY ValueByte DEF Shows, LedTakes, Color

\* The pulses of a byte, found again in those of its colour.
LEMMA BytesInOrder ==
  ASSUME NEW color \in Color, NEW n \in 1 .. 8
  PROVE  /\ SubSeq(Pulses(color), 1, 8)[n] = GreenPulses(color.g)[n]
         /\ SubSeq(Pulses(color), 9, 16)[n] = RedPulses(color.r)[n]
         /\ SubSeq(Pulses(color), 17, 24)[n] = BluePulses(color.b)[n]
<1> DEFINE Pulse == {<<19, 12>>, <<1, 30>>}
           g == GreenPulses(color.g)
           r == RedPulses(color.r)
           b == BluePulses(color.b)
           gr == g \o r
           all == gr \o b
<1>1. g \in Seq(Pulse) /\ r \in Seq(Pulse) /\ b \in Seq(Pulse)
  BY DEF GreenPulses, RedPulses, BluePulses
<1>2. Len(g) = 8 /\ Len(r) = 8 /\ Len(b) = 8
  BY DEF GreenPulses, RedPulses, BluePulses
<1>3. Pulses(color) = all
  BY DEF Pulses
<1> HIDE DEF g, r, b, Pulse
<1>4. /\ gr \in Seq(Pulse)
      /\ Len(gr) = Len(g) + Len(r)
      /\ \A k \in 1 .. Len(g) + Len(r) : gr[k] = IF k <= Len(g) THEN g[k] ELSE r[k - Len(g)]
  BY <1>1, ConcatProperties
<1> HIDE DEF gr
<1>5. /\ all \in Seq(Pulse)
      /\ Len(all) = Len(gr) + Len(b)
      /\ \A k \in 1 .. Len(gr) + Len(b) : all[k] = IF k <= Len(gr) THEN gr[k] ELSE b[k - Len(gr)]
  BY <1>1, <1>4, ConcatProperties
<1> HIDE DEF all
<1>6. Len(gr) = 16 /\ Len(all) = 24
  BY <1>2, <1>4, <1>5
<1>7. all[n] = g[n] /\ all[n + 8] = r[n] /\ all[n + 16] = b[n]
  <2>1. gr[n] = g[n]
    BY <1>2, <1>4
  <2>2. gr[n + 8] = r[n]
    <3>1. n + 8 \in 1 .. Len(g) + Len(r) /\ ~(n + 8 <= Len(g)) /\ (n + 8) - Len(g) = n
      BY <1>2
    <3> QED BY <1>4, <3>1
  <2>3. all[n] = gr[n] /\ all[n + 8] = gr[n + 8]
    <3>1. /\ n \in 1 .. Len(gr) + Len(b) /\ n <= Len(gr)
          /\ n + 8 \in 1 .. Len(gr) + Len(b) /\ n + 8 <= Len(gr)
      BY <1>2, <1>6
    <3> QED BY <1>5, <3>1
  <2>4. all[n + 16] = b[n]
    <3>1. n + 16 \in 1 .. Len(gr) + Len(b) /\ ~(n + 16 <= Len(gr)) /\ (n + 16) - Len(gr) = n
      BY <1>2, <1>6
    <3> QED BY <1>5, <3>1
  <2> QED BY <2>1, <2>2, <2>3, <2>4
<1>8. /\ SubSeq(all, 1, 8)[n] = all[n]
      /\ SubSeq(all, 9, 16)[n] = all[n + 8]
      /\ SubSeq(all, 17, 24)[n] = all[n + 16]
  BY <1>5, <1>6, SubSeqProperties
<1> QED BY <1>3, <1>7, <1>8 DEF g, r, b

\* No bit of 0 is set and every bit of 255 is: reversed they are the same.
LEMMA SymmetricBytes ==
  ASSUME NEW j \in 0 .. 7
  PROVE  Bit(0, j) = 0 /\ Bit(255, j) = 1
<1>1. j = 0 \/ j = 1 \/ j = 2 \/ j = 3 \/ j = 4 \/ j = 5 \/ j = 6 \/ j = 7
  OBVIOUS
<1> QED BY <1>1 DEF Bit, PowersOf2

\* The animations' colours reach the LEDs as they are.
LEMMA ColorsArrive ==
  ASSUME NEW color \in {Black, Green, Red}
  PROVE  LedTakes(Pulses(color)) = color
<1>1. color \in Color /\ {color.g, color.r, color.b} \subseteq {0, 255}
  BY DEF Black, Green, Red, Color
<1> DEFINE set(v) == IF v = 255 THEN 1 ELSE 0
           g == SubSeq(Pulses(color), 1, 8)
           r == SubSeq(Pulses(color), 9, 16)
           b == SubSeq(Pulses(color), 17, 24)
<1>2. ASSUME NEW n \in 1 .. 8
      PROVE  /\ g[n] = IF color.g = 255 THEN <<19, 12>> ELSE <<1, 30>>
             /\ r[n] = IF color.r = 255 THEN <<19, 12>> ELSE <<1, 30>>
             /\ b[n] = IF color.b = 255 THEN <<19, 12>> ELSE <<1, 30>>
  <2>1. 8 - n \in 0 .. 7 /\ n - 1 \in 0 .. 7
    OBVIOUS
  <2>2. /\ Bit(color.g, 8 - n) = set(color.g)
        /\ Bit(color.r, n - 1) = set(color.r)
        /\ Bit(color.b, n - 1) = set(color.b)
    BY <1>1, <2>1, SymmetricBytes
  <2> QED BY <1>1, <2>2, BytesInOrder DEF GreenPulses, RedPulses, BluePulses
<1> HIDE DEF g, r, b
<1>3. \A n \in 1 .. 8 : /\ Weight(g, n) = set(color.g)
                        /\ Weight(r, n) = set(color.r)
                        /\ Weight(b, n) = set(color.b)
  BY <1>2 DEF Weight
<1>4. Value(g) = 255 * set(color.g) /\ Value(r) = 255 * set(color.r)
      /\ Value(b) = 255 * set(color.b)
  <2>1. Value(g) = 255 * set(color.g)
    BY <1>3, ValueUnrolled
  <2>2. Value(r) = 255 * set(color.r)
    BY <1>3, ValueUnrolled
  <2>3. Value(b) = 255 * set(color.b)
    BY <1>3, ValueUnrolled
  <2> QED BY <2>1, <2>2, <2>3
<1>5. Value(g) = color.g /\ Value(r) = color.r /\ Value(b) = color.b
  BY <1>1, <1>4
<1>6. LedTakes(Pulses(color)) = [g |-> color.g, r |-> color.r, b |-> color.b]
  BY <1>5 DEF LedTakes, g, r, b
<1> QED BY <1>6 DEF Black, Green, Red

----------------------------------------------------------------------------

StripeInv ==
  /\ StripeTypeOK
  /\ BacklightKept
  /\ AnimationSeen
  /\ pixels \in [0 .. Buffer - 1 -> Color]
  /\ playing \in {"none", "winner", "looser"}

\* main() lights the display's LEDs and no other.
LEMMA StripeStarts == StripeInit => StripeInv
<1> SUFFICES ASSUME StripeInit PROVE StripeInv
  OBVIOUS
<1> USE StripeAssumption DEF StripeAssumption
<1>1. pixels \in [0 .. Buffer - 1 -> Color]
  BY DEF StripeInit, Bright, Black, Color
<1>2. \A i \in 0 .. LedCount - 1 : leds[i] \in Color /\ leds[i] = LedTakes(Pulses(pixels[i]))
  BY ShowsColors DEF StripeInit
<1>3. \A i \in DisplayLeds : i \in 0 .. LedCount - 1 /\ pixels[i] = Bright
  BY DEF StripeInit, DisplayLeds
<1>4. StripeTypeOK
  BY <1>1, <1>2 DEF StripeInit, StripeTypeOK
<1>5. BacklightKept
  BY <1>2, <1>3 DEF BacklightKept
<1>6. AnimationSeen
  BY DEF StripeInit, AnimationSeen
<1> QED BY <1>1, <1>4, <1>5, <1>6 DEF StripeInv, StripeInit

\* The inductive step of the stripe: one action at a time.
LEMMA StripeStep == ASSUME StripeInv, StripeNext PROVE StripeInv'
<1> USE StripeAssumption DEF StripeAssumption
<1>1. \A i \in DisplayLeds : i \in 0 .. LedCount - 1 /\ i \in 0 .. Buffer - 1
  BY DEF DisplayLeds
<1>2. Bright \in Color /\ Black \in Color /\ Green \in Color /\ Red \in Color
  BY DEF Bright, Black, Green, Red, Color
<1>3. CASE StartAnimation \/ EndAnimation \/ StartDiag \/ DiagWakes
  <2>1. /\ UNCHANGED <<pixels, leds, shown>> /\ playing' \in {"none", "winner", "looser"}
        /\ picture' \in {0, picture} /\ at' \in {0, at}
        /\ playing' = "none" \/ picture' = 0 \/ UNCHANGED <<playing, picture>>
    BY <1>3 DEF StartAnimation, EndAnimation, StartDiag, DiagWakes, StripeInv
  <2>2. StripeTypeOK' /\ BacklightKept'
    BY <2>1 DEF StripeInv, StripeTypeOK, BacklightKept
  <2>3. AnimationSeen'
    BY <2>1 DEF StripeInv, AnimationSeen
  <2> QED BY <2>1, <2>2, <2>3 DEF StripeInv
<1>4. CASE ShowPicture
  <2>1. pixels' \in [0 .. Buffer - 1 -> Color]
    BY <1>2, <1>4 DEF ShowPicture, Picture, StripeInv
  <2>2. \A i \in 0 .. LedCount - 1 : leds'[i] \in Color /\ leds'[i] = LedTakes(Pulses(pixels'[i]))
    BY <1>4, ShowsColors DEF ShowPicture
  <2>3. \A i \in DisplayLeds : pixels'[i] = Bright
    BY <1>1, <1>4 DEF ShowPicture, Picture, AnimationLeds, DisplayLeds, StripeInv, BacklightKept
  <2>4. StripeTypeOK'
    <3>1. picture' \in 0 .. Pictures /\ at' \in 0 .. LedCount
      BY <1>4 DEF ShowPicture, StripeInv, StripeTypeOK
    <3>2. \A i \in 0 .. Buffer - 1 : pixels'[i] \in Color
      BY <2>1
    <3> QED BY <2>2, <3>1, <3>2 DEF StripeTypeOK
  <2>5. BacklightKept'
    BY <1>1, <2>2, <2>3 DEF BacklightKept
  <2>6. AnimationSeen'
    <3> SUFFICES ASSUME NEW j \in 0 .. LedCount - 3
                 PROVE  leds'[j] = IF ~Lit(j, picture' - 1) THEN Black
                                   ELSE IF playing' = "winner" THEN Green ELSE Red
      BY DEF AnimationSeen
    <3>1. picture' - 1 = picture /\ playing' = playing
      BY <1>4 DEF ShowPicture, StripeInv, StripeTypeOK
    <3>2. pixels'[j] = IF ~Lit(j, picture) THEN Black
                       ELSE IF playing = "winner" THEN Green ELSE Red
      BY <1>4 DEF ShowPicture, Picture, AnimationLeds
    <3>3. LedTakes(Pulses(pixels'[j])) = pixels'[j]
      BY <3>2, ColorsArrive
    <3> QED BY <2>2, <3>1, <3>2, <3>3
  <2> QED BY <1>4, <2>1, <2>4, <2>5, <2>6 DEF StripeInv, ShowPicture
<1>5. CASE LightLed \/ ClearLed
  <2>1. PICK color \in {Bright, Black} :
          /\ pixels' = SetColor(pixels, at, color)
          /\ at' = at + 1 /\ at < LedCount
          /\ color = Black => at < LedCount - 2
          /\ UNCHANGED <<leds, playing, picture, shown>>
    <3>1. Bright # Black
      BY DEF Bright, Black
    <3>2. at \in 0 .. LedCount
      BY DEF StripeInv, StripeTypeOK
    <3>3. CASE LightLed
      BY <3>1, <3>3 DEF LightLed
    <3>4. CASE ClearLed
      BY <3>2, <3>4 DEF ClearLed, Cleared
    <3> QED BY <1>5, <3>3, <3>4
  <2>2. at \in 0 .. LedCount - 1
    BY <2>1 DEF StripeInv, StripeTypeOK
  <2>3. pixels' = [pixels EXCEPT ![at] = color]
    BY <2>1, <2>2 DEF SetColor
  <2>4. pixels' \in [0 .. Buffer - 1 -> Color]
    BY <1>2, <2>3 DEF StripeInv
  <2>5. \A i \in DisplayLeds : pixels'[i] = Bright
    BY <1>1, <2>1, <2>2, <2>3 DEF DisplayLeds, StripeInv, BacklightKept
  <2> QED
    BY <2>1, <2>2, <2>4, <2>5 DEF StripeInv, StripeTypeOK, BacklightKept, AnimationSeen
<1>6. CASE ShowDiag
  <2>1. \A i \in 0 .. LedCount - 1 : leds'[i] \in Color /\ leds'[i] = LedTakes(Pulses(pixels[i]))
    BY <1>6, ShowsColors DEF ShowDiag
  <2>2. StripeTypeOK'
    BY <1>6, <2>1 DEF ShowDiag, StripeInv, StripeTypeOK
  <2>3. BacklightKept'
    BY <1>1, <1>6, <2>1 DEF ShowDiag, StripeInv, BacklightKept
  <2> QED BY <1>6, <2>2, <2>3 DEF ShowDiag, StripeInv, AnimationSeen
<1> QED BY <1>3, <1>4, <1>5, <1>6 DEF StripeNext

\* StripeInv is an invariant.
LEMMA StripeAlways == Spec => []StripeInv
<1>1. Init => StripeInv
  BY StripeStarts DEF Init
<1>2. StripeInv /\ [Next]_vars => StripeInv'
  <2> SUFFICES ASSUME StripeInv, [Next]_vars PROVE StripeInv'
    OBVIOUS
  <2>1. CASE UNCHANGED stripe_vars
    BY <2>1 DEF stripe_vars, StripeInv, StripeTypeOK, BacklightKept, AnimationSeen
  <2> QED BY <2>1, StripeStep DEF Next, vars
<1> QED BY <1>1, <1>2, PTL DEF Spec

\* The light of the display never goes out (see BacklightKept).
THEOREM BacklightKeptHolds == Spec => []BacklightKept
<1>1. StripeInv => BacklightKept
  BY DEF StripeInv
<1> QED BY <1>1, StripeAlways, PTL

\* Every picture of an animation shows the verdict's colour (see AnimationSeen).
THEOREM AnimationSeenHolds == Spec => []AnimationSeen
<1>1. StripeInv => AnimationSeen
  BY DEF StripeInv
<1> QED BY <1>1, StripeAlways, PTL
=============================================================================
