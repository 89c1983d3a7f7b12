------------------------------- MODULE Motors -------------------------------
(***************************************************************************)
(* The two motors (dcmotor.c, motor_controller.c) and those who set their  *)
(* speed: the game thread for a race, and "hwdiag -m" in the shell.        *)
(*                                                                         *)
(* The game thread outranks the shell, so its calls are whole, while it    *)
(* may come between any two register writes of the shell's.                *)
(***************************************************************************)
EXTENDS Integers, Sequences

CONSTANTS
  Freq,         \* the frequency pwm_init() returned (about 1000)
  HalfInt16     \* 2^15

ASSUME MotorsAssumption == Freq \in 1 .. HalfInt16 - 1 /\ HalfInt16 \in Nat

Motors == {"a", "b"}

VARIABLES
  motor,        \* each motor's pins dir_a and dir_b and its duty
  racing,       \* the game thread waits for the press
  calls,        \* what is left of hwdiag -m
  stage         \* the next write of the shell's dcmotor_set_speed()

motor_vars == <<motor, racing, calls, stage>>

Int16(v) == ((v + HalfInt16) % (2 * HalfInt16)) - HalfInt16

----------------------------------------------------------------------------
(* dcmotor_set_speed()                                                     *)

DirA(speed) == speed >= 0
DirB(speed) == speed <= 0

\* freq is unsigned: a speed that stays negative compares as a large number.
Clamp(speed) == IF speed >= Freq \/ speed < 0 THEN Freq ELSE speed

Duty(speed) == IF speed = 0 THEN 0
               ELSE IF speed > 0 THEN Clamp(speed) ELSE Clamp(Int16(-speed))

SetMotor(speed) == [dir_a |-> DirA(speed), dir_b |-> DirB(speed), duty |-> Duty(speed)]

\* Both pins alike short the motor, whatever the duty.
Turns(m) == motor[m].dir_a # motor[m].dir_b /\ motor[m].duty > 0

\* dcmotor_init() leaves the pins low and the duty 0.
MotorsInit ==
  /\ motor = [m \in Motors |-> [dir_a |-> FALSE, dir_b |-> FALSE, duty |-> 0]]
  /\ racing = FALSE
  /\ calls = << >>
  /\ stage = "dir_a"

----------------------------------------------------------------------------
(* The game thread: motor_controller_set_speed().                          *)

StartRace ==
  /\ ~racing
  /\ racing' = TRUE
  /\ motor' = [m \in Motors |-> SetMotor(200)]
  /\ UNCHANGED <<calls, stage>>

\* A press, or the motors' time is over.
StopRace ==
  /\ racing
  /\ racing' = FALSE
  /\ motor' = [m \in Motors |-> SetMotor(0)]
  /\ UNCHANGED <<calls, stage>>

----------------------------------------------------------------------------
(* hwdiag -m                                                               *)

Call(m, speed) == [op |-> "set", motor |-> m, speed |-> speed]

\* Mutant: only motor a is stopped again.
Program_halfStop ==
  <<Call("a", 100), Call("b", 100), [op |-> "sleep"], Call("a", 0)>>

Program ==
  <<Call("a", 100), Call("b", 100), [op |-> "sleep"], Call("a", 0), Call("b", 0)>>

StartDiagM ==
  /\ calls = << >>
  /\ calls' = Program
  /\ UNCHANGED <<motor, racing, stage>>

Setting == calls # << >> /\ Head(calls).op = "set"

WriteDirA ==
  /\ Setting /\ stage = "dir_a"
  /\ motor' = [motor EXCEPT ![Head(calls).motor].dir_a = DirA(Head(calls).speed)]
  /\ stage' = "dir_b"
  /\ UNCHANGED <<racing, calls>>

WriteDirB ==
  /\ Setting /\ stage = "dir_b"
  /\ motor' = [motor EXCEPT ![Head(calls).motor].dir_b = DirB(Head(calls).speed)]
  /\ stage' = "pwm"
  /\ UNCHANGED <<racing, calls>>

WritePwm ==
  /\ Setting /\ stage = "pwm"
  /\ motor' = [motor EXCEPT ![Head(calls).motor].duty = Duty(Head(calls).speed)]
  /\ stage' = "dir_a"
  /\ calls' = Tail(calls)
  /\ UNCHANGED racing

\* xtimer_sleep(3)
SleepOver ==
  /\ calls # << >> /\ Head(calls).op = "sleep"
  /\ calls' = Tail(calls)
  /\ UNCHANGED <<motor, racing, stage>>

MotorsNext ==
  \/ StartRace \/ StopRace
  \/ StartDiagM \/ WriteDirA \/ WriteDirB \/ WritePwm \/ SleepOver

----------------------------------------------------------------------------
(* Correctness.                                                            *)

\* The duty never exceeds what it is clamped to. (That is the frequency, not the
\* resolution; a race asks for 200 of 100 and pwm_set(), a library, cuts it off.)
MotorsTypeOK ==
  /\ \A m \in Motors : motor[m].duty \in 0 .. Freq
  /\ stage \in {"dir_a", "dir_b", "pwm"}

\* When neither the race nor the diagnosis wants them to, the motors do not turn,
\* although the diagnosis writes pins and duty one by one and a race may begin or
\* end between any two of these writes (main.c 109-115, dcmotor.c 54-72,
\* motor_controller.c 60-66).
Quiet == ~racing /\ calls = << >> => \A m \in Motors : ~Turns(m)
=============================================================================
