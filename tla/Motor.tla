-------------------------------- MODULE Motor --------------------------------
(***************************************************************************)
(* Motor.c: the motions of the lift and of the turn, down to the pulse.    *)
(* Two threads call them, MainCtrl and, for a Bluetooth command,           *)
(* UsartRece; both drive the one timer TIM8 and wait for the one flag its  *)
(* handler raises, and share the static height of the lift.                *)
(*                                                                         *)
(* The angle of the lift motor is kept as the height it stands for, that   *)
(* of the turn motor in pulses.                                            *)
(***************************************************************************)
EXTENDS Integers

CONSTANTS
  Zero, Lowest,   \* ZeroHeight, LowestHeight
  Jog, Slack,     \* the 50 and the 25 of Rise and Fall
  HeightOf,       \* the heights of the other positions of Lifting
  VisionPulses,   \* how far the turn motor is from Reset_R at Vision, in pulses
  Num, Den,       \* Num / Den pulses to a unit of height
  Rev,            \* the pulses of a revolution
  SjLength,       \* sj_length: the pulses of the slow-down of the lift
  WordSize        \* 2 ^ the bits of an unsigned int

Curved  == {"Places", "Stack"}       \* driven by MotorAngleCtrl_S
Lifting == DOMAIN HeightOf \cup {"Rise", "Fall"}
Lift == 2                            \* MOTOR_ID_2
Turn == 1                            \* MOTOR_ID_1
Thread == {"MainCtrl", "UsartRece"}
NULL == "none"

\* pulse_num: truncated towards zero.
Pulses(d) == IF d >= 0 THEN (Num * d) \div Den ELSE -((Num * (-d)) \div Den)

ASSUME HeightAssumption ==
  /\ Zero \in Nat /\ Lowest \in Nat /\ Jog \in Nat /\ Slack \in Nat
  /\ Jog + Slack <= Lowest /\ Lowest <= Zero
  /\ HeightOf \in [DOMAIN HeightOf -> Lowest..Zero]
  /\ Curved \subseteq DOMAIN HeightOf
ASSUME PulseAssumption ==
  /\ VisionPulses \in Nat /\ Num \in Nat /\ Den \in Nat \ {0} /\ Rev \in Nat \ {0}
  /\ SjLength \in Nat /\ WordSize \in Nat \ {0}
\* No way of the lift has as many pulses as a word can count.
ASSUME WordAssumption ==
  SjLength <= WordSize /\ \A d \in 0..(Zero - Lowest) : Pulses(d) < WordSize

VARIABLES
  heightNow,  \* the static of MotorMotion_Lift
  angle,      \* motor.id[].angle
  dir,        \* the direction pins: 1 is forward (up)
  channel,    \* the motor whose compare register is not zero, or 0
  idMotor,    \* id_motor: 1 counts steps, 0 stops after each
  stepMax,    \* motor.step_max
  sign,       \* motor.sign_1_ok_step
  timer,      \* TIM8 is enabled
  count,      \* the static step of the handler
  call,       \* the motion each thread is in
  mux,        \* Action_mux->owner
  known       \* history: HeightNow and the angle of the lift belong together

tim8 == <<dir, channel, idMotor, stepMax, sign, timer, count>>
vars == <<heightNow, angle, tim8, call, mux, known>>

\* A motion: how far it is, the motor, the part it is in, where to, the pulses
\* computed for it (n) and those left (rest).  Two are history: whether it has
\* had the drive to itself from the beginning, and the pulses the motor has made
\* for it as long as it has.
NoCall == [at |-> "idle", id |-> Lift, part |-> "curve", target |-> 0,
           n |-> 0, rest |-> 0, made |-> 0, alone |-> TRUE]

Call == [at : {"idle", "mutex", "aim", "set", "drive", "wait", "ack", "end"},
         id : {Lift, Turn}, part : {"curve", "rounds", "last"},
         target : Int, n : Int, rest : Nat, made : Int, alone : BOOLEAN]

Moving(t) == call[t].at \notin {"idle", "mutex"}

\* A motion upwards that MotorAngleCtrl_S does not make (once n is computed).
Refused(c) == c.part = "curve" /\ c.id = Lift /\ c.n >= 0

\* MainCtrl, of the higher priority, is in rt_thread_delay or waits for the mutex.
Runs(t) == t = "MainCtrl" \/ call["MainCtrl"].at \in {"idle", "mutex"}

At(t, at) == Runs(t) /\ call[t].at = at

Init ==
  /\ heightNow = Zero /\ angle = [m \in {Lift, Turn} |-> IF m = Lift THEN Zero ELSE 0]
  /\ dir = [m \in {Lift, Turn} |-> 1] /\ channel = 0
  /\ idMotor = 0 /\ stepMax = Rev /\ sign = FALSE /\ timer = FALSE /\ count = 0
  /\ call = [t \in Thread |-> NoCall]
  /\ mux = NULL /\ known = TRUE
-----------------------------------------------------------------------------
(***************************************************************************)
(* Action_mux, around each group of motions.                               *)
(***************************************************************************)
Take(t) ==
  /\ At(t, "idle") /\ mux # t
  /\ IF mux = NULL THEN mux' = t /\ UNCHANGED call
                   ELSE call' = [call EXCEPT ![t].at = "mutex"] /\ UNCHANGED mux
  /\ UNCHANGED <<heightNow, angle, tim8, known>>

Release(t) ==
  /\ At(t, "idle") /\ mux = t
  /\ IF \E w \in Thread : call[w].at = "mutex"
     THEN \E w \in Thread : /\ call[w].at = "mutex"
                            /\ mux' = w /\ call' = [call EXCEPT ![w].at = "idle"]
     ELSE mux' = NULL /\ UNCHANGED call
  /\ UNCHANGED <<heightNow, angle, tim8, known>>

\* In GoStaging and GoStag2 MainCtrl resets the arm without the mutex.
Allowed(t, reset) == mux = t \/ (t = "MainCtrl" /\ reset)
-----------------------------------------------------------------------------
(***************************************************************************)
(* The motions.                                                            *)
(***************************************************************************)
NewHeight(pos) ==
  CASE pos = "Rise" -> IF heightNow + Jog > Zero + Slack THEN Zero ELSE heightNow + Jog
    [] pos = "Fall" -> IF heightNow - Jog < Lowest - Slack THEN Lowest ELSE heightNow - Jog
    [] OTHER -> HeightOf[pos]

\* Mutant: every height is driven to; the top is not.
Inside_Any(h) == TRUE
Inside_Below(h) == Lowest <= h /\ h < Zero

\* Only heights of this range are driven to, but for Places and Stack.
Inside(h) == Lowest <= h /\ h <= Zero

\* The drive is at rest, and no other motion under way.
AtRest == ~timer /\ ~sign /\ count = 0
Apart(t) == AtRest /\ \A u \in Thread \ {t} : ~Moving(u)

\* A motion begins; one that it preempts is not alone any more.
Begun(t, c) ==
  call' = [u \in Thread |-> IF u = t THEN [c EXCEPT !.alone = Apart(t)]
                            ELSE IF Moving(u) THEN [call[u] EXCEPT !.alone = FALSE, !.made = 0]
                            ELSE call[u]]

LiftCall(pos) ==
  [NoCall EXCEPT !.at = "aim", !.target = NewHeight(pos),
                 !.part = IF pos \in Curved THEN "curve" ELSE "rounds"]

MotorMotion_Lift(t, pos) ==
  /\ At(t, "idle") /\ Allowed(t, pos = "Reset_L")
  /\ heightNow' = NewHeight(pos)
  /\ IF pos \in Curved \/ Inside(NewHeight(pos))
     THEN /\ Begun(t, LiftCall(pos))
          /\ known' = (known /\ \A u \in Thread : Moving(u) => call[u].id = Turn)
     ELSE UNCHANGED <<call, known>>
  /\ UNCHANGED <<angle, tim8, mux>>

TurnCall(pos) ==
  [NoCall EXCEPT !.at = "aim", !.id = Turn, !.target = IF pos = "Vision" THEN -VisionPulses ELSE 0]

MotorMotion_Rotate(t, pos) ==
  /\ At(t, "idle") /\ Allowed(t, pos = "Reset_R")
  /\ Begun(t, TurnCall(pos))
  /\ UNCHANGED <<heightNow, angle, tim8, mux, known>>

\* The loops of MotorSpeedCtrl_S: pulse_num - sj_length is unsigned for the lift.
CurvePulses(id, n) == IF id = Turn THEN n ELSE ((n - SjLength) % WordSize) + SjLength

(***************************************************************************)
(* MotorAngleCtrl and MotorAngleCtrl_S up to their loops.  The latter does *)
(* not drive the lift upwards.                                             *)
(***************************************************************************)
Aim(t) ==
  /\ At(t, "aim")
  /\ LET c == call[t]
         n == IF c.id = Lift THEN Pulses(c.target - angle[Lift]) ELSE c.target - angle[Turn]
         size == IF n >= 0 THEN n ELSE -n
         refused == c.part = "curve" /\ c.id = Lift /\ n >= 0
     IN /\ idMotor' = IF c.part = "curve" THEN 0 ELSE 1
        /\ dir' = [dir EXCEPT ![c.id] = IF n >= 0 THEN 1 ELSE -1]
        /\ channel' = IF refused THEN channel ELSE c.id
        /\ call' = [call EXCEPT ![t] = [c EXCEPT
                      !.at = IF refused THEN "end" ELSE "set", !.n = n, !.made = 0,
                      !.target = IF refused THEN angle[Lift] ELSE c.target,
                      !.rest = IF refused THEN 0
                               ELSE IF c.part = "curve" THEN CurvePulses(c.id, size) ELSE size]]
        /\ known' = (known /\ ~refused)
  /\ UNCHANGED <<heightNow, angle, stepMax, sign, timer, count, mux>>

\* The pulses of one start of the timer.
Size(c) == CASE c.part = "curve"  -> 1
             [] c.part = "rounds" -> Rev
             [] c.part = "last"   -> c.rest

\* Where a motion goes on: circle_control, then step_control, or the curve.
OnTo(c) ==
  CASE c.part = "curve"  -> [c EXCEPT !.at = IF c.rest = 0 THEN "end" ELSE "drive"]
    [] c.part = "rounds" -> IF c.rest >= Rev THEN [c EXCEPT !.at = "drive"]
                                             ELSE [c EXCEPT !.at = "set", !.part = "last"]
    [] c.part = "last"   -> [c EXCEPT !.at = "drive"]

SetSteps(t) ==
  /\ At(t, "set")
  /\ stepMax' = Size(call[t])
  /\ call' = [call EXCEPT ![t] = OnTo(@)]
  /\ UNCHANGED <<heightNow, angle, dir, channel, idMotor, sign, timer, count, mux, known>>

Drive(t) ==
  /\ At(t, "drive")
  /\ timer' = TRUE
  /\ call' = [call EXCEPT ![t].at = "wait"]
  /\ UNCHANGED <<heightNow, angle, dir, channel, idMotor, stepMax, sign, count, mux, known>>

\* while(!motor.sign_1_ok_step);
Wait(t) ==
  /\ At(t, "wait") /\ sign
  /\ call' = [call EXCEPT ![t].at = "ack"]
  /\ UNCHANGED <<heightNow, angle, tim8, mux, known>>

\* A motion after one start of the timer.
Driven(c) == IF c.part = "last" THEN [c EXCEPT !.at = "end", !.rest = 0]
                               ELSE OnTo([c EXCEPT !.rest = c.rest - Size(c)])

\* Mutant: the flag is not set back.
Ack_NoReset(t) ==
  /\ At(t, "ack")
  /\ call' = [call EXCEPT ![t] = Driven(call[t])]
  /\ UNCHANGED <<heightNow, angle, tim8, mux, known>>

Ack(t) ==
  /\ At(t, "ack")
  /\ sign' = FALSE
  /\ call' = [call EXCEPT ![t] = Driven(call[t])]
  /\ UNCHANGED <<heightNow, angle, dir, channel, idMotor, stepMax, timer, count, mux, known>>

End(t) ==
  /\ At(t, "end")
  /\ angle' = [angle EXCEPT ![call[t].id] = call[t].target]
  /\ call' = [call EXCEPT ![t] = NoCall]
  /\ known' = (known \/ (call[t].id = Lift /\ call[t].alone /\ ~Refused(call[t])))
  /\ UNCHANGED <<heightNow, tim8, mux>>

\* Mutant: the flag is only raised where steps are counted.
Tick_NoFlag(done) ==
  /\ timer
  /\ sign' = (sign \/ (done /\ idMotor = 1)) /\ timer' = ~done
  /\ call' = [t \in Thread |->
                IF Moving(t) /\ call[t].alone /\ call[t].id = channel
                THEN [call[t] EXCEPT !.made = @ + dir[channel]] ELSE call[t]]
  /\ UNCHANGED <<heightNow, angle, dir, channel, idMotor, stepMax, mux, known>>

\* What the handler does with a pulse that completes the steps or does not.
Tick(done) ==
  /\ timer
  /\ sign' = (sign \/ done) /\ timer' = ~done
  /\ call' = [t \in Thread |->
                IF Moving(t) /\ call[t].alone /\ call[t].id = channel
                THEN [call[t] EXCEPT !.made = @ + dir[channel]] ELSE call[t]]
  /\ UNCHANGED <<heightNow, angle, dir, channel, idMotor, stepMax, mux, known>>

\* A period of TIM8: one pulse, and MOTOR_TIMER_IT_FUNC.
TIM8_UP_IRQHandler ==
  LET done == idMotor = 0 \/ count + 1 >= stepMax IN
  /\ Tick(done)
  /\ count' = IF idMotor = 0 THEN count ELSE IF done THEN 0 ELSE count + 1
-----------------------------------------------------------------------------
Begin(t) ==
  \/ \E pos \in Lifting : MotorMotion_Lift(t, pos)
  \/ \E pos \in {"Reset_R", "Vision"} : MotorMotion_Rotate(t, pos)

Step(t) == Aim(t) \/ SetSteps(t) \/ Drive(t) \/ Wait(t) \/ Ack(t) \/ End(t)

\* A wait keeps the thread that feeds the watchdog from running: one that is too
\* long ends in a reset.
WatchdogReset ==
  /\ \E t \in Thread : At(t, "wait")
  /\ heightNow' = Zero /\ angle' = [m \in {Lift, Turn} |-> IF m = Lift THEN Zero ELSE 0]
  /\ dir' = [m \in {Lift, Turn} |-> 1] /\ channel' = 0
  /\ idMotor' = 0 /\ stepMax' = Rev /\ sign' = FALSE /\ timer' = FALSE /\ count' = 0
  /\ call' = [t \in Thread |-> NoCall]
  /\ mux' = NULL /\ known' = TRUE

Next == \/ \E t \in Thread : Take(t) \/ Release(t) \/ Begin(t) \/ Step(t)
        \/ TIM8_UP_IRQHandler \/ WatchdogReset

Spec == Init /\ [][Next]_vars

(***************************************************************************)
(* The timer runs; the highest thread goes on with its motion, the other   *)
(* one whenever the first is in rt_thread_delay.  Nothing is expected of   *)
(* the watchdog.                                                           *)
(***************************************************************************)
FairSpec ==
  /\ Spec
  /\ WF_vars(TIM8_UP_IRQHandler) /\ WF_vars(Step("MainCtrl")) /\ SF_vars(Step("UsartRece"))
-----------------------------------------------------------------------------
\* The types; the handler's static step stays within a revolution.
TypeOK ==
  /\ heightNow \in (Lowest - Slack)..(Zero + Slack)
  /\ angle \in [{Lift, Turn} -> Int]
  /\ dir \in [{Lift, Turn} -> {-1, 1}] /\ channel \in {0, Lift, Turn}
  /\ idMotor \in {0, 1} /\ stepMax \in 0..Rev /\ sign \in BOOLEAN /\ timer \in BOOLEAN
  /\ count \in 0..(Rev - 1)
  /\ call \in [Thread -> Call] /\ mux \in Thread \cup {NULL} /\ known \in BOOLEAN

(***************************************************************************)
(* The pulses a motion makes: those computed for it, but none for a motion *)
(* that is refused, and a whole word too many on a way down that is        *)
(* shorter than the slow-down, because pulse_num - sj_length wraps         *)
(* (Motor.c:316).                                                          *)
(***************************************************************************)
Asked(c) ==
  CASE Refused(c) -> 0
    [] c.part = "curve" /\ c.id = Lift /\ c.n < 0 /\ -c.n < SjLength -> c.n - WordSize
    [] OTHER -> c.n

(***************************************************************************)
(* A motion that has the drive to itself from beginning to end makes these *)
(* pulses, up to the one that a start of the timer for no step still       *)
(* makes, and leaves the drive at rest for the next one: no timer, no flag *)
(* and no step of it remains.                                              *)
(***************************************************************************)
StepsMade ==
  \A t \in Thread : call[t].at = "end" /\ call[t].alone
    => AtRest /\ call[t].made - Asked(call[t]) \in -1..1

(***************************************************************************)
(* When no motion is under way and HeightNow is a height of the lift, it   *)
(* is the angle recorded for the lift, whatever has been jogged before.    *)
(* Two things part them, until the next motion of the lift that is alone   *)
(* and made: a motion upwards to Places or Stack, which is refused after   *)
(* HeightNow has been written, and a reset that preempts a Bluetooth       *)
(* motion of the lift.                                                     *)
(***************************************************************************)
HeightKnown ==
  known /\ (\A t \in Thread : ~Moving(t)) /\ heightNow \in Lowest..Zero
    => angle[Lift] = heightNow

\* The lift is never sent beyond its ends.
InRange == angle[Lift] \in Lowest..Zero

(***************************************************************************)
(* The flag a motion waits for is raised for it, and nobody else takes it  *)
(* ("wait for the flag that the steps are done", Motor.c:236): MainCtrl's  *)
(* motions end, also one that preempts another or begins on what another   *)
(* has left, and so do those of a Bluetooth command that have the drive to *)
(* themselves.                                                             *)
(***************************************************************************)
MotionEnds ==
  \A t \in Thread :
    call[t].at = "aim" ~> call[t].at = "idle" \/ (t = "UsartRece" /\ ~call[t].alone)
-----------------------------------------------------------------------------
(***************************************************************************)
(* What the comments promise and the code does not do.                     *)
(***************************************************************************)

(***************************************************************************)
(* Motor.c:258, "speeding up and slowing down, all cases of motion         *)
(* included": a curve makes the pulses computed for it.                    *)
(***************************************************************************)
CurveMakesAll ==
  \A t \in Thread : call[t].at = "end" /\ call[t].alone /\ call[t].part = "curve"
    => call[t].made = call[t].n

(***************************************************************************)
(* Motor.c:236, "wait for the flag that the steps are done": the motion of *)
(* a Bluetooth command ends too.  It waits for ever when a reset of        *)
(* MainCtrl has taken its flag.                                            *)
(***************************************************************************)
EveryMotionEnds == \A t \in Thread : call[t].at = "aim" ~> call[t].at = "idle"
=============================================================================
