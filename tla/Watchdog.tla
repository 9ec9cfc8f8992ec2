------------------------------ MODULE Watchdog ------------------------------
(***************************************************************************)
(* The mission against the clock: MainCtrl with its calls (ArmMission),    *)
(* the timer thread, which runs Led_WDG_callback every 200 ms when no more *)
(* urgent thread wants the processor, and the independent watchdog, which  *)
(* that function feeds.  Delay_ms is a busy wait; MainCtrl only gives the  *)
(* processor away in rt_thread_delay.  The unit of time is 10 ms, and a    *)
(* call takes the shortest time that it can take: motors turn and servos   *)
(* are commanded in no time, only the delays in the code are counted, and  *)
(* a byte that is waited for may have come already.                        *)
(***************************************************************************)
EXTENDS ArmMission

CONSTANTS
  Period,   \* of Led_WDG_timer
  TimeOut   \* of the watchdog

VARIABLES
  due,   \* until the function of Led_WDG_timer is due
  left   \* until the watchdog bites

Passed(time, t) == IF t <= time THEN 0 ELSE t - time

\* The arm turns, and the clip opens to Avoid, with an object in the clip only
\* where the action groups wait for it (Wait = true); Ground_PutAction waits
\* before it opens the clip, too.
Busy ==
  IF todo = <<>> THEN 0 ELSE
  CASE Head(todo).op = "clip" /\ Head(todo).state \in {"Grasp", "Release"} -> 45
    [] Head(todo).op = "clip" /\ Head(todo).state = "Avoid" /\ clip = "Grasp" -> 40 + 45
    [] Head(todo).op = "rotate" /\ clip = "Grasp" -> 25
    [] Head(todo).op = "take_raw" -> 70
    [] Head(todo).op = "order" -> IF nowTask = "TaskStart" THEN 2 * 4 ELSE 5 * 4
    [] Head(todo).op \in {"wait", "look"} -> 1
    [] OTHER -> 0

\* The timer thread is kept from running.
Keeps(time) ==
  /\ due' = Passed(time, due)
  /\ left' = Passed(time, left)

\* rt_thread_delay of time: the timer thread runs whenever its timer is due,
\* the first time after due.
Lets(time) ==
  IF time < due
  THEN Keeps(time)
  ELSE LET since == (time - due) % Period
       IN due' = Period - since /\ left' = TimeOut - since

\* The delay that ends a round of MainCtrl_thread_entry, or one of those
\* after TakeRawThree's groups.
Sleep == IF Len(todo) = 1 THEN 3 ELSE 100

Timed ==
  /\ Step
  /\ IF Calls("delay") THEN Lets(Sleep) ELSE Keeps(Busy)

\* What the other threads and the handlers do takes no time here.
Untimed == (Rece \/ Key) /\ UNCHANGED <<due, left>>

TimedInit == Init /\ due = Period /\ left = TimeOut
TimedSpec == TimedInit /\ [][left > 0 /\ (Timed \/ Untimed)]_<<vars, due, left>>
-----------------------------------------------------------------------------
(***************************************************************************)
(* The timer of the LEDs and the watchdog (main.c:80, every 200 ms) feeds  *)
(* the watchdog in time (board.c:175, one second) while the mission goes   *)
(* on as it should.  The shortest way of TakeRawMaterial after a colour    *)
(* has been seen, and of Ground_PutAction and Ground_TakeAction, is longer *)
(* than that second and has no rt_thread_delay in it.                      *)
(***************************************************************************)
Fed == left > 0
=============================================================================
