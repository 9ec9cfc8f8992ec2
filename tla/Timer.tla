-------------------------------- MODULE Timer --------------------------------
(***************************************************************************)
(* The timers of the kernel (Rtos/RT-Thread/src/timer.c): the tick, the    *)
(* list of hard timers that the tick's interrupt looks at, on which are    *)
(* the timers of sleeping threads, the list of soft timers, and the timer  *)
(* thread, which sleeps until the first of them is due and calls its       *)
(* function.  Led_WDG_timer, whose function feeds the watchdog, is a soft  *)
(* timer.  Ticks are unsigned words and wrap around.  The skip list has    *)
(* one level.                                                              *)
(***************************************************************************)
EXTENDS Integers, SequencesExt, FiniteSetsExt

CONSTANTS
  Soft,        \* soft timers
  Hard,        \* the timers of threads other than the timer thread
  Own,         \* the timer of the timer thread
  None,        \* not a timer
  Period,      \* init_tick of each soft timer
  Periodic,    \* the soft timers that are RT_TIMER_FLAG_PERIODIC
  SleepTimes,  \* the times threads sleep for
  TickMax,     \* RT_TICK_MAX
  Late         \* ticks that the timer thread may be kept from going on

Timers == Soft \cup Hard \cup {Own}
Word   == TickMax + 1
Half   == TickMax \div 2

ASSUME TimerAssumption ==
  /\ TickMax \in Nat /\ TickMax >= 4 /\ Late \in Nat
  /\ Period \in [Soft -> 1 .. Half - 1] /\ Periodic \subseteq Soft
  /\ SleepTimes \subseteq 0 .. Half - 1
  /\ \A t \in Soft : Late + Period[t] <= Half
  /\ Soft \cap Hard = {} /\ Own \notin Soft \cup Hard /\ None \notin Timers

VARIABLES
  tick,          \* rt_tick
  list,          \* rt_timer_list, rt_soft_timer_list
  timeout_tick,  \* of each timer that is activated
  activated,     \* the timers with RT_TIMER_FLAG_ACTIVATED
  pc,            \* where the timer thread is
  next,          \* next_timeout, until it has been used
  running,       \* the timer whose function is called
  temp,          \* it is still on the local list of rt_soft_timer_check
  late,          \* ticks since the timer thread has last gone on
  left,          \* history: the time that each of them has left, or is late by
  fooled         \* history: the thread sleeps since it took a timeout at
                 \* RT_TICK_MAX for an empty list

data == <<list, timeout_tick, activated>>
vars == <<tick, data, pc, next, running, temp, late, left, fooled>>

(***************************************************************************)
(* The timer thread is at: "next" the loop's start; "decide" it has read   *)
(* the next timeout; "delay" it is about to sleep for next; "sleep"        *)
(* suspended, with or without its timer; "check" about to look at the      *)
(* list; "call" in a timer's function; "again" back from it, with the      *)
(* interrupts disabled.                                                    *)
(***************************************************************************)
PC == {"next", "decide", "delay", "sleep", "check", "call", "again"}

KindOf(t) == IF t \in Soft THEN "soft" ELSE "hard"

\* Mutant: the difference of two ticks is signed.
Minus_Signed(a, b) == a - b

\* The difference of two ticks.
Minus(a, b) == (a - b) % Word

\* Mutant: one tick too early.
Due_Early(t, now) == Minus(now + 1, timeout_tick[t]) < Half

Due(t, now) == Minus(now, timeout_tick[t]) < Half

(***************************************************************************)
(* Removing a timer, and rt_timer_start's insertion: before the first that *)
(* is due later, at most half a turn.                                      *)
(***************************************************************************)
Without(t) == [k \in DOMAIN list |-> RemoveFirst(list[k], t)]

\* The timers in off are no longer activated.
TurnOff(off) ==
  /\ activated' = activated \ off
  /\ timeout_tick' = [t \in Timers |-> IF t \in off THEN 0 ELSE timeout_tick[t]]
  /\ left' = [t \in Timers |-> IF t \in off THEN 0 ELSE left[t]]

\* Mutant: the ticks are compared as numbers.
Insert_Compare(seq, t, when) ==
  LET later == {i \in DOMAIN seq : timeout_tick[seq[i]] > when}
  IN IF later = {} THEN Append(seq, t) ELSE InsertAt(seq, Min(later), t)

Insert(seq, t, when) ==
  LET later == {i \in DOMAIN seq : Minus(timeout_tick[seq[i]], when) \in 1 .. Half - 1}
  IN IF later = {} THEN Append(seq, t) ELSE InsertAt(seq, Min(later), t)

\* rt_timer_start of t with init_tick.
rt_timer_start(t, init_tick) ==
  LET when == (tick + init_tick) % Word
  IN /\ list' = [Without(t) EXCEPT ![KindOf(t)] = Insert(@, t, when)]
     /\ timeout_tick' = [timeout_tick EXCEPT ![t] = when]
     /\ activated' = activated \cup {t}
     /\ left' = [left EXCEPT ![t] = init_tick]

Init ==
  /\ tick = 0 /\ list = [hard |-> <<>>, soft |-> <<>>]
  /\ timeout_tick = [t \in Timers |-> 0] /\ activated = {}
  /\ pc = "next" /\ next = 0 /\ running = None /\ temp = FALSE
  /\ late = 0 /\ left = [t \in Timers |-> 0] /\ fooled = FALSE

Unmasked == pc # "again"

-----------------------------------------------------------------------------
(***************************************************************************)
(* The tick's interrupt: rt_tick_increase and rt_timer_check.  Every       *)
(* function of a hard timer is rt_thread_timeout.  Late bounds how long    *)
(* the timer thread is kept from a step, and how late a soft timer gets    *)
(* when it is fooled.  The other bound is that no soft timer is so late    *)
(* that one that is started then would be put before it; it is not met     *)
(* (DueIsCalled).                                                          *)
(***************************************************************************)
Tick ==
  LET now == (tick + 1) % Word
      hard == list["hard"]
      waits == {i \in DOMAIN hard : ~Due(hard[i], now)}
      n == IF waits = {} THEN Len(hard) ELSE Min(waits) - 1
      fired == {hard[i] : i \in 1 .. n}
  IN /\ Unmasked /\ (pc # "sleep" => late < Late)
     /\ \A t \in Soft \cap activated, u \in Soft :
          left[t] > IF fooled THEN -Late ELSE Period[u] - Half - 1
     /\ tick' = now
     /\ list' = [list EXCEPT !["hard"] = SubSeq(@, n + 1, Len(@))]
     /\ activated' = activated \ fired
     /\ timeout_tick' = [t \in Timers |-> IF t \in fired THEN 0 ELSE timeout_tick[t]]
     /\ left' = [t \in Timers |-> IF t \in activated \ fired THEN left[t] - 1 ELSE 0]
     /\ late' = IF pc = "sleep" THEN 0 ELSE late + 1
     /\ pc' = IF Own \in fired THEN "check" ELSE pc
     /\ UNCHANGED <<next, running, temp, fooled>>

\* A thread sleeps, and is woken before its time.
ThreadSleeps(t, time) ==
  /\ Unmasked /\ t \in Hard \ activated
  /\ rt_timer_start(t, time)
  /\ UNCHANGED <<tick, pc, next, running, temp, late, fooled>>

ThreadWoken(t) ==
  /\ Unmasked /\ t \in Hard \cap activated
  /\ list' = Without(t) /\ TurnOff({t})
  /\ UNCHANGED <<tick, pc, next, running, temp, late, fooled>>

(***************************************************************************)
(* A soft timer is started or stopped by the function of one, or by main,  *)
(* which is less urgent than the timer thread.  If the thread sleeps, the  *)
(* start wakes it (rt_thread_resume stops its timer).                      *)
(***************************************************************************)
\* Mutant: the thread is left asleep.
StartSoft_Asleep(t) ==
  /\ t \in Soft /\ pc \in {"sleep", "call"}
  /\ rt_timer_start(t, Period[t])
  /\ temp' = (temp /\ running # t)
  /\ UNCHANGED <<tick, pc, next, running, late, fooled>>

StartSoft(t) ==
  /\ t \in Soft /\ pc \in {"sleep", "call"}
  /\ LET when == (tick + Period[t]) % Word
         woken == IF pc = "sleep" THEN {Own} ELSE {}
     IN /\ list' = [soft |-> Insert(RemoveFirst(list["soft"], t), t, when),
                    hard |-> IF pc = "sleep" THEN RemoveFirst(list["hard"], Own) ELSE list["hard"]]
        /\ activated' = (activated \cup {t}) \ woken
        /\ timeout_tick' = [u \in Timers |-> IF u = t THEN when
                                             ELSE IF u \in woken THEN 0 ELSE timeout_tick[u]]
        /\ left' = [u \in Timers |-> IF u = t THEN Period[t]
                                     ELSE IF u \in woken THEN 0 ELSE left[u]]
  /\ pc' = IF pc = "sleep" THEN "check" ELSE pc
  /\ temp' = (temp /\ running # t)
  /\ fooled' = FALSE
  /\ UNCHANGED <<tick, next, running, late>>

StopSoft(t) ==
  /\ t \in Soft \cap activated /\ pc \in {"sleep", "call"}
  /\ list' = Without(t) /\ TurnOff({t})
  /\ temp' = (temp /\ running # t)
  /\ UNCHANGED <<tick, pc, next, running, late, fooled>>
-----------------------------------------------------------------------------
(***************************************************************************)
(* The timer thread: rt_thread_timer_entry and rt_soft_timer_check.        *)
(***************************************************************************)
GoesOn(from, to) == pc = from /\ pc' = to /\ late' = 0

rt_timer_list_next_timeout ==
  /\ GoesOn("next", "decide")
  /\ next' = IF list["soft"] = <<>> THEN TickMax ELSE timeout_tick[Head(list["soft"])]
  /\ UNCHANGED <<tick, data, running, temp, left, fooled>>

\* Mutant: the thread suspends itself after it has found a timer, too.
Suspend_Always ==
  /\ GoesOn("decide", "sleep")
  /\ next' = 0
  /\ fooled' = (list["soft"] # <<>> /\ timeout_tick[Head(list["soft"])] = TickMax)
  /\ UNCHANGED <<tick, data, running, temp, left>>

\* RT_TICK_MAX stands for no timer.
Suspend ==
  /\ GoesOn("decide", "sleep") /\ next = TickMax
  /\ next' = 0
  /\ fooled' = (list["soft"] # <<>> /\ timeout_tick[Head(list["soft"])] = TickMax)
  /\ UNCHANGED <<tick, data, running, temp, left>>

Delay ==
  /\ GoesOn("decide", "delay")
  /\ next # TickMax /\ Minus(next, tick) < Half
  /\ next' = Minus(next, tick)
  /\ UNCHANGED <<tick, data, running, temp, left, fooled>>

Overdue ==
  /\ GoesOn("decide", "check")
  /\ next # TickMax /\ Minus(next, tick) >= Half
  /\ next' = 0
  /\ UNCHANGED <<tick, data, running, temp, left, fooled>>

rt_thread_delay ==
  /\ GoesOn("delay", "sleep")
  /\ rt_timer_start(Own, next)
  /\ next' = 0
  /\ UNCHANGED <<tick, running, temp, fooled>>

\* The first soft timer is due: its function is called, with the interrupts
\* enabled.
Call ==
  LET t == Head(list["soft"])
  IN /\ pc \in {"check", "again"} /\ list["soft"] # <<>> /\ Due(t, tick)
     /\ pc' = "call" /\ late' = 0
     /\ running' = t /\ temp' = TRUE
     /\ list' = Without(t)
     /\ TurnOff({t} \ Periodic)
     /\ UNCHANGED <<tick, next, fooled>>

NothingDue ==
  /\ pc \in {"check", "again"}
  /\ list["soft"] # <<>> => ~Due(Head(list["soft"]), tick)
  /\ pc' = "next" /\ late' = 0
  /\ UNCHANGED <<tick, data, next, running, temp, left, fooled>>

\* Mutant: a timer that its function has stopped is started again.
Return_Always ==
  /\ GoesOn("call", "again")
  /\ IF running \in Periodic
     THEN rt_timer_start(running, Period[running])
     ELSE UNCHANGED <<data, left>>
  /\ running' = None /\ temp' = FALSE
  /\ UNCHANGED <<tick, next, fooled>>

\* Unless it has been started or stopped meanwhile, a periodic timer starts
\* again.
Return ==
  /\ GoesOn("call", "again")
  /\ IF temp /\ running \in Periodic \cap activated
     THEN rt_timer_start(running, Period[running])
     ELSE UNCHANGED <<data, left>>
  /\ running' = None /\ temp' = FALSE
  /\ UNCHANGED <<tick, next, fooled>>

Thread == \/ rt_timer_list_next_timeout \/ Suspend \/ Delay \/ Overdue \/ rt_thread_delay
          \/ Call \/ NothingDue \/ Return

Next ==
  \/ Tick \/ Thread
  \/ \E t \in Hard : ThreadWoken(t) \/ \E time \in SleepTimes : ThreadSleeps(t, time)
  \/ \E t \in Soft : StartSoft(t) \/ StopSoft(t)

Spec == Init /\ [][Next]_vars

\* The clock goes on, and the timer thread when it can.
FairSpec == Spec /\ WF_vars(Tick) /\ WF_vars(Thread)
-----------------------------------------------------------------------------
OnList == ToSet(list["hard"]) \cup ToSet(list["soft"])

TypeOK ==
  /\ tick \in 0 .. TickMax /\ next \in 0 .. TickMax /\ pc \in PC
  /\ list \in [{"hard", "soft"} -> Seq(Timers)]
  /\ timeout_tick \in [Timers -> 0 .. TickMax] /\ activated \subseteq Timers
  /\ running \in Soft \cup {None} /\ temp \in BOOLEAN /\ late \in 0 .. Late
  /\ left \in [Timers -> Int] /\ fooled \in BOOLEAN

(***************************************************************************)
(* The lists hold the activated timers, once each, in the order in which   *)
(* they are really due, also where the tick and the timeouts are on both   *)
(* sides of the wrap-around (timer.c:353-378).  The first is the one to    *)
(* look at.                                                                *)
(***************************************************************************)
InOrder ==
  /\ OnList = activated \ (IF temp THEN {running} ELSE {})
  /\ \A k \in DOMAIN list : \A i, j \in DOMAIN list[k] :
       i < j => list[k][i] # list[k][j] /\ left[list[k][i]] <= left[list[k][j]]

(***************************************************************************)
(* No timer's function is called before its time is over, and no hard      *)
(* timer's after it (timer.c:547, timer.c:631).                            *)
(***************************************************************************)
NeverEarly ==
  [][/\ running' \notin {None, running} => left[running'] <= 0
     /\ tick' # tick => \A t \in activated \ activated' : left[t] <= 1]_vars
OnTime == \A t \in activated \ Soft : left[t] >= 0

\* What the lists and the timers say, taken together.
Consistent == TypeOK /\ InOrder /\ OnTime

(***************************************************************************)
(* While the timer thread sleeps, with soft timers on the list, its own    *)
(* timer runs and wakes it when the first is due, at most the ticks late   *)
(* by which it fell asleep late; unless it has taken a timeout at          *)
(* RT_TICK_MAX for an empty list (timer.c:689-694).                        *)
(***************************************************************************)
SleepsUntilDue ==
  pc = "sleep" /\ list["soft"] # <<>> =>
    LET first == Head(list["soft"])
    IN \/ Own \in activated /\ left[Own] <= Max({left[first], 0}) + Late
       \/ fooled

(***************************************************************************)
(* A soft timer that is off is only switched on by a start: when its       *)
(* function, or main meanwhile, stops a periodic timer, it stays off       *)
(* (timer.c:658-670).                                                      *)
(***************************************************************************)
StoppedStaysOff ==
  [][\A t \in Soft : t \in activated' \ activated => StartSoft(t)]_vars

\* No function is called that should not be.
NoStrayCall == NeverEarly /\ StoppedStaysOff

(***************************************************************************)
(* A soft timer that is due has its function called, so that the watchdog  *)
(* is fed; unless it is stopped or started again before, or the thread is  *)
(* fooled.  It is not so late that the comparison with one that is started *)
(* would be wrong (timer.c:374).                                           *)
(***************************************************************************)
DueIsCalled ==
  /\ \A t \in Soft : t \in activated /\ left[t] <= 0
                       ~> running = t \/ t \notin activated \/ left[t] > 0 \/ fooled
  /\ [](\A t \in activated \cap Soft, u \in Soft : left[t] >= Period[u] - Half)
=============================================================================
