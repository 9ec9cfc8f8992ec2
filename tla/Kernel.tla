------------------------------- MODULE Kernel -------------------------------
(***************************************************************************)
(* The kernel under the application (Rtos/RT-Thread/src): the scheduler    *)
(* with its queue for each priority, threads that sleep, wait and are      *)
(* woken, and the mutex with priority inheritance, as Action_mux is used   *)
(* by MainCtrl and UsartRece.  An action is what runs with the interrupts  *)
(* disabled; between the end of such a section and the call of rt_schedule *)
(* that follows it the timer interrupt can come.                           *)
(***************************************************************************)
EXTENDS Naturals, SequencesExt, FiniteSetsExt

CONSTANTS
  Users,       \* threads that take the mutex
  Peers,       \* threads that wait for events
  Idle,        \* main, which starts the others, and the idle thread after it
  None,        \* RT_NULL
  Prio,        \* init_priority of each thread; 0 is the most urgent
  Lowest,      \* RT_THREAD_PRIORITY_MAX - 1, the priority of Idle
  HoldMax,     \* RT_MUTEX_HOLD_MAX
  TimedTake    \* whether rt_mutex_take is called with a time to wait

Thread == Users \cup Peers \cup {Idle}
Level == 0 .. Lowest

ASSUME KernelAssumption ==
  /\ Prio \in [Thread -> Level] /\ Prio[Idle] = Lowest
  /\ \A t \in Users \cup Peers : Prio[t] < Lowest
  /\ None \notin Thread /\ Idle \notin Users \cup Peers /\ Users \cap Peers = {}
  /\ HoldMax \in Nat \ {0} /\ TimedTake \in BOOLEAN

VARIABLES
  table,       \* rt_thread_priority_table: the READY threads of each priority
  group,       \* rt_thread_ready_priority_group, as a set of priorities
  stat, current_priority, timer, error,   \* of each thread; timer: ACTIVATED;
               \* error: of the wait it is in, nobody reads it afterwards
  rt_current_thread,
  resumed,     \* history: who was resumed since the last rt_schedule, which
               \* nobody has called for it
  call,        \* of each thread: what it is in
  value, owner, hold, original_priority,  \* the mutex
  suspend_thread                          \* its list of suspended threads

ready == <<table, group>>
threads == <<stat, current_priority, timer, error>>
mutex == <<value, owner, hold, original_priority, suspend_thread>>
vars == <<ready, threads, rt_current_thread, resumed, call, mutex>>

\* "take", "sleep", "wake": about to call rt_schedule; "taken", "slept": in
\* it, or back from it.
Call == {"run", "take", "taken", "sleep", "slept", "wake"}

Runs(t) == rt_current_thread = t /\ call[t] = "run"
-----------------------------------------------------------------------------
(***************************************************************************)
(* The ready queue, a record of table and group.                           *)
(***************************************************************************)
Queue == [table |-> table, group |-> group]

Insert(q, t, p) ==
  [table |-> [q.table EXCEPT ![p] = Append(@, t)], group |-> q.group \cup {p}]

\* Mutant: the bit of a priority without threads stays set.
RemoveFrom_Bit(q, t, p) == [q EXCEPT !.table[p] = RemoveFirst(@, t)]

RemoveFrom(q, t, p) ==
  LET left == RemoveFirst(q.table[p], t)
  IN [table |-> [q.table EXCEPT ![p] = left],
      group |-> IF left = <<>> THEN q.group \ {p} ELSE q.group]

\* rt_thread_control: a READY thread goes to the end of the queue of its new
\* priority.
ChangePriority(q, t, p) ==
  IF stat[t] = "READY" THEN Insert(RemoveFrom(q, t, current_priority[t]), t, p) ELSE q

ReadyQueue(q) == table' = q.table /\ group' = q.group

\* The thread that rt_schedule switches to.
Highest(q) == Head(q.table[Min(q.group)])

Init ==
  /\ table = [p \in Level |-> IF p = Lowest THEN <<Idle>> ELSE <<>>]
  /\ group = {Lowest}
  /\ stat = [t \in Thread |-> IF t = Idle THEN "READY" ELSE "INIT"]
  /\ current_priority = Prio
  /\ timer = [t \in Thread |-> FALSE] /\ error = [t \in Thread |-> "EOK"]
  /\ call = [t \in Thread |-> "run"]
  /\ rt_current_thread = Idle /\ resumed = {}
  /\ value = 1 /\ owner = None /\ hold = 0 /\ original_priority = 255
  /\ suspend_thread = <<>>
-----------------------------------------------------------------------------
(***************************************************************************)
(* Scheduling.                                                             *)
(***************************************************************************)

\* rt_schedule at the end of a call.  The next thread goes on where it is.
Schedule(t) ==
  /\ rt_current_thread = t /\ call[t] \in {"take", "sleep", "wake"}
  /\ call' = [call EXCEPT ![t] = CASE @ = "take" -> "taken" [] @ = "sleep" -> "slept"
                                   [] @ = "wake" -> "run"]
  /\ rt_current_thread' = Highest(Queue) /\ resumed' = {}
  /\ UNCHANGED <<ready, threads, mutex>>

\* rt_thread_startup: t makes u READY and then calls rt_schedule, as it does in
\* rt_event_send to a thread that waits (Wake).
Startup(t, u) ==
  /\ Runs(t) /\ stat[u] = "INIT"
  /\ stat' = [stat EXCEPT ![u] = "READY"]
  /\ ReadyQueue(Insert(Queue, u, Prio[u]))
  /\ call' = [call EXCEPT ![t] = "wake"]
  /\ UNCHANGED <<current_priority, timer, error, rt_current_thread, resumed, mutex>>

\* Mutant: the timer of the thread goes on.
Wake_Timer(t, u) ==
  /\ Runs(t) /\ u \in Peers /\ stat[u] = "SUSPEND"
  /\ stat' = [stat EXCEPT ![u] = "READY"]
  /\ ReadyQueue(Insert(Queue, u, current_priority[u]))
  /\ call' = [call EXCEPT ![t] = "wake"]
  /\ UNCHANGED <<current_priority, timer, error, rt_current_thread, resumed, mutex>>

Wake(t, u) ==
  /\ Runs(t) /\ u \in Peers /\ stat[u] = "SUSPEND"
  /\ stat' = [stat EXCEPT ![u] = "READY"]
  /\ timer' = [timer EXCEPT ![u] = FALSE]
  /\ ReadyQueue(Insert(Queue, u, current_priority[u]))
  /\ call' = [call EXCEPT ![t] = "wake"]
  /\ UNCHANGED <<current_priority, error, rt_current_thread, resumed, mutex>>

\* rt_thread_resume, bare: KeyControlTask ends MainCtrl's sleep and calls no
\* rt_schedule.  MainCtrl is not waiting for the mutex then (UsartRece).
Resume(t, u) ==
  /\ Runs(t) /\ t \in Peers
  /\ u \in Users /\ stat[u] = "SUSPEND" /\ u \notin ToSet(suspend_thread)
  /\ stat' = [stat EXCEPT ![u] = "READY"]
  /\ timer' = [timer EXCEPT ![u] = FALSE]
  /\ ReadyQueue(Insert(Queue, u, current_priority[u]))
  /\ resumed' = resumed \cup {u}
  /\ UNCHANGED <<call, current_priority, error, rt_current_thread, mutex>>

\* rt_thread_sleep, and rt_event_recv of a thread that waits forever.
Sleep(t, timed) ==
  /\ Runs(t) /\ t # Idle /\ (timed \/ t \in Peers)
  /\ stat' = [stat EXCEPT ![t] = "SUSPEND"]
  /\ ReadyQueue(RemoveFrom(Queue, t, current_priority[t]))
  /\ timer' = [timer EXCEPT ![t] = timed]
  /\ call' = [call EXCEPT ![t] = "sleep"]
  /\ UNCHANGED <<current_priority, error, rt_current_thread, resumed, mutex>>

\* rt_thread_sleep takes no notice of the timeout.
SleepReturns(t) ==
  /\ rt_current_thread = t /\ call[t] = "slept"
  /\ call' = [call EXCEPT ![t] = "run"]
  /\ error' = [error EXCEPT ![t] = "EOK"]
  /\ UNCHANGED <<ready, stat, current_priority, timer, rt_current_thread, resumed, mutex>>

\* The timer interrupt: rt_thread_yield at the end of a time slice.
TimeSlice(t) ==
  LET p == current_priority[t]
      last == Append(RemoveFirst(table[p], t), t)
  IN /\ rt_current_thread = t /\ stat[t] = "READY" /\ Len(table[p]) > 1
     /\ table' = [table EXCEPT ![p] = last]
     /\ rt_current_thread' = Highest([table |-> table', group |-> group]) /\ resumed' = {}
     /\ UNCHANGED <<group, threads, call, mutex>>

\* The timer interrupt: the timeout of a thread that is not in the model, the
\* timer thread among them, ends in rt_schedule; by now that thread has run.
Others ==
  /\ rt_current_thread' = Highest(Queue) /\ resumed' = {}
  /\ UNCHANGED <<ready, threads, call, mutex>>

\* The timer interrupt: rt_thread_timeout, with its own call of rt_schedule.
Timeout(t) ==
  LET q == Insert(Queue, t, current_priority[t])
  IN /\ timer[t]
     /\ stat' = [stat EXCEPT ![t] = "READY"]
     /\ timer' = [timer EXCEPT ![t] = FALSE]
     /\ error' = [error EXCEPT ![t] = "ETIMEOUT"]
     /\ suspend_thread' = RemoveFirst(suspend_thread, t)
     /\ ReadyQueue(q)
     /\ rt_current_thread' = Highest(q) /\ resumed' = {}
     /\ UNCHANGED <<current_priority, call, value, owner, hold, original_priority>>
-----------------------------------------------------------------------------
(***************************************************************************)
(* rt_mutex_take.  With time 0 and no luck it only says so; so does        *)
(* rt_mutex_release by a thread that is not the owner.                     *)
(***************************************************************************)
Take(t) == Runs(t) /\ t \in Users

\* The owner takes it again; at HoldMax it is told EFULL.
TakeAgain(t) ==
  /\ Take(t) /\ owner = t
  /\ hold' = IF hold < HoldMax THEN hold + 1 ELSE hold
  /\ error' = [error EXCEPT ![t] = "EOK"]
  /\ UNCHANGED <<ready, stat, current_priority, timer, rt_current_thread, resumed, call,
                 value, owner, original_priority, suspend_thread>>

TakeFree(t) ==
  /\ Take(t) /\ owner # t /\ value > 0
  /\ value' = value - 1
  /\ owner' = t /\ original_priority' = current_priority[t]
  /\ hold' = hold + 1
  /\ error' = [error EXCEPT ![t] = "EOK"]
  /\ UNCHANGED <<ready, stat, current_priority, timer, rt_current_thread, resumed, call, suspend_thread>>

\* Mutant: first come, first served.
ByPriority_Fifo(list, t) == Append(list, t)

\* rt_ipc_list_suspend with RT_IPC_FLAG_PRIO: before the first thread that is
\* less urgent.
ByPriority(list, t) ==
  LET after == {i \in DOMAIN list : current_priority[t] < current_priority[list[i]]}
  IN IF after = {} THEN Append(list, t) ELSE InsertAt(list, Min(after), t)

\* Mutant: the owner does not inherit the priority.
TakeWait_Flat(t, timed) ==
  /\ Take(t) /\ owner # t /\ value = 0
  /\ ReadyQueue(RemoveFrom(Queue, t, current_priority[t]))
  /\ stat' = [stat EXCEPT ![t] = "SUSPEND"]
  /\ suspend_thread' = ByPriority(suspend_thread, t)
  /\ timer' = [timer EXCEPT ![t] = timed]
  /\ error' = [error EXCEPT ![t] = "EOK"]
  /\ call' = [call EXCEPT ![t] = "take"]
  /\ UNCHANGED <<current_priority, rt_current_thread, resumed, value, owner, hold, original_priority>>

\* The owner gets at least the priority of the thread that waits.
TakeWait(t, timed) ==
  LET p == current_priority[t]
      urgent == p < current_priority[owner]
      q == IF urgent THEN ChangePriority(Queue, owner, p) ELSE Queue
  IN /\ Take(t) /\ owner # t /\ value = 0
     /\ current_priority' = IF urgent THEN [current_priority EXCEPT ![owner] = p]
                            ELSE current_priority
     /\ ReadyQueue(RemoveFrom(q, t, p))
     /\ stat' = [stat EXCEPT ![t] = "SUSPEND"]
     /\ suspend_thread' = ByPriority(suspend_thread, t)
     /\ timer' = [timer EXCEPT ![t] = timed]
     /\ error' = [error EXCEPT ![t] = "EOK"]
     /\ call' = [call EXCEPT ![t] = "take"]
     /\ UNCHANGED <<rt_current_thread, resumed, value, owner, hold, original_priority>>

\* Its caller goes by thread->error.
TakeReturns(t) ==
  /\ rt_current_thread = t /\ call[t] = "taken"
  /\ call' = [call EXCEPT ![t] = "run"]
  /\ error' = [error EXCEPT ![t] = "EOK"]
  /\ UNCHANGED <<ready, stat, current_priority, timer, rt_current_thread, resumed, mutex>>
-----------------------------------------------------------------------------
(***************************************************************************)
(* rt_mutex_release.                                                       *)
(***************************************************************************)
ReleaseOne(t) ==
  /\ Take(t) /\ owner = t /\ hold > 1
  /\ hold' = hold - 1
  /\ UNCHANGED <<ready, threads, rt_current_thread, resumed, call,
                 value, owner, original_priority, suspend_thread>>

\* The queue with the owner back at its own priority.
Restored(t) ==
  IF original_priority # current_priority[t]
  THEN ChangePriority(Queue, t, original_priority) ELSE Queue

\* rt_schedule is not called here.
ReleaseFree(t) ==
  /\ Take(t) /\ owner = t /\ hold = 1 /\ suspend_thread = <<>>
  /\ ReadyQueue(Restored(t))
  /\ current_priority' = [current_priority EXCEPT ![t] = original_priority]
  /\ value' = value + 1 /\ hold' = 0 /\ owner' = None /\ original_priority' = 255
  /\ UNCHANGED <<stat, timer, error, rt_current_thread, resumed, call, suspend_thread>>

\* Mutants: the owner keeps its priority; the mutex is free until the thread
\* that was woken takes it; rt_schedule is not called.
ReleaseHandOver_Keep(t) ==
  LET w == Head(suspend_thread)
  IN /\ Take(t) /\ owner = t /\ hold = 1 /\ suspend_thread # <<>>
     /\ owner' = w /\ hold' = 1
     /\ original_priority' = current_priority[w]
     /\ suspend_thread' = Tail(suspend_thread)
     /\ stat' = [stat EXCEPT ![w] = "READY"]
     /\ timer' = [timer EXCEPT ![w] = FALSE]
     /\ ReadyQueue(Insert(Queue, w, current_priority[w]))
     /\ call' = [call EXCEPT ![t] = "wake"]
     /\ UNCHANGED <<current_priority, error, rt_current_thread, resumed, value>>

ReleaseHandOver_Free(t) ==
  LET w == Head(suspend_thread)
  IN /\ Take(t) /\ owner = t /\ hold = 1 /\ suspend_thread # <<>>
     /\ value' = 1 /\ owner' = None /\ hold' = 0 /\ original_priority' = 255
     /\ current_priority' = [current_priority EXCEPT ![t] = original_priority]
     /\ suspend_thread' = Tail(suspend_thread)
     /\ stat' = [stat EXCEPT ![w] = "READY"]
     /\ timer' = [timer EXCEPT ![w] = FALSE]
     /\ ReadyQueue(Insert(Restored(t), w, current_priority[w]))
     /\ call' = [call EXCEPT ![t] = "wake"]
     /\ UNCHANGED <<error, rt_current_thread, resumed>>

ReleaseHandOver_Stay(t) ==
  LET w == Head(suspend_thread)
  IN /\ Take(t) /\ owner = t /\ hold = 1 /\ suspend_thread # <<>>
     /\ owner' = w /\ hold' = 1
     /\ original_priority' = current_priority[w]
     /\ current_priority' = [current_priority EXCEPT ![t] = original_priority]
     /\ suspend_thread' = Tail(suspend_thread)
     /\ stat' = [stat EXCEPT ![w] = "READY"]
     /\ timer' = [timer EXCEPT ![w] = FALSE]
     /\ ReadyQueue(Insert(Restored(t), w, current_priority[w]))
     /\ UNCHANGED <<call, error, rt_current_thread, resumed, value>>

\* The first of the threads that wait is the owner before it runs.
ReleaseHandOver(t) ==
  LET w == Head(suspend_thread)
  IN /\ Take(t) /\ owner = t /\ hold = 1 /\ suspend_thread # <<>>
     /\ owner' = w /\ hold' = 1
     /\ original_priority' = current_priority[w]
     /\ current_priority' = [current_priority EXCEPT ![t] = original_priority]
     /\ suspend_thread' = Tail(suspend_thread)
     /\ stat' = [stat EXCEPT ![w] = "READY"]
     /\ timer' = [timer EXCEPT ![w] = FALSE]
     /\ ReadyQueue(Insert(Restored(t), w, current_priority[w]))
     /\ call' = [call EXCEPT ![t] = "wake"]
     /\ UNCHANGED <<error, rt_current_thread, resumed, value>>
-----------------------------------------------------------------------------
Proceed(t) == Schedule(t) \/ SleepReturns(t) \/ TakeReturns(t)
Interrupt(t) == Timeout(t) \/ TimeSlice(t)

Next ==
  \/ Others
  \/ \E t \in Thread :
       \/ Proceed(t) \/ Interrupt(t)
       \/ \E u \in Thread : Startup(t, u) \/ Wake(t, u) \/ Resume(t, u)
       \/ \E timed \in BOOLEAN : Sleep(t, timed)
       \/ TakeAgain(t) \/ TakeFree(t)
       \/ \E timed \in {FALSE, TimedTake} : TakeWait(t, timed)
       \/ ReleaseOne(t) \/ ReleaseFree(t) \/ ReleaseHandOver(t)

Spec == Init /\ [][Next]_vars

(***************************************************************************)
(* A call is finished, a timer runs out, that of the timer thread again    *)
(* and again, and a thread that holds the mutex and keeps getting the      *)
(* processor gives it back, as often as it has taken it: motions end.      *)
(***************************************************************************)
Fairness ==
  WF_vars(Others) /\
  \A t \in Users : /\ WF_vars(Proceed(t)) /\ WF_vars(Timeout(t))
                   /\ SF_vars(ReleaseOne(t))
                   /\ SF_vars(ReleaseFree(t) \/ ReleaseHandOver(t))
FairSpec == Spec /\ Fairness
-----------------------------------------------------------------------------
TypeOK ==
  /\ table \in [Level -> Seq(Thread)] /\ group \subseteq Level
  /\ stat \in [Thread -> {"INIT", "READY", "SUSPEND"}]
  /\ current_priority \in [Thread -> Level]
  /\ timer \in [Thread -> BOOLEAN] /\ error \in [Thread -> {"EOK", "ETIMEOUT"}]
  /\ rt_current_thread \in Thread /\ resumed \subseteq Users /\ call \in [Thread -> Call]
  /\ value \in {0, 1} /\ owner \in Users \cup {None} /\ hold \in 0 .. HoldMax
  /\ original_priority \in Level \cup {255}
  /\ suspend_thread \in Seq(Users)

(***************************************************************************)
(* A thread is READY if and only if it is in the queue of its present      *)
(* priority, once, and in no other; a priority has its bit in the group if *)
(* and only if it has threads (scheduler.c:252-340, thread.c:620-660).     *)
(* What changes the priority of a READY thread moves it.                   *)
(***************************************************************************)
QueuesExact ==
  /\ \A t \in Thread, p \in Level :
       Cardinality({i \in DOMAIN table[p] : table[p][i] = t})
         = IF stat[t] = "READY" /\ current_priority[t] = p THEN 1 ELSE 0
  /\ group = {p \in Level : table[p] # <<>>}

(***************************************************************************)
(* The thread timer of a thread that is not suspended never runs: its      *)
(* function asserts that the thread is (thread.c:803).  A thread that is   *)
(* woken early is not woken again, in its next wait, by the old timer.     *)
(***************************************************************************)
TimerOfSuspended == \A t \in Thread : timer[t] => stat[t] = "SUSPEND"

(***************************************************************************)
(* The processor is with a thread of the highest priority that is READY,   *)
(* but for the moment before a call of rt_schedule (scheduler.c:185-215):  *)
(* only a thread that was resumed without one waits for the next.          *)
(***************************************************************************)
HighestRuns ==
  call[rt_current_thread] = "run" =>
    /\ stat[rt_current_thread] = "READY"
    /\ \A t \in Thread \ resumed : stat[t] = "READY" =>
         current_priority[rt_current_thread] <= current_priority[t]

(***************************************************************************)
(* Nobody that waits for the mutex is more urgent than its owner is at     *)
(* present, so that nobody in between keeps the owner from its work; and a *)
(* thread that does not own it has its own priority (ipc.c:728-735,        *)
(* ipc.c:839-872).                                                         *)
(***************************************************************************)
Inherits ==
  /\ \A t \in ToSet(suspend_thread) : current_priority[owner] <= current_priority[t]
  /\ \A t \in Thread : t # owner => current_priority[t] = Prio[t]

(***************************************************************************)
(* rt_mutex_take that returns without an error returns with the mutex.     *)
(***************************************************************************)
TakenIsOwned ==
  \A t \in Users : rt_current_thread = t /\ call[t] = "taken" /\ error[t] = "EOK" => owner = t

\* What the kernel keeps of the threads, taken together.
Consistent == TypeOK /\ QueuesExact /\ TimerOfSuspended /\ TakenIsOwned

(***************************************************************************)
(* The mutex is a lock that is handed over, to the most urgent first.      *)
(***************************************************************************)
L == INSTANCE Lock WITH Urgency <- Prio, holder <- owner, depth <- hold,
                        waiting <- ToSet(suspend_thread)
LockSpec == L!Spec

(***************************************************************************)
(* The most urgent thread that waits for the mutex without a time gets it, *)
(* however the threads in between keep the processor busy.                 *)
(***************************************************************************)
Top(t) == \A u \in Users \ {t} : Prio[t] < Prio[u]
TopServed ==
  \A t \in Users : Top(t) => (t \in ToSet(suspend_thread) /\ ~timer[t] ~> owner = t)
=============================================================================
