------------------------------ MODULE UsartRece ------------------------------
(***************************************************************************)
(* The receive path of the upper machine: the idle-line interrupts of the  *)
(* three serial ports, the message queue each of them fills, the event     *)
(* group Usart_event they set, and the thread UsartRece that takes one     *)
(* message per event it is woken for and handles it.                       *)
(*                                                                         *)
(*   USART2   the chassis ("lower machine"), frames ^x_                    *)
(*   USART3   the task code scanner                                        *)
(*   UART4    Bluetooth commands                                           *)
(*                                                                         *)
(* The line of a port falls idle (LineIdle), which raises a flag; the      *)
(* interrupt handler is one action that finds it up, once interrupts are   *)
(* unmasked.  The handlers have one preemption priority, so they do not    *)
(* nest, and no thread runs while one does.                                *)
(* Threads run by strict priority, MainCtrl (0) before UsartRece (1)       *)
(* before KeyCtrl (2) before the timer thread that feeds the watchdog (4). *)
(* A thread is cut wherever the kernel enables interrupts: rt_mq_recv      *)
(* takes two steps, because it unlinks the message, copies it with         *)
(* interrupts enabled, and only then gives the slot back.                  *)
(*                                                                         *)
(* MainCtrl and KeyCtrl appear through what they do to what they share     *)
(* with this thread: the processor, TaskStart, ReceCarSta and Action_mux.  *)
(***************************************************************************)
EXTENDS Integers, Sequences

CONSTANTS
  CarState,    \* the state bytes x the chassis sends in a frame ^x_
  TaskCode,    \* the task codes of TaskCodeStr
  Lead,        \* how many characters may precede the code in a scanner frame
  BlueNumber,  \* the numbers Bluetooth sends, as records [len, val]
  QueueCap,    \* messages a queue holds
  IdleIE,      \* ports whose idle-line interrupt is enabled (as built, not USART2's)
  Connected,   \* ports that have something at the other end
  InitComplete, \* how rt_hw_board_init leaves SysValue.InitComplete
  CodeLen,     \* characters of an entry of TaskCodeStr
  CutAt,       \* where ReceTaskCode_Mult ends the scanner's text
  NULL         \* no state byte, no task code, no owner

Port == {"USART2", "USART3", "UART4"}

ASSUME QueueCapAssumption == QueueCap \in Nat /\ QueueCap >= 2
ASSUME ConfigAssumption == IdleIE \subseteq Port /\ Connected \subseteq Port /\ InitComplete \in BOOLEAN
ASSUME NullAssumption == NULL \notin CarState \cup TaskCode \cup {"MainCtrl", "UsartRece"}
ASSUME LengthAssumption == Lead \subseteq Nat /\ CodeLen \in Nat /\ CutAt \in Nat
ASSUME BlueAssumption == BlueNumber \subseteq [len : Nat, val : Nat]

(***************************************************************************)
(* What a port's receive buffer holds when the line falls idle.  "noise"   *)
(* is a frame its handler does not know; "long" one that fills the buffer  *)
(* of a port that receives by DMA (USART3 receives byte by byte, and there *)
(* a long frame is only noise).                                            *)
(***************************************************************************)
Long  == [kind |-> "long"]
Noise == [kind |-> "noise"]

FramesOf(p) ==
  {Noise} \cup
    CASE p = "USART2" -> {Long} \cup [kind : {"car"}, val : CarState]
      [] p = "USART3" -> [kind : {"code"}, val : TaskCode, lead : Lead]
      [] p = "UART4"  -> {Long} \cup [kind : {"blue"}, num : BlueNumber]

Frame == UNION {FramesOf(p) : p \in Port}

VARIABLES
  idle,          \* ports whose idle-line flag is up
  queue,         \* Usart2_list, Usart3_list, Uart4_list
  evset,         \* Usart_event->set, as the set of ports whose bit is up
  pc,            \* where the thread UsartRece is
  recved,        \* RecvedEvent (thread->event_set while it is being woken)
  taken,         \* the message in ReceBuf
  receCarSta,    \* SysValue.ReceCarSta
  codeS,         \* SysTask.CodeS
  taskStart,     \* SysValue.TaskStart
  main,          \* what MainCtrl does
  awaited,       \* the state byte MainCtrl's loop waits for
  owner,         \* Action_mux->owner
  iapFlag        \* the upgrade flag in flash; survives a reset

event == <<evset, recved>>
task == <<codeS, taskStart>>
vars == <<idle, queue, event, pc, taken, receCarSta, task, main, awaited, owner, iapFlag>>

\* "board": rt_hw_board_init, interrupts are masked; "off": the scheduler
\* runs, but not yet this thread; "mutex": suspended on Action_mux;
\* "motion": in a motion it holds Action_mux for; "halted": an interrupt
\* handler has failed a kernel assertion and will not return.
ReceLabel == {"board", "off", "recv", "suspend", "switch", "mq", "free", "act",
              "mutex", "motion", "halted"}
\* "init": not started; "await": in a loop that only ends on a state byte;
\* "delay": in rt_thread_delay; "mutex": suspended on Action_mux.
MainLabel == {"init", "busy", "await", "delay", "mutex"}

\* The processor goes to the first of these that is ready.
MainRuns == main \in {"busy", "await"} /\ pc # "halted"
ReceRuns == ~MainRuns /\ pc \notin {"board", "off", "suspend", "mutex", "halted"}
\* Mutant: a motor that is waited for with rt_thread_delay.
KeyRuns_Motion == ~MainRuns /\ pc \in {"suspend", "mutex", "motion"}
KeyRuns == ~MainRuns /\ pc \in {"suspend", "mutex"}
-----------------------------------------------------------------------------
(***************************************************************************)
(* Boot.  rtthread_startup masks interrupts; rt_hw_board_init configures   *)
(* the ports, sets InitComplete and starts the watchdog; the switch to the *)
(* first thread unmasks; main() starts UsartRece, if InitComplete, whose   *)
(* first act is to create its kernel objects.                              *)
(***************************************************************************)
Init ==
  /\ idle = {}
  /\ queue = [p \in Port |-> <<>>]
  /\ evset = {} /\ recved = {} /\ taken = Noise
  /\ pc = "board"
  /\ receCarSta = NULL /\ codeS = NULL /\ taskStart = FALSE
  /\ main = "init" /\ awaited = NULL
  /\ owner = NULL
  /\ iapFlag = FALSE

\* A reset: all but the flash is as at power-on.
Reset ==
  /\ idle' = {}
  /\ queue' = [p \in Port |-> <<>>]
  /\ evset' = {} /\ recved' = {} /\ taken' = Noise
  /\ pc' = "board"
  /\ receCarSta' = NULL /\ codeS' = NULL /\ taskStart' = FALSE
  /\ main' = "init" /\ awaited' = NULL
  /\ owner' = NULL

SchedulerStart ==
  /\ pc = "board"
  /\ pc' = "off"
  /\ UNCHANGED <<idle, queue, event, taken, receCarSta, task, main, awaited, owner, iapFlag>>

CreateObjects ==
  /\ pc = "off" /\ InitComplete
  /\ pc' = "recv"
  /\ UNCHANGED <<idle, queue, event, taken, receCarSta, task, main, awaited, owner, iapFlag>>

\* The timer thread that feeds the watchdog gets no processor time while one
\* of the threads above it runs, and none when the system has halted.
WatchdogReset ==
  /\ MainRuns \/ ReceRuns \/ pc = "halted"
  /\ Reset /\ UNCHANGED iapFlag
-----------------------------------------------------------------------------
(***************************************************************************)
(* The ports and their interrupt handlers.                                 *)
(***************************************************************************)

\* The hardware: a frame has come in.
LineIdle(p) ==
  /\ p \in Connected \ idle
  /\ idle' = idle \cup {p}
  /\ UNCHANGED <<queue, event, pc, taken, receCarSta, task, main, awaited, owner, iapFlag>>

\* rt_mq_send with no waiting: a message is dropped when no slot is free;
\* the slot of a message being copied out is not free yet.
InTransit(p) == IF pc = "free" /\ p \in recved THEN 1 ELSE 0

MqSend(p, f) ==
  queue' = IF Len(queue[p]) + InTransit(p) < QueueCap
           THEN [queue EXCEPT ![p] = Append(@, f)] ELSE queue

\* Mutant: the suspended thread is not looked at.
EventSend_NoWake(p) == evset' = evset \cup {p} /\ UNCHANGED <<recved, pc>>

\* rt_event_send: set the bit; a thread suspended on the group receives all
\* the bits that are up, which are cleared, and becomes ready.
EventSend(p) ==
  IF pc = "suspend"
  THEN evset' = {} /\ recved' = evset \cup {p} /\ pc' = "switch"
  ELSE evset' = evset \cup {p} /\ UNCHANGED <<recved, pc>>

\* A handler clears the flag and drops a frame after which the DMA counter is
\* zero.  Before the thread runs there is no queue, and
\* rt_mq_send(RT_NULL, ...) fails its assertion.
Deliver(p, f) ==
  /\ p \in idle /\ p \in IdleIE
  /\ pc \notin {"board", "halted"}
  /\ idle' = idle \ {p}
  /\ IF ~InitComplete \/ f = Long
     THEN UNCHANGED <<queue, event, pc>>
     ELSE IF pc = "off"
          THEN pc' = "halted" /\ UNCHANGED <<queue, event>>
          ELSE MqSend(p, f) /\ EventSend(p)
  /\ UNCHANGED <<taken, receCarSta, task, main, awaited, owner, iapFlag>>

USART2_IRQHandler == \E f \in FramesOf("USART2") : Deliver("USART2", f)
USART3_IRQHandler == \E f \in FramesOf("USART3") : Deliver("USART3", f)
UART4_IRQHandler  == \E f \in FramesOf("UART4")  : Deliver("UART4", f)
-----------------------------------------------------------------------------
(***************************************************************************)
(* The thread.                                                             *)
(***************************************************************************)

\* Mutant: RT_EVENT_FLAG_CLEAR is forgotten.
EventRecv_NoClear ==
  /\ pc = "recv" /\ ReceRuns
  /\ IF evset = {}
     THEN pc' = "suspend" /\ UNCHANGED event
     ELSE pc' = "switch" /\ recved' = evset /\ UNCHANGED evset
  /\ UNCHANGED <<idle, queue, taken, receCarSta, task, main, awaited, owner, iapFlag>>

\* rt_event_recv with OR and CLEAR, waiting forever.
EventRecv ==
  /\ pc = "recv" /\ ReceRuns
  /\ IF evset = {}
     THEN pc' = "suspend" /\ UNCHANGED event
     ELSE pc' = "switch" /\ recved' = evset /\ evset' = {}
  /\ UNCHANGED <<idle, queue, taken, receCarSta, task, main, awaited, owner, iapFlag>>

\* switch(RecvedEvent): a case for each single bit, none for two at once.
Handled(bits) == \E p \in Port : bits = {p}

SwitchEvent ==
  /\ pc = "switch" /\ ReceRuns
  /\ IF Handled(recved) THEN pc' = "mq" /\ UNCHANGED recved
                        ELSE pc' = "recv" /\ recved' = {}
  /\ UNCHANGED <<idle, queue, evset, taken, receCarSta, task, main, awaited, owner, iapFlag>>

\* rt_mq_recv with no waiting, up to the copy of the message.  The handlers
\* do not look at the result: on an empty queue ReceBuf keeps whatever the
\* stack held.
MqRecv(p) ==
  /\ pc = "mq" /\ recved = {p} /\ ReceRuns
  /\ IF queue[p] = <<>>
     THEN taken' \in FramesOf(p) /\ pc' = "act" /\ UNCHANGED queue
     ELSE /\ taken' = Head(queue[p]) /\ pc' = "free"
          /\ queue' = [queue EXCEPT ![p] = Tail(@)]
  /\ UNCHANGED <<idle, event, receCarSta, task, main, awaited, owner, iapFlag>>

\* The rest of rt_mq_recv: the slot goes back to the free list.
MqFree ==
  /\ pc = "free" /\ ReceRuns
  /\ pc' = "act"
  /\ UNCHANGED <<idle, queue, event, taken, receCarSta, task, main, awaited, owner, iapFlag>>

\* Back to the head of the thread's loop; the handler's frame is gone.
Loop == pc' = "recv" /\ recved' = {} /\ taken' = Noise

ReceCarState_Wire ==
  /\ pc = "act" /\ recved = {"USART2"} /\ ReceRuns
  /\ receCarSta' = IF taken.kind = "car" /\ taskStart THEN taken.val ELSE receCarSta
  /\ Loop
  /\ UNCHANGED <<idle, queue, evset, task, main, awaited, owner, iapFlag>>

\* ReceBuf[CutAt] = '\0', then strstr for every entry of TaskCodeStr.
CodeFound(f) == f.kind = "code" /\ f.lead + CodeLen <= CutAt

ReceTaskCode_Mult ==
  /\ pc = "act" /\ recved = {"USART3"} /\ ReceRuns
  /\ codeS' = IF codeS = NULL /\ taskStart /\ CodeFound(taken) THEN taken.val ELSE codeS
  /\ Loop
  /\ UNCHANGED <<idle, queue, evset, receCarSta, taskStart, main, awaited, owner, iapFlag>>

(***************************************************************************)
(* MotorSteeringCtrl_BT: one or two characters name a motion, which needs  *)
(* Action_mux; three are a number, kept in a char; the rest is echoed.     *)
(***************************************************************************)
IsMotion(f)  == f.kind = "blue" /\ f.num.len \in 1..2
IsUpgrade(f) == f.kind = "blue" /\ f.num.len = 3 /\ f.num.val % 256 = 110

BlueMotion ==
  /\ pc = "act" /\ recved = {"UART4"} /\ ReceRuns
  /\ IsMotion(taken)
  /\ IF owner = NULL THEN owner' = "UsartRece" /\ pc' = "motion"
                     ELSE pc' = "mutex" /\ UNCHANGED owner
  /\ UNCHANGED <<idle, queue, event, taken, receCarSta, task, main, awaited, iapFlag>>

\* rt_mutex_release hands the mutex to MainCtrl when it waits for it.
BlueMotionEnd ==
  /\ pc = "motion" /\ ReceRuns
  /\ IF main = "mutex" THEN owner' = "MainCtrl" /\ main' = "busy"
                       ELSE owner' = NULL /\ UNCHANGED main
  /\ Loop
  /\ UNCHANGED <<idle, queue, evset, receCarSta, task, awaited, iapFlag>>

\* FlashSetFlag_IAP: the flag is written and the chip resets.
BlueUpgrade ==
  /\ pc = "act" /\ recved = {"UART4"} /\ ReceRuns
  /\ IsUpgrade(taken)
  /\ iapFlag' = TRUE
  /\ Reset

BlueEcho ==
  /\ pc = "act" /\ recved = {"UART4"} /\ ReceRuns
  /\ ~IsMotion(taken) /\ ~IsUpgrade(taken)
  /\ Loop
  /\ UNCHANGED <<idle, queue, evset, receCarSta, task, main, awaited, owner, iapFlag>>
-----------------------------------------------------------------------------
(***************************************************************************)
(* The other threads, as this one sees them.                               *)
(***************************************************************************)

\* KeyControlTask on a short press: MainCtrl is started, or resumed whatever
\* it is suspended on, and then TaskStart set; on a persistent press
\* TaskStart is cleared (MainCtrl is never READY then: nothing is suspended).
KeyShort ==
  /\ KeyRuns /\ ~taskStart /\ main \in {"init", "delay", "mutex"}
  /\ main' = "busy"
  /\ taskStart' \in IF main = "init" THEN {FALSE} ELSE BOOLEAN
  /\ UNCHANGED <<idle, queue, event, pc, taken, receCarSta, codeS, awaited, owner, iapFlag>>

\* The rest of a short press that MainCtrl, now ready, has interrupted.
KeyTaskStart ==
  /\ KeyRuns /\ ~taskStart /\ main # "init"
  /\ taskStart' = TRUE
  /\ UNCHANGED <<idle, queue, event, pc, taken, receCarSta, codeS, main, awaited, owner, iapFlag>>

KeyPersist ==
  /\ KeyRuns /\ taskStart
  /\ taskStart' = FALSE
  /\ UNCHANGED <<idle, queue, event, pc, taken, receCarSta, codeS, main, awaited, owner, iapFlag>>

\* SysValue.ReceCarSta = NULL in MainCtrl's states.
MainConsume ==
  /\ MainRuns /\ main = "busy" /\ receCarSta # NULL
  /\ receCarSta' = NULL
  /\ UNCHANGED <<idle, queue, event, pc, taken, task, main, awaited, owner, iapFlag>>

\* The state Restart: the task is over.
MainRestart ==
  /\ MainRuns /\ main = "busy" /\ taskStart
  /\ taskStart' = FALSE
  /\ UNCHANGED <<idle, queue, event, pc, taken, receCarSta, codeS, main, awaited, owner, iapFlag>>

\* The loops of SendRingToCar and IdentifyColorTake, which do not yield.
MainAwait ==
  /\ MainRuns /\ main = "busy"
  /\ main' = "await" /\ awaited' \in CarState
  /\ UNCHANGED <<idle, queue, event, pc, taken, receCarSta, task, owner, iapFlag>>

MainGoOn ==
  /\ MainRuns /\ main = "await" /\ receCarSta = awaited
  /\ main' = "busy" /\ awaited' = NULL /\ receCarSta' \in {NULL, receCarSta}
  /\ UNCHANGED <<idle, queue, event, pc, taken, task, owner, iapFlag>>

MainDelay ==
  /\ MainRuns /\ main = "busy"
  /\ main' = "delay"
  /\ UNCHANGED <<idle, queue, event, pc, taken, receCarSta, task, awaited, owner, iapFlag>>

\* SysTick: the delay has run out and MainCtrl preempts every other thread.
MainWake ==
  /\ main = "delay" /\ pc # "halted"
  /\ main' = "busy"
  /\ UNCHANGED <<idle, queue, event, pc, taken, receCarSta, task, awaited, owner, iapFlag>>

MainTake ==
  /\ MainRuns /\ main = "busy" /\ owner # "MainCtrl"
  /\ IF owner = NULL THEN owner' = "MainCtrl" /\ UNCHANGED main
                     ELSE main' = "mutex" /\ UNCHANGED owner
  /\ UNCHANGED <<idle, queue, event, pc, taken, receCarSta, task, awaited, iapFlag>>

\* Mutant: the thread that waits is not handed the mutex.
MainRelease_NoHandOver ==
  /\ MainRuns /\ main = "busy" /\ owner = "MainCtrl"
  /\ owner' = NULL
  /\ UNCHANGED <<idle, queue, event, pc, taken, receCarSta, task, main, awaited, iapFlag>>

MainRelease ==
  /\ MainRuns /\ main = "busy" /\ owner = "MainCtrl"
  /\ IF pc = "mutex" THEN owner' = "UsartRece" /\ pc' = "motion"
                     ELSE owner' = NULL /\ UNCHANGED pc
  /\ UNCHANGED <<idle, queue, event, taken, receCarSta, task, main, awaited, iapFlag>>
-----------------------------------------------------------------------------
Boot == SchedulerStart \/ CreateObjects \/ WatchdogReset
Line == \E p \in Port : LineIdle(p)
Irq == USART2_IRQHandler \/ USART3_IRQHandler \/ UART4_IRQHandler

MotorSteeringCtrl_BT == BlueMotion \/ BlueMotionEnd \/ BlueUpgrade \/ BlueEcho
ReceThread ==
  \/ EventRecv \/ SwitchEvent \/ (\E p \in Port : MqRecv(p)) \/ MqFree
  \/ ReceCarState_Wire \/ ReceTaskCode_Mult \/ MotorSteeringCtrl_BT

Key == KeyShort \/ KeyTaskStart \/ KeyPersist
MainCtrl == MainConsume \/ MainRestart \/ MainAwait \/ MainGoOn \/ MainDelay \/ MainWake
            \/ MainTake \/ MainRelease

Next == Boot \/ Line \/ Irq \/ ReceThread \/ Key \/ MainCtrl

Spec == Init /\ [][Next]_vars

(***************************************************************************)
(* What the code's scheduling justifies: interrupts are taken, the boot    *)
(* goes on, the watchdog fires when nobody feeds it for a second, a delay  *)
(* ends, MainCtrl releases what it has taken and leaves the processor (at  *)
(* least 30 ticks in every round of its loop), the receive thread uses it. *)
(***************************************************************************)
Fairness ==
  /\ WF_vars(SchedulerStart) /\ WF_vars(CreateObjects) /\ WF_vars(WatchdogReset)
  /\ WF_vars(USART2_IRQHandler) /\ WF_vars(USART3_IRQHandler) /\ WF_vars(UART4_IRQHandler)
  /\ WF_vars(MainWake)
  /\ SF_vars(MainRelease) /\ SF_vars(ReceThread)

FairSpec == Spec /\ Fairness
-----------------------------------------------------------------------------
\* The types; a queue never holds more than the capacity it was created with.
TypeOK ==
  /\ idle \subseteq Port
  /\ queue \in [Port -> Seq(Frame)]
  /\ \A p \in Port : Len(queue[p]) <= QueueCap
  /\ evset \subseteq Port /\ recved \subseteq Port
  /\ pc \in ReceLabel
  /\ taken \in Frame
  /\ receCarSta \in CarState \cup {NULL} /\ awaited \in CarState \cup {NULL}
  /\ codeS \in TaskCode \cup {NULL} /\ taskStart \in BOOLEAN
  /\ main \in MainLabel
  /\ owner \in {"MainCtrl", "UsartRece", NULL}
  /\ iapFlag \in BOOLEAN

(***************************************************************************)
(* No handler of the thread finds its queue empty (rt_mq_recv does not     *)
(* wait and its result is not looked at), so none ever parses the          *)
(* uninitialised ReceBuf on its stack.                                     *)
(***************************************************************************)
ReceBufFilled == \A p \in Port : pc = "mq" /\ recved = {p} => queue[p] # <<>>

(***************************************************************************)
(* The invariant behind it: an event that is up, or has been received and  *)
(* not been honoured, has a message of its own in the queue of its port.   *)
(***************************************************************************)
Claims(p) ==
  (IF p \in evset THEN 1 ELSE 0)
    + (IF pc \in {"switch", "mq"} /\ recved = {p} THEN 1 ELSE 0)

EventBacked == \A p \in Port : Claims(p) <= Len(queue[p])

(***************************************************************************)
(* The thread never sleeps on an event that is up: a handler that sets a   *)
(* bit while the thread is on its way to rt_event_recv is not missed.      *)
(***************************************************************************)
NoLostWakeup == pc = "suspend" => evset = {}

(***************************************************************************)
(* Action_mux: who moves the arm for Bluetooth owns it, and who waits for  *)
(* it waits for the other thread.                                          *)
(***************************************************************************)
MutexHandedOver ==
  /\ owner = "UsartRece" <=> pc = "motion"
  /\ main = "mutex" => owner = "UsartRece"
  /\ pc = "mutex" => owner = "MainCtrl" /\ main # "init"

(***************************************************************************)
(* rt_mutex_take(RT_WAITING_FOREVER) returns to MainCtrl with the mutex,   *)
(* or never: no rt_thread_resume of the key thread cuts the wait short.    *)
(***************************************************************************)
TakenWithMutex ==
  [][main = "mutex" /\ main' # "mutex" => owner' = "MainCtrl" \/ pc' = "board"]_vars

\* An event that is up is taken, if only by a reset.
EventServed == \A p \in Connected : p \in evset ~> p \notin evset

\* A Bluetooth command that waits for the arm gets it, or the system resets.
MotionGranted == pc = "mutex" ~> pc \in {"motion", "board"}
-----------------------------------------------------------------------------
(***************************************************************************)
(* What the repository says of this code and it does not do.               *)
(***************************************************************************)

(***************************************************************************)
(* Usart.c:165, "enable the idle interrupt of the port", in the            *)
(* configuration of USART2: a line of a connected port that falls idle is  *)
(* served by its handler.  The call names USART1; USART2's handler is      *)
(* entered for each byte, but its idle branch never is.                    *)
(***************************************************************************)
IdleServed == \A p \in Connected : p \in idle ~> p \notin idle

(***************************************************************************)
(* board.c:70, "in the initialisation phase ... the ports still use global *)
(* variables, and queues once the threads run": no handler touches a queue *)
(* before the thread has created it.                                       *)
(***************************************************************************)
QueueBeforeUse == pc # "halted"

(***************************************************************************)
(* Transfer_Thread.c:131, "take the first six characters as the task code" *)
(* and 135, "if the task code is found": a frame that begins with a task   *)
(* code sets CodeS.                                                        *)
(***************************************************************************)
CodeIsFound ==
  [][pc = "act" /\ pc' = "recv" /\ taken.kind = "code" /\ taskStart /\ taken.lead = 0
       => codeS' # NULL]_vars

(***************************************************************************)
(* Transfer_Thread.c:269-270, "delay, waiting for the value to change",    *)
(* "left only when the chassis has arrived": once the byte MainCtrl waits  *)
(* for has arrived in the queue of the chassis, the wait ends by going on. *)
(***************************************************************************)
Arrived(v) ==
  \E i \in DOMAIN queue["USART2"] :
    queue["USART2"][i].kind = "car" /\ queue["USART2"][i].val = v

AwaitServed ==
  main = "await" /\ taskStart /\ Arrived(awaited) ~> main = "busy"
-----------------------------------------------------------------------------
(***************************************************************************)
(* What one would want of the thread, although no comment promises it: no  *)
(* message is left when it sleeps.  Two ports that fire together set two   *)
(* bits, which no case of the switch matches, and one port that fires      *)
(* twice sets one bit for two messages; from then on each frame of that    *)
(* port is handled when the next one comes.                                *)
(***************************************************************************)
SuspendedMeansDrained == pc = "suspend" => \A p \in Port : queue[p] = <<>>
=============================================================================
