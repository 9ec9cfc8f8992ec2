# Models and proofs of the sorting machine's firmware

The program is the firmware of the upper machine of a sorting robot: an STM32F103 under RT-Thread
that scans a task code, moves an arm (a lift, a turn, a clip and a turning plate) and sends a chassis,
the lower machine, from ring to ring over a serial line. The modules in this directory model its
control: what the threads and interrupt handlers do, in which order and under which priorities.
Line numbers below are those of `src/`.

## 1. Inventory

| part | state | operations | interacts with |
|---|---|---|---|
| receive path: `Usart.c` handlers, `Transfer_Thread.c` | DMA buffers, `Usart2_list`, `Usart3_list`, `Uart4_list`, `Usart_event`, `ReceCarSta`, `CodeS` | USART2/USART3/UART4 handlers, `UsartRece_thread_entry`, `ReceCarState_Wire`, `ReceTaskCode_Mult`, `MotorSteeringCtrl_BT` | events and queues from the handlers to the thread; `Action_mux` with `MainCtrl`; `SysValue`, `SysTask` |
| mission: `Arm_Thread.c`, the sending half of `Transfer_Thread.c` | `SysTask`, the static counters of the action groups, `OldValue` | `MainCtrl_thread_entry`, `Ground_PutAction`, `Ground_TakeAction`, `TakeRawMaterial`, `IdentifyColorTake`, `SendOrderToCar`, `SendRingToCar` | reads `ReceCarSta` and `CodeS`, moves the arm, sends orders |
| Bluetooth port: `Usart.c` (UART4 and its DMA channels), `CRC.c` | `U4Buf`, the two channels' counts | the idle, error and end-of-transmission handlers, the answer of `MotorSteeringCtrl_BT` | `Uart4_list` to the receive path; `U4Buf.SenBuf` shared by the thread, the send channel and its handler |
| motor drive: `Motor.c` | `motor` (angles, `step_max`, `sign_1_ok_step`), `id_motor`, `HeightNow`, TIM8 | `MotorMotion_Lift`, `MotorMotion_Rotate`, the two angle controls, the TIM8 handler | called by `MainCtrl` and by `UsartRece`, finished by the handler |
| servos: `Steering.c` | PWM compare registers | `ArmClipTakeState`, `MaterialPosition` | called by the same two threads |
| keys: `Key.c`, `Key_Thread.c` | `PressTime`, `LooseCount`, `KeyAlone`, `TaskStart`, `DebugStart` | `KeyScanFreq`, `KeyDeviceRunning`, `KeyControlTask` | starts, resumes and suspends the other threads |
| display: `Display_Thread.c` | the screen, `LcdShow_event`, two mailboxes | `LcdNormal`, `LcdDebug` | events of `MainCtrl`, mail of the sender and the keys |
| watchdog: `Led_WDG.c`, `WDG.c` | the IWDG counter | the soft-timer call-back that feeds it | starves with the timer thread (4), which every thread of the program is above |
| start: `board.c`, `main.c`, `components.c` | `InitComplete`, creation of threads | `rt_hw_board_init`, `main` | decides what the handlers may find |
| upgrade: `Iap.c`, `Flash.c` | a flag in flash, the page buffer `FLASH_BUF` | `FlashSetFlag_IAP`, `FLASH_Write`; `FlashWriteBin_IAP` (no caller) | a Bluetooth command writes the flag and resets |
| WiFi: `Esp8266.c` | the module's replies in `U3Para` | `ESP8266_Init` and its commands | polls `U3Para.State` during the start |
| helpers: `LoopList.c`, `List.c`, `LobotServo.c` | | | no caller |
| kernel: `Rtos/RT-Thread` | the ready queues, threads, mutexes, two timer lists, the tick | `rt_schedule`, `rt_mutex_take`, `rt_mutex_release`, `rt_thread_delay`, `rt_timer_check`, the timer thread; queues, events, mailboxes | under everything above |

What is hard in it, with its lines, is the list `hazards` of PROJECT.json. The main ones:

* **Priorities.** `MainCtrl` (0) is above `UsartRece` (1), the keys (2), the display (3) and the timer
  thread (4) that feeds the watchdog. `Delay_ms` and the motors busy-wait; only `rt_thread_delay` lets a
  lower thread run. A busy wait of `MainCtrl` for something a lower thread must do never ends.
* **Events that coalesce.** A handler puts a message in a queue and raises an event; the thread reads the
  event set once, takes *one* message per event and switches on the *exact* set.
* **Unchecked results.** `rt_mq_recv(..., RT_WAITING_NO)` into a stack buffer whose result is ignored.
* **Two movers.** `MainCtrl` and the Bluetooth command share the arm under `Action_mux`, but not in
  `GoStaging` and `GoStag2`.
* **Choreography.** The action groups turn the plate and send the chassis ahead for the *next* object; a
  wrong digit shows two groups later.
* **Keys.** Threads are started, resumed and suspended from their `stat`, which is rarely what the code
  expects.
* **Shared buffers.** DMA, an interrupt handler and a thread use `U4Buf` in turn, and nothing says whose
  turn it is.
* **Power.** An upgrade begins with a write to flash that may be cut off anywhere.
* **Numbers.** Ticks wrap around; the pulses of a lift motion are unsigned, the Bluetooth number a `char`,
  the task code one character longer than what is kept of it.

For each part, correct means:

* receive path: a handler only works on a buffer a message has filled; an event has its message; no
  wake-up is lost; each frame is served in the end; `Action_mux` has one owner and passes to the waiter;
* mission: every object goes, on its colour, from the raw area over the plate and the rough ring to the
  staging ring; the arm turns only where it is clear; the clip is empty whenever the mutex is free;
* motor drive: a motion ends, and makes the pulses it was asked for;
* keys: one press is one command, and a command has its effect once;
* Bluetooth port: what is queued has an end, an answer is sent whole, a frame too long does no lasting harm;
* flash: a write changes what it was asked to change, a failure of the power costs no other page;
* kernel: the most urgent thread that can run runs; a mutex is never free while it is wanted; a timer is
  neither early nor forgotten;
* watchdog: fed as long as the system lives.

## 2. Modules

| module | models | extends |
|---|---|---|
| `UsartRece` | handlers, event set, queues, the thread `UsartRece`, `Action_mux`, what `MainCtrl` and the keys do to it, watchdog and upgrade resets | |
| `UsartReceProof` | its proofs | `UsartRece` |
| `Bluetooth` | the Bluetooth port of the receive path byte by byte, with both DMA channels | `Crc` |
| `BluetoothProof` | its proofs | `Bluetooth` |
| `Crc` | the check value of an answer, bit by bit, and its check | |
| `Sorting` | what the arm is for: the abstract specification | |
| `ArmMission` | `MainCtrl_thread_entry` and every action group, call by call; implements `Sorting` | |
| `ArmMissionProof` | its proofs | `ArmMission` |
| `Watchdog` | the mission against the clock: the delays, the feeding, the second of the watchdog | `ArmMission` |
| `Motor` | the motions of `Motor.c` down to the pulse, two threads and the TIM8 handler | |
| `MotorProof` | its proofs | `Motor` |
| `Panel` | the key, `KeyControlTask`, the two display threads | |
| `PanelProof` | its proofs | `Panel` |
| `Store` | what a write to flash promises: the abstract specification | |
| `Flash` | `FLASH_Write` operation by operation, with failures of the power; implements `Store` | |
| `FlashProof` | its proofs, the refinement among them | `Flash` |
| `Lock` | what a mutex promises: the abstract specification | |
| `Kernel` | scheduler, sleeping threads, the mutex with priority inheritance; implements `Lock` | |
| `KernelProof` | its proofs, the refinement among them | `Kernel` |
| `Timer` | the tick, the two timer lists, the timer thread | |
| `TimerProof` | its proofs | `Timer` |

The modules `MC...` hold the instances that TLC checks; `Panel` needs none. A definition whose name is
that of another with an ending (`Erase_Uncopied` of `Erase`) is a mistake that is easily made there; no
specification uses it. It is what the properties of the runs have been tried on, and PROJECT.json says
which property it breaks.

### UsartRece

One variable per kernel object: `queue` (the three message queues), `evset` (the event set), `owner`
(of `Action_mux`), `idle` (the idle-line flags that are up). `pc` is where the thread `UsartRece` is:
`board` (interrupts masked until the scheduler's first switch), `off`, `recv`, `suspend` (in
`rt_event_recv`), `switch`, `mq` (copying out of a queue slot, which is not free yet), `free`, `act` (in
a handler), `mutex` (waiting for `Action_mux`), `motion`, `halted` (an RT_ASSERT). `main` is what
`MainCtrl` is doing as far as this thread can tell. One action per handler (`USART2_IRQHandler`...),
per kernel call (`MqSend`, `EventSend`, `EventRecv`, `MqRecv`, `MqFree`, `MainTake`, `MainRelease`), per
function (`ReceCarState_Wire`, `ReceTaskCode_Mult`, and `BlueMotion`, `BlueMotionEnd`, `BlueUpgrade`,
`BlueEcho` for the branches of `MotorSteeringCtrl_BT`), and per key action (`KeyShort`,
`KeyTaskStart`, `KeyPersist`). The handlers may run between any two steps, the threads only as the
priorities let them (`MainRuns`, `ReceRuns`, `KeyRuns`).

Frames are records of what the code looks at (a state byte, whether a task code is at the front, the
length and number of a Bluetooth command). The Bluetooth number is kept modulo 256.

### ArmMission

`todo` holds the calls left of the current round of the thread's loop. A call of an action group is
replaced by the calls it makes, so that every motion, order and wait is a step. `Body(t)` is the case
of `NowTask = t`; `PutCalls`, `GroundTakeCalls` and `TakeRawCalls` are the groups. Around the program are
the objects: the clip takes an object where lift, turn, plate and chassis have been sent to, and leaves
it there. The bytes of the chassis come at any time and in any order, also ones nobody asked for, which
includes whatever the receive path makes of them; the real schedule allows fewer behaviours (below). The
turntable shows colours in any order. The orders Calibration and ReceCarSent do not move the chassis to
another place and are left out. `directGrab` is chosen in `Init`: it is a field of `SysValue` that
nothing writes.

`Sorting` knows only where each object was last and what is in the clip. `StopOf` is the refinement
mapping: an object counts as at a stop only on its own colour and after the right number of moves.

### Motor

`call[t]` is the motion thread `t` is in, `NoCall` between two. `MotorMotion_Lift` and
`MotorMotion_Rotate` choose the target (`NewHeight`, `Inside`), `Aim` is the part of `MotorAngleCtrl` and
`MotorAngleCtrl_S` before their loops (direction, channel, number of pulses), and the loops are
`SetSteps`, `Drive`, `Wait`, `Ack`: write `step_max`, enable TIM8, wait for `sign_1_ok_step`, clear it.
`part` says which loop: `circle_control` (`rounds`), `step_control` (`last`), or the curve of
`MotorSpeedCtrl_S` with one pulse per start. `End` writes the angle. `TIM8_UP_IRQHandler` may come between
any two of them while the timer is enabled. `n` is what was computed, `rest` what is left to drive, `made`
a history variable: what the motor has really done, counted where the channel is on.

Speeds (periods and prescalers) and the `Delay_ms(150)` after a motion are left out. The angle of the lift
is kept as the height it stands for; the conversion to pulses, with its rounding, is `Pulses`, the unsigned
difference is `CurvePulses`. `MotorAngleCtrl_S` does not drive the lift upwards and keeps its angle (the
`refused` of `Aim`).

Both threads may move anything, from any height, while they own `Action_mux`; besides, `MainCtrl` resets the
arm without it, as it does in `GoStaging` and `GoStag2`, also in the middle of a Bluetooth motion (`Allowed`).
Two motions then share the timer, the flag and the channel, and `TIM8_UP_IRQHandler` serves whoever looks.
A wait that never ends keeps the timer thread from running, and `WatchdogReset` may end it. `alone` and
`known` are history: whether a motion has had the drive to itself since it began, and whether the height
and the angle belong together. `Asked` is what the code drives for a motion, a refused curve and a wrapped one
included. The mission calls curves from the top only and moves nothing else without the mutex
(`MissionPlacesFromTop`, `MissionMovesWithMutex`, section 4); the second is `Allowed`, the first is not needed.

### Bluetooth and Crc

`line` holds the bytes the peer has begun to send, `recBuf` and `left` are the buffer and the count of the
receive channel, `idle` the idle-line flag, `isr` what the handler does next. The channel goes on while the
handler works, so the handler is five actions with bytes between them: `UART4_IRQHandler` looks at the counter,
`UART4_Queue` copies the buffer into the queue, `UART4_Print` is the branch for a full buffer, which prints a
line over this very port and so takes long, `UART4_Clear` clears the buffer, `UART4_Arm` starts the channel
again. A byte between the look and the copy may fill the last place; `strlen` then runs on behind the message,
and the thread is not followed further (`lost`). `pc` is where `UsartRece` is: `Recv`, then the
command's branch (`Moved`, `Echo`, `Upgrade`), then `Length`, `Modify` and `Start`, the three writes to
`senBuf` that make an answer, each of which `DMA2_Channel4_5_IRQHandler` may come before: it clears the
buffer. `SendByte` is the send channel. `Crc` has
`CRC16_CalcuValue`, its two loops as recursive functions, which shifts a signed 16-bit word as `CRC.c` does,
and an exclusive or made of digits. History variables (`frame`, `apart`, `early`, `ran`,
`clean`, `right`) say what was sent and whether anything ran into it, or into the handler.

### Flash and Store

`FLASH_Write` goes through its pages: `Read` the page, `Erase` and `Rewrite` it if a half-word of the
request is not erased, `Program` otherwise, `Advance` to the next. `PowerLoss` may come before, after or in
the middle of each operation; the half-word being programmed, or the page being erased, then reads anything.
After it the program begins again with whatever it finds. `FlashSetFlag_IAP` passes its flag as the
*address* 1 or 0 (`Iap.c`), so what is stored is a half-word of the vector table; the model takes any value.
The address of the flag is the second half-word of its page. Every caller writes one half-word.

`Store` knows a write as one step and says what a failure may cost: the record, if it went to erased half-words,
otherwise its page, never another.

### Panel

Times of the key are counted in scans. `pin` is the key, with bounces; `KeyDeviceRunning` is a scan with its
callback, and `job` where `KeyCtrl` is afterwards: `KeyControlTask` is cut between any two calls, because
`MainCtrl`, which is above it, may wake at a tick. `stat` is `stat` of each thread, and what
`rt_thread_startup`, `rt_thread_resume` and `rt_thread_suspend` do depends on it as in `thread.c`; `assert`
is the assertion of `rt_thread_startup` against a thread that has been started. A suspended `MainCtrl` that
a short press resumes is READY, but `rt_thread_resume` calls no `rt_schedule`: `KeyControlTask` goes on until
its next call that does, or the next timeout (`bare`, `Reschedule`). `MainCtrl` is only its
rounds, its display events and its orders. `lcd` is where `LcdNormal` is. The mailboxes are counts.

### Kernel and Lock

An action is what runs with the interrupts off, so that the timer interrupt may come between a change to a
queue and the `rt_schedule` that follows. `table` and `group` are the ready queues and
`rt_thread_ready_priority_group`; `call[t]` is where thread `t` is in the kernel: returned (`run`), in
`rt_mutex_take` before and after the wait (`take`, `taken`), in a delay (`sleep`, `slept`), having made
another thread ready (`wake`). `TimeSlice` and `Timeout` are what the tick does to a thread, `Others` what it
does to one outside of the model, the timer thread for instance. `Resume` is the bare `rt_thread_resume` of
`KeyControlTask`: no `rt_schedule` follows, and `resumed` remembers for whom. The mutex has
the kernel's fields; `TakeWait` raises the owner, `Restored` lowers it. `TimedTake` says whether a mutex is
taken with a limit: the program always waits for ever.

`Lock` is a lock that is given by its holder to the most urgent waiter. `rt_mutex_take` without waiting and
`rt_mutex_release` by another thread are not called by the program and are left out. A thread that holds two
mutexes does not occur, so `original_priority` of nested ones is not modelled.

### Timer

`tick` wraps around after `TickMax`. `list` has the hard timers, those of sleeping threads, and the soft
ones in the order of the code, which compares words that may have wrapped. `Tick` is `rt_tick_increase` with
`rt_timer_check`. The timer thread is `pc`: it reads the first timeout, suspends itself or computes the time
to sleep, sleeps, and calls what is due, one by one, with the interrupts on; they are off only at `again`.
`late` bounds how long more urgent threads keep it away. The skip list has one level, as in the build. Soft
timers are started and stopped by `main` and by functions of timers only; one started by a more urgent
thread, between the thread's look at an empty list and its `rt_thread_suspend`, would be lost. Words that
are compared must be less than half a turn apart. `Tick` therefore bounds how late a soft timer may be, so
that one that is started is not put before it; the bound is never met while the timer thread is not fooled,
which the second part of `DueIsCalled` says.

### Watchdog

It adds the time to `ArmMission`, in units of 10 ms: each call takes the shortest time its delays allow
(motors turn in no time, a byte has come already), and only `rt_thread_delay` lets the timer thread run.
What it finds is therefore a lower bound on how long the watchdog goes unfed.

### How they fit

But for `Watchdog`, which extends `ArmMission`, the modules share no variable; each stands on what another shows.

* `UsartRece` and `Motor` see the mutex from their side: `UsartRece` takes a Bluetooth motion as a span of
  time in which the thread holds `Action_mux`, `Motor` opens that span up. `ArmMission` takes a motion as
  one step, which is what `Motor` justifies: a motion of `MainCtrl` ends, and one that has the drive to itself
  and goes down by more than the slow-down, as the mission's curves do, ends where it was sent.
* `UsartRece`, `Motor` and `Panel` assume that the most urgent ready thread runs and that a mutex goes to
  the most urgent waiter. `Kernel` shows both (`HighestRuns`, `LockSpec`), the first but for a thread that was
  resumed without `rt_schedule`, which `Panel` has too (`bare`).
* `Watchdog` assumes that the soft timer of 200 ms calls its function when due and the timer thread can run.
  `Timer` shows it, but for one case (below).
* `Bluetooth` opens up the port UART4 of `UsartRece`, whose frames are there whole, and `Flash` the
  `BlueUpgrade` of it.
* `Panel` and `ArmMission` have the same presses: a short press sets `TaskStart`, a persistent one clears
  it.

## 3. Runs

| run | shows |
|---|---|
| `usart_rece` | the safety of the receive path: every handled event has its message, no wake-up is lost, `Action_mux` changes hands properly |
| `usart_live` | its liveness, with the idle interrupts as the build enables them: each event is served, a Bluetooth motion gets the arm, or the system resets |
| `bluetooth` | no buffer is overrun; what is queued has an end unless a byte ran into the handler; an answer or a frame that nothing runs into is whole; the check value finds each single wrong bit; reception recovers from a frame too long |
| `arm_mission` | the mission sorts, for both modes, with keys, over repeated missions |
| `motor` | bare resets and any height included: a motion that is alone makes what the code drives for it and leaves the drive at rest, `MainCtrl`'s motions end, the lift stays in range and, but after two named cases, where `HeightNow` says |
| `panel` | each press has its value once and when it is let go, the threads come up in an order that works, no display event is slept on |
| `flash` | `FLASH_Write` implements `Store`, whenever the power fails, and programs no half-word that is not erased |
| `kernel` | the ready queues are exact, the highest runs but for one resumed without `rt_schedule`, the owner inherits, the mutex implements `Lock`, the most urgent gets it |
| `timer` | no timer is early, forgotten or called after it was stopped, over the wrap-around of the tick |
| `usart_idle`, `panel_started`, `mission_fed` | three things that do not hold (below) |

**Bounds.** `usart_*`: two of the three ports are connected in a run, since the third brings no new
interaction (the ports share the event set and the thread only); the idle interrupts as the build enables them
in `usart_live` and `usart_idle`, all of them in `usart_rece`, which is about more behaviours than the build
has; queues of two messages, the smallest for which the property that a full queue keeps a message while one
is copied out says something (five in the build; the proof covers every capacity from two); one value of each
kind of frame, or two where the code tells them apart. `arm_mission`: six task codes, one first order with
every second order, so that every relation of the two codes occurs; the groups treat colours alike except for
the plate's position at power-on, which the codes avoid. Nothing in `ArmMission` grows: after `Restart` it
begins again with a field that has been set up. `motor`: heights 4 to 8 for 300 to 1950 and 3/2 pulses to a
unit for 2.64, so that truncation differs between motions; a revolution of 3 pulses, so that a motion has no,
one or several rounds with and without a rest; a jog of 2 and a slack of 1, so that a jog leaves the range by
the slack as 50 and 25 do; a slow-down of 3 pulses and a word that counts to 7, one more than the longest way,
so that curves go down by more and by less than the slow-down, wrap around, and are refused. `count` is
bounded by the code (that is part of `TypeOK`), nothing else grows.

`bluetooth`: a receive buffer of 4, so that of the frames `1`, `110` and `1111` one ends early, one fits
exactly with its end and one is too long; a queue of one and two frames in a row before an answer (`MaxEarly`;
none when the thread is `lost`), so that one is dropped and one overtakes; a send buffer of 11 is the shortest
that holds every answer (`TextAssumption`; the build has 10 and 32). `flash`: two pages of three half-words,
with one-word records where the flag is, second in its page, and last in a page, a record of two words, and
always another page to be hurt; the values are those of the two flags and of erased flash. `panel`: debouncing
2, short 3, persistent 5 scans and a bounce limit of 1 keep the order of the build's numbers and the gaps
between them; loose scans are counted up to one beyond the limit, so that the limit is told apart from every
later turn of the counter; `MaxPress` lets a press outlast them all; boxes of one overflow at once. `kernel`:
three threads with the mutex and one between them that does not want it, which is what inheritance is about,
and that resumes the others; a lock is taken twice. `timer`: a revolution of 16 ticks against periods of 2 and
3 and delays up to 4, so that every phase of a period meets the wrap-around; the thread may be one tick late.
`mission_fed`: one task code.

**Deadlock** is checked wherever the system cannot stop. It is off for `arm_mission` (the machine may wait
for ever for a byte, and after `Restart`, with `TaskStart` false, no byte is taken any more) and for
`mission_fed`, which is about the same machine.

**Fairness.** Nothing is assumed of the outside: no frame must ever come, no key be pressed, no motion begin.

* `UsartRece`: the scheduler and the interrupt controller run what can run: weak fairness for the start, the
  handlers and the wake-up of `MainCtrl`; strong fairness for the thread `UsartRece`, which
  higher steps may preempt again and again but which runs whenever `MainCtrl` is in `rt_thread_delay`, and
  for the end of `MainCtrl`'s groups under the mutex.
* `Motor`: TIM8 counts (weak), `MainCtrl` goes on with its motion (weak: nothing preempts it but handlers),
  `UsartRece` with its own whenever `MainCtrl` is in `rt_thread_delay` or waits for the mutex (strong). The
  mutex need not be given back, and the watchdog need not bite.
* `Bluetooth`: bytes that have been begun arrive, DMA sends, handlers run (weak, all hardware).
* `Panel`: the delay of the key thread ends and `MainCtrl` goes through its rounds (weak), `KeyCtrl` runs as
  `MainCtrl` lets it (strong).
* `Kernel`: a thread that is to run goes on, a timer ends, and so does one of a thread outside the model, as
  that of the timer thread does again and again (weak); a thread that holds the mutex and runs
  again and again gives it back in the end (strong), which the application must see to.
* `Timer`: the tick comes, the timer thread goes on (weak; `Late` bounds how long it is kept).

### What the violations show

* `usart_idle`: `USART_Config_2` sets up the interrupt, the channel and the buffers of USART2, and enables the
  idle interrupt of USART1 (Usart.c:165, whose comment says "enable the idle interrupt of the port"). The idle branch of
  USART2's handler is never entered, so no frame of the chassis is queued, let alone served.
* `panel_started`: a start, a persistent press and a second start, or two long presses around a persistent
  one, start a thread that was started before, against the assertion of thread.c:270.
* `mission_fed`: `board.c:175` gives the watchdog one second. On the way of `TakeRawMaterial` the delays of
  one action group alone are 1850 ms without an `rt_thread_delay`, and the timer thread, the least urgent
  but `main`, does not feed it meanwhile: the chip is reset with the arm in the middle of a group.

### Disagreements that the modules state and no run shows

Each is a property of its module, or one without an exception that it states, or a value of its constants, for
a reader who wants to see it fail; most are one line of code.

| property or constant | what the code does |
|---|---|
| `QueueBeforeUse` of `UsartRece` | a frame during `rt_hw_board_init` is taken when interrupts are unmasked, before the queues exist, and the assertion in `rt_mq_send` halts the system (Usart.c:858) |
| `CodeIsFound` of `UsartRece` | six characters are kept (`CutAt`), the codes have seven (`CodeLen`): no task code is found (Transfer_Thread.c:131) |
| `AwaitServed` of `UsartRece`, under `FairSpec` | `SendRingToCar` busy-waits in the highest thread for what a lower one must write (Transfer_Thread.c:269) |
| `SuspendedMeansDrained` of `UsartRece` | no comment promises it: two ports at once, or one twice, leave messages in a queue while the thread sleeps, because it switches on the exact set and takes one message for each event; from then on that port is served one frame late (Transfer_Thread.c:75) |
| `Stopped` of `ArmMission` | a persistent press does not stop the mission: `rt_thread_suspend` only takes a READY thread, and `MainCtrl` is never READY while the key thread runs (Key_Thread.c:135, 129) |
| `CurveMakesAll` of `Motor` | Motor.c:258 has "all cases" of motion in the curve. For the lift `pulse_num - sj_length` is unsigned: a way down of fewer than 400 pulses (as from `Aim` to `Places`, which a Bluetooth command may ask for) becomes one of some 2^32 (Motor.c:316), and a way up is not made, with `HeightNow` already written (Motor.c:372) |
| `EveryMotionEnds` of `Motor` | `GoStaging` and `GoStag2` reset the arm without the mutex (Arm_Thread.c:130): in the middle of a Bluetooth motion, one clears the flag for both (Motor.c:236) and the other waits for ever, which only the watchdog ends |
| `FreshPress` of `Panel` | the time of a press is only cleared when it reached the debouncing time: glitches of one scan, however far apart, add up (Key.c:121) |
| `DebugAlone` of `Panel` | a `LcdNormal` that waits for an event is not READY, so `rt_thread_suspend` does not take it and it draws on in debug mode (Key_Thread.c:109) |
| `UpgradeOnly110` of `Bluetooth` | the number is a `char`: `366`, and others that are 110 modulo 256, start an upgrade (Transfer_Thread.c:205) |
| `OverflowSeen` of `Bluetooth` | the counter is looked at before the copy, and the channel goes on: a byte between the two fills the last place, and what is queued has no end for `strlen` (Usart.c:1018) |
| `AnswerWhole` of `Bluetooth` without `clean` | a command that comes while the last answer is sent writes into the buffer under the channel, and the handler clears it (Transfer_Thread.c:220, Usart.c:1051) |
| `HighestRuns` of `Kernel`, `TimedTake = TRUE` | a waiter whose time is up leaves its urgency with the owner, which drops it when it gives back a mutex that nobody waits for, without `rt_schedule`: a more urgent thread stays ready (ipc.c, `rt_mutex_release`) |
| `SleepsUntilDue` of `Timer` without `fooled` | a soft timer that is due at tick `RT_TICK_MAX` is taken for an empty list (timer.c:689): the thread suspends for ever, and the watchdog is no longer fed |
| `InPage` of `Flash` | over the end of a page `WriteAddr` advances by half-words though it is a byte address, and the offset of the next page is not its start (Flash.c:118, Flash.c:55); no caller does it |

Not visible in a model: `USART2`'s channel is re-armed for 8 bytes into a buffer of 5 (Usart.c:872,
Usart.h:237); `LcdDebug` receives a mail of 4 bytes into one (Display_Thread.c:125), where what is next to
it is the compiler's choice; the check value is not CRC-16-IBM, because the shift is arithmetic (CRC.c:32);
main.c:43 gives the arrival byte as 0x40, sys.h:55 as 0x51.

Because of the code that is never found, the wait that is never served and the interrupt that is not
enabled, the firmware as built does not get past `ScanQR`, or past its first wait in `SendRingToCar`.
`ArmMission` therefore says what the mission does once bytes arrive, whichever way that is repaired; it does
not claim that they do.

## 4. Proofs

`UsartReceProof` proves for every value of the constants (queue capacity at least two, any set of enabled
idle interrupts, any frames):

* `Invariance`: Spec => []IInv, and from it `TypeCorrect`, `BufferFilled`, `NoWakeupLost`, `MutexCorrect`;
* `EventsBacked`: what `BufferFilled` rests on; `TakeReturnsOwner`: an action property, from the same invariant.

**Argument.** A handler that ignores what `rt_mq_recv` returns is right only if an event implies a message.
That is not inductive: a full queue drops a message *and* raises the event, and while a message is copied
out its slot is neither queued nor free. `IInv` adds that every event that is up, and every event the thread
has received and not yet served, has a message of its own in the queue (`EventBacked`), what each `pc` says
about `recved` (`RecvedInv`), what is still untouched before the objects are created (`BootInv`), and what
`main` says about the mutex (`MainInv`). With capacity at least two a full queue holds one message besides
the one in transit; with one it would not.

`TakenWithMutex` holds although `rt_thread_resume`, called by a short press, would make a waiter for
a mutex return without it: the key thread cannot run while `UsartRece` moves the arm, and that is the
only time `MainCtrl` waits.

`MotorProof` proves, for every geometry (heights, pulses per unit, revolution, slow-down, and a word that counts
the pulses of any way of the lift), of every behaviour of `Motor`, resets without the mutex and motions from any
height included:

* `CallsInvariance`: Spec => []CallInv, and from it `TypeCorrect`, `StaysInRange` (`InRange`) and
  `BluetoothOwnsMutex`;
* `MotionsMakeTheirSteps` (`StepsMade`), from `AloneInv`, and `HeightIsKnown` (`HeightKnown`), from `HeightInv`.

**Argument.** There are three layers. `CallInv` is what each thread knows of its own motion, so that nothing the
other one does can spoil it: the types, the height a motion goes to, what is left of it, and who owns the mutex.
A refused curve keeps the angle, which is in range; so is every target that is driven to.

`AloneInv` is about a motion that has had the drive to itself. It began with the drive at rest and nobody else
moving, and nobody can begin without its losing `alone`: whatever two motions did to each other before, it finds
neither timer nor flag nor a count, and it leaves none. In between each pulse is accounted for: the pulses made
towards the target plus those left minus those asked for are 0 while the timer is off, equal to the handler's
static `step` while it runs, and a whole burst between the flag and the thread's subtraction. A burst is
`step_max` pulses, or one if that is zero: this is the one pulse of tolerance in `StepsMade`. It needs that
direction, channel and mode are those of the motion under way and that exactly one of timer and flag is up while
a thread waits, which hold because nobody else moves. A curve down of fewer pulses than the slow-down has a word
more to make, which is what `Asked` says of it; `WordAssumption` keeps the others from wrapping.

`HeightInv` carries from one motion to the next that, while `known`, `HeightNow` inside the range is where the
lift is or is sent. A jog out of the range changes `HeightNow` and drives nothing; it can only be made by the
owner of the mutex while the other one is at rest. A motion of the lift that is alone and made writes the angle
that `HeightNow` was set to when it began, whatever parted the two before: who else writes `HeightNow` is such a
jog or begins a motion, and then it is not alone.

`ArmMissionProof` proves, for every set of task codes, both ways of taking and any presses, all that the run
of `ArmMission` checks: `MissionConsistent` (`Consistent`), `MutexEmptyHanded` (`EmptyHanded`),
`MissionTurnsClear` (`TurnsClear`), `MissionOwnSlot` (`OwnSlot`), `MissionFirstSkipped` (`FirstSkipped`),
`MissionAllStaged` (`AllStaged`) and `MissionSorts`: Spec => Sorts, the whole refinement of `Sorting`. Two more
say how the mission uses the motors: `MissionMovesWithMutex` (`MovesWithMutex`) and
`MissionPlacesFromTop` (`PlacesFromTop`), action properties that no run checks.

**Argument.** The first two speak of points between calls, while the static counters and the clip change
inside of groups, in an order that another group's calls depend on. `Inv` is about what is *left to do*,
`todo`: there is one change of task in it (`GotoInv`); each static count, plus the calls left that count it,
makes three (`CountInv`), so that the last group of a ring finds its reset; and what closes the clip comes
under the mutex and is followed by an opening before the mutex is given back (`MuxInv`). Every group of calls
is shown to be an expansion that opens what it closes, every case of `Body` to be a round of this kind, and
each step of the program takes one call off a list of which all this is true.

Where the objects go needs more than counting: which object a clip takes depends on the lift, the arm, the
plate and the chassis, each left there by another group, often by that of another round. So the second
invariant, `PathInv`, *runs* the calls that are left. A view is all that matters to them: task and statics,
arm, plate, chassis, what the clip holds, and the last stop of every object. `Before` says what a call needs
of the view (the arm may turn, the clip is over the object whose turn it is, or over the place it goes to
next) and `Effect` what it leaves, for the action groups as well as for single motions. `PathInv` says that
some view agrees with the state and that from it the calls left lead, each with what it needs, to a `Boundary`:
the end of a round, where all is `Ready` for the case of the next task. It is kept because

* each case of the switch has such a path, from what its own `Ready` says (`EndsBody`): here a round's
  calls are unfolded once, a view at a time;
* a group may make way for the calls it makes, because these lead where the group leads (`GroupMade`), which
  is shown for each group by itself and holds wherever it is used;
* a motion that is made agrees with the view it leads to (`CallMade`); only where the clip closes or opens
  does the view meet the objects.

What a path need not know is forgotten on the way (`Forget`): the colour taken last and `oldValue`, and with
`DirectGrab` also which object it was; there the view says nothing of stops, and what is left of `Sorts` is
that the machine stutters. Each property is then read off the view: a turn off `Before` of the call, the slots
off the clip's opening, `AllStaged` off `Staged`, the next step of `Sorting` off the stops (`ViewStops`).

For the motor drive, `MoveInv` says of the motions that are left that each has the mutex taken before it and
not released in between, or is one of the resets of `GoStaging` and `GoStag2` before their change of task; and
it keeps `MuxPlan` for the clip, full or empty: it opens before the mutex goes. The first is no more than `Allowed`
of `Motor` lets `MainCtrl` do. The second is why the mission meets none of what `CurveMakesAll` fails for:
`ArmMission` only knows where the lift was last sent, and a Bluetooth command may have moved it since; but the
lift was sent up with the clip closed, the clip closes below the top and with the mutex, and the mutex stays while
it is closed. So nobody else moved, and the way down is the whole one, in the build more than 400 pulses. A
Bluetooth command takes the mutex but need not begin at the top (section 3), and `Motor` and `ArmMission` are not
composed in one specification.

`PanelProof` proves, for all press times, limits and box sizes: `ThreadsConsistent` (`Consistent`),
`FirstPresses` (`FirstPressesSafe`), `Answered` (`AnsweredWhenLetGo`, in both directions), `Heard`
(`EveryAnswerHeard`) and `NormalRetires`, the action property `RetiredForGood`, which no run checks.
**Argument.** That the event set exists before `LcdNormal` starts depends on where `KeyCtrl` is among its
calls when `MainCtrl` comes in between: the invariant says for each `job` which threads are started, what the
histories of starts and long presses then are, and what the debouncing counts are.

`FlashProof` proves, for every number and size of pages and all requests that stay on their page (`Fits`),
`FlashTypes`, `NoError` (`NoProgError`) and `Implements`: Spec => StoreSpec, the whole refinement.
**Argument.** What a failure costs depends on how far the write has come. `Inv` relates the flash to the
buffer and the request at each `pc`: what has been programmed is what was intended, what has not is erased,
no other page has changed. From this every step before the last change is a stutter of `Store` or its
beginning, and a failure changes only what `AtStake` says.

`BluetoothProof` proves, for all frames, buffer lengths and queue capacities, with the channel going on
between the steps of the handler, `BuffersKept` (`TypeOK`: no write goes beyond a buffer), `Terminates`
(`Terminated`), `WholeFrames` (`FrameWhole`), `WholeAnswers` (`AnswerWhole`) and `AnswersChecked`
(`AnswerChecks`, which the run asks of single bits), and `AnswersSeen`, the same for a change of any one byte.
**Argument.** The parts of the port only touch in the buffers. For reception `Inv` says that what the counter
leaves is 0 (`Unfilled`), so that a frame the handler queues has an end unless a byte ran into it (`ran`);
that nothing is in the buffer between two frames, except while the handler is at work (`Between`); and that a
frame that began apart from the others is in the buffer as far as it has come (`Arriving`). For the answer
there are two accounts. One holds even when an answer runs into the one before: at each `pc` the text has an
end early enough for what is written next (`TextInv`), because what the end-of-transmission handler leaves, an
empty buffer, has its end at its start. The other is for an answer that has the buffer to itself (`CleanInv`):
it is followed write by write, the buffer being the text, the text with its length, the whole answer, each
padded with 0. What has been sent is then a text with its check value (`AnswerOf`), and the rest is
arithmetic, for texts of any length. Short ints with the same digits are the same (`SameDigits`), so exclusive
or with one number keeps two others apart (`XorInjective`). A round does so too, although the shift keeps the
sign (`CrcBitInjective`): after a shift the first two digits are the same, and the polynomial's differ, so the
first two digits of the result say which branch was taken. So two texts with one different byte are told apart
there and in every round after it (`OneByteSeen`). These are inductions, over sets of numbers instead of
predicates (`Induct`), from the library's theorem that numbers are well-founded; they also give the recursive
functions their values (`LoopExists`).

`KernelProof` proves, for any threads and priorities and any limit of nesting, whether `rt_mutex_take` is
given a time or not, and whoever is resumed without `rt_schedule`: `KeepsThreads` (`Consistent`),
`OwnerInherits` (`Inherits`) and `MutexIsLock`: Spec => LockSpec, the whole refinement; and, while nobody
gives up waiting (`TimedTake = FALSE`), `ForemostRuns` (`HighestRuns`, which exempts a thread so resumed until
the next `rt_schedule`). **Argument.** A queue of the kernel is a sequence without repetitions; the first
lemmas say what putting in and unlinking do to one. `Exact` says which thread is in which queue, as a relation
between the queues, the states and the priorities; putting in, taking out, moving and rotating carry it from
one triple to the next, so that each action is a chain of two or three of them. `LockInv` is about the list of
the mutex: it is in order (`Ordered`, which the hand-over to the first needs); who is in it is suspended in
`rt_mutex_take` and not more urgent than the owner is at present (`Waits`); the owner will go back to the
priority it was made with (`Owned`); and who is in `rt_mutex_take` without an error is in the list or has been
given the mutex (`Promised`). The two halves need each other: a thread in the list cannot run because it is
suspended, and a thread that is started for the first time has its own priority because it cannot be the
owner. `ForemostRuns` needs in addition that a priority an owner has inherited is that of a thread that still
waits (`Boosted`), so that a release without a hand-over, which does not call `rt_schedule`, lowers nothing.
With a time it is false, as section 3 says.

`TimerProof` proves, for any timers, periods, width of the tick and delays of the timer thread that leave a
period less than half a turn, `KeepsOrder` (`Consistent`), `WakesInTime` (`SleepsUntilDue`) and
`CallsNoneEarly` (`NoStrayCall`). **Argument.** The code compares words, the properties speak of the time
that is really left. `Timing` is the bridge: the tick a timer is due at is the present one and the time it
has left, up to a turn (`Points`), which starting a timer and the tick keep (`StartPoints`, `TickPoints`).
As long as the times are in `Ranges`, comparing two words is comparing two times (`DueIs`, `LaterIs`), so
that `Insert` puts a timer in its place (`PutOn`) and the due ones are a front of the list (`FrontIsDue`).
`HardList` and `SoftList` say that each list is without repetitions, in order, and just of the timers that
are on; a soft timer whose function is called is on and on no list. `Known` is what the timer thread knows
between two of its steps: the timeout it has read is that of the first timer, the time it is about to sleep
is what that one had left when it was computed, so it oversleeps by at most `Late`.

Other assumptions on constants are the named ASSUMEs of the modules; TLC evaluates them in each run.

**Only model-checked**: liveness, which rests on fairness (`EventServed`, `MotionGranted`,
`MotionEnds`, `PressAnswered`, `OverflowRecovers`, `TopServed`, and `DueIsCalled` with
its bound). Every invariant and action property of a passing run, and each refinement, is a theorem.

## 5. Not modelled

* The drawing of the display, the pixels and fonts, the SPI transfers; the status LEDs: output without
  state.
* The WiFi module: polled once before the scheduler starts, on a port nothing else uses then.
* The self-test at power-on, the configuration of clocks, pins and peripherals.
* Speeds: timer periods and prescalers of the motors, pulse widths of the servos; how long motions take is
  only in `Watchdog`, as nothing.
* The chassis: it is not in the repository. That an arrival is the answer to the last order
  (Transfer_Thread.c:270) cannot be said without it.
* What has no caller: `FlashWriteBin_IAP`, whose buffer has 32 of the 1024 bytes it would need,
  `AddressJump_IAP`, `FLASH_Erase`, `FLASH_WriteHalfWord`, `LoopList`, `List`, `LobotServo`,
  `CRC16_CheckValue` beyond its use in `AnswerChecks`, motors 3 and 4.
* Of the kernel: memory, objects, devices, the shell, and what the program does not call.
* ST's peripheral library, CMSIS, board-support packages and start-up code, by far the most of the lines of
  the repository.

What would add most next: the chassis as an abstract partner of `ArmMission`, once its program is known, and
`Kernel` and `Timer` in one module, so that the sleep of a thread is the timer that wakes it.
