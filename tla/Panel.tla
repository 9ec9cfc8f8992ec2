-------------------------------- MODULE Panel --------------------------------
(***************************************************************************)
(* The operator's side of the machine: the key, which KeyCtrl scans every  *)
(* ten ticks, what KeyControlTask does with the value of a press, and the  *)
(* two threads that draw on the screen.                                    *)
(*                                                                         *)
(*   MainCtrl   (0)  the mission; here its rounds, events and orders       *)
(*   KeyCtrl    (2)  KeyDeviceRunning, KeyControlTask                      *)
(*   LcdNormal  (3)  draws what the event group LcdShow_event tells it     *)
(*   LcdDebug   (3)  draws what it finds in two mailboxes                  *)
(*                                                                         *)
(* A thread runs when no thread of a higher priority is READY; the two LCD *)
(* threads share a priority and take turns.  Only a MainCtrl that was      *)
(* resumed waits for the next rt_schedule: `bare'.  A tick may make        *)
(* MainCtrl or KeyCtrl READY at any time, so KeyControlTask is cut between *)
(* any two of its calls.  UsartRece and the watchdog's feeding are in      *)
(* UsartRece. main() has created the threads before the first press can be *)
(* answered.                                                               *)
(*                                                                         *)
(* Times of the key are counted in scans (KEY_TIME_RATIO of Key.h).        *)
(***************************************************************************)
EXTENDS Naturals

CONSTANTS
  ShakeTime, ShortTime, PersistTime,  \* KEY_SHAKE_TIME, KEY_SHORT_TIME, KEY_PERSIST_TIME
  LooseLimit,    \* KEY_LOOSE_COUNT
  MailSize,      \* mails a mailbox holds
  DebugBuild,    \* how SysValue.DebugStart is built
  MaxPress       \* bound: scans a key is held, in all, before it is answered

ASSUME TimeAssumption ==
  /\ ShakeTime \in Nat \ {0} /\ ShortTime \in Nat /\ PersistTime \in Nat /\ MaxPress \in Nat
  /\ ShakeTime < ShortTime /\ ShortTime < PersistTime
ASSUME LooseAssumption == LooseLimit \in Nat \ {0}
ASSUME BuildAssumption == MailSize \in Nat \ {0} /\ DebugBuild \in BOOLEAN

KeyValue == {"Release", "Short", "Long", "Persist"}
Thread   == {"MainCtrl", "LcdNormal", "LcdDebug"}
LcdEvent == {"START", "CODES", "HELLO"}

VARIABLES
  pin,          \* the level of the key: "press" or "loose"
  pressTime, looseCount,    \* the statics of KeyScanFreq
  keyOld,       \* KeyAlone.KeyValueOld
  job,          \* where KeyCtrl is
  stat,         \* the stat of the other threads
  taskStart, debugStart,    \* SysValue
  nowTask,      \* where MainCtrl is in its mission
  created,      \* LcdShow_event exists
  bare,         \* MainCtrl was resumed, and nobody has called rt_schedule since
  eset,         \* LcdShow_event->set
  lcd,          \* where LcdNormal is
  recved,       \* its RecvedEvent
  keyMail, orderMail,       \* the mails in KeyValue_mail and SendOrder_mail
  loose,        \* history: scans since the key was last seen pressed, up to
                \* LooseLimit + 2
  starts, longs \* history: presses that asked to start, long presses (up to two)

scan    == <<pressTime, looseCount, loose>>
flags   == <<taskStart, debugStart>>
display == <<eset, lcd, recved>>
history == <<starts, longs>>
vars == <<pin, scan, keyOld, job, stat, flags, nowTask, created, bare, display,
          keyMail, orderMail, history>>

\* "scan": about to call KeyDeviceRunning; "short" to "persist": in
\* KeyControlTask; "assert": in the handler of a failed assertion, for ever.
Job == {"delay", "scan", "short", "lcd", "set", "long", "debug", "flag", "persist", "assert"}
\* "wait": in the event group's list of suspended threads.
Lcd == {"recv", "wait", "draw"}

MainRuns == stat["MainCtrl"] = "READY" /\ ~bare
KeyRuns  == ~MainRuns /\ job # "delay"
LcdRuns(t) == ~MainRuns /\ job = "delay" /\ stat[t] = "READY"

\* rt_thread_startup of an INIT thread and rt_thread_resume of a suspended one.
Ready(t) == [stat EXCEPT ![t] = "READY"]
\* rt_thread_suspend: an error, and no more, unless the thread is READY.
Suspend(t) == IF stat[t] = "READY" THEN [stat EXCEPT ![t] = "SUSPEND"] ELSE stat

\* rt_mb_send does not wait: a mail is dropped when the mailbox is full.
MbSend(mails) == IF mails < MailSize THEN mails + 1 ELSE mails

Init ==
  /\ pin = "loose" /\ pressTime = 0 /\ looseCount = 0 /\ keyOld = "Release"
  /\ job = "scan"
  /\ stat = [t \in Thread |-> IF t = "LcdDebug" /\ DebugBuild THEN "READY" ELSE "INIT"]
  /\ taskStart = FALSE /\ debugStart = DebugBuild
  /\ nowTask = "TaskStart" /\ created = FALSE /\ bare = FALSE
  /\ eset = {} /\ lcd = "recv" /\ recved = {}
  /\ keyMail = 0 /\ orderMail = 0
  /\ loose = 0 /\ starts = 0 /\ longs = 0
-----------------------------------------------------------------------------
(***************************************************************************)
(* The key.                                                                *)
(***************************************************************************)
Finger ==
  /\ pin' = IF pin = "press" THEN "loose" ELSE "press"
  /\ UNCHANGED <<scan, keyOld, job, stat, flags, nowTask, created, bare, display, keyMail, orderMail, history>>

\* KeyScanFreq on a key that is pressed ...
ScanPress(v) ==
  /\ pin = "press" /\ pressTime < MaxPress
  /\ pressTime' = pressTime + 1 /\ looseCount' = 0 /\ loose' = 0
  /\ v = IF pressTime + 1 >= PersistTime THEN "Persist" ELSE "Release"

\* Mutants: one loose scan fewer; the count of them is lost in every scan.
ScanLoose_Early(v) ==
  LET letGo == looseCount + 1 >= LooseLimit IN
  /\ pin = "loose"
  /\ loose' = IF loose > LooseLimit + 1 THEN loose ELSE loose + 1
  /\ looseCount' = IF letGo THEN 0 ELSE looseCount + 1
  /\ pressTime' = IF letGo /\ pressTime >= ShakeTime THEN 0 ELSE pressTime
  /\ v = CASE ~letGo \/ pressTime < ShakeTime -> "Release"
           [] letGo /\ pressTime \in ShakeTime .. ShortTime -> "Short"
           [] letGo /\ pressTime \in (ShortTime + 1) .. PersistTime -> "Long"
           [] letGo /\ pressTime > PersistTime -> "Release"

ScanLoose_Lost(v) ==
  LET letGo == looseCount + 1 > LooseLimit IN
  /\ pin = "loose"
  /\ loose' = IF loose > LooseLimit + 1 THEN loose ELSE loose + 1
  /\ looseCount' = 0
  /\ pressTime' = IF letGo /\ pressTime >= ShakeTime THEN 0 ELSE pressTime
  /\ v = CASE ~letGo \/ pressTime < ShakeTime -> "Release"
           [] letGo /\ pressTime \in ShakeTime .. ShortTime -> "Short"
           [] letGo /\ pressTime \in (ShortTime + 1) .. PersistTime -> "Long"
           [] letGo /\ pressTime > PersistTime -> "Release"

\* ... and on one that is loose: a press is over, and has its value, when it
\* has been loose for more than LooseLimit scans.
ScanLoose(v) ==
  LET letGo == looseCount + 1 > LooseLimit IN
  /\ pin = "loose"
  /\ loose' = IF loose > LooseLimit + 1 THEN loose ELSE loose + 1
  /\ looseCount' = IF letGo THEN 0 ELSE looseCount + 1
  /\ pressTime' = IF letGo /\ pressTime >= ShakeTime THEN 0 ELSE pressTime
  /\ v = CASE ~letGo \/ pressTime < ShakeTime -> "Release"
           [] letGo /\ pressTime \in ShakeTime .. ShortTime -> "Short"
           [] letGo /\ pressTime \in (ShortTime + 1) .. PersistTime -> "Long"
           [] letGo /\ pressTime > PersistTime -> "Release"

Callback(v) ==
  CASE v = "Release" -> "delay" [] v = "Short" -> "short"
    [] v = "Long" -> "long"     [] v = "Persist" -> "persist"

\* Mutant: KeyValueOld is left alone when the key is released.
KeyDeviceRunning_Stale ==
  /\ job = "scan" /\ KeyRuns
  /\ \E v \in KeyValue :
       /\ ScanPress(v) \/ ScanLoose(v)
       /\ job' = IF v = keyOld THEN "delay" ELSE Callback(v)
       /\ keyOld' = IF v = "Release" THEN keyOld ELSE v
  /\ UNCHANGED <<pin, stat, flags, nowTask, created, bare, display, keyMail, orderMail, history>>

\* KeyDeviceRunning: the callback hears of a value that is not the last one.
KeyDeviceRunning ==
  /\ job = "scan" /\ KeyRuns
  /\ \E v \in KeyValue :
       /\ ScanPress(v) \/ ScanLoose(v)
       /\ job' = IF v = keyOld THEN "delay" ELSE Callback(v)
       /\ keyOld' = v
  /\ UNCHANGED <<pin, stat, flags, nowTask, created, bare, display, keyMail, orderMail, history>>

\* rt_thread_delay(10) ends.
KeyWake ==
  /\ job = "delay"
  /\ job' = "scan"
  /\ UNCHANGED <<pin, scan, keyOld, stat, flags, nowTask, created, bare, display, keyMail, orderMail, history>>
-----------------------------------------------------------------------------
(***************************************************************************)
(* KeyControlTask.                                                         *)
(***************************************************************************)
KeyMail == keyMail' = MbSend(keyMail)
Count(n) == IF n = 2 THEN 2 ELSE n + 1

\* Mutant: LcdNormal is started before MainCtrl.
KeyShort_LcdFirst ==
  /\ job = "short" /\ KeyRuns
  /\ KeyMail
  /\ IF taskStart
     THEN job' = "delay" /\ UNCHANGED <<stat, starts, bare>>
     ELSE /\ job' = IF stat["LcdNormal"] = "INIT" THEN "set" ELSE "lcd"
          /\ stat' = [stat EXCEPT !["MainCtrl"] = "READY", !["LcdNormal"] = "READY"]
          /\ starts' = Count(starts) /\ bare' = FALSE
  /\ UNCHANGED <<pin, scan, keyOld, flags, nowTask, created, display, orderMail, longs>>

\* Mutant: a press while the system runs is taken like the first one.
KeyShort_Again ==
  /\ job = "short" /\ KeyRuns
  /\ KeyMail
  /\ job' = "lcd" /\ stat' = Ready("MainCtrl") /\ bare' = (stat["MainCtrl"] = "SUSPEND")
  /\ starts' = IF taskStart THEN starts ELSE Count(starts)
  /\ UNCHANGED <<pin, scan, keyOld, flags, nowTask, created, display, orderMail, longs>>

\* MainCtrl is started, and runs at once; or whatever it is suspended in is cut
\* short, and KeyCtrl goes on.
KeyShort ==
  /\ job = "short" /\ KeyRuns
  /\ KeyMail
  /\ IF taskStart
     THEN job' = "delay" /\ UNCHANGED <<stat, starts, bare>>
     ELSE /\ job' = "lcd" /\ stat' = Ready("MainCtrl") /\ starts' = Count(starts)
          /\ bare' = (stat["MainCtrl"] = "SUSPEND")
  /\ UNCHANGED <<pin, scan, keyOld, flags, nowTask, created, display, orderMail, longs>>

\* LcdNormal is started if LcdDebug has not been: whether LcdNormal itself
\* has been is not looked at.  rt_thread_startup calls rt_schedule, as does
\* the delay after KeyControlTask.
KeyShortLcd ==
  /\ job = "lcd" /\ KeyRuns
  /\ IF debugStart \/ stat["LcdDebug"] # "INIT"
     THEN job' = "set" /\ UNCHANGED <<stat, bare>>
     ELSE IF stat["LcdNormal"] = "INIT"
          THEN job' = "set" /\ stat' = Ready("LcdNormal") /\ bare' = FALSE
          ELSE job' = "assert" /\ UNCHANGED <<stat, bare>>
  /\ UNCHANGED <<pin, scan, keyOld, flags, nowTask, created, display, keyMail, orderMail, history>>

KeyShortSet ==
  /\ job = "set" /\ KeyRuns
  /\ taskStart' = TRUE /\ job' = "delay" /\ bare' = FALSE
  /\ UNCHANGED <<pin, scan, keyOld, stat, debugStart, nowTask, created, display, keyMail, orderMail, history>>

\* A timeout calls rt_schedule.
Reschedule ==
  /\ bare
  /\ bare' = FALSE
  /\ UNCHANGED <<pin, scan, keyOld, job, stat, flags, nowTask, created, display, keyMail, orderMail, history>>

KeyLong ==
  /\ job = "long" /\ KeyRuns
  /\ KeyMail
  /\ IF taskStart /\ debugStart
     THEN job' = "delay" /\ UNCHANGED stat
     ELSE job' = "debug" /\ stat' = IF taskStart THEN Suspend("LcdNormal") ELSE stat
  /\ longs' = Count(longs)
  /\ UNCHANGED <<pin, scan, keyOld, flags, nowTask, created, bare, display, orderMail, starts>>

KeyLongDebug ==
  /\ job = "debug" /\ KeyRuns
  /\ IF stat["LcdDebug"] = "INIT"
     THEN job' = "flag" /\ stat' = Ready("LcdDebug")
     ELSE job' = "assert" /\ UNCHANGED stat
  /\ UNCHANGED <<pin, scan, keyOld, flags, nowTask, created, bare, display, keyMail, orderMail, history>>

\* Mutant: the flag is forgotten.
KeyLongFlag_Forgotten ==
  /\ job = "flag" /\ KeyRuns
  /\ job' = "delay"
  /\ UNCHANGED <<pin, scan, keyOld, stat, flags, nowTask, created, bare, display, keyMail, orderMail, history>>

KeyLongFlag ==
  /\ job = "flag" /\ KeyRuns
  /\ debugStart' = TRUE /\ job' = "delay"
  /\ UNCHANGED <<pin, scan, keyOld, stat, taskStart, nowTask, created, bare, display, keyMail, orderMail, history>>

KeyPersist ==
  /\ job = "persist" /\ KeyRuns
  /\ KeyMail
  /\ taskStart' = FALSE
  /\ stat' = IF taskStart THEN Suspend("MainCtrl") ELSE stat
  /\ job' = "delay"
  /\ UNCHANGED <<pin, scan, keyOld, debugStart, nowTask, created, bare, display, orderMail, history>>

\* The handler of a failed assertion keeps the processor from the threads
\* below KeyCtrl; the timer thread does not feed the watchdog, and it bites.
WatchdogReset ==
  /\ job = "assert" /\ ~MainRuns
  /\ pin' = pin /\ pressTime' = 0 /\ looseCount' = 0 /\ keyOld' = "Release"
  /\ job' = "scan"
  /\ stat' = [t \in Thread |-> IF t = "LcdDebug" /\ DebugBuild THEN "READY" ELSE "INIT"]
  /\ taskStart' = FALSE /\ debugStart' = DebugBuild
  /\ nowTask' = "TaskStart" /\ created' = FALSE /\ bare' = FALSE
  /\ eset' = {} /\ lcd' = "recv" /\ recved' = {}
  /\ keyMail' = 0 /\ orderMail' = 0
  /\ loose' = 0 /\ starts' = 0 /\ longs' = 0
-----------------------------------------------------------------------------
(***************************************************************************)
(* MainCtrl, as the panel sees it.                                         *)
(***************************************************************************)

\* The end of a round: rt_thread_delay.  No thread has run since its start,
\* so that the round and its delay are one step.
Delayed == [stat EXCEPT !["MainCtrl"] = "SUSPEND"]

\* Mutant: LcdNormal, if it waits, is not woken.
EventSend_NoWake(e) == eset' = eset \cup {e} /\ stat' = Delayed /\ UNCHANGED <<lcd, recved>>

\* rt_event_send in a round: LcdNormal, if it waits, receives what is up and
\* is READY.
EventSend(e) ==
  IF lcd = "wait"
  THEN /\ recved' = eset \cup {e} /\ eset' = {} /\ lcd' = "draw"
       /\ stat' = [Delayed EXCEPT !["LcdNormal"] = "READY"]
  ELSE eset' = eset \cup {e} /\ stat' = Delayed /\ UNCHANGED <<lcd, recved>>

\* The first thing MainCtrl does is to create the event group.
MainEntry ==
  /\ MainRuns /\ ~created
  /\ created' = TRUE
  /\ UNCHANGED <<pin, scan, keyOld, job, stat, flags, nowTask, bare, display, keyMail, orderMail, history>>

MainTaskStart ==
  /\ MainRuns /\ created /\ nowTask = "TaskStart"
  /\ EventSend("START") /\ orderMail' = MbSend(orderMail)
  /\ nowTask' = "ScanQR"
  /\ UNCHANGED <<pin, scan, keyOld, job, flags, created, bare, keyMail, history>>

MainScanQR ==
  /\ MainRuns /\ created /\ nowTask = "ScanQR"
  /\ EventSend("CODES")
  /\ nowTask' = "Mission"
  /\ UNCHANGED <<pin, scan, keyOld, job, flags, created, bare, keyMail, orderMail, history>>

\* The states between ScanQR and Restart, which send orders.
MainMission ==
  /\ MainRuns /\ created /\ nowTask = "Mission"
  /\ orderMail' = MbSend(orderMail) /\ stat' = Delayed
  /\ nowTask' \in {"Mission", "Restart"}
  /\ UNCHANGED <<pin, scan, keyOld, job, flags, created, bare, display, keyMail, history>>

MainRestart ==
  /\ MainRuns /\ created /\ nowTask = "Restart"
  /\ EventSend("HELLO")
  /\ nowTask' = "TaskStart" /\ taskStart' = FALSE
  /\ UNCHANGED <<pin, scan, keyOld, job, debugStart, created, bare, keyMail, orderMail, history>>

\* A round that waits for a code or for the chassis.
MainIdle ==
  /\ MainRuns /\ created /\ nowTask # "TaskStart"
  /\ stat' = Delayed
  /\ UNCHANGED <<pin, scan, keyOld, job, flags, nowTask, created, bare, display, keyMail, orderMail, history>>

MainWake ==
  /\ stat["MainCtrl"] = "SUSPEND"
  /\ stat' = Ready("MainCtrl")
  /\ UNCHANGED <<pin, scan, keyOld, job, flags, nowTask, created, bare, display, keyMail, orderMail, history>>
-----------------------------------------------------------------------------
(***************************************************************************)
(* The screen.                                                             *)
(***************************************************************************)

\* rt_event_recv with OR and CLEAR, waiting forever.
LcdRecv ==
  /\ LcdRuns("LcdNormal") /\ lcd = "recv"
  /\ IF eset = {}
     THEN lcd' = "wait" /\ stat' = [stat EXCEPT !["LcdNormal"] = "SUSPEND"] /\ UNCHANGED <<eset, recved>>
     ELSE lcd' = "draw" /\ recved' = eset /\ eset' = {} /\ UNCHANGED stat
  /\ UNCHANGED <<pin, scan, keyOld, job, flags, nowTask, created, bare, keyMail, orderMail, history>>

\* switch(RecvedEvent): a case for each single event, none for several.
LcdDraw ==
  /\ LcdRuns("LcdNormal") /\ lcd = "draw"
  /\ lcd' = "recv" /\ recved' = {}
  /\ UNCHANGED <<pin, scan, keyOld, job, stat, flags, nowTask, created, bare, eset, keyMail, orderMail, history>>

MbRecv(mails) == IF mails = 0 THEN 0 ELSE mails - 1

\* A round of LcdDebug takes at most one mail from each box, and delays.
LcdDebugRound ==
  /\ LcdRuns("LcdDebug")
  /\ orderMail' = MbRecv(orderMail) /\ keyMail' = MbRecv(keyMail)
  /\ stat' = [stat EXCEPT !["LcdDebug"] = "SUSPEND"]
  /\ UNCHANGED <<pin, scan, keyOld, job, flags, nowTask, created, bare, display, history>>

LcdDebugWake ==
  /\ stat["LcdDebug"] = "SUSPEND"
  /\ stat' = Ready("LcdDebug")
  /\ UNCHANGED <<pin, scan, keyOld, job, flags, nowTask, created, bare, display, keyMail, orderMail, history>>
-----------------------------------------------------------------------------
Key == KeyDeviceRunning \/ KeyShort \/ KeyShortLcd \/ KeyShortSet \/ KeyLong \/ KeyLongDebug
       \/ KeyLongFlag \/ KeyPersist
MainRound == MainEntry \/ MainTaskStart \/ MainScanQR \/ MainMission \/ MainRestart \/ MainIdle
Screen == LcdRecv \/ LcdDraw \/ LcdDebugRound

Next == Finger \/ KeyWake \/ Key \/ Reschedule \/ WatchdogReset \/ MainRound \/ MainWake \/ Screen \/ LcdDebugWake

Spec == Init /\ [][Next]_vars

(***************************************************************************)
(* Delays end; a round of MainCtrl is over in finite time, and lasts less  *)
(* than the delays between rounds allow for, so that KeyCtrl gets the      *)
(* processor again and again.                                              *)
(***************************************************************************)
Fairness == WF_vars(KeyWake) /\ WF_vars(MainRound) /\ SF_vars(Key)

FairSpec == Spec /\ Fairness
-----------------------------------------------------------------------------
\* The types; no mailbox holds more than it was created for.
TypeOK ==
  /\ pin \in {"press", "loose"}
  /\ pressTime \in Nat /\ looseCount \in Nat /\ loose \in Nat
  /\ keyOld \in KeyValue
  /\ job \in Job
  /\ stat \in [Thread -> {"INIT", "READY", "SUSPEND"}]
  /\ taskStart \in BOOLEAN /\ debugStart \in BOOLEAN /\ created \in BOOLEAN /\ bare \in BOOLEAN
  /\ nowTask \in {"TaskStart", "ScanQR", "Mission", "Restart"}
  /\ eset \subseteq LcdEvent /\ recved \subseteq LcdEvent /\ lcd \in Lcd
  /\ keyMail \in 0 .. MailSize /\ orderMail \in 0 .. MailSize
  /\ starts \in 0 .. 2 /\ longs \in 0 .. 2

(***************************************************************************)
(* A key that was down for ShakeTime to PersistTime scans has its value at *)
(* the LooseLimit + 1st scan in a row that finds it loose, and a key has   *)
(* one at no other: not in a bounce of the contact, which would make two   *)
(* presses of one, and not at a later turn of looseCount, which starts     *)
(* again at every LooseLimit + 1.  (Down for just PersistTime, it has been *)
(* a persistent press before, and is a long one now.)                      *)
(***************************************************************************)
AnsweredWhenLetGo ==
  [][KeyDeviceRunning =>
       (keyOld' \in {"Short", "Long"}
          <=> pressTime \in ShakeTime .. PersistTime /\ loose' = LooseLimit + 1)]_vars

(***************************************************************************)
(* No answer is swallowed: the callback only hears of changes, and the     *)
(* value before a short or a long press is never the same one.             *)
(***************************************************************************)
EveryAnswerHeard ==
  [][pressTime >= ShakeTime /\ pressTime <= PersistTime /\ pressTime' = 0 /\ job' # "scan"
       => job' \in {"short", "long"}]_vars

(***************************************************************************)
(* A key that has been pressed for the debouncing time is answered once it *)
(* is let go, whatever the threads above KeyCtrl do, or KeyCtrl has failed *)
(* an assertion and the watchdog resets the machine.                       *)
(***************************************************************************)
PressAnswered == pressTime >= ShakeTime ~> pressTime = 0 \/ pin = "press"

(***************************************************************************)
(* LcdNormal, which receives from LcdShow_event without a test, is started *)
(* after MainCtrl has created it: rt_event_recv(RT_NULL, ...) would fail   *)
(* its assertion.                                                          *)
(***************************************************************************)
EventBeforeUse == stat["LcdNormal"] # "INIT" => created

(***************************************************************************)
(* LcdNormal does not sleep on an event that is up, whoever is at work     *)
(* between its look at the set and its suspension.                         *)
(***************************************************************************)
NoSleepOnEvent == lcd = "wait" => eset = {}

(***************************************************************************)
(* DebugStart tells whether LcdDebug runs, but for the moment between the  *)
(* two statements that start it and set the flag.                          *)
(***************************************************************************)
DebugFlag == debugStart \/ job = "flag" <=> stat["LcdDebug"] # "INIT"

\* What the threads know of each other, taken together.
Consistent == TypeOK /\ EventBeforeUse /\ NoSleepOnEvent /\ DebugFlag

(***************************************************************************)
(* The key cannot fail an assertion of rt_thread_startup at the first      *)
(* start and the first long press; a second one is needed (or a build that *)
(* starts LcdDebug itself).                                                *)
(***************************************************************************)
FirstPressesSafe == job = "assert" => starts = 2 \/ longs = 2 \/ (DebugBuild /\ longs = 1)

(***************************************************************************)
(* A drawing that rt_thread_suspend has interrupted is never finished, and *)
(* no later event is drawn: nobody resumes LcdNormal, short of a reset.    *)
(***************************************************************************)
Retired == stat["LcdNormal"] = "SUSPEND" /\ lcd # "wait"
RetiredForGood == [][Retired => Retired' \/ (job = "assert" /\ job' = "scan")]_vars
-----------------------------------------------------------------------------
(***************************************************************************)
(* What the repository says of this code and it does not do.               *)
(***************************************************************************)

(***************************************************************************)
(* Key.c:121, "loose more than a number of times is taken for completely   *)
(* loose": a press that begins after that is timed from zero.  Contacts    *)
(* shorter than the debouncing time, however far apart, add up to a press. *)
(***************************************************************************)
FreshPress == [][loose > LooseLimit /\ loose' = 0 => pressTime' <= 1]_vars

\* thread.c:270, RT_ASSERT: a thread is started in its INIT state only.
StartedOnce == job # "assert"

(***************************************************************************)
(* Key_Thread.c:109, "suspend the LCD thread for normal refreshing": it    *)
(* does not draw in debug mode.                                            *)
(***************************************************************************)
DebugAlone == [][debugStart /\ lcd = "draw" => lcd' = "draw"]_vars
=============================================================================
