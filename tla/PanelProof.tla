----------------------------- MODULE PanelProof -----------------------------
(***************************************************************************)
(* The safety properties of the panel, for every setting of the key's      *)
(* times, every size of the mailboxes and both builds.                     *)
(*                                                                         *)
(* The invariant has three independent parts.  ScanInv: while a press that *)
(* counts is being collected, looseCount is the true number of loose scans *)
(* (it is not afterwards, when it turns over).  StartInv: MainCtrl is only *)
(* ever suspended after its first round, so that KeyCtrl, which runs below *)
(* it, goes on from rt_thread_startup when LcdShow_event is there; nor is  *)
(* it there later than a MainCtrl that was resumed.                        *)
(* PressInv counts the presses behind each call of rt_thread_startup.      *)
(***************************************************************************)
EXTENDS Panel, TLAPS

ScanInv ==
  /\ looseCount <= LooseLimit /\ loose <= LooseLimit + 2
  /\ pressTime >= ShakeTime => loose = looseCount
  /\ keyOld \in {"Short", "Long"} => pressTime = 0

StartInv ==
  /\ stat["MainCtrl"] = "SUSPEND" => created
  /\ bare => stat["MainCtrl"] = "READY" /\ created /\ job \in {"lcd", "set", "assert"}
  /\ job = "lcd" => stat["MainCtrl"] # "INIT"
  /\ lcd = "wait" => stat["LcdNormal"] = "SUSPEND"

PressInv ==
  /\ stat["LcdNormal"] # "INIT" => starts >= 1
  /\ job = "lcd" => starts >= 1 /\ (stat["LcdNormal"] # "INIT" => starts = 2)
  /\ job = "set" => starts >= 1
  /\ stat["LcdDebug"] # "INIT" => longs >= 1 \/ DebugBuild
  /\ job = "debug" => longs >= 1 /\ (stat["LcdDebug"] # "INIT" => longs = 2 \/ DebugBuild)

Inv == TypeOK /\ ScanInv /\ StartInv /\ PressInv /\ EventBeforeUse /\ NoSleepOnEvent
         /\ DebugFlag /\ FirstPressesSafe
-----------------------------------------------------------------------------
\* A mailbox that takes a mail, or drops it, holds no more than its size.
LEMMA MailKept ==
  ASSUME NEW n \in 0 .. MailSize
  PROVE  MbSend(n) \in 0 .. MailSize /\ MbRecv(n) \in 0 .. MailSize
BY BuildAssumption DEF MbSend, MbRecv

\* What a step that only changes the states of threads does to them.
LEMMA StatKept ==
  ASSUME TypeOK, NEW t \in Thread
  PROVE  /\ Ready(t) \in [Thread -> {"INIT", "READY", "SUSPEND"}]
         /\ Suspend(t) \in [Thread -> {"INIT", "READY", "SUSPEND"}]
         /\ Ready(t)[t] = "READY"
         /\ Suspend(t)[t] # "READY"
         /\ \A u \in Thread \ {t} : Ready(t)[u] = stat[u] /\ Suspend(t)[u] = stat[u]
         /\ Suspend(t)[t] = "INIT" <=> stat[t] = "INIT"
BY DEF TypeOK, Ready, Suspend

\* The values of a counter.
LEMMA Counted == ASSUME NEW n \in 0 .. 2
                 PROVE Count(n) \in 1 .. 2 /\ (n >= 1 => Count(n) = 2)
BY DEF Count
-----------------------------------------------------------------------------
\* The invariant holds at the start.
LEMMA InitInv == Init => Inv
<1> SUFFICES ASSUME Init PROVE Inv
  OBVIOUS
<1> USE DEF Init, Thread
<1>1. TypeOK
  <2>1. stat \in [Thread -> {"INIT", "READY", "SUSPEND"}]
    OBVIOUS
  <2>2. keyMail \in 0 .. MailSize /\ orderMail \in 0 .. MailSize
    BY BuildAssumption
  <2>3. /\ taskStart \in BOOLEAN /\ debugStart \in BOOLEAN /\ created \in BOOLEAN
        /\ bare \in BOOLEAN
    BY BuildAssumption, Zenon
  <2>4. /\ pin \in {"press", "loose"} /\ keyOld \in KeyValue /\ job \in Job /\ lcd \in Lcd
        /\ nowTask \in {"TaskStart", "ScanQR", "Mission", "Restart"}
        /\ eset \subseteq LcdEvent /\ recved \subseteq LcdEvent
    BY Zenon DEF KeyValue, Job, Lcd
  <2>5. /\ pressTime \in Nat /\ looseCount \in Nat /\ loose \in Nat
        /\ starts \in 0 .. 2 /\ longs \in 0 .. 2
    BY SMT
  <2> QED BY <2>1, <2>2, <2>3, <2>4, <2>5, Zenon DEF TypeOK
<1>2. ScanInv
  BY LooseAssumption, TimeAssumption DEF ScanInv
<1>3. StartInv /\ PressInv
  BY BuildAssumption DEF StartInv, PressInv
<1>4. EventBeforeUse /\ NoSleepOnEvent /\ DebugFlag /\ FirstPressesSafe
  BY BuildAssumption DEF EventBeforeUse, NoSleepOnEvent, DebugFlag, FirstPressesSafe
<1> QED BY <1>1, <1>2, <1>3, <1>4 DEF Inv




-----------------------------------------------------------------------------
\* One lemma for each part of the invariant, one step for each action.

\* What a scan leads to, and what it leaves alone.
LEMMA ScanCalls ==
  ASSUME KeyDeviceRunning
  PROVE  /\ job' \in {"delay", "short", "long", "persist"} /\ keyOld' \in KeyValue
         /\ job = "scan"
         /\ UNCHANGED <<stat, taskStart, debugStart, nowTask, created, bare, eset, lcd, recved,
                       keyMail, orderMail, starts, longs, pin>>
<1>1. PICK v \in KeyValue : job' = (IF v = keyOld THEN "delay" ELSE Callback(v)) /\ keyOld' = v
  BY DEF KeyDeviceRunning
<1>2. Callback(v) \in {"delay", "short", "long", "persist"}
  <2>1. v = "Release" \/ v = "Short" \/ v = "Long" \/ v = "Persist"
    BY DEF KeyValue
  <2> QED BY <2>1 DEF Callback
<1> QED BY <1>1, <1>2 DEF KeyDeviceRunning, flags, display, history

\* The scans.
LEMMA StepScan == ASSUME TypeOK, ScanInv, [Next]_vars PROVE ScanInv'
<1>1. CASE Finger
  BY <1>1, TimeAssumption, LooseAssumption DEF Finger, TypeOK, ScanInv, scan, flags, display,
       history
<1>2. CASE KeyWake
  BY <1>2, TimeAssumption, LooseAssumption DEF KeyWake, TypeOK, ScanInv, scan, flags, display,
       history
<1>3. CASE KeyDeviceRunning
  BY <1>3, TimeAssumption, LooseAssumption DEF KeyDeviceRunning, ScanPress, ScanLoose,
       Callback, TypeOK, ScanInv, scan, flags, display, history
<1>4. CASE KeyShort
  BY <1>4, TimeAssumption, LooseAssumption DEF KeyShort, KeyMail, TypeOK, ScanInv, scan,
       flags, display
<1>5. CASE KeyShortLcd
  BY <1>5, TimeAssumption, LooseAssumption DEF KeyShortLcd, TypeOK, ScanInv, scan, flags,
       display, history
<1>6. CASE KeyShortSet
  BY <1>6, TimeAssumption, LooseAssumption DEF KeyShortSet, TypeOK, ScanInv, scan, display,
       history
<1>7. CASE KeyLong
  BY <1>7, TimeAssumption, LooseAssumption DEF KeyLong, KeyMail, TypeOK, ScanInv, scan, flags,
       display
<1>8. CASE KeyLongDebug
  BY <1>8, TimeAssumption, LooseAssumption DEF KeyLongDebug, TypeOK, ScanInv, scan, flags,
       display, history
<1>9. CASE KeyLongFlag
  BY <1>9, TimeAssumption, LooseAssumption DEF KeyLongFlag, TypeOK, ScanInv, scan, display,
       history
<1>10. CASE KeyPersist
  BY <1>10, TimeAssumption, LooseAssumption DEF KeyPersist, KeyMail, TypeOK, ScanInv, scan,
       display, history
<1>11. CASE WatchdogReset
  BY <1>11, TimeAssumption, LooseAssumption DEF WatchdogReset, TypeOK, ScanInv, scan
<1>12. CASE MainEntry
  BY <1>12, TimeAssumption, LooseAssumption DEF MainEntry, TypeOK, ScanInv, scan, flags,
       display, history
<1>13. CASE MainTaskStart
  BY <1>13, TimeAssumption, LooseAssumption DEF MainTaskStart, EventSend, TypeOK, ScanInv,
       scan, flags, history
<1>14. CASE MainScanQR
  BY <1>14, TimeAssumption, LooseAssumption DEF MainScanQR, EventSend, TypeOK, ScanInv, scan,
       flags, history
<1>15. CASE MainMission
  BY <1>15, TimeAssumption, LooseAssumption DEF MainMission, Delayed, TypeOK, ScanInv, scan,
       flags, display, history
<1>16. CASE MainRestart
  BY <1>16, TimeAssumption, LooseAssumption DEF MainRestart, EventSend, TypeOK, ScanInv, scan,
       history
<1>17. CASE MainIdle
  BY <1>17, TimeAssumption, LooseAssumption DEF MainIdle, Delayed, TypeOK, ScanInv, scan,
       flags, display, history
<1>18. CASE MainWake
  BY <1>18, TimeAssumption, LooseAssumption DEF MainWake, TypeOK, ScanInv, scan, flags,
       display, history
<1>19. CASE LcdRecv
  BY <1>19, TimeAssumption, LooseAssumption DEF LcdRecv, TypeOK, ScanInv, scan, flags, history
<1>20. CASE LcdDraw
  BY <1>20, TimeAssumption, LooseAssumption DEF LcdDraw, TypeOK, ScanInv, scan, flags, history
<1>21. CASE LcdDebugRound
  BY <1>21, TimeAssumption, LooseAssumption DEF LcdDebugRound, TypeOK, ScanInv, scan, flags,
       display, history
<1>22. CASE LcdDebugWake
  BY <1>22, TimeAssumption, LooseAssumption DEF LcdDebugWake, TypeOK, ScanInv, scan, flags,
       display, history
<1>23. CASE UNCHANGED vars
  BY <1>23 DEF vars, TypeOK, ScanInv, scan, flags, display, history
<1>24. CASE Reschedule
  BY <1>24 DEF Reschedule, TypeOK, ScanInv, scan, flags, display, history
<1> QED BY <1>1, <1>2, <1>3, <1>4, <1>5, <1>6, <1>7, <1>8, <1>9, <1>10, <1>11, <1>12, <1>13,
     <1>14, <1>15, <1>16, <1>17, <1>18, <1>19, <1>20, <1>21, <1>22, <1>23, <1>24 DEF Next, Key,
     MainRound, Screen

\* The order of the starts, and the event group.
LEMMA StepStart ==
  ASSUME TypeOK, StartInv, EventBeforeUse, NoSleepOnEvent, [Next]_vars
  PROVE  StartInv' /\ EventBeforeUse' /\ NoSleepOnEvent'
<1>1. CASE Finger
  BY <1>1 DEF Finger, TypeOK, StartInv, EventBeforeUse, NoSleepOnEvent, Thread, scan, flags,
       display, history
<1>2. CASE KeyWake
  BY <1>2 DEF KeyWake, TypeOK, StartInv, EventBeforeUse, NoSleepOnEvent, Thread, scan, flags,
       display, history
<1>3. CASE KeyDeviceRunning
  BY <1>3, ScanCalls DEF TypeOK, StartInv, EventBeforeUse, NoSleepOnEvent
<1>4. CASE KeyShort
  BY <1>4 DEF KeyShort, KeyMail, TypeOK, StartInv, EventBeforeUse, NoSleepOnEvent, MainRuns,
       KeyRuns, Ready, Thread, scan, flags, display
<1>5. CASE KeyShortLcd
  BY <1>5 DEF KeyShortLcd, TypeOK, StartInv, EventBeforeUse, NoSleepOnEvent, MainRuns,
       KeyRuns, Ready, Thread, scan, flags, display, history
<1>6. CASE KeyShortSet
  BY <1>6 DEF KeyShortSet, TypeOK, StartInv, EventBeforeUse, NoSleepOnEvent, MainRuns,
       KeyRuns, Thread, scan, display, history
<1>7. CASE KeyLong
  BY <1>7 DEF KeyLong, KeyMail, TypeOK, StartInv, EventBeforeUse, NoSleepOnEvent, MainRuns,
       KeyRuns, Suspend, Thread, scan, flags, display
<1>8. CASE KeyLongDebug
  BY <1>8 DEF KeyLongDebug, TypeOK, StartInv, EventBeforeUse, NoSleepOnEvent, MainRuns,
       KeyRuns, Ready, Thread, scan, flags, display, history
<1>9. CASE KeyLongFlag
  BY <1>9 DEF KeyLongFlag, TypeOK, StartInv, EventBeforeUse, NoSleepOnEvent, MainRuns,
       KeyRuns, Thread, scan, display, history
<1>10. CASE KeyPersist
  BY <1>10 DEF KeyPersist, KeyMail, TypeOK, StartInv, EventBeforeUse, NoSleepOnEvent,
       MainRuns, KeyRuns, Suspend, Thread, scan, display, history
<1>11. CASE WatchdogReset
  BY <1>11 DEF WatchdogReset, TypeOK, StartInv, EventBeforeUse, NoSleepOnEvent, MainRuns,
       Thread, scan
<1>12. CASE MainEntry
  BY <1>12 DEF MainEntry, TypeOK, StartInv, EventBeforeUse, NoSleepOnEvent, MainRuns, Thread,
       scan, flags, display, history
<1>13. CASE MainTaskStart
  BY <1>13 DEF MainTaskStart, EventSend, TypeOK, StartInv, EventBeforeUse, NoSleepOnEvent,
       MainRuns, Delayed, Thread, scan, flags, history
<1>14. CASE MainScanQR
  BY <1>14 DEF MainScanQR, EventSend, TypeOK, StartInv, EventBeforeUse, NoSleepOnEvent,
       MainRuns, Delayed, Thread, scan, flags, history
<1>15. CASE MainMission
  BY <1>15 DEF MainMission, Delayed, TypeOK, StartInv, EventBeforeUse, NoSleepOnEvent,
       MainRuns, Delayed, Thread, scan, flags, display, history
<1>16. CASE MainRestart
  BY <1>16 DEF MainRestart, EventSend, TypeOK, StartInv, EventBeforeUse, NoSleepOnEvent,
       MainRuns, Delayed, Thread, scan, history
<1>17. CASE MainIdle
  BY <1>17 DEF MainIdle, Delayed, TypeOK, StartInv, EventBeforeUse, NoSleepOnEvent, MainRuns,
       Delayed, Thread, scan, flags, display, history
<1>18. CASE MainWake
  BY <1>18 DEF MainWake, TypeOK, StartInv, EventBeforeUse, NoSleepOnEvent, Ready, Thread,
       scan, flags, display, history
<1>19. CASE LcdRecv
  BY <1>19 DEF LcdRecv, TypeOK, StartInv, EventBeforeUse, NoSleepOnEvent, MainRuns, LcdRuns,
       Thread, scan, flags, history
<1>20. CASE LcdDraw
  BY <1>20 DEF LcdDraw, TypeOK, StartInv, EventBeforeUse, NoSleepOnEvent, MainRuns, LcdRuns,
       Thread, scan, flags, history
<1>21. CASE LcdDebugRound
  BY <1>21 DEF LcdDebugRound, TypeOK, StartInv, EventBeforeUse, NoSleepOnEvent, MainRuns,
       LcdRuns, Thread, scan, flags, display, history
<1>22. CASE LcdDebugWake
  BY <1>22 DEF LcdDebugWake, TypeOK, StartInv, EventBeforeUse, NoSleepOnEvent, Ready, Thread,
       scan, flags, display, history
<1>23. CASE UNCHANGED vars
  BY <1>23 DEF vars, TypeOK, StartInv, EventBeforeUse, NoSleepOnEvent, scan, flags, display,
       history
<1>24. CASE Reschedule
  BY <1>24 DEF Reschedule, TypeOK, StartInv, EventBeforeUse, NoSleepOnEvent, scan, flags,
       display, history
<1> QED BY <1>1, <1>2, <1>3, <1>4, <1>5, <1>6, <1>7, <1>8, <1>9, <1>10, <1>11, <1>12, <1>13,
     <1>14, <1>15, <1>16, <1>17, <1>18, <1>19, <1>20, <1>21, <1>22, <1>23, <1>24 DEF Next, Key,
     MainRound, Screen

\* The presses behind the starts.
LEMMA StepPress ==
  ASSUME TypeOK, StartInv, PressInv, DebugFlag, FirstPressesSafe, [Next]_vars
  PROVE  PressInv' /\ DebugFlag' /\ FirstPressesSafe'
<1>1. CASE Finger
  BY <1>1, BuildAssumption DEF Finger, TypeOK, PressInv, DebugFlag, FirstPressesSafe,
       StartInv, Thread, scan, flags, display, history
<1>2. CASE KeyWake
  BY <1>2, BuildAssumption DEF KeyWake, TypeOK, PressInv, DebugFlag, FirstPressesSafe,
       StartInv, Thread, scan, flags, display, history
<1>3. CASE KeyDeviceRunning
  BY <1>3, ScanCalls DEF TypeOK, PressInv, DebugFlag, FirstPressesSafe, StartInv
<1>4. CASE KeyShort
  BY <1>4, BuildAssumption DEF KeyShort, KeyMail, TypeOK, PressInv, DebugFlag,
       FirstPressesSafe, StartInv, MainRuns, KeyRuns, Ready, Thread, Count, scan, flags, display
<1>5. CASE KeyShortLcd
  BY <1>5, BuildAssumption DEF KeyShortLcd, TypeOK, PressInv, DebugFlag, FirstPressesSafe,
       StartInv, MainRuns, KeyRuns, Ready, Thread, scan, flags, display, history
<1>6. CASE KeyShortSet
  BY <1>6, BuildAssumption DEF KeyShortSet, TypeOK, PressInv, DebugFlag, FirstPressesSafe,
       StartInv, MainRuns, KeyRuns, Thread, scan, display, history
<1>7. CASE KeyLong
  BY <1>7, BuildAssumption DEF KeyLong, KeyMail, TypeOK, PressInv, DebugFlag,
       FirstPressesSafe, StartInv, MainRuns, KeyRuns, Suspend, Thread, Count, scan, flags,
       display
<1>8. CASE KeyLongDebug
  BY <1>8, BuildAssumption DEF KeyLongDebug, TypeOK, PressInv, DebugFlag, FirstPressesSafe,
       StartInv, MainRuns, KeyRuns, Ready, Thread, scan, flags, display, history
<1>9. CASE KeyLongFlag
  BY <1>9, BuildAssumption DEF KeyLongFlag, TypeOK, PressInv, DebugFlag, FirstPressesSafe,
       StartInv, MainRuns, KeyRuns, Thread, scan, display, history
<1>10. CASE KeyPersist
  BY <1>10, BuildAssumption DEF KeyPersist, KeyMail, TypeOK, PressInv, DebugFlag,
       FirstPressesSafe, StartInv, MainRuns, KeyRuns, Suspend, Thread, scan, display, history
<1>11. CASE WatchdogReset
  BY <1>11, BuildAssumption DEF WatchdogReset, TypeOK, PressInv, DebugFlag, FirstPressesSafe,
       StartInv, MainRuns, Thread, scan
<1>12. CASE MainEntry
  BY <1>12, BuildAssumption DEF MainEntry, TypeOK, PressInv, DebugFlag, FirstPressesSafe,
       StartInv, MainRuns, Thread, scan, flags, display, history
<1>13. CASE MainTaskStart
  BY <1>13, BuildAssumption DEF MainTaskStart, EventSend, TypeOK, PressInv, DebugFlag,
       FirstPressesSafe, StartInv, MainRuns, Delayed, Thread, scan, flags, history
<1>14. CASE MainScanQR
  BY <1>14, BuildAssumption DEF MainScanQR, EventSend, TypeOK, PressInv, DebugFlag,
       FirstPressesSafe, StartInv, MainRuns, Delayed, Thread, scan, flags, history
<1>15. CASE MainMission
  BY <1>15, BuildAssumption DEF MainMission, Delayed, TypeOK, PressInv, DebugFlag,
       FirstPressesSafe, StartInv, MainRuns, Delayed, Thread, scan, flags, display, history
<1>16. CASE MainRestart
  BY <1>16, BuildAssumption DEF MainRestart, EventSend, TypeOK, PressInv, DebugFlag,
       FirstPressesSafe, StartInv, MainRuns, Delayed, Thread, scan, history
<1>17. CASE MainIdle
  BY <1>17, BuildAssumption DEF MainIdle, Delayed, TypeOK, PressInv, DebugFlag,
       FirstPressesSafe, StartInv, MainRuns, Delayed, Thread, scan, flags, display, history
<1>18. CASE MainWake
  BY <1>18, BuildAssumption DEF MainWake, TypeOK, PressInv, DebugFlag, FirstPressesSafe,
       StartInv, Ready, Thread, scan, flags, display, history
<1>19. CASE LcdRecv
  BY <1>19, BuildAssumption DEF LcdRecv, TypeOK, PressInv, DebugFlag, FirstPressesSafe,
       StartInv, MainRuns, LcdRuns, Thread, scan, flags, history
<1>20. CASE LcdDraw
  BY <1>20, BuildAssumption DEF LcdDraw, TypeOK, PressInv, DebugFlag, FirstPressesSafe,
       StartInv, MainRuns, LcdRuns, Thread, scan, flags, history
<1>21. CASE LcdDebugRound
  BY <1>21, BuildAssumption DEF LcdDebugRound, TypeOK, PressInv, DebugFlag, FirstPressesSafe,
       StartInv, MainRuns, LcdRuns, Thread, scan, flags, display, history
<1>22. CASE LcdDebugWake
  BY <1>22, BuildAssumption DEF LcdDebugWake, TypeOK, PressInv, DebugFlag, FirstPressesSafe,
       StartInv, Ready, Thread, scan, flags, display, history
<1>23. CASE UNCHANGED vars
  BY <1>23 DEF vars, TypeOK, PressInv, DebugFlag, FirstPressesSafe, StartInv, scan, flags,
       display, history
<1>24. CASE Reschedule
  BY <1>24 DEF Reschedule, TypeOK, PressInv, DebugFlag, FirstPressesSafe, StartInv, scan,
       flags, display, history
<1> QED BY <1>1, <1>2, <1>3, <1>4, <1>5, <1>6, <1>7, <1>8, <1>9, <1>10, <1>11, <1>12, <1>13,
     <1>14, <1>15, <1>16, <1>17, <1>18, <1>19, <1>20, <1>21, <1>22, <1>23, <1>24 DEF Next, Key,
     MainRound, Screen

\* The types.
LEMMA StepType == ASSUME TypeOK, [Next]_vars PROVE TypeOK'
<1>1. CASE Finger
  BY <1>1, BuildAssumption DEF Finger, TypeOK, LcdEvent, Job, Lcd, KeyValue, Thread,
       scan, flags, display, history
<1>2. CASE KeyWake
  BY <1>2, BuildAssumption DEF KeyWake, TypeOK, LcdEvent, Job, Lcd, KeyValue, Thread,
       scan, flags, display, history
<1>3. CASE KeyDeviceRunning
  <2>1. pressTime' \in Nat /\ looseCount' \in Nat /\ loose' \in Nat
    BY <1>3 DEF KeyDeviceRunning, ScanPress, ScanLoose, TypeOK
  <2>2. job' \in Job
    BY ScanCalls, <1>3 DEF Job
  <2> QED BY <1>3, <2>1, <2>2, ScanCalls DEF TypeOK
<1>4. CASE KeyShort
  <2>1. stat' \in [Thread -> {"INIT", "READY", "SUSPEND"}]
    BY <1>4, StatKept DEF KeyShort, TypeOK, Thread
  <2>2. keyMail' \in 0 .. MailSize
    BY <1>4, MailKept DEF KeyShort, KeyMail, TypeOK
  <2>3. starts' \in 0 .. 2
    BY <1>4, Counted DEF KeyShort, TypeOK
  <2>4. job' \in Job
    BY <1>4, Zenon DEF KeyShort, Job
  <2>5. bare' \in BOOLEAN
    BY <1>4, Zenon DEF KeyShort, TypeOK
  <2> QED BY <1>4, <2>1, <2>2, <2>3, <2>4, <2>5, Zenon DEF KeyShort, TypeOK, scan, flags, display
<1>5. CASE KeyShortLcd
  BY <1>5, BuildAssumption DEF KeyShortLcd, TypeOK, LcdEvent, Job, Lcd, KeyValue,
       Ready, Thread, scan, flags, display, history
<1>6. CASE KeyShortSet
  BY <1>6, BuildAssumption DEF KeyShortSet, TypeOK, LcdEvent, Job, Lcd, KeyValue,
       Thread, scan, display, history
<1>7. CASE KeyLong
  <2>1. stat' \in [Thread -> {"INIT", "READY", "SUSPEND"}]
    BY <1>7, StatKept DEF KeyLong, TypeOK, Thread
  <2>2. keyMail' \in 0 .. MailSize
    BY <1>7, MailKept DEF KeyLong, KeyMail, TypeOK, KeyValue
  <2>3. longs' \in 0 .. 2 /\ starts' \in 0 .. 2
    BY <1>7, Counted DEF KeyLong, TypeOK
  <2>4. job' \in Job
    BY <1>7 DEF KeyLong, Job
  <2> QED BY <1>7, <2>1, <2>2, <2>3, <2>4 DEF KeyLong, TypeOK, scan, flags, display
<1>8. CASE KeyLongDebug
  BY <1>8, BuildAssumption DEF KeyLongDebug, TypeOK, LcdEvent, Job, Lcd, KeyValue,
       Ready, Thread, scan, flags, display, history
<1>9. CASE KeyLongFlag
  BY <1>9, BuildAssumption DEF KeyLongFlag, TypeOK, LcdEvent, Job, Lcd, KeyValue,
       Thread, scan, display, history
<1>10. CASE KeyPersist
  BY <1>10, BuildAssumption, MailKept DEF KeyPersist, KeyMail, TypeOK, LcdEvent, Job, Lcd,
       KeyValue, Suspend, Thread, scan, display, history
<1>11. CASE WatchdogReset
  <2>1. stat' \in [Thread -> {"INIT", "READY", "SUSPEND"}]
    BY <1>11, Zenon DEF WatchdogReset, Thread
  <2>2. keyMail' \in 0 .. MailSize /\ orderMail' \in 0 .. MailSize
    BY <1>11, BuildAssumption DEF WatchdogReset
  <2>3. /\ taskStart' \in BOOLEAN /\ debugStart' \in BOOLEAN /\ created' \in BOOLEAN
        /\ bare' \in BOOLEAN
    BY <1>11, BuildAssumption, Zenon DEF WatchdogReset
  <2>4. /\ pin' \in {"press", "loose"} /\ keyOld' \in KeyValue /\ job' \in Job /\ lcd' \in Lcd
        /\ nowTask' \in {"TaskStart", "ScanQR", "Mission", "Restart"}
        /\ eset' \subseteq LcdEvent /\ recved' \subseteq LcdEvent
    BY <1>11, Zenon DEF WatchdogReset, TypeOK, KeyValue, Job, Lcd
  <2>5. /\ pressTime' \in Nat /\ looseCount' \in Nat /\ loose' \in Nat
        /\ starts' \in 0 .. 2 /\ longs' \in 0 .. 2
    BY <1>11, SMT DEF WatchdogReset
  <2> QED BY <2>1, <2>2, <2>3, <2>4, <2>5, Zenon DEF TypeOK
<1>12. CASE MainEntry
  BY <1>12, BuildAssumption DEF MainEntry, TypeOK, LcdEvent, Job, Lcd, KeyValue,
       Thread, scan, flags, display, history
<1>13. CASE MainTaskStart
  BY <1>13, BuildAssumption, MailKept DEF MainTaskStart, EventSend, TypeOK, LcdEvent, Job,
       Lcd, KeyValue, Delayed, Thread, scan, flags, history
<1>14. CASE MainScanQR
  BY <1>14, BuildAssumption DEF MainScanQR, EventSend, TypeOK, LcdEvent, Job, Lcd, KeyValue, Delayed, Thread, scan, flags, history
<1>15. CASE MainMission
  BY <1>15, BuildAssumption, MailKept DEF MainMission, Delayed, TypeOK, LcdEvent, Job, Lcd,
       KeyValue, Delayed, Thread, scan, flags, display, history
<1>16. CASE MainRestart
  BY <1>16, BuildAssumption DEF MainRestart, EventSend, TypeOK, LcdEvent, Job, Lcd, KeyValue, Delayed, Thread, scan, history
<1>17. CASE MainIdle
  BY <1>17, BuildAssumption DEF MainIdle, Delayed, TypeOK, LcdEvent, Job, Lcd, KeyValue, Delayed, Thread, scan, flags, display, history
<1>18. CASE MainWake
  BY <1>18, BuildAssumption DEF MainWake, TypeOK, LcdEvent, Job, Lcd, KeyValue, Ready,
       Thread, scan, flags, display, history
<1>19. CASE LcdRecv
  <2>1. stat' \in [Thread -> {"INIT", "READY", "SUSPEND"}]
    BY <1>19 DEF LcdRecv, TypeOK, Thread
  <2>2. lcd' \in Lcd /\ eset' \subseteq LcdEvent /\ recved' \subseteq LcdEvent
    BY <1>19 DEF LcdRecv, TypeOK, Lcd
  <2> QED BY <1>19, <2>1, <2>2 DEF LcdRecv, TypeOK, scan, flags, history
<1>20. CASE LcdDraw
  BY <1>20, BuildAssumption DEF LcdDraw, TypeOK, LcdEvent, Job, Lcd, KeyValue, Thread,
       scan, flags, history
<1>21. CASE LcdDebugRound
  BY <1>21, BuildAssumption, MailKept DEF LcdDebugRound, TypeOK, LcdEvent, Job, Lcd, KeyValue, Thread, scan, flags, display, history
<1>22. CASE LcdDebugWake
  BY <1>22, BuildAssumption DEF LcdDebugWake, TypeOK, LcdEvent, Job, Lcd, KeyValue,
       Ready, Thread, scan, flags, display, history
<1>23. CASE UNCHANGED vars
  BY <1>23 DEF vars, TypeOK, scan, flags, display, history
<1>24. CASE Reschedule
  BY <1>24 DEF Reschedule, TypeOK, scan, flags, display, history
<1> QED BY <1>1, <1>2, <1>3, <1>4, <1>5, <1>6, <1>7, <1>8, <1>9, <1>10, <1>11, <1>12, <1>13,
     <1>14, <1>15, <1>16, <1>17, <1>18, <1>19, <1>20, <1>21, <1>22, <1>23, <1>24 DEF Next, Key,
     MainRound, Screen
-----------------------------------------------------------------------------
\* Every step keeps it.
LEMMA StepInv == ASSUME Inv, [Next]_vars PROVE Inv'
BY StepType, StepScan, StepStart, StepPress DEF Inv

\* It always holds.
LEMMA Invariance == Spec => []Inv
BY InitInv, StepInv, PTL DEF Spec

\* The types: no mailbox overflows, whatever its size.
THEOREM TypeCorrect == Spec => []TypeOK
BY Invariance, PTL DEF Inv

\* KeyControlTask, MainCtrl and the display threads agree on what has been
\* created, started and sent, whatever the times and the mailboxes' size.
THEOREM ThreadsConsistent == Spec => []Consistent
BY Invariance, PTL DEF Inv, Consistent

\* LcdNormal is never started before the event group it receives from is
\* there; and it never sleeps on an event that is up.
THEOREM EventReady == Spec => [](EventBeforeUse /\ NoSleepOnEvent)
BY Invariance, PTL DEF Inv

\* DebugStart and the state of LcdDebug agree.
THEOREM FlagTold == Spec => []DebugFlag
BY Invariance, PTL DEF Inv

\* One start and one long press never fail an assertion of the kernel.
THEOREM FirstPresses == Spec => []FirstPressesSafe
BY Invariance, PTL DEF Inv

\* A press is answered LooseLimit + 1 loose scans after its last contact, and
\* nothing else is answered, for every setting of the times.
THEOREM Answered == Spec => AnsweredWhenLetGo
<1> DEFINE A == KeyDeviceRunning =>
                  (keyOld' \in {"Short", "Long"}
                     <=> pressTime \in ShakeTime .. PersistTime /\ loose' = LooseLimit + 1)
<1>1. Inv /\ [Next]_vars => [A]_vars
  <2> SUFFICES ASSUME Inv, KeyDeviceRunning
               PROVE  keyOld' \in {"Short", "Long"}
                        <=> pressTime \in ShakeTime .. PersistTime /\ loose' = LooseLimit + 1
    OBVIOUS
  <2>1. PICK v \in KeyValue : (ScanPress(v) \/ ScanLoose(v)) /\ keyOld' = v
    BY DEF KeyDeviceRunning
  <2>2. /\ pressTime \in Nat /\ looseCount \in Nat /\ loose \in Nat /\ looseCount <= LooseLimit
        /\ pressTime >= ShakeTime => loose = looseCount
    BY DEF Inv, TypeOK, ScanInv
  <2>3. CASE ScanPress(v)
    BY <2>1, <2>3, LooseAssumption DEF ScanPress
  <2>4. CASE ScanLoose(v)
    <3>1. CASE looseCount + 1 > LooseLimit
      <4>1. v \in {"Short", "Long"} <=> pressTime \in ShakeTime .. PersistTime
        BY <2>2, <2>4, <3>1, TimeAssumption DEF ScanLoose
      <4>2. pressTime \in ShakeTime .. PersistTime => loose' = LooseLimit + 1
        BY <2>2, <2>4, <3>1, LooseAssumption, TimeAssumption DEF ScanLoose
      <4> QED BY <2>1, <4>1, <4>2
    <3>2. CASE ~(looseCount + 1 > LooseLimit)
      <4>1. v = "Release"
        BY <2>2, <2>4, <3>2, TimeAssumption DEF ScanLoose
      <4>2. pressTime \in ShakeTime .. PersistTime => loose' # LooseLimit + 1
        BY <2>2, <2>4, <3>2, LooseAssumption, TimeAssumption DEF ScanLoose
      <4> QED BY <2>1, <4>1, <4>2
    <3> QED BY <3>1, <3>2
  <2> QED BY <2>1, <2>3, <2>4
<1> QED BY <1>1, Invariance, PTL DEF Spec, AnsweredWhenLetGo

\* No answer to a press is swallowed by the comparison with the last value.
THEOREM Heard == Spec => EveryAnswerHeard
<1> DEFINE A == pressTime >= ShakeTime /\ pressTime <= PersistTime /\ pressTime' = 0 /\ job' # "scan"
                  => job' \in {"short", "long"}
<1>1. Inv /\ [Next]_vars => [A]_vars
  <2> SUFFICES ASSUME Inv, [Next]_vars, pressTime >= ShakeTime, pressTime <= PersistTime,
                      pressTime' = 0, job' # "scan"
               PROVE  job' \in {"short", "long"}
    OBVIOUS
  <2>1. pressTime' # pressTime
    BY TimeAssumption DEF Inv, TypeOK
  <2>2. KeyDeviceRunning
    BY <2>1 DEF Next, Finger, KeyWake, Key, KeyShort, KeyShortLcd, KeyShortSet, KeyLong,
         KeyLongDebug,
         KeyLongFlag, KeyPersist, Reschedule, WatchdogReset, MainRound, MainEntry, MainTaskStart,
              MainScanQR,
         MainMission, MainRestart, MainIdle, MainWake, Screen, LcdRecv, LcdDraw, LcdDebugRound,
         LcdDebugWake, vars, scan
  <2>3. PICK v \in KeyValue : /\ ScanPress(v) \/ ScanLoose(v)
                              /\ job' = IF v = keyOld THEN "delay" ELSE Callback(v)
    BY <2>2 DEF KeyDeviceRunning
  <2>4. v \in {"Short", "Long"}
    BY <2>3, TimeAssumption DEF ScanPress, ScanLoose, Inv, TypeOK
  <2>5. v # keyOld
    BY <2>4, TimeAssumption DEF Inv, ScanInv, TypeOK
  <2> QED BY <2>3, <2>4, <2>5 DEF Callback
<1> QED BY <1>1, Invariance, PTL DEF Spec, EveryAnswerHeard

\* LcdNormal, once rt_thread_suspend has hit it outside rt_event_recv, does
\* not run again before a reset.
THEOREM NormalRetires == Spec => RetiredForGood
<1>1. TypeOK /\ [Next]_vars => [Retired => Retired' \/ (job = "assert" /\ job' = "scan")]_vars
  <2> SUFFICES ASSUME TypeOK, [Next]_vars, Retired
               PROVE  Retired' \/ (job = "assert" /\ job' = "scan")
    OBVIOUS
  <2>1. stat["LcdNormal"] = "SUSPEND" /\ lcd # "wait" /\ stat \in [Thread -> {"INIT", "READY", "SUSPEND"}]
    BY DEF Retired, TypeOK
  <2>2. CASE KeyDeviceRunning
    BY <2>1, <2>2, ScanCalls DEF Retired
  <2>3. CASE Finger \/ KeyWake \/ Reschedule
    BY <2>1, <2>3 DEF Finger, KeyWake, Reschedule, Retired, display
  <2>4. CASE KeyShort \/ KeyShortLcd \/ KeyShortSet
    BY <2>1, <2>4 DEF KeyShort, KeyShortLcd, KeyShortSet, Ready, Retired, display, Thread
  <2>5. CASE KeyLong \/ KeyLongDebug \/ KeyLongFlag \/ KeyPersist
    BY <2>1, <2>5 DEF KeyLong, KeyLongDebug, KeyLongFlag, KeyPersist, Ready, Suspend, Retired,
         display, Thread
  <2>6. CASE WatchdogReset
    BY <2>6 DEF WatchdogReset
  <2>7. CASE MainRound \/ MainWake
    BY <2>1, <2>7 DEF MainRound, MainEntry, MainTaskStart, MainScanQR, MainMission, MainRestart,
         MainIdle, MainWake, EventSend, Delayed, Ready, Retired, display, Thread
  <2>8. CASE Screen \/ LcdDebugWake
    BY <2>1, <2>8 DEF Screen, LcdRecv, LcdDraw, LcdDebugRound, LcdDebugWake, LcdRuns, Ready,
         Retired,
         display, Thread
  <2>9. CASE UNCHANGED vars
    BY <2>1, <2>9 DEF vars, display, Retired
  <2> QED BY <2>2, <2>3, <2>4, <2>5, <2>6, <2>7, <2>8, <2>9 DEF Next, Key
<1> QED BY <1>1, TypeCorrect, PTL DEF Spec, RetiredForGood
=============================================================================
