----------------------------- MODULE ArmMission -----------------------------
(***************************************************************************)
(* The thread MainCtrl: the itinerary of the machine (SysTask.NowTask),    *)
(* the action groups that move the arm, and the orders they send to the    *)
(* chassis, one step per call that moves something, sends something or     *)
(* waits.  What is left of the current round of the thread's loop is       *)
(* "todo", a sequence of such calls; a call of an action group is replaced *)
(* by the calls it makes.                                                  *)
(*                                                                         *)
(* The state bytes of the chassis and the task code arrive through the     *)
(* thread UsartRece (module UsartRece); here they may arrive at any time   *)
(* and in any order, which includes whatever the scheduler makes of it.    *)
(* The objects, the plate's load and the field are outside the program:    *)
(* the clip takes and leaves an object where the arm, the plate and the    *)
(* chassis have been told to be.                                           *)
(***************************************************************************)
EXTENDS Naturals, Sequences

CONSTANTS
  Code,        \* the task codes that may be scanned: pairs of orders of Color
  DirectGrab,  \* what SysValue.DirectGrab may be built as
  KeyPress     \* the keys that are pressed while MainCtrl runs

Color == {"red", "green", "blue"}
Byte  == {"Arrive", "Calibrate"} \cup Color    \* what SysValue.ReceCarSta may be
None  == "none"                                \* NULL, and NoColor

ASSUME CodeAssumption ==
  Code \subseteq {c \in [1..2 -> [1..3 -> Color]] :
                    \A n \in 1..2 : \A i, j \in 1..3 : c[n][i] = c[n][j] => i = j}
ASSUME ModeAssumption == DirectGrab \subseteq BOOLEAN /\ KeyPress \subseteq {"short", "persist"}

Task == {"TaskStart", "ScanQR", "TakeRaw1", "GoRough", "TPRough1", "GoStaging",
         "PutStag1", "PassRough", "TakeRaw2", "GoRough2", "TPRough2", "GoStag2",
         "PutStag2", "Restart", "Calibrat"}

Object == [batch : 1..2, color : Color]

VARIABLES
  nowTask, oldTask,               \* SysTask
  codeS,                          \* SysTask.Code1 and Code2, or NoCode
  carSta,                         \* SysValue.ReceCarSta
  taskStart,                      \* SysValue.TaskStart
  directGrab,                     \* SysValue.DirectGrab
  todo,                           \* the calls left in this round
  putCount, takeCount, actionCount,  \* the statics of the action groups
  oldValue,                       \* the static of IdentifyColorTake
  mux,                            \* MainCtrl holds Action_mux
  lift, rot, clip, plate,         \* where motors and servos have been sent
  seen,                           \* the colour TakeRawMaterial was called for
  place,                          \* where the chassis has been sent
  arrived,                        \* MainCtrl has seen it arrive there
  wanted,                         \* a short press asks for the machine to run
  at,                             \* where each object is
  legs                            \* how often each has been put down in this run

system == <<nowTask, oldTask, codeS, taskStart>>
count  == <<putCount, takeCount, actionCount, oldValue>>
arm    == <<lift, rot, clip, plate>>
world  == <<at, legs, seen>>
car    == <<place, arrived>>
vars   == <<system, carSta, todo, count, mux, arm, world, car, wanted, directGrab>>

NoCode == <<>>
Raw    == <<"Raw", None>>
Start  == <<"Start", None>>
InClip == <<"Clip", None>>
Floor  == <<"Floor", None>>
Ring(area, c) == <<area, c>>
OnPlate(c)    == <<"Plate", c>>
-----------------------------------------------------------------------------
(***************************************************************************)
(* The calls.                                                              *)
(***************************************************************************)
MotorMotion_Lift(pos)   == [op |-> "lift", pos |-> pos]
MotorMotion_Rotate(pos) == [op |-> "rotate", pos |-> pos]
ArmClipTakeState(s)     == [op |-> "clip", state |-> s]
MaterialPosition(c)     == [op |-> "plate", color |-> c]
SendOrderToCar(dest)    == [op |-> "order", dest |-> dest]
WaitArrive              == [op |-> "wait"]
MutexTake               == [op |-> "take_mux"]
MutexRelease            == [op |-> "release_mux"]
Delay                   == [op |-> "delay"]
Goto(t)                 == [op |-> "goto", task |-> t, keep |-> FALSE]
\* Mutant: OldTask is not remembered.
CalibratThenOn_Forgets == Goto("Calibrat")

CalibratThenOn          == [op |-> "goto", task |-> "Calibrat", keep |-> TRUE]
Stop                    == [op |-> "stop"]
Ground_PutAction(how, c, rotate) == [op |-> "put", how |-> how, color |-> c, rotate |-> rotate]
Ground_TakeAction(c)    == [op |-> "ground_take", color |-> c]
IdentifyColorTake(u, c) == [op |-> "identify", update |-> u, color |-> c]
Look(u, c, first)       == [op |-> "look", update |-> u, color |-> c, first |-> first]
TakeRawMaterial(c)      == [op |-> "take_raw", color |-> c]

\* Code / 100, Code / 10 % 10 and Code % 10 are the digits 1, 2 and 3.
Code1 == codeS[1]
Code2 == codeS[2]

SendRingToCar(area, wait, c, init) ==
  <<SendOrderToCar(Ring(area, c))>>
    \o (IF init THEN <<MotorMotion_Lift("Reset"), MotorMotion_Rotate("Reset")>> ELSE <<>>)
    \o (IF wait THEN <<WaitArrive>> ELSE <<>>)

\* Mutant: the plate is not turned to the object that is put down first.
TakeRawThree_NoTurn(d) ==
  <<MutexTake,
    IdentifyColorTake(TRUE, d[1]), IdentifyColorTake(FALSE, d[2]), IdentifyColorTake(FALSE, d[3]),
    Delay, MotorMotion_Rotate("Vision"), ArmClipTakeState("Avoid"), MotorMotion_Lift("Aim"),
    MutexRelease, CalibratThenOn>>

TakeRawThree(d) ==
  <<MutexTake,
    IdentifyColorTake(TRUE, d[1]), IdentifyColorTake(FALSE, d[2]), IdentifyColorTake(FALSE, d[3]),
    Delay, Delay, Delay,
    MotorMotion_Rotate("Vision"), ArmClipTakeState("Avoid"), MotorMotion_Lift("Aim"),
    MaterialPosition(d[1]), MutexRelease, CalibratThenOn>>

\* Mutant: Action_mux is released one action group too early.
PutTakeThree_Release(d, height) ==
  <<MutexTake,
    Ground_PutAction("Normal", d[2], TRUE), Ground_PutAction("Normal", d[3], TRUE),
    Ground_PutAction("Normal", d[1], FALSE),
    Ground_TakeAction(d[2]), Ground_TakeAction(d[3]), MutexRelease, Ground_TakeAction(d[1]),
    ArmClipTakeState("Avoid"), MotorMotion_Lift(height), CalibratThenOn>>

\* Mutant: the objects are taken up with the digits in the wrong order.
PutTakeThree_Order(d, height) ==
  <<MutexTake,
    Ground_PutAction("Normal", d[2], TRUE), Ground_PutAction("Normal", d[3], TRUE),
    Ground_PutAction("Normal", d[1], FALSE),
    Ground_TakeAction(d[1]), Ground_TakeAction(d[2]), Ground_TakeAction(d[3]),
    ArmClipTakeState("Avoid"), MotorMotion_Lift(height), MutexRelease, CalibratThenOn>>

PutTakeThree(d, height) ==
  <<MutexTake,
    Ground_PutAction("Normal", d[2], TRUE), Ground_PutAction("Normal", d[3], TRUE),
    Ground_PutAction("Normal", d[1], FALSE),
    Ground_TakeAction(d[2]), Ground_TakeAction(d[3]), Ground_TakeAction(d[1]),
    ArmClipTakeState("Avoid"), MotorMotion_Lift(height), MutexRelease, CalibratThenOn>>

ResetArm(next) ==
  <<MutexTake, MotorMotion_Lift("Reset"), MotorMotion_Rotate("Reset"), MutexRelease, Goto(next)>>

AfterCalibrat == [TakeRaw1 |-> "GoRough", TPRough1 |-> "GoStaging", PutStag1 |-> "PassRough",
                  TakeRaw2 |-> "GoRough2", TPRough2 |-> "GoStag2"]

\* The cases of the switch in MainCtrl_thread_entry.
Body(t) ==
  CASE t = "TaskStart" -> <<SendOrderToCar(Raw), Goto("ScanQR")>>
    [] t = "ScanQR" ->
         <<MutexTake, ArmClipTakeState("Avoid"), MotorMotion_Rotate("Vision"),
           MotorMotion_Lift("Raw"), MutexRelease, Goto("TakeRaw1")>>
    [] t = "TakeRaw1" -> TakeRawThree(Code1)
    [] t = "GoRough"  -> ResetArm("TPRough1")
    [] t = "TPRough1" -> PutTakeThree(Code1, "Aim")
    [] t = "GoStaging" -> SendRingToCar("Staging", TRUE, Code1[1], TRUE) \o <<Goto("PutStag1")>>
    [] t = "PutStag1" ->
         <<MutexTake, Ground_PutAction("Normal", Code1[2], TRUE),
           Ground_PutAction("Normal", Code1[3], TRUE), Ground_PutAction("Normal", Code2[1], FALSE),
           MotorMotion_Lift("Aim"), MutexRelease, CalibratThenOn>>
    [] t = "PassRough" ->
         <<MutexTake, SendOrderToCar(Raw), MotorMotion_Lift("Raw"), MutexRelease,
           Goto("TakeRaw2")>>
    [] t = "TakeRaw2" -> TakeRawThree(Code2)
    [] t = "GoRough2" -> ResetArm("TPRough2")
    [] t = "TPRough2" -> PutTakeThree(Code2, "Pile")
    [] t = "GoStag2" -> SendRingToCar("Staging", TRUE, Code2[1], TRUE) \o <<Goto("PutStag2")>>
    [] t = "PutStag2" ->
         <<MutexTake, Ground_PutAction("StackUp", Code2[2], TRUE),
           Ground_PutAction("StackUp", Code2[3], TRUE), Ground_PutAction("StackUp", None, TRUE),
           MutexRelease, Goto("Restart")>>
    [] t = "Restart" -> <<Goto("TaskStart"), Stop>>
    [] t = "Calibrat" ->
         IF oldTask \in DOMAIN AfterCalibrat THEN <<Goto(AfterCalibrat[oldTask])>> ELSE <<>>

Needs(t) ==
  CASE t \in {"TakeRaw1", "GoRough", "GoStaging", "PassRough", "TakeRaw2", "GoRough2",
              "GoStag2", "Restart"} -> "Arrive"
    [] t = "Calibrat" -> "Calibrate"
    [] OTHER -> None

PutCalls(how, c, rotate) ==
  LET area == IF nowTask \in {"TPRough1", "TPRough2"} THEN "Rough" ELSE "Staging"
      Onward ==
        IF putCount + 1 < 3
        THEN (IF nowTask = "PutStag2" THEN <<MotorMotion_Lift("Pile")>> ELSE <<>>)
               \o SendRingToCar(area, TRUE, c, FALSE) \o <<MotorMotion_Lift("Reset")>>
        ELSE CASE nowTask = "PutStag1" -> <<SendOrderToCar(Ring("Rough", "red"))>>
               [] nowTask = "PutStag2" -> <<SendOrderToCar(Start), MotorMotion_Lift("Reset")>>
               [] OTHER -> SendRingToCar("Rough", TRUE, c, FALSE)
  IN <<MotorMotion_Lift("Stuff"), ArmClipTakeState("Grasp"), MotorMotion_Lift("Reset"),
       MotorMotion_Rotate("Vision"), MotorMotion_Lift(IF how = "Normal" THEN "Places" ELSE "Stack"),
       ArmClipTakeState("Avoid"), MaterialPosition(c)>>
     \o Onward \o (IF rotate THEN <<MotorMotion_Rotate("Reset")>> ELSE <<>>)

\* Mutant: the arm turns before it is raised.
GroundTakeCalls_Low(c) ==
  <<ArmClipTakeState("Avoid"), MotorMotion_Lift("Grab"), ArmClipTakeState("Grasp"),
    MotorMotion_Rotate("Reset"), MotorMotion_Lift("Stuff"), ArmClipTakeState("Release")>>
  \o SendRingToCar(IF takeCount + 1 < 3 THEN "Rough" ELSE "Staging", FALSE, c, FALSE)
  \o <<MaterialPosition(c), MotorMotion_Rotate("Vision")>>

GroundTakeCalls(c) ==
  <<ArmClipTakeState("Avoid"), MotorMotion_Lift("Grab"), ArmClipTakeState("Grasp"),
    MotorMotion_Lift("Reset"), MotorMotion_Rotate("Reset"), MotorMotion_Lift("Stuff"),
    ArmClipTakeState("Release")>>
  \o SendRingToCar(IF takeCount + 1 < 3 THEN "Rough" ELSE "Staging", FALSE, c, FALSE)
  \o <<MaterialPosition(c), MotorMotion_Rotate("Vision")>>

TakeRawCalls ==
  <<MotorMotion_Lift("RawArea"), ArmClipTakeState("Grasp"), MotorMotion_Lift("Reset"),
    MotorMotion_Rotate("Reset"), MotorMotion_Lift("Stuff"), ArmClipTakeState("Release")>>
  \o (IF actionCount + 1 >= 3
      THEN SendRingToCar("Rough", FALSE, IF nowTask = "TakeRaw1" THEN Code1[1] ELSE Code2[1], FALSE)
      ELSE <<MotorMotion_Rotate("Vision"), MotorMotion_Lift("RawArea")>>)
-----------------------------------------------------------------------------
Init ==
  /\ nowTask = "TaskStart" /\ oldTask = "TaskStart"
  /\ codeS = NoCode /\ carSta = None /\ taskStart = FALSE
  /\ directGrab \in DirectGrab
  /\ todo = <<>>
  /\ putCount = 0 /\ takeCount = 0 /\ actionCount = 0 /\ oldValue = None
  /\ mux = FALSE
  /\ lift = "Reset" /\ rot = "Reset" /\ clip = "Release" /\ plate = "green"
  /\ seen = None /\ place = Start /\ arrived = FALSE /\ wanted = TRUE
  /\ at = [o \in Object |-> Raw] /\ legs = [o \in Object |-> 0]

\* What the case of t waits for is not there yet.
Missing(t) == IF t = "ScanQR" THEN codeS = NoCode ELSE Needs(t) \notin {None, carSta}

\* One round of the loop begins: the case of NowTask, then rt_thread_delay.
Poll ==
  /\ todo = <<>>
  /\ IF Missing(nowTask)
     THEN todo' = <<Delay>> /\ UNCHANGED <<carSta, arrived>>
     ELSE /\ todo' = Body(nowTask) \o <<Delay>>
          /\ carSta' = IF Needs(nowTask) = None THEN carSta ELSE None
          /\ arrived' = (arrived \/ Needs(nowTask) = "Arrive")
  /\ UNCHANGED <<system, count, mux, directGrab, arm, world, place, wanted>>

Calls(op) == todo # <<>> /\ Head(todo).op = op
Done == todo' = Tail(todo)

LiftStep ==
  /\ Calls("lift")
  /\ lift' = Head(todo).pos /\ Done
  /\ UNCHANGED <<system, carSta, count, mux, directGrab, rot, clip, plate, world, car,
                 wanted>>

RotateStep ==
  /\ Calls("rotate")
  /\ rot' = Head(todo).pos /\ Done
  /\ UNCHANGED <<system, carSta, count, mux, directGrab, lift, clip, plate, world, car,
                 wanted>>

PlateStep ==
  /\ Calls("plate")
  /\ plate' = IF Head(todo).color \in Color THEN Head(todo).color ELSE plate
  /\ Done
  /\ UNCHANGED <<system, carSta, count, mux, directGrab, lift, rot, clip, world, car,
                 wanted>>

\* What the open clip is over.
Under ==
  CASE rot = "Reset" /\ lift = "Stuff" -> OnPlate(plate)
    [] rot = "Vision" /\ lift = "RawArea" -> Raw
    [] rot = "Vision" /\ lift \in {"Grab", "Places", "Stack"} -> place
    [] OTHER -> Floor

Batch == IF nowTask = "TakeRaw1" THEN 1 ELSE 2

\* In the raw area the turntable has brought the colour that was seen.
CanGrasp(o) ==
  /\ at[o] = Under /\ Under # Floor
  /\ Under = Raw => o = [batch |-> Batch, color |-> seen]

\* At the height Places an object needs a free ring; at Stack, one below it.
Lands ==
  LET below == \E o \in Object : at[o] = Under
  IN IF below = (lift = "Stack") THEN Under ELSE Floor

ClipStep ==
  /\ Calls("clip")
  /\ clip' = Head(todo).state /\ Done
  /\ IF clip' = "Grasp"
     THEN /\ UNCHANGED legs
          /\ IF \E o \in Object : CanGrasp(o) /\ \A p \in Object : at[p] # InClip
             THEN \E o \in Object : CanGrasp(o) /\ at' = [at EXCEPT ![o] = InClip]
             ELSE UNCHANGED at
     ELSE /\ at' = [o \in Object |-> IF at[o] = InClip THEN Lands ELSE at[o]]
          /\ legs' = [o \in Object |-> IF at[o] = InClip THEN legs[o] + 1 ELSE legs[o]]
  /\ UNCHANGED <<system, carSta, count, mux, directGrab, lift, rot, plate, seen, car,
                 wanted>>

\* The order is repeated; the chassis takes it once.  A run on a finished
\* field is on one that has been set up again.
OrderStep ==
  /\ Calls("order")
  /\ place' = Head(todo).dest /\ arrived' = FALSE /\ Done
  /\ IF nowTask = "TaskStart"
     THEN at' = [o \in Object |-> Raw] /\ legs' = [o \in Object |-> 0]
     ELSE UNCHANGED <<at, legs>>
  /\ UNCHANGED <<system, carSta, count, mux, directGrab, arm, seen, wanted>>

\* The loop of SendRingToCar.
WaitStep ==
  /\ Calls("wait") /\ carSta = "Arrive"
  /\ carSta' = None /\ arrived' = TRUE /\ Done
  /\ UNCHANGED <<system, count, mux, directGrab, arm, world, place, wanted>>

MuxStep ==
  /\ Calls("take_mux") \/ Calls("release_mux")
  /\ mux' = (Head(todo).op = "take_mux") /\ Done
  /\ UNCHANGED <<system, carSta, count, arm, world, car, wanted, directGrab>>

DelayStep ==
  /\ Calls("delay")
  /\ Done
  /\ UNCHANGED <<system, carSta, count, mux, directGrab, arm, world, car, wanted>>

GotoStep ==
  /\ Calls("goto")
  /\ nowTask' = Head(todo).task
  /\ oldTask' = IF Head(todo).keep THEN nowTask ELSE oldTask
  /\ Done
  /\ UNCHANGED <<codeS, taskStart, carSta, count, mux, directGrab, arm, world, car, wanted>>

\* The end of the state Restart; a press under way has its effect after it.
StopStep ==
  /\ Calls("stop")
  /\ taskStart' = FALSE /\ wanted' = (wanted /\ ~taskStart) /\ Done
  /\ UNCHANGED <<nowTask, oldTask, codeS, carSta, count, mux, directGrab, arm, world, car>>

\* Mutant: PutCount is not set back.
PutStep_NoReset ==
  /\ Calls("put")
  /\ todo' = PutCalls(Head(todo).how, Head(todo).color, Head(todo).rotate) \o Tail(todo)
  /\ putCount' = putCount + 1
  /\ UNCHANGED <<system, carSta, takeCount, actionCount, oldValue, mux, directGrab, arm,
                 world, car, wanted>>

PutStep ==
  /\ Calls("put")
  /\ todo' = PutCalls(Head(todo).how, Head(todo).color, Head(todo).rotate) \o Tail(todo)
  /\ putCount' = (putCount + 1) % 3
  /\ UNCHANGED <<system, carSta, takeCount, actionCount, oldValue, mux, directGrab, arm,
                 world, car, wanted>>

\* Mutant: TakeCount is set back one call late.
GroundTakeStep_Late ==
  /\ Calls("ground_take")
  /\ todo' = GroundTakeCalls(Head(todo).color) \o Tail(todo)
  /\ takeCount' = IF takeCount = 3 THEN 0 ELSE takeCount + 1
  /\ UNCHANGED <<system, carSta, putCount, actionCount, oldValue, mux, directGrab, arm,
                 world, car, wanted>>

GroundTakeStep ==
  /\ Calls("ground_take")
  /\ todo' = GroundTakeCalls(Head(todo).color) \o Tail(todo)
  /\ takeCount' = (takeCount + 1) % 3
  /\ UNCHANGED <<system, carSta, putCount, actionCount, oldValue, mux, directGrab, arm,
                 world, car, wanted>>

TakeRawStep ==
  /\ Calls("take_raw")
  /\ seen' = Head(todo).color
  /\ todo' = TakeRawCalls \o Tail(todo)
  /\ actionCount' = (actionCount + 1) % 3
  /\ UNCHANGED <<system, carSta, putCount, takeCount, oldValue, mux, directGrab, arm, at,
                 legs, car, wanted>>

IdentifyStep ==
  /\ Calls("identify")
  /\ plate' = IF directGrab THEN plate ELSE Head(todo).color
  /\ carSta' = None
  /\ todo' = <<Look(Head(todo).update, Head(todo).color, Head(todo).update)>> \o Tail(todo)
  /\ UNCHANGED <<system, count, mux, directGrab, lift, rot, clip, world, car, wanted>>

\* Mutant: DirectGrab takes the object without turning the plate to its slot.
LookStep_NoPlate ==
  /\ Calls("look") /\ carSta \in Color
  /\ LET c == Head(todo)
         taken == ~c.first /\ carSta # oldValue /\ (directGrab \/ carSta = c.color)
     IN /\ todo' = <<IF taken THEN TakeRawMaterial(carSta) ELSE Look(c.update, c.color, FALSE)>>
                      \o Tail(todo)
        /\ oldValue' = IF c.first \/ taken THEN carSta ELSE oldValue
  /\ UNCHANGED <<system, carSta, putCount, takeCount, actionCount, mux, directGrab, arm,
                 world, car, wanted>>

\* Mutant: the first object is taken although its colour is the one just seen.
LookStep_Same ==
  /\ Calls("look") /\ carSta \in Color
  /\ LET c == Head(todo)
         taken == ~c.first /\ (IF directGrab THEN carSta # oldValue ELSE carSta = c.color)
     IN /\ todo' =
             IF taken
             THEN (IF directGrab THEN <<MaterialPosition(carSta)>> ELSE <<>>)
                    \o <<TakeRawMaterial(carSta)>> \o Tail(todo)
             ELSE <<Look(c.update, c.color, FALSE)>> \o Tail(todo)
        /\ oldValue' = IF c.first \/ directGrab \/ (c.update /\ ~taken) THEN carSta ELSE oldValue
  /\ UNCHANGED <<system, carSta, putCount, takeCount, actionCount, mux, directGrab, arm,
                 world, car, wanted>>

(***************************************************************************)
(* A round of the loop of IdentifyColorTake that sees a colour.  The first *)
(* colour of the first object is only remembered.                          *)
(***************************************************************************)
LookStep ==
  /\ Calls("look") /\ carSta \in Color
  /\ LET c == Head(todo)
         taken == /\ ~c.first
                  /\ IF directGrab THEN carSta # oldValue
                     ELSE carSta = c.color /\ (c.update => carSta # oldValue)
     IN /\ todo' =
             IF taken
             THEN (IF directGrab THEN <<MaterialPosition(carSta)>> ELSE <<>>)
                    \o <<TakeRawMaterial(carSta)>> \o Tail(todo)
             ELSE <<Look(c.update, c.color, FALSE)>> \o Tail(todo)
        /\ oldValue' = IF c.first \/ (directGrab /\ taken) \/ (~directGrab /\ c.update /\ ~taken)
                       THEN carSta ELSE oldValue
  /\ UNCHANGED <<system, carSta, putCount, takeCount, actionCount, mux, directGrab, arm,
                 world, car, wanted>>
-----------------------------------------------------------------------------
\* ReceCarState_Wire and ReceTaskCode_Mult of the receive thread.
ReceCarState_Wire ==
  /\ taskStart
  /\ carSta' \in Byte
  /\ UNCHANGED <<system, todo, count, mux, directGrab, arm, world, car, wanted>>

ReceTaskCode_Mult ==
  /\ taskStart /\ codeS = NoCode
  /\ codeS' \in Code
  /\ UNCHANGED <<nowTask, oldTask, taskStart, carSta, todo, count, mux, directGrab, arm,
                 world, car, wanted>>

\* KeyControlTask, while MainCtrl is in rt_thread_delay: a short press, which
\* resumes MainCtrl, and its end, after MainCtrl has run (the first press is
\* under way in Init); a persistent one, which fails to suspend MainCtrl.
KeyStarted ==
  /\ Calls("delay") /\ wanted /\ ~taskStart
  /\ taskStart' = TRUE
  /\ UNCHANGED <<nowTask, oldTask, codeS, carSta, todo, count, mux, directGrab, arm,
                 world, car, wanted>>

KeyShort ==
  /\ "short" \in KeyPress /\ Calls("delay") /\ ~wanted
  /\ ~taskStart /\ wanted' = TRUE /\ Done
  /\ UNCHANGED <<system, carSta, count, mux, directGrab, arm, world, car>>

KeyPersist ==
  /\ "persist" \in KeyPress /\ Calls("delay") /\ taskStart
  /\ taskStart' = FALSE /\ wanted' = FALSE
  /\ UNCHANGED <<nowTask, oldTask, codeS, carSta, todo, count, mux, directGrab, arm,
                 world, car>>

Step == Poll \/ LiftStep \/ RotateStep \/ PlateStep \/ ClipStep \/ OrderStep \/ WaitStep
          \/ MuxStep \/ DelayStep \/ GotoStep \/ StopStep \/ PutStep \/ GroundTakeStep
          \/ TakeRawStep \/ IdentifyStep \/ LookStep
Rece == ReceCarState_Wire \/ ReceTaskCode_Mult
Key  == KeyStarted \/ KeyShort \/ KeyPersist

Next == Step \/ Rece \/ Key

Spec == Init /\ [][Next]_vars
-----------------------------------------------------------------------------
\* The types, and at most one object in the clip.
TypeOK ==
  /\ nowTask \in Task /\ oldTask \in Task
  /\ codeS \in Code \cup {NoCode} /\ carSta \in Byte \cup {None}
  /\ taskStart \in BOOLEAN /\ mux \in BOOLEAN /\ arrived \in BOOLEAN /\ wanted \in BOOLEAN
  /\ putCount \in 0..2 /\ takeCount \in 0..2 /\ actionCount \in 0..2
  /\ oldValue \in Color \cup {None} /\ seen \in Color \cup {None} /\ plate \in Color
  /\ lift \in {"Reset", "Raw", "RawArea", "Stuff", "Aim", "Grab", "Places", "Stack", "Pile"}
  /\ rot \in {"Reset", "Vision"} /\ clip \in {"Grasp", "Release", "Avoid"}
  /\ \A o, p \in Object : at[o] = InClip /\ at[p] = InClip => o = p

(***************************************************************************)
(* The machine sorts: every object takes its way over the plate and the    *)
(* rough area to the staging area, always on its own colour.  This ties    *)
(* the order of the calls in the action groups, where the plate is turned  *)
(* and the chassis sent ahead for the next object, to where the objects    *)
(* really are, for every task code.                                        *)
(***************************************************************************)
StopOf(o) ==
  CASE at[o] = Raw /\ legs[o] = 0 -> "raw"
    [] at[o] = OnPlate(o.color) /\ legs[o] = 1 -> "plate1"
    [] at[o] = Ring("Rough", o.color) /\ legs[o] = 2 -> "rough"
    [] at[o] = OnPlate(o.color) /\ legs[o] = 3 -> "plate2"
    [] at[o] = Ring("Staging", o.color) /\ legs[o] = 4 -> "staging"
    [] at[o] = InClip -> <<"raw", "plate1", "rough", "plate2", "staging">>[legs[o] + 1]
    [] OTHER -> "lost"

\* With DirectGrab nothing is promised.
Sort == INSTANCE Sorting WITH
  stop <- [o \in Object |-> IF directGrab THEN "raw" ELSE StopOf(o)],
  held <- {o \in Object : ~directGrab /\ at[o] = InClip}

Sorts == Sort!Spec

(***************************************************************************)
(* MainCtrl gives Action_mux away only with an empty clip: a Bluetooth     *)
(* motion never finds the arm with an object in it, not even in GoStaging  *)
(* and GoStag2, where SendRingToCar moves the arm without the mutex.       *)
(***************************************************************************)
EmptyHanded == ~mux => \A o \in Object : at[o] # InClip

(***************************************************************************)
(* The arm turns only where nothing is in its way: at the top, or above    *)
(* the plate with the clip wide open ("opened wide enough, the lift need   *)
(* not be reset", Arm_Thread.c:366).                                       *)
(***************************************************************************)
TurnsClear ==
  [][rot' # rot => lift = "Reset" \/ (lift = "Stuff" /\ clip = "Release")]_vars

\* The statics of the action groups are back at their start between two rounds.
CountsReset == todo = <<>> => putCount = 0 /\ takeCount = 0 /\ actionCount = 0

\* Calibration always knows where to go on (no LCD_ERROR_EVENT).
CalibratKnows == nowTask = "Calibrat" => oldTask \in DOMAIN AfterCalibrat

\* The thread's own variables, taken together.
Consistent == TypeOK /\ CountsReset /\ CalibratKnows

\* In every slot of the plate is an object of the slot's colour, also when the
\* machine takes the objects as they come (DirectGrab).
OwnSlot == \A o \in Object : at[o][1] = "Plate" => at[o][2] = o.color

\* When the machine waits to be home, both batches stand in the staging area.
AllStaged ==
  nowTask = "Restart" /\ ~directGrab => \A o \in Object : at[o] = Ring("Staging", o.color)

(***************************************************************************)
(* "The first object is never taken, whatever its colour" (Arm_Thread.c,   *)
(* the comment on IdentifyColorTake): the first object taken of a batch is *)
(* of another colour than the one seen just before it, so it has come      *)
(* while the machine was looking.  With DirectGrab nothing is said: there  *)
(* oldValue is the colour taken before the object is.                      *)
(***************************************************************************)
FirstSkipped ==
  [][actionCount = 0 /\ actionCount' = 1 => seen' # oldValue \/ directGrab]_vars

(***************************************************************************)
(* How the mission uses the motor drive.  MainCtrl moves a motor with      *)
(* Action_mux, but that SendRingToCar resets the arm without it in         *)
(* GoStaging and GoStag2 (Allowed of Motor).                               *)
(***************************************************************************)
MovesWithMutex ==
  [][<<lift, rot>>' # <<lift, rot>> =>
       mux \/ (nowTask \in {"GoStaging", "GoStag2"} /\ lift' \in {lift, "Reset"}
                                                    /\ rot' \in {rot, "Reset"})]_vars

(***************************************************************************)
(* Places and Stack are gone to from the top, to which the arm was raised  *)
(* with the mutex that it has still: with the object in the clip, which    *)
(* closed below the top and is open whenever the mutex is released.        *)
(***************************************************************************)
PlacesFromTop ==
  [][/\ lift' # lift /\ lift' \in {"Places", "Stack"} => lift = "Reset" /\ clip = "Grasp"
     /\ clip # "Grasp" /\ clip' = "Grasp" => lift # "Reset" /\ mux
     /\ mux /\ ~mux' => clip # "Grasp"]_vars
-----------------------------------------------------------------------------
(***************************************************************************)
(* What the repository says of this code and it does not do.               *)
(***************************************************************************)

(***************************************************************************)
(* Key_Thread.c:129, a persistent press "stops the system": no motor moves *)
(* and no order is sent until a short press.                               *)
(***************************************************************************)
Stopped == [][~wanted => UNCHANGED <<arm, place>>]_vars
=============================================================================
